SPECIFICATION Spec
SYMMETRY NameSymmetry
CONSTANTS
  script = script
  ram = ram
  card = card
  NULL = NULL
  Names = {alice, bob}
  Items = {i1, i2, i3}
  Kinds = {script, card}
  NumSlots = 1
  Rooms = {lobby, attic}
  InitialRoom = lobby
  Size <- MCSize
  Mod <- MCMod
  SlotOf <- MCSlotOf
  DropOnPK = {script, card}
  DropOnExit = {card}
  NoDestroy = {card}
  Fixed = {}
  MaxItemsInRoom = 1
  MaxCarryItems = 2
  MaxCarryDisk = 3
  BaseHP = 1
  Wrap = 3
  MaxNPCItems = 1
INVARIANTS
  TypeOK
  ItemInOnePlace
  CarryAccounted
  MaxAccounted
  HPBounded
PROPERTY ItemsConserved
