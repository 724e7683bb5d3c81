SPECIFICATION Spec
CONSTANTS
  script = script
  ram = ram
  card = card
  NULL = NULL
  Names = {alice}
  Items = {i1, i2}
  Kinds = {script, ram}
  NumSlots = 1
  Rooms = {lobby}
  InitialRoom = lobby
  Size <- MCSize
  Mod <- MCMod
  SlotOf <- MCSlotOf
  DropOnPK = {script, ram}
  DropOnExit = {script}
  NoDestroy = {ram}
  Fixed = {}
  MaxItemsInRoom = 1
  MaxCarryItems = 2
  MaxCarryDisk = 3
  BaseHP = 1
  Wrap = 3
  MaxNPCItems = 1
PROPERTY ExitDropsFlagged
