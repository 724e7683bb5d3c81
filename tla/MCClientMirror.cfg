SPECIFICATION MirrorSpec
CONSTANTS
  boost = boost
  Rooms = {gate, hall}
  Start = gate
  Me = me
  Others = {ann}
  NPCs = {goon}
  Items = {boost, coin}
  DropOnPK = {boost, coin}
  NoItem = NoItem
  BaseCPU = 0
  Boost <- MCBoost
  Needs <- MCNeeds
  MaxLevel = 1
  MAX_ITEMS_IN_ROOM = 1
  MaxCarry = 1
  MaxPending = 1
  GoesOn = FALSE
INVARIANTS
  ShowsTheServer
  StaysInSync
  RefusesStrangersOnly
CHECK_DEADLOCK FALSE
