SPECIFICATION Spec
CONSTANTS
  Conns = {c1, c2}
  Players = {p1, p2, p3, p4}
  Names = {alice, bob}
  Rooms = {lobby, arena}
  InitialRoom = lobby
  StartRooms = {lobby}
  DiskNames = {bob}
  MaxTimer = 1
  MaxCmds = 1
  MaxData = 1
  NULL = NULL
PROPERTY LoginKeepsData
CHECK_DEADLOCK FALSE
