SPECIFICATION WaitSpec
CONSTANTS
  Conns = {c1, c2}
  Players = {p1, p2}
  Names = {bob}
  Rooms = {lobby, arena}
  InitialRoom = lobby
  StartRooms = {lobby}
  DiskNames = {bob}
  MaxTimer = 2
  MaxCmds = 1
  MaxData = 1
  NULL = NULL
PROPERTY NoSilentConnection
CHECK_DEADLOCK FALSE
