SPECIFICATION FairSpec
CONSTANTS
  square = square
  hall = hall
  NoRoom = NoRoom
  Players = {p1, p2}
  NPCs = {n1, n2}
  Rooms = {square, hall}
  PKRooms = {square}
  Exits <- MCExits
  SameZone <- MCExits
  SpawnRooms = {hall}
  StartRooms = {square}
  Stationary = {n1}
  Aggressive = {n1}
  OnEnter = {n2}
  Blocking = {n2}
INVARIANTS
  TypeOK
  PvPOnlyInPKRooms
  Engaged
  LoopVisitsLiving
PROPERTIES
  BlockedStays
  TargetsGetDropped
