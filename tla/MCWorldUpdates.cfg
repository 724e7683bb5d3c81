SPECIFICATION FairSpec
CONSTANTS
  Names = {alice}
  MAX_SAY_COUNTER = 4
  MAX_WALL_COUNTER = 2
  SayDrop = 2
  WallDrop = 1
  SpamPeriod = 2
  SpamPhase = 1
  MaxSpoken = 7
  Delays = {0, 13, 65}
  MinDelay = 12
  Notice <- MCNotice
  MaxGap = 2
  gate = gate
  yard = yard
  field = field
  north = north
  south = south
  wisp = wisp
  goon = goon
  NoRoom = NoRoom
  NPCs = {n1, n2, n3, n4, n5, n6}
  Vnums = {wisp, goon}
  Rooms = {gate, yard, field}
  Zones = {north, south}
  Zone <- MCZone
  Exits <- MCExits
  Table <- MCTable
CHECK_DEADLOCK FALSE
INVARIANTS
  RateLimited
  AllNoticesGiven
  PopulationBounded
PROPERTIES
  MuteEnds
