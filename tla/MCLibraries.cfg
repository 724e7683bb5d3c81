SPECIFICATION LibSpec
CONSTANTS
  NoList = NoList
  Lists = {h1, h2}
  Nodes = {a, b, c}
  NoChunk = NoChunk
  Numbers = {1, 2}
  Bodies <- MCBodies
  OtherBytes <- MCOthers
  Bad = {2}
  Base = 4
  LenBytes = 2
  RecvMax = 5
  ChunkSize = 4
  MaxChunks = 3
  Roles = {"server", "client", "login"}
  MaxSent = 3
CHECK_DEADLOCK FALSE
INVARIANTS
  Coherent
  PrevAgrees
  ThrowsOnWrapOnly
PROPERTIES
  ImplementsListSpec
  EmptyingEnds
  HandlesWhatWasSent
  ServerHandlesAll
