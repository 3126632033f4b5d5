SPECIFICATION FairSpec
CONSTANTS
  Kinds = {"process", "container", "unknown"}
  MaxPieces = 8
  TailN = 1
  MaxChunk = 1
  QueueCap = 2
  ChanCap = 2
  MaxRotations = 2
INVARIANTS TypeOK SeenInOrder LinesWhole
PROPERTIES FollowerEnds ViewerEnds
CHECK_DEADLOCK FALSE
