SPECIFICATION FairSpec
CONSTANTS
  BUFFER = 2
  MaxRecord = 2
  Room = 2
  MaxBytes = 4
  MaxReads = 2
INVARIANTS SentExact OneInside
PROPERTIES OnlyPeerBlocks ReadLetsGo
CHECK_DEADLOCK FALSE
