CONSTANTS
  EraseSize = 4
  WriteSize = 2
  BatchSize = 8
  PartSizes = {8, 10, 12, 20}
  Sizes = {1, 4, 8, 11, 13, 17}
  Chunks = {1, 3, 9}
  MaxFailures = 2
SPECIFICATION FairSpec
INVARIANTS DurableStored ProgramsErasedOnly NeighbourUntouched CommittedExact
PROPERTY Completes
CHECK_DEADLOCK FALSE
