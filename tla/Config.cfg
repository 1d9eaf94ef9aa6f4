CONSTANTS
  Tasks = {t1, t2}
  Spaces = {a, b}
  Payloads = {1, 9}
  MaxGeneration = 2
  Total = 34
  ENTRIES_PER_PAGE = 8
  ITEM_SIZE = 2
  MAX_BLOB_DATA_PER_PAGE = 8
  HEADER_LEN = 2
  Faults = TRUE
SPECIFICATION Spec
INVARIANTS GenerationNames CapacityKept RoomForReplace
SYMMETRY Symmetry
