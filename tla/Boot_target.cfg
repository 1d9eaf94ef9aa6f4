CONSTANTS
  MaxSeq = 2
  WriteFaults = FALSE
  ReadFaults = TRUE
  TrialUploads = FALSE
  Calls = {"confirm", "activate", "upload"}
SPECIFICATION Spec
INVARIANT InactiveTarget
