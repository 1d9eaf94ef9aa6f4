CONSTANTS
  MaxSeq = 4
  WriteFaults = TRUE
  ReadFaults = TRUE
  TrialUploads = FALSE
  Calls = {"confirm", "reject", "activate", "upload"}
SPECIFICATION Spec
INVARIANTS ChainInv UploadShape
PROPERTIES CommitWordVerified AnchorKept TrialOnce
