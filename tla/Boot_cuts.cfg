CONSTANTS
  MaxSeq = 4
  WriteFaults = TRUE
  ReadFaults = FALSE
  TrialUploads = FALSE
  Calls = {"confirm", "reject", "activate", "upload"}
SPECIFICATION FairSpec
INVARIANTS NeverBricked NoDowngrade TargetSparesBooted OutcomeTruthful
PROPERTIES UpdateTried TrustedJump ImplementsAB Recovers
