SPECIFICATION FairSpec
CONSTANTS
  Specs <- MixedSpecs
  Connections = {"absent", "valid"}
  StaleReads = {"sts"}
  MaxEdits = 1
  MaxSwitches = 1
  MaxTroubles = 1
INVARIANTS OpensDatabase NeverRejected ReadyIsCurrent
PROPERTIES KeepsVolume PasswordKept Settles
CHECK_DEADLOCK FALSE
