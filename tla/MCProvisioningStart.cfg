SPECIFICATION FairSpec
CONSTANTS
  Shards <- Databases
  Clusters <- FullCluster
  Connections = {"absent", "malformed", "valid"}
  Fragile = {}
  MaxEdits = 1
  MaxTroubles = 0
INVARIANTS Resolved Verified SelectsOwn QuietMeansProvisioned ReportIsCurrent
PROPERTY Settles
CHECK_DEADLOCK FALSE
