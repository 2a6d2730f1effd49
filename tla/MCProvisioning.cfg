SPECIFICATION Spec
CONSTANTS
  Shards <- InClusterShards
  Clusters <- FullCluster
  Connections = {"valid"}
  Fragile = {"Deployment", "ServiceMonitor"}
  MaxEdits = 1
  MaxTroubles = 1
INVARIANTS QuietMeansProvisioned NoLeftovers
PROPERTY KeepsWanted
CHECK_DEADLOCK FALSE
