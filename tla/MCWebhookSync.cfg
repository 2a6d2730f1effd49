SPECIFICATION FairSpec
CONSTANTS
  None = None
  Validating = {v1}
  Mutating = {m1}
  Configs <- MCConfigs
  MaxChanges = 1
  MaxDrifts = 1
  MaxFaults = 1
INVARIANT ReadyMeansSynced
PROPERTIES ImplementsMirror Converges
