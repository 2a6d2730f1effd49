SPECIFICATION FairSpec
CONSTANTS
  Workloads = {kine}
  MaxReplicas = 2
  MaxScales = 2
  MaxFailures = 1
  MaxNoise = 1
  MaxRestarts = 1
INVARIANT VerdictIsCurrent
PROPERTY BecomesHealthy
CHECK_DEADLOCK FALSE
