SPECIFICATION FairSpec
CONSTANTS
  Workloads = {"secondary"}
  CRDs = {"crd"}
  APIServices = {"api"}
  MaxChanges = 2
  MaxOutages = 2
  MaxFaults = 1
INVARIANTS QuietMeansServing ConditionsAgree
PROPERTY BecomesReady
CHECK_DEADLOCK FALSE
