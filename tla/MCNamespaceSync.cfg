SPECIFICATION FairSpec
CONSTANTS
  Names <- MCNames
  System <- MCSystem
  MaxChanges = 1
  MaxDrifts = 1
  MaxFaults = 2
INVARIANT ReadyMeansMirrored
PROPERTIES ImplementsMirror Converges MirrorKeptUp
