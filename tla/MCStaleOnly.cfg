SPECIFICATION Spec
CONSTANTS
  None = None
  Validating = {v1}
  Mutating = {m1}
  Configs <- MCTekton
  MaxChanges = 0
  MaxDrifts = 0
  MaxFaults = 1
PROPERTY RemovesOnlyStale
