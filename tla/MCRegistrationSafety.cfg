SPECIFICATION Spec
CONSTANTS
  s1 = s1  a = a  b = b
  Shards = {s1}
  APIServices = {a, b}
  Claims <- ClaimAll
  MaxIncarnations = 2
  MaxLag = 3
  MaxEdits = 1
  MaxFaults = 1
  MaxDrift = 0
SYMMETRY Symmetry
INVARIANTS TypeOK SettledWhenQuiet
PROPERTIES AppliedUnderFinalizer RecordedDeregistered
CHECK_DEADLOCK FALSE
