SPECIFICATION FairSpec
CONSTANTS
  s1 = s1  a = a  b = b
  Shards = {s1}
  APIServices = {a}
  Claims <- ClaimAll
  MaxIncarnations = 2
  MaxLag = 3
  MaxEdits = 1
  MaxFaults = 1
  MaxDrift = 1
PROPERTIES DeletionCompletes Converges
CHECK_DEADLOCK FALSE
