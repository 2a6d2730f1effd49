SPECIFICATION Spec
CONSTANTS
  Callers = {c1, c2}
  Keys = {"key"}
  KeyOf <- MCKeyOf
  Hosts = {h1, h2}
  None = None
  MaxVersion = 2
  MaxRotations = 1
  MaxDrops = 2
INVARIANTS NoMapRace GivenAsAsked InvalidatedIsGone
