CONSTANTS
  kms = kms
  oos = oos
  other = other
  c1 = c1
  c2 = c2
  c3 = c3
  Calls = {c1, c2, c3}
  Kinds = {kms, oos}
  Other = other
  Lists <- SomeLists
  Period = 2
  Timeout = 3
  Late = 1
  Slow = 5
  MaxPulls = 2
SPECIFICATION Spec
INVARIANTS AtTheSameTime
