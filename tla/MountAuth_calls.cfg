CONSTANTS
  c1 = c1
  c2 = c2
  Calls = {c1, c2}
  Settings <- Setting
  Requests <- SomeRequests
SPECIFICATION Spec
SYMMETRY CallSymmetry
INVARIANTS TypeOK NarrowestIdentity  
