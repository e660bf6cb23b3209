CONSTANTS
  r1 = r1
  r2 = r2
  e1 = e1
  bad = bad
  Base = Base
  Default = Default
  NoClient = NoClient
  Roles = {r1, r2}
  Endpoints = {e1}
  BadEndpoints = {bad}
  Lists <- SomeLists
SPECIFICATION Spec
INVARIANTS TypeOK RightClient AssumeOnce 
CHECK_DEADLOCK FALSE
