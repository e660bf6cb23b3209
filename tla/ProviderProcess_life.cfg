CONSTANTS
  p1 = p1
  p2 = p2
  c1 = c1
  NoProc = NoProc
  Program = Program
  Procs = {p1, p2}
  Calls = {c1}
  Threshold = 2
  MaxFaults = 3
SPECIFICATION FairSpec
INVARIANTS TypeOK
PROPERTIES StaysReady Recovers StopsWhenAsked
