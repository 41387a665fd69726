SPECIFICATION Spec
CONSTANTS
  r = r
  a = a
  b = b
  NoProc = NoProc
  Procs = {r, a, b}
  Root = r
  Starts <- NestedThreads
  Ops = {"repel"}
  Walkers = {r}
  NumBurst = 1
  Results = {}
INVARIANTS
  DriversLive
  TreeGone
  WalkLive
  BottomUp
