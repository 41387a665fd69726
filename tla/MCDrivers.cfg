SPECIFICATION Spec
CONSTANTS
  r = r
  a = a
  b = b
  NoProc = NoProc
  Procs = {r, a}
  Root = r
  Starts <- AnyDriver
  Ops = {"cancel", "repel", "whenFinishedRepel", "display"}
  Walkers = {r}
  NumBurst = 2
  Results = {"Positive", "Negative"}
INVARIANTS
  IInv
  PointerValid
PROPERTIES
  ShutdownBeforeDelete
  FlagsSticky
