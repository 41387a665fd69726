SPECIFICATION FairSpec
CONSTANTS
  r = r
  a = a
  b = b
  NoProc = NoProc
  Procs = {r, a, b}
  Root = r
  Starts <- OneThread
  Ops = {"repel", "whenFinishedRepel"}
  Walkers = {r}
  NumBurst = 1
  Results = {"Positive"}
PROPERTIES
  UnusedDestroyed
  RepelledInTime
  KeepsPromises
