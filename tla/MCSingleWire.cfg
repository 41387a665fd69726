SPECIFICATION FairSpec
CONSTANTS
  MaxCmd = 2
  NumLogs = 1
  SizeBufIn = 2
  CntDelayMin = 7
  EndsAtStart = 2
  SchedWaits = TRUE
INVARIANT WireInv AnsweredOnce
PROPERTY CmdAnswered
