SPECIFICATION FairSpec
CONSTANTS
  NumCmdInBuffer = 3
  IdxColMax = 2
  TmoCmdAuto = 1
  Inputs <- ModelInputs
  AutoInputs <- ModelAutoInputs
  StaleTexts <- ModelStaleTexts
  CommandOrder <- ModelCommands
INVARIANT EditInv
INVARIANT ShownIsLine
PROPERTY Edits
PROPERTY SessionEnds
CHECK_DEADLOCK FALSE
