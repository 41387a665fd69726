SPECIFICATION Spec
CONSTANTS
  NumCmdInBuffer = 3
  IdxColMax = 3
  TmoCmdAuto = 1
  Inputs <- BlankInputs
  AutoInputs <- ModelAutoInputs
  StaleTexts <- ModelStaleTexts
  CommandOrder <- ModelCommands
INVARIANT RunsNamed
CHECK_DEADLOCK FALSE
