SPECIFICATION FairSpec
CONSTANTS
  TmoConnDone = 2
  LenBuf = 2
  NumBytes = 3
INVARIANTS
  TypeOK
  DescriptorOwned
  NothingLost
  SendsWhenConnected
  ResultTells
PROPERTIES
  NegativeIsFinal
  Ends
  ConnectEnds
