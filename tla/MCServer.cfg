SPECIFICATION FairSpec
CONSTANTS
  Listeners <- AllListeners
  NumConns = 2
  Ports <- Clients
  Acts <- Actions
  Occupied = {"log"}
  Families = {"IPv4"}
  MaxConn <- Limit
  CntSkipMax = 1
  UpdateMs = 1
  NumEntries = 2
INVARIANT ServerInv
PROPERTY Listens TreeShown LogDelivered ServerEnds
