SPECIFICATION FairSpec
CONSTANTS
  A = A
  B = B
  Clients <- OneClient
  ClientIds = {1}
  Ports = {"p", "q"}
  Apps <- OneApp
  Versions = {"v"}
  Forcers = {A}
  MaxConnections = 1
  MaxChannels <- TwoTries
PROPERTIES AcknowledgedOpens ClosePropagates EndsProgress
CHECK_DEADLOCK FALSE
