SPECIFICATION Spec
CONSTANTS
  A = A
  B = B
  Clients <- OneClient
  ClientIds = {1, 2}
  Ports = {"p", "q"}
  Apps <- OneApp
  Versions = {"v", "w"}
  Forcers = {}
  MaxConnections = 2
  MaxChannels <- OneEach
INVARIANTS TypeOK ConnectionsPaired ChannelsPaired HandshakeInv
CHECK_DEADLOCK FALSE
