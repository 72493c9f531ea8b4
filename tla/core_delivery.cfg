SPECIFICATION Spec
CONSTANTS
  A = A
  B = B
  d = d
  ok = ok
  fail = fail
  ChannelIds = {1}
  Counterparty <- Straight
  Data = {d}
  Timeouts = {2, 3}
  Acks = {ok, fail}
  Batches <- Singles
  MaxTime = 3
  TrustingPeriod = 2
  MaxClockDrift = 5
  May <- OneWay
  RecordedPaths = {}
INVARIANTS TypeOK SettledOnce ReceivedOnce AckIsReceivers
PROPERTY DeliversPackets
CHECK_DEADLOCK FALSE
