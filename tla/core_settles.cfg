SPECIFICATION FairSpec
CONSTANTS
  A = A
  B = B
  d = d
  ok = ok
  fail = fail
  ChannelIds = {1}
  Counterparty <- Straight
  Data = {d}
  Timeouts = {3}
  Acks = {ok}
  Batches <- Singles
  MaxTime = 4
  TrustingPeriod = 4
  MaxClockDrift = 5
  May <- Closing
  RecordedPaths = {}
PROPERTY Settles
CHECK_DEADLOCK FALSE
