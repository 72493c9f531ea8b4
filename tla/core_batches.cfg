SPECIFICATION Spec
CONSTANTS
  A = A
  B = B
  d = d
  ok = ok
  fail = fail
  ChannelIds = {1, 2}
  Counterparty <- Crossed
  Data = {d}
  Timeouts = {3, 4}
  Acks = {ok, fail}
  Batches <- Pairs
  MaxTime = 2
  TrustingPeriod = 3
  MaxClockDrift = 5
  May <- BothWays
  RecordedPaths = {}
INVARIANTS MirrorAgrees BatchFaithful RecvWasSent
PROPERTY ProvableOnce
CHECK_DEADLOCK FALSE
