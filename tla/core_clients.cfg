SPECIFICATION Spec
CONSTANTS
  A = A
  B = B
  d = d
  ok = ok
  fail = fail
  ChannelIds = {1}
  Counterparty <- Straight
  Data = {d}
  Timeouts = {2}
  Acks = {ok}
  Batches <- Singles
  MaxTime = 3
  TrustingPeriod = 1
  MaxClockDrift = 2
  May <- Troubled
  RecordedPaths <- ReceiptPaths
INVARIANTS TimeoutInv RecordedProofsStayTrue TimeoutExcludesReceipt
CHECK_DEADLOCK FALSE
