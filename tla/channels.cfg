CONSTANTS
  d1 = d1
  w1 = w1
  w2 = w2
  i1 = i1
  i2 = i2
  None = None
  Direct = {d1}
  Wrapped = {w1, w2}
  Calls = {i1, i2}
  HeartbeatIntervalMs = 1
  MaxMissed = 1
  Logger = TRUE
SPECIFICATION FairSpec
INVARIANT LoopHasState QuietOffline OneLoop
PROPERTY LateAnswerIgnored TimedCallsSettle
CHECK_DEADLOCK FALSE
