CONSTANTS
  c1 = c1
  c2 = c2
  r1 = r1
  u1 = u1
  None = None
  Conns = {c1, c2}
  Rooms = {r1}
  Users = {u1}
  Marks = {m1}
  m1 = m1
  Requests = {q1, q2}
  q1 = q1
  q2 = q2
  Logins <- AllLogins
  Beats <- SomeBeats
  Polite = {c1}
  MaxBatch = 2
  TTL = 1
  MaxTime = 2
  MaxEpoch = 2
SPECIFICATION FairSpec
PROPERTY OnlySuperseded NoRevival ImplementsRegistry HeartbeatsAnswered
CHECK_DEADLOCK FALSE
