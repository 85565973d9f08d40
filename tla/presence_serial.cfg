CONSTANTS
  c1 = c1
  c2 = c2
  r1 = r1
  r2 = r2
  u1 = u1
  u2 = u2
  p1 = p1
  p2 = p2
  n1 = n1
  n2 = n2
  m1 = m1
  None = None
  Conns = {c1}
  Rooms = {r1}
  Users = {u1}
  Marks = {m1}
  Procs = {p1}
  Nodes = {n1, n2}
  Logins <- Single
  RequestEpochs = {3}
  Heartbeats = {"service"}
  TTL = 1
  Lookback = 1
  MaxTime = 3
  MaxEpoch = 4
  Serial = TRUE
  Crashes = FALSE
SPECIFICATION FairSpec
INVARIANT RosterAgrees
PROPERTY ImplementsRegistry ZombiesAnnounced
