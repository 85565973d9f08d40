CONSTANTS
  c1 = c1
  c2 = c2
  r1 = r1
  r2 = r2
  u1 = u1
  u2 = u2
  p1 = p1
  p2 = p2
  n1 = n1
  n2 = n2
  m1 = m1
  None = None
  Conns = {c1}
  Rooms = {r1}
  Users = {u1}
  Marks = {}
  Procs = {p1, p2}
  Nodes = {n1}
  Logins <- Single
  RequestEpochs = {2}
  Heartbeats = {"service", "script"}
  TTL = 1
  Lookback = 1
  MaxTime = 2
  MaxEpoch = 3
  Serial = FALSE
  Crashes = TRUE
SPECIFICATION Spec
INVARIANT TypeOK IndexedIsReapable LiveSessionIsIndexed
PROPERTY OnlyJoinOpensSession
SYMMETRY SlotSymmetry
