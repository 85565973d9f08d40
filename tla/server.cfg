CONSTANTS
  p = p
  m = m
  l1 = l1
  l2 = l2
  k1 = k1
  k2 = k2
  g1 = g1
  g2 = g2
  None = None
  Presence = {p}
  Metadata = {m}
  Bridges <- TheBridge
  Links = {l1, l2}
  Clients = {k1, k2}
  Signals = {g1, g2}
SPECIFICATION FairServerSpec
INVARIANT NothingGoesOn
PROPERTY ShutdownEnds WorkDiesOut
CHECK_DEADLOCK FALSE
