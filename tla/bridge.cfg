CONSTANTS
  p1 = p1
  p2 = p2
  d1 = d1
  d2 = d2
  s1 = s1
  s2 = s2
  s3 = s3
  s4 = s4
  None = None
  Presence = {p1, p2}
  Metadata = {d1, d2}
  Bridges <- OneBridge
  Links = {s1, s2, s3, s4}
SPECIFICATION FairSpec
INVARIANT OneSubscriber PresenceHears NothingLeft
PROPERTY CallsReturn
