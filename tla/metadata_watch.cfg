CONSTANTS
  k1 = k1
  k2 = k2
  v1 = v1
  v2 = v2
  a1 = a1
  p1 = p1
  p2 = p2
  s1 = s1
  s2 = s2
  s3 = s3
  NoCall = NoCall
  Nobody = Nobody
  ItemKeys = {k1, k2}
  Values = {v1, v2}
  Empty = v1
  Undefined = Undefined
  Actors = {a1}
  Requests <- Mixed
  Calls = {p1, p2}
  Sockets = {s1, s2, s3}
  SocketOf <- OwnSockets
  PresenceOn = {s3}
  MaxRetries = 2
  MaxMajor = 3
SPECIFICATION FairSpec
PROPERTY ImplementsRegister CallsReturn
