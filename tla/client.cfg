CONSTANTS
  s1 = s1
  s2 = s2
  k1 = k1
  k2 = k2
  a = a
  l1 = l1
  x1 = x1
  x2 = x2
  None = None
  Sockets = {s1, s2}
  Connects = {k1, k2}
  Ids = {a}
  Legacy = {l1}
  Shutdowns = {x1, x2}
SPECIFICATION FairSpec
INVARIANT NoStraySocket ChannelsUsable ListenersOwned HearsDisconnect
PROPERTY ConnectSettles ShutdownReturns
CHECK_DEADLOCK FALSE
