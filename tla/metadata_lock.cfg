CONSTANTS
  k1 = k1
  k2 = k2
  v1 = v1
  v2 = v2
  a1 = a1
  a2 = a2
  p1 = p1
  p2 = p2
  NoCall = NoCall
  Nobody = Nobody
  ItemKeys = {k1, k2}
  Values = {v1, v2}
  Empty = v1
  Undefined = Undefined
  Actors = {a1, a2}
  Requests <- MixedRequests
  Calls = {p1, p2}
  MaxMajor = 3
SYMMETRY Interchangeable
SPECIFICATION Spec
INVARIANT ReplicaAgrees
PROPERTY ExclusiveWrites
