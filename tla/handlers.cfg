CONSTANTS
  c1 = c1
  r1 = r1
  r2 = r2
  u1 = u1
  u2 = u2
  k1 = k1
  k2 = k2
  None = None
  Batched = TRUE
  Conns = {c1}
  Rooms = {r1, r2}
  Users = {u1, u2}
  Calls = {k1, k2}
  MaxTime = 2
  MaxEpoch = 3
SPECIFICATION FairSpec
INVARIANT HearsItsRoom KnowsItsSession GoneHasLeft
PROPERTY NeverFenced OnlySupersededUnanswered
CHECK_DEADLOCK FALSE
