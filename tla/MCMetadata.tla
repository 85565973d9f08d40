----------------------------- MODULE MCMetadata -----------------------------
EXTENDS TransactionalMetadata, TLC

CONSTANTS k1, k2, v1, v2, a1, p1, p2, s1, s2, s3

NotGiven == -1
Blank == [value |-> Undefined, revision |-> NotGiven]

Plain(kind, data, expected) ==
  [kind |-> kind, data |-> data, expected |-> expected, actor |-> a1, locked |-> FALSE]

\* Writers that check nothing, the major revision or an item's revision, a request that
\* is stale from the start, and removals of one key and, under a lock, of all.
Mixed == {
  Plain("set", k1 :> Blank @@ k2 :> Blank, NotGiven),
  Plain("set", k1 :> [value |-> v2, revision |-> 2], 1),
  Plain("update", k1 :> [value |-> v2, revision |-> NotGiven], NotGiven),
  Plain("update", k2 :> [value |-> v2, revision |-> 1], NotGiven),
  Plain("remove", k1 :> Blank, NotGiven),
  [Plain("remove", NoItems, 2) EXCEPT !.locked = TRUE]}

OwnSockets == p1 :> s1 @@ p2 :> s2
SharedSocket == p1 :> s1 @@ p2 :> s1
=============================================================================
