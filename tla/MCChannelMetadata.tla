------------------------- MODULE MCChannelMetadata -------------------------
EXTENDS ChannelMetadata, TLC

CONSTANTS k1, k2, v1, v2, a1, a2, p1, p2

NotGiven == -1
Blank == [value |-> Undefined, revision |-> NotGiven]

Locked(kind, data, expected, a) ==
  [kind |-> kind, data |-> data, expected |-> expected, actor |-> a, locked |-> TRUE]

Unlocked(kind, data, expected, a) ==
  [kind |-> kind, data |-> data, expected |-> expected, actor |-> a, locked |-> FALSE]

\* Two users who ask for the lock, whose requests check nothing, the major or an item's
\* revision, and a request that goes without it.
MixedRequests == {
  Unlocked("update", k1 :> Blank, NotGiven, a2),
  Locked("set", k1 :> Blank @@ k2 :> Blank, NotGiven, a1),
  Locked("update", k1 :> [value |-> v2, revision |-> NotGiven], NotGiven, a2),
  Locked("update", k2 :> [value |-> v2, revision |-> 1], NotGiven, a1),
  Locked("remove", k1 :> Blank, NotGiven, a2),
  Locked("remove", NoItems, 2, a1)}

Interchangeable == Permutations(Calls)
=============================================================================
