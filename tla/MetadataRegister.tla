-------------------------- MODULE MetadataRegister --------------------------
(***************************************************************************)
(* What channel metadata promises: every request that changes the record   *)
(* is checked against, and applied to, the contents of that moment, so no  *)
(* accepted change is lost and the major revision counts the changes.      *)
(***************************************************************************)
EXTENDS MetadataOps

VARIABLE channel   \* the contents of the channel's record

Init == channel = NoChannel

Change(q) ==
  /\ Passes(channel, q)
  /\ channel' = After(channel, q)

Next == \E q \in Requests : Change(q)

Spec == Init /\ [][Next]_channel
=============================================================================
