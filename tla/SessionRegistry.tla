--------------------------- MODULE SessionRegistry ---------------------------
(***************************************************************************)
(* What the presence service promises of a connection's session, with      *)
(* every request taken as one step: a new session's epoch exceeds that of  *)
(* the one it replaces, and while a session lasts its room and user are    *)
(* fixed, its epoch does not regress and no state patch is undone.         *)
(***************************************************************************)
EXTENDS Naturals

CONSTANTS Conns, Rooms, Users, Marks, NoSession

VARIABLE session   \* the session of each connection, or NoSession

Session == [room: Rooms, user: Users, epoch: Nat, state: SUBSET Marks]

Open == {c \in Conns : session[c] # NoSession}

Init == session = [c \in Conns |-> NoSession]

\* A step that concerns the session of one connection only.
Only(c) == session' = [session EXCEPT ![c] = session'[c]]

\* presence:join
Join(c) ==
  /\ Only(c)
  /\ session'[c] \in Session
  /\ c \in Open => session'[c].epoch > session[c].epoch

\* presence:heartbeat: fenced by the epoch, merged into the state.
Heartbeat(c) ==
  /\ Only(c)
  /\ c \in Open
  /\ session'[c] \in [room: {session[c].room}, user: {session[c].user},
                      epoch: Nat, state: SUBSET Marks]
  /\ session'[c].epoch >= session[c].epoch
  /\ session[c].state \subseteq session'[c].state

\* presence:leave, disconnect or the TTL; several sessions may expire at once.
Close ==
  session' = [c \in Conns |-> IF session'[c] = NoSession THEN NoSession ELSE session[c]]

Next == (\E c \in Conns : Join(c) \/ Heartbeat(c)) \/ Close

Spec == Init /\ [][Next]_session
=============================================================================
