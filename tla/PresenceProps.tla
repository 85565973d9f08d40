---------------------------- MODULE PresenceProps ----------------------------
(***************************************************************************)
(* Correctness properties of the presence service.                         *)
(***************************************************************************)
EXTENDS Presence

-----------------------------------------------------------------------------
(* Under every interleaving, crashes of server processes included *)

\* What a snapshot can list, the reaper can find: a connection in room:conns is in
\* room:last_seen, where reapRoom looks for stale ones, and has the conn_meta entry
\* that tells reapRoom whose leave to announce.
IndexedIsReapable ==
  \A r \in Rooms : \A c \in conns[r] :
    lastSeen[r][c] > 0 /\ connMeta[r][c].user # None

\* A live session is in its room's conns, so every snapshot lists it, unless a reaper
\* pass that had found the previous session expired was crossed by its join.
LiveSessionIsIndexed ==
  \A c \in Conns : Live(c) /\ c \notin crossed => c \in conns[hash[c].room]

\* A heartbeat never brings a session back: a hash gets its room and user from the
\* transaction of a join only, however late the heartbeat's writes come.
OnlyJoinOpensSession ==
  [][\A c \in Conns :
       ~Live(c) /\ Live(c)' =>
         \E p \in Procs : pc[p] = "joinTx" /\ pc'[p] = "joinPublish" /\ job[p].conn = c]_vars

-----------------------------------------------------------------------------
(* With the heartbeat script as the only heartbeat path *)

\* No index outlives the others: a connection has a last_seen score or a conn_meta
\* entry in a room only while it is in the room's conns.
NoOrphanIndex ==
  \A r \in Rooms : \A c \in Conns \ crossed :
    lastSeen[r][c] > 0 \/ connMeta[r][c].user # None => c \in conns[r]

\* Somebody who removed a connection of user u from room r has yet to decide on
\* u's membership, or to carry the decision out.
Removing(r, u) ==
  \/ \E p \in Procs : /\ \/ pc[p] \in {"countUser", "dropMember"}
                         \/ pc[p] = "countRoom" /\ job[p].alone
                      /\ job[p].room = r /\ job[p].user = u
  \/ \E w \in Workers : /\ reaper[w].pc \in {"countUser", "dropMember"}
                        /\ RoomOf(w) = r /\ reaper[w].user = u

\* room:members holds no user without a connection in the room, once whoever
\* removed the last one is done.
MembersJustified ==
  \A r \in Rooms : \A u \in members[r] :
    \/ \E c \in Conns : connMeta[r][c].user = u
    \/ Removing(r, u)
    \/ \E l \in Logins : l.room = r /\ l.user = u /\ l.conn \in crossed

-----------------------------------------------------------------------------
(* With one request at a time on a connection *)

SessionOf(c) ==
  IF Live(c) THEN [room |-> hash[c].room, user |-> hash[c].user,
                   epoch |-> hash[c].epoch, state |-> hash[c].state]
  ELSE None

Registry == INSTANCE SessionRegistry
              WITH session <- [c \in Conns |-> SessionOf(c)], NoSession <- None

\* The service implements the session registry: whatever the reaper and the TTL do
\* between the reads and the writes of a request, epochs never regress within a
\* session and no accepted patch is undone.
ImplementsRegistry == Registry!Spec

Quiet(c) == ~Busy(c) /\ ~WorkedOn(c)

\* The events tell the truth: with nothing in progress on a connection, subscribers
\* draw it in exactly the rooms that index it, with the state its live hash holds.
RosterAgrees ==
  \A c \in Conns \ crossed : Quiet(c) =>
    \A r \in Rooms :
      /\ roster[r][c] # None <=> c \in conns[r]
      /\ Live(c) /\ hash[c].room = r => roster[r][c] = hash[c].state

-----------------------------------------------------------------------------
(* With the reaper running *)

\* A connection is indexed in a room the reaper visits, its hash is gone, its
\* last_seen is past the lookback, and no pass has crossed its join.
Zombie(r, c) ==
  /\ r \in activeRooms /\ c \in conns[r]
  /\ ~Exists(c)
  /\ lastSeen[r][c] + Lookback <= now
  /\ c \notin crossed

\* A zombie is eventually announced as gone to the subscribers, unless its session
\* comes back or the room stops being active with the zombie still in it.
ZombiesAnnounced ==
  \A r \in Rooms, c \in Conns :
    Zombie(r, c) ~> roster[r][c] = None \/ Exists(c) \/ (r \notin activeRooms /\ c \in conns[r])
=============================================================================
