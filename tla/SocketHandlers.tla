--------------------------- MODULE SocketHandlers ---------------------------
(***************************************************************************)
(* The Socket.IO handlers (backend/src/presence/handlers.ts): the presence *)
(* and metadata calls of a socket, each awaiting the service, beside the   *)
(* Socket.IO rooms and socket.data the handlers keep.  The service is      *)
(* taken as SessionRegistry describes it: a call takes effect in one step, *)
(* between being made and being answered.                                  *)
(***************************************************************************)
EXTENDS Naturals

CONSTANTS
  Conns,      \* sockets, by their id
  Rooms, Users,
  Calls,      \* calls that can be unanswered at once
  Batched,    \* does the context have a HeartbeatBatcher
  None,       \* undefined
  MaxTime,    \* bound: the clock stops here
  MaxEpoch    \* bound: no join that would take a session's epoch past it

ASSUME HandlersAssumption ==
  /\ Batched \in BOOLEAN
  /\ None \notin Conns \union Rooms \union Users
  /\ MaxTime \in Nat \ {0}
  /\ MaxEpoch \in Nat

VARIABLES
  now,            \* Date.now()
  session,        \* prs:conn:<connId>, as the service keeps it
  connected,      \* the sockets that are connected
  rooms,          \* the Socket.IO rooms each socket is in
  presenceRoom,   \* socket.data.presenceRoomId
  presenceUser,   \* socket.data.presenceUserId
  known,          \* the epoch the client was last told, 0: none
  call,           \* the calls being handled
  strained        \* history: sockets with a failed call, or a call made before an answer

vars == <<now, session, connected, rooms, presenceRoom, presenceUser, known, call, strained>>
socketVars == <<connected, rooms, presenceRoom, presenceUser>>

Session == [room: Rooms, user: Users, epoch: Nat]

\* What a handler awaits, and what it needs for the rest of its work.
Waits == {"join", "joined", "selfEpoch", "buffered", "superseded", "beat", "beatEpoch",
          "leave", "left", "gone", "metadata"}
Call == [pc: Waits, conn: Conns, room: Rooms \union {None}, user: Users \union {None},
         epoch: Nat]
Blank(pc, c) == [pc |-> pc, conn |-> c, room |-> None, user |-> None, epoch |-> 0]

ASSUME CallAssumption == None \notin Call

\* Type invariant: the shapes of sessions, socket data and calls.
TypeOK ==
  /\ now \in Nat \ {0}
  /\ session \in [Conns -> Session \union {None}]
  /\ connected \subseteq Conns
  /\ rooms \in [Conns -> SUBSET Rooms]
  /\ presenceRoom \in [Conns -> Rooms \union {None}]
  /\ presenceUser \in [Conns -> Users \union {None}]
  /\ known \in [Conns -> Nat]
  /\ call \in [Calls -> Call \union {None}]
  /\ strained \subseteq Conns

Init ==
  /\ now = 1
  /\ session = [c \in Conns |-> None]
  /\ connected = Conns
  /\ rooms = [c \in Conns |-> {}]
  /\ presenceRoom = [c \in Conns |-> None]
  /\ presenceUser = [c \in Conns |-> None]
  /\ known = [c \in Conns |-> 0]
  /\ call = [k \in Calls |-> None]
  /\ strained = {}

CallsOf(c) == {k \in Calls : call[k] # None /\ call[k].conn = c}

\* A client need not have the answer to a call before it makes the next, or goes.
Strain(c) == strained' = IF CallsOf(c) = {} THEN strained ELSE strained \union {c}
Receive(k, c) == call[k] = None /\ c \in connected /\ Strain(c)

Await(k, next) == call' = [call EXCEPT ![k] = next]
Answer(k) == call' = [call EXCEPT ![k] = None]

-----------------------------------------------------------------------------
(* presence:join *)

\* The socket enters the Socket.IO room, and service.join is called.  A socket whose
\* join to another room has been answered is refused, which changes nothing.
Join(k) ==
  \E c \in Conns, r \in Rooms, u \in Users :
    /\ Receive(k, c)
    /\ presenceRoom[c] \in {None, r}
    /\ rooms' = [rooms EXCEPT ![c] = @ \union {r}]
    /\ Await(k, [Blank("join", c) EXCEPT !.room = r, !.user = u])
    /\ UNCHANGED <<now, session, connected, presenceRoom, presenceUser, known>>

EpochOf(c) == IF session[c] = None THEN 0 ELSE session[c].epoch

\* nextEpoch(previous, now)
NextEpoch(previous) == IF previous = 0 \/ previous + 1 < now THEN now ELSE previous + 1

\* service.join writes the session.
JoinTakesEffect(k) ==
  /\ call[k] # None /\ call[k].pc = "join"
  /\ LET c == call[k].conn
         e == NextEpoch(EpochOf(c))
     IN /\ e <= MaxEpoch
        /\ session' = [session EXCEPT ![c] = [room |-> call[k].room, user |-> call[k].user,
                                              epoch |-> e]]
  /\ Await(k, [call[k] EXCEPT !.pc = "joined"])
  /\ UNCHANGED <<now, socketVars, known, strained>>

Tell(c, e) == known' = [known EXCEPT ![c] = e]

\* Mutant of Joined: a rejoin keeps the room the socket has.
JoinedKeepsUser(k) ==
  /\ call[k] # None /\ call[k].pc = "joined"
  /\ LET c == call[k].conn IN
     /\ presenceRoom' = [presenceRoom EXCEPT ![c] = call[k].room]
     /\ presenceUser' = [presenceUser EXCEPT ![c] = IF @ = None THEN call[k].user ELSE @]
     /\ IF session[c] # None THEN Tell(c, session[c].epoch) /\ Answer(k)
        ELSE Await(k, [call[k] EXCEPT !.pc = "selfEpoch"]) /\ UNCHANGED known
  /\ UNCHANGED <<now, session, connected, rooms, strained>>

\* Mutant of Joined: the client is told the clock.
JoinedTellsClock(k) ==
  /\ call[k] # None /\ call[k].pc = "joined"
  /\ LET c == call[k].conn IN
     /\ presenceRoom' = [presenceRoom EXCEPT ![c] = call[k].room]
     /\ presenceUser' = [presenceUser EXCEPT ![c] = call[k].user]
     /\ Tell(c, now)
  /\ Answer(k)
  /\ UNCHANGED <<now, session, connected, rooms, strained>>

\* service.join has answered: the socket has its room, and the client is told the
\* epoch the snapshot has for it.
Joined(k) ==
  /\ call[k] # None /\ call[k].pc = "joined"
  /\ LET c == call[k].conn IN
     /\ presenceRoom' = [presenceRoom EXCEPT ![c] = call[k].room]
     /\ presenceUser' = [presenceUser EXCEPT ![c] = call[k].user]
     /\ IF session[c] # None THEN Tell(c, session[c].epoch) /\ Answer(k)
        ELSE Await(k, [call[k] EXCEPT !.pc = "selfEpoch"]) /\ UNCHANGED known
  /\ UNCHANGED <<now, session, connected, rooms, strained>>

\* The snapshot did not have it: the stored epoch, or else the clock.
SelfEpoch(k) ==
  /\ call[k] # None /\ call[k].pc = "selfEpoch"
  /\ Tell(call[k].conn, IF session[call[k].conn] # None THEN EpochOf(call[k].conn) ELSE now)
  /\ Answer(k)
  /\ UNCHANGED <<now, session, socketVars, strained>>

\* Redis fails service.join or the read of the epoch: the socket leaves the room.
JoinFails(k) ==
  /\ call[k] # None /\ call[k].pc \in {"join", "joined", "selfEpoch"}
  /\ rooms' = [rooms EXCEPT ![call[k].conn] = @ \ {call[k].room}]
  /\ strained' = strained \union {call[k].conn}
  /\ Answer(k)
  /\ UNCHANGED <<now, session, connected, presenceRoom, presenceUser, known>>

-----------------------------------------------------------------------------
(* presence:heartbeat *)

Buffered == {k \in Calls : call[k] # None /\ call[k].pc = "buffered"}

\* A heartbeat the batcher still has in its buffer gives way to a later one of the
\* same socket, and its promise is forgotten.
Supersede(k, x) ==
  call' = [j \in Calls |-> IF j = k THEN x
                           ELSE IF j \in Buffered /\ call[j].conn = x.conn
                                THEN [call[j] EXCEPT !.pc = "superseded"]
                                ELSE call[j]]

\* The client sends the epoch it was told, or none.
Heartbeat(k) ==
  \E c \in Conns : \E e \in {0, known[c]} :
    /\ Receive(k, c)
    /\ Supersede(k, [Blank(IF Batched THEN "buffered" ELSE "beat", c) EXCEPT !.epoch = e])
    /\ UNCHANGED <<now, session, socketVars, known>>

\* Mutant of Flush: the heartbeats of sockets that disconnected are dropped.
FlushConnected ==
  /\ Buffered # {}
  /\ call' = [k \in Calls |-> IF k \in Buffered /\ call[k].conn \in connected
                              THEN [call[k] EXCEPT !.pc = "beat"] ELSE call[k]]
  /\ UNCHANGED <<now, session, socketVars, known, strained>>

\* The batcher sends what it has: its window closes, or the buffer is full.
Flush ==
  /\ Buffered # {}
  /\ call' = [k \in Calls |-> IF k \in Buffered THEN [call[k] EXCEPT !.pc = "beat"] ELSE call[k]]
  /\ UNCHANGED <<now, session, socketVars, known, strained>>

Fenced(c, e) == e # 0 /\ e < EpochOf(c)

\* The script, the batch or service.heartbeat, whichever the context has: a heartbeat of
\* no session, or with an epoch behind, changes nothing and returns false.
HeartbeatTakesEffect(k) ==
  /\ call[k] # None /\ call[k].pc = "beat"
  /\ LET c == call[k].conn IN
     session' = IF session[c] # None /\ call[k].epoch > EpochOf(c)
                THEN [session EXCEPT ![c].epoch = call[k].epoch] ELSE session
  /\ Await(k, [call[k] EXCEPT !.pc = "beatEpoch"])
  /\ UNCHANGED <<now, socketVars, known, strained>>

\* The epoch for the answer, which a refused heartbeat gets too, is read by a command of
\* its own; the answer has none when the key is gone.
HeartbeatAnswered(k) ==
  /\ call[k] # None /\ call[k].pc = "beatEpoch"
  /\ LET c == call[k].conn IN
     IF session[c] # None THEN Tell(c, session[c].epoch) ELSE UNCHANGED known
  /\ Answer(k)
  /\ UNCHANGED <<now, session, socketVars, strained>>

-----------------------------------------------------------------------------
(* presence:leave and disconnect *)

Leave(k) ==
  \E c \in Conns :
    /\ Receive(k, c)
    /\ Await(k, Blank("leave", c))
    /\ UNCHANGED <<now, session, socketVars, known>>

\* Mutant of Disconnect: the presence session is left to its TTL.
DisconnectQuits(k) ==
  \E c \in connected :
    /\ call[k] = None
    /\ Strain(c)
    /\ connected' = connected \ {c}
    /\ rooms' = [rooms EXCEPT ![c] = {}]
    /\ UNCHANGED <<now, session, presenceRoom, presenceUser, known, call>>

\* Socket.IO takes the socket out of its rooms, and the handler calls service.leave.
Disconnect(k) ==
  \E c \in connected :
    /\ call[k] = None
    /\ Strain(c)
    /\ connected' = connected \ {c}
    /\ rooms' = [rooms EXCEPT ![c] = {}]
    /\ Await(k, Blank("gone", c))
    /\ UNCHANGED <<now, session, presenceRoom, presenceUser, known>>

\* service.leave deletes the session and answers with its room; null when there is none.
LeaveTakesEffect(k) ==
  /\ call[k] # None /\ call[k].pc = "leave"
  /\ LET c == call[k].conn IN
     /\ session' = [session EXCEPT ![c] = None]
     /\ Await(k, [call[k] EXCEPT !.pc = "left",
                                 !.room = IF session[c] = None THEN None ELSE session[c].room])
  /\ UNCHANGED <<now, socketVars, known, strained>>

\* The disconnect handler's service.leave returns, and nothing is left to do.
GoneTakesEffect(k) ==
  /\ call[k] # None /\ call[k].pc = "gone"
  /\ session' = [session EXCEPT ![call[k].conn] = None]
  /\ Answer(k)
  /\ UNCHANGED <<now, socketVars, known, strained>>

\* Mutant of Left: only the Socket.IO room is left.
LeftKeepsData(k) ==
  /\ call[k] # None /\ call[k].pc = "left"
  /\ rooms' = [rooms EXCEPT ![call[k].conn] = @ \ {call[k].room}]
  /\ Answer(k)
  /\ UNCHANGED <<now, session, connected, presenceRoom, presenceUser, known, strained>>

\* The socket leaves that room, and its data is cleared whatever the answer was.
Left(k) ==
  /\ call[k] # None /\ call[k].pc = "left"
  /\ LET c == call[k].conn IN
     /\ rooms' = [rooms EXCEPT ![c] = @ \ {call[k].room}]
     /\ presenceRoom' = [presenceRoom EXCEPT ![c] = None]
     /\ presenceUser' = [presenceUser EXCEPT ![c] = None]
  /\ Answer(k)
  /\ UNCHANGED <<now, session, connected, known, strained>>

-----------------------------------------------------------------------------
(* metadata:setChannel, updateChannel, removeChannel and getChannel *)

\* The change is made in the name of the user the socket has joined as.
Metadata(k) ==
  \E c \in Conns :
    /\ Receive(k, c)
    /\ Await(k, [Blank("metadata", c) EXCEPT !.user = presenceUser[c]])
    /\ UNCHANGED <<now, session, socketVars, known>>

\* The service or the transactional wrapper returns or throws: both are answered.
MetadataAnswered(k) ==
  /\ call[k] # None /\ call[k].pc = "metadata"
  /\ Answer(k)
  /\ UNCHANGED <<now, session, socketVars, known, strained>>

\* Redis fails a heartbeat or a leave, or dispose rejects what the batcher has: the error
\* is answered, or logged for a disconnect.
Fails(k) ==
  /\ call[k] # None /\ call[k].pc \in {"buffered", "beat", "beatEpoch", "leave", "left", "gone"}
  /\ strained' = strained \union {call[k].conn}
  /\ Answer(k)
  /\ UNCHANGED <<now, session, socketVars, known>>

-----------------------------------------------------------------------------
(* Time *)

\* The TTL of a connection runs out.
Expire(c) ==
  /\ session[c] # None
  /\ session' = [session EXCEPT ![c] = None]
  /\ UNCHANGED <<now, socketVars, known, call, strained>>

Tick ==
  /\ now < MaxTime
  /\ now' = now + 1
  /\ UNCHANGED <<session, socketVars, known, call, strained>>

Make(k) == Join(k) \/ Heartbeat(k) \/ Leave(k) \/ Metadata(k) \/ Disconnect(k)
Proceed(k) == \/ JoinTakesEffect(k) \/ Joined(k) \/ SelfEpoch(k)
              \/ HeartbeatTakesEffect(k) \/ HeartbeatAnswered(k)
              \/ LeaveTakesEffect(k) \/ Left(k) \/ GoneTakesEffect(k)
              \/ MetadataAnswered(k)

Next ==
  \/ \E k \in Calls : Make(k) \/ Proceed(k) \/ JoinFails(k) \/ Fails(k)
  \/ Flush
  \/ \E c \in Conns : Expire(c)
  \/ Tick

Spec == Init /\ [][Next]_vars

\* Redis answers or fails what it is asked, and the batcher's window closes.
FairSpec == Spec /\ WF_vars(Flush) /\ \A k \in Calls : WF_vars(Proceed(k) \/ JoinFails(k))

-----------------------------------------------------------------------------
(* Properties *)

\* The sockets with no call in progress whose calls have been one at a time and have
\* not failed.
Settled == {c \in connected \ strained : CallsOf(c) = {}}

\* A settled socket that has a presence room hears that room, though its session may
\* have expired meanwhile.
HearsItsRoom ==
  \A c \in Settled : presenceRoom[c] # None => presenceRoom[c] \in rooms[c]

\* A settled socket that has a session has it in its presence room, in its user's name
\* and with the epoch its client was told: the room check of a later join, the author
\* of a metadata change and the fence of a heartbeat all go by the live session.
KnowsItsSession ==
  \A c \in Settled : session[c] # None =>
    session[c] = [room |-> presenceRoom[c], user |-> presenceUser[c], epoch |-> known[c]]

\* A socket that is gone has left its session, unless a call of it failed or was in
\* progress at the disconnect: what then remains is for the TTL and the reaper.
GoneHasLeft ==
  \A c \in Conns \ (connected \union strained) : CallsOf(c) = {} => session[c] = None

\* A heartbeat that carries the epoch the client was told is not refused as stale.
NeverFenced ==
  [][\A k \in Calls : call[k] # None /\ call[k].conn \notin strained /\ HeartbeatTakesEffect(k)
       => ~Fenced(call[k].conn, call[k].epoch)]_vars

\* Every call is answered, with its result or an error, save a heartbeat that a later one
\* of its socket replaced in the batcher's buffer; and that befalls only a client that did
\* not wait for the answer.
OnlySupersededUnanswered ==
  \A k \in Calls :
    call[k] # None ~> \/ call[k] = None
                      \/ call[k].pc = "superseded" /\ call[k].conn \in strained

=============================================================================
