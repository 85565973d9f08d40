---------------------------- MODULE HandlersProofs ----------------------------
(***************************************************************************)
(* Proofs about SocketHandlers, for any number of sockets, rooms, users    *)
(* and overlapping calls: what the handlers keep of a socket agrees with   *)
(* its session.                                                            *)
(***************************************************************************)
EXTENDS SocketHandlers, TLAPS

\* The handlers' data and the client's epoch are those of the session.
Matches(c) ==
  session[c] # None =>
    session[c] = [room |-> presenceRoom[c], user |-> presenceUser[c], epoch |-> known[c]]

\* The socket is in the Socket.IO room of its presence room.
Hears(c) == presenceRoom[c] # None => presenceRoom[c] \in rooms[c]

\* How far session and data may be apart while a call is in progress.
InCall(c, k) ==
  /\ call[k].pc # "superseded"
  /\ call[k].pc \notin {"leave", "left", "gone"} => c \in connected
  /\ call[k].pc = "gone" => c \notin connected
  /\ call[k].pc \in {"join", "buffered", "beat", "beatEpoch", "metadata"} => Matches(c) /\ Hears(c)
  /\ call[k].pc \in {"join", "joined"} => call[k].room \in rooms[c]
  /\ call[k].pc = "joined" /\ session[c] # None =>
       session[c].room = call[k].room /\ session[c].user = call[k].user
  /\ call[k].pc = "selfEpoch" => session[c] = None /\ Hears(c)
  /\ call[k].pc \in {"buffered", "beat"} => call[k].epoch \in {0, known[c]}
  /\ call[k].pc = "left" => session[c] = None

\* A socket whose calls have been one at a time and have not failed.
Sound(c) ==
  /\ \A j, k \in CallsOf(c) : j = k
  /\ CallsOf(c) = {} => IF c \in connected THEN Matches(c) /\ Hears(c) ELSE session[c] = None
  /\ \A k \in CallsOf(c) : InCall(c, k)

\* A join has a room and a user.
JoinsAreNamed ==
  \A k \in Calls : call[k] # None /\ call[k].pc = "join" => call[k].room \in Rooms /\ call[k].user \in Users

IInv == TypeOK /\ JoinsAreNamed /\ \A c \in Conns \ strained : Sound(c)

-----------------------------------------------------------------------------
(* Calls *)

LEMMA BlankType ==
  ASSUME NEW c \in Conns, NEW pc \in Waits
  PROVE  Blank(pc, c) \in Call
BY DEF Blank, Call

\* A call that is made or goes on is its socket's, and nobody else's calls change.
LEMMA AwaitCalls ==
  ASSUME TypeOK, NEW k \in Calls, NEW x \in Call, Await(k, x),
         call[k] = None \/ call[k].conn = x.conn, JoinsAreNamed,
         x.pc = "join" => x.room \in Rooms /\ x.user \in Users
  PROVE  /\ call' \in [Calls -> Call \union {None}]
         /\ call'[k] = x
         /\ \A j \in Calls : j # k => call'[j] = call[j]
         /\ CallsOf(x.conn)' = CallsOf(x.conn) \union {k}
         /\ \A c \in Conns : c # x.conn => CallsOf(c)' = CallsOf(c) /\ k \notin CallsOf(c)
         /\ JoinsAreNamed'
<1>1. /\ call' \in [Calls -> Call \union {None}]
      /\ call'[k] = x
      /\ \A j \in Calls : j # k => call'[j] = call[j]
  BY DEF TypeOK, Await
<1>2. x # None
  BY CallAssumption
<1> QED
  BY <1>1, <1>2 DEF CallsOf, JoinsAreNamed

\* A call that goes on differs in what it awaits.
LEMMA GoesOn ==
  ASSUME TypeOK, JoinsAreNamed, NEW k \in Calls, call[k] # None,
         NEW pc \in {"joined", "selfEpoch", "beatEpoch"}, Await(k, [call[k] EXCEPT !.pc = pc])
  PROVE  /\ call' \in [Calls -> Call \union {None}]
         /\ call'[k].pc = pc /\ call'[k].room = call[k].room /\ call'[k].user = call[k].user
         /\ \A j \in Calls : j # k => call'[j] = call[j]
         /\ \A c \in Conns : CallsOf(c)' = CallsOf(c)
         /\ JoinsAreNamed'
<1> DEFINE x == [call[k] EXCEPT !.pc = pc]
<1>1. call[k] \in Call
  BY DEF TypeOK
<1>2. x \in Call
  BY <1>1 DEF Call, Waits
<1>3. x.pc = pc /\ x.conn = call[k].conn /\ x.room = call[k].room /\ x.user = call[k].user
  BY <1>1 DEF Call, Waits
<1>4. Await(k, x)
  OBVIOUS
<1> HIDE DEF x
<1>5. /\ call' \in [Calls -> Call \union {None}] /\ call'[k] = x
      /\ \A j \in Calls : j # k => call'[j] = call[j]
      /\ JoinsAreNamed'
  BY <1>2, <1>3, <1>4, AwaitCalls
<1>6. x # None
  BY <1>2, CallAssumption
<1> QED
  BY <1>3, <1>5, <1>6 DEF CallsOf

LEMMA AnswerCalls ==
  ASSUME TypeOK, JoinsAreNamed, NEW k \in Calls, Answer(k)
  PROVE  /\ call' \in [Calls -> Call \union {None}]
         /\ \A j \in Calls : j # k => call'[j] = call[j]
         /\ \A c \in Conns : CallsOf(c)' = CallsOf(c) \ {k}
         /\ JoinsAreNamed'
<1>1. /\ call' \in [Calls -> Call \union {None}]
      /\ call'[k] = None
      /\ \A j \in Calls : j # k => call'[j] = call[j]
  BY DEF TypeOK, Answer
<1> QED
  BY <1>1 DEF CallsOf, JoinsAreNamed

\* A step that leaves a socket, its session and its calls alone.
LEMMA Frame ==
  ASSUME TypeOK, NEW c \in Conns, Sound(c),
         session'[c] = session[c], rooms'[c] = rooms[c], presenceRoom'[c] = presenceRoom[c],
         presenceUser'[c] = presenceUser[c], known'[c] = known[c],
         c \in connected' <=> c \in connected,
         CallsOf(c)' = CallsOf(c), \A k \in CallsOf(c) : call'[k] = call[k]
  PROVE  Sound(c)'
BY DEF Sound, InCall, Matches, Hears

\* What is left to show after a step of the one call of a socket: the other sockets are
\* as they were.
Others(c) ==
  \A d \in Conns \ {c} :
    /\ session'[d] = session[d] /\ rooms'[d] = rooms[d]
    /\ presenceRoom'[d] = presenceRoom[d] /\ presenceUser'[d] = presenceUser[d]
    /\ known'[d] = known[d] /\ (d \in connected' <=> d \in connected)
    /\ CallsOf(d)' = CallsOf(d) /\ \A k \in CallsOf(d) : call'[k] = call[k]

LEMMA OneSocket ==
  ASSUME IInv, TypeOK', JoinsAreNamed', NEW c \in Conns, Others(c), strained \subseteq strained',
         c \notin strained' => Sound(c)'
  PROVE  IInv'
<1> SUFFICES ASSUME NEW d \in Conns, d \notin strained' PROVE Sound(d)'
  BY DEF IInv
<1>1. CASE d = c
  BY <1>1
<1>2. CASE d # c
  BY <1>2, Frame DEF IInv, Others
<1> QED
  BY <1>1, <1>2

\* A call made by a socket: unstrained, it was quiet.
LEMMA MadeWhenQuiet ==
  ASSUME IInv, NEW c \in Conns, Strain(c), c \notin strained'
  PROVE  CallsOf(c) = {} /\ c \notin strained /\ Sound(c)
BY DEF IInv, Strain

LEMMA StrainType ==
  ASSUME TypeOK, NEW c \in Conns, Strain(c)
  PROVE  strained \subseteq strained' /\ strained' \subseteq Conns
BY DEF Strain, TypeOK

\* A call in progress is the only one of an unstrained socket.
LEMMA OnlyCall ==
  ASSUME IInv, NEW k \in Calls, call[k] # None
  PROVE  /\ call[k] \in Call /\ call[k].conn \in Conns /\ k \in CallsOf(call[k].conn)
         /\ call[k].conn \notin strained =>
              CallsOf(call[k].conn) = {k} /\ InCall(call[k].conn, k)
<1>1. call[k] \in Call /\ call[k].conn \in Conns /\ k \in CallsOf(call[k].conn)
  BY DEF IInv, TypeOK, Call, CallsOf
<1> QED
  BY <1>1 DEF IInv, Sound

-----------------------------------------------------------------------------
(* Calls that are made *)

\* presence:join: the socket enters the Socket.IO room.
LEMMA JoinInv == ASSUME IInv, NEW k \in Calls, Join(k) PROVE IInv'
<1>1. PICK c \in Conns, r \in Rooms, u \in Users :
        /\ call[k] = None /\ c \in connected /\ Strain(c)
        /\ presenceRoom[c] \in {None, r}
        /\ rooms' = [rooms EXCEPT ![c] = @ \union {r}]
        /\ Await(k, [Blank("join", c) EXCEPT !.room = r, !.user = u])
        /\ UNCHANGED <<now, session, connected, presenceRoom, presenceUser, known>>
  BY DEF Join, Receive
<1> DEFINE x == [Blank("join", c) EXCEPT !.room = r, !.user = u]
<1>2. x \in Call /\ x.conn = c /\ x.pc = "join" /\ x.room = r /\ x.user = u
  BY DEF Blank, Call, Waits
<1> HIDE DEF x
<1>3. /\ call' \in [Calls -> Call \union {None}] /\ call'[k] = x
      /\ \A j \in Calls : j # k => call'[j] = call[j]
      /\ CallsOf(c)' = CallsOf(c) \union {k}
      /\ \A d \in Conns : d # c => CallsOf(d)' = CallsOf(d) /\ k \notin CallsOf(d)
      /\ JoinsAreNamed'
  BY <1>1, <1>2, AwaitCalls DEF IInv, x
<1>4. TypeOK' /\ strained \subseteq strained'
  BY <1>1, <1>3, StrainType DEF IInv, TypeOK
<1>5. Others(c)
  BY <1>1, <1>3 DEF Others, IInv, TypeOK, CallsOf
<1>6. ASSUME c \notin strained' PROVE Sound(c)'
  <2>1. CallsOf(c)' = {k} /\ Matches(c) /\ Hears(c)
    BY <1>1, <1>3, <1>6, MadeWhenQuiet DEF Sound
  <2>2. rooms'[c] = rooms[c] \union {r}
    BY <1>1 DEF IInv, TypeOK
  <2>3. Matches(c)' /\ Hears(c)'
    BY <2>1, <2>2, <1>1 DEF Matches, Hears
  <2> QED
    BY <2>1, <2>2, <2>3, <1>1, <1>2, <1>3 DEF Sound, InCall
<1> QED
  BY <1>3, <1>4, <1>5, <1>6, OneSocket

\* presence:heartbeat, presence:leave and the metadata calls change nothing yet.
LEMMA MadeInv ==
  ASSUME IInv, NEW k \in Calls, NEW c \in Conns, NEW x \in Call, x.conn = c,
         x.pc \in {"buffered", "beat", "leave", "metadata"},
         x.pc \in {"buffered", "beat"} => x.epoch \in {0, known[c]},
         call[k] = None, c \in connected, Strain(c), Await(k, x),
         UNCHANGED <<now, session, socketVars, known>>
  PROVE  IInv'
<1>1. /\ call' \in [Calls -> Call \union {None}] /\ call'[k] = x
      /\ \A j \in Calls : j # k => call'[j] = call[j]
      /\ CallsOf(c)' = CallsOf(c) \union {k}
      /\ \A d \in Conns : d # c => CallsOf(d)' = CallsOf(d) /\ k \notin CallsOf(d)
      /\ JoinsAreNamed'
  BY AwaitCalls DEF IInv
<1>2. TypeOK' /\ strained \subseteq strained'
  BY <1>1, StrainType DEF IInv, TypeOK, socketVars
<1>3. Others(c)
  BY <1>1 DEF Others, CallsOf, socketVars
<1>4. ASSUME c \notin strained' PROVE Sound(c)'
  <2>1. CallsOf(c)' = {k} /\ Matches(c) /\ Hears(c)
    BY <1>1, <1>4, MadeWhenQuiet DEF Sound
  <2>2. Matches(c)' /\ Hears(c)'
    BY <2>1 DEF Matches, Hears, socketVars
  <2> QED
    BY <2>1, <2>2, <1>1 DEF Sound, InCall, socketVars
<1> QED
  BY <1>1, <1>2, <1>3, <1>4, OneSocket

\* A heartbeat takes an earlier one's place in the buffer, if its client did not wait.
LEMMA SupersedeCalls ==
  ASSUME TypeOK, JoinsAreNamed, NEW k \in Calls, NEW x \in Call, Supersede(k, x),
         x.pc \in {"buffered", "beat"}, call[k] = None
  PROVE  /\ call' \in [Calls -> Call \union {None}]
         /\ \A d \in Conns : d # x.conn => /\ CallsOf(d)' = CallsOf(d)
                                         /\ \A j \in CallsOf(d) : call'[j] = call[j]
         /\ JoinsAreNamed'
         /\ CallsOf(x.conn) = {} => Await(k, x)
<1> DEFINE Old(j) == [call[j] EXCEPT !.pc = "superseded"]
<1>1. ASSUME NEW j \in Calls, call[j] # None
      PROVE  /\ call[j] \in Call /\ Old(j) \in Call /\ Old(j).pc = "superseded"
             /\ Old(j).conn = call[j].conn
  BY <1>1 DEF TypeOK, Call, Waits
<1>2. \A j \in Calls : call'[j] = IF j = k THEN x
                                  ELSE IF j \in Buffered /\ call[j].conn = x.conn THEN Old(j)
                                  ELSE call[j]
  BY DEF Supersede
<1> HIDE DEF Old
<1>3. call' \in [Calls -> Call \union {None}]
  <2>1. \A j \in Calls : call'[j] \in Call \union {None}
    BY <1>1, <1>2 DEF Buffered, TypeOK
  <2>2. call' = [j \in Calls |-> call'[j]]
    BY DEF Supersede
  <2> QED
    BY <2>1, <2>2
<1>4. x # None /\ \A j \in Calls : call[j] # None => Old(j) # None
  BY <1>1, CallAssumption
<1>5. ASSUME NEW d \in Conns, d # x.conn
      PROVE  CallsOf(d)' = CallsOf(d) /\ \A j \in CallsOf(d) : call'[j] = call[j]
  <2>1. \A j \in Calls : j \in CallsOf(d) => j # k /\ call'[j] = call[j]
    BY <1>2, <1>5 DEF CallsOf
  <2>2. \A j \in Calls : j \notin CallsOf(d) => call'[j] = None \/ call'[j].conn # d
    BY <1>1, <1>2, <1>5 DEF CallsOf, Buffered
  <2> QED
    BY <2>1, <2>2 DEF CallsOf
<1>6. JoinsAreNamed'
  BY <1>1, <1>2 DEF JoinsAreNamed, Buffered
<1>7. ASSUME CallsOf(x.conn) = {} PROVE Await(k, x)
  <2>1. \A j \in Calls : ~(j \in Buffered /\ call[j].conn = x.conn)
    BY <1>7 DEF CallsOf, Buffered
  <2>2. call' = [j \in Calls |-> IF j = k THEN x ELSE call[j]]
    BY <2>1 DEF Supersede
  <2> QED
    BY <2>2 DEF Await, TypeOK
<1> QED
  BY <1>3, <1>5, <1>6, <1>7

LEMMA HeartbeatInv == ASSUME IInv, NEW k \in Calls, Heartbeat(k) PROVE IInv'
<1> DEFINE pc == IF Batched THEN "buffered" ELSE "beat"
           x(c, e) == [Blank(pc, c) EXCEPT !.epoch = e]
<1>1. PICK c \in Conns : \E e \in {0, known[c]} :
        /\ Receive(k, c)
        /\ Supersede(k, x(c, e))
        /\ UNCHANGED <<now, session, socketVars, known>>
  BY DEF Heartbeat
<1>2. PICK e \in {0, known[c]} :
        /\ Receive(k, c)
        /\ Supersede(k, x(c, e))
        /\ UNCHANGED <<now, session, socketVars, known>>
  BY <1>1
<1>3. e \in Nat /\ pc \in {"buffered", "beat"}
  BY DEF IInv, TypeOK
<1>4. x(c, e) \in Call /\ x(c, e).conn = c /\ x(c, e).pc = pc /\ x(c, e).epoch = e
  BY <1>3 DEF Blank, Call, Waits
<1> HIDE DEF x, pc
<1>5. /\ call' \in [Calls -> Call \union {None}]
      /\ \A d \in Conns : d # c => /\ CallsOf(d)' = CallsOf(d)
                                   /\ \A j \in CallsOf(d) : call'[j] = call[j]
      /\ JoinsAreNamed'
      /\ CallsOf(c) = {} => Await(k, x(c, e))
  BY <1>2, <1>3, <1>4, SupersedeCalls DEF Receive, IInv
<1>6. CASE CallsOf(c) = {}
  BY <1>2, <1>3, <1>4, <1>5, <1>6, MadeInv DEF Receive
<1>7. CASE CallsOf(c) # {}
  <2>1. strained' = strained \union {c}
    BY <1>2, <1>7 DEF Receive, Strain
  <2>2. TypeOK' /\ Others(c)
    BY <1>2, <1>5, <2>1 DEF IInv, TypeOK, Others, socketVars
  <2> QED
    BY <1>5, <2>1, <2>2, OneSocket
<1> QED
  BY <1>6, <1>7

\* What is flushed is on its way, and nothing else changes.
LEMMA FlushInv == ASSUME IInv, Flush PROVE IInv'
<1> DEFINE New(j) == [call[j] EXCEPT !.pc = "beat"]
<1>1. UNCHANGED <<now, session, socketVars, known, strained>>
  BY DEF Flush
<1>2. \A j \in Calls : call'[j] = IF j \in Buffered THEN New(j) ELSE call[j]
  BY DEF Flush
<1>3. ASSUME NEW j \in Buffered
      PROVE  /\ call[j] \in Call /\ call[j] # None /\ call[j].pc = "buffered"
             /\ New(j) \in Call /\ New(j).pc = "beat" /\ New(j).conn = call[j].conn
             /\ New(j).epoch = call[j].epoch
  BY DEF Buffered, IInv, TypeOK, Call, Waits
<1> HIDE DEF New
<1>4. \A j \in Buffered : New(j) # None
  BY <1>3, CallAssumption
<1>5. call' \in [Calls -> Call \union {None}]
  <2>1. \A j \in Calls : call'[j] \in Call \union {None}
    BY <1>2, <1>3 DEF IInv, TypeOK
  <2>2. call' = [j \in Calls |-> call'[j]]
    BY DEF Flush
  <2> QED
    BY <2>1, <2>2
<1>6. TypeOK' /\ JoinsAreNamed'
  BY <1>1, <1>2, <1>3, <1>5 DEF IInv, TypeOK, JoinsAreNamed, socketVars
<1>7. \A c \in Conns : CallsOf(c)' = CallsOf(c)
  BY <1>2, <1>3, <1>4 DEF CallsOf
<1>8. ASSUME NEW c \in Conns, c \notin strained' PROVE Sound(c)'
  <2>1. Sound(c)
    BY <1>1, <1>8 DEF IInv
  <2>2. ASSUME NEW k \in CallsOf(c) PROVE InCall(c, k)'
    <3>1. InCall(c, k) /\ k \in Calls
      BY <2>1 DEF Sound, CallsOf
    <3>2. CASE k \in Buffered
      BY <1>1, <1>2, <1>3, <3>1, <3>2 DEF InCall, Matches, Hears, socketVars
    <3>3. CASE k \notin Buffered
      BY <1>1, <1>2, <3>1, <3>3 DEF InCall, Matches, Hears, socketVars
    <3> QED
      BY <3>2, <3>3
  <2> QED
    BY <1>1, <1>7, <2>1, <2>2 DEF Sound, Matches, Hears, socketVars
<1> QED
  BY <1>6, <1>8 DEF IInv

LEMMA LeaveInv == ASSUME IInv, NEW k \in Calls, Leave(k) PROVE IInv'
<1>1. PICK c \in Conns : /\ Receive(k, c)
                         /\ Await(k, Blank("leave", c))
                         /\ UNCHANGED <<now, session, socketVars, known>>
  BY DEF Leave
<1>2. Blank("leave", c) \in Call /\ Blank("leave", c).conn = c /\ Blank("leave", c).pc = "leave"
  BY DEF Blank, Call, Waits
<1> QED
  BY <1>1, <1>2, MadeInv DEF Receive

LEMMA MetadataInv == ASSUME IInv, NEW k \in Calls, Metadata(k) PROVE IInv'
<1>1. PICK c \in Conns : /\ Receive(k, c)
                         /\ Await(k, [Blank("metadata", c) EXCEPT !.user = presenceUser[c]])
                         /\ UNCHANGED <<now, session, socketVars, known>>
  BY DEF Metadata
<1>2. presenceUser[c] \in Users \union {None}
  BY DEF IInv, TypeOK
<1>3. /\ [Blank("metadata", c) EXCEPT !.user = presenceUser[c]] \in Call
      /\ [Blank("metadata", c) EXCEPT !.user = presenceUser[c]].conn = c
      /\ [Blank("metadata", c) EXCEPT !.user = presenceUser[c]].pc = "metadata"
  BY <1>2 DEF Blank, Call, Waits
<1> QED
  BY <1>1, <1>3, MadeInv DEF Receive

\* disconnect: what an unstrained socket has left is for the leave.
LEMMA DisconnectInv == ASSUME IInv, NEW k \in Calls, Disconnect(k) PROVE IInv'
<1>1. PICK c \in connected :
        /\ call[k] = None /\ Strain(c)
        /\ connected' = connected \ {c}
        /\ rooms' = [rooms EXCEPT ![c] = {}]
        /\ Await(k, Blank("gone", c))
        /\ UNCHANGED <<now, session, presenceRoom, presenceUser, known>>
  BY DEF Disconnect
<1>2. c \in Conns
  BY DEF IInv, TypeOK
<1> DEFINE x == Blank("gone", c)
<1>3. x \in Call /\ x.conn = c /\ x.pc = "gone"
  BY <1>2 DEF Blank, Call, Waits
<1> HIDE DEF x
<1>4. /\ call' \in [Calls -> Call \union {None}] /\ call'[k] = x
      /\ \A j \in Calls : j # k => call'[j] = call[j]
      /\ CallsOf(c)' = CallsOf(c) \union {k}
      /\ \A d \in Conns : d # c => CallsOf(d)' = CallsOf(d) /\ k \notin CallsOf(d)
      /\ JoinsAreNamed'
  BY <1>1, <1>3, AwaitCalls DEF IInv, x
<1>5. TypeOK' /\ strained \subseteq strained'
  BY <1>1, <1>2, <1>4, StrainType DEF IInv, TypeOK
<1>6. Others(c)
  BY <1>1, <1>4 DEF Others, IInv, TypeOK, CallsOf
<1>7. ASSUME c \notin strained' PROVE Sound(c)'
  <2>1. CallsOf(c)' = {k}
    BY <1>1, <1>2, <1>4, <1>7, MadeWhenQuiet
  <2>2. c \notin connected'
    BY <1>1
  <2> QED
    BY <2>1, <2>2, <1>3, <1>4 DEF Sound, InCall
<1> QED
  BY <1>2, <1>4, <1>5, <1>6, <1>7, OneSocket

-----------------------------------------------------------------------------
(* Calls that go on *)

LEMMA NextEpochType ==
  ASSUME NEW previous \in Nat, now \in Nat
  PROVE  NextEpoch(previous) \in Nat
BY DEF NextEpoch

\* service.join writes the session that the socket is about to have.
LEMMA JoinTakesEffectInv == ASSUME IInv, NEW k \in Calls, JoinTakesEffect(k) PROVE IInv'
<1>1. /\ call[k] # None /\ call[k].pc = "join"
      /\ session' = [session EXCEPT ![call[k].conn] =
                       [room |-> call[k].room, user |-> call[k].user,
                        epoch |-> NextEpoch(EpochOf(call[k].conn))]]
      /\ Await(k, [call[k] EXCEPT !.pc = "joined"])
      /\ UNCHANGED <<now, socketVars, known, strained>>
  BY DEF JoinTakesEffect
<1>2. PICK c \in Conns : c = call[k].conn
  BY <1>1, OnlyCall
<1>3. /\ call[k] \in Call /\ k \in CallsOf(c)
      /\ c \notin strained => CallsOf(c) = {k} /\ InCall(c, k)
  BY <1>1, <1>2, OnlyCall
<1>5. /\ call' \in [Calls -> Call \union {None}]
      /\ call'[k].pc = "joined" /\ call'[k].room = call[k].room /\ call'[k].user = call[k].user
      /\ \A j \in Calls : j # k => call'[j] = call[j]
      /\ \A d \in Conns : CallsOf(d)' = CallsOf(d)
      /\ JoinsAreNamed'
  <2>1. "joined" \in {"joined", "selfEpoch", "beatEpoch"}
    OBVIOUS
  <2> QED
    BY <2>1, <1>1, GoesOn DEF IInv
<1>6. PICK e \in Nat : e = NextEpoch(EpochOf(c))
  BY NextEpochType DEF IInv, TypeOK, EpochOf, Session
<1>7. /\ session' \in [Conns -> Session \union {None}]
      /\ session'[c] = [room |-> call[k].room, user |-> call[k].user, epoch |-> e]
      /\ \A d \in Conns : d # c => session'[d] = session[d]
  <2>1. [room |-> call[k].room, user |-> call[k].user, epoch |-> e] \in Session
    BY <1>1 DEF IInv, JoinsAreNamed, Session
  <2> QED
    BY <2>1, <1>1, <1>2, <1>6 DEF IInv, TypeOK
<1>8. Others(c) /\ TypeOK'
  BY <1>1, <1>2, <1>5, <1>7 DEF Others, IInv, TypeOK, CallsOf, socketVars
<1>9. ASSUME c \notin strained' PROVE Sound(c)'
  <2>1. CallsOf(c)' = {k} /\ InCall(c, k)
    BY <1>1, <1>3, <1>5, <1>9
  <2>2. session'[c].room = call[k].room /\ session'[c].user = call[k].user
    BY <1>7
  <2>3. InCall(c, k)'
    BY <2>1, <2>2, <1>1, <1>5 DEF InCall, socketVars
  <2> QED
    BY <2>1, <2>3 DEF Sound
<1> QED
  BY <1>1, <1>5, <1>8, <1>9, OneSocket

\* The epoch of a session is a number.
LEMMA EpochType ==
  ASSUME TypeOK, NEW c \in Conns
  PROVE  EpochOf(c) \in Nat /\ (session[c] # None => session[c].epoch \in Nat)
BY DEF TypeOK, EpochOf, Session

\* The join is answered: the data are those of the session, if there still is one.
LEMMA JoinedInv == ASSUME IInv, NEW k \in Calls, Joined(k) PROVE IInv'
<1>1. /\ call[k] # None /\ call[k].pc = "joined"
      /\ presenceRoom' = [presenceRoom EXCEPT ![call[k].conn] = call[k].room]
      /\ presenceUser' = [presenceUser EXCEPT ![call[k].conn] = call[k].user]
      /\ UNCHANGED <<now, session, connected, rooms, strained>>
      /\ IF session[call[k].conn] # None
         THEN known' = [known EXCEPT ![call[k].conn] = session[call[k].conn].epoch] /\ Answer(k)
         ELSE Await(k, [call[k] EXCEPT !.pc = "selfEpoch"]) /\ UNCHANGED known
  BY DEF Joined, Tell
<1>2. PICK c \in Conns : c = call[k].conn
  BY <1>1, OnlyCall
<1>3. /\ call[k] \in Call /\ k \in CallsOf(c)
      /\ c \notin strained => CallsOf(c) = {k} /\ InCall(c, k)
  BY <1>1, <1>2, OnlyCall
<1>4. /\ presenceRoom' \in [Conns -> Rooms \union {None}]
      /\ presenceUser' \in [Conns -> Users \union {None}]
      /\ presenceRoom'[c] = call[k].room /\ presenceUser'[c] = call[k].user
      /\ \A d \in Conns : d # c => presenceRoom'[d] = presenceRoom[d] /\ presenceUser'[d] = presenceUser[d]
  <2>1. call[k].room \in Rooms \union {None} /\ call[k].user \in Users \union {None}
    BY <1>3 DEF Call, Waits
  <2> QED
    BY <2>1, <1>1, <1>2 DEF IInv, TypeOK
<1>5. CASE session[c] # None
  <2>1. known' = [known EXCEPT ![c] = session[c].epoch] /\ Answer(k)
    BY <1>1, <1>2, <1>5
  <2>2. /\ call' \in [Calls -> Call \union {None}]
        /\ \A j \in Calls : j # k => call'[j] = call[j]
        /\ \A d \in Conns : CallsOf(d)' = CallsOf(d) \ {k} /\ (d # c => k \notin CallsOf(d))
        /\ JoinsAreNamed'
    BY <2>1, <1>2, AnswerCalls DEF IInv, CallsOf
  <2>3. /\ known' \in [Conns -> Nat] /\ known'[c] = session[c].epoch
        /\ \A d \in Conns : d # c => known'[d] = known[d]
    BY <2>1, <1>5, EpochType DEF IInv, TypeOK
  <2>4. Others(c) /\ TypeOK'
    BY <1>1, <1>4, <2>2, <2>3 DEF Others, IInv, TypeOK, CallsOf
  <2>5. ASSUME c \notin strained' PROVE Sound(c)'
    <3>1. CallsOf(c)' = {} /\ InCall(c, k)
      BY <1>1, <1>3, <2>2, <2>5
    <3>2. session[c] = [room |-> session[c].room, user |-> session[c].user, epoch |-> session[c].epoch]
      BY <1>5 DEF IInv, TypeOK, Session
    <3>3. Matches(c)' /\ Hears(c)'
      BY <3>1, <3>2, <1>1, <1>4, <1>5, <2>3 DEF InCall, Matches, Hears
    <3> QED
      BY <3>1, <3>3, <1>1 DEF Sound, InCall
  <2> QED
    BY <1>1, <2>2, <2>4, <2>5, OneSocket
<1>6. CASE session[c] = None
  <2>1. UNCHANGED known /\ Await(k, [call[k] EXCEPT !.pc = "selfEpoch"])
    BY <1>1, <1>2, <1>6
  <2>3. /\ call' \in [Calls -> Call \union {None}] /\ call'[k].pc = "selfEpoch"
        /\ call'[k].room = call[k].room
        /\ \A j \in Calls : j # k => call'[j] = call[j]
        /\ \A d \in Conns : CallsOf(d)' = CallsOf(d)
        /\ JoinsAreNamed'
    <3>1. "selfEpoch" \in {"joined", "selfEpoch", "beatEpoch"}
      OBVIOUS
    <3> QED
      BY <3>1, <1>1, <2>1, GoesOn DEF IInv
  <2>4. Others(c) /\ TypeOK'
    BY <1>1, <1>2, <1>4, <2>1, <2>3 DEF Others, IInv, TypeOK, CallsOf
  <2>5. ASSUME c \notin strained' PROVE Sound(c)'
    <3>1. CallsOf(c)' = {k} /\ InCall(c, k)
      BY <1>1, <1>3, <2>3, <2>5
    <3>2. Hears(c)'
      BY <3>1, <1>1, <1>4 DEF InCall, Hears
    <3> QED
      BY <3>1, <3>2, <1>1, <1>6, <2>3 DEF Sound, InCall
  <2> QED
    BY <1>1, <2>3, <2>4, <2>5, OneSocket
<1> QED
  BY <1>5, <1>6

\* No session is left to tell of: the clock is what the client gets.
LEMMA SelfEpochInv == ASSUME IInv, NEW k \in Calls, SelfEpoch(k) PROVE IInv'
<1>1. /\ call[k] # None /\ call[k].pc = "selfEpoch"
      /\ known' = [known EXCEPT ![call[k].conn] =
                     IF session[call[k].conn] # None THEN EpochOf(call[k].conn) ELSE now]
      /\ Answer(k)
      /\ UNCHANGED <<now, session, socketVars, strained>>
  BY DEF SelfEpoch, Tell
<1>2. PICK c \in Conns : c = call[k].conn
  BY <1>1, OnlyCall
<1>3. /\ call[k] \in Call /\ k \in CallsOf(c)
      /\ c \notin strained => CallsOf(c) = {k} /\ InCall(c, k)
  BY <1>1, <1>2, OnlyCall
<1>4. /\ call' \in [Calls -> Call \union {None}]
      /\ \A j \in Calls : j # k => call'[j] = call[j]
      /\ \A d \in Conns : CallsOf(d)' = CallsOf(d) \ {k} /\ (d # c => k \notin CallsOf(d))
      /\ JoinsAreNamed'
  BY <1>1, <1>2, AnswerCalls DEF IInv, CallsOf
<1>5. known' \in [Conns -> Nat] /\ \A d \in Conns : d # c => known'[d] = known[d]
  BY <1>1, <1>2, EpochType DEF IInv, TypeOK
<1>6. Others(c) /\ TypeOK'
  BY <1>1, <1>4, <1>5 DEF Others, IInv, TypeOK, CallsOf, socketVars
<1>7. ASSUME c \notin strained' PROVE Sound(c)'
  <2>1. CallsOf(c)' = {} /\ InCall(c, k)
    BY <1>1, <1>3, <1>4, <1>7
  <2> QED
    BY <2>1, <1>1 DEF Sound, InCall, Matches, Hears, socketVars
<1> QED
  BY <1>1, <1>4, <1>6, <1>7, OneSocket

\* A heartbeat of a client that was told its epoch raises none.
LEMMA HeartbeatTakesEffectInv ==
  ASSUME IInv, NEW k \in Calls, HeartbeatTakesEffect(k)
  PROVE  IInv'
<1>1. /\ call[k] # None /\ call[k].pc = "beat"
      /\ Await(k, [call[k] EXCEPT !.pc = "beatEpoch"])
      /\ UNCHANGED <<now, socketVars, known, strained>>
  BY DEF HeartbeatTakesEffect
<1>2. PICK c \in Conns : c = call[k].conn
  BY <1>1, OnlyCall
<1>3. /\ call[k] \in Call /\ k \in CallsOf(c)
      /\ c \notin strained => CallsOf(c) = {k} /\ InCall(c, k)
  BY <1>1, <1>2, OnlyCall
<1>4. session' = IF session[c] # None /\ call[k].epoch > EpochOf(c)
                 THEN [session EXCEPT ![c].epoch = call[k].epoch] ELSE session
  BY <1>2 DEF HeartbeatTakesEffect
<1>5. /\ call' \in [Calls -> Call \union {None}] /\ call'[k].pc = "beatEpoch"
      /\ call'[k].room = call[k].room
      /\ \A j \in Calls : j # k => call'[j] = call[j]
      /\ \A d \in Conns : CallsOf(d)' = CallsOf(d)
      /\ JoinsAreNamed'
  <2>1. "beatEpoch" \in {"joined", "selfEpoch", "beatEpoch"}
    OBVIOUS
  <2> QED
    BY <2>1, <1>1, GoesOn DEF IInv
<1>6. /\ session' \in [Conns -> Session \union {None}]
      /\ \A d \in Conns : d # c => session'[d] = session[d]
  <2>1. CASE session[c] # None /\ call[k].epoch > EpochOf(c)
    <3>1. call[k].epoch \in Nat /\ session[c] \in Session
      BY <1>3, <2>1 DEF Call, IInv, TypeOK
    <3>2. [session[c] EXCEPT !.epoch = call[k].epoch] \in Session
      BY <3>1 DEF Session
    <3> QED
      BY <1>4, <2>1, <3>2 DEF IInv, TypeOK
  <2>2. CASE ~(session[c] # None /\ call[k].epoch > EpochOf(c))
    BY <1>4, <2>2 DEF IInv, TypeOK
  <2> QED
    BY <2>1, <2>2
<1>7. Others(c) /\ TypeOK'
  BY <1>1, <1>2, <1>5, <1>6 DEF Others, IInv, TypeOK, CallsOf, socketVars
<1>8. ASSUME c \notin strained' PROVE Sound(c)'
  <2>1. CallsOf(c)' = {k} /\ InCall(c, k)
    BY <1>1, <1>3, <1>5, <1>8
  <2>2. Matches(c) /\ Hears(c) /\ c \in connected /\ call[k].epoch \in {0, known[c]}
    BY <2>1, <1>1 DEF InCall
  <2>3. session[c] # None => EpochOf(c) = known[c] /\ known[c] \in Nat
    BY <2>2 DEF Matches, EpochOf, IInv, TypeOK
  <2>4. session' = session
    BY <2>2, <2>3, <1>4
  <2>5. Matches(c)' /\ Hears(c)'
    BY <2>2, <2>4, <1>1 DEF Matches, Hears, socketVars
  <2> QED
    BY <2>1, <2>2, <2>5, <1>1, <1>5 DEF Sound, InCall, socketVars
<1> QED
  BY <1>1, <1>5, <1>7, <1>8, OneSocket

LEMMA HeartbeatAnsweredInv == ASSUME IInv, NEW k \in Calls, HeartbeatAnswered(k) PROVE IInv'
<1>1. /\ call[k] # None /\ call[k].pc = "beatEpoch"
      /\ known' = IF session[call[k].conn] # None
                  THEN [known EXCEPT ![call[k].conn] = session[call[k].conn].epoch] ELSE known
      /\ Answer(k)
      /\ UNCHANGED <<now, session, socketVars, strained>>
  BY DEF HeartbeatAnswered, Tell
<1>2. PICK c \in Conns : c = call[k].conn
  BY <1>1, OnlyCall
<1>3. /\ call[k] \in Call /\ k \in CallsOf(c)
      /\ c \notin strained => CallsOf(c) = {k} /\ InCall(c, k)
  BY <1>1, <1>2, OnlyCall
<1>4. /\ call' \in [Calls -> Call \union {None}]
      /\ \A j \in Calls : j # k => call'[j] = call[j]
      /\ \A d \in Conns : CallsOf(d)' = CallsOf(d) \ {k} /\ (d # c => k \notin CallsOf(d))
      /\ JoinsAreNamed'
  BY <1>1, <1>2, AnswerCalls DEF IInv, CallsOf
<1>5. /\ known' \in [Conns -> Nat] /\ \A d \in Conns : d # c => known'[d] = known[d]
      /\ session[c] # None => known'[c] = session[c].epoch
  BY <1>1, <1>2, EpochType DEF IInv, TypeOK
<1>6. Others(c) /\ TypeOK'
  BY <1>1, <1>4, <1>5 DEF Others, IInv, TypeOK, CallsOf, socketVars
<1>7. ASSUME c \notin strained' PROVE Sound(c)'
  <2>1. CallsOf(c)' = {} /\ InCall(c, k)
    BY <1>1, <1>3, <1>4, <1>7
  <2>2. session[c] # None => known'[c] = known[c]
    BY <2>1, <1>1, <1>5 DEF InCall, Matches
  <2> QED
    BY <2>1, <2>2, <1>1 DEF Sound, InCall, Matches, Hears, socketVars
<1> QED
  BY <1>1, <1>4, <1>6, <1>7, OneSocket

\* service.leave deletes the session, whatever it was.
LEMMA LeaveTakesEffectInv == ASSUME IInv, NEW k \in Calls, LeaveTakesEffect(k) PROVE IInv'
<1>1. /\ call[k] # None /\ call[k].pc = "leave"
      /\ session' = [session EXCEPT ![call[k].conn] = None]
      /\ \E r \in Rooms \union {None} : Await(k, [call[k] EXCEPT !.pc = "left", !.room = r])
      /\ UNCHANGED <<now, socketVars, known, strained>>
  <2>1. call[k] # None /\ call[k].conn \in Conns
    BY OnlyCall DEF LeaveTakesEffect
  <2>2. (IF session[call[k].conn] = None THEN None ELSE session[call[k].conn].room) \in Rooms \union {None}
    BY <2>1 DEF IInv, TypeOK, Session
  <2> QED
    BY <2>2 DEF LeaveTakesEffect
<1>2. PICK c \in Conns : c = call[k].conn
  BY <1>1, OnlyCall
<1>3. /\ call[k] \in Call /\ k \in CallsOf(c)
      /\ c \notin strained => CallsOf(c) = {k} /\ InCall(c, k)
  BY <1>1, <1>2, OnlyCall
<1>4. PICK r \in Rooms \union {None} : Await(k, [call[k] EXCEPT !.pc = "left", !.room = r])
  BY <1>1
<1> DEFINE x == [call[k] EXCEPT !.pc = "left", !.room = r]
<1>5. x \in Call /\ x.pc = "left" /\ x.conn = c
  BY <1>2, <1>3 DEF Call, Waits
<1>6. Await(k, x)
  BY <1>4
<1> HIDE DEF x
<1>7. /\ call' \in [Calls -> Call \union {None}] /\ call'[k] = x
      /\ \A j \in Calls : j # k => call'[j] = call[j]
      /\ CallsOf(c)' = CallsOf(c) \union {k}
      /\ \A d \in Conns : d # c => CallsOf(d)' = CallsOf(d) /\ k \notin CallsOf(d)
      /\ JoinsAreNamed'
  BY <1>2, <1>5, <1>6, AwaitCalls DEF IInv
<1>8. Others(c) /\ TypeOK' /\ session'[c] = None
  BY <1>1, <1>2, <1>7 DEF Others, IInv, TypeOK, CallsOf, socketVars
<1>9. ASSUME c \notin strained' PROVE Sound(c)'
  <2>1. CallsOf(c)' = {k}
    BY <1>1, <1>3, <1>7, <1>9
  <2> QED
    BY <2>1, <1>5, <1>7, <1>8 DEF Sound, InCall
<1> QED
  BY <1>1, <1>7, <1>8, <1>9, OneSocket

\* The socket has left: neither data nor session.
LEMMA LeftInv == ASSUME IInv, NEW k \in Calls, Left(k) PROVE IInv'
<1>1. /\ call[k] # None /\ call[k].pc = "left"
      /\ rooms' = [rooms EXCEPT ![call[k].conn] = @ \ {call[k].room}]
      /\ presenceRoom' = [presenceRoom EXCEPT ![call[k].conn] = None]
      /\ presenceUser' = [presenceUser EXCEPT ![call[k].conn] = None]
      /\ Answer(k)
      /\ UNCHANGED <<now, session, connected, known, strained>>
  BY DEF Left
<1>2. PICK c \in Conns : c = call[k].conn
  BY <1>1, OnlyCall
<1>3. /\ call[k] \in Call /\ k \in CallsOf(c)
      /\ c \notin strained => CallsOf(c) = {k} /\ InCall(c, k)
  BY <1>1, <1>2, OnlyCall
<1>4. /\ call' \in [Calls -> Call \union {None}]
      /\ \A j \in Calls : j # k => call'[j] = call[j]
      /\ \A d \in Conns : CallsOf(d)' = CallsOf(d) \ {k} /\ (d # c => k \notin CallsOf(d))
      /\ JoinsAreNamed'
  BY <1>1, <1>2, AnswerCalls DEF IInv, CallsOf
<1>5. Others(c) /\ TypeOK' /\ presenceRoom'[c] = None
  BY <1>1, <1>2, <1>4 DEF Others, IInv, TypeOK, CallsOf
<1>6. ASSUME c \notin strained' PROVE Sound(c)'
  <2>1. CallsOf(c)' = {} /\ session[c] = None
    BY <1>1, <1>3, <1>4, <1>6 DEF InCall
  <2> QED
    BY <2>1, <1>1, <1>5 DEF Sound, Matches, Hears
<1> QED
  BY <1>1, <1>4, <1>5, <1>6, OneSocket

\* The disconnected socket has no session, and nobody reads its data.
LEMMA GoneTakesEffectInv == ASSUME IInv, NEW k \in Calls, GoneTakesEffect(k) PROVE IInv'
<1>1. /\ call[k] # None /\ call[k].pc = "gone"
      /\ session' = [session EXCEPT ![call[k].conn] = None]
      /\ Answer(k)
      /\ UNCHANGED <<now, socketVars, known, strained>>
  BY DEF GoneTakesEffect
<1>2. PICK c \in Conns : c = call[k].conn
  BY <1>1, OnlyCall
<1>3. /\ call[k] \in Call /\ k \in CallsOf(c)
      /\ c \notin strained => CallsOf(c) = {k} /\ InCall(c, k)
  BY <1>1, <1>2, OnlyCall
<1>4. /\ call' \in [Calls -> Call \union {None}]
      /\ \A j \in Calls : j # k => call'[j] = call[j]
      /\ \A d \in Conns : CallsOf(d)' = CallsOf(d) \ {k} /\ (d # c => k \notin CallsOf(d))
      /\ JoinsAreNamed'
  BY <1>1, <1>2, AnswerCalls DEF IInv, CallsOf
<1>5. Others(c) /\ TypeOK' /\ session'[c] = None
  BY <1>1, <1>2, <1>4 DEF Others, IInv, TypeOK, CallsOf, socketVars
<1>6. ASSUME c \notin strained' PROVE Sound(c)'
  <2>1. CallsOf(c)' = {} /\ InCall(c, k)
    BY <1>1, <1>3, <1>4, <1>6
  <2> QED
    BY <2>1, <1>1, <1>5 DEF Sound, InCall, socketVars
<1> QED
  BY <1>1, <1>4, <1>5, <1>6, OneSocket

LEMMA MetadataAnsweredInv == ASSUME IInv, NEW k \in Calls, MetadataAnswered(k) PROVE IInv'
<1>1. /\ call[k] # None /\ call[k].pc = "metadata"
      /\ Answer(k)
      /\ UNCHANGED <<now, session, socketVars, known, strained>>
  BY DEF MetadataAnswered
<1>2. PICK c \in Conns : c = call[k].conn
  BY <1>1, OnlyCall
<1>3. /\ call[k] \in Call /\ k \in CallsOf(c)
      /\ c \notin strained => CallsOf(c) = {k} /\ InCall(c, k)
  BY <1>1, <1>2, OnlyCall
<1>4. /\ call' \in [Calls -> Call \union {None}]
      /\ \A j \in Calls : j # k => call'[j] = call[j]
      /\ \A d \in Conns : CallsOf(d)' = CallsOf(d) \ {k} /\ (d # c => k \notin CallsOf(d))
      /\ JoinsAreNamed'
  BY <1>1, <1>2, AnswerCalls DEF IInv, CallsOf
<1>5. Others(c) /\ TypeOK'
  BY <1>1, <1>4 DEF Others, IInv, TypeOK, CallsOf, socketVars
<1>6. ASSUME c \notin strained' PROVE Sound(c)'
  <2>1. CallsOf(c)' = {} /\ InCall(c, k)
    BY <1>1, <1>3, <1>4, <1>6
  <2> QED
    BY <2>1, <1>1 DEF Sound, InCall, Matches, Hears, socketVars
<1> QED
  BY <1>1, <1>4, <1>5, <1>6, OneSocket

\* A call that fails leaves its socket strained, of which nothing is said.
LEMMA FailsInv == ASSUME IInv, NEW k \in Calls, JoinFails(k) \/ Fails(k) PROVE IInv'
<1>1. /\ call[k] # None
      /\ rooms' = [rooms EXCEPT ![call[k].conn] = @ \ {call[k].room}] \/ UNCHANGED rooms
      /\ strained' = strained \union {call[k].conn}
      /\ Answer(k)
      /\ UNCHANGED <<now, session, connected, presenceRoom, presenceUser, known>>
  BY DEF JoinFails, Fails, socketVars
<1>2. PICK c \in Conns : c = call[k].conn
  BY <1>1, OnlyCall
<1>3. /\ call[k] \in Call /\ k \in CallsOf(c)
      /\ c \notin strained => CallsOf(c) = {k} /\ InCall(c, k)
  BY <1>1, <1>2, OnlyCall
<1>4. /\ call' \in [Calls -> Call \union {None}]
      /\ \A j \in Calls : j # k => call'[j] = call[j]
      /\ \A d \in Conns : CallsOf(d)' = CallsOf(d) \ {k} /\ (d # c => k \notin CallsOf(d))
      /\ JoinsAreNamed'
  BY <1>1, <1>2, AnswerCalls DEF IInv, CallsOf
<1>5. /\ rooms' \in [Conns -> SUBSET Rooms]
      /\ \A d \in Conns : d # c => rooms'[d] = rooms[d]
  BY <1>1, <1>2 DEF IInv, TypeOK
<1>6. Others(c) /\ TypeOK'
  BY <1>1, <1>2, <1>4, <1>5 DEF Others, IInv, TypeOK, CallsOf
<1> QED
  BY <1>1, <1>2, <1>4, <1>6, OneSocket

-----------------------------------------------------------------------------
(* Time *)

\* A session that runs out agrees with anything.
LEMMA ExpireInv == ASSUME IInv, NEW c \in Conns, Expire(c) PROVE IInv'
<1>1. /\ session' = [session EXCEPT ![c] = None]
      /\ UNCHANGED <<now, socketVars, known, call, strained>>
  BY DEF Expire
<1>2. TypeOK' /\ JoinsAreNamed' /\ session'[c] = None /\ \A d \in Conns : CallsOf(d)' = CallsOf(d)
  BY <1>1 DEF IInv, TypeOK, JoinsAreNamed, CallsOf, socketVars
<1>3. Others(c)
  BY <1>1, <1>2 DEF Others, IInv, TypeOK, socketVars
<1>4. ASSUME c \notin strained' PROVE Sound(c)'
  <2>1. Sound(c) /\ CallsOf(c)' = CallsOf(c)
    BY <1>1, <1>2, <1>4 DEF IInv
  <2> QED
    BY <2>1, <1>1, <1>2 DEF Sound, InCall, Matches, Hears, socketVars
<1> QED
  BY <1>1, <1>2, <1>3, <1>4, OneSocket

LEMMA TickInv == ASSUME IInv, Tick PROVE IInv'
BY DEF Tick, IInv, TypeOK, JoinsAreNamed, Sound, InCall, Matches, Hears, CallsOf, socketVars

-----------------------------------------------------------------------------
(* The invariant *)

LEMMA InitInv == Init => IInv
BY DEF Init, IInv, TypeOK, JoinsAreNamed, Sound, Matches, Hears, CallsOf

LEMMA StutterInv == IInv /\ UNCHANGED vars => IInv'
BY DEF vars, IInv, TypeOK, JoinsAreNamed, Sound, InCall, Matches, Hears, CallsOf

LEMMA NextInv == ASSUME IInv, Next PROVE IInv'
<1>1. ASSUME NEW k \in Calls, Make(k) PROVE IInv'
  BY <1>1, JoinInv, HeartbeatInv, LeaveInv, MetadataInv, DisconnectInv DEF Make
<1>2. ASSUME NEW k \in Calls, Proceed(k) PROVE IInv'
  BY <1>2, JoinTakesEffectInv, JoinedInv, SelfEpochInv, HeartbeatTakesEffectInv,
     HeartbeatAnsweredInv, LeaveTakesEffectInv, LeftInv, GoneTakesEffectInv,
     MetadataAnsweredInv DEF Proceed
<1>3. ASSUME NEW k \in Calls, JoinFails(k) \/ Fails(k) PROVE IInv'
  BY <1>3, FailsInv
<1>4. ASSUME NEW c \in Conns, Expire(c) PROVE IInv'
  BY <1>4, ExpireInv
<1> QED
  BY <1>1, <1>2, <1>3, <1>4, FlushInv, TickInv DEF Next

LEMMA Invariant == Spec => []IInv
<1>1. IInv /\ [Next]_vars => IInv'
  BY NextInv, StutterInv
<1> QED
  BY InitInv, <1>1, PTL DEF Spec

-----------------------------------------------------------------------------
(* Theorems *)

\* The data of the sockets, the sessions and the calls keep their shapes.
THEOREM TypeCorrect == Spec => []TypeOK
BY Invariant, PTL DEF IInv

\* A settled socket with a presence room is in that Socket.IO room (presence:join and
\* presence:leave).
THEOREM Hearing == Spec => []HearsItsRoom
<1>1. IInv => HearsItsRoom
  BY DEF IInv, TypeOK, HearsItsRoom, Settled, Sound, Hears
<1> QED
  BY Invariant, <1>1, PTL

\* The room, the user and the epoch that a settled socket and its client go by are those
\* of its session.
THEOREM Knowing == Spec => []KnowsItsSession
<1>1. IInv => KnowsItsSession
  BY DEF IInv, TypeOK, KnowsItsSession, Settled, Sound, Matches
<1> QED
  BY Invariant, <1>1, PTL

\* A socket that disconnected between its calls, none of which failed, leaves no session
\* (the disconnect handler).
THEOREM GoneLeaves == Spec => []GoneHasLeft
<1>1. IInv => GoneHasLeft
  BY DEF IInv, TypeOK, GoneHasLeft, Sound
<1> QED
  BY Invariant, <1>1, PTL

\* A heartbeat replaced in the batcher's buffer, whose answer never comes, is always one
\* of a client that sent another before that answer (heartbeat-batcher.ts:92).
THEOREM SupersededOverlap ==
  Spec => [](\A k \in Calls : call[k] # None /\ call[k].pc = "superseded" => call[k].conn \in strained)
<1>1. IInv => \A k \in Calls : call[k] # None /\ call[k].pc = "superseded" => call[k].conn \in strained
  BY OnlyCall DEF InCall
<1> QED
  BY Invariant, <1>1, PTL

\* The epoch a client was told is never refused (the acknowledgements of join and
\* heartbeat).
THEOREM ToldIsAccepted == Spec => NeverFenced
<1> DEFINE Accepts == \A k \in Calls : call[k] # None /\ call[k].conn \notin strained /\ HeartbeatTakesEffect(k)
                         => ~Fenced(call[k].conn, call[k].epoch)
<1>1. IInv => Accepts
  <2> SUFFICES ASSUME IInv, NEW k \in Calls, call[k] # None, call[k].conn \notin strained,
                      call[k].pc = "beat"
               PROVE  ~Fenced(call[k].conn, call[k].epoch)
    BY DEF HeartbeatTakesEffect
  <2>1. PICK c \in Conns : c = call[k].conn
    BY OnlyCall
  <2>2. Matches(c) /\ call[k].epoch \in {0, known[c]}
    BY <2>1, OnlyCall DEF InCall
  <2>3. known[c] \in Nat /\ EpochOf(c) \in {0, known[c]}
    BY <2>2 DEF Matches, EpochOf, IInv, TypeOK
  <2> QED
    BY <2>1, <2>2, <2>3 DEF Fenced
<1> QED
  BY Invariant, <1>1, PTL DEF NeverFenced

=============================================================================
