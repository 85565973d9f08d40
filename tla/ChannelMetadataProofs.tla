----------------------- MODULE ChannelMetadataProofs -----------------------
(***************************************************************************)
(* The plain metadata methods of PresenceService: calls, contents and the  *)
(* replica keep their shapes; writes that the lock keeps apart implement   *)
(* the register; and the events rebuild the record when each was told in   *)
(* its turn: for any calls and requests, however the lock moves.           *)
(***************************************************************************)
EXTENDS ChannelMetadata, TLAPS

-----------------------------------------------------------------------------
(* Records *)

LEMMA NoChannelIsChannel == IsChannel(NoChannel)
<1>1. NoItems \in [DOMAIN NoItems -> Entry] /\ DOMAIN NoItems = {}
  BY DEF NoItems
<1> QED
  BY <1>1 DEF IsChannel, IsRecord, NoChannel

LEMMA RecordsTyped ==
  ASSUME NEW ch, NEW q, IsChannel(ch), IsRequest(q)
  PROVE  /\ IsRecord(RecordForSet(q)) /\ IsRecord(UpdatedRecord(ch, q)) /\ IsRecord(RemainingRecord(ch, q))
         /\ q.kind \in {"set", "update", "remove"} /\ ch.major \in Nat
<1>1. ch.items \in [DOMAIN ch.items -> Entry] /\ DOMAIN ch.items \subseteq ItemKeys /\ ch.major \in Nat
  BY DEF IsChannel, IsRecord
<1>2. q.data \in [DOMAIN q.data -> Item] /\ DOMAIN q.data \subseteq ItemKeys
  BY DEF IsRequest
<1>3. q.kind \in {"set", "update", "remove"}
  BY DEF IsRequest
<1>4. IsRecord(RecordForSet(q))
  BY <1>2, ValuesAssumption DEF IsRecord, RecordForSet, Normalized, Entry, Item, Keys
<1>5. IsRecord(UpdatedRecord(ch, q))
  BY <1>1, <1>2, ValuesAssumption DEF IsRecord, UpdatedRecord, EntryForUpdate, Normalized, Entry, Item, Keys
<1>6. IsRecord(RemainingRecord(ch, q))
  BY <1>1 DEF IsRecord, RemainingRecord, Keys
<1> QED
  BY <1>1, <1>3, <1>4, <1>5, <1>6

LEMMA AfterIsChannel ==
  ASSUME NEW ch, NEW q, IsChannel(ch), IsRequest(q)
  PROVE  IsChannel(After(ch, q))
<1>1. CASE q.kind = "set"
  BY <1>1, RecordsTyped DEF After, IsChannel, NextMajor
<1>2. CASE q.kind = "update"
  BY <1>2, RecordsTyped DEF After, IsChannel, NextMajor
<1>3. CASE q.kind = "remove"
  BY <1>3, RecordsTyped DEF After, IsChannel, NextMajor
<1> QED
  BY <1>1, <1>2, <1>3, RecordsTyped

LEMMA LearnParts ==
  ASSUME NEW rep, NEW e
  PROVE  Learn(rep, e) = [items |-> Learn(rep, e).items, major |-> e.major]
<1> DEFINE items == CASE e.operation = "set" -> e.items
                      [] e.operation = "update" ->
                           [k \in Keys(rep.items) \union Keys(e.items) |->
                              IF k \in Keys(e.items) THEN e.items[k] ELSE rep.items[k]]
                      [] e.operation = "remove" ->
                           [k \in Keys(rep.items) \ Keys(e.items) |-> rep.items[k]]
<1>1. Learn(rep, e) = [items |-> items, major |-> e.major]
  BY DEF Learn
<1> HIDE DEF items
<1> QED
  BY <1>1

\* A subscriber that has the contents a request was checked against learns from its event
\* the contents after it.
LEMMA LearnsAfter ==
  ASSUME NEW ch, NEW q, IsChannel(ch), IsRequest(q), Writes(ch, q)
  PROVE  Learn(ch, ChannelEvent(ch, q)) = After(ch, q)
<1> DEFINE e == ChannelEvent(ch, q)
<1>1. e.operation = q.kind /\ e.major = NextMajor(ch.major)
  BY DEF ChannelEvent
<1>2. q.kind \in {"set", "update", "remove"}
  BY RecordsTyped
<1>3. ASSUME q.kind = "set"
      PROVE  Learn(ch, e).items = RecordForSet(q)
  <2>1. e.items = RecordForSet(q)
    BY <1>3 DEF ChannelEvent
  <2> QED
    BY <1>1, <1>3, <2>1 DEF Learn
<1>4. ASSUME q.kind = "update"
      PROVE  Learn(ch, e).items = UpdatedRecord(ch, q)
  <2>1. Keys(q.data) \subseteq Keys(ch.items)
    BY <1>4 DEF Writes, Passes, Refused, Conflicting, Missing, IsEmpty
  <2>2. e.items = [k \in Keys(q.data) |-> UpdatedRecord(ch, q)[k]]
    BY <1>4 DEF ChannelEvent
  <2>3. Keys(e.items) = Keys(q.data)
    BY <2>2 DEF Keys
  <2>4. Learn(ch, e).items = [k \in Keys(ch.items) \union Keys(e.items) |->
                                IF k \in Keys(e.items) THEN e.items[k] ELSE ch.items[k]]
    BY <1>1, <1>4 DEF Learn
  <2> HIDE DEF e
  <2> QED
    BY <2>1, <2>2, <2>3, <2>4 DEF UpdatedRecord
<1>5. ASSUME q.kind = "remove"
      PROVE  Learn(ch, e).items = RemainingRecord(ch, q)
  <2>1. e.items = [k \in Doomed(ch, q) \intersect Keys(ch.items) |-> ch.items[k]]
    BY <1>5 DEF ChannelEvent
  <2>2. Keys(e.items) = Doomed(ch, q) \intersect Keys(ch.items)
    BY <2>1 DEF Keys
  <2>3. Learn(ch, e).items = [k \in Keys(ch.items) \ Keys(e.items) |-> ch.items[k]]
    BY <1>1, <1>5 DEF Learn
  <2>4. Keys(ch.items) \ Keys(e.items) = Keys(ch.items) \ Doomed(ch, q)
    BY <2>2
  <2> QED
    BY <2>3, <2>4 DEF RemainingRecord
<1>6. Learn(ch, e) = [items |-> Learn(ch, e).items, major |-> NextMajor(ch.major)]
  BY <1>1, LearnParts
<1> HIDE DEF e
<1>7. After(ch, q).items = Learn(ch, e).items
  BY <1>2, <1>3, <1>4, <1>5 DEF After
<1> QED
  BY <1>6, <1>7 DEF After, e

\* What a set publishes is all there is to know, whatever the subscriber had.
LEMMA LearnsSet ==
  ASSUME NEW ch, NEW rep, NEW q, q.kind = "set"
  PROVE  Learn(rep, ChannelEvent(ch, q)) = After(ch, q)
<1>1. /\ ChannelEvent(ch, q).operation = "set" /\ ChannelEvent(ch, q).major = NextMajor(ch.major)
      /\ ChannelEvent(ch, q).items = RecordForSet(q)
  BY DEF ChannelEvent
<1> QED
  BY <1>1 DEF Learn, After

\* Whatever event reaches it, a replica keeps the shape of a channel's contents.
LEMMA LearnIsChannel ==
  ASSUME NEW rep, NEW ch, NEW q, IsChannel(rep), IsChannel(ch), IsRequest(q),
         q.kind = "update" => Keys(q.data) \subseteq Keys(ch.items)
  PROVE  IsChannel(Learn(rep, ChannelEvent(ch, q)))
<1> DEFINE e == ChannelEvent(ch, q)
<1>1. e.operation = q.kind /\ e.major = NextMajor(ch.major)
  BY DEF ChannelEvent
<1>2. q.kind \in {"set", "update", "remove"} /\ ch.major \in Nat
  BY RecordsTyped
<1>3. rep.items \in [DOMAIN rep.items -> Entry] /\ DOMAIN rep.items \subseteq ItemKeys
  BY DEF IsChannel, IsRecord
<1>4. Learn(rep, e) = [items |-> Learn(rep, e).items, major |-> NextMajor(ch.major)]
  BY <1>1, LearnParts
<1>5. CASE q.kind = "set"
  BY <1>5, LearnsSet, AfterIsChannel
<1>6. CASE q.kind = "update"
  <2>1. UpdatedRecord(ch, q) \in [Keys(ch.items) -> Entry] /\ Keys(ch.items) \subseteq ItemKeys
    <3>1. IsRecord(UpdatedRecord(ch, q)) /\ DOMAIN UpdatedRecord(ch, q) = Keys(ch.items)
      BY RecordsTyped DEF UpdatedRecord
    <3> QED
      BY <3>1 DEF IsRecord
  <2>2. e.items = [k \in Keys(q.data) |-> UpdatedRecord(ch, q)[k]]
    BY <1>6 DEF ChannelEvent
  <2>3. e.items \in [Keys(q.data) -> Entry] /\ Keys(e.items) = Keys(q.data)
    BY <1>6, <2>1, <2>2 DEF Keys
  <2>4. Learn(rep, e).items = [k \in Keys(rep.items) \union Keys(e.items) |->
                                 IF k \in Keys(e.items) THEN e.items[k] ELSE rep.items[k]]
    BY <1>1, <1>6 DEF Learn
  <2> HIDE DEF e
  <2>5. IsRecord(Learn(rep, e).items)
    BY <1>3, <1>6, <2>1, <2>3, <2>4 DEF IsRecord, Keys
  <2> QED
    BY <1>2, <1>4, <2>5 DEF IsChannel, NextMajor, e
<1>7. CASE q.kind = "remove"
  <2>1. Learn(rep, e).items = [k \in Keys(rep.items) \ Keys(e.items) |-> rep.items[k]]
    BY <1>1, <1>7 DEF Learn
  <2> HIDE DEF e
  <2>2. IsRecord(Learn(rep, e).items)
    BY <1>3, <2>1 DEF IsRecord, Keys
  <2> QED
    BY <1>2, <1>4, <2>2 DEF IsChannel, NextMajor, e
<1> QED
  BY <1>2, <1>5, <1>6, <1>7

-----------------------------------------------------------------------------
(* Types *)

IsCall(c) == c \in [request: Requests, read: {c.read}] /\ IsChannel(c.read)

\* A call that is past its checks has checked what it read.
Checked ==
  \A p \in Calls : pc[p] \in {"persist", "publish"} => Writes(call[p].read, call[p].request)

LEMMA CallFields ==
  ASSUME NEW c, IsCall(c)
  PROVE  /\ c.request \in Requests /\ IsRequest(c.request) /\ IsChannel(c.read)
         /\ \A ch : IsChannel(ch) => /\ IsCall([c EXCEPT !.read = ch])
                                     /\ [c EXCEPT !.read = ch].read = ch
                                     /\ [c EXCEPT !.read = ch].request = c.request
BY RequestsAssumption DEF IsCall

\* Call p moves to point at and holds c, which is what a call holds there.
Moves(p, at, c) ==
  /\ pc' = [pc EXCEPT ![p] = at]
  /\ call' = [call EXCEPT ![p] = c] \/ (call' = call /\ call[p] = c)
  /\ at \in {"idle", "read", "persist", "publish"}
  /\ IF at = "idle" THEN c = NoCall ELSE IsCall(c)
  /\ at \in {"persist", "publish"} => Writes(c.read, c.request)

LEMMA CallsTyped ==
  ASSUME TypeOK, Checked, NEW p \in Calls, NEW at, NEW c, Moves(p, at, c),
         IsChannel(channel'), IsChannel(replica'), lockOwner' = lockOwner,
         crossed' \in BOOLEAN, lost' \in BOOLEAN
  PROVE  TypeOK' /\ Checked'
<1> USE DEF Moves
<1>1. \A o \in Calls : IF pc'[o] = "idle" THEN call'[o] = NoCall ELSE IsCall(call'[o])
  BY DEF TypeOK, IsCall
<1>2. TypeOK'
  BY <1>1 DEF TypeOK, IsCall
<1>3. Checked'
  BY DEF TypeOK, Checked
<1> QED
  BY <1>2, <1>3

LEMMA TypeInit ==
  ASSUME Init
  PROVE  TypeOK /\ Checked
BY NoChannelIsChannel DEF Init, TypeOK, Checked

LEMMA TypeStep ==
  ASSUME TypeOK, Checked, [Next]_vars
  PROVE  TypeOK' /\ Checked'
<1>0. IsChannel(channel) /\ IsChannel(replica) /\ crossed \in BOOLEAN /\ lost \in BOOLEAN
  BY DEF TypeOK
<1>1. ASSUME NEW p \in Calls, pc[p] # "idle"
      PROVE  IsCall(call[p])
  BY <1>1 DEF TypeOK, IsCall
<1>2. ASSUME NEW p \in Calls PROVE StillCrossed(p) \in BOOLEAN
  BY <1>0 DEF StillCrossed
<1>3. ASSUME NEW p \in Calls, Begin(p)
      PROVE  TypeOK' /\ Checked'
  <2>1. PICK q \in Requests : /\ pc' = [pc EXCEPT ![p] = "read"]
                              /\ call' = [call EXCEPT ![p] = [request |-> q, read |-> NoChannel]]
                              /\ crossed' = (crossed \/ Overlaps(q))
                              /\ UNCHANGED <<channel, lockOwner, replica, lost>>
    BY <1>3 DEF Begin
  <2>2. Moves(p, "read", [request |-> q, read |-> NoChannel])
    BY <2>1, NoChannelIsChannel DEF Moves, IsCall
  <2>3. crossed' \in BOOLEAN
    BY <1>0, <2>1 DEF Overlaps
  <2> QED
    BY <1>0, <2>1, <2>2, <2>3, CallsTyped
<1>4. ASSUME NEW p \in Calls, ReadPasses(p)
      PROVE  TypeOK' /\ Checked'
  <2> DEFINE c == [call[p] EXCEPT !.read = channel]
  <2>1. IsCall(c) /\ c.read = channel /\ c.request = call[p].request
    BY <1>0, <1>1, <1>4, CallFields DEF ReadPasses
  <2>2. call' = [call EXCEPT ![p] = c] /\ Writes(channel, call[p].request)
    BY <1>4 DEF ReadPasses
  <2> HIDE DEF c
  <2>3. Moves(p, "persist", c)
    BY <1>4, <2>1, <2>2 DEF ReadPasses, Moves
  <2> QED
    BY <1>0, <1>4, <2>3, CallsTyped DEF ReadPasses
<1>5. ASSUME NEW p \in Calls, Persist(p)
      PROVE  TypeOK' /\ Checked'
  <2>1. IsCall(call[p]) /\ Moves(p, "publish", call[p])
    BY <1>1, <1>5 DEF Persist, Checked, Moves
  <2>2. IsChannel(channel')
    BY <1>5, <2>1, CallFields, AfterIsChannel DEF Persist
  <2>3. crossed' \in BOOLEAN /\ lost' \in BOOLEAN
    BY <1>0, <1>2, <1>5 DEF Persist
  <2> QED
    BY <1>0, <1>5, <2>1, <2>2, <2>3, CallsTyped DEF Persist
<1>6. ASSUME NEW p \in Calls, Publish(p)
      PROVE  TypeOK' /\ Checked'
  <2> DEFINE ch == call[p].read
             q == call[p].request
  <2>1. IsChannel(ch) /\ IsRequest(q) /\ Writes(ch, q)
    BY <1>1, <1>6, CallFields DEF Publish, Checked
  <2>2. q.kind = "update" => Keys(q.data) \subseteq Keys(ch.items)
    BY <2>1 DEF Writes, Passes, Refused, Conflicting, Missing, IsEmpty
  <2>3. IsChannel(replica')
    BY <1>6, <2>1, <2>2, LearnIsChannel DEF Publish, TypeOK
  <2>4. lost' \in BOOLEAN
    BY <1>0, <1>6 DEF Publish, Overtakes
  <2>5. Moves(p, "idle", NoCall)
    BY <1>6 DEF Publish, Return, Moves
  <2> QED
    BY <1>0, <1>6, <2>3, <2>4, <2>5, CallsTyped DEF Publish
<1>7. ASSUME NEW p \in Calls, ReadReturns(p) \/ Fail(p)
      PROVE  TypeOK' /\ Checked'
  <2>1. Moves(p, "idle", NoCall)
    BY <1>7 DEF ReadReturns, Fail, Return, Moves
  <2>2. /\ crossed' = StillCrossed(p) /\ lost' \in BOOLEAN
        /\ UNCHANGED <<channel, lockOwner, replica>>
    BY <1>0, <1>7 DEF ReadReturns, Fail
  <2> QED
    BY <1>0, <1>2, <2>1, <2>2, CallsTyped
<1>8. CASE LockMoves
  BY <1>8 DEF LockMoves, TypeOK, Checked
<1>9. CASE UNCHANGED vars
  BY <1>9 DEF vars, TypeOK, Checked
<1> QED
  BY <1>3, <1>4, <1>5, <1>6, <1>7, <1>8, <1>9 DEF Next, Step

\* Contents, replica and calls keep their shapes, under any interleaving of calls (TypeOK).
THEOREM TypeCorrect == Spec => []TypeOK
BY TypeInit, TypeStep, PTL DEF Spec

-----------------------------------------------------------------------------
(* Exclusive writes *)

\* As long as nothing is crossed, at most one call is between its check and its write, its
\* owner has the lock if it asked for it, and what it has read is what is stored.
Apart ==
  \A p \in Exposed :
    /\ ~crossed => /\ call[p].request.locked => call[p].request.actor = lockOwner
                   /\ pc[p] = "persist" => call[p].read = channel
    /\ \A o \in Exposed : o # p => crossed

LEMMA ApartInit ==
  ASSUME Init
  PROVE  Apart
BY DEF Init, Apart, Exposed

LEMMA ApartStep ==
  ASSUME TypeOK, Checked, Apart, [Next]_vars
  PROVE  Apart'
<1>0. crossed \in BOOLEAN
  BY DEF TypeOK
\* A call that is no longer exposed: nothing is left to say of it.
<1>1. ASSUME NEW p \in Calls, \A o \in Calls \ {p} : pc'[o] = pc[o] /\ call'[o] = call[o],
             pc'[p] \notin {"read", "persist"}, crossed' = StillCrossed(p),
             lockOwner' = lockOwner, channel' = channel \/ (pc[p] = "persist")
      PROVE  Apart'
  <2>1. Exposed' = Exposed \ {p}
    BY <1>1 DEF Exposed
  <2>2. ASSUME NEW o \in Exposed', ~crossed' PROVE o \in Exposed /\ o # p /\ ~crossed
    BY <1>1, <2>1, <2>2 DEF StillCrossed
  <2>3. ASSUME NEW o \in Exposed', ~crossed' PROVE p \notin Exposed /\ channel' = channel
    BY <1>1, <2>2, <2>3 DEF Apart, Exposed
  <2>4. ASSUME NEW o \in Exposed'
        PROVE  /\ ~crossed' => /\ call'[o].request.locked => call'[o].request.actor = lockOwner'
                               /\ pc'[o] = "persist" => call'[o].read = channel'
               /\ \A x \in Exposed' : x # o => crossed'
    <3>1. o \in Calls \ {p}
      BY <2>1 DEF Exposed
    <3>2. CASE crossed'
      BY <1>1, <3>2
    <3>3. CASE ~crossed'
      BY <1>1, <2>1, <2>2, <2>3, <3>1, <3>3 DEF Apart
    <3> QED
      BY <3>2, <3>3
  <2> QED
    BY <2>4 DEF Apart
<1>2. ASSUME NEW p \in Calls, Begin(p)
      PROVE  Apart'
  <2>1. PICK q \in Requests : /\ pc[p] = "idle" /\ HoldsLock(q)
                              /\ pc' = [pc EXCEPT ![p] = "read"]
                              /\ call' = [call EXCEPT ![p] = [request |-> q, read |-> NoChannel]]
                              /\ crossed' = (crossed \/ Overlaps(q))
                              /\ UNCHANGED <<channel, lockOwner, replica, lost>>
    BY <1>2 DEF Begin
  <2>2. /\ pc'[p] = "read" /\ call'[p].request = q
        /\ \A o \in Calls \ {p} : pc'[o] = pc[o] /\ call'[o] = call[o]
    BY <2>1 DEF TypeOK
  <2>3. Exposed' = Exposed \union {p} /\ p \notin Exposed
    BY <2>1, <2>2 DEF Exposed
  \* Another exposed call is the lock owner's, and so is this one, or one of them asks for
  \* no lock: either is an overlap.
  <2>4. ASSUME ~crossed' PROVE Exposed = {}
    <3>1. ~crossed /\ ~Overlaps(q)
      BY <2>1, <2>4
    <3>2. ASSUME NEW o \in Exposed PROVE FALSE
      <4>1. q.locked /\ call[o].request.locked /\ call[o].request.actor # q.actor
        BY <3>1, <3>2 DEF Overlaps
      <4>2. call[o].request.actor = lockOwner
        BY <3>1, <3>2, <4>1 DEF Apart
      <4> QED
        BY <2>1, <4>1, <4>2 DEF HoldsLock
    <3> QED
      BY <3>2
  <2>5. CASE crossed'
    BY <2>5 DEF Apart
  <2>6. CASE ~crossed'
    <3>1. Exposed' = {p}
      BY <2>3, <2>4, <2>6
    <3>2. call'[p].request.locked => call'[p].request.actor = lockOwner'
      BY <2>1, <2>2 DEF HoldsLock
    <3> QED
      BY <2>2, <3>1, <3>2 DEF Apart
  <2> QED
    BY <2>5, <2>6
<1>3. ASSUME NEW p \in Calls, ReadPasses(p)
      PROVE  Apart'
  <2> DEFINE c == [call[p] EXCEPT !.read = channel]
  <2>1. IsCall(call[p]) /\ IsChannel(channel)
    BY <1>3 DEF ReadPasses, TypeOK, IsCall
  <2>2. c.read = channel /\ c.request = call[p].request
    BY <2>1, CallFields
  <2>3. call' = [call EXCEPT ![p] = c]
    BY <1>3 DEF ReadPasses
  <2> HIDE DEF c
  <2>4. /\ pc[p] = "read" /\ pc'[p] = "persist" /\ call'[p] = c
        /\ \A o \in Calls \ {p} : pc'[o] = pc[o] /\ call'[o] = call[o]
        /\ UNCHANGED <<channel, lockOwner, replica, crossed, lost>>
    BY <1>3, <2>3 DEF ReadPasses, TypeOK
  <2>5. Exposed' = Exposed
    BY <2>4 DEF Exposed
  <2>6. ASSUME NEW o \in Exposed
        PROVE  /\ call'[o].request = call[o].request
               /\ pc'[o] = "persist" => \/ pc[o] = "persist" /\ call'[o] = call[o]
                                        \/ call'[o].read = channel
    BY <2>2, <2>4 DEF Exposed
  <2> QED
    BY <2>4, <2>5, <2>6 DEF Apart
<1>4. ASSUME NEW p \in Calls, Persist(p)
      PROVE  Apart'
  <2>1. \A o \in Calls \ {p} : pc'[o] = pc[o] /\ call'[o] = call[o]
    BY <1>4 DEF Persist, TypeOK
  <2>2. pc[p] = "persist" /\ pc'[p] = "publish" /\ crossed' = StillCrossed(p) /\ lockOwner' = lockOwner
    BY <1>4 DEF Persist, TypeOK
  <2> QED
    BY <1>1, <2>1, <2>2
<1>5. ASSUME NEW p \in Calls, Publish(p)
      PROVE  Apart'
  <2>1. /\ \A o \in Calls \ {p} : pc'[o] = pc[o] /\ call'[o] = call[o]
        /\ pc[p] = "publish" /\ pc'[p] = "idle" /\ UNCHANGED <<channel, lockOwner, crossed>>
    BY <1>5 DEF Publish, Return, TypeOK
  <2>2. Exposed' = Exposed /\ p \notin Exposed
    BY <2>1 DEF Exposed
  <2>3. \A o \in Exposed : pc'[o] = pc[o] /\ call'[o] = call[o]
    BY <2>1, <2>2 DEF Exposed
  <2> QED
    BY <2>1, <2>2, <2>3 DEF Apart
<1>6. ASSUME NEW p \in Calls, ReadReturns(p) \/ Fail(p)
      PROVE  Apart'
  <2>1. /\ \A o \in Calls \ {p} : pc'[o] = pc[o] /\ call'[o] = call[o]
        /\ pc'[p] = "idle" /\ crossed' = StillCrossed(p) /\ UNCHANGED <<channel, lockOwner>>
    BY <1>6 DEF ReadReturns, Fail, Return, TypeOK
  <2> QED
    BY <1>1, <2>1
<1>7. CASE LockMoves
  <2>1. /\ UNCHANGED <<channel, pc, call>>
        /\ crossed' = (crossed \/ \E p \in Exposed : call[p].request.locked /\ call[p].request.actor = lockOwner)
    BY <1>7 DEF LockMoves
  <2>2. Exposed' = Exposed
    BY <2>1 DEF Exposed
  <2>3. ASSUME NEW p \in Exposed, ~crossed' PROVE ~crossed /\ ~call[p].request.locked
    BY <2>1, <2>3 DEF Apart
  <2> QED
    BY <2>1, <2>2, <2>3 DEF Apart
<1>8. CASE UNCHANGED vars
  BY <1>8 DEF vars, Apart, Exposed
<1> QED
  BY <1>2, <1>3, <1>4, <1>5, <1>6, <1>7, <1>8 DEF Next, Step

-----------------------------------------------------------------------------
(* Events *)

Sets(p) == call[p].request.kind = "set"

Written(p) == After(call[p].read, call[p].request)

\* The changes written and not yet told form a chain, from what the replica has to what is
\* stored: each was applied to what the one before it wrote.
Chain ==
  /\ \A p \in Untold : call[p].read.major < channel.major
  /\ \A p, o \in Untold : p # o => call[p].read.major # call[o].read.major
  /\ \A p \in Untold : ~Overtakes(p) => replica = call[p].read \/ Sets(p)
  /\ \A p \in Untold : Overtakes(p) => \E o \in Untold : Written(o) = call[p].read
  /\ IF Untold = {} THEN replica = channel ELSE \E o \in Untold : Written(o) = channel

ReplicaKnows == ~lost => Chain

LEMMA MajorAfter ==
  ASSUME NEW ch, NEW q, IsChannel(ch)
  PROVE  After(ch, q).major = ch.major + 1 /\ ch.major \in Nat
BY DEF After, NextMajor, IsChannel

\* Writing a change to the contents it was checked against makes the chain longer by one.
LEMMA PersistKnows ==
  ASSUME TypeOK, Apart, ReplicaKnows, NEW p \in Calls, Persist(p)
  PROVE  ReplicaKnows'
<1> SUFFICES ASSUME ~lost' PROVE Chain'
  BY DEF ReplicaKnows
<1>1. /\ pc[p] = "persist" /\ pc'[p] = "publish" /\ call' = call /\ replica' = replica
      /\ \A o \in Calls \ {p} : pc'[o] = pc[o]
      /\ channel' = Written(p)
  BY DEF Persist, TypeOK, Written
<1>2. ~crossed /\ (lost => Sets(p) /\ Untold = {})
  BY DEF Persist, Sets
<1>3. Untold' = Untold \union {p} /\ p \notin Untold
  BY <1>1 DEF Untold
<1>4. call[p].read = channel
  BY <1>1, <1>2 DEF Apart, Exposed
<1>5. IsChannel(channel)
  BY DEF TypeOK
<1>6. channel'.major = channel.major + 1 /\ channel.major \in Nat
  BY <1>1, <1>4, <1>5, MajorAfter DEF Written
<1>7. ASSUME NEW o \in Untold
      PROVE  /\ ~lost /\ Chain
             /\ IsChannel(call[o].read) /\ call[o].read.major \in Nat
             /\ call[o].read.major < channel.major
  <2>1. ~lost /\ Chain
    BY <1>2, <1>7 DEF ReplicaKnows
  <2>2. IsChannel(call[o].read)
    BY <1>7 DEF TypeOK, Untold
  <2> QED
    BY <1>7, <2>1, <2>2 DEF Chain, IsChannel
<1>8. \A o : Written(o)' = Written(o) /\ Sets(o)' = Sets(o)
  BY <1>1 DEF Written, Sets
<1>9. ASSUME NEW o \in Untold
      PROVE  Overtakes(o)' <=> Overtakes(o)
  BY <1>1, <1>3, <1>4, <1>6, <1>7, <1>9 DEF Overtakes
<1>10. Overtakes(p)' <=> Untold # {}
  <2>1. Untold # {} => Overtakes(p)'
    BY <1>1, <1>3, <1>4, <1>7 DEF Overtakes
  <2>2. ~(call'[p].read.major < call'[p].read.major)
    BY <1>1, <1>4, <1>6
  <2> QED
    BY <1>3, <2>1, <2>2 DEF Overtakes
<1>11. \A o \in Untold' : call'[o].read.major < channel'.major
  BY <1>1, <1>3, <1>4, <1>6, <1>7
<1>12. \A x, o \in Untold' : x # o => call'[x].read.major # call'[o].read.major
  BY <1>1, <1>3, <1>4, <1>6, <1>7 DEF Chain
<1>13. \A o \in Untold' : ~Overtakes(o)' => replica' = call'[o].read \/ Sets(o)'
  <2>1. ASSUME NEW o \in Untold, ~Overtakes(o)' PROVE replica' = call'[o].read \/ Sets(o)'
    BY <1>1, <1>7, <1>8, <1>9, <2>1 DEF Chain
  <2>2. ASSUME ~Overtakes(p)' PROVE replica' = call'[p].read \/ Sets(p)'
    <3>1. Untold = {}
      BY <1>10, <2>2
    <3>2. ~lost => replica = channel
      BY <3>1 DEF ReplicaKnows, Chain
    <3> QED
      BY <1>1, <1>2, <1>4, <1>8, <3>2
  <2> QED
    BY <1>3, <2>1, <2>2
<1>14. \A o \in Untold' : Overtakes(o)' => \E z \in Untold' : Written(z)' = call'[o].read
  <2>1. ASSUME NEW o \in Untold, Overtakes(o)' PROVE \E z \in Untold : Written(z) = call[o].read
    BY <1>7, <1>9, <2>1 DEF Chain
  <2>2. ASSUME Overtakes(p)' PROVE \E z \in Untold : Written(z) = call[p].read
    BY <1>4, <1>7, <1>10, <2>2 DEF Chain
  <2> QED
    BY <1>1, <1>3, <1>8, <2>1, <2>2
<1>15. \E o \in Untold' : Written(o)' = channel'
  BY <1>1, <1>3, <1>8
<1> QED
  BY <1>11, <1>12, <1>13, <1>14, <1>15 DEF Chain

\* Telling the first change of the chain makes it shorter by one.
LEMMA PublishKnows ==
  ASSUME TypeOK, Checked, ReplicaKnows, NEW p \in Calls, Publish(p)
  PROVE  ReplicaKnows'
<1> SUFFICES ASSUME ~lost' PROVE Chain'
  BY DEF ReplicaKnows
<1> DEFINE ch == call[p].read
           q == call[p].request
<1>1. /\ pc[p] = "publish" /\ pc'[p] = "idle" /\ channel' = channel
      /\ \A o \in Calls \ {p} : pc'[o] = pc[o] /\ call'[o] = call[o]
      /\ replica' = Learn(replica, ChannelEvent(ch, q))
  BY DEF Publish, Return, TypeOK
<1>2. Chain /\ ~Overtakes(p)
  BY DEF Publish, ReplicaKnows
<1>3. Untold' = Untold \ {p} /\ p \in Untold
  BY <1>1 DEF Untold
<1>4. IsChannel(ch) /\ IsRequest(q) /\ Writes(ch, q)
  BY <1>1, CallFields DEF TypeOK, IsCall, Checked
<1>5. replica' = Written(p)
  <2>1. replica = ch \/ q.kind = "set"
    BY <1>2, <1>3 DEF Chain, Sets
  <2> QED
    BY <1>1, <1>4, <2>1, LearnsAfter, LearnsSet DEF Written
<1>6. Written(p).major = ch.major + 1
  BY <1>4, MajorAfter DEF Written
<1>7. ASSUME NEW o \in Untold
      PROVE  call[o].read.major \in Nat /\ Written(o).major = call[o].read.major + 1
  <2>1. IsChannel(call[o].read)
    BY <1>7 DEF TypeOK, Untold
  <2> QED
    BY <2>1, MajorAfter DEF Written
\* What the first change leads to is what the second was applied to.
<1>8. ASSUME NEW o \in Untold' PROVE ch.major < call[o].read.major
  BY <1>2, <1>3, <1>7 DEF Chain, Overtakes
<1>9. ASSUME NEW o \in Untold'
      PROVE  call'[o] = call[o] /\ Written(o)' = Written(o) /\ Sets(o)' = Sets(o)
  <2>1. o \in Calls \ {p}
    BY <1>3 DEF Untold
  <2> QED
    BY <1>1, <2>1 DEF Written, Sets
<1>10. \A o \in Untold' : call'[o].read.major < channel'.major
  BY <1>1, <1>2, <1>3, <1>9 DEF Chain
<1>11. \A x, o \in Untold' : x # o => call'[x].read.major # call'[o].read.major
  BY <1>2, <1>3, <1>9 DEF Chain
<1>12. ASSUME NEW o \in Untold'
       PROVE  \E z \in Untold : Written(z) = call[o].read
  <2>1. Overtakes(o)
    BY <1>3, <1>8 DEF Overtakes
  <2> QED
    BY <1>2, <1>3, <2>1 DEF Chain
<1>13. ASSUME NEW o \in Untold', ~Overtakes(o)'
       PROVE  replica' = call'[o].read \/ Sets(o)'
  <2>1. PICK z \in Untold : Written(z) = call[o].read
    BY <1>12
  <2>2. ASSUME z # p PROVE FALSE
    <3>1. z \in Untold' /\ call'[z] = call[z] /\ call'[o] = call[o]
      BY <1>3, <1>9, <2>2
    <3>2. call[z].read.major < call[o].read.major
      BY <1>3, <1>7, <2>1
    <3> QED
      BY <1>13, <3>1, <3>2 DEF Overtakes
  <2> QED
    BY <1>5, <1>9, <2>1, <2>2
<1>14. ASSUME NEW o \in Untold', Overtakes(o)'
       PROVE  \E z \in Untold' : Written(z)' = call'[o].read
  <2>1. PICK z \in Untold : Written(z) = call[o].read
    BY <1>12
  <2>2. PICK y \in Untold' : call[y].read.major < call[o].read.major
    BY <1>9, <1>14 DEF Overtakes
  <2>3. z # p
    BY <1>3, <1>6, <1>7, <1>8, <2>1, <2>2
  <2> QED
    BY <1>3, <1>9, <2>1, <2>3
<1>15. ASSUME Untold' = {} PROVE replica' = channel'
  BY <1>1, <1>2, <1>3, <1>5, <1>15 DEF Chain
<1>16. ASSUME Untold' # {} PROVE \E o \in Untold' : Written(o)' = channel'
  <2>1. PICK z \in Untold : Written(z) = channel
    BY <1>2, <1>3 DEF Chain
  <2>2. PICK y \in Untold' : TRUE
    BY <1>16
  <2>3. ch.major < call[y].read.major /\ call[y].read.major < channel.major
    BY <1>2, <1>3, <1>8 DEF Chain
  <2>4. channel.major \in Nat
    BY DEF TypeOK, IsChannel
  <2>5. z # p
    BY <1>3, <1>6, <1>7, <2>1, <2>3, <2>4
  <2> QED
    BY <1>1, <1>3, <1>9, <2>1, <2>5
<1> QED
  BY <1>10, <1>11, <1>13, <1>14, <1>15, <1>16 DEF Chain

LEMMA KnowsStep ==
  ASSUME TypeOK, Checked, Apart, ReplicaKnows, [Next]_vars
  PROVE  ReplicaKnows'
\* Steps of calls that have nothing untold.
<1>1. ASSUME UNCHANGED <<channel, replica, lost>>, Untold' = Untold,
             \A o \in Untold : call'[o] = call[o]
      PROVE  ReplicaKnows'
  <2>1. \A o \in Untold : Written(o)' = Written(o) /\ Sets(o)' = Sets(o) /\ (Overtakes(o)' <=> Overtakes(o))
    BY <1>1 DEF Written, Sets, Overtakes
  <2> QED
    BY <1>1, <2>1 DEF ReplicaKnows, Chain
<1>2. ASSUME NEW p \in Calls, pc[p] # "publish", pc'[p] # "publish", UNCHANGED <<channel, replica, lost>>,
             \A o \in Calls \ {p} : pc'[o] = pc[o] /\ call'[o] = call[o]
      PROVE  ReplicaKnows'
  BY <1>1, <1>2 DEF Untold
<1>3. ASSUME NEW p \in Calls, Begin(p) \/ ReadPasses(p) \/ ReadReturns(p)
      PROVE  ReplicaKnows'
  <2>1. pc[p] # "publish" /\ pc'[p] # "publish" /\ UNCHANGED <<channel, replica, lost>>
    BY <1>3 DEF Begin, ReadPasses, ReadReturns, Return, TypeOK
  <2>2. \A o \in Calls \ {p} : pc'[o] = pc[o] /\ call'[o] = call[o]
    BY <1>3 DEF Begin, ReadPasses, ReadReturns, Return, TypeOK
  <2> QED
    BY <1>2, <2>1, <2>2
<1>4. ASSUME NEW p \in Calls, Fail(p)
      PROVE  ReplicaKnows'
  <2>1. /\ pc'[p] = "idle" /\ lost' = (lost \/ pc[p] = "publish") /\ UNCHANGED <<channel, replica>>
        /\ \A o \in Calls \ {p} : pc'[o] = pc[o] /\ call'[o] = call[o]
    BY <1>4 DEF Fail, Return, TypeOK
  <2>2. CASE pc[p] = "publish"
    BY <2>1, <2>2 DEF ReplicaKnows
  <2>3. CASE pc[p] # "publish"
    <3>1. lost' = lost
      BY <2>1, <2>3 DEF TypeOK
    <3> QED
      BY <1>2, <2>1, <2>3, <3>1
  <2> QED
    BY <2>2, <2>3
<1>5. CASE LockMoves
  BY <1>1, <1>5 DEF LockMoves, Untold
<1>6. CASE UNCHANGED vars
  BY <1>1, <1>6 DEF vars, Untold
<1> QED
  BY <1>3, <1>4, <1>5, <1>6, PersistKnows, PublishKnows DEF Next, Step

LEMMA KnowsInit ==
  ASSUME Init
  PROVE  ReplicaKnows
BY DEF Init, ReplicaKnows, Chain, Untold

\* Whoever calls and however the lock moves: when every change written was told in its turn,
\* and none was written crossed, since the last set, a subscriber that folds the events has
\* the stored record and its major revision (ReplicaAgrees).
THEOREM Replicated == Spec => []ReplicaAgrees
<1>1. ReplicaKnows => ReplicaAgrees
  BY DEF ReplicaKnows, Chain, ReplicaAgrees
<1> QED
  BY <1>1, TypeInit, TypeStep, ApartInit, ApartStep, KnowsInit, KnowsStep, PTL DEF Spec

-----------------------------------------------------------------------------
(* Refinement *)

\* The register's operators are the service's own.
LEMMA SameOperators ==
  /\ Register!Init <=> channel = NoChannel
  /\ \A ch, q : Register!Passes(ch, q) <=> Passes(ch, q)
  /\ \A ch, q : Register!After(ch, q) = After(ch, q)
<1>1. Register!Init <=> channel = NoChannel
  BY DEF Register!Init, Register!NoChannel, NoChannel, Register!NoItems, NoItems
<1>2. ASSUME NEW ch, NEW q PROVE Register!Passes(ch, q) <=> Passes(ch, q)
  BY DEF Register!Passes, Passes, Register!Refused, Refused, Register!Conflicting, Conflicting,
         Register!MajorOK, MajorOK, Register!IsEmpty, IsEmpty, Register!Missing, Missing,
         Register!ItemOK, ItemOK, Register!Keys, Keys
<1>3. ASSUME NEW ch, NEW q PROVE Register!After(ch, q) = After(ch, q)
  BY DEF Register!After, After, Register!RecordForSet, RecordForSet, Register!Normalized, Normalized,
         Register!UpdatedRecord, UpdatedRecord, Register!EntryForUpdate, EntryForUpdate,
         Register!RemainingRecord, RemainingRecord, Register!Doomed, Doomed,
         Register!NextMajor, NextMajor, Register!Keys, Keys
<1> QED
  BY <1>1, <1>2, <1>3

\* However many calls there are, whether they ask for the lock and however it moves: every
\* write of a call that was not crossed applies its request to the contents of that moment
\* (ExclusiveWrites).  What keeps an uncrossed call alone is the comparison of owners.
THEOREM Atomic == Spec => ExclusiveWrites
<1>1. Init => Register!Init
  BY SameOperators DEF Init
<1>2. TypeOK /\ Checked /\ Apart /\ [Next]_vars => [~crossed => Register!Next]_channel
  <2> SUFFICES ASSUME TypeOK, Checked, Apart, [Next]_vars, channel' # channel, ~crossed
               PROVE  Register!Next
    OBVIOUS
  <2>1. PICK p \in Calls : Persist(p)
    BY DEF Next, Step, Begin, ReadPasses, ReadReturns, Publish, Fail, LockMoves, vars
  <2>2. p \in Exposed /\ pc[p] = "persist"
    BY <2>1 DEF Persist, Exposed
  <2>3. /\ call[p].read = channel /\ Passes(channel, call[p].request)
        /\ call[p].request \in Requests /\ channel' = After(channel, call[p].request)
    BY <2>1, <2>2, CallFields DEF Persist, Apart, Checked, Writes, TypeOK, IsCall
  <2>4. Register!Change(call[p].request)
    BY <2>3, SameOperators DEF Register!Change
  <2> QED
    BY <2>3, <2>4 DEF Register!Next
<1> QED
  BY <1>1, <1>2, TypeInit, TypeStep, ApartInit, ApartStep, PTL DEF Spec, ExclusiveWrites
=============================================================================
