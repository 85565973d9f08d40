--------------------------- MODULE BatcherProofs ---------------------------
(***************************************************************************)
(* What the heartbeat batcher keeps, for any number of connections,        *)
(* heartbeats and overlapping batches, and any size of a batch: no promise *)
(* is forgotten but a superseded one, and no batch revives a session.      *)
(***************************************************************************)
EXTENDS HeartbeatBatcher, TLAPS

USE DEF Epochs

-----------------------------------------------------------------------------
(* The invariant *)

\* A request that waits is unanswered, is of the connection it waits for, and is in no
\* batch yet.
Waits ==
  \A c \in Conns : buffer[c] # None =>
    /\ request[buffer[c]] # None /\ request[buffer[c]].conn = c
    /\ \A b \in batches : ~Holds(b.entries, buffer[c])

\* A request in a batch is unanswered, and in that batch alone.
InOneBatch ==
  \A b \in batches : \A q \in Requests : Holds(b.entries, q) =>
    /\ request[q] # None
    /\ \A d \in batches : Holds(d.entries, q) => d = b

IInv == TypeOK /\ BufferedIsArmed /\ Waits /\ InOneBatch

LEMMA InitInv == ASSUME Init PROVE IInv
<1> USE BatcherAssumption, StoreAssumption DEF Init
<1>1. StoreTypeOK
  BY DEF StoreInit, StoreTypeOK, Hash, NoHash, Meta, NoMeta
<1>2. NoEntries \in Entries
  BY DEF NoEntries, Entries
<1> QED
  BY <1>1, <1>2 DEF IInv, TypeOK, BufferedIsArmed, Waits, InOneBatch, NoEntries

-----------------------------------------------------------------------------
(* The store *)

LEMMA JoinTxType ==
  ASSUME StoreTypeOK, NEW c \in Conns, NEW r \in Rooms, NEW u \in Users, NEW e \in Nat,
         NEW s \in SUBSET Marks, NEW t \in Nat, JoinTx(c, r, u, e, s, t)
  PROVE  StoreTypeOK'
BY StoreAssumption DEF StoreTypeOK, JoinTx, Hash, Meta

LEMMA LeaveTxType ==
  ASSUME StoreTypeOK, NEW c \in Conns, NEW r \in Rooms, NEW u, LeaveTx(c, r, u)
  PROVE  StoreTypeOK'
BY DEF StoreTypeOK, LeaveTx, Unindex, Hash, Meta, NoHash, NoMeta

LEMMA TickType ==
  ASSUME StoreTypeOK, Tick
  PROVE  StoreTypeOK'
BY DEF StoreTypeOK, Tick, indexVars, Hash, Meta, NoHash

\* What a batch plans to write for one of its requests.
LEMMA PlannedType ==
  ASSUME StoreTypeOK, NEW c \in Conns, NEW r \in Request
  PROVE  Planned(c, r) \in Write \union {NoWrite}
<1>1. hash[c] \in Hash
  BY DEF StoreTypeOK
<1>2. CASE ~Live(c) \/ (r.epoch # 0 /\ r.epoch < hash[c].epoch)
  BY <1>2 DEF Planned
<1>3. CASE ~(~Live(c) \/ (r.epoch # 0 /\ r.epoch < hash[c].epoch))
  <2>1. hash[c].room \in Rooms /\ hash[c].user \in Users
    BY <1>1, <1>3 DEF Live, Hash
  <2> QED
    BY <1>1, <1>3, <2>1 DEF Planned, Write, Hash, Request
<1> QED
  BY <1>2, <1>3

\* A hash after the MULTI of a batch: whole or not, its room and user are as they were.
LEMMA WrittenType ==
  ASSUME StoreTypeOK, NEW c \in Conns, NEW w \in Write \union {NoWrite}
  PROVE  /\ Written(c, w) \in Hash
         /\ Written(c, w).room = hash[c].room /\ Written(c, w).user = hash[c].user
<1>1. hash[c] \in Hash
  BY DEF StoreTypeOK
<1>2. now + TTL \in Nat
  BY StoreAssumption DEF StoreTypeOK
<1>3. CASE w = NoWrite
  BY <1>1, <1>3 DEF Written
<1>4. CASE w # NoWrite
  <2>1. w \in Write
    BY <1>4
  <2> QED
    BY <1>1, <1>2, <1>4, <2>1 DEF Written, Write, Hash
<1> QED
  BY <1>3, <1>4

\* The MULTI of a batch, written at the time its window closed.
LEMMA BatchTxType ==
  ASSUME StoreTypeOK, NEW plan \in [Conns -> Write \union {NoWrite}], NEW t \in Nat, BatchTx(plan, t)
  PROVE  StoreTypeOK'
<1>1. hash' \in [Conns -> Hash]
  BY WrittenType DEF BatchTx
<1>2. lastSeen' \in [Rooms -> [Conns -> Nat]]
  BY DEF BatchTx, StoreTypeOK
<1>3. ASSUME NEW r \in Rooms, NEW c \in Conns
      PROVE  (IF plan[c].room = r /\ plan[c].raised
              THEN [user |-> plan[c].user, epoch |-> plan[c].epoch]
              ELSE connMeta[r][c]) \in Meta
  <2>1. connMeta[r][c] \in Meta
    BY DEF StoreTypeOK
  <2>2. CASE plan[c] = NoWrite
    BY <2>1, <2>2, StoreAssumption DEF NoWrite
  <2>3. CASE plan[c] \in Write
    BY <2>1, <2>3 DEF Write, Meta
  <2> QED
    BY <2>2, <2>3
<1>4. connMeta' \in [Rooms -> [Conns -> Meta]]
  BY <1>3 DEF BatchTx
<1> QED
  BY <1>1, <1>2, <1>4 DEF BatchTx, StoreTypeOK

-----------------------------------------------------------------------------
(* The steps of the batcher *)

\* The buffer keeps its shape, and a full or late one becomes a batch of that shape.
LEMMA FlushType ==
  ASSUME TypeOK, NEW entries \in Entries, Flush(entries)
  PROVE  timer' \in BOOLEAN /\ buffer' \in Entries /\ batches' \subseteq Batch
<1>1. NoEntries \in Entries
  BY DEF NoEntries, Entries
<1>2. NoPlan \in [Conns -> Write \union {NoWrite}]
  BY DEF NoPlan
<1>3. [pc |-> "read", at |-> now, entries |-> entries, plan |-> NoPlan] \in Batch
  BY <1>2 DEF TypeOK, StoreTypeOK, Batch
<1> QED
  BY <1>1, <1>3 DEF Flush, TypeOK

LEMMA StoreUnchangedType ==
  ASSUME StoreTypeOK, UNCHANGED storeVars
  PROVE  StoreTypeOK'
BY DEF StoreTypeOK, storeVars, Hash, Meta

\* Requests that could wait can be a batch: they are in no other.
LEMMA FlushInv ==
  ASSUME NEW entries \in Entries, Flush(entries),
         \A b \in batches : \A q \in Requests : Holds(b.entries, q) =>
           /\ request'[q] # None
           /\ \A d \in batches : Holds(d.entries, q) => d = b,
         \A c \in Conns : entries[c] # None =>
           /\ request'[entries[c]] # None
           /\ \A b \in batches : ~Holds(b.entries, entries[c])
  PROVE  BufferedIsArmed' /\ Waits' /\ InOneBatch'
<1> USE BatcherAssumption
<1> DEFINE new == [pc |-> "read", at |-> now, entries |-> entries, plan |-> NoPlan]
<1>1. buffer' = NoEntries /\ batches' \subseteq batches \union {new}
  BY DEF Flush
<1>2. BufferedIsArmed' /\ Waits'
  BY <1>1 DEF BufferedIsArmed, Waits, NoEntries
<1>3. new.entries = entries
  OBVIOUS
<1> HIDE DEF new
<1>4. \A q \in Requests : Holds(entries, q) =>
        request'[q] # None /\ \A b \in batches : ~Holds(b.entries, q)
  BY DEF Holds
<1>5. InOneBatch'
  BY <1>1, <1>3, <1>4 DEF InOneBatch
<1> QED
  BY <1>2, <1>5

\* A heartbeat that joins the buffer, or fills it.
LEMMA HeartbeatInv ==
  ASSUME IInv, NEW q \in Requests, Heartbeat(q)
  PROVE  IInv'
<1> USE BatcherAssumption DEF IInv
<1>1. PICK r \in Beats : /\ ~disposed
                         /\ q \notin Unanswered
                         /\ request' = [request EXCEPT ![q] = r]
                         /\ Collect([buffer EXCEPT ![r.conn] = q])
                         /\ UNCHANGED <<storeVars, disposed>>
  BY DEF Heartbeat
<1> DEFINE entries == [buffer EXCEPT ![r.conn] = q]
<1>2. r \in Request /\ r.conn \in Conns /\ r # None
  BY DEF Request
<1>3. request' \in [Requests -> Request \union {None}] /\ StoreTypeOK' /\ disposed' = disposed
  BY <1>1, <1>2, StoreUnchangedType DEF TypeOK
<1>4. entries \in Entries
  BY <1>2 DEF TypeOK, Entries
<1>5. request[q] = None /\ request'[q] = r /\ \A p \in Requests \ {q} : request'[p] = request[p]
  BY <1>1 DEF Unanswered, TypeOK
<1>6. \A b \in batches : ~Holds(b.entries, q)
  BY <1>5 DEF InOneBatch
<1>7. ASSUME NEW c \in Conns, entries[c] # None
      PROVE  /\ entries[c] \in Requests
             /\ request'[entries[c]] # None /\ request'[entries[c]].conn = c
             /\ \A b \in batches : ~Holds(b.entries, entries[c])
  <2>1. CASE c = r.conn
    BY <2>1, <1>2, <1>5, <1>6 DEF TypeOK, Entries
  <2>2. CASE c # r.conn
    <3>1. entries[c] = buffer[c] /\ buffer[c] \in Requests
      BY <2>2, <1>7 DEF TypeOK, Entries
    <3>2. /\ request[buffer[c]] # None /\ request[buffer[c]].conn = c
          /\ \A b \in batches : ~Holds(b.entries, buffer[c])
      BY <3>1, <1>7 DEF Waits
    <3>3. buffer[c] # q
      BY <3>2, <1>5
    <3> QED
      BY <3>1, <3>2, <3>3, <1>5
  <2> QED
    BY <2>1, <2>2
<1>8. \A b \in batches : \A p \in Requests : Holds(b.entries, p) =>
        request'[p] # None /\ \A d \in batches : Holds(d.entries, p) => d = b
  BY <1>5, <1>6 DEF InOneBatch
<1> HIDE DEF entries
<1>9. CASE Flush(entries)
  <2>1. BufferedIsArmed' /\ Waits' /\ InOneBatch'
    BY <1>4, <1>7, <1>8, <1>9, FlushInv
  <2> QED
    BY <2>1, <1>3, <1>4, <1>9, FlushType DEF TypeOK
<1>10. CASE buffer' = entries /\ timer' = TRUE /\ UNCHANGED batches
  <2>1. TypeOK'
    BY <1>3, <1>4, <1>10 DEF TypeOK
  <2>2. BufferedIsArmed'
    BY <1>1, <1>3, <1>10 DEF BufferedIsArmed
  <2>3. Waits'
    BY <1>7, <1>10 DEF Waits
  <2>4. InOneBatch'
    BY <1>8, <1>10 DEF InOneBatch
  <2> QED
    BY <2>1, <2>2, <2>3, <2>4
<1> QED
  BY <1>1, <1>9, <1>10 DEF Collect, entries

LEMMA TimerFiresInv ==
  ASSUME IInv, TimerFires
  PROVE  IInv'
<1> USE BatcherAssumption DEF IInv
<1>1. buffer \in Entries /\ Flush(buffer) /\ request' = request
  BY DEF TypeOK, TimerFires
<1>2. \A c \in Conns : buffer[c] # None =>
        request'[buffer[c]] # None /\ \A b \in batches : ~Holds(b.entries, buffer[c])
  BY <1>1 DEF Waits
<1>3. \A b \in batches : \A q \in Requests : Holds(b.entries, q) =>
        request'[q] # None /\ \A d \in batches : Holds(d.entries, q) => d = b
  BY <1>1 DEF InOneBatch
<1>4. BufferedIsArmed' /\ Waits' /\ InOneBatch'
  BY <1>1, <1>2, <1>3, FlushInv
<1> QED
  BY <1>1, <1>4, FlushType, StoreUnchangedType DEF TypeOK, TimerFires

\* A batch that goes on with the same requests is as good as before.
LEMMA Advances ==
  ASSUME IInv, NEW b \in batches, NEW d \in Batch, d.entries = b.entries,
         batches' = (batches \ {b}) \union {d},
         UNCHANGED <<buffer, timer, disposed, request>>, StoreTypeOK'
  PROVE  IInv'
<1> USE DEF IInv
<1>1. TypeOK'
  BY DEF TypeOK
<1>2. Waits'
  BY DEF Waits
<1>3. InOneBatch'
  BY DEF InOneBatch
<1> QED
  BY <1>1, <1>2, <1>3 DEF BufferedIsArmed

LEMMA BatchReadInv ==
  ASSUME IInv, NEW b \in batches, BatchRead(b)
  PROVE  IInv'
<1> DEFINE plan == [c \in Conns |-> IF c \in Waiting(b.entries)
                                    THEN Planned(c, request[b.entries[c]]) ELSE NoWrite]
<1>1. b \in Batch /\ b.entries \in Entries /\ StoreTypeOK
  BY DEF IInv, TypeOK, Batch
<1>2. ASSUME NEW c \in Conns, c \in Waiting(b.entries)
      PROVE  Planned(c, request[b.entries[c]]) \in Write \union {NoWrite}
  <2>1. b.entries[c] \in Requests /\ Holds(b.entries, b.entries[c])
    BY <1>1, <1>2 DEF Waiting, Entries, Holds
  <2>2. request[b.entries[c]] \in Request
    BY <2>1 DEF IInv, InOneBatch, TypeOK
  <2> QED
    BY <1>1, <2>2, PlannedType
<1>3. plan \in [Conns -> Write \union {NoWrite}]
  BY <1>2
<1> DEFINE d == [b EXCEPT !.pc = "write", !.plan = plan]
<1>4. batches' = (batches \ {b}) \union {d}
  BY DEF BatchRead
<1> HIDE DEF plan
<1>5. d \in Batch /\ d.entries = b.entries
  BY <1>1, <1>3 DEF Batch
<1> HIDE DEF d
<1> QED
  BY <1>1, <1>4, <1>5, StoreUnchangedType, Advances DEF BatchRead

LEMMA BatchWriteInv ==
  ASSUME IInv, NEW b \in batches, BatchWrite(b)
  PROVE  IInv'
<1> DEFINE d == [b EXCEPT !.pc = "reply"]
<1>1. b \in Batch /\ StoreTypeOK
  BY DEF IInv, TypeOK
<1>2. batches' = (batches \ {b}) \union {d}
  BY DEF BatchWrite
<1>3. d \in Batch /\ d.entries = b.entries
  BY <1>1 DEF Batch
<1> HIDE DEF d
<1>4. StoreTypeOK'
  BY <1>1, BatchTxType DEF BatchWrite, Batch
<1> QED
  BY <1>2, <1>3, <1>4, Advances DEF BatchWrite

\* Requests that are settled leave the requests of other batches unanswered.
LEMMA SettleType ==
  ASSUME TypeOK, NEW entries, Settle(entries)
  PROVE  request' \in [Requests -> Request \union {None}]
BY DEF TypeOK, Settle

LEMMA BatchEndsInv ==
  ASSUME IInv, NEW b \in batches, Settle(b.entries), batches' = batches \ {b},
         UNCHANGED <<storeVars, buffer, timer, disposed>>
  PROVE  IInv'
<1> USE BatcherAssumption DEF IInv
<1>1. TypeOK'
  BY SettleType, StoreUnchangedType DEF TypeOK
<1>2. \A q \in Requests : ~Holds(b.entries, q) => request'[q] = request[q]
  BY DEF Settle
<1>3. \A c \in Conns : buffer[c] # None => buffer[c] \in Requests
  BY DEF TypeOK, Entries
<1>4. Waits'
  BY <1>2, <1>3 DEF Waits
<1>5. InOneBatch'
  BY <1>2 DEF InOneBatch
<1> QED
  BY <1>1, <1>4, <1>5 DEF BufferedIsArmed

LEMMA DisposeInv ==
  ASSUME IInv, Dispose
  PROVE  IInv'
<1> USE BatcherAssumption DEF IInv
<1>1. NoEntries \in Entries
  BY DEF NoEntries, Entries
<1>2. TypeOK'
  BY <1>1, SettleType, StoreUnchangedType DEF TypeOK, Dispose
<1>3. BufferedIsArmed' /\ Waits'
  BY DEF Dispose, BufferedIsArmed, Waits, NoEntries
<1>4. ASSUME NEW b \in batches, NEW q \in Requests, Holds(b.entries, q)
      PROVE  request'[q] = request[q]
  <2>1. ~Holds(buffer, q)
    BY <1>4 DEF Waits, Holds
  <2> QED
    BY <2>1 DEF Dispose, Settle
<1>5. InOneBatch'
  BY <1>4 DEF InOneBatch, Dispose
<1> QED
  BY <1>2, <1>3, <1>5

\* The rest of the service leaves the batcher as it is.
LEMMA BesideInv ==
  ASSUME IInv, Join \/ Leave \/ Clock
  PROVE  IInv'
<1> USE BatcherAssumption DEF IInv
<1>1. CASE Join
  <2>1. PICK l \in Logins : JoinTx(l.conn, l.room, l.user, NextEpoch(hash[l.conn].epoch, now),
                                   l.state, now)
    BY <1>1 DEF Join
  <2>2. /\ l.conn \in Conns /\ l.room \in Rooms /\ l.user \in Users /\ l.state \in SUBSET Marks
        /\ now \in Nat /\ StoreTypeOK
    BY DEF TypeOK, StoreTypeOK
  <2>3. NextEpoch(hash[l.conn].epoch, now) \in Nat
    BY <2>2 DEF NextEpoch, StoreTypeOK, Hash
  <2>4. StoreTypeOK'
    BY <2>1, <2>2, <2>3, JoinTxType
  <2> QED
    BY <1>1, <2>4 DEF Join, batcherVars, TypeOK, BufferedIsArmed, Waits, InOneBatch
<1>2. CASE Leave
  <2>1. PICK c \in Conns : Live(c) /\ LeaveTx(c, hash[c].room, hash[c].user)
    BY <1>2 DEF Leave
  <2>2. hash[c].room \in Rooms /\ StoreTypeOK
    BY <2>1 DEF Live, TypeOK, StoreTypeOK, Hash
  <2>3. StoreTypeOK'
    BY <2>1, <2>2, LeaveTxType
  <2> QED
    BY <1>2, <2>3 DEF Leave, batcherVars, TypeOK, BufferedIsArmed, Waits, InOneBatch
<1>3. CASE Clock
  <2>1. StoreTypeOK'
    BY <1>3, TickType DEF Clock, TypeOK
  <2> QED
    BY <1>3, <2>1 DEF Clock, batcherVars, TypeOK, BufferedIsArmed, Waits, InOneBatch
<1> QED
  BY <1>1, <1>2, <1>3

LEMMA StepInv ==
  ASSUME IInv, [Next]_vars
  PROVE  IInv'
<1>1. ASSUME NEW q \in Requests, Heartbeat(q) PROVE IInv'
  BY <1>1, HeartbeatInv
<1>2. CASE TimerFires
  BY <1>2, TimerFiresInv
<1>3. CASE Dispose
  BY <1>3, DisposeInv
<1>4. ASSUME NEW b \in batches, Process(b) \/ BatchFails(b) PROVE IInv'
  <2>1. CASE BatchRead(b)
    BY <2>1, BatchReadInv
  <2>2. CASE BatchWrite(b)
    BY <2>2, BatchWriteInv
  <2>3. CASE BatchReply(b) \/ BatchFails(b)
    BY <2>3, BatchEndsInv DEF BatchReply, BatchFails
  <2> QED
    BY <1>4, <2>1, <2>2, <2>3 DEF Process
<1>5. CASE Join \/ Leave \/ Clock
  BY <1>5, BesideInv
<1>6. CASE UNCHANGED vars
  BY <1>6, StoreUnchangedType
     DEF IInv, vars, batcherVars, TypeOK, BufferedIsArmed, Waits, InOneBatch
<1> QED
  BY <1>1, <1>2, <1>3, <1>4, <1>5, <1>6 DEF Next

LEMMA Invariant == Spec => []IInv
BY InitInv, StepInv, PTL DEF Spec

-----------------------------------------------------------------------------
(* Theorems *)

\* The store, the buffer, the promises and the batches keep their shapes.
THEOREM TypeCorrect == Spec => []TypeOK
BY Invariant, PTL DEF IInv

\* Whatever waits in the buffer has a timer to flush it, until dispose rejects it.
THEOREM Armed == Spec => []BufferedIsArmed
BY Invariant, PTL DEF IInv

\* A promise is forgotten only when a later heartbeat of its connection takes its place
\* in the buffer (heartbeat, the flush, the replies and dispose).
THEOREM Superseded == Spec => OnlySuperseded
<1> DEFINE Kept(q) == \E p \in Requests \ {q} : /\ p \notin Unanswered /\ Held(p)'
                                                /\ request'[p].conn = request[q].conn
           Step == \A q \in Requests : Held(q) /\ ~Held(q)' /\ request'[q] # None => Kept(q)
<1>1. IInv /\ Next => Step
  <2> SUFFICES ASSUME IInv, Next, NEW q \in Requests, Held(q), ~Held(q)', request'[q] # None
               PROVE  Kept(q)
    OBVIOUS
  <2> USE BatcherAssumption DEF IInv
  <2>1. ASSUME NEW p \in Requests, Heartbeat(p) PROVE Kept(q)
    <3>1. PICK r \in Beats : /\ p \notin Unanswered
                             /\ request' = [request EXCEPT ![p] = r]
                             /\ Collect([buffer EXCEPT ![r.conn] = p])
      BY <2>1 DEF Heartbeat
    <3> DEFINE entries == [buffer EXCEPT ![r.conn] = p]
               new == [pc |-> "read", at |-> now, entries |-> entries, plan |-> NoPlan]
    <3>2. r.conn \in Conns /\ entries \in [Conns -> Requests \union {None}]
      BY DEF TypeOK, Entries
    <3>3. new.entries = entries
      OBVIOUS
    <3>4. entries[r.conn] = p /\ \A c \in Conns \ {r.conn} : entries[c] = buffer[c]
      BY <3>2 DEF TypeOK, Entries
    <3>5. entries # NoEntries
      BY <3>2, <3>4 DEF NoEntries
    <3> HIDE DEF new
    <3>6. (buffer' = entries /\ batches' = batches) \/ batches' = batches \union {new}
      BY <3>1, <3>5 DEF Collect, Flush, new
    <3> HIDE DEF entries
    <3>7. \A x \in Requests : Holds(entries, x) => Held(x)'
      BY <3>3, <3>6 DEF Held, Holds
    <3>8. \A b \in batches : ~Holds(b.entries, q)
      BY <3>6 DEF Held
    <3>9. PICK c \in Conns : buffer[c] = q
      BY <3>8 DEF Held, Holds
    <3>10. c = r.conn /\ p # q
      BY <3>2, <3>4, <3>7, <3>9 DEF Holds
    <3>11. request'[p].conn = c /\ request[q].conn = c
      BY <3>1, <3>9, <3>10 DEF TypeOK, Waits
    <3>12. Held(p)'
      BY <3>2, <3>4, <3>7 DEF Holds
    <3> QED
      BY <3>1, <3>10, <3>11, <3>12
  <2>2. CASE TimerFires
    <3>1. Flush(buffer)
      BY <2>2 DEF TimerFires
    <3> DEFINE new == [pc |-> "read", at |-> now, entries |-> buffer, plan |-> NoPlan]
    <3>2. new.entries = buffer
      OBVIOUS
    <3>3. ~Holds(NoEntries, q)
      BY DEF Holds, NoEntries
    <3> HIDE DEF new
    <3>4. batches' = batches \union {new} \/ (batches' = batches /\ buffer = NoEntries)
      BY <3>1 DEF Flush, new
    <3> QED
      BY <3>2, <3>3, <3>4 DEF Held
  <2>3. CASE Dispose
    <3>1. batches' = batches /\ Settle(buffer)
      BY <2>3 DEF Dispose
    <3> QED
      BY <3>1 DEF Held, Settle
  <2>4. ASSUME NEW b \in batches, Process(b) \/ BatchFails(b) PROVE Kept(q)
    <3>1. buffer' = buffer /\ b \in Batch
      BY <2>4 DEF Process, BatchRead, BatchWrite, BatchReply, BatchFails, TypeOK
    <3>2. CASE BatchRead(b)
      <4> DEFINE plan == [c \in Conns |-> IF c \in Waiting(b.entries)
                                          THEN Planned(c, request[b.entries[c]]) ELSE NoWrite]
                 d == [b EXCEPT !.pc = "write", !.plan = plan]
      <4>1. batches' = (batches \ {b}) \union {d}
        BY <3>2 DEF BatchRead
      <4> HIDE DEF plan
      <4>2. d.entries = b.entries
        BY <3>1 DEF Batch
      <4> HIDE DEF d
      <4> QED
        BY <3>1, <4>1, <4>2 DEF Held
    <3>3. CASE BatchWrite(b)
      <4> DEFINE d == [b EXCEPT !.pc = "reply"]
      <4>1. batches' = (batches \ {b}) \union {d}
        BY <3>3 DEF BatchWrite
      <4>2. d.entries = b.entries
        BY <3>1 DEF Batch
      <4> HIDE DEF d
      <4> QED
        BY <3>1, <4>1, <4>2 DEF Held
    <3>4. CASE BatchReply(b) \/ BatchFails(b)
      <4>1. batches' = batches \ {b} /\ Settle(b.entries)
        BY <3>4 DEF BatchReply, BatchFails
      <4> QED
        BY <3>1, <4>1 DEF Held, Settle
    <3> QED
      BY <2>4, <3>2, <3>3, <3>4 DEF Process
  <2>5. CASE Join \/ Leave \/ Clock
    BY <2>5 DEF Join, Leave, Clock, batcherVars, Held
  <2> QED
    BY <2>1, <2>2, <2>3, <2>4, <2>5 DEF Next
<1>2. IInv /\ [Next]_vars => [Step]_vars
  BY <1>1
<1> QED
  BY Invariant, <1>2, PTL DEF Spec, OnlySuperseded

\* A batch that is written after its sessions ended leaves hashes without room and user.
THEOREM NoneRevived == Spec => NoRevival
<1> DEFINE Step == \A b \in batches : BatchWrite(b) => \A c \in Conns : Live(c)' => Live(c)
<1>1. IInv => Step
  <2> SUFFICES ASSUME IInv, NEW b \in batches, BatchWrite(b), NEW c \in Conns, Live(c)'
               PROVE  Live(c)
    OBVIOUS
  <2>1. StoreTypeOK /\ b.plan[c] \in Write \union {NoWrite}
    BY DEF IInv, TypeOK, Batch
  <2>2. hash'[c] = Written(c, b.plan[c])
    BY DEF BatchWrite, BatchTx
  <2> QED
    BY <2>1, <2>2, WrittenType DEF Live
<1>2. IInv /\ [Next]_vars => [Step]_vars
  BY <1>1
<1> QED
  BY Invariant, <1>2, PTL DEF Spec, NoRevival

-----------------------------------------------------------------------------
(* The sessions of clients that await their answers *)

AwaitedOnce == \A c \in Polite : \A p, q \in AwaitedBy(c) : p = q

\* A batch holds, for each connection, a request of that connection.
OwnRequests ==
  \A b \in batches : \A c \in Conns : b.entries[c] # None => request[b.entries[c]].conn = c

\* A batch writes only for the connections it was called with.
PlansItsOwn ==
  \A b \in batches : b.pc = "write" =>
    \A c \in Conns : b.plan[c] # NoWrite => b.entries[c] # None

\* What a batch is about to write for a client that awaits its answers is ahead of what
\* the hash holds.
PlansAhead ==
  \A b \in batches : b.pc = "write" => \A c \in Polite : b.plan[c] # NoWrite =>
    b.plan[c].epoch >= hash[c].epoch /\ hash[c].state \subseteq b.plan[c].state

PoliteInv == AwaitedOnce /\ OwnRequests /\ PlansItsOwn /\ PlansAhead

PlanOf(b) == [c \in Conns |-> IF c \in Waiting(b.entries)
                              THEN Planned(c, request[b.entries[c]]) ELSE NoWrite]

\* Where a batch of the next state comes from: it is what waited, or it was in progress,
\* and then its requests are what they were.
Fresh(d) ==
  d.pc = "read" /\ \A c \in Conns : d.entries[c] # None => request'[d.entries[c]].conn = c

Continues(b, d) ==
  /\ d.entries = b.entries
  /\ \A q \in Requests : Holds(b.entries, q) => request'[q] = request[q]
  /\ \/ d = b
     \/ d.pc = "reply"
     \/ BatchRead(b) /\ d.plan = PlanOf(b)

LEMMA FlushOrigin ==
  ASSUME NEW entries, Flush(entries), NEW d \in batches', d \notin batches,
         \A c \in Conns : entries[c] # None => request'[entries[c]].conn = c
  PROVE  Fresh(d)
<1> DEFINE new == [pc |-> "read", at |-> now, entries |-> entries, plan |-> NoPlan]
<1>1. d = new
  BY DEF Flush
<1>2. new.pc = "read" /\ new.entries = entries
  OBVIOUS
<1> QED
  BY <1>1, <1>2 DEF Fresh

LEMMA Origin ==
  ASSUME IInv, [Next]_vars, NEW d \in batches'
  PROVE  Fresh(d) \/ \E b \in batches : Continues(b, d)
<1> USE BatcherAssumption DEF IInv
<1>1. ASSUME NEW q \in Requests, Heartbeat(q)
      PROVE  Fresh(d) \/ (d \in batches /\ Continues(d, d))
  <2>1. PICK r \in Beats : /\ q \notin Unanswered
                           /\ request' = [request EXCEPT ![q] = r]
                           /\ Collect([buffer EXCEPT ![r.conn] = q])
    BY <1>1 DEF Heartbeat
  <2> DEFINE entries == [buffer EXCEPT ![r.conn] = q]
  <2>2. request[q] = None /\ request'[q] = r /\ \A p \in Requests \ {q} : request'[p] = request[p]
    BY <2>1 DEF Unanswered, TypeOK
  <2>3. CASE d \in batches
    BY <2>2, <2>3 DEF InOneBatch, Continues
  <2>4. CASE d \notin batches
    <3>1. ASSUME NEW c \in Conns, entries[c] # None
          PROVE  request'[entries[c]].conn = c
      <4>1. CASE c = r.conn
        BY <2>2, <4>1 DEF TypeOK, Entries
      <4>2. CASE c # r.conn
        <5>1. entries[c] = buffer[c] /\ buffer[c] \in Requests
          BY <3>1, <4>2 DEF TypeOK, Entries
        <5>2. request[buffer[c]] # None /\ request[buffer[c]].conn = c
          BY <3>1, <5>1 DEF Waits
        <5>3. buffer[c] # q
          BY <2>2, <5>2
        <5> QED
          BY <2>2, <5>1, <5>2, <5>3
      <4> QED
        BY <4>1, <4>2
    <3>2. Flush(entries)
      BY <2>1, <2>4 DEF Collect
    <3> HIDE DEF entries
    <3> QED
      BY <2>4, <3>1, <3>2, FlushOrigin
  <2> QED
    BY <2>3, <2>4
<1>2. CASE TimerFires
  <2>1. Flush(buffer) /\ request' = request
    BY <1>2 DEF TimerFires
  <2>2. \A c \in Conns : buffer[c] # None => request'[buffer[c]].conn = c
    BY <2>1 DEF Waits
  <2>3. d \in batches => Continues(d, d)
    BY <2>1 DEF Continues
  <2> QED
    BY <2>1, <2>2, <2>3, FlushOrigin
<1>3. CASE Dispose
  <2>1. d \in batches /\ Settle(buffer)
    BY <1>3 DEF Dispose
  <2>2. \A q \in Requests : Holds(d.entries, q) => ~Holds(buffer, q)
    BY <2>1 DEF Waits, Holds
  <2> QED
    BY <2>1, <2>2 DEF Continues, Settle
<1>4. ASSUME NEW b \in batches, Process(b) \/ BatchFails(b)
      PROVE  \E e \in batches : Continues(e, d)
  <2>1. b \in Batch
    BY DEF TypeOK
  <2>2. CASE BatchRead(b)
    <3> DEFINE next == [b EXCEPT !.pc = "write", !.plan = PlanOf(b)]
    <3>1. request' = request /\ (d \in batches \/ d = next)
      BY <2>2 DEF BatchRead, PlanOf
    <3>2. next.entries = b.entries /\ next.plan = PlanOf(b)
      BY <2>1 DEF Batch
    <3> HIDE DEF next
    <3> QED
      BY <2>2, <3>1, <3>2 DEF Continues
  <2>3. CASE BatchWrite(b)
    <3> DEFINE next == [b EXCEPT !.pc = "reply"]
    <3>1. request' = request /\ (d \in batches \/ d = next)
      BY <2>3 DEF BatchWrite
    <3>2. next.entries = b.entries /\ next.pc = "reply"
      BY <2>1 DEF Batch
    <3> HIDE DEF next
    <3> QED
      BY <3>1, <3>2 DEF Continues
  <2>4. CASE BatchReply(b) \/ BatchFails(b)
    <3>1. Settle(b.entries) /\ d \in batches /\ d # b
      BY <2>4 DEF BatchReply, BatchFails
    <3>2. \A q \in Requests : Holds(d.entries, q) => ~Holds(b.entries, q)
      BY <3>1 DEF InOneBatch
    <3> QED
      BY <3>1, <3>2 DEF Continues, Settle
  <2> QED
    BY <1>4, <2>2, <2>3, <2>4 DEF Process
<1>5. CASE Join \/ Leave \/ Clock \/ UNCHANGED vars
  <2>1. UNCHANGED <<batches, request>>
    BY <1>5 DEF Join, Leave, Clock, batcherVars, vars
  <2> QED
    BY <2>1 DEF Continues
<1> QED
  BY <1>1, <1>2, <1>3, <1>4, <1>5 DEF Next

\* Who writes the hash of a connection: its join, a batch, or what deletes it.
LEMMA HashWriters ==
  ASSUME IInv, [Next]_vars, NEW c \in Conns
  PROVE  \/ hash'[c] \in {hash[c], NoHash}
         \/ Join /\ \E l \in Logins : l.conn = c /\
              JoinTx(c, l.room, l.user, NextEpoch(hash[c].epoch, now), l.state, now) /\
              (c \in Polite => AwaitedBy(c) = {})
         \/ \E b \in batches : BatchWrite(b) /\ b.plan[c] # NoWrite /\ hash'[c] = Written(c, b.plan[c])
<1>0. hash \in [Conns -> Hash]
  BY DEF IInv, TypeOK, StoreTypeOK
<1>1. CASE Join
  <2>1. PICK l \in Logins : /\ l.conn \in Polite => AwaitedBy(l.conn) = {}
                            /\ JoinTx(l.conn, l.room, l.user, NextEpoch(hash[l.conn].epoch, now), l.state, now)
    BY <1>1 DEF Join
  <2>2. l.conn # c => hash'[c] = hash[c]
    BY <1>0, <2>1 DEF JoinTx
  <2> QED
    BY <1>1, <2>1, <2>2
<1>2. ASSUME NEW b \in batches, BatchWrite(b)
      PROVE  hash'[c] = Written(c, b.plan[c])
  BY <1>2 DEF BatchWrite, BatchTx
<1>3. ASSUME NEW b \in batches, Process(b) \/ BatchFails(b), ~BatchWrite(b)
      PROVE  UNCHANGED hash
  BY <1>3 DEF Process, BatchRead, BatchReply, BatchFails, storeVars
<1>4. CASE Leave
  BY <1>0, <1>4 DEF Leave, LeaveTx
<1>5. CASE Clock
  BY <1>0, <1>5 DEF Clock, Tick
<1>6. ASSUME TimerFires \/ Dispose \/ (\E q \in Requests : Heartbeat(q)) \/ UNCHANGED vars
      PROVE  UNCHANGED hash
  BY <1>6 DEF TimerFires, Dispose, Heartbeat, vars, storeVars
<1>7. \A b \in batches : b.plan[c] = NoWrite => Written(c, b.plan[c]) = hash[c]
  BY DEF Written
<1> QED
  BY <1>1, <1>2, <1>3, <1>4, <1>5, <1>6, <1>7 DEF Next

LEMMA PoliteInit ==
  ASSUME Init
  PROVE  PoliteInv
BY DEF Init, PoliteInv, AwaitedOnce, AwaitedBy, Unanswered, OwnRequests, PlansItsOwn, PlansAhead

\* A client that awaits its answers has one heartbeat unanswered at most.
LEMMA AwaitedOnceStep ==
  ASSUME IInv, AwaitedOnce, [Next]_vars
  PROVE  AwaitedOnce'
<1> USE BatcherAssumption DEF IInv, TypeOK
<1>1. ASSUME NEW q \in Requests, Heartbeat(q)
      PROVE  AwaitedOnce'
  <2>1. PICK r \in Beats : /\ r.conn \in Polite => AwaitedBy(r.conn) = {}
                           /\ request' = [request EXCEPT ![q] = r]
    BY <1>1 DEF Heartbeat
  <2>2. request'[q] = r /\ \A p \in Requests \ {q} : request'[p] = request[p]
    BY <2>1
  <2> QED
    BY <2>1, <2>2 DEF AwaitedOnce, AwaitedBy, Unanswered
<1>2. ASSUME \A q \in Requests : request'[q] \in {request[q], None}
      PROVE  AwaitedOnce'
  BY <1>2 DEF AwaitedOnce, AwaitedBy, Unanswered
<1>3. ASSUME NEW entries, Settle(entries) \/ UNCHANGED request
      PROVE  AwaitedOnce'
  BY <1>2, <1>3 DEF Settle
<1>4. CASE TimerFires \/ Dispose
  BY <1>3, <1>4 DEF TimerFires, Dispose
<1>5. ASSUME NEW b \in batches, Process(b) \/ BatchFails(b)
      PROVE  AwaitedOnce'
  BY <1>3, <1>5 DEF Process, BatchRead, BatchWrite, BatchReply, BatchFails
<1>6. CASE Join \/ Leave \/ Clock \/ UNCHANGED vars
  BY <1>3, <1>6 DEF Join, Leave, Clock, batcherVars, vars
<1> QED
  BY <1>1, <1>4, <1>5, <1>6 DEF Next

LEMMA OwnStep ==
  ASSUME IInv, OwnRequests, PlansItsOwn, [Next]_vars
  PROVE  OwnRequests' /\ PlansItsOwn'
<1> USE BatcherAssumption
<1>1. ASSUME NEW d \in batches', NEW c \in Conns, d.entries[c] # None
      PROVE  request'[d.entries[c]].conn = c
  <2>1. ASSUME NEW b \in batches, Continues(b, d)
        PROVE  request'[d.entries[c]].conn = c
    <3>1. b.entries[c] \in Requests /\ Holds(b.entries, b.entries[c])
      BY <1>1, <2>1 DEF Continues, IInv, TypeOK, Batch, Entries, Holds
    <3> QED
      BY <1>1, <2>1, <3>1 DEF Continues, OwnRequests
  <2> QED
    BY <1>1, <2>1, Origin DEF Fresh
<1>2. ASSUME NEW d \in batches', d.pc = "write", NEW c \in Conns, d.plan[c] # NoWrite
      PROVE  d.entries[c] # None
  <2>1. ASSUME NEW b \in batches, Continues(b, d)
        PROVE  d.entries[c] # None
    BY <1>2, <2>1 DEF Continues, PlansItsOwn, PlanOf, Waiting
  <2> QED
    BY <1>2, <2>1, Origin DEF Fresh
<1> QED
  BY <1>1, <1>2 DEF OwnRequests, PlansItsOwn

LEMMA PlannedAhead ==
  ASSUME StoreTypeOK, NEW c \in Conns, NEW r \in Request, Planned(c, r) # NoWrite
  PROVE  Planned(c, r).epoch >= hash[c].epoch /\ hash[c].state \subseteq Planned(c, r).state
<1>1. hash[c].epoch \in Nat /\ r.epoch \in Nat
  BY DEF StoreTypeOK, Hash, Request
<1> QED
  BY <1>1 DEF Planned

\* Two batches hold requests of one such client only if they are one.
LEMMA OneBatchEach ==
  ASSUME IInv, AwaitedOnce, OwnRequests, NEW c \in Polite, NEW b \in batches, NEW d \in batches,
         b.entries[c] # None, d.entries[c] # None
  PROVE  b = d
<1> USE BatcherAssumption
<1>1. /\ b.entries[c] \in Requests /\ Holds(b.entries, b.entries[c])
      /\ d.entries[c] \in Requests /\ Holds(d.entries, d.entries[c])
  BY DEF IInv, TypeOK, Batch, Entries, Holds
<1>2. b.entries[c] \in AwaitedBy(c) /\ d.entries[c] \in AwaitedBy(c)
  BY <1>1 DEF IInv, InOneBatch, OwnRequests, AwaitedBy, Unanswered
<1>3. b.entries[c] = d.entries[c]
  BY <1>2 DEF AwaitedOnce
<1> QED
  BY <1>1, <1>3 DEF IInv, InOneBatch

LEMMA PlansAheadStep ==
  ASSUME IInv, PoliteInv, [Next]_vars
  PROVE  PlansAhead'
<1> USE BatcherAssumption DEF PoliteInv
<1> SUFFICES ASSUME NEW d \in batches', d.pc = "write", NEW c \in Polite, d.plan[c] # NoWrite
             PROVE  d.plan[c].epoch >= hash'[c].epoch /\ hash'[c].state \subseteq d.plan[c].state
  BY DEF PlansAhead
<1>0. c \in Conns /\ hash \in [Conns -> Hash]
  BY DEF IInv, TypeOK, StoreTypeOK
<1>1. PICK b \in batches : Continues(b, d)
  BY Origin DEF Fresh
<1>2. b \in Batch /\ b.entries \in Entries
  BY DEF IInv, TypeOK, Batch
<1>3. CASE d = b
  <2>1. d.plan[c].epoch >= hash[c].epoch /\ hash[c].state \subseteq d.plan[c].state
    BY <1>3 DEF PlansAhead
  <2>2. d.plan[c].epoch \in Nat /\ d.entries[c] # None
    BY <1>0, <1>2, <1>3 DEF PlansItsOwn, Batch, Write
  <2>3. AwaitedBy(c) # {}
    <3>1. d.entries[c] \in Requests /\ Holds(d.entries, d.entries[c])
      BY <1>0, <1>2, <1>3, <2>2 DEF Entries, Holds
    <3> QED
      BY <1>0, <1>3, <2>2, <3>1 DEF IInv, InOneBatch, OwnRequests, AwaitedBy, Unanswered
  <2>4. ASSUME NEW e \in batches, BatchWrite(e), e.plan[c] # NoWrite
        PROVE  FALSE
    <3>1. e.entries[c] # None
      BY <1>0, <2>4 DEF PlansItsOwn, BatchWrite
    <3>2. e = d
      BY <1>3, <2>2, <3>1, OneBatchEach
    <3>3. [d EXCEPT !.pc = "reply"].pc = "reply"
      BY <1>2, <1>3 DEF Batch
    <3> QED
      BY <2>4, <3>2, <3>3 DEF BatchWrite
  <2>5. hash'[c] \in {hash[c], NoHash}
    BY <1>0, <2>3, <2>4, HashWriters
  <2> QED
    BY <2>1, <2>2, <2>5 DEF NoHash
<1>4. CASE BatchRead(b) /\ d.plan = PlanOf(b)
  <2>1. c \in Waiting(b.entries) /\ d.plan[c] = Planned(c, request[b.entries[c]])
    BY <1>0, <1>4 DEF PlanOf
  <2>2. b.entries[c] \in Requests /\ Holds(b.entries, b.entries[c])
    BY <1>0, <1>2, <2>1 DEF Waiting, Entries, Holds
  <2>3. request[b.entries[c]] \in Request /\ StoreTypeOK
    BY <2>2 DEF IInv, InOneBatch, TypeOK
  <2>4. UNCHANGED hash
    BY <1>4 DEF BatchRead, storeVars
  <2> QED
    BY <1>0, <2>1, <2>3, <2>4, PlannedAhead
<1> QED
  BY <1>1, <1>3, <1>4 DEF Continues

LEMMA PoliteStep ==
  ASSUME IInv, PoliteInv, [Next]_vars
  PROVE  PoliteInv'
BY AwaitedOnceStep, OwnStep, PlansAheadStep DEF PoliteInv

LEMMA SessionType ==
  ASSUME StoreTypeOK, NEW c \in Conns, Live(c)
  PROVE  /\ SessionOf(c) \in RegistryOf(c)!Session
         /\ SessionOf(c).room = hash[c].room /\ SessionOf(c).user = hash[c].user
         /\ SessionOf(c).epoch = hash[c].epoch /\ SessionOf(c).state = hash[c].state
<1>1. /\ hash[c].room \in Rooms /\ hash[c].user \in Users
      /\ hash[c].epoch \in Nat /\ hash[c].state \in SUBSET Marks
  BY DEF Live, StoreTypeOK, Hash
<1> QED
  BY <1>1 DEF SessionOf, RegistryOf!Session

\* The registry's view of a connection: a session that opens with a larger epoch, one that
\* goes on, and one that ends or stays.
LEMMA OpensSession ==
  ASSUME StoreTypeOK, StoreTypeOK', NEW c \in Conns, Live(c)', Live(c) => hash'[c].epoch > hash[c].epoch
  PROVE  RegistryOf(c)!Next
<1> DEFINE old == SessionOf(c)
           new == SessionOf(c)'
<1>1. new \in RegistryOf(c)!Session /\ new.epoch = hash'[c].epoch
  <2>1. /\ hash'[c].room \in Rooms /\ hash'[c].user \in Users
        /\ hash'[c].epoch \in Nat /\ hash'[c].state \in SUBSET Marks
    BY DEF Live, StoreTypeOK, Hash
  <2> QED
    BY <2>1 DEF SessionOf, RegistryOf!Session
<1>2. old # None => Live(c) /\ old.epoch = hash[c].epoch
  BY SessionType DEF SessionOf
<1>3. /\ [d \in {c} |-> SessionOf(d)]' = [[d \in {c} |-> SessionOf(d)] EXCEPT ![c] = new]
      /\ [d \in {c} |-> SessionOf(d)]'[c] = new /\ [d \in {c} |-> SessionOf(d)][c] = old
  OBVIOUS
<1> HIDE DEF old, new
<1>4. RegistryOf(c)!Join(c)
  BY <1>1, <1>2, <1>3 DEF RegistryOf!Join, RegistryOf!Only, RegistryOf!Open
<1> QED
  BY <1>4 DEF RegistryOf!Next

LEMMA KeepsSession ==
  ASSUME StoreTypeOK, StoreTypeOK', NEW c \in Conns, Live(c)', Live(c),
         hash'[c].room = hash[c].room, hash'[c].user = hash[c].user,
         hash'[c].epoch >= hash[c].epoch, hash[c].state \subseteq hash'[c].state
  PROVE  RegistryOf(c)!Next
<1> DEFINE old == SessionOf(c)
           new == SessionOf(c)'
<1>1. /\ old.room = hash[c].room /\ old.user = hash[c].user
      /\ old.epoch = hash[c].epoch /\ old.state = hash[c].state
  BY SessionType
<1>2. /\ hash[c].room \in Rooms /\ hash[c].user \in Users
      /\ hash'[c].epoch \in Nat /\ hash'[c].state \in SUBSET Marks
  BY DEF Live, StoreTypeOK, Hash
<1>3. new = [room |-> hash[c].room, user |-> hash[c].user,
             epoch |-> hash'[c].epoch, state |-> hash'[c].state]
  BY DEF SessionOf
<1>4. /\ [d \in {c} |-> SessionOf(d)]' = [[d \in {c} |-> SessionOf(d)] EXCEPT ![c] = new]
      /\ [d \in {c} |-> SessionOf(d)]'[c] = new /\ [d \in {c} |-> SessionOf(d)][c] = old
  OBVIOUS
<1> HIDE DEF old, new
<1>5. CASE old # None
  <2>1. new \in [room: {old.room}, user: {old.user}, epoch: Nat, state: SUBSET Marks]
    BY <1>1, <1>2, <1>3
  <2>2. new.epoch >= old.epoch /\ old.state \subseteq new.state
    BY <1>1, <1>3
  <2>3. RegistryOf(c)!Heartbeat(c)
    BY <1>4, <1>5, <2>1, <2>2 DEF RegistryOf!Heartbeat, RegistryOf!Only, RegistryOf!Open
  <2> QED
    BY <2>3 DEF RegistryOf!Next
<1>6. CASE old = None
  <2>1. new \in RegistryOf(c)!Session
    BY <1>2, <1>3 DEF RegistryOf!Session
  <2>2. RegistryOf(c)!Join(c)
    BY <1>4, <1>6, <2>1 DEF RegistryOf!Join, RegistryOf!Only, RegistryOf!Open
  <2> QED
    BY <2>2 DEF RegistryOf!Next
<1> QED
  BY <1>5, <1>6

LEMMA EndsSession ==
  ASSUME NEW c \in Conns, ~Live(c)'
  PROVE  RegistryOf(c)!Next
<1>1. SessionOf(c)' = None
  BY DEF SessionOf, Live
<1>2. [d \in {c} |-> SessionOf(d)]' =
        [d \in {c} |-> IF [e \in {c} |-> SessionOf(e)]'[d] = None THEN None ELSE [e \in {c} |-> SessionOf(e)][d]]
  BY <1>1
<1> QED
  BY <1>2 DEF RegistryOf!Next, RegistryOf!Close

LEMMA RegistryStep ==
  ASSUME IInv, IInv', PoliteInv, [Next]_vars, NEW c \in Polite
  PROVE  RegistryOf(c)!Next \/ SessionOf(c)' = SessionOf(c)
<1>0. c \in Conns /\ StoreTypeOK /\ StoreTypeOK' /\ hash[c] \in Hash
  BY BatcherAssumption DEF IInv, TypeOK, StoreTypeOK
<1>1. CASE ~Live(c)'
  BY <1>0, <1>1, EndsSession
<1>2. CASE Live(c)' /\ hash'[c] \in {hash[c], NoHash}
  BY <1>2 DEF SessionOf, Live, NoHash
<1>3. ASSUME Live(c)', NEW l \in Logins,
             JoinTx(c, l.room, l.user, NextEpoch(hash[c].epoch, now), l.state, now)
      PROVE  RegistryOf(c)!Next
  <2>1. NextEpoch(hash[c].epoch, now) > hash[c].epoch
    BY <1>0 DEF NextEpoch, StoreTypeOK, Hash
  <2>2. hash'[c].epoch = NextEpoch(hash[c].epoch, now)
    BY <1>0, <1>3 DEF JoinTx, StoreTypeOK
  <2> QED
    BY <1>0, <1>3, <2>1, <2>2, OpensSession
<1>4. ASSUME Live(c)', NEW b \in batches, BatchWrite(b), b.plan[c] # NoWrite,
             hash'[c] = Written(c, b.plan[c])
      PROVE  RegistryOf(c)!Next
  <2> DEFINE w == b.plan[c]
  <2>1. w \in Write /\ b.pc = "write"
    BY <1>0, <1>4 DEF IInv, TypeOK, Batch, BatchWrite
  <2>2. hash'[c].room = hash[c].room /\ hash'[c].user = hash[c].user
    BY <1>0, <1>4, <2>1, WrittenType
  <2>3. /\ hash'[c].epoch = IF w.raised THEN w.epoch ELSE hash[c].epoch
        /\ hash'[c].state = IF w.changed THEN w.state ELSE hash[c].state
    BY <1>0, <1>4 DEF Written, Hash
  <2>4. w.epoch >= hash[c].epoch /\ hash[c].state \subseteq w.state
    BY <1>4, <2>1 DEF PoliteInv, PlansAhead
  <2>5. hash'[c].epoch >= hash[c].epoch /\ hash[c].state \subseteq hash'[c].state
    BY <1>0, <2>3, <2>4 DEF Hash
  <2>6. Live(c)
    BY <1>4, <2>2 DEF Live
  <2> QED
    BY <1>0, <1>4, <2>2, <2>5, <2>6, KeepsSession
<1> QED
  BY <1>0, <1>1, <1>2, <1>3, <1>4, HashWriters

\* A client that awaits its answers sees the session registry: whatever batches its
\* heartbeats are written with, its epoch never regresses within a session and no accepted
\* patch of it is undone.
THEOREM Registered == Spec => ImplementsRegistry
<1>1. Init => \A c \in Polite : RegistryOf(c)!Init
  <2> SUFFICES ASSUME Init, NEW c \in Polite PROVE RegistryOf(c)!Init
    OBVIOUS
  <2>1. ~Live(c)
    BY BatcherAssumption DEF Init, StoreInit, Live, NoHash
  <2> QED
    BY <2>1 DEF RegistryOf!Init, SessionOf
<1>2. IInv /\ IInv' /\ PoliteInv /\ [Next]_vars =>
        [\A c \in Polite : [RegistryOf(c)!Next]_(SessionOf(c))]_vars
  BY RegistryStep
<1> QED
  BY <1>1, <1>2, Invariant, PoliteInit, PoliteStep, PTL DEF Spec, ImplementsRegistry
=============================================================================
