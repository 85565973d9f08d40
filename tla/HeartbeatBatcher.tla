-------------------------- MODULE HeartbeatBatcher --------------------------
(***************************************************************************)
(* HeartbeatBatcher (backend/src/presence/heartbeat-batcher.ts): the       *)
(* heartbeats a process receives within a window are read in one pipeline  *)
(* and written in one MULTI.  Joins, leaves and the TTL go on beside it,   *)
(* as the transactions of PresenceStore.                                   *)
(***************************************************************************)
EXTENDS PresenceStore, FiniteSets

CONSTANTS
  Requests,        \* heartbeats that can be unanswered at once
  Logins,          \* what presence:join is sent with: a connection, room, user and state
  Beats,           \* what presence:heartbeat is sent with; epoch 0: without one
  Polite,          \* connections whose client awaits the answer before it sends more
  MaxBatch,        \* options.maxBatchSize
  MaxEpoch         \* bound: no join that would take a connection's epoch past it

ASSUME BatcherAssumption ==
  /\ None \notin Requests
  /\ Logins \subseteq [conn: Conns, room: Rooms, user: Users, state: SUBSET Marks]
  /\ Beats \subseteq [conn: Conns, epoch: Nat, patch: SUBSET Marks] \ {None}
  /\ Polite \subseteq Conns
  /\ MaxBatch \in Nat \ {0}
  /\ MaxEpoch \in Nat

VARIABLES
  buffer,     \* this.buffer: the request each connection waits with, or None
  timer,      \* this.flushTimer !== null
  disposed,   \* this.disposed
  request,    \* the heartbeats not answered yet, and what each was called with
  batches     \* processBatch: what each run in progress was called with and has planned

batcherVars == <<buffer, timer, disposed, request, batches>>
vars == <<storeVars, batcherVars>>

Request == [conn: Conns, epoch: Epochs, patch: SUBSET Marks]

Entries == [Conns -> Requests \union {None}]
NoEntries == [c \in Conns |-> None]
Waiting(entries) == {c \in Conns : entries[c] # None}

\* What is written for a connection of the batch; NoWrite for one whose request is refused.
Write == [room: Rooms, user: Users, epoch: Epochs, raised: BOOLEAN,
          state: SUBSET Marks, changed: BOOLEAN]
NoWrite == [room |-> None, user |-> None, epoch |-> 0, raised |-> FALSE,
            state |-> {}, changed |-> FALSE]
NoPlan == [c \in Conns |-> NoWrite]

Batch == [pc: {"read", "write", "reply"}, at: Nat, entries: Entries,
          plan: [Conns -> Write \union {NoWrite}]]

\* Type invariant: keys, buffer, promises and batches keep their shapes.
TypeOK ==
  /\ StoreTypeOK
  /\ buffer \in Entries
  /\ timer \in BOOLEAN /\ disposed \in BOOLEAN
  /\ request \in [Requests -> Request \union {None}]
  /\ batches \subseteq Batch

Init ==
  /\ StoreInit
  /\ buffer = NoEntries
  /\ timer = FALSE /\ disposed = FALSE
  /\ request = [q \in Requests |-> None]
  /\ batches = {}

-----------------------------------------------------------------------------
(* Collecting *)

Unanswered == {q \in Requests : request[q] # None}
AwaitedBy(c) == {q \in Unanswered : request[q].conn = c}

\* flush: the buffer becomes a batch, whose first pipeline is sent.
Flush(entries) ==
  /\ timer' = FALSE
  /\ buffer' = NoEntries
  /\ batches' = IF entries = NoEntries THEN batches
                ELSE batches \union {[pc |-> "read", at |-> now, entries |-> entries,
                                      plan |-> NoPlan]}

\* heartbeat: the request takes the place of an earlier one of its connection; a full
\* buffer is flushed at once, otherwise the window's timer is started if none runs.
Collect(entries) ==
  IF Cardinality(Waiting(entries)) >= MaxBatch THEN Flush(entries)
  ELSE buffer' = entries /\ timer' = TRUE /\ UNCHANGED batches

\* A disposed batcher refuses, which changes nothing.
Heartbeat(q) ==
  \E r \in Beats :
    /\ ~disposed
    /\ q \notin Unanswered
    /\ r.conn \in Polite => AwaitedBy(r.conn) = {}
    /\ request' = [request EXCEPT ![q] = r]
    /\ Collect([buffer EXCEPT ![r.conn] = q])
    /\ UNCHANGED <<storeVars, disposed>>

\* The window closes.
TimerFires ==
  /\ timer
  /\ Flush(buffer)
  /\ UNCHANGED <<storeVars, disposed, request>>

-----------------------------------------------------------------------------
(* Processing a batch *)

\* Mutant of Planned: the epoch of the request is written whatever the stored one is.
PlannedUnfenced(c, r) ==
  IF ~Live(c) THEN NoWrite
  ELSE [room |-> hash[c].room, user |-> hash[c].user,
        epoch |-> IF r.epoch # 0 THEN r.epoch ELSE hash[c].epoch,
        raised |-> r.epoch # 0,
        state |-> hash[c].state \union r.patch,
        changed |-> ~(r.patch \subseteq hash[c].state)]

\* The write for request r on connection c: none when the hash names no room or user
\* or the request's epoch is behind.  Epoch 0 stands for a request without one.
Planned(c, r) ==
  IF ~Live(c) \/ (r.epoch # 0 /\ r.epoch < hash[c].epoch) THEN NoWrite
  ELSE [room |-> hash[c].room, user |-> hash[c].user,
        epoch |-> IF r.epoch > hash[c].epoch THEN r.epoch ELSE hash[c].epoch,
        raised |-> r.epoch > hash[c].epoch,
        state |-> hash[c].state \union r.patch,
        changed |-> ~(r.patch \subseteq hash[c].state)]

\* The HGETALLs of the batch, taken at one instant, and what is made of the answers.
BatchRead(b) ==
  /\ b.pc = "read"
  /\ LET plan == [c \in Conns |-> IF c \in Waiting(b.entries)
                                  THEN Planned(c, request[b.entries[c]]) ELSE NoWrite]
     IN batches' = (batches \ {b}) \union {[b EXCEPT !.pc = "write", !.plan = plan]}
  /\ UNCHANGED <<storeVars, buffer, timer, disposed, request>>

\* Mutant of Written: the fields are written back as they were read.
WrittenWhole(c, w) ==
  IF w = NoWrite THEN hash[c]
  ELSE [room |-> w.room, user |-> w.user, epoch |-> w.epoch, state |-> w.state,
        expires |-> now + TTL]

\* HSET and PEXPIRE create the key when it is gone: the other fields stay absent.
Written(c, w) ==
  IF w = NoWrite THEN hash[c]
  ELSE [hash[c] EXCEPT !.expires = now + TTL,
                       !.epoch = IF w.raised THEN w.epoch ELSE @,
                       !.state = IF w.changed THEN w.state ELSE @]

\* The MULTI of the batch.
BatchTx(plan, at) ==
  /\ hash' = [c \in Conns |-> Written(c, plan[c])]
  /\ lastSeen' = [r \in Rooms |-> [c \in Conns |->
                    IF plan[c].room = r THEN at ELSE lastSeen[r][c]]]
  /\ connMeta' = [r \in Rooms |-> [c \in Conns |->
                    IF plan[c].room = r /\ plan[c].raised
                    THEN [user |-> plan[c].user, epoch |-> plan[c].epoch]
                    ELSE connMeta[r][c]]]
  /\ UNCHANGED <<now, conns, members, userConns, activeRooms>>

BatchWrite(b) ==
  /\ b.pc = "write"
  /\ BatchTx(b.plan, b.at)
  /\ batches' = (batches \ {b}) \union {[b EXCEPT !.pc = "reply"]}
  /\ UNCHANGED <<buffer, timer, disposed, request>>

Holds(entries, q) == \E c \in Conns : entries[c] = q

Settle(entries) ==
  request' = [q \in Requests |-> IF Holds(entries, q) THEN None ELSE request[q]]

\* Every promise of the batch is settled by its own result.
BatchReply(b) ==
  /\ b.pc = "reply"
  /\ Settle(b.entries)
  /\ batches' = batches \ {b}
  /\ UNCHANGED <<storeVars, buffer, timer, disposed>>

\* Mutant of BatchFails: the error is not passed on.
BatchFailsSilently(b) ==
  /\ batches' = batches \ {b}
  /\ UNCHANGED <<storeVars, buffer, timer, disposed, request>>

\* Redis fails one of the two pipelines, or its answer is lost: all are rejected.
BatchFails(b) ==
  /\ Settle(b.entries)
  /\ batches' = batches \ {b}
  /\ UNCHANGED <<storeVars, buffer, timer, disposed>>

\* Mutant of Dispose: the buffer is cleared and its promises are forgotten.
DisposeForgets ==
  /\ ~disposed
  /\ disposed' = TRUE
  /\ timer' = FALSE
  /\ buffer' = NoEntries
  /\ UNCHANGED <<storeVars, request, batches>>

\* dispose: waiting requests are rejected; a batch in progress goes on.
Dispose ==
  /\ ~disposed
  /\ disposed' = TRUE
  /\ timer' = FALSE
  /\ Settle(buffer)
  /\ buffer' = NoEntries
  /\ UNCHANGED <<storeVars, batches>>

-----------------------------------------------------------------------------
(* The rest of the service *)

\* The transaction of join.
Join ==
  \E l \in Logins :
    LET e == NextEpoch(hash[l.conn].epoch, now) IN
    /\ l.conn \in Polite => AwaitedBy(l.conn) = {}
    /\ e <= MaxEpoch
    /\ JoinTx(l.conn, l.room, l.user, e, l.state, now)
    /\ UNCHANGED batcherVars

\* The transaction of leave; a disconnect waits for no answer.
Leave ==
  \E c \in Conns :
    /\ Live(c)
    /\ LeaveTx(c, hash[c].room, hash[c].user)
    /\ UNCHANGED batcherVars

Clock == Tick /\ UNCHANGED batcherVars

Process(b) == BatchRead(b) \/ BatchWrite(b) \/ BatchReply(b)

Next ==
  \/ \E q \in Requests : Heartbeat(q)
  \/ TimerFires \/ Dispose
  \/ \E b \in batches : Process(b) \/ BatchFails(b)
  \/ Join \/ Leave \/ Clock

Spec == Init /\ [][Next]_vars

\* setTimeout fires, and Redis answers the pipelines of every batch or fails them.
FairSpec ==
  /\ Spec
  /\ WF_vars(TimerFires)
  /\ \A q \in Requests : WF_vars(\E b \in batches : Holds(b.entries, q) /\ Process(b))

-----------------------------------------------------------------------------
(* Properties *)

\* What waits in the buffer is flushed by a timer that runs, and nothing waits in a
\* batcher that is disposed of.
BufferedIsArmed == buffer # NoEntries => timer /\ ~disposed

Held(q) == Holds(buffer, q) \/ \E b \in batches : Holds(b.entries, q)

\* An unanswered heartbeat leaves the batcher's hands only when a later one of the
\* same connection takes its place within the window (whoever awaits it waits on).
OnlySuperseded ==
  [][\A q \in Requests :
       Held(q) /\ ~Held(q)' /\ request'[q] # None =>
         \E p \in Requests \ {q} : /\ p \notin Unanswered /\ Held(p)'
                                   /\ request'[p].conn = request[q].conn]_vars

\* A batch revives no session that ended after it was read: only the transaction of a
\* join makes a hash name its room and user, however late the batch is written.
NoRevival ==
  [][\A b \in batches : BatchWrite(b) => \A c \in Conns : Live(c)' => Live(c)]_vars

SessionOf(c) ==
  IF Live(c) THEN [room |-> hash[c].room, user |-> hash[c].user,
                   epoch |-> hash[c].epoch, state |-> hash[c].state]
  ELSE None

RegistryOf(c) == INSTANCE SessionRegistry
                   WITH Conns <- {c}, session <- [d \in {c} |-> SessionOf(d)], NoSession <- None

\* The session of a client that awaits its answers behaves as the registry says,
\* whichever heartbeats of others its own are written with and whichever batches overlap.
ImplementsRegistry ==
  /\ \A c \in Polite : RegistryOf(c)!Init
  /\ [][\A c \in Polite : [RegistryOf(c)!Next]_(SessionOf(c))]_vars

\* A client that awaits its answers gets them: every heartbeat it sends settles, by its
\* batch, by the failure of that batch or by dispose.
HeartbeatsAnswered ==
  \A c \in Polite : AwaitedBy(c) # {} ~> AwaitedBy(c) = {}
=============================================================================
