--------------------------- MODULE PresenceProofs ---------------------------
(***************************************************************************)
(* Proofs about the presence service, for any number of connections,       *)
(* rooms, users, requests and server processes.                            *)
(*                                                                         *)
(* Part 1: types.  Part 2: what holds under every interleaving of requests *)
(* and reaper passes, crashes of server processes included.  Part 3: the   *)
(* indexes and the members of a room, with the heartbeat script as the     *)
(* only heartbeat path.  Part 4: what holds when a connection has one      *)
(* request in progress at a time: the service implements the session       *)
(* registry, and the events tell the truth.                                *)
(***************************************************************************)
EXTENDS PresenceProps, TLAPS

USE DEF Epochs

(***************************************************************************)
(* Part 1: Types.                                                          *)
(***************************************************************************)
-----------------------------------------------------------------------------
(* The type invariant *)

\* Redis keys hold what they should after any of the service's transactions.
LEMMA NextEpochType ==
  ASSUME NEW previous \in Nat, NEW fallback \in Nat
  PROVE  NextEpoch(previous, fallback) \in Nat
BY DEF NextEpoch

LEMMA JoinTxType ==
  ASSUME StoreTypeOK, NEW c \in Conns, NEW r \in Rooms, NEW u \in Users, NEW e \in Nat,
         NEW s \in SUBSET Marks, NEW t \in Nat, JoinTx(c, r, u, e, s, t)
  PROVE  StoreTypeOK'
BY StoreAssumption DEF StoreTypeOK, JoinTx, Hash, Meta

LEMMA BeatTxType ==
  ASSUME StoreTypeOK, NEW c \in Conns, NEW r \in Rooms, NEW e \in Nat, NEW s \in SUBSET Marks,
         NEW raised \in BOOLEAN, NEW changed \in BOOLEAN, NEW t \in Nat, BeatTx(c, r, e, s, raised, changed, t)
  PROVE  StoreTypeOK'
<1>1. hash[c] \in Hash
  BY DEF StoreTypeOK
<1>2. now + TTL \in Nat
  BY StoreAssumption DEF StoreTypeOK
<1>3. [hash[c] EXCEPT !.expires = now + TTL,
                      !.epoch = IF raised THEN e ELSE @,
                      !.state = IF changed THEN s ELSE @] \in Hash
  BY <1>1, <1>2 DEF Hash
<1>4. hash' \in [Conns -> Hash]
  BY <1>3 DEF StoreTypeOK, BeatTx
<1> QED
  BY <1>4 DEF StoreTypeOK, BeatTx, Meta

LEMMA PutMetaType ==
  ASSUME StoreTypeOK, NEW c \in Conns, NEW r \in Rooms, NEW u \in Users, NEW e \in Nat,
         PutMeta(c, r, u, e)
  PROVE  StoreTypeOK'
BY DEF StoreTypeOK, PutMeta, Hash, Meta

LEMMA BeatScriptType ==
  ASSUME StoreTypeOK, NEW c \in Conns, NEW r \in Rooms, NEW e \in Nat, NEW s \in SUBSET Marks,
         NEW t \in Nat, BeatScript(c, r, e, s, t)
  PROVE  StoreTypeOK'
<1>1. hash[c] \in Hash
  BY DEF StoreTypeOK
<1>2. now + TTL \in Nat
  BY StoreAssumption DEF StoreTypeOK
<1>3. [hash[c] EXCEPT !.expires = now + TTL, !.epoch = e, !.state = s] \in Hash
  BY <1>1, <1>2 DEF Hash
<1>4. hash' \in [Conns -> Hash]
  BY <1>3 DEF StoreTypeOK, BeatScript
<1>5. connMeta' \in [Rooms -> [Conns -> Meta]]
  BY <1>1 DEF StoreTypeOK, BeatScript, Hash, Meta
<1> QED
  BY <1>4, <1>5 DEF StoreTypeOK, BeatScript

LEMMA LeaveTxType ==
  ASSUME StoreTypeOK, NEW c \in Conns, NEW r \in Rooms, NEW u, LeaveTx(c, r, u)
  PROVE  StoreTypeOK'
BY DEF StoreTypeOK, LeaveTx, Unindex, Hash, Meta, NoHash, NoMeta

LEMMA StripTxType ==
  ASSUME StoreTypeOK, NEW c \in Conns, NEW r \in Rooms, NEW u, StripTx(c, r, u)
  PROVE  StoreTypeOK'
BY DEF StoreTypeOK, StripTx, Unindex, Hash, Meta, NoMeta

LEMMA PurgeTxType ==
  ASSUME StoreTypeOK, NEW c \in Conns, NEW r \in Rooms, PurgeTx(c, r)
  PROVE  StoreTypeOK'
BY DEF StoreTypeOK, PurgeTx, Unindex, Hash, Meta, NoMeta

LEMMA DropMemberType ==
  ASSUME StoreTypeOK, NEW r, NEW u, DropMember(r, u)
  PROVE  StoreTypeOK'
BY DEF StoreTypeOK, DropMember, Hash, Meta

LEMMA DropRoomType ==
  ASSUME StoreTypeOK, NEW r, DropRoom(r)
  PROVE  StoreTypeOK'
BY DEF StoreTypeOK, DropRoom, Hash, Meta

LEMMA TickType ==
  ASSUME StoreTypeOK, Tick
  PROVE  StoreTypeOK'
BY DEF StoreTypeOK, Tick, indexVars, Hash, Meta, NoHash

LEMMA StoreUnchangedType ==
  ASSUME StoreTypeOK, UNCHANGED storeVars
  PROVE  StoreTypeOK'
BY DEF StoreTypeOK, storeVars, Hash, Meta

\* A request that moves to a point whose shape its job has keeps the requests typed.
LEMMA MoveType ==
  ASSUME RequestTypeOK, NEW p \in Procs, NEW at, NEW j, Shape(at, j),
         pc' = [pc EXCEPT ![p] = at] \/ (pc' = pc /\ at = pc[p]),
         job' = [job EXCEPT ![p] = j] \/ (job' = job /\ j = job[p])
  PROVE  RequestTypeOK'
<1>1. DOMAIN pc' = Procs /\ DOMAIN job' = Procs
  BY DEF RequestTypeOK
<1>2. ASSUME NEW q \in Procs PROVE Shape(pc'[q], job'[q])
  <2>1. CASE q = p
    BY <2>1 DEF RequestTypeOK
  <2>2. CASE q # p
    <3>1. pc'[q] = pc[q] /\ job'[q] = job[q]
      BY <2>2 DEF RequestTypeOK
    <3> QED
      BY <3>1 DEF RequestTypeOK
  <2> QED
    BY <2>1, <2>2
<1> QED
  BY <1>1, <1>2 DEF RequestTypeOK, Shape

LEMMA FinishType ==
  ASSUME RequestTypeOK, NEW p \in Procs, Finish(p)
  PROVE  RequestTypeOK'
BY MoveType DEF Finish, Shape

\* The job of a request in progress, by the point it is at.
LEMMA JobAt ==
  ASSUME RequestTypeOK, NEW p \in Procs
  PROVE  /\ pc[p] \in JoinPC => job[p] \in JoinJob
         /\ pc[p] \in BeatPC => job[p] \in BeatJob
         /\ pc[p] \in ScriptPC => job[p] \in ScriptJob
         /\ pc[p] \in LeavePC => job[p] \in LeaveJob
BY DEF RequestTypeOK, Shape, JoinPC, BeatPC, ScriptPC, LeavePC

LEMMA JoinType ==
  ASSUME TypeOK, NEW p \in Procs, Join(p)
  PROVE  TypeOK'
<1> USE DEF TypeOK
<1>1. CASE JoinRead(p)
  <2>1. PICK l \in Logins, s \in SUBSET Marks :
          Start(p, "joinTx", [conn |-> l.conn, room |-> l.room, user |-> l.user,
                              epoch |-> NextEpoch(hash[l.conn].epoch, now),
                              state |-> s, at |-> now, todo |-> {}, seen |-> {}])
    BY <1>1 DEF JoinRead
  <2>2. l.conn \in Conns /\ l.room \in Rooms /\ l.user \in Users
    BY PresenceAssumption
  <2>3. NextEpoch(hash[l.conn].epoch, now) \in Nat /\ now \in Nat \ {0}
    BY <2>2, NextEpochType DEF StoreTypeOK, Hash
  <2>4. [conn |-> l.conn, room |-> l.room, user |-> l.user,
         epoch |-> NextEpoch(hash[l.conn].epoch, now),
         state |-> s, at |-> now, todo |-> {}, seen |-> {}] \in JoinJob
    BY <2>2, <2>3 DEF JoinJob
  <2>5. RequestTypeOK'
    BY <2>1, <2>4, MoveType DEF Start, Shape, JoinPC
  <2> QED
    BY <1>1, <2>1, <2>5, StoreUnchangedType DEF JoinRead, Start
<1>2. CASE JoinWrite(p)
  <2>1. job[p] \in JoinJob
    BY <1>2, JobAt DEF JoinWrite, JoinPC
  <2>2. StoreTypeOK'
    BY <1>2, <2>1, JoinTxType DEF JoinWrite, JoinJob
  <2>3. RequestTypeOK'
    BY <1>2, <2>1, MoveType DEF JoinWrite, Goto, Shape, JoinPC
  <2>4. crossed' \in SUBSET Conns
    BY <1>2, <2>1 DEF JoinWrite, JoinJob
  <2> QED
    BY <1>2, <2>2, <2>3, <2>4 DEF JoinWrite
<1>3. CASE JoinPublish(p)
  <2>1. job[p] \in JoinJob
    BY <1>3, JobAt DEF JoinPublish, JoinPC
  <2>2. RequestTypeOK'
    BY <1>3, <2>1, MoveType DEF JoinPublish, Goto, Shape, JoinPC
  <2>3. roster' \in [Rooms -> [Conns -> (SUBSET Marks) \union {None}]]
    BY <1>3, <2>1 DEF JoinPublish, JoinJob
  <2> QED
    BY <1>3, <2>2, <2>3, StoreUnchangedType DEF JoinPublish
<1>4. CASE SnapIndex(p)
  <2>1. job[p] \in JoinJob
    BY <1>4, JobAt DEF SnapIndex, JoinPC
  <2>2. [job[p] EXCEPT !.todo = conns[job[p].room]] \in JoinJob
    BY <2>1 DEF JoinJob, StoreTypeOK
  <2>3. RequestTypeOK'
    BY <1>4, <2>2, MoveType DEF SnapIndex, Goto, Shape, JoinPC
  <2> QED
    BY <1>4, <2>3, StoreUnchangedType DEF SnapIndex
<1>5. CASE SnapRead(p)
  <2>1. job[p] \in JoinJob
    BY <1>5, JobAt DEF SnapRead, JoinPC
  <2> DEFINE j == [job[p] EXCEPT !.todo = {},
                                 !.seen = {c \in job[p].todo : hash[c].user # None}]
  <2>2. j \in JoinJob
    BY <2>1 DEF JoinJob
  <2>3. pc' = [pc EXCEPT ![p] = "joinAck"] /\ job' = [job EXCEPT ![p] = j]
    BY <1>5 DEF SnapRead, Goto
  <2> HIDE DEF j
  <2>4. RequestTypeOK'
    BY <2>2, <2>3, MoveType DEF Shape, JoinPC
  <2> QED
    BY <1>5, <2>4, StoreUnchangedType DEF SnapRead
<1>6. CASE JoinAck(p)
  BY <1>6, FinishType, StoreUnchangedType DEF JoinAck
<1> QED
  BY <1>1, <1>2, <1>3, <1>4, <1>5, <1>6 DEF Join

LEMMA HeartbeatType ==
  ASSUME TypeOK, NEW p \in Procs, Heartbeat(p)
  PROVE  TypeOK'
<1> USE DEF TypeOK
<1>1. CASE BeatRead(p)
  <2> DEFINE Begins(c, e, patch) ==
          /\ Live(c)
          /\ Start(p, "beatTx", [conn |-> c, room |-> hash[c].room, user |-> hash[c].user,
                               epoch |-> e, state |-> hash[c].state \union patch, at |-> now,
                               raised |-> e > hash[c].epoch,
                               changed |-> ~(patch \subseteq hash[c].state)])
  <2>0. PICK c \in Conns :
          \E e \in RequestEpochs \union {hash[c].epoch}, patch \in SUBSET Marks : Begins(c, e, patch)
    BY <1>1 DEF BeatRead
  <2>1. PICK e \in RequestEpochs \union {hash[c].epoch}, patch \in SUBSET Marks : Begins(c, e, patch)
    BY <2>0
  <2>2. /\ hash[c].room \in Rooms /\ hash[c].user \in Users
        /\ hash[c].epoch \in Nat /\ hash[c].state \in SUBSET Marks
    BY <2>1 DEF StoreTypeOK, Hash, Live
  <2>3. e \in Nat /\ now \in Nat \ {0}
    BY <2>2, PresenceAssumption DEF StoreTypeOK
  <2>4. [conn |-> c, room |-> hash[c].room, user |-> hash[c].user,
         epoch |-> e, state |-> hash[c].state \union patch, at |-> now,
         raised |-> e > hash[c].epoch,
         changed |-> ~(patch \subseteq hash[c].state)] \in BeatJob
    BY <2>2, <2>3 DEF BeatJob
  <2>5. RequestTypeOK'
    BY <2>1, <2>4, MoveType DEF Start, Shape, BeatPC
  <2> QED
    BY <1>1, <2>1, <2>5, StoreUnchangedType DEF BeatRead, Start
<1>2. CASE BeatWrite(p)
  <2>1. job[p] \in BeatJob
    BY <1>2, JobAt DEF BeatWrite, BeatPC
  <2>2. StoreTypeOK'
    BY <1>2, <2>1, BeatTxType DEF BeatWrite, BeatJob
  <2>3. RequestTypeOK'
    BY <1>2, <2>1, MoveType, FinishType DEF BeatWrite, AfterBeat, Goto, Shape, BeatPC
  <2> QED
    BY <1>2, <2>2, <2>3 DEF BeatWrite
<1>3. CASE BeatMeta(p)
  <2>1. job[p] \in BeatJob
    BY <1>3, JobAt DEF BeatMeta, BeatPC
  <2>2. StoreTypeOK'
    BY <1>3, <2>1, PutMetaType DEF BeatMeta, BeatJob
  <2>3. RequestTypeOK'
    BY <1>3, <2>1, MoveType, FinishType DEF BeatMeta, AfterBeat, Goto, Shape, BeatPC
  <2> QED
    BY <1>3, <2>2, <2>3 DEF BeatMeta
<1>4. CASE BeatPublish(p)
  <2>1. job[p] \in BeatJob
    BY <1>4, JobAt DEF BeatPublish, BeatPC
  <2>2. roster' \in [Rooms -> [Conns -> (SUBSET Marks) \union {None}]]
    BY <1>4, <2>1 DEF BeatPublish, BeatJob
  <2> QED
    BY <1>4, <2>2, FinishType, StoreUnchangedType DEF BeatPublish
<1> QED
  BY <1>1, <1>2, <1>3, <1>4 DEF Heartbeat

LEMMA ScriptHeartbeatType ==
  ASSUME TypeOK, NEW p \in Procs, ScriptHeartbeat(p)
  PROVE  TypeOK'
<1> USE DEF TypeOK
<1>1. CASE ScriptRead(p)
  <2>1. PICK c \in Conns, e \in RequestEpochs \union {0}, patch \in SUBSET Marks :
          /\ hash[c].room # None
          /\ Start(p, "beatScript", [conn |-> c, room |-> hash[c].room, request |-> e,
                                   patch |-> patch, at |-> now])
    BY <1>1 DEF ScriptRead
  <2>2. hash[c].room \in Rooms /\ e \in Nat /\ now \in Nat \ {0}
    BY <2>1, PresenceAssumption DEF StoreTypeOK, Hash
  <2>3. [conn |-> c, room |-> hash[c].room, request |-> e,
         patch |-> patch, at |-> now] \in ScriptJob
    BY <2>2 DEF ScriptJob
  <2>4. RequestTypeOK'
    BY <2>1, <2>3, MoveType DEF Start, Shape, ScriptPC
  <2> QED
    BY <1>1, <2>1, <2>4, StoreUnchangedType DEF ScriptRead, Start
<1>2. CASE ScriptRun(p)
  <2>1. job[p] \in ScriptJob
    BY <1>2, JobAt DEF ScriptRun, ScriptPC
  <2> DEFINE c == job[p].conn
             e == IF job[p].request = 0 THEN hash[c].epoch ELSE job[p].request
             s == hash[c].state \union job[p].patch
  <2>2. /\ c \in Conns /\ job[p].room \in Rooms /\ job[p].at \in Nat
        /\ e \in Nat /\ s \in SUBSET Marks
    BY <2>1 DEF ScriptJob, StoreTypeOK, Hash
  <2>3. UNCHANGED storeVars \/ BeatScript(c, job[p].room, e, s, job[p].at)
    BY <1>2 DEF ScriptRun
  <2>4. StoreTypeOK'
    BY <2>2, <2>3, BeatScriptType, StoreUnchangedType
  <2> QED
    BY <1>2, <2>4, FinishType DEF ScriptRun
<1>3. CASE ScriptReload(p)
  <2>1. job[p] \in ScriptJob
    BY <1>3, JobAt DEF ScriptReload, ScriptPC
  <2>2. CASE hash[job[p].conn].room = None
    BY <1>3, <2>2, FinishType, StoreUnchangedType DEF ScriptReload
  <2>3. CASE hash[job[p].conn].room # None
    <3>1. [job[p] EXCEPT !.room = hash[job[p].conn].room, !.at = now] \in ScriptJob
      BY <2>1, <2>3 DEF ScriptJob, StoreTypeOK, Hash
    <3>2. /\ job' = [job EXCEPT ![p] = [job[p] EXCEPT !.room = hash[job[p].conn].room,
                                                    !.at = now]]
          /\ pc' = pc /\ pc[p] = "beatScript"
      BY <1>3, <2>3 DEF ScriptReload
    <3>3. RequestTypeOK'
      BY <3>1, <3>2, MoveType DEF Shape, ScriptPC
    <3> QED
      BY <1>3, <3>3, StoreUnchangedType DEF ScriptReload
  <2> QED
    BY <2>2, <2>3
<1> QED
  BY <1>1, <1>2, <1>3 DEF ScriptHeartbeat

LEMMA LeaveType ==
  ASSUME TypeOK, NEW p \in Procs, Leave(p)
  PROVE  TypeOK'
<1> USE DEF TypeOK
<1>1. CASE LeaveRead(p)
  <2>1. PICK c \in Conns :
          /\ Live(c)
          /\ Start(p, "leaveTx", [conn |-> c, room |-> hash[c].room, user |-> hash[c].user,
                                epoch |-> hash[c].epoch, alone |-> FALSE, empty |-> FALSE])
    BY <1>1 DEF LeaveRead
  <2>2. [conn |-> c, room |-> hash[c].room, user |-> hash[c].user,
         epoch |-> hash[c].epoch, alone |-> FALSE, empty |-> FALSE] \in LeaveJob
    BY <2>1 DEF LeaveJob, StoreTypeOK, Hash, Live
  <2>3. RequestTypeOK'
    BY <2>1, <2>2, MoveType DEF Start, Shape, LeavePC
  <2> QED
    BY <1>1, <2>1, <2>3, StoreUnchangedType DEF LeaveRead, Start
<1>2. ASSUME pc[p] \in LeavePC
      PROVE  job[p] \in LeaveJob
  BY <1>2, JobAt
<1>3. CASE LeaveWrite(p)
  <2>1. job[p] \in LeaveJob
    BY <1>2, <1>3 DEF LeaveWrite, LeavePC
  <2>2. StoreTypeOK'
    BY <1>3, <2>1, LeaveTxType DEF LeaveWrite, LeaveJob
  <2>3. RequestTypeOK'
    BY <1>3, <2>1, MoveType DEF LeaveWrite, Goto, Shape, LeavePC
  <2> QED
    BY <1>3, <2>2, <2>3 DEF LeaveWrite
<1>4. CASE LeaveCountUser(p)
  <2>1. job[p] \in LeaveJob
    BY <1>2, <1>4 DEF LeaveCountUser, LeavePC
  <2>2. [job[p] EXCEPT !.alone = NoConnOf(job[p].room, job[p].user)] \in LeaveJob
    BY <2>1 DEF LeaveJob, NoConnOf
  <2>3. RequestTypeOK'
    BY <1>4, <2>2, MoveType DEF LeaveCountUser, Goto, Shape, LeavePC
  <2> QED
    BY <1>4, <2>3, StoreUnchangedType DEF LeaveCountUser
<1>5. CASE LeaveCountRoom(p)
  <2>1. job[p] \in LeaveJob
    BY <1>2, <1>5 DEF LeaveCountRoom, LeavePC
  <2> DEFINE j == [job[p] EXCEPT !.empty = conns[job[p].room] = {}]
  <2>2. j \in LeaveJob
    BY <2>1 DEF LeaveJob
  <2>3. RequestTypeOK'
    BY <1>5, <2>2, MoveType DEF LeaveCountRoom, AfterDrop, Goto, Shape, LeavePC
  <2> QED
    BY <1>5, <2>3, StoreUnchangedType DEF LeaveCountRoom
<1>6. CASE LeaveDropMember(p)
  <2>1. job[p] \in LeaveJob
    BY <1>2, <1>6 DEF LeaveDropMember, LeavePC
  <2>2. RequestTypeOK'
    BY <1>6, <2>1, MoveType DEF LeaveDropMember, AfterDrop, Goto, Shape, LeavePC
  <2> QED
    BY <1>6, <2>2, DropMemberType DEF LeaveDropMember
<1>7. CASE LeaveDropRoom(p)
  <2>1. job[p] \in LeaveJob
    BY <1>2, <1>7 DEF LeaveDropRoom, LeavePC
  <2>2. RequestTypeOK'
    BY <1>7, <2>1, MoveType DEF LeaveDropRoom, Goto, Shape, LeavePC
  <2> QED
    BY <1>7, <2>2, DropRoomType DEF LeaveDropRoom
<1>8. CASE LeavePublish(p)
  <2>1. job[p] \in LeaveJob
    BY <1>2, <1>8 DEF LeavePublish, LeavePC
  <2>2. roster' \in [Rooms -> [Conns -> (SUBSET Marks) \union {None}]]
    BY <1>8, <2>1 DEF LeavePublish, LeaveJob
  <2> QED
    BY <1>8, <2>2, FinishType, StoreUnchangedType DEF LeavePublish
<1> QED
  BY <1>1, <1>3, <1>4, <1>5, <1>6, <1>7, <1>8 DEF Leave

\* A pass that goes on with the connection it holds keeps its shape.
LEMMA PauseType ==
  ASSUME TypeOK, NEW w \in Workers, NEW at \in AnonPC \union NamedPC, Pause(w, at),
         reaper[w].pc \in AnonPC \union NamedPC,
         at \in NamedPC => reaper[w].pc \in NamedPC
  PROVE  reaper' \in [Workers -> Pass]
<1>1. reaper[w] \in Pass
  BY DEF TypeOK
<1>2. [reaper[w] EXCEPT !.pc = at] \in Pass
  BY <1>1 DEF Pass, SeekPC, AnonPC, NamedPC
<1> QED
  BY <1>2 DEF Pause, TypeOK

LEMMA NextStaleType ==
  ASSUME TypeOK, NEW w \in Workers, NextStale(w)
  PROVE  reaper' \in [Workers -> Pass]
<1>1. reaper[w] \in Pass
  BY DEF TypeOK
<1>2. [reaper[w] EXCEPT !.pc = "exists", !.conn = None, !.user = None] \in Pass
  BY <1>1 DEF Pass, SeekPC, AnonPC, NamedPC
<1> QED
  BY <1>2 DEF NextStale, TypeOK

\* What a pass holds, by the point it is at.
LEMMA PassAt ==
  ASSUME TypeOK, NEW w \in Workers
  PROVE  /\ RoomOf(w) \in Rooms
         /\ reaper[w].pc \in AnonPC \union NamedPC => reaper[w].conn \in Conns
         /\ reaper[w].pc \in NamedPC => reaper[w].user \in Users
BY DEF TypeOK, Pass, SeekPC, AnonPC, NamedPC, Workers, RoomOf

LEMMA ReapType ==
  ASSUME TypeOK, NEW w \in Workers, Reap(w)
  PROVE  TypeOK'
<1> USE DEF TypeOK
<1> DEFINE r == RoomOf(w)
<1>1. r \in Rooms
  BY DEF Workers, RoomOf
<1>2. /\ reaper[w] \in Pass /\ NoPass \in Pass
      /\ \A pass \in Pass : [reaper EXCEPT ![w] = pass] \in [Workers -> Pass]
  BY StoreAssumption DEF Pass, NoPass, SeekPC, AnonPC, NamedPC
<1>3. UNCHANGED <<pc, job>> => RequestTypeOK'
  BY DEF RequestTypeOK
<1>4. CASE ReapStart(w)
  <2>1. [NoPass EXCEPT !.pc = "range", !.at = now] \in Pass
    BY DEF Pass, NoPass, SeekPC, AnonPC, NamedPC, StoreTypeOK
  <2> QED
    BY <1>2, <1>3, <1>4, <2>1, StoreUnchangedType DEF ReapStart
<1>5. CASE ReapRange(w)
  <2> DEFINE stale == {c \in Conns : /\ lastSeen[r][c] > 0
                                     /\ lastSeen[r][c] + Lookback <= reaper[w].at}
             pass == [NoPass EXCEPT !.pc = "exists", !.todo = stale]
  <2>1. pass \in Pass
    BY DEF Pass, NoPass, SeekPC, AnonPC, NamedPC
  <2>2. reaper' = [reaper EXCEPT ![w] = pass] \/ reaper' = [reaper EXCEPT ![w] = NoPass]
    BY <1>5 DEF ReapRange
  <2> HIDE DEF pass
  <2>3. reaper' \in [Workers -> Pass]
    BY <1>2, <2>1, <2>2
  <2> QED
    BY <1>3, <1>5, <2>3, StoreUnchangedType DEF ReapRange
<1>6. CASE ReapExists(w)
  <2>1. PICK c \in reaper[w].todo :
          LET left == [reaper[w] EXCEPT !.todo = @ \ {c}]
              taken == [left EXCEPT !.conn = c, !.pc = "meta"]
          IN reaper' = [reaper EXCEPT ![w] = IF Exists(c) THEN left ELSE taken]
    BY <1>6 DEF ReapExists
  <2>2. c \in Conns /\ c # None
    BY <1>2, StoreAssumption DEF Pass
  <2> DEFINE left == [reaper[w] EXCEPT !.todo = @ \ {c}]
             taken == [left EXCEPT !.conn = c, !.pc = "meta"]
  <2>3. left \in Pass
    BY <1>2 DEF Pass
  <2>4. taken \in Pass
    <3> HIDE DEF left
    <3> QED
      BY <2>2, <2>3 DEF Pass, SeekPC, AnonPC, NamedPC
  <2>5. reaper' = [reaper EXCEPT ![w] = IF Exists(c) THEN left ELSE taken]
    BY <2>1
  <2> HIDE DEF left, taken
  <2>6. reaper' \in [Workers -> Pass]
    BY <1>2, <2>3, <2>4, <2>5
  <2> QED
    BY <1>3, <1>6, <2>6, StoreUnchangedType DEF ReapExists
<1>7. CASE ReapMeta(w)
  <2> DEFINE user == connMeta[r][reaper[w].conn].user
             pass == [reaper[w] EXCEPT !.user = user,
                                       !.pc = IF user = None THEN "purge" ELSE "strip"]
  <2>1. user \in Users \union {None}
    BY <1>1, <1>7, PassAt DEF ReapMeta, AnonPC, StoreTypeOK, Meta
  <2>2. reaper' = [reaper EXCEPT ![w] = pass]
    BY <1>7 DEF ReapMeta
  <2>3. pass \in Pass
    <3>1. reaper[w].pc = "meta"
      BY <1>7 DEF ReapMeta
    <3> HIDE DEF user
    <3> QED
      BY <1>2, <2>1, <3>1 DEF Pass, SeekPC, AnonPC, NamedPC
  <2> HIDE DEF pass
  <2>4. reaper' \in [Workers -> Pass]
    BY <1>2, <2>2, <2>3
  <2> QED
    BY <1>3, <1>7, <2>4, StoreUnchangedType DEF ReapMeta
<1>8. CASE ReapPurge(w)
  <2>1. StoreTypeOK'
    BY <1>8, PassAt, PurgeTxType DEF ReapPurge, AnonPC
  <2> QED
    BY <1>3, <1>8, <2>1, NextStaleType DEF ReapPurge
<1>9. CASE ReapStrip(w)
  <2>1. reaper[w].conn \in Conns
    BY <1>9, PassAt DEF ReapStrip, NamedPC
  <2>2. StoreTypeOK'
    BY <1>1, <1>9, <2>1, StripTxType DEF ReapStrip
  <2>3. crossed' \in SUBSET Conns
    BY <1>9, <2>1 DEF ReapStrip
  <2>4. reaper' \in [Workers -> Pass]
    BY <1>9, PauseType DEF ReapStrip, NamedPC
  <2> QED
    BY <1>3, <1>9, <2>2, <2>3, <2>4 DEF ReapStrip
<1>10. CASE ReapCountUser(w)
  <2>1. reaper' \in [Workers -> Pass]
    BY <1>10, PauseType DEF ReapCountUser, NamedPC
  <2> QED
    BY <1>3, <1>10, <2>1, StoreUnchangedType DEF ReapCountUser
<1>11. CASE ReapDropMember(w)
  <2>1. reaper' \in [Workers -> Pass]
    BY <1>11, PauseType DEF ReapDropMember, NamedPC
  <2> QED
    BY <1>3, <1>11, <2>1, DropMemberType DEF ReapDropMember
<1>12. CASE ReapPublish(w)
  <2>1. reaper[w].conn \in Conns
    BY <1>12, PassAt DEF ReapPublish, NamedPC
  <2>2. roster' \in [Rooms -> [Conns -> (SUBSET Marks) \union {None}]]
    BY <1>1, <1>12, <2>1 DEF ReapPublish
  <2> QED
    BY <1>3, <1>12, <2>2, NextStaleType, StoreUnchangedType DEF ReapPublish
<1>13. CASE ReapCountRoom(w)
  <2>1. [NoPass EXCEPT !.pc = "dropRoom"] \in Pass
    BY DEF Pass, NoPass, SeekPC, AnonPC, NamedPC
  <2> QED
    BY <1>2, <1>3, <1>13, <2>1, StoreUnchangedType DEF ReapCountRoom
<1>14. CASE ReapDropRoom(w)
  BY <1>2, <1>3, <1>14, DropRoomType DEF ReapDropRoom
<1> QED
  BY <1>4, <1>5, <1>6, <1>7, <1>8, <1>9, <1>10, <1>11, <1>12, <1>13, <1>14 DEF Reap

\* The type invariant holds in every reachable state, whatever the number of
\* connections, rooms, requests and server processes.
THEOREM TypeCorrect == Spec => []TypeOK
<1>1. Init => TypeOK
  BY StoreAssumption DEF Init, StoreInit, TypeOK, StoreTypeOK, RequestTypeOK, Shape, Hash, Meta,
     NoHash, NoMeta, Pass, NoPass, SeekPC, AnonPC, NamedPC
<1>2. TypeOK /\ [Next]_vars => TypeOK'
  <2> SUFFICES ASSUME TypeOK, [Next]_vars
               PROVE  TypeOK'
    OBVIOUS
  <2>1. ASSUME NEW p \in Procs, CrashRequest(p)
        PROVE  TypeOK'
    BY <2>1, FinishType, StoreUnchangedType DEF CrashRequest, TypeOK
  <2>2. ASSUME NEW w \in Workers, CrashPass(w)
        PROVE  TypeOK'
    <3>1. NoPass \in Pass
      BY DEF Pass, NoPass, SeekPC, AnonPC, NamedPC
    <3> QED
      BY <2>2, <3>1, StoreUnchangedType DEF CrashPass, TypeOK, RequestTypeOK
  <2>3. CASE Clock
    BY <2>3, TickType DEF Clock, TypeOK, RequestTypeOK
  <2>4. CASE UNCHANGED vars
    BY <2>4, StoreUnchangedType DEF vars, TypeOK, RequestTypeOK
  <2> QED
    BY <2>1, <2>2, <2>3, <2>4, JoinType, HeartbeatType, ScriptHeartbeatType, LeaveType, ReapType
       DEF Next
<1> QED
  BY <1>1, <1>2, PTL DEF Spec

(***************************************************************************)
(* Part 2: Every interleaving.                                             *)
(***************************************************************************)
-----------------------------------------------------------------------------
(* What a snapshot lists, the reaper finds *)

\* The four indexes of a room, as they are after a step.
IndexUnchanged == UNCHANGED <<conns, lastSeen, connMeta>>

LEMMA UnindexKeepsReapable ==
  ASSUME TypeOK, IndexedIsReapable, NEW c \in Conns, NEW r \in Rooms, Unindex(c, r)
  PROVE  IndexedIsReapable'
BY DEF TypeOK, StoreTypeOK, IndexedIsReapable, Unindex

LEMMA ReapableStep ==
  ASSUME TypeOK, IndexedIsReapable, [Next]_vars
  PROVE  IndexedIsReapable'
<1>1. ASSUME IndexUnchanged
      PROVE  IndexedIsReapable'
  BY <1>1 DEF IndexUnchanged, IndexedIsReapable
<1>2. ASSUME UNCHANGED storeVars
      PROVE  IndexedIsReapable'
  BY <1>1, <1>2 DEF storeVars, IndexUnchanged
<1>3. ASSUME NEW p \in Procs, JoinWrite(p)
      PROVE  IndexedIsReapable'
  <2>1. job[p] \in JoinJob
    BY <1>3, JobAt DEF TypeOK, JoinWrite, JoinPC
  <2> DEFINE j == job[p]
  <2>2. j.conn \in Conns /\ j.room \in Rooms /\ j.user \in Users /\ j.at \in Nat \ {0}
    BY <2>1 DEF JoinJob
  <2>3. /\ conns' = [conns EXCEPT ![j.room] = @ \union {j.conn}]
        /\ lastSeen' = [lastSeen EXCEPT ![j.room][j.conn] = j.at]
        /\ connMeta' = [connMeta EXCEPT ![j.room][j.conn] = [user |-> j.user, epoch |-> j.epoch]]
    BY <1>3 DEF JoinWrite, JoinTx
  <2> QED
    BY <2>2, <2>3, StoreAssumption DEF IndexedIsReapable, TypeOK, StoreTypeOK
<1>4. ASSUME NEW p \in Procs, Join(p), ~JoinWrite(p)
      PROVE  IndexedIsReapable'
  BY <1>2, <1>4 DEF Join, JoinRead, JoinPublish, SnapIndex, SnapRead, JoinAck
<1>5. ASSUME NEW p \in Procs, Heartbeat(p)
      PROVE  IndexedIsReapable'
  <2>1. CASE BeatWrite(p)
    <3>1. job[p] \in BeatJob
      BY <2>1, JobAt DEF TypeOK, BeatWrite, BeatPC
    <3>2. /\ job[p].conn \in Conns /\ job[p].room \in Rooms /\ job[p].at \in Nat \ {0}
          /\ lastSeen' = [lastSeen EXCEPT ![job[p].room][job[p].conn] = job[p].at]
          /\ UNCHANGED <<conns, connMeta>>
      BY <2>1, <3>1 DEF BeatWrite, BeatTx, BeatJob
    <3> QED
      BY <3>2 DEF IndexedIsReapable, TypeOK, StoreTypeOK
  <2>2. CASE BeatMeta(p)
    <3>1. job[p] \in BeatJob
      BY <2>2, JobAt DEF TypeOK, BeatMeta, BeatPC
    <3>2. /\ job[p].conn \in Conns /\ job[p].room \in Rooms /\ job[p].user \in Users
          /\ connMeta' = [connMeta EXCEPT ![job[p].room][job[p].conn] =
                                            [user |-> job[p].user, epoch |-> job[p].epoch]]
          /\ UNCHANGED <<conns, lastSeen>>
      BY <2>2, <3>1 DEF BeatMeta, PutMeta, BeatJob
    <3> QED
      BY <3>2, StoreAssumption DEF IndexedIsReapable, TypeOK, StoreTypeOK
  <2> QED
    BY <1>2, <1>5, <2>1, <2>2 DEF Heartbeat, BeatRead, BeatPublish
<1>6. ASSUME NEW p \in Procs, ScriptHeartbeat(p)
      PROVE  IndexedIsReapable'
  <2>1. CASE ScriptRun(p) /\ ~UNCHANGED storeVars
    <3>1. job[p] \in ScriptJob
      BY <2>1, JobAt DEF TypeOK, ScriptRun, ScriptPC
    <3>2. PICK e, s : BeatScript(job[p].conn, job[p].room, e, s, job[p].at)
      BY <2>1 DEF ScriptRun
    <3>3. hash[job[p].conn].user # None
      BY <2>1 DEF ScriptRun, Live
    <3>4. /\ job[p].conn \in Conns /\ job[p].room \in Rooms /\ job[p].at \in Nat \ {0}
          /\ lastSeen' = [lastSeen EXCEPT ![job[p].room][job[p].conn] = job[p].at]
          /\ UNCHANGED conns
          /\ \/ UNCHANGED connMeta
             \/ connMeta' = [connMeta EXCEPT ![job[p].room][job[p].conn] =
                                               [user |-> hash[job[p].conn].user, epoch |-> e]]
      BY <3>1, <3>2 DEF BeatScript, ScriptJob
    <3> QED
      BY <3>3, <3>4 DEF IndexedIsReapable, TypeOK, StoreTypeOK
  <2> QED
    BY <1>2, <1>6, <2>1 DEF ScriptHeartbeat, ScriptRead, ScriptReload
<1>7. ASSUME NEW p \in Procs, Leave(p)
      PROVE  IndexedIsReapable'
  <2>1. CASE LeaveWrite(p)
    <3>1. job[p] \in LeaveJob
      BY <2>1, JobAt DEF TypeOK, LeaveWrite, LeavePC
    <3> QED
      BY <2>1, <3>1, UnindexKeepsReapable DEF LeaveWrite, LeaveTx, LeaveJob
  <2>2. CASE LeaveDropMember(p) \/ LeaveDropRoom(p)
    BY <1>1, <2>2 DEF LeaveDropMember, LeaveDropRoom, DropMember, DropRoom, IndexUnchanged
  <2> QED
    BY <1>2, <1>7, <2>1, <2>2 DEF Leave, LeaveRead, LeaveCountUser, LeaveCountRoom, LeavePublish
<1>8. ASSUME NEW w \in Workers, Reap(w)
      PROVE  IndexedIsReapable'
  <2>1. CASE ReapPurge(w)
    BY <2>1, PassAt, UnindexKeepsReapable DEF ReapPurge, PurgeTx, AnonPC
  <2>2. CASE ReapStrip(w)
    BY <2>2, PassAt, UnindexKeepsReapable DEF ReapStrip, StripTx, NamedPC
  <2>3. CASE ReapDropMember(w) \/ ReapDropRoom(w)
    BY <1>1, <2>3 DEF ReapDropMember, ReapDropRoom, DropMember, DropRoom, IndexUnchanged
  <2> QED
    BY <1>2, <1>8, <2>1, <2>2, <2>3 DEF Reap, ReapStart, ReapRange, ReapExists, ReapMeta,
       ReapCountUser, ReapPublish, ReapCountRoom
<1>9. CASE Clock
  BY <1>1, <1>9 DEF Clock, Tick, indexVars, IndexUnchanged
<1>10. ASSUME \/ \E p \in Procs : CrashRequest(p)
              \/ \E w \in Workers : CrashPass(w)
              \/ UNCHANGED vars
       PROVE  IndexedIsReapable'
  BY <1>2, <1>10 DEF CrashRequest, CrashPass, vars
<1> QED
  BY <1>3, <1>4, <1>5, <1>6, <1>7, <1>8, <1>9, <1>10 DEF Next

\* Every connection in room:conns has a last_seen score and a conn_meta entry, however
\* requests, passes and crashes interleave: the reaper can find it and announce it.
THEOREM Reapable == Spec => []IndexedIsReapable
<1>1. Init => IndexedIsReapable
  BY DEF Init, StoreInit, IndexedIsReapable
<1> QED
  BY <1>1, TypeCorrect, ReapableStep, PTL DEF Spec

-----------------------------------------------------------------------------
(* Sessions: only a join opens one, and a live one is indexed *)

\* A step leaves the owner of connection c's hash alone, or deletes the hash.
KeepsOwner(c) ==
  \/ /\ hash'[c].room = hash[c].room /\ hash'[c].user = hash[c].user
     /\ hash'[c].expires = hash[c].expires \/ hash'[c].expires > 0
  \/ hash'[c] = NoHash

\* Only a join writes the room and the user of a hash.
LEMMA OwnerStep ==
  ASSUME TypeOK, [Next]_vars, \A p \in Procs : ~JoinWrite(p), NEW c \in Conns
  PROVE  KeepsOwner(c)
<1>1. ASSUME UNCHANGED hash
      PROVE  KeepsOwner(c)
  BY <1>1 DEF KeepsOwner
<1>2. hash[c] \in Hash /\ now + TTL \in Nat /\ now + TTL > 0
  BY StoreAssumption DEF TypeOK, StoreTypeOK
<1>3. ASSUME NEW p \in Procs, BeatWrite(p)
      PROVE  KeepsOwner(c)
  <2> DEFINE j == job[p]
  <2>1. BeatTx(j.conn, j.room, j.epoch, j.state, j.raised, j.changed, j.at)
    BY <1>3 DEF BeatWrite
  <2>2. CASE c = j.conn
    <3>1. hash'[c] = [hash[c] EXCEPT !.expires = now + TTL,
                                     !.epoch = IF j.raised THEN j.epoch ELSE @,
                                     !.state = IF j.changed THEN j.state ELSE @]
      BY <2>1, <2>2 DEF BeatTx, TypeOK, StoreTypeOK
    <3> QED
      BY <1>2, <3>1 DEF KeepsOwner, Hash
  <2>3. CASE c # j.conn
    BY <2>1, <2>3 DEF BeatTx, KeepsOwner, TypeOK, StoreTypeOK
  <2> QED
    BY <2>2, <2>3
<1>4. ASSUME NEW p \in Procs, ScriptRun(p), ~UNCHANGED storeVars
      PROVE  KeepsOwner(c)
  <2>1. PICK e, s : BeatScript(job[p].conn, job[p].room, e, s, job[p].at)
    BY <1>4 DEF ScriptRun
  <2>2. CASE c = job[p].conn
    <3>1. hash'[c] = [hash[c] EXCEPT !.expires = now + TTL, !.epoch = e, !.state = s]
      BY <2>1, <2>2 DEF BeatScript, TypeOK, StoreTypeOK
    <3> QED
      BY <1>2, <3>1 DEF KeepsOwner, Hash
  <2>3. CASE c # job[p].conn
    BY <2>1, <2>3 DEF BeatScript, KeepsOwner, TypeOK, StoreTypeOK
  <2> QED
    BY <2>2, <2>3
<1>5. ASSUME NEW p \in Procs, LeaveWrite(p)
      PROVE  KeepsOwner(c)
  BY <1>5 DEF LeaveWrite, LeaveTx, KeepsOwner, TypeOK, StoreTypeOK
<1>6. CASE Clock
  BY <1>6 DEF Clock, Tick, KeepsOwner, TypeOK, StoreTypeOK
<1>7. ASSUME NEW p \in Procs, Join(p) \/ Heartbeat(p) \/ ScriptHeartbeat(p) \/ Leave(p),
             ~BeatWrite(p), ~(ScriptRun(p) /\ ~UNCHANGED storeVars), ~LeaveWrite(p)
      PROVE  UNCHANGED hash
  <2>1. CASE Join(p)
    BY <2>1 DEF Join, JoinRead, JoinPublish, SnapIndex, SnapRead, JoinAck, storeVars
  <2>2. CASE Heartbeat(p)
    BY <1>7, <2>2 DEF Heartbeat, BeatRead, BeatMeta, PutMeta, BeatPublish, storeVars
  <2>3. CASE ScriptHeartbeat(p)
    BY <1>7, <2>3 DEF ScriptHeartbeat, ScriptRead, ScriptReload, storeVars
  <2>4. CASE Leave(p)
    BY <1>7, <2>4 DEF Leave, LeaveRead, LeaveCountUser, LeaveCountRoom, LeaveDropMember, DropMember,
       LeaveDropRoom, DropRoom, LeavePublish, storeVars
  <2> QED
    BY <1>7, <2>1, <2>2, <2>3, <2>4
<1>8. ASSUME NEW w \in Workers, Reap(w)
      PROVE  UNCHANGED hash
  BY <1>8 DEF Reap, ReapStart, ReapRange, ReapExists, ReapMeta, ReapPurge, PurgeTx, ReapStrip,
     StripTx, ReapCountUser, ReapDropMember, DropMember, ReapPublish, ReapCountRoom,
     ReapDropRoom, DropRoom, storeVars
<1>9. ASSUME \/ \E p \in Procs : CrashRequest(p)
             \/ \E w \in Workers : CrashPass(w)
             \/ UNCHANGED vars
      PROVE  UNCHANGED hash
  BY <1>9 DEF CrashRequest, CrashPass, vars, storeVars
<1> QED
  BY <1>1, <1>3, <1>4, <1>5, <1>6, <1>7, <1>8, <1>9 DEF Next

\* No heartbeat, however late its writes, gives a connection without session a room
\* and a user: only the transaction of a join does.
THEOREM OnlyJoinOpens == Spec => OnlyJoinOpensSession
<1> DEFINE Opens(c) == \E p \in Procs : pc[p] = "joinTx" /\ pc'[p] = "joinPublish" /\ job[p].conn = c
           Step == \A c \in Conns : ~Live(c) /\ Live(c)' => Opens(c)
<1>1. TypeOK /\ [Next]_vars => [Step]_vars
  <2> SUFFICES ASSUME TypeOK, [Next]_vars, NEW c \in Conns, ~Live(c), Live(c)'
               PROVE  Opens(c)
    OBVIOUS
  <2>1. ASSUME \A p \in Procs : ~JoinWrite(p)
        PROVE  FALSE
    BY <2>1, OwnerStep DEF KeepsOwner, NoHash, Live
  <2>2. PICK p \in Procs : JoinWrite(p)
    BY <2>1
  <2>3. pc[p] = "joinTx" /\ pc'[p] = "joinPublish"
    BY <2>2 DEF JoinWrite, Goto, TypeOK, RequestTypeOK
  <2>4. job[p].conn = c
    <3>1. hash' = [hash EXCEPT ![job[p].conn] = hash'[job[p].conn]]
      BY <2>2, <2>3, JobAt DEF JoinWrite, JoinTx, TypeOK, StoreTypeOK, JoinJob, JoinPC
    <3> QED
      BY <3>1 DEF Live, TypeOK, StoreTypeOK
  <2> QED
    BY <2>3, <2>4
<1> QED
  BY <1>1, TypeCorrect, PTL DEF Spec, OnlyJoinOpensSession

\* The strengthening.  A live hash has a deadline, so a reaper that finds no key finds no
\* session; and the connection a pass works on stays without session until it is done,
\* unless a join has crossed the pass.
LiveHasDeadline == \A c \in Conns : Live(c) => Exists(c)

WorkedOnIsDead == \A w \in Workers : \A c \in Conns \ crossed : reaper[w].conn = c => ~Live(c)

SessionInv == LiveHasDeadline /\ WorkedOnIsDead /\ LiveSessionIsIndexed

\* A step of a request or of the clock that is no join keeps the sessions indexed, if it
\* removes from room:conns only connections that have no session afterwards.
LEMMA NoJoinKeepsSessions ==
  ASSUME TypeOK, SessionInv, \A c \in Conns : KeepsOwner(c), crossed \subseteq crossed',
         \A w \in Workers : \A c \in Conns \ crossed' :
           reaper'[w].conn = c => reaper[w].conn = c \/ ~Live(c)',
         \A r \in Rooms : \A c \in conns[r] \ crossed' : c \in conns'[r] \/ ~Live(c)'
  PROVE  SessionInv'
<1>1. \A c \in Conns : Live(c)' => /\ Live(c) /\ hash'[c].room = hash[c].room
                                   /\ hash[c].room \in Rooms
                                   /\ hash'[c].expires > 0 \/ hash'[c].expires = hash[c].expires
  BY StoreAssumption DEF KeepsOwner, Live, NoHash, TypeOK, StoreTypeOK, Hash
<1>2. LiveHasDeadline'
  BY <1>1 DEF SessionInv, LiveHasDeadline, Exists
<1>3. WorkedOnIsDead'
  BY <1>1 DEF SessionInv, WorkedOnIsDead
<1>4. LiveSessionIsIndexed'
  BY <1>1 DEF SessionInv, LiveSessionIsIndexed
<1> QED
  BY <1>2, <1>3, <1>4 DEF SessionInv

LEMMA JoinWriteKeepsSessions ==
  ASSUME TypeOK, SessionInv, NEW p \in Procs, JoinWrite(p)
  PROVE  SessionInv'
<1> DEFINE j == job[p]
<1>1. j.conn \in Conns /\ j.room \in Rooms /\ j.user \in Users
  BY JobAt DEF TypeOK, JoinWrite, JoinPC, JoinJob
<1>2. now + TTL > 0
  BY StoreAssumption DEF TypeOK, StoreTypeOK
<1>3. /\ hash'[j.conn].room = j.room /\ hash'[j.conn].expires = now + TTL
      /\ j.conn \in conns'[j.room]
      /\ \A c \in Conns : c # j.conn => hash'[c] = hash[c]
      /\ \A r \in Rooms : conns[r] \subseteq conns'[r]
  BY <1>1 DEF JoinWrite, JoinTx, TypeOK, StoreTypeOK
<1>4. /\ UNCHANGED reaper
      /\ crossed' = IF WorkedOn(j.conn) THEN crossed \union {j.conn} ELSE crossed \ {j.conn}
  BY DEF JoinWrite
<1>5. LiveHasDeadline'
  BY <1>2, <1>3 DEF SessionInv, LiveHasDeadline, Live, Exists
<1>6. WorkedOnIsDead'
  BY <1>3, <1>4 DEF SessionInv, WorkedOnIsDead, WorkedOn, Live
<1>7. LiveSessionIsIndexed'
  <2>1. \A c \in Conns : Live(c) => hash[c].room \in Rooms
    BY DEF Live, TypeOK, StoreTypeOK, Hash
  <2> QED
    BY <1>3, <1>4, <2>1 DEF SessionInv, LiveSessionIsIndexed, Live
<1> QED
  BY <1>5, <1>6, <1>7 DEF SessionInv

LEMMA ReapKeepsSessions ==
  ASSUME TypeOK, SessionInv, NEW w \in Workers, Reap(w), \A c \in Conns : KeepsOwner(c)
  PROVE  SessionInv'
<1> DEFINE r == RoomOf(w)
           conn == reaper[w].conn
<1>1. UNCHANGED hash
  BY DEF Reap, ReapStart, ReapRange, ReapExists, ReapMeta, ReapPurge, PurgeTx, ReapStrip,
     StripTx, ReapCountUser, ReapDropMember, DropMember, ReapPublish, ReapCountRoom,
     ReapDropRoom, DropRoom, storeVars
<1>2. /\ crossed \subseteq crossed'
      /\ UNCHANGED conns \/ conns' = [conns EXCEPT ![r] = @ \ {conn}]
  <2>1. CASE ReapPurge(w) \/ ReapStrip(w)
    BY <2>1 DEF ReapPurge, PurgeTx, ReapStrip, StripTx, Unindex
  <2>2. CASE ~(ReapPurge(w) \/ ReapStrip(w))
    BY <2>2 DEF Reap, ReapStart, ReapRange, ReapExists, ReapMeta, ReapCountUser,
       ReapDropMember, DropMember, ReapPublish, ReapCountRoom, ReapDropRoom, DropRoom, storeVars
  <2> QED
    BY <2>1, <2>2
<1>3. ASSUME NEW q \in Rooms, NEW c \in conns[q] \ crossed'
      PROVE  c \in conns'[q] \/ ~Live(c)'
  <2>1. c \in Conns
    BY <1>3 DEF TypeOK, StoreTypeOK
  <2>2. CASE c = conn
    BY <1>1, <1>2, <1>3, <2>1, <2>2 DEF SessionInv, WorkedOnIsDead, Live
  <2>3. CASE c # conn
    BY <1>2, <1>3, <2>3 DEF TypeOK, StoreTypeOK
  <2> QED
    BY <2>2, <2>3
<1>4. ASSUME NEW v \in Workers, NEW c \in Conns, reaper'[v].conn = c, reaper[v].conn # c
      PROVE  ~Live(c)'
  <2>1. c # None /\ NoPass.conn = None
    BY StoreAssumption DEF NoPass
  <2>2. v = w /\ ReapExists(w)
    <3>1. \A q \in Workers : reaper[q] \in Pass
      BY DEF TypeOK
    <3>2. CASE ReapStart(w) \/ ReapRange(w) \/ ReapCountRoom(w) \/ ReapDropRoom(w)
      BY <1>4, <2>1, <3>2 DEF ReapStart, ReapRange, ReapCountRoom, ReapDropRoom, TypeOK, NoPass
    <3>3. CASE ReapMeta(w)
      <4> DEFINE user == connMeta[r][conn].user
                 next == [reaper[w] EXCEPT !.user = user,
                                           !.pc = IF user = None THEN "purge" ELSE "strip"]
      <4>1. reaper' = [reaper EXCEPT ![w] = next]
        BY <3>3 DEF ReapMeta
      <4>2. next.conn = conn
        BY <3>1 DEF Pass
      <4> HIDE DEF next
      <4> QED
        BY <1>4, <4>1, <4>2 DEF TypeOK
    <3>6. CASE ReapStrip(w) \/ ReapCountUser(w) \/ ReapDropMember(w)
      <4>1. PICK at : Pause(w, at)
        BY <3>6 DEF ReapStrip, ReapCountUser, ReapDropMember
      <4>2. [reaper[w] EXCEPT !.pc = at].conn = conn
        BY <3>1 DEF Pass
      <4> QED
        BY <1>4, <4>1, <4>2 DEF Pause, TypeOK
    <3>4. CASE ReapPurge(w) \/ ReapPublish(w)
      <4>1. \A pass \in Pass :
              [pass EXCEPT !.pc = "exists", !.conn = None, !.user = None].conn = None
        BY DEF Pass
      <4>2. PICK next : reaper' = [reaper EXCEPT ![w] = next] /\ next.conn = None
        BY <3>1, <3>4, <4>1 DEF ReapPurge, ReapPublish, NextStale
      <4> QED
        BY <1>4, <2>1, <4>2 DEF TypeOK
    <3>5. CASE ReapExists(w)
      BY <1>4, <3>5 DEF ReapExists, TypeOK
    <3> QED
      BY <3>2, <3>3, <3>4, <3>5, <3>6 DEF Reap
  <2>3. ~Exists(c)
    <3> DEFINE left(d) == [reaper[w] EXCEPT !.todo = @ \ {d}]
               taken(d) == [left(d) EXCEPT !.conn = d, !.pc = "meta"]
    <3>1. reaper[w] \in Pass
      BY DEF TypeOK
    <3>2. PICK d \in reaper[w].todo : reaper' = [reaper EXCEPT ![w] = IF Exists(d) THEN left(d)
                                                                  ELSE taken(d)]
      BY <2>2 DEF ReapExists
    <3>3. left(d).conn = reaper[w].conn /\ taken(d).conn = d
      BY <3>1 DEF Pass
    <3> HIDE DEF left, taken
    <3> QED
      BY <1>4, <2>2, <3>2, <3>3 DEF TypeOK
  <2> QED
    BY <1>1, <2>3 DEF SessionInv, LiveHasDeadline, Live
<1> QED
  BY <1>2, <1>3, <1>4, NoJoinKeepsSessions

LEMMA SessionStep ==
  ASSUME TypeOK, SessionInv, [Next]_vars
  PROVE  SessionInv'
<1>1. CASE \E p \in Procs : JoinWrite(p)
  BY <1>1, JoinWriteKeepsSessions
<1>2. CASE ~\E p \in Procs : JoinWrite(p)
  <2>1. \A c \in Conns : KeepsOwner(c)
    BY <1>2, OwnerStep
  <2>2. ASSUME UNCHANGED <<reaper, crossed, conns>>
        PROVE  SessionInv'
    BY <2>1, <2>2, NoJoinKeepsSessions
  <2>3. ASSUME NEW p \in Procs, LeaveWrite(p)
        PROVE  SessionInv'
    <3>1. PICK c \in Conns, r \in Rooms : c = job[p].conn /\ r = job[p].room
      BY <2>3, JobAt DEF TypeOK, LeaveWrite, LeavePC, LeaveJob
    <3>2. /\ hash'[c] = NoHash
          /\ conns' = [conns EXCEPT ![r] = @ \ {c}]
          /\ UNCHANGED <<reaper, crossed>>
      BY <2>3, <3>1 DEF LeaveWrite, LeaveTx, Unindex, TypeOK, StoreTypeOK
    <3>3. ~Live(c)'
      BY <3>2 DEF Live, NoHash
    <3> QED
      BY <2>1, <3>1, <3>2, <3>3, NoJoinKeepsSessions DEF TypeOK, StoreTypeOK
  <2>4. ASSUME NEW p \in Procs, Join(p) \/ Heartbeat(p) \/ ScriptHeartbeat(p) \/ Leave(p), ~LeaveWrite(p)
        PROVE  UNCHANGED <<reaper, crossed, conns>>
    <3>1. CASE Join(p)
      BY <1>2, <3>1 DEF Join, JoinRead, Start, JoinPublish, SnapIndex, SnapRead, JoinAck, storeVars
    <3>2. CASE Heartbeat(p)
      BY <3>2 DEF Heartbeat, BeatRead, Start, BeatWrite, BeatTx, BeatMeta, PutMeta, BeatPublish, storeVars
    <3>3. CASE ScriptHeartbeat(p)
      BY <3>3 DEF ScriptHeartbeat, ScriptRead, Start, ScriptRun, BeatScript, ScriptReload, storeVars
    <3>4. CASE Leave(p)
      BY <2>4, <3>4 DEF Leave, LeaveRead, Start, LeaveCountUser, LeaveCountRoom, LeaveDropMember,
         DropMember, LeaveDropRoom, DropRoom, LeavePublish, storeVars
    <3> QED
      BY <2>4, <3>1, <3>2, <3>3, <3>4
  <2>5. ASSUME NEW w \in Workers, Reap(w)
        PROVE  SessionInv'
    BY <2>1, <2>5, ReapKeepsSessions
  <2>6. ASSUME NEW w \in Workers, CrashPass(w)
        PROVE  SessionInv'
    <3>1. \A v \in Workers : reaper'[v].conn = reaper[v].conn \/ reaper'[v].conn = None
      BY <2>6 DEF CrashPass, NoPass, TypeOK
    <3>2. UNCHANGED <<crossed, conns>>
      BY <2>6 DEF CrashPass, storeVars
    <3> QED
      BY <2>1, <3>1, <3>2, NoJoinKeepsSessions, StoreAssumption
  <2>7. ASSUME Clock \/ (\E p \in Procs : CrashRequest(p)) \/ UNCHANGED vars
        PROVE  UNCHANGED <<reaper, crossed, conns>>
    BY <2>7 DEF Clock, Tick, indexVars, CrashRequest, vars, storeVars
  <2> QED
    BY <2>2, <2>3, <2>4, <2>5, <2>6, <2>7 DEF Next
<1> QED
  BY <1>1, <1>2

\* Sessions have a deadline, and no pass works on a live one, nor is it unindexed, unless
\* its join crossed the pass.
LEMMA SessionsKept == Spec => []SessionInv
<1>1. Init => SessionInv
  BY DEF Init, StoreInit, SessionInv, LiveHasDeadline, WorkedOnIsDead, LiveSessionIsIndexed, Live,
     NoHash, NoPass, Workers
<1> QED
  BY <1>1, TypeCorrect, SessionStep, PTL DEF Spec

\* A live session is in its room's conns unless its join crossed a reaper pass.
THEOREM LiveIsIndexed == Spec => []LiveSessionIsIndexed
<1>1. SessionInv => LiveSessionIsIndexed
  BY DEF SessionInv
<1> QED
  BY <1>1, SessionsKept, PTL

(***************************************************************************)
(* Part 3: The script as the only heartbeat.                               *)
(***************************************************************************)
-----------------------------------------------------------------------------
(* Where what Redis holds of a connection comes from *)

\* Clients join with one room per connection, or with one room and one user.
OneRoom == \A l, m \in Logins : l.conn = m.conn => l.room = m.room
OneLogin == \A l, m \in Logins : l.conn = m.conn => l = m

LogsIn(c, r, u) == \E l \in Logins : l.conn = c /\ l.room = r /\ l.user = u

LogsInto(c, r) == \E l \in Logins : l.conn = c /\ l.room = r

KnownHash ==
  \A c \in Conns :
    /\ hash[c].room = None <=> hash[c].user = None
    /\ hash[c].room # None => LogsIn(c, hash[c].room, hash[c].user)

KnownJobs ==
  \A p \in Procs :
    /\ pc[p] \in JoinPC \union BeatPC \union LeavePC => LogsIn(job[p].conn, job[p].room, job[p].user)
    /\ pc[p] \in ScriptPC => LogsInto(job[p].conn, job[p].room)

KnownIndex ==
  \A r \in Rooms, c \in Conns :
    /\ lastSeen[r][c] > 0 => LogsInto(c, r)
    /\ connMeta[r][c].user # None => LogsIn(c, r, connMeta[r][c].user)

KnownPass ==
  \A w \in Workers : IF reaper[w].pc \in NamedPC
                     THEN LogsIn(reaper[w].conn, RoomOf(w), reaper[w].user)
                     ELSE reaper[w].user = None

Known == KnownHash /\ KnownJobs /\ KnownIndex /\ KnownPass

\* A pass about to purge a connection found no conn_meta entry of it: if there is one
\* now, a join has crossed the pass.
PurgeCrossed ==
  \A w \in Workers :
    reaper[w].pc = "purge" /\ connMeta[RoomOf(w)][reaper[w].conn].user # None
      => reaper[w].conn \in crossed

NoBeats == \A p \in Procs : pc[p] \notin BeatPC


\* How a step of a pass moves it on.
LEMMA PassMoves ==
  ASSUME TypeOK, NEW w \in Workers, Reap(w)
  PROVE  /\ \A v \in Workers : v # w => reaper'[v] = reaper[v]
         /\ \/ ReapStart(w) \/ ReapRange(w) \/ ReapPurge(w) \/ ReapPublish(w)
            \/ ReapCountRoom(w) \/ ReapDropRoom(w)
            => reaper'[w].pc \in SeekPC /\ reaper'[w].conn = None /\ reaper'[w].user = None
         /\ ReapExists(w) =>
              /\ reaper[w].pc = "exists" /\ reaper'[w].user = reaper[w].user
              /\ \/ reaper'[w].pc = "exists" /\ reaper'[w].conn = None
                 \/ reaper'[w].pc = "meta" /\ reaper'[w].conn \in Conns /\ ~Exists(reaper'[w].conn)
         /\ ReapMeta(w) =>
              /\ reaper'[w].conn = reaper[w].conn
              /\ reaper'[w].user = connMeta[RoomOf(w)][reaper[w].conn].user
              /\ reaper'[w].pc = IF reaper'[w].user = None THEN "purge" ELSE "strip"
         /\ ReapStrip(w) \/ ReapCountUser(w) \/ ReapDropMember(w) =>
              /\ reaper'[w].conn = reaper[w].conn /\ reaper'[w].user = reaper[w].user
              /\ reaper'[w].pc \in {"countUser", "dropMember", "publish"}
<1>1. reaper \in [Workers -> Pass] /\ reaper[w] \in Pass
  BY DEF TypeOK
<1>2. ASSUME NEW next, reaper' = [reaper EXCEPT ![w] = next]
      PROVE  reaper'[w] = next /\ \A v \in Workers : v # w => reaper'[v] = reaper[v]
  BY <1>1, <1>2
<1> DEFINE Seeks == reaper'[w].pc \in SeekPC /\ reaper'[w].conn = None /\ reaper'[w].user = None
           Others == \A v \in Workers : v # w => reaper'[v] = reaper[v]
<1>3. ASSUME ReapStart(w) \/ ReapCountRoom(w) \/ ReapDropRoom(w)
      PROVE  Seeks /\ Others
  <2>1. PICK next : /\ reaper' = [reaper EXCEPT ![w] = next]
                    /\ next.pc \in SeekPC /\ next.conn = None /\ next.user = None
    <3>1. NoPass.pc \in SeekPC /\ NoPass.conn = None /\ NoPass.user = None
      BY DEF NoPass, SeekPC
    <3>2. CASE ReapStart(w)
      <4> DEFINE next == [NoPass EXCEPT !.pc = "range", !.at = now]
      <4>1. next.pc = "range" /\ next.conn = None /\ next.user = None
        BY DEF NoPass
      <4>2. reaper' = [reaper EXCEPT ![w] = next]
        BY <3>2 DEF ReapStart
      <4> HIDE DEF next
      <4> QED
        BY <4>1, <4>2 DEF SeekPC
    <3>4. CASE ReapCountRoom(w) \/ ReapDropRoom(w)
      <4>1. [NoPass EXCEPT !.pc = "dropRoom"].pc = "dropRoom"
            /\ [NoPass EXCEPT !.pc = "dropRoom"].conn = None
            /\ [NoPass EXCEPT !.pc = "dropRoom"].user = None
        BY DEF NoPass
      <4> QED
        BY <3>1, <3>4, <4>1 DEF ReapCountRoom, ReapDropRoom, SeekPC
    <3> QED
      BY <1>3, <3>2, <3>4
  <2> QED
    BY <1>2, <1>3, <2>1
<1>4. ASSUME ReapRange(w)
      PROVE  Seeks /\ Others
  BY <1>1, <1>4 DEF ReapRange, NoPass, SeekPC
<1>5. ASSUME ReapPurge(w) \/ ReapPublish(w)
      PROVE  Seeks /\ Others
  <2> DEFINE next == [reaper[w] EXCEPT !.pc = "exists", !.conn = None, !.user = None]
  <2>1. next.pc = "exists" /\ next.conn = None /\ next.user = None
    BY <1>1 DEF Pass
  <2>2. reaper' = [reaper EXCEPT ![w] = next]
    BY <1>5 DEF ReapPurge, ReapPublish, NextStale
  <2> HIDE DEF next
  <2> QED
    BY <1>2, <1>5, <2>1, <2>2 DEF SeekPC
<1>6. ASSUME ReapExists(w)
      PROVE  /\ reaper[w].pc = "exists" /\ reaper'[w].user = reaper[w].user
             /\ \/ reaper'[w].pc = "exists" /\ reaper'[w].conn = None
                \/ reaper'[w].pc = "meta" /\ reaper'[w].conn \in Conns /\ ~Exists(reaper'[w].conn)
             /\ Others
  <2> DEFINE left(d) == [reaper[w] EXCEPT !.todo = @ \ {d}]
             taken(d) == [left(d) EXCEPT !.conn = d, !.pc = "meta"]
  <2>1. PICK d \in reaper[w].todo :
          reaper' = [reaper EXCEPT ![w] = IF Exists(d) THEN left(d) ELSE taken(d)]
    BY <1>6 DEF ReapExists
  <2>2. reaper[w].pc = "exists" /\ d \in Conns
    BY <1>1, <1>6 DEF ReapExists, Pass
  <2>3. /\ left(d).pc = "exists" /\ left(d).conn = None /\ left(d).user = reaper[w].user
        /\ taken(d).pc = "meta" /\ taken(d).conn = d /\ taken(d).user = reaper[w].user
    BY <1>1, <2>2 DEF Pass, SeekPC
  <2> HIDE DEF left, taken
  <2>4. reaper'[w] = IF Exists(d) THEN left(d) ELSE taken(d)
    BY <1>1, <2>1
  <2> QED
    BY <1>1, <1>6, <2>1, <2>2, <2>3, <2>4
<1>7. ASSUME ReapMeta(w)
      PROVE  /\ reaper'[w].conn = reaper[w].conn
             /\ reaper'[w].user = connMeta[RoomOf(w)][reaper[w].conn].user
             /\ reaper'[w].pc = IF reaper'[w].user = None THEN "purge" ELSE "strip"
             /\ Others
  <2> DEFINE user == connMeta[RoomOf(w)][reaper[w].conn].user
             next == [reaper[w] EXCEPT !.user = user,
                                       !.pc = IF user = None THEN "purge" ELSE "strip"]
  <2>1. reaper' = [reaper EXCEPT ![w] = next]
    BY <1>7 DEF ReapMeta
  <2>2. /\ next.conn = reaper[w].conn /\ next.user = user
        /\ next.pc = IF user = None THEN "purge" ELSE "strip"
    BY <1>1 DEF Pass
  <2> HIDE DEF next
  <2> QED
    BY <1>2, <1>7, <2>1, <2>2
<1>8. ASSUME ReapStrip(w) \/ ReapCountUser(w) \/ ReapDropMember(w)
      PROVE  /\ reaper'[w].conn = reaper[w].conn /\ reaper'[w].user = reaper[w].user
             /\ reaper'[w].pc \in {"countUser", "dropMember", "publish"}
             /\ Others
  <2>1. PICK at \in {"countUser", "dropMember", "publish"} : Pause(w, at)
    BY <1>8 DEF ReapStrip, ReapCountUser, ReapDropMember
  <2> DEFINE next == [reaper[w] EXCEPT !.pc = at]
  <2>2. next.pc = at /\ next.conn = reaper[w].conn /\ next.user = reaper[w].user
    BY <1>1 DEF Pass
  <2>3. reaper' = [reaper EXCEPT ![w] = next]
    BY <2>1 DEF Pause
  <2> HIDE DEF next
  <2> QED
    BY <1>2, <1>8, <2>2, <2>3
<1> QED
  BY <1>3, <1>4, <1>5, <1>6, <1>7, <1>8 DEF Reap

\* How a step of a request moves it on: it begins, from a login or from a hash, goes on
\* with the connection, room and user it has, or ends.
LEMMA RequestMoves ==
  ASSUME TypeOK, NEW p \in Procs, Join(p) \/ Heartbeat(p) \/ ScriptHeartbeat(p) \/ Leave(p)
  PROVE  /\ \A q \in Procs : q # p => pc'[q] = pc[q] /\ job'[q] = job[q]
         /\ UNCHANGED reaper
         /\ \/ pc'[p] = "idle"
            \/ /\ JoinRead(p)
               /\ pc'[p] = "joinTx"
               /\ LogsIn(job'[p].conn, job'[p].room, job'[p].user)
            \/ /\ BeatRead(p) \/ LeaveRead(p)
               /\ pc'[p] \in BeatPC \union LeavePC
               /\ job'[p].conn \in Conns /\ Live(job'[p].conn)
               /\ job'[p].room = hash[job'[p].conn].room /\ job'[p].user = hash[job'[p].conn].user
            \/ /\ ScriptRead(p) \/ ScriptReload(p)
               /\ pc'[p] = "beatScript"
               /\ job'[p].conn \in Conns /\ hash[job'[p].conn].room # None
               /\ job'[p].room = hash[job'[p].conn].room
            \/ /\ \/ pc[p] \in JoinPC /\ pc'[p] \in JoinPC
                  \/ pc[p] \in BeatPC /\ pc'[p] \in BeatPC
                  \/ pc[p] \in LeavePC /\ pc'[p] \in LeavePC
               /\ job'[p].conn = job[p].conn /\ job'[p].room = job[p].room /\ job'[p].user = job[p].user
<1>1. DOMAIN pc = Procs /\ DOMAIN job = Procs
  BY DEF TypeOK, RequestTypeOK
<1>2. ASSUME NEW at, Goto(p, at) PROVE pc'[p] = at /\ \A q \in Procs : q # p => pc'[q] = pc[q]
  BY <1>1, <1>2 DEF Goto
<1>3. ASSUME NEW next, job' = [job EXCEPT ![p] = next]
      PROVE  job'[p] = next /\ \A q \in Procs : q # p => job'[q] = job[q]
  BY <1>1, <1>3
<1>4. ASSUME Finish(p)
      PROVE  pc'[p] = "idle" /\ \A q \in Procs : q # p => pc'[q] = pc[q] /\ job'[q] = job[q]
  BY <1>1, <1>4 DEF Finish
<1>5. ASSUME NEW at, NEW next, Start(p, at, next)
      PROVE  /\ pc'[p] = at /\ job'[p] = next /\ UNCHANGED reaper
             /\ \A q \in Procs : q # p => pc'[q] = pc[q] /\ job'[q] = job[q]
  BY <1>1, <1>5 DEF Start
<1>6. CASE Join(p)
  <2>1. CASE JoinRead(p)
    <3>1. PICK l, next : l \in Logins /\
            Start(p, "joinTx", next) /\ next.conn = l.conn /\ next.room = l.room /\ next.user = l.user
      BY <2>1 DEF JoinRead
    <3> QED
      BY <1>5, <2>1, <3>1 DEF LogsIn
  <2>2. CASE JoinWrite(p) \/ JoinPublish(p)
    BY <1>2, <2>2 DEF JoinWrite, JoinPublish, JoinPC
  <2>3. CASE SnapIndex(p) \/ SnapRead(p)
    <3>1. job[p] \in JoinJob
      BY <2>3, JobAt DEF SnapIndex, SnapRead, JoinPC, TypeOK
    <3>2. PICK next : /\ job' = [job EXCEPT ![p] = next]
                      /\ next.conn = job[p].conn /\ next.room = job[p].room /\ next.user = job[p].user
      BY <2>3, <3>1 DEF SnapIndex, SnapRead, JoinJob
    <3> QED
      BY <1>2, <1>3, <2>3, <3>2 DEF SnapIndex, SnapRead, JoinPC
  <2>4. CASE JoinAck(p)
    BY <1>4, <2>4 DEF JoinAck
  <2> QED
    BY <1>6, <2>1, <2>2, <2>3, <2>4 DEF Join
<1>7. CASE Heartbeat(p)
  <2>1. CASE BeatRead(p)
    <3>1. PICK c, next : /\ c \in Conns /\ Start(p, "beatTx", next) /\ Live(c)
                                   /\ next.conn = c /\ next.room = hash[c].room /\ next.user = hash[c].user
      BY <2>1 DEF BeatRead
    <3> QED
      BY <1>5, <2>1, <3>1 DEF BeatPC
  <2>2. CASE BeatWrite(p) \/ BeatMeta(p)
    BY <1>2, <1>4, <2>2 DEF BeatWrite, BeatMeta, AfterBeat, BeatPC
  <2>3. CASE BeatPublish(p)
    BY <1>4, <2>3 DEF BeatPublish
  <2> QED
    BY <1>7, <2>1, <2>2, <2>3 DEF Heartbeat
<1>8. CASE ScriptHeartbeat(p)
  <2>1. CASE ScriptRead(p)
    <3>1. PICK c, next : /\ c \in Conns /\ Start(p, "beatScript", next) /\ hash[c].room # None
                                   /\ next.conn = c /\ next.room = hash[c].room
      BY <2>1 DEF ScriptRead
    <3> QED
      BY <1>5, <2>1, <3>1
  <2>2. CASE ScriptRun(p)
    BY <1>4, <2>2 DEF ScriptRun
  <2>3. CASE ScriptReload(p)
    <3>1. job[p] \in ScriptJob
      BY <2>3, JobAt DEF ScriptReload, ScriptPC, TypeOK
    <3>2. CASE hash[job[p].conn].room = None
      BY <1>4, <2>3, <3>2 DEF ScriptReload
    <3>3. CASE hash[job[p].conn].room # None
      <4> DEFINE next == [job[p] EXCEPT !.room = hash[job[p].conn].room, !.at = now]
      <4>1. next.conn = job[p].conn /\ next.room = hash[job[p].conn].room /\ job[p].conn \in Conns
        BY <3>1 DEF ScriptJob
      <4>2. /\ job' = [job EXCEPT ![p] = next]
            /\ pc' = pc /\ pc[p] = "beatScript" /\ UNCHANGED reaper
        BY <2>3, <3>3 DEF ScriptReload
      <4> HIDE DEF next
      <4> QED
        BY <1>3, <2>3, <3>3, <4>1, <4>2
    <3> QED
      BY <3>2, <3>3
  <2> QED
    BY <1>8, <2>1, <2>2, <2>3 DEF ScriptHeartbeat
<1>9. CASE Leave(p)
  <2>1. CASE LeaveRead(p)
    <3>1. PICK c, next : /\ c \in Conns /\ Start(p, "leaveTx", next) /\ Live(c)
                                   /\ next.conn = c /\ next.room = hash[c].room /\ next.user = hash[c].user
      BY <2>1 DEF LeaveRead
    <3> QED
      BY <1>5, <2>1, <3>1 DEF LeavePC
  <2>2. CASE LeaveWrite(p) \/ LeaveDropMember(p) \/ LeaveDropRoom(p)
    BY <1>2, <2>2 DEF LeaveWrite, LeaveDropMember, LeaveDropRoom, AfterDrop, LeavePC
  <2>3. CASE LeaveCountUser(p) \/ LeaveCountRoom(p)
    <3>1. job[p] \in LeaveJob
      BY <2>3, JobAt DEF LeaveCountUser, LeaveCountRoom, LeavePC, TypeOK
    <3>2. PICK next : /\ job' = [job EXCEPT ![p] = next]
                      /\ next.conn = job[p].conn /\ next.room = job[p].room /\ next.user = job[p].user
      BY <2>3, <3>1 DEF LeaveCountUser, LeaveCountRoom, LeaveJob
    <3>3. PICK at \in LeavePC : Goto(p, at)
      BY <2>3 DEF LeaveCountUser, LeaveCountRoom, AfterDrop, LeavePC
    <3> QED
      BY <1>2, <1>3, <2>3, <3>2, <3>3 DEF LeaveCountUser, LeaveCountRoom, LeavePC
  <2>4. CASE LeavePublish(p)
    BY <1>4, <2>4 DEF LeavePublish
  <2> QED
    BY <1>9, <2>1, <2>2, <2>3, <2>4 DEF Leave
<1> QED
  BY <1>6, <1>7, <1>8, <1>9

\* The commands that write the indexes of a room.
WritesIndex ==
  \/ \E p \in Procs : JoinWrite(p) \/ BeatWrite(p) \/ BeatMeta(p) \/ ScriptRun(p) \/ LeaveWrite(p)
  \/ \E w \in Workers : ReapStrip(w) \/ ReapPurge(w)

LEMMA IndexFrame ==
  ASSUME [Next]_vars, ~WritesIndex
  PROVE  UNCHANGED <<conns, lastSeen, connMeta, crossed>>
<1> USE DEF WritesIndex
<1>1. ASSUME NEW p \in Procs, Join(p) \/ Heartbeat(p) \/ ScriptHeartbeat(p) \/ Leave(p)
      PROVE  UNCHANGED <<conns, lastSeen, connMeta, crossed>>
  <2>1. CASE Join(p)
    BY <2>1 DEF Join, JoinRead, Start, JoinPublish, SnapIndex, SnapRead, JoinAck, storeVars
  <2>2. CASE Heartbeat(p)
    BY <2>2 DEF Heartbeat, BeatRead, Start, BeatPublish, storeVars
  <2>3. CASE ScriptHeartbeat(p)
    BY <2>3 DEF ScriptHeartbeat, ScriptRead, Start, ScriptReload, storeVars
  <2>4. CASE Leave(p)
    BY <2>4 DEF Leave, LeaveRead, Start, LeaveCountUser, LeaveCountRoom, LeaveDropMember, DropMember,
       LeaveDropRoom, DropRoom, LeavePublish, storeVars
  <2> QED
    BY <1>1, <2>1, <2>2, <2>3, <2>4
<1>2. ASSUME NEW w \in Workers, Reap(w) \/ CrashPass(w)
      PROVE  UNCHANGED <<conns, lastSeen, connMeta, crossed>>
  BY <1>2 DEF Reap, CrashPass, ReapStart, ReapRange, ReapExists, ReapMeta, ReapCountUser,
     ReapDropMember, DropMember, ReapPublish, ReapCountRoom, ReapDropRoom, DropRoom, storeVars
<1>3. ASSUME Clock \/ (\E p \in Procs : CrashRequest(p)) \/ UNCHANGED vars
      PROVE  UNCHANGED <<conns, lastSeen, connMeta, crossed>>
  BY <1>3 DEF Clock, Tick, indexVars, CrashRequest, vars, storeVars
<1> QED
  BY <1>1, <1>2, <1>3 DEF Next

LEMMA KnownStep ==
  ASSUME OneRoom, TypeOK, Known, [Next]_vars
  PROVE  Known'
<1> USE DEF Known
<1>0. /\ hash \in [Conns -> Hash] /\ DOMAIN job = Procs
      /\ lastSeen \in [Rooms -> [Conns -> Nat]] /\ connMeta \in [Rooms -> [Conns -> Meta]]
  BY DEF TypeOK, StoreTypeOK, RequestTypeOK
<1>1. KnownHash'
  <2>1. ASSUME NEW p \in Procs, JoinWrite(p)
        PROVE  KnownHash'
    <3>1. job[p] \in JoinJob /\ pc[p] \in JoinPC
      BY <2>1, JobAt DEF TypeOK, JoinWrite, JoinPC
    <3>2. LogsIn(job[p].conn, job[p].room, job[p].user)
      BY <3>1 DEF KnownJobs
    <3>3. job[p].room # None /\ job[p].user # None
      BY <3>1, StoreAssumption DEF JoinJob
    <3>4. /\ hash'[job[p].conn].room = job[p].room /\ hash'[job[p].conn].user = job[p].user
          /\ \A c \in Conns : c # job[p].conn => hash'[c] = hash[c]
      BY <1>0, <2>1, <3>1 DEF JoinWrite, JoinTx, JoinJob
    <3> QED
      BY <3>2, <3>3, <3>4 DEF KnownHash
  <2>2. CASE ~\E p \in Procs : JoinWrite(p)
    BY <2>2, OwnerStep DEF KnownHash, KeepsOwner, NoHash
  <2> QED
    BY <2>1, <2>2
<1>2. KnownJobs'
  <2>1. ASSUME NEW p \in Procs, Join(p) \/ Heartbeat(p) \/ ScriptHeartbeat(p) \/ Leave(p),
               NEW q \in Procs
        PROVE  /\ pc'[q] \in JoinPC \union BeatPC \union LeavePC
                    => LogsIn(job'[q].conn, job'[q].room, job'[q].user)
               /\ pc'[q] \in ScriptPC => LogsInto(job'[q].conn, job'[q].room)
    <3>1. CASE q # p
      BY <2>1, <3>1, RequestMoves DEF KnownJobs
    <3>2. CASE q = p
      <4>1. \A c \in Conns : hash[c].room # None => LogsIn(c, hash[c].room, hash[c].user)
                                                    /\ LogsInto(c, hash[c].room)
        BY DEF KnownHash, LogsIn, LogsInto
      <4> QED
        BY <2>1, <3>2, <4>1, RequestMoves DEF KnownJobs, JoinPC, BeatPC, ScriptPC, LeavePC, Live
    <3> QED
      BY <3>1, <3>2
  <2>2. ASSUME NEW p \in Procs, CrashRequest(p)
        PROVE  KnownJobs'
    <3>1. /\ pc'[p] = "idle"
          /\ \A q \in Procs : q # p => pc'[q] = pc[q] /\ job'[q] = job[q]
      BY <1>0, <2>2 DEF CrashRequest, Finish, TypeOK, RequestTypeOK
    <3> QED
      BY <3>1 DEF KnownJobs, JoinPC, BeatPC, ScriptPC, LeavePC
  <2>3. ASSUME UNCHANGED <<pc, job>>
        PROVE  KnownJobs'
    BY <2>3 DEF KnownJobs
  <2>4. ASSUME NEW w \in Workers, Reap(w) \/ CrashPass(w)
        PROVE  UNCHANGED <<pc, job>>
    BY <2>4 DEF Reap, CrashPass, ReapStart, ReapRange, ReapExists, ReapMeta, ReapPurge, ReapStrip,
       ReapCountUser, ReapDropMember, ReapPublish, ReapCountRoom, ReapDropRoom
  <2> QED
    BY <2>1, <2>2, <2>3, <2>4 DEF Next, Clock, vars, KnownJobs
<1>3. KnownIndex'
  <2>1. ASSUME UNCHANGED <<lastSeen, connMeta>>
        PROVE  KnownIndex'
    BY <2>1 DEF KnownIndex
  <2>2. ASSUME NEW c \in Conns, NEW r \in Rooms,
               \A q \in Rooms, d \in Conns :
                 (q # r \/ d # c) => lastSeen'[q][d] = lastSeen[q][d] /\ connMeta'[q][d] = connMeta[q][d],
               lastSeen'[r][c] \in {0, lastSeen[r][c]} \/ LogsInto(c, r),
               connMeta'[r][c].user \in {None, connMeta[r][c].user} \/ LogsIn(c, r, connMeta'[r][c].user)
        PROVE  KnownIndex'
    BY <2>2 DEF KnownIndex
  <2>3. ASSUME NEW p \in Procs, JoinWrite(p)
        PROVE  KnownIndex'
    <3> DEFINE meta == [user |-> job[p].user, epoch |-> job[p].epoch]
    <3>1. job[p] \in JoinJob /\ LogsIn(job[p].conn, job[p].room, job[p].user)
      BY <2>3, JobAt DEF TypeOK, JoinWrite, JoinPC, KnownJobs
    <3>2. /\ job[p].conn \in Conns /\ job[p].room \in Rooms
          /\ lastSeen' = [lastSeen EXCEPT ![job[p].room][job[p].conn] = job[p].at]
          /\ connMeta' = [connMeta EXCEPT ![job[p].room][job[p].conn] = meta]
      BY <2>3, <3>1 DEF JoinWrite, JoinTx, JoinJob
    <3>3. LogsInto(job[p].conn, job[p].room)
      BY <3>1 DEF LogsIn, LogsInto
    <3> QED
      BY <1>0, <2>2, <3>1, <3>2, <3>3
  <2>4. ASSUME NEW p \in Procs, BeatWrite(p) \/ BeatMeta(p)
        PROVE  KnownIndex'
    <3> DEFINE meta == [user |-> job[p].user, epoch |-> job[p].epoch]
    <3>1. job[p] \in BeatJob /\ LogsIn(job[p].conn, job[p].room, job[p].user)
      BY <2>4, JobAt DEF TypeOK, BeatWrite, BeatMeta, BeatPC, KnownJobs
    <3>2. /\ job[p].conn \in Conns /\ job[p].room \in Rooms
          /\ lastSeen' = [lastSeen EXCEPT ![job[p].room][job[p].conn] = job[p].at] \/ UNCHANGED lastSeen
          /\ connMeta' = [connMeta EXCEPT ![job[p].room][job[p].conn] = meta] \/ UNCHANGED connMeta
      BY <2>4, <3>1 DEF BeatWrite, BeatMeta, BeatTx, PutMeta, BeatJob
    <3>3. LogsInto(job[p].conn, job[p].room)
      BY <3>1 DEF LogsIn, LogsInto
    <3>4. CASE BeatWrite(p)
      BY <1>0, <2>2, <3>1, <3>2, <3>3, <3>4 DEF BeatWrite, BeatTx
    <3>5. CASE BeatMeta(p)
      BY <1>0, <2>2, <3>1, <3>2, <3>3, <3>5 DEF BeatMeta, PutMeta
    <3> QED
      BY <2>4, <3>4, <3>5
  <2>5. ASSUME NEW p \in Procs, ScriptRun(p)
        PROVE  KnownIndex'
    <3> DEFINE c == job[p].conn
               r == job[p].room
    <3>1. job[p] \in ScriptJob /\ LogsInto(c, r)
      BY <2>5, JobAt DEF TypeOK, ScriptRun, ScriptPC, KnownJobs
    <3>2. CASE UNCHANGED storeVars
      BY <2>1, <3>2 DEF storeVars
    <3>3. CASE ~UNCHANGED storeVars
      <4>1. /\ Live(c)
            /\ \E e, s : BeatScript(c, r, e, s, job[p].at)
        BY <2>5, <3>3 DEF ScriptRun
      <4>2. PICK e : /\ lastSeen' = [lastSeen EXCEPT ![r][c] = job[p].at]
                     /\ \/ connMeta' = [connMeta EXCEPT ![r][c] = [user |-> hash[c].user, epoch |-> e]]
                        \/ UNCHANGED connMeta
        BY <4>1 DEF BeatScript
      <4>3. LogsIn(c, r, hash[c].user)
        <5>1. LogsIn(c, hash[c].room, hash[c].user)
          BY <3>1, <4>1 DEF KnownHash, Live, ScriptJob
        <5> QED
          BY <3>1, <5>1 DEF OneRoom, LogsIn, LogsInto
      <4>4. c \in Conns /\ r \in Rooms
        BY <3>1 DEF ScriptJob
      <4>5. connMeta'[r][c].user \in {hash[c].user, connMeta[r][c].user}
        BY <1>0, <4>2, <4>4
      <4>6. \A q \in Rooms, d \in Conns : (q # r \/ d # c) => connMeta'[q][d] = connMeta[q][d]
        BY <1>0, <4>2, <4>4
      <4>7. \A q \in Rooms, d \in Conns : (q # r \/ d # c) => lastSeen'[q][d] = lastSeen[q][d]
        BY <1>0, <4>2, <4>4
      <4> HIDE DEF c, r
      <4> QED
        BY <2>2, <3>1, <4>3, <4>4, <4>5, <4>6, <4>7
    <3> QED
      BY <3>2, <3>3
  <2>6. ASSUME NEW c \in Conns, NEW r \in Rooms, Unindex(c, r)
        PROVE  KnownIndex'
    BY <1>0, <2>2, <2>6 DEF Unindex, NoMeta
  <2>7. ASSUME NEW p \in Procs, LeaveWrite(p)
        PROVE  KnownIndex'
    BY <2>6, <2>7, JobAt DEF TypeOK, LeaveWrite, LeaveTx, LeavePC, LeaveJob
  <2>8. ASSUME NEW w \in Workers, ReapStrip(w) \/ ReapPurge(w)
        PROVE  KnownIndex'
    BY <2>6, <2>8, PassAt DEF ReapStrip, StripTx, ReapPurge, PurgeTx, AnonPC, NamedPC
  <2>9. CASE ~WritesIndex
    BY <2>1, <2>9, IndexFrame
  <2> QED
    BY <2>3, <2>4, <2>5, <2>7, <2>8, <2>9 DEF WritesIndex
<1>4. KnownPass'
  <2>1. ASSUME NEW w \in Workers, Reap(w), NEW v \in Workers
        PROVE  IF reaper'[v].pc \in NamedPC
               THEN LogsIn(reaper'[v].conn, RoomOf(v), reaper'[v].user)
               ELSE reaper'[v].user = None
    <3>1. CASE v # w
      BY <2>1, <3>1, PassMoves DEF KnownPass
    <3>2. CASE v = w /\ (ReapStrip(w) \/ ReapCountUser(w) \/ ReapDropMember(w))
      <4>1. reaper[w].pc \in NamedPC
        BY <3>2 DEF ReapStrip, ReapCountUser, ReapDropMember, NamedPC
      <4>2. LogsIn(reaper[w].conn, RoomOf(w), reaper[w].user)
        BY <4>1 DEF KnownPass
      <4> QED
        BY <2>1, <3>2, <4>2, PassMoves DEF NamedPC
    <3>3. CASE v = w /\ ReapMeta(w)
      <4>1. reaper[w].conn \in Conns /\ RoomOf(w) \in Rooms
        BY <3>3, PassAt DEF ReapMeta, AnonPC
      <4>2. connMeta[RoomOf(w)][reaper[w].conn].user # None =>
              LogsIn(reaper[w].conn, RoomOf(w), connMeta[RoomOf(w)][reaper[w].conn].user)
        BY <4>1 DEF KnownIndex
      <4> QED
        BY <2>1, <3>3, <4>2, PassMoves DEF NamedPC
    <3>4. CASE v = w /\ ~ReapMeta(w) /\ ~ReapStrip(w) /\ ~ReapCountUser(w) /\ ~ReapDropMember(w)
      BY <2>1, <3>4, PassMoves DEF Reap, KnownPass, SeekPC, NamedPC
    <3> QED
      BY <3>1, <3>2, <3>3, <3>4
  <2>2. ASSUME NEW w \in Workers, CrashPass(w)
        PROVE  KnownPass'
    <3>1. reaper'[w] = NoPass /\ \A v \in Workers : v # w => reaper'[v] = reaper[v]
      BY <2>2 DEF CrashPass, TypeOK
    <3> QED
      BY <3>1 DEF KnownPass, NoPass, NamedPC
  <2>3. ASSUME UNCHANGED reaper
        PROVE  KnownPass'
    BY <2>3 DEF KnownPass
  <2> QED
    BY <2>1, <2>2, <2>3, RequestMoves DEF Next, KnownPass, CrashRequest, Clock, vars
<1> QED
  BY <1>1, <1>2, <1>3, <1>4

-----------------------------------------------------------------------------
(* No index outlives the others *)

ScriptOnly == Heartbeats \subseteq {"script"}

LEMMA NoBeatsStep ==
  ASSUME ScriptOnly, TypeOK, NoBeats, [Next]_vars
  PROVE  NoBeats'
<1>1. ASSUME NEW p \in Procs, Join(p) \/ Heartbeat(p) \/ ScriptHeartbeat(p) \/ Leave(p), NEW q \in Procs
      PROVE  pc'[q] \notin BeatPC
  <2>1. ~BeatRead(p)
    BY DEF ScriptOnly, BeatRead
  <2>2. ASSUME LeaveRead(p)
        PROVE  pc'[p] = "leaveTx"
    BY <2>2 DEF LeaveRead, Start, TypeOK, RequestTypeOK
  <2> QED
    BY <1>1, <2>1, <2>2, RequestMoves DEF NoBeats, BeatPC, JoinPC, LeavePC
<1>2. ASSUME NEW p \in Procs, CrashRequest(p)
      PROVE  NoBeats'
  BY <1>2 DEF CrashRequest, Finish, TypeOK, RequestTypeOK, NoBeats, BeatPC
<1>3. ASSUME NEW w \in Workers, Reap(w) \/ CrashPass(w)
      PROVE  UNCHANGED pc
  BY <1>3 DEF Reap, CrashPass, ReapStart, ReapRange, ReapExists, ReapMeta, ReapPurge, ReapStrip,
     ReapCountUser, ReapDropMember, ReapPublish, ReapCountRoom, ReapDropRoom
<1> QED
  BY <1>1, <1>2, <1>3 DEF Next, Clock, vars, NoBeats

LEMMA NoOrphanStep ==
  ASSUME OneRoom, TypeOK, Known, NoBeats, SessionInv, NoOrphanIndex, [Next]_vars
  PROVE  NoOrphanIndex'
<1>0. /\ conns \in [Rooms -> SUBSET Conns]
      /\ lastSeen \in [Rooms -> [Conns -> Nat]] /\ connMeta \in [Rooms -> [Conns -> Meta]]
  BY DEF TypeOK, StoreTypeOK
<1>1. ASSUME NEW p \in Procs, JoinWrite(p)
      PROVE  NoOrphanIndex'
  <2> DEFINE c == job[p].conn
             r == job[p].room
  <2>1. job[p] \in JoinJob /\ LogsInto(c, r)
    BY <1>1, JobAt DEF TypeOK, JoinWrite, JoinPC, Known, KnownJobs, LogsIn, LogsInto
  <2>2. c \in Conns /\ r \in Rooms
    BY <2>1 DEF JoinJob
  <2>3. /\ conns' = [conns EXCEPT ![r] = @ \union {c}]
        /\ lastSeen' = [lastSeen EXCEPT ![r][c] = job[p].at]
        /\ connMeta' = [connMeta EXCEPT ![r][c] = [user |-> job[p].user, epoch |-> job[p].epoch]]
        /\ \A d \in Conns : d # c /\ d \in crossed => d \in crossed'
    BY <1>1 DEF JoinWrite, JoinTx
  <2>4. ASSUME NEW q \in Rooms, q # r
        PROVE  ~(lastSeen[q][c] > 0) /\ connMeta[q][c].user = None
    BY <2>1, <2>2, <2>4 DEF Known, KnownIndex, OneRoom, LogsIn, LogsInto
  <2> HIDE DEF c, r
  <2>5. ASSUME NEW q \in Rooms, NEW d \in Conns \ crossed', lastSeen'[q][d] > 0 \/ connMeta'[q][d].user # None
        PROVE  d \in conns'[q]
    <3>1. CASE d = c /\ q = r
      BY <1>0, <2>2, <2>3, <3>1
    <3>2. CASE d # c \/ q # r
      <4>1. lastSeen'[q][d] = lastSeen[q][d] /\ connMeta'[q][d] = connMeta[q][d] /\ conns[q] \subseteq conns'[q]
        BY <1>0, <2>2, <2>3, <3>2
      <4> QED
        BY <2>3, <2>4, <2>5, <3>2, <4>1 DEF NoOrphanIndex
    <3> QED
      BY <3>1, <3>2
  <2> QED
    BY <2>5 DEF NoOrphanIndex
<1>2. ASSUME NEW p \in Procs, ScriptRun(p)
      PROVE  NoOrphanIndex'
  <2> DEFINE c == job[p].conn
             r == job[p].room
  <2>1. job[p] \in ScriptJob /\ LogsInto(c, r)
    BY <1>2, JobAt DEF TypeOK, ScriptRun, ScriptPC, Known, KnownJobs
  <2>2. c \in Conns /\ r \in Rooms
    BY <2>1 DEF ScriptJob
  <2>3. UNCHANGED <<conns, crossed>>
    BY <1>2 DEF ScriptRun, storeVars, BeatScript
  <2>4. CASE UNCHANGED storeVars
    BY <2>3, <2>4 DEF storeVars, NoOrphanIndex
  <2>5. CASE ~UNCHANGED storeVars
    <3>1. /\ Live(c)
          /\ \E e, s : BeatScript(c, r, e, s, job[p].at)
      BY <1>2, <2>5 DEF ScriptRun
    <3>2. r = hash[c].room
      BY <2>1, <2>2, <3>1 DEF Known, KnownHash, Live, LogsIn, LogsInto, OneRoom
    <3>3. c \in conns[r] \/ c \in crossed
      BY <2>2, <3>1, <3>2 DEF SessionInv, LiveSessionIsIndexed
    <3>4. PICK e : /\ lastSeen' = [lastSeen EXCEPT ![r][c] = job[p].at]
                   /\ \/ connMeta' = [connMeta EXCEPT ![r][c] = [user |-> hash[c].user, epoch |-> e]]
                      \/ UNCHANGED connMeta
      BY <3>1 DEF BeatScript
    <3>5. \A q \in Rooms, d \in Conns : (q # r \/ d # c) => connMeta'[q][d] = connMeta[q][d]
      BY <1>0, <2>2, <3>4
    <3>6. \A q \in Rooms, d \in Conns : (q # r \/ d # c) => lastSeen'[q][d] = lastSeen[q][d]
      BY <1>0, <2>2, <3>4
    <3> HIDE DEF c, r
    <3> QED
      BY <2>3, <3>3, <3>5, <3>6 DEF NoOrphanIndex
  <2> QED
    BY <2>4, <2>5
<1>3. ASSUME NEW c \in Conns, NEW r \in Rooms, Unindex(c, r), crossed \subseteq crossed'
      PROVE  NoOrphanIndex'
  <2>1. /\ lastSeen'[r][c] = 0 /\ connMeta'[r][c].user = None
        /\ \A q \in Rooms, d \in Conns : (q # r \/ d # c) =>
              /\ lastSeen'[q][d] = lastSeen[q][d] /\ connMeta'[q][d] = connMeta[q][d]
              /\ d \in conns[q] => d \in conns'[q]
    BY <1>0, <1>3 DEF Unindex, NoMeta
  <2> QED
    BY <1>3, <2>1 DEF NoOrphanIndex
<1>4. ASSUME NEW p \in Procs, LeaveWrite(p)
      PROVE  NoOrphanIndex'
  BY <1>3, <1>4, JobAt DEF TypeOK, LeaveWrite, LeaveTx, LeavePC, LeaveJob
<1>5. ASSUME NEW w \in Workers, ReapStrip(w) \/ ReapPurge(w)
      PROVE  NoOrphanIndex'
  BY <1>3, <1>5, PassAt DEF ReapStrip, StripTx, ReapPurge, PurgeTx, AnonPC, NamedPC
<1>6. ASSUME NEW p \in Procs
      PROVE  ~BeatWrite(p) /\ ~BeatMeta(p)
  BY DEF NoBeats, BeatWrite, BeatMeta, BeatPC
<1>7. CASE ~WritesIndex
  BY <1>7, IndexFrame DEF NoOrphanIndex
<1> QED
  BY <1>1, <1>2, <1>4, <1>5, <1>6, <1>7 DEF WritesIndex

LEMMA KnownInit ==
  ASSUME Init
  PROVE  Known /\ NoBeats
BY DEF Init, StoreInit, Known, KnownHash, KnownJobs, KnownIndex, KnownPass, NoBeats, NoHash, NoMeta, NoPass,
   JoinPC, BeatPC, ScriptPC, LeavePC, NamedPC, Workers

\* What the keys, the requests and the passes hold of a connection in a room comes from a
\* login of that connection, when a connection keeps to one room.
THEOREM OnlyLogins ==
  ASSUME OneRoom
  PROVE  Spec => []Known
BY KnownInit, KnownStep, TypeCorrect, PTL DEF Spec

\* With the script as the only heartbeat path and one room per connection, a connection
\* has a score or a conn_meta entry in a room only while it is in the room's conns.
THEOREM NoOrphans ==
  ASSUME ScriptOnly, OneRoom
  PROVE  Spec => []NoOrphanIndex
<1>1. Init => NoOrphanIndex /\ SessionInv
  BY DEF Init, StoreInit, SessionInv, LiveHasDeadline, WorkedOnIsDead, LiveSessionIsIndexed, Live,
     NoHash, NoMeta, NoPass, Workers, NoOrphanIndex
<1> QED
  BY <1>1, TypeCorrect, OnlyLogins, KnownInit, NoBeatsStep, SessionStep, NoOrphanStep, PTL DEF Spec

-----------------------------------------------------------------------------
(* A member has a connection, or somebody is about to drop it *)

LEMMA PurgeCrossedStep ==
  ASSUME TypeOK, NoBeats, SessionInv, PurgeCrossed, [Next]_vars
  PROVE  PurgeCrossed'
<1>0. connMeta \in [Rooms -> [Conns -> Meta]]
  BY DEF TypeOK, StoreTypeOK
<1>1. \A w \in Workers : reaper[w].pc = "purge" => reaper[w].conn \in Conns /\ RoomOf(w) \in Rooms
  BY PassAt DEF AnonPC
<1>2. ASSUME NEW p \in Procs, JoinWrite(p)
      PROVE  PurgeCrossed'
  <2>1. job[p] \in JoinJob
    BY <1>2, JobAt DEF TypeOK, JoinWrite, JoinPC
  <2>2. /\ UNCHANGED reaper
        /\ crossed' = IF WorkedOn(job[p].conn) THEN crossed \union {job[p].conn}
                      ELSE crossed \ {job[p].conn}
        /\ connMeta' = [connMeta EXCEPT ![job[p].room][job[p].conn] =
                                          [user |-> job[p].user, epoch |-> job[p].epoch]]
        /\ job[p].conn \in Conns /\ job[p].room \in Rooms
    BY <1>2, <2>1 DEF JoinWrite, JoinTx, JoinJob
  <2>3. ASSUME NEW w \in Workers, reaper[w].pc = "purge", connMeta'[RoomOf(w)][reaper[w].conn].user # None
        PROVE  reaper[w].conn \in crossed'
    <3>1. CASE reaper[w].conn = job[p].conn
      BY <2>2, <3>1 DEF WorkedOn
    <3>2. CASE reaper[w].conn # job[p].conn
      BY <1>0, <1>1, <2>2, <2>3, <3>2 DEF PurgeCrossed
    <3> QED
      BY <3>1, <3>2
  <2> QED
    BY <2>2, <2>3 DEF PurgeCrossed
<1>3. ASSUME NEW p \in Procs, ScriptRun(p)
      PROVE  PurgeCrossed'
  <2>1. job[p] \in ScriptJob
    BY <1>3, JobAt DEF TypeOK, ScriptRun, ScriptPC
  <2>2. UNCHANGED <<reaper, crossed>>
    BY <1>3 DEF ScriptRun
  <2>3. CASE UNCHANGED storeVars
    BY <2>2, <2>3 DEF PurgeCrossed, storeVars
  <2>4. CASE ~UNCHANGED storeVars
    <3>1. Live(job[p].conn) /\ \E e, s : BeatScript(job[p].conn, job[p].room, e, s, job[p].at)
      BY <1>3, <2>4 DEF ScriptRun
    <3>2. \A q \in Rooms, d \in Conns : d # job[p].conn => connMeta'[q][d] = connMeta[q][d]
      BY <1>0, <2>1, <3>1 DEF BeatScript, ScriptJob
    <3>3. \A w \in Workers : reaper[w].conn = job[p].conn => job[p].conn \in crossed
      BY <2>1, <3>1 DEF SessionInv, WorkedOnIsDead, ScriptJob
    <3> QED
      BY <1>1, <2>2, <3>2, <3>3 DEF PurgeCrossed
  <2> QED
    BY <2>3, <2>4
<1>4. ASSUME NEW c \in Conns, NEW r \in Rooms, Unindex(c, r), crossed \subseteq crossed',
             \A w \in Workers : reaper'[w].pc = "purge" =>
                reaper[w].pc = "purge" /\ reaper'[w].conn = reaper[w].conn
      PROVE  PurgeCrossed'
  <2>1. \A q \in Rooms, d \in Conns :
           connMeta'[q][d] = connMeta[q][d] \/ connMeta'[q][d].user = None
    BY <1>0, <1>4 DEF Unindex, NoMeta
  <2> QED
    BY <1>1, <1>4, <2>1 DEF PurgeCrossed
<1>5. ASSUME NEW p \in Procs, LeaveWrite(p)
      PROVE  PurgeCrossed'
  BY <1>4, <1>5, JobAt DEF TypeOK, LeaveWrite, LeaveTx, LeavePC, LeaveJob
<1>6. ASSUME NEW w \in Workers, ReapStrip(w) \/ ReapPurge(w)
      PROVE  PurgeCrossed'
  <2>1. \A v \in Workers : reaper'[v].pc = "purge" =>
                reaper[v].pc = "purge" /\ reaper'[v].conn = reaper[v].conn
    BY <1>6, PassMoves DEF Reap, SeekPC
  <2> QED
    BY <1>4, <1>6, <2>1, PassAt DEF ReapStrip, StripTx, ReapPurge, PurgeTx, AnonPC, NamedPC
<1>7. CASE ~WritesIndex
  <2>1. UNCHANGED <<connMeta, crossed>>
    BY <1>7, IndexFrame
  <2>2. ASSUME NEW w \in Workers, Reap(w), NEW v \in Workers, reaper'[v].pc = "purge"
        PROVE  \/ reaper[v].pc = "purge" /\ reaper'[v].conn = reaper[v].conn
               \/ connMeta[RoomOf(v)][reaper'[v].conn].user = None
    BY <2>2, PassMoves DEF Reap, SeekPC
  <2>3. ASSUME NEW w \in Workers, CrashPass(w)
        PROVE  PurgeCrossed'
    BY <2>1, <2>3 DEF CrashPass, PurgeCrossed, TypeOK, NoPass
  <2>4. ASSUME UNCHANGED reaper
        PROVE  PurgeCrossed'
    BY <2>1, <2>4 DEF PurgeCrossed
  <2> QED
    BY <2>1, <2>2, <2>3, <2>4, RequestMoves DEF Next, PurgeCrossed, CrashRequest, Clock, vars
<1>8. ASSUME NEW p \in Procs
      PROVE  ~BeatWrite(p) /\ ~BeatMeta(p)
  BY DEF NoBeats, BeatWrite, BeatMeta, BeatPC
<1> QED
  BY <1>2, <1>3, <1>5, <1>6, <1>7, <1>8 DEF WritesIndex

\* Who has yet to decide on a member, part by part.
Dropping(p) == pc[p] \in {"countUser", "dropMember"} \/ (pc[p] = "countRoom" /\ job[p].alone)
Counting(w) == reaper[w].pc \in {"countUser", "dropMember"}

LEMMA MembersStep ==
  ASSUME ~Crashes, OneLogin, TypeOK, Known, NoBeats, SessionInv, PurgeCrossed, MembersJustified, [Next]_vars
  PROVE  MembersJustified'
<1> DEFINE Held(r, u) == \E c \in Conns : connMeta[r][c].user = u
           Excused(r, u) == \E l \in Logins : l.room = r /\ l.user = u /\ l.conn \in crossed
           Fine(r, u) == Held(r, u) \/ Removing(r, u) \/ Excused(r, u)
           Mine(p, r, u) == Dropping(p) /\ job[p].room = r /\ job[p].user = u
           Its(w, r, u) == Counting(w) /\ RoomOf(w) = r /\ reaper[w].user = u
<1>0. /\ connMeta \in [Rooms -> [Conns -> Meta]] /\ members \in [Rooms -> SUBSET Users]
      /\ DOMAIN job = Procs /\ DOMAIN pc = Procs
  BY DEF TypeOK, StoreTypeOK, RequestTypeOK
<1>1. \A r \in Rooms : \A u \in members[r] : Fine(r, u)
  BY DEF MembersJustified
<1>2. \A c, r, q, u, v : LogsIn(c, r, u) /\ LogsIn(c, q, v) => r = q /\ u = v
  BY DEF LogsIn, OneLogin
<1>3. \A r, u : Removing(r, u) <=> (\E p \in Procs : Mine(p, r, u)) \/ (\E w \in Workers : Its(w, r, u))
  BY DEF Removing, Dropping, Counting
<1>4. (\A r, u : Removing(r, u) <=> (\E p \in Procs : Mine(p, r, u)) \/ (\E w \in Workers : Its(w, r, u)))'
  BY DEF Removing, Dropping, Counting
<1>5. ASSUME NEW p \in Procs, Join(p) \/ Heartbeat(p) \/ ScriptHeartbeat(p) \/ Leave(p),
             NEW r, NEW u, Removing(r, u)
      PROVE  Removing(r, u)' \/ Mine(p, r, u)
  BY <1>3, <1>4, <1>5, RequestMoves DEF Dropping, Counting
<1>6. ASSUME NEW w \in Workers, Reap(w), UNCHANGED <<pc, job>>, NEW r, NEW u, Removing(r, u)
      PROVE  Removing(r, u)' \/ Its(w, r, u)
  BY <1>3, <1>4, <1>6, PassMoves DEF Dropping, Counting
<1>7. ASSUME NEW p \in Procs, JoinWrite(p)
      PROVE  MembersJustified'
  <2> DEFINE c == job[p].conn
             q == job[p].room
             v == job[p].user
  <2>1. job[p] \in JoinJob /\ LogsIn(c, q, v)
    BY <1>7, JobAt DEF TypeOK, JoinWrite, JoinPC, Known, KnownJobs
  <2>2. /\ c \in Conns /\ q \in Rooms /\ v \in Users
        /\ connMeta' = [connMeta EXCEPT ![q][c] = [user |-> v, epoch |-> job[p].epoch]]
        /\ members' = [members EXCEPT ![q] = @ \union {v}]
        /\ \A d \in Conns : d # c /\ d \in crossed => d \in crossed'
    BY <1>7, <2>1 DEF JoinWrite, JoinTx, JoinJob
  <2>3. ~Dropping(p) /\ Join(p)
    BY <1>7 DEF Dropping, JoinWrite, Join
  <2> HIDE DEF c, q, v
  <2>4. ASSUME NEW r \in Rooms, NEW u \in members'[r]
        PROVE  Fine(r, u)'
    <3>1. CASE r = q /\ u = v
      <4>1. connMeta'[q][c].user = v
        BY <1>0, <2>2
      <4> QED
        BY <2>2, <3>1, <4>1
    <3>2. CASE r # q \/ u # v
      <4>1. u \in members[r]
        BY <1>0, <2>2, <3>2
      <4>2. CASE Removing(r, u)
        BY <1>5, <2>3, <4>2
      <4>3. ASSUME NEW d \in Conns, connMeta[r][d].user = u
            PROVE  Fine(r, u)'
        <5>1. LogsIn(d, r, u)
          <6>1. u # None
            BY <1>0, <4>1, StoreAssumption
          <6> QED
            BY <4>3, <6>1 DEF Known, KnownIndex
        <5>2. d # c
          BY <1>2, <2>1, <2>2, <3>2, <5>1
        <5>3. connMeta'[r][d].user = u
          BY <1>0, <2>2, <4>3, <5>2
        <5> QED
          BY <5>3
      <4>4. ASSUME NEW l \in Logins, l.room = r, l.user = u, l.conn \in crossed
            PROVE  Fine(r, u)'
        <5>1. LogsIn(l.conn, r, u) /\ l.conn \in Conns
          BY <4>4, PresenceAssumption DEF LogsIn
        <5>2. l.conn # c
          BY <1>2, <2>1, <2>2, <3>2, <5>1
        <5> QED
          BY <2>2, <4>4, <5>1, <5>2
      <4> QED
        BY <1>1, <4>1, <4>2, <4>3, <4>4
    <3> QED
      BY <3>1, <3>2
  <2> QED
    BY <2>4 DEF MembersJustified
<1>8. ASSUME NEW p \in Procs, ScriptRun(p)
      PROVE  MembersJustified'
  <2> DEFINE c == job[p].conn
             q == job[p].room
  <2>1. job[p] \in ScriptJob /\ LogsInto(c, q)
    BY <1>8, JobAt DEF TypeOK, ScriptRun, ScriptPC, Known, KnownJobs
  <2>2. c \in Conns /\ q \in Rooms /\ UNCHANGED <<members, crossed>>
    BY <1>8, <2>1 DEF ScriptJob, ScriptRun, BeatScript, storeVars
  <2>3. ASSUME NEW r \in Rooms, NEW d \in Conns, connMeta[r][d].user # None
        PROVE  connMeta'[r][d].user = connMeta[r][d].user
    <3>1. CASE UNCHANGED storeVars
      BY <3>1 DEF storeVars
    <3>2. CASE ~UNCHANGED storeVars
      <4>1. Live(c) /\ \E e, s : BeatScript(c, q, e, s, job[p].at)
        BY <1>8, <3>2 DEF ScriptRun
      <4>2. PICK e : \/ connMeta' = [connMeta EXCEPT ![q][c] = [user |-> hash[c].user, epoch |-> e]]
                     \/ UNCHANGED connMeta
        BY <4>1 DEF BeatScript
      <4>3. hash[c].user = connMeta[q][c].user \/ connMeta[q][c].user = None
        <5>1. LogsIn(c, hash[c].room, hash[c].user) /\ hash[c].room \in Rooms
          BY <2>2, <4>1 DEF Known, KnownHash, Live, TypeOK, StoreTypeOK, Hash
        <5>2. connMeta[q][c].user # None => LogsIn(c, q, connMeta[q][c].user)
          BY <2>2 DEF Known, KnownIndex
        <5> QED
          BY <1>2, <2>2, <5>1, <5>2
      <4> HIDE DEF c, q
      <4>4. CASE r = q /\ d = c
        BY <1>0, <2>2, <2>3, <4>2, <4>3, <4>4
      <4>5. CASE r # q \/ d # c
        BY <1>0, <2>2, <4>2, <4>5
      <4> QED
        BY <4>4, <4>5
    <3> QED
      BY <3>1, <3>2
  <2>4. ~Dropping(p) /\ ScriptHeartbeat(p)
    BY <1>8 DEF Dropping, ScriptRun, ScriptHeartbeat
  <2>5. ASSUME NEW r \in Rooms, NEW u \in members'[r]
        PROVE  Fine(r, u)'
    <3>1. u # None /\ Fine(r, u)
      BY <1>0, <1>1, <2>2, <2>5, StoreAssumption
    <3>2. Removing(r, u) => Removing(r, u)'
      BY <1>5, <2>4
    <3> QED
      BY <2>2, <2>3, <3>1, <3>2
  <2> QED
    BY <2>5 DEF MembersJustified
\* A removal of connection c of user v from room q, by somebody who then counts.
<1>9. ASSUME NEW c \in Conns, NEW q \in Rooms, Unindex(c, q), crossed \subseteq crossed',
             \A r, u : Removing(r, u) => Removing(r, u)',
             NEW v, connMeta[q][c].user \in {None, v},
             connMeta[q][c].user = None \/ Removing(q, v)' \/ c \in crossed
      PROVE  MembersJustified'
  <2>1. /\ members' = members
        /\ \A r \in Rooms, d \in Conns : (r # q \/ d # c) => connMeta'[r][d] = connMeta[r][d]
    BY <1>0, <1>9 DEF Unindex
  <2>2. ASSUME NEW r \in Rooms, NEW u \in members'[r]
        PROVE  Fine(r, u)'
    <3>1. u # None /\ Fine(r, u)
      BY <1>0, <1>1, <2>1, <2>2, StoreAssumption
    <3>2. CASE r = q /\ connMeta[q][c].user = u
      <4>1. LogsIn(c, q, u)
        BY <3>1, <3>2 DEF Known, KnownIndex
      <4> QED
        BY <1>9, <3>1, <3>2, <4>1 DEF LogsIn
    <3>3. CASE ~(r = q /\ connMeta[q][c].user = u)
      <4>1. Held(r, u) => Held(r, u)'
        BY <2>1, <3>3
      <4> QED
        BY <1>9, <3>1, <4>1
    <3> QED
      BY <3>2, <3>3
  <2> QED
    BY <2>2 DEF MembersJustified
<1>10. ASSUME NEW p \in Procs, LeaveWrite(p)
       PROVE  MembersJustified'
  <2>1. job[p] \in LeaveJob
    BY <1>10, JobAt DEF TypeOK, LeaveWrite, LeavePC
  <2>2. PICK c \in Conns, q \in Rooms, v \in Users : c = job[p].conn /\ q = job[p].room /\ v = job[p].user
    BY <2>1 DEF LeaveJob
  <2>3. LogsIn(c, q, v)
    BY <1>10, <2>2 DEF LeaveWrite, LeavePC, Known, KnownJobs
  <2>4. Unindex(c, q) /\ crossed' = crossed /\ UNCHANGED job /\ pc'[p] = "countUser"
    BY <1>0, <1>10, <2>2 DEF LeaveWrite, LeaveTx, Goto
  <2>5. Removing(q, v)'
    BY <1>4, <2>2, <2>4 DEF Dropping
  <2>6. ~Dropping(p) /\ Leave(p)
    BY <1>10 DEF Dropping, LeaveWrite, Leave
  <2>7. \A r, u : Removing(r, u) => Removing(r, u)'
    BY <1>5, <2>6
  <2>8. connMeta[q][c].user \in {None, v}
    BY <1>2, <2>3 DEF Known, KnownIndex
  <2> QED
    BY <1>9, <2>4, <2>5, <2>7, <2>8
<1>11. ASSUME NEW w \in Workers, ReapStrip(w)
       PROVE  MembersJustified'
  <2>1. PICK c \in Conns, q \in Rooms, v \in Users : c = reaper[w].conn /\ q = RoomOf(w) /\ v = reaper[w].user
    BY <1>11, PassAt DEF ReapStrip, NamedPC
  <2>2. LogsIn(c, q, v)
    BY <1>11, <2>1 DEF ReapStrip, NamedPC, Known, KnownPass
  <2>3. Unindex(c, q) /\ crossed \subseteq crossed' /\ UNCHANGED <<pc, job>>
    BY <1>11, <2>1 DEF ReapStrip, StripTx
  <2>4. reaper'[w].pc = "countUser" /\ reaper'[w].user = v
    <3>1. reaper[w] \in Pass
      BY DEF TypeOK
    <3> QED
      BY <1>11, <2>1, <3>1 DEF ReapStrip, Pause, TypeOK, Pass
  <2>5. Removing(q, v)'
    BY <1>4, <2>1, <2>4 DEF Counting
  <2>6. ~Counting(w) /\ Reap(w)
    BY <1>11 DEF Counting, ReapStrip, Reap
  <2>7. \A r, u : Removing(r, u) => Removing(r, u)'
    BY <1>6, <2>3, <2>6
  <2>8. connMeta[q][c].user \in {None, v}
    BY <1>2, <2>2 DEF Known, KnownIndex
  <2> QED
    BY <1>9, <2>3, <2>5, <2>7, <2>8
<1>12. ASSUME NEW w \in Workers, ReapPurge(w)
       PROVE  MembersJustified'
  <2>1. PICK c \in Conns, q \in Rooms : c = reaper[w].conn /\ q = RoomOf(w)
    BY <1>12, PassAt DEF ReapPurge, AnonPC
  <2>2. PICK v : v = connMeta[q][c].user
    OBVIOUS
  <2>3. Unindex(c, q) /\ UNCHANGED <<pc, job, crossed>>
    BY <1>12, <2>1 DEF ReapPurge, PurgeTx
  <2>4. ~Counting(w) /\ Reap(w)
    BY <1>12 DEF Counting, ReapPurge, Reap
  <2>5. \A r, u : Removing(r, u) => Removing(r, u)'
    BY <1>6, <2>3, <2>4
  <2>6. CASE v = None
    BY <1>9, <2>2, <2>3, <2>5, <2>6
  <2>7. CASE v # None
    <3>1. c \in crossed
      BY <1>12, <2>1, <2>2, <2>7 DEF ReapPurge, PurgeCrossed
    <3> QED
      BY <1>9, <2>2, <2>3, <2>5, <3>1
  <2> QED
    BY <2>6, <2>7
\* Everybody else leaves the indexes alone.
<1>13. ASSUME ~WritesIndex,
              \A r \in Rooms : \A u \in members'[r] :
                u \in members[r] /\ (Removing(r, u) => Fine(r, u)')
       PROVE  MembersJustified'
  <2>1. UNCHANGED <<connMeta, crossed>>
    BY <1>13, IndexFrame
  <2> QED
    BY <1>1, <1>13, <2>1 DEF MembersJustified
<1>14. ASSUME NEW p \in Procs, Join(p) \/ Heartbeat(p) \/ ScriptHeartbeat(p) \/ Leave(p), ~WritesIndex
       PROVE  MembersJustified'
  <2>1. CASE LeaveCountUser(p)
    <3>1. job[p] \in LeaveJob
      BY <2>1, JobAt DEF TypeOK, LeaveCountUser, LeavePC
    <3> DEFINE next == [job[p] EXCEPT !.alone = NoConnOf(job[p].room, job[p].user)]
    <3>2. /\ next.room = job[p].room /\ next.user = job[p].user
          /\ next.alone = NoConnOf(job[p].room, job[p].user)
      BY <3>1 DEF LeaveJob
    <3>3. job' = [job EXCEPT ![p] = next] /\ pc'[p] = "countRoom" /\ UNCHANGED <<members, connMeta>>
      BY <1>0, <2>1 DEF LeaveCountUser, Goto, storeVars
    <3> HIDE DEF next
    <3>4. ASSUME NEW r, NEW u, Mine(p, r, u)
          PROVE  Removing(r, u)' \/ Held(r, u)'
      BY <1>0, <1>4, <3>2, <3>3, <3>4 DEF NoConnOf, Dropping
    <3> QED
      BY <1>5, <1>13, <1>14, <3>3, <3>4
  <2>2. CASE LeaveCountRoom(p)
    <3>1. job[p] \in LeaveJob
      BY <2>2, JobAt DEF TypeOK, LeaveCountRoom, LeavePC
    <3> DEFINE next == [job[p] EXCEPT !.empty = conns[job[p].room] = {}]
    <3>2. next.room = job[p].room /\ next.user = job[p].user /\ next.alone = job[p].alone
      BY <3>1 DEF LeaveJob
    <3>3. /\ job' = [job EXCEPT ![p] = next] /\ UNCHANGED <<members, connMeta>>
          /\ pc[p] = "countRoom" /\ (next.alone => pc'[p] = "dropMember")
      BY <1>0, <2>2 DEF LeaveCountRoom, Goto, storeVars
    <3> HIDE DEF next
    <3>4. ASSUME NEW r, NEW u, Mine(p, r, u)
          PROVE  Removing(r, u)'
      BY <1>0, <1>4, <3>2, <3>3, <3>4 DEF Dropping
    <3> QED
      BY <1>5, <1>13, <1>14, <3>3, <3>4
  <2>3. CASE LeaveDropMember(p)
    <3>1. job[p] \in LeaveJob /\ pc[p] = "dropMember"
      BY <2>3, JobAt DEF TypeOK, LeaveDropMember, LeavePC
    <3>2. members' = [members EXCEPT ![job[p].room] = @ \ {job[p].user}]
      BY <2>3 DEF LeaveDropMember, DropMember
    <3>3. ASSUME NEW r \in Rooms, NEW u \in members'[r]
          PROVE  u \in members[r] /\ ~Mine(p, r, u)
      BY <1>0, <3>1, <3>2, <3>3 DEF LeaveJob
    <3> QED
      BY <1>5, <1>13, <1>14, <3>3
  <2>4. CASE ~LeaveCountUser(p) /\ ~LeaveCountRoom(p) /\ ~LeaveDropMember(p)
    <3>1. UNCHANGED members /\ ~Dropping(p)
      <4>1. ~JoinWrite(p) /\ ~BeatWrite(p) /\ ~BeatMeta(p) /\ ~ScriptRun(p) /\ ~LeaveWrite(p)
        BY <1>14 DEF WritesIndex
      <4>2. CASE Join(p)
        BY <4>1, <4>2 DEF Join, JoinRead, CanStart, JoinPublish, SnapIndex, SnapRead, JoinAck, storeVars, Dropping
      <4>3. CASE Heartbeat(p)
        BY <4>1, <4>3 DEF Heartbeat, BeatRead, CanStart, BeatPublish, storeVars, Dropping
      <4>4. CASE ScriptHeartbeat(p)
        BY <4>1, <4>4 DEF ScriptHeartbeat, ScriptRead, CanStart, ScriptReload, storeVars, Dropping
      <4>5. CASE Leave(p)
        BY <2>4, <4>1, <4>5 DEF Leave, LeaveRead, CanStart, LeaveDropRoom, DropRoom, LeavePublish, storeVars,
           Dropping
      <4> QED
        BY <1>14, <4>2, <4>3, <4>4, <4>5
    <3> QED
      BY <1>5, <1>13, <1>14, <3>1
  <2> QED
    BY <2>1, <2>2, <2>3, <2>4
<1>15. ASSUME NEW w \in Workers, Reap(w), ~WritesIndex
       PROVE  MembersJustified'
  <2>1. UNCHANGED <<pc, job, connMeta>> /\ ~ReapStrip(w) /\ ~ReapPurge(w)
    BY <1>15, IndexFrame DEF WritesIndex, Reap, ReapStart, ReapRange, ReapExists, ReapMeta, ReapCountUser,
       ReapDropMember, ReapPublish, ReapCountRoom, ReapDropRoom
  <2>2. CASE ReapCountUser(w)
    <3>1. UNCHANGED members
      BY <2>2 DEF ReapCountUser, storeVars
    <3>2. reaper[w] \in Pass
      BY DEF TypeOK
    <3>3. /\ reaper'[w].user = reaper[w].user
          /\ reaper'[w].pc = IF NoConnOf(RoomOf(w), reaper[w].user) THEN "dropMember" ELSE "publish"
      BY <2>2, <3>2 DEF ReapCountUser, Pause, TypeOK, Pass
    <3>4. ASSUME NEW r, NEW u, Its(w, r, u)
          PROVE  Removing(r, u)' \/ Held(r, u)'
      BY <1>4, <2>1, <3>3, <3>4 DEF NoConnOf, Counting
    <3> QED
      BY <1>6, <1>13, <1>15, <2>1, <3>1, <3>4
  <2>3. CASE ReapDropMember(w)
    <3>1. members' = [members EXCEPT ![RoomOf(w)] = @ \ {reaper[w].user}]
      BY <2>3 DEF ReapDropMember, DropMember
    <3>2. ASSUME NEW r \in Rooms, NEW u \in members'[r]
          PROVE  u \in members[r] /\ ~Its(w, r, u)
      BY <1>0, <3>1, <3>2
    <3> QED
      BY <1>6, <1>13, <1>15, <2>1, <3>2
  <2>4. CASE ~ReapCountUser(w) /\ ~ReapDropMember(w)
    <3>1. UNCHANGED members /\ ~Counting(w)
      BY <1>15, <2>1, <2>4 DEF Reap, ReapStart, ReapRange, ReapExists, ReapMeta, ReapPublish, ReapCountRoom,
         ReapDropRoom, DropRoom, storeVars, Counting
    <3> QED
      BY <1>6, <1>13, <1>15, <2>1, <3>1
  <2> QED
    BY <2>2, <2>3, <2>4
<1>16. CASE (Clock \/ UNCHANGED vars) /\ ~WritesIndex
  <2>1. UNCHANGED <<members, connMeta, pc, job, reaper>>
    BY <1>16 DEF Clock, Tick, indexVars, vars, storeVars
  <2>2. \A r, u : Removing(r, u) => Removing(r, u)'
    BY <2>1 DEF Removing
  <2> QED
    BY <1>13, <1>16, <2>1, <2>2
<1>17. \A p \in Procs : ~BeatWrite(p) /\ ~BeatMeta(p)
  BY DEF NoBeats, BeatWrite, BeatMeta, BeatPC
<1>18. ~(\E p \in Procs : CrashRequest(p)) /\ ~(\E w \in Workers : CrashPass(w))
  BY DEF CrashRequest, CrashPass
<1> QED
  BY <1>7, <1>8, <1>10, <1>11, <1>12, <1>14, <1>15, <1>16, <1>17, <1>18 DEF Next, WritesIndex

\* With the script as the only heartbeat path, one login per connection and no crash of a
\* server process, a member of a room has a connection in it, or somebody is about to drop
\* the member, or a join of a connection of this user crossed a reaper pass.
THEOREM Members ==
  ASSUME ScriptOnly, OneLogin, ~Crashes
  PROVE  Spec => []MembersJustified
<1>1. Init => MembersJustified /\ SessionInv /\ PurgeCrossed
  BY DEF Init, StoreInit, SessionInv, LiveHasDeadline, WorkedOnIsDead, LiveSessionIsIndexed, Live,
     NoHash, NoMeta, NoPass, Workers, MembersJustified, PurgeCrossed
<1>2. OneRoom
  BY DEF OneLogin, OneRoom
<1> QED
  BY <1>1, <1>2, TypeCorrect, OnlyLogins, KnownInit, NoBeatsStep, SessionStep, PurgeCrossedStep, MembersStep, PTL
     DEF Spec

(***************************************************************************)
(* Part 4: One request at a time.                                          *)
(***************************************************************************)
-----------------------------------------------------------------------------
(* The service implements the session registry *)

OneRequest ==
  \A p, q \in Procs :
    pc[p] # "idle" /\ pc[q] # "idle" /\ job[p].conn = job[q].conn => p = q

\* What a request is about to write is ahead of what the hash holds.
Ahead ==
  \A p \in Procs :
    /\ pc[p] = "joinTx" => job[p].epoch > hash[job[p].conn].epoch
    /\ pc[p] = "beatTx" => /\ job[p].epoch >= hash[job[p].conn].epoch
                           /\ hash[job[p].conn].state \subseteq job[p].state

\* Who writes the hash of a connection: a request on it, or the one that deletes it.
Writes(p) == JoinWrite(p) \/ BeatWrite(p) \/ ScriptRun(p)

LEMMA HashWriters ==
  ASSUME TypeOK, [Next]_vars, NEW c \in Conns
  PROVE  \/ hash'[c] \in {hash[c], NoHash}
         \/ \E p \in Procs : Writes(p) /\ job[p].conn = c
<1> USE DEF Writes
<1>0. hash \in [Conns -> Hash]
  BY DEF TypeOK, StoreTypeOK
<1>1. ASSUME NEW p \in Procs, Join(p) \/ Heartbeat(p) \/ ScriptHeartbeat(p) \/ Leave(p)
      PROVE  hash'[c] \in {hash[c], NoHash} \/ (Writes(p) /\ job[p].conn = c)
  <2>1. CASE Join(p)
    BY <1>0, <2>1 DEF Join, JoinRead, JoinWrite, JoinTx, JoinPublish, SnapIndex, SnapRead, JoinAck, storeVars
  <2>2. CASE Heartbeat(p)
    BY <1>0, <2>2 DEF Heartbeat, BeatRead, BeatWrite, BeatTx, BeatMeta, PutMeta, BeatPublish, storeVars
  <2>3. CASE ScriptHeartbeat(p)
    BY <1>0, <2>3 DEF ScriptHeartbeat, ScriptRead, ScriptRun, BeatScript, ScriptReload, storeVars
  <2>4. CASE Leave(p)
    BY <1>0, <2>4 DEF Leave, LeaveRead, LeaveWrite, LeaveTx, LeaveCountUser, LeaveCountRoom, LeaveDropMember,
       DropMember, LeaveDropRoom, DropRoom, LeavePublish, storeVars
  <2> QED
    BY <1>1, <2>1, <2>2, <2>3, <2>4
<1>2. ASSUME NEW w \in Workers, Reap(w)
      PROVE  UNCHANGED hash
  BY <1>2 DEF Reap, ReapStart, ReapRange, ReapExists, ReapMeta, ReapPurge, PurgeTx, ReapStrip,
     StripTx, ReapCountUser, ReapDropMember, DropMember, ReapPublish, ReapCountRoom,
     ReapDropRoom, DropRoom, storeVars
<1>3. ASSUME (\E p \in Procs : CrashRequest(p)) \/ (\E w \in Workers : CrashPass(w)) \/ UNCHANGED vars
      PROVE  UNCHANGED hash
  BY <1>3 DEF CrashRequest, CrashPass, vars, storeVars
<1>4. CASE Clock
  BY <1>0, <1>4 DEF Clock, Tick
<1> QED
  BY <1>1, <1>2, <1>3, <1>4 DEF Next

\* Two slots hold requests on different connections.
LEMMA OneRequestStep ==
  ASSUME Serial, TypeOK, OneRequest, [Next]_vars
  PROVE  OneRequest'
<1>1. ASSUME NEW p \in Procs, Join(p) \/ Heartbeat(p) \/ ScriptHeartbeat(p) \/ Leave(p)
      PROVE  OneRequest'
  <2>1. /\ \A q \in Procs : q # p => pc'[q] = pc[q] /\ job'[q] = job[q]
        /\ \/ pc'[p] = "idle"
           \/ pc[p] # "idle" /\ job'[p].conn = job[p].conn
           \/ ~Busy(job'[p].conn)
    <3>1. DOMAIN pc = Procs /\ DOMAIN job = Procs
      BY DEF TypeOK, RequestTypeOK
    <3>2. CASE JoinRead(p)
      <4>1. PICK l, next : l \in Logins /\ CanStart(p, l.conn) /\ Start(p, "joinTx", next) /\ next.conn = l.conn
        BY <3>2 DEF JoinRead
      <4> QED
        BY <1>1, <3>1, <4>1 DEF CanStart, Start
    <3>3. CASE BeatRead(p) \/ LeaveRead(p)
      <4>1. PICK c, at, next : CanStart(p, c) /\ Start(p, at, next) /\ next.conn = c
        BY <3>3 DEF BeatRead, LeaveRead
      <4> QED
        BY <3>1, <4>1 DEF CanStart, Start
    <3>4. CASE ScriptRead(p)
      <4>1. PICK c, at, next : CanStart(p, c) /\ Start(p, at, next) /\ next.conn = c
        BY <3>4 DEF ScriptRead
      <4> QED
        BY <3>1, <4>1 DEF CanStart, Start
    <3>5. CASE ScriptReload(p)
      <4>1. job[p] \in ScriptJob
        BY <3>5, JobAt DEF ScriptReload, ScriptPC, TypeOK
      <4>2. [job[p] EXCEPT !.room = hash[job[p].conn].room, !.at = now].conn = job[p].conn
        BY <4>1 DEF ScriptJob
      <4> QED
        BY <3>1, <3>5, <4>2 DEF ScriptReload, Finish
    <3>6. CASE ~JoinRead(p) /\ ~BeatRead(p) /\ ~LeaveRead(p) /\ ~ScriptRead(p) /\ ~ScriptReload(p)
      BY <1>1, <3>6, RequestMoves DEF JoinPC, BeatPC, LeavePC
    <3> QED
      BY <3>2, <3>3, <3>4, <3>5, <3>6
  <2> QED
    BY <2>1 DEF OneRequest, Busy
<1>2. ASSUME NEW p \in Procs, CrashRequest(p)
      PROVE  OneRequest'
  BY <1>2 DEF CrashRequest, Finish, TypeOK, RequestTypeOK, OneRequest
<1>3. ASSUME NEW w \in Workers, Reap(w) \/ CrashPass(w)
      PROVE  UNCHANGED <<pc, job>>
  BY <1>3 DEF Reap, CrashPass, ReapStart, ReapRange, ReapExists, ReapMeta, ReapPurge, ReapStrip,
     ReapCountUser, ReapDropMember, ReapPublish, ReapCountRoom, ReapDropRoom
<1> QED
  BY <1>1, <1>2, <1>3 DEF Next, Clock, vars, OneRequest

LEMMA AheadStep ==
  ASSUME TypeOK, OneRequest, Ahead, [Next]_vars
  PROVE  Ahead'
<1> DEFINE Fits(p) == /\ pc[p] = "joinTx" => job[p].epoch > hash[job[p].conn].epoch
                      /\ pc[p] = "beatTx" => /\ job[p].epoch >= hash[job[p].conn].epoch
                                             /\ hash[job[p].conn].state \subseteq job[p].state
<1>0. hash \in [Conns -> Hash] /\ now \in Nat \ {0} /\ DOMAIN pc = Procs /\ DOMAIN job = Procs
  BY DEF TypeOK, StoreTypeOK, RequestTypeOK
\* A request that was about to write and still is: only its own write could get in its way.
<1>1. ASSUME NEW p \in Procs, pc'[p] = pc[p], job'[p] = job[p]
      PROVE  Fits(p)'
  <2>1. CASE pc[p] \in {"joinTx", "beatTx"}
    <3>1. job[p].conn \in Conns
      BY <2>1, JobAt DEF TypeOK, JoinPC, BeatPC, JoinJob, BeatJob
    <3>2. job[p].epoch \in Nat /\ (pc[p] = "joinTx" => job[p].epoch > 0)
      BY <1>0, <2>1, <3>1, JobAt DEF TypeOK, JoinPC, BeatPC, JoinJob, BeatJob, Ahead, Hash
    <3>3. ASSUME NEW q \in Procs, Writes(q), job[q].conn = job[p].conn
          PROVE  FALSE
      <4>1. q = p
        BY <2>1, <3>3 DEF OneRequest, Writes, JoinWrite, BeatWrite, ScriptRun
      <4>2. pc'[p] \notin {"joinTx", "beatTx"}
        BY <1>0, <3>3, <4>1 DEF Writes, JoinWrite, BeatWrite, AfterBeat, ScriptRun, Goto, Finish
      <4> QED
        BY <1>1, <2>1, <4>2
    <3>4. hash'[job[p].conn] \in {hash[job[p].conn], NoHash}
      BY <3>1, <3>3, HashWriters
    <3> QED
      BY <1>1, <2>1, <3>2, <3>4 DEF Ahead, NoHash
  <2>2. CASE pc[p] \notin {"joinTx", "beatTx"}
    BY <1>1, <2>2
  <2> QED
    BY <2>1, <2>2
\* A request that has just read the hash.
<1>2. ASSUME NEW p \in Procs, JoinRead(p)
      PROVE  Fits(p)'
  <2>1. PICK l, next : /\ l \in Logins /\ Start(p, "joinTx", next) /\ next.conn = l.conn
                       /\ next.epoch = NextEpoch(hash[l.conn].epoch, now) /\ UNCHANGED storeVars
    BY <1>2 DEF JoinRead
  <2>2. hash[l.conn].epoch \in Nat
    BY <1>0, <2>1, PresenceAssumption DEF Hash
  <2>3. next.epoch > hash[l.conn].epoch
    BY <1>0, <2>1, <2>2 DEF NextEpoch
  <2>4. pc'[p] = "joinTx" /\ job'[p] = next /\ UNCHANGED hash
    BY <1>0, <2>1 DEF Start, storeVars
  <2> QED
    BY <2>1, <2>3, <2>4
<1>3. ASSUME NEW p \in Procs, BeatRead(p)
      PROVE  Fits(p)'
  <2>1. PICK c, next : /\ c \in Conns /\ Start(p, "beatTx", next) /\ next.conn = c /\ next.epoch >= hash[c].epoch
                       /\ hash[c].state \subseteq next.state /\ UNCHANGED storeVars
    BY <1>3 DEF BeatRead
  <2>2. pc'[p] = "beatTx" /\ job'[p] = next /\ UNCHANGED hash
    BY <1>0, <2>1 DEF Start, storeVars
  <2> QED
    BY <2>1, <2>2
<1>4. ASSUME NEW p \in Procs, Join(p) \/ Heartbeat(p) \/ ScriptHeartbeat(p) \/ Leave(p), NEW q \in Procs
      PROVE  Fits(q)'
  <2>1. CASE q # p
    BY <1>1, <1>4, <2>1, RequestMoves
  <2>2. CASE q = p /\ ~JoinRead(p) /\ ~BeatRead(p)
    <3>1. pc'[p] \notin {"joinTx", "beatTx"}
      BY <1>0, <1>4, <2>2 DEF Join, Heartbeat, ScriptHeartbeat, Leave, JoinWrite, JoinPublish, SnapIndex, SnapRead,
         JoinAck, BeatWrite, BeatMeta, AfterBeat, BeatPublish, ScriptRead, ScriptRun, ScriptReload, LeaveRead,
         LeaveWrite, LeaveCountUser, LeaveCountRoom, LeaveDropMember, AfterDrop, LeaveDropRoom, LeavePublish,
         Start, Goto, Finish
    <3> QED
      BY <2>2, <3>1
  <2> QED
    BY <1>2, <1>3, <2>1, <2>2
<1>5. ASSUME NEW p \in Procs, CrashRequest(p), NEW q \in Procs
      PROVE  Fits(q)'
  <2>1. q # p => pc'[q] = pc[q] /\ job'[q] = job[q]
    BY <1>0, <1>5 DEF CrashRequest, Finish
  <2>2. pc'[p] = "idle"
    BY <1>0, <1>5 DEF CrashRequest, Finish
  <2> QED
    BY <1>1, <2>1, <2>2
<1>6. ASSUME NEW w \in Workers, Reap(w) \/ CrashPass(w)
      PROVE  UNCHANGED <<pc, job>>
  BY <1>6 DEF Reap, CrashPass, ReapStart, ReapRange, ReapExists, ReapMeta, ReapPurge, ReapStrip,
     ReapCountUser, ReapDropMember, ReapPublish, ReapCountRoom, ReapDropRoom
<1>7. ASSUME UNCHANGED <<pc, job>>
      PROVE  \A q \in Procs : Fits(q)'
  BY <1>1, <1>7
<1>8. \A q \in Procs : Fits(q)'
  BY <1>4, <1>5, <1>6, <1>7 DEF Next, Clock, vars
<1> QED
  BY <1>8 DEF Ahead

\* The registry's view of a step: it concerns the session of one connection, or only ends
\* sessions.
Sessions == [c \in Conns |-> SessionOf(c)]

LEMMA SessionStays ==
  ASSUME NEW c \in Conns, hash'[c] \in {hash[c], NoHash}
  PROVE  SessionOf(c)' = SessionOf(c) \/ SessionOf(c)' = None
BY DEF SessionOf, Live, NoHash

LEMMA SessionWritten ==
  ASSUME NEW c \in Conns, \A d \in Conns : d # c => hash'[d] = hash[d]
  PROVE  Sessions' = [Sessions EXCEPT ![c] = SessionOf(c)']
BY DEF Sessions, SessionOf, Live

LEMMA SessionType ==
  ASSUME TypeOK, NEW c \in Conns, Live(c)
  PROVE  /\ SessionOf(c) \in Registry!Session
         /\ SessionOf(c).room = hash[c].room /\ SessionOf(c).user = hash[c].user
         /\ SessionOf(c).epoch = hash[c].epoch /\ SessionOf(c).state = hash[c].state
<1>1. /\ hash[c].room \in Rooms /\ hash[c].user \in Users
      /\ hash[c].epoch \in Nat /\ hash[c].state \in SUBSET Marks
  BY DEF Live, TypeOK, StoreTypeOK, Hash
<1> QED
  BY <1>1 DEF SessionOf, Registry!Session

LEMMA RegistryStep ==
  ASSUME TypeOK, TypeOK', Ahead, [Next]_vars
  PROVE  Registry!Next \/ Sessions' = Sessions
<1>0. hash \in [Conns -> Hash]
  BY DEF TypeOK, StoreTypeOK
<1>1. ASSUME NEW c \in Conns, \A d \in Conns : d # c => hash'[d] = hash[d], Live(c)',
             Live(c) => hash'[c].epoch > hash[c].epoch
      PROVE  Registry!Next
  <2>1. /\ SessionOf(c)' \in Registry!Session /\ SessionOf(c)'.epoch = hash'[c].epoch
    <3>1. (Live(c) => SessionOf(c) \in Registry!Session /\ SessionOf(c).epoch = hash[c].epoch)'
      <4>1. /\ hash'[c].room \in Rooms /\ hash'[c].user \in Users
            /\ hash'[c].epoch \in Nat /\ hash'[c].state \in SUBSET Marks
        BY <1>1 DEF Live, TypeOK, StoreTypeOK, Hash
      <4> QED
        BY <4>1 DEF SessionOf, Registry!Session
    <3> QED
      BY <1>1, <3>1
  <2>2. Sessions' = [Sessions EXCEPT ![c] = Sessions'[c]] /\ Sessions'[c] = SessionOf(c)'
    BY <1>1, SessionWritten DEF Sessions
  <2>3. Sessions[c] # None => Live(c)
    BY DEF Sessions, SessionOf
  <2>4. Live(c) => Sessions[c].epoch = hash[c].epoch
    BY SessionType DEF Sessions
  <2>5. Registry!Join(c)
    BY <1>1, <2>1, <2>2, <2>3, <2>4 DEF Registry!Join, Registry!Only, Registry!Open, Sessions
  <2> QED
    BY <2>5 DEF Registry!Next
<1>2. ASSUME NEW c \in Conns, \A d \in Conns : d # c => hash'[d] = hash[d], Live(c)', Live(c),
             hash'[c].room = hash[c].room, hash'[c].user = hash[c].user,
             hash'[c].epoch >= hash[c].epoch, hash[c].state \subseteq hash'[c].state
      PROVE  Registry!Next
  <2> DEFINE old == Sessions[c]
             new == Sessions'[c]
  <2>1. /\ old.room = hash[c].room /\ old.user = hash[c].user
        /\ old.epoch = hash[c].epoch /\ old.state = hash[c].state
    BY <1>2, SessionType DEF Sessions
  <2>2. /\ hash[c].room \in Rooms /\ hash[c].user \in Users
        /\ hash'[c].epoch \in Nat /\ hash'[c].state \in SUBSET Marks
    BY <1>2 DEF Live, TypeOK, StoreTypeOK, Hash
  <2>3. new = [room |-> hash[c].room, user |-> hash[c].user,
               epoch |-> hash'[c].epoch, state |-> hash'[c].state]
    BY <1>2 DEF Sessions, SessionOf
  <2>4. Sessions' = [Sessions EXCEPT ![c] = new]
    BY <1>2, SessionWritten DEF Sessions
  <2> HIDE DEF old, new
  <2>5. CASE old # None
    <3>1. new \in [room: {old.room}, user: {old.user}, epoch: Nat, state: SUBSET Marks]
      BY <2>1, <2>2, <2>3
    <3>2. new.epoch >= old.epoch /\ old.state \subseteq new.state
      BY <1>2, <2>1, <2>3
    <3>3. Registry!Heartbeat(c)
      BY <2>4, <2>5, <3>1, <3>2 DEF Registry!Heartbeat, Registry!Only, Registry!Open, Sessions, old, new
    <3> QED
      BY <3>3 DEF Registry!Next
  <2>6. CASE old = None
    <3>1. new \in Registry!Session
      BY <2>2, <2>3 DEF Registry!Session
    <3>2. Registry!Join(c)
      BY <2>4, <2>6, <3>1 DEF Registry!Join, Registry!Only, Registry!Open, Sessions, old, new
    <3> QED
      BY <3>2 DEF Registry!Next
  <2> QED
    BY <2>5, <2>6
<1>3. ASSUME \A c \in Conns : SessionOf(c)' = SessionOf(c) \/ SessionOf(c)' = None
      PROVE  Registry!Next
  <2>1. Sessions' = [c \in Conns |-> IF Sessions'[c] = None THEN None ELSE Sessions[c]]
    BY <1>3 DEF Sessions
  <2> QED
    BY <2>1 DEF Registry!Next, Registry!Close, Sessions
<1>4. ASSUME NEW p \in Procs, JoinWrite(p)
      PROVE  Registry!Next
  <2>1. job[p] \in JoinJob /\ job[p].conn \in Conns
    BY <1>4, JobAt DEF TypeOK, JoinWrite, JoinPC, JoinJob
  <2>2. /\ \A d \in Conns : d # job[p].conn => hash'[d] = hash[d]
        /\ hash'[job[p].conn].epoch = job[p].epoch
        /\ hash'[job[p].conn].room = job[p].room /\ hash'[job[p].conn].user = job[p].user
    BY <1>0, <1>4, <2>1 DEF JoinWrite, JoinTx
  <2>3. job[p].room # None /\ job[p].user # None
    BY <2>1, StoreAssumption DEF JoinJob
  <2>4. hash'[job[p].conn].epoch > hash[job[p].conn].epoch
    BY <1>4, <2>2 DEF Ahead, JoinWrite
  <2>5. PICK c \in Conns : c = job[p].conn
    BY <2>1
  <2> QED
    BY <1>1, <2>2, <2>3, <2>4, <2>5 DEF Live
<1>5. ASSUME NEW p \in Procs, BeatWrite(p) \/ ScriptRun(p)
      PROVE  Registry!Next
  <2>1. PICK c \in Conns : c = job[p].conn
    BY <1>5, JobAt DEF TypeOK, BeatWrite, BeatPC, BeatJob, ScriptRun, ScriptPC, ScriptJob
  <2>2. /\ \A d \in Conns : d # c => hash'[d] = hash[d]
        /\ hash'[c].room = hash[c].room /\ hash'[c].user = hash[c].user
        /\ hash'[c].epoch >= hash[c].epoch /\ hash[c].state \subseteq hash'[c].state
    <3>1. hash[c] \in Hash
      BY <1>0
    <3>2. CASE UNCHANGED hash
      BY <3>1, <3>2 DEF Hash
    <3>3. CASE BeatWrite(p)
      <4> DEFINE j == job[p]
                 next == [hash[c] EXCEPT !.expires = now + TTL,
                                         !.epoch = IF j.raised THEN j.epoch ELSE @,
                                         !.state = IF j.changed THEN j.state ELSE @]
      <4>1. hash' = [hash EXCEPT ![c] = next]
        BY <2>1, <3>3 DEF BeatWrite, BeatTx
      <4>2. next.room = hash[c].room /\ next.user = hash[c].user
        BY <3>1 DEF Hash
      <4>3. /\ next.epoch = IF j.raised THEN j.epoch ELSE hash[c].epoch
            /\ next.state = IF j.changed THEN j.state ELSE hash[c].state
        BY <3>1 DEF Hash
      <4>4. j.epoch >= hash[c].epoch /\ hash[c].state \subseteq j.state
        BY <2>1, <3>3 DEF Ahead, BeatWrite
      <4>5. next.epoch >= hash[c].epoch /\ hash[c].state \subseteq next.state
        BY <3>1, <4>3, <4>4 DEF Hash
      <4> HIDE DEF next
      <4> QED
        BY <1>0, <4>1, <4>2, <4>5
    <3>4. CASE ScriptRun(p) /\ ~UNCHANGED storeVars
      <4> DEFINE j == job[p]
                 e == IF j.request = 0 THEN hash[c].epoch ELSE j.request
                 next == [hash[c] EXCEPT !.expires = now + TTL, !.epoch = e,
                                         !.state = hash[c].state \union j.patch]
      <4>1. /\ j.request = 0 \/ j.request >= hash[c].epoch
            /\ hash' = [hash EXCEPT ![c] = next]
        BY <2>1, <3>4 DEF ScriptRun, BeatScript
      <4>2. /\ next.room = hash[c].room /\ next.user = hash[c].user
            /\ next.epoch = e /\ next.state = hash[c].state \union j.patch
        BY <3>1 DEF Hash
      <4>3. e >= hash[c].epoch
        BY <3>1, <4>1 DEF Hash
      <4> HIDE DEF next, e
      <4> QED
        BY <1>0, <4>1, <4>2, <4>3
    <3> QED
      BY <1>5, <3>2, <3>3, <3>4 DEF storeVars
  <2>3. CASE Live(c)
    BY <1>2, <2>2, <2>3 DEF Live
  <2>4. CASE ~Live(c)
    <3>1. \A d \in Conns : SessionOf(d)' = SessionOf(d) \/ SessionOf(d)' = None
      BY <2>2, <2>4 DEF SessionOf, Live
    <3> QED
      BY <1>3, <3>1
  <2> QED
    BY <2>3, <2>4
<1>6. CASE ~\E p \in Procs : Writes(p)
  BY <1>3, <1>6, HashWriters, SessionStays
<1> QED
  BY <1>4, <1>5, <1>6 DEF Writes

\* With one request at a time on a connection, the service implements the session
\* registry: a new session's epoch exceeds the one it replaces, and while a session lasts
\* its room and user are fixed, its epoch does not regress and no state patch is undone,
\* with any number of nodes reaping and with crashes.
THEOREM Registered ==
  ASSUME Serial
  PROVE  Spec => ImplementsRegistry
<1>1. Init => Registry!Init /\ OneRequest /\ Ahead
  <2> SUFFICES ASSUME Init PROVE Registry!Init /\ OneRequest /\ Ahead
    OBVIOUS
  <2>1. \A c \in Conns : SessionOf(c) = None
    BY DEF Init, StoreInit, SessionOf, Live, NoHash
  <2>2. Registry!Init
    BY <2>1 DEF Registry!Init
  <2>3. \A p \in Procs : pc[p] = "idle"
    BY DEF Init
  <2> QED
    BY <2>2, <2>3 DEF OneRequest, Ahead
<1>2. TypeOK /\ TypeOK' /\ Ahead /\ [Next]_vars => [Registry!Next]_Sessions
  BY RegistryStep
<1> QED
  BY <1>1, <1>2, TypeCorrect, OneRequestStep, AheadStep, PTL DEF Spec, ImplementsRegistry, Registry!Spec, Sessions

-----------------------------------------------------------------------------
(* The events tell the truth *)

ServiceOnly == Heartbeats \subseteq {"service"}

NoScripts == \A p \in Procs : pc[p] \notin ScriptPC

LeftPC == {"countUser", "countRoom", "dropMember", "dropRoom", "leavePublish"}
StrippedPC == {"countUser", "dropMember", "publish"}

\* A pass that has not found a connection's conn_meta, or has stripped the connection,
\* does not find it indexed later, unless a join has crossed the pass.
PassIsGone ==
  \A w \in Workers : reaper[w].pc \in StrippedPC \union {"purge"} =>
    reaper[w].conn \notin conns[RoomOf(w)] \/ reaper[w].conn \in crossed

LeftIsGone ==
  \A p \in Procs : pc[p] \in LeftPC =>
    job[p].conn \notin conns[job[p].room] /\ ~Live(job[p].conn)

JoinedIsIndexed ==
  \A p \in Procs : pc[p] = "joinPublish" /\ job[p].conn \notin crossed =>
    /\ job[p].conn \in conns[job[p].room]
    /\ Live(job[p].conn) => hash[job[p].conn].state = job[p].state

Departing(r, c) ==
  \/ \E p \in Procs : pc[p] \in LeftPC /\ job[p].conn = c /\ job[p].room = r
  \/ \E w \in Workers : reaper[w].pc \in StrippedPC /\ reaper[w].conn = c /\ RoomOf(w) = r

UpdatePC == {"beatMeta", "beatPublish"}

Updating(c) == \E p \in Procs : pc[p] \in UpdatePC /\ job[p].changed /\ job[p].conn = c

UpdateIsStored ==
  \A p \in Procs : pc[p] \in UpdatePC /\ job[p].changed /\ Live(job[p].conn) =>
    hash[job[p].conn].state = job[p].state

PublishesChange == \A p \in Procs : pc[p] = "beatPublish" => job[p].changed

RosterKnown == \A r \in Rooms, c \in Conns : roster[r][c] # None => LogsInto(c, r)

IndexedIsDrawn ==
  \A r \in Rooms : \A c \in conns[r] \ crossed : roster[r][c] # None \/ Announcing(c)

DrawnIsIndexed ==
  \A r \in Rooms : \A c \in Conns \ crossed :
    roster[r][c] # None => c \in conns[r] \/ Departing(r, c)

StateIsDrawn ==
  \A c \in Conns \ crossed :
    Live(c) => roster[hash[c].room][c] = hash[c].state \/ Announcing(c) \/ Updating(c)

RosterInv ==
  /\ PassIsGone /\ LeftIsGone /\ JoinedIsIndexed /\ UpdateIsStored /\ PublishesChange /\ RosterKnown
  /\ IndexedIsDrawn /\ DrawnIsIndexed /\ StateIsDrawn

\* How a request gets to the points the parts of the invariant speak of, and away from them.
LEMMA Phases ==
  ASSUME ~Crashes, TypeOK, NoScripts, [Next]_vars, NEW p \in Procs
  PROVE  /\ pc[p] # "idle" /\ pc'[p] # "idle" =>
              job'[p].conn = job[p].conn /\ job'[p].room = job[p].room
         /\ pc'[p] = "joinPublish" => job'[p] = job[p] /\ (JoinWrite(p) \/ pc[p] = "joinPublish")
         /\ pc[p] = "joinPublish" /\ pc'[p] # "joinPublish" => JoinPublish(p)
         /\ pc'[p] \in LeftPC => LeaveWrite(p) \/ pc[p] \in LeftPC
         /\ pc[p] \in LeftPC /\ pc'[p] \notin LeftPC => LeavePublish(p)
         /\ pc'[p] \in UpdatePC => job'[p] = job[p] /\ (BeatWrite(p) \/ pc[p] \in UpdatePC)
         /\ pc[p] \in UpdatePC /\ job[p].changed /\ pc'[p] \notin UpdatePC => BeatPublish(p)
         /\ pc'[p] = "beatPublish" => pc[p] = "beatPublish" \/ job[p].changed
<1> USE DEF LeftPC, UpdatePC
<1>0. DOMAIN pc = Procs /\ DOMAIN job = Procs
  BY DEF TypeOK, RequestTypeOK
<1>1. CASE UNCHANGED <<pc, job>>
  BY <1>1
<1>2. ASSUME NEW q \in Procs, Join(q) \/ Heartbeat(q) \/ ScriptHeartbeat(q) \/ Leave(q), q # p
      PROVE  pc'[p] = pc[p] /\ job'[p] = job[p]
  BY <1>2, RequestMoves
<1>3. CASE Join(p)
  <2>1. CASE JoinRead(p)
    BY <1>0, <2>1 DEF JoinRead, CanStart, Start
  <2>2. CASE JoinWrite(p) \/ JoinPublish(p) \/ JoinAck(p)
    BY <1>0, <2>2 DEF JoinWrite, JoinPublish, JoinAck, Goto, Finish
  <2>3. CASE SnapIndex(p) \/ SnapRead(p)
    <3>1. pc[p] \in {"snapIndex", "snapRead"} /\ pc'[p] \in {"snapRead", "joinAck"}
      BY <1>0, <2>3 DEF SnapIndex, SnapRead, Goto
    <3> QED
      BY <1>3, <3>1, RequestMoves DEF JoinPC, BeatPC, LeavePC
  <2> QED
    BY <1>3, <2>1, <2>2, <2>3 DEF Join
<1>4. CASE Heartbeat(p)
  <2>1. CASE BeatRead(p)
    BY <1>0, <2>1 DEF BeatRead, CanStart, Start
  <2>2. CASE BeatWrite(p) \/ BeatMeta(p) \/ BeatPublish(p)
    BY <1>0, <2>2 DEF BeatWrite, BeatMeta, BeatPublish, AfterBeat, Goto, Finish
  <2> QED
    BY <1>4, <2>1, <2>2 DEF Heartbeat
<1>5. CASE ScriptHeartbeat(p)
  <2>1. ScriptRead(p)
    BY <1>5 DEF ScriptHeartbeat, ScriptRun, ScriptReload, NoScripts, ScriptPC
  <2> QED
    BY <1>0, <2>1 DEF ScriptRead, CanStart, Start
<1>6. CASE Leave(p)
  <2>1. CASE LeaveRead(p)
    BY <1>0, <2>1 DEF LeaveRead, CanStart, Start
  <2>2. CASE LeavePublish(p)
    BY <1>0, <2>2 DEF LeavePublish, Finish
  <2>3. CASE ~LeaveRead(p) /\ ~LeavePublish(p)
    <3>1. /\ pc[p] \in LeftPC \/ LeaveWrite(p)
          /\ pc[p] \in LeavePC /\ pc'[p] \in LeftPC
      BY <1>0, <1>6, <2>3 DEF Leave, LeaveWrite, LeaveCountUser, LeaveCountRoom, LeaveDropMember, LeaveDropRoom,
         AfterDrop, Goto, LeavePC
    <3>2. pc[p] # "idle" /\ pc[p] \notin {"joinPublish"} \union UpdatePC
      BY <3>1 DEF LeavePC
    <3>3. ~BeatRead(p)
      BY <3>2 DEF BeatRead, CanStart
    <3>4. job'[p].conn = job[p].conn /\ job'[p].room = job[p].room
      BY <1>6, <2>3, <3>1, <3>3, RequestMoves
    <3> QED
      BY <3>1, <3>2, <3>4
  <2> QED
    BY <2>1, <2>2, <2>3
<1>7. ASSUME NEW w \in Workers, Reap(w) \/ CrashPass(w)
      PROVE  UNCHANGED <<pc, job>>
  BY <1>7 DEF Reap, CrashPass, ReapStart, ReapRange, ReapExists, ReapMeta, ReapPurge, ReapStrip,
     ReapCountUser, ReapDropMember, ReapPublish, ReapCountRoom, ReapDropRoom
<1>8. ASSUME \E q \in Procs : CrashRequest(q)
      PROVE  FALSE
  BY <1>8 DEF CrashRequest
<1> QED
  BY <1>1, <1>2, <1>3, <1>4, <1>5, <1>6, <1>7, <1>8 DEF Next, Clock, vars

\* The same of a pass.
LEMMA PassPhases ==
  ASSUME ~Crashes, TypeOK, [Next]_vars, NEW w \in Workers
  PROVE  /\ reaper'[w].pc \in StrippedPC =>
              reaper'[w].conn = reaper[w].conn /\ (ReapStrip(w) \/ reaper[w].pc \in StrippedPC)
         /\ reaper[w].pc \in StrippedPC /\ reaper'[w].pc \notin StrippedPC => ReapPublish(w)
         /\ reaper'[w].pc = "purge" =>
              /\ reaper'[w].conn = reaper[w].conn
              /\ \/ reaper[w].pc = "purge"
                 \/ ReapMeta(w) /\ connMeta[RoomOf(w)][reaper[w].conn].user = None
<1> USE DEF StrippedPC
<1>1. CASE UNCHANGED reaper
  BY <1>1
<1>2. ASSUME NEW v \in Workers, Reap(v), v # w
      PROVE  reaper'[w] = reaper[w]
  BY <1>2, PassMoves
<1>3. CASE Reap(w)
  <2>1. CASE ReapMeta(w)
    <3>1. reaper[w].pc = "meta"
      BY <2>1 DEF ReapMeta
    <3> QED
      BY <1>3, <2>1, <3>1, PassMoves
  <2>2. CASE ReapStrip(w) \/ ReapCountUser(w) \/ ReapDropMember(w)
    BY <1>3, <2>2, PassMoves DEF ReapStrip, ReapCountUser, ReapDropMember
  <2>3. CASE ReapPublish(w) \/ ReapPurge(w) \/ ReapStart(w) \/ ReapRange(w) \/ ReapCountRoom(w) \/ ReapDropRoom(w)
    BY <1>3, <2>3, PassMoves DEF SeekPC, ReapPurge, ReapStart, ReapRange, ReapCountRoom, ReapDropRoom
  <2>4. CASE ReapExists(w)
    BY <1>3, <2>4, PassMoves DEF ReapExists
  <2> QED
    BY <1>3, <2>1, <2>2, <2>3, <2>4 DEF Reap
<1>4. ASSUME \E v \in Workers : CrashPass(v)
      PROVE  FALSE
  BY <1>4 DEF CrashPass
<1>5. ASSUME NEW p \in Procs, CrashRequest(p)
      PROVE  UNCHANGED reaper
  BY <1>5 DEF CrashRequest
<1> QED
  BY <1>1, <1>2, <1>3, <1>4, <1>5, RequestMoves DEF Next, Clock, vars

\* Who puts a connection in a room's conns, takes it out, and forgets a crossed join.
LEMMA WhoIndexes ==
  ASSUME TypeOK, [Next]_vars, NEW c \in Conns, NEW r \in Rooms
  PROVE  /\ c \in conns'[r] => c \in conns[r] \/ \E p \in Procs : JoinWrite(p) /\ job[p].conn = c /\ job[p].room = r
         /\ c \in conns[r] => \/ c \in conns'[r]
                              \/ \E p \in Procs : LeaveWrite(p) /\ job[p].conn = c /\ job[p].room = r
                              \/ \E w \in Workers : /\ ReapStrip(w) \/ ReapPurge(w)
                                                    /\ reaper[w].conn = c /\ RoomOf(w) = r
         /\ c \in crossed => c \in crossed' \/ \E p \in Procs : JoinWrite(p) /\ job[p].conn = c
<1>0. conns \in [Rooms -> SUBSET Conns]
  BY DEF TypeOK, StoreTypeOK
<1>1. ASSUME NEW p \in Procs, JoinWrite(p)
      PROVE  /\ conns' = [conns EXCEPT ![job[p].room] = @ \union {job[p].conn}]
             /\ \A d \in crossed : d # job[p].conn => d \in crossed'
  BY <1>1 DEF JoinWrite, JoinTx
<1>2. ASSUME NEW p \in Procs, LeaveWrite(p)
      PROVE  conns' = [conns EXCEPT ![job[p].room] = @ \ {job[p].conn}] /\ UNCHANGED crossed
  BY <1>2 DEF LeaveWrite, LeaveTx, Unindex
<1>3. ASSUME NEW w \in Workers, ReapStrip(w) \/ ReapPurge(w)
      PROVE  conns' = [conns EXCEPT ![RoomOf(w)] = @ \ {reaper[w].conn}] /\ crossed \subseteq crossed'
  BY <1>3 DEF ReapStrip, StripTx, ReapPurge, PurgeTx, Unindex
<1>4. ASSUME NEW p \in Procs, BeatWrite(p) \/ BeatMeta(p) \/ ScriptRun(p)
      PROVE  UNCHANGED <<conns, crossed>>
  BY <1>4 DEF BeatWrite, BeatTx, BeatMeta, PutMeta, ScriptRun, BeatScript, storeVars
<1>5. CASE \E p \in Procs : JoinWrite(p)
  BY <1>0, <1>1, <1>5
<1>6. CASE \E p \in Procs : LeaveWrite(p)
  BY <1>0, <1>2, <1>6
<1>7. CASE \E w \in Workers : ReapStrip(w) \/ ReapPurge(w)
  BY <1>0, <1>3, <1>7
<1> QED
  BY <1>4, <1>5, <1>6, <1>7, IndexFrame DEF WritesIndex

\* Who draws a connection, and who erases it.
LEMMA WhoDraws ==
  ASSUME TypeOK, [Next]_vars, NEW c \in Conns, NEW r \in Rooms
  PROVE  \/ roster'[r][c] = roster[r][c]
         \/ \E p \in Procs : /\ job[p].conn = c /\ job[p].room = r
                             /\ \/ JoinPublish(p) /\ roster'[r][c] = job[p].state
                                \/ BeatPublish(p) /\ roster[r][c] # None /\ roster'[r][c] = job[p].state
                                \/ LeavePublish(p) /\ roster'[r][c] = None
         \/ \E w \in Workers : /\ ReapPublish(w) /\ roster'[r][c] = None
                               /\ reaper[w].conn = c /\ RoomOf(w) = r
<1>0. DOMAIN roster = Rooms /\ \A q \in Rooms : DOMAIN roster[q] = Conns
  BY DEF TypeOK
<1>1. ASSUME NEW p \in Procs, JoinPublish(p) \/ BeatPublish(p) \/ LeavePublish(p)
      PROVE  \/ roster'[r][c] = roster[r][c]
             \/ /\ job[p].conn = c /\ job[p].room = r
                /\ \/ JoinPublish(p) /\ roster'[r][c] = job[p].state
                   \/ BeatPublish(p) /\ roster[r][c] # None /\ roster'[r][c] = job[p].state
                   \/ LeavePublish(p) /\ roster'[r][c] = None
  BY <1>0, <1>1 DEF JoinPublish, BeatPublish, LeavePublish
<1>2. ASSUME NEW w \in Workers, ReapPublish(w)
      PROVE  \/ roster'[r][c] = roster[r][c]
             \/ roster'[r][c] = None /\ reaper[w].conn = c /\ RoomOf(w) = r
  BY <1>0, <1>2 DEF ReapPublish
<1>3. ASSUME NEW p \in Procs, Join(p) \/ Heartbeat(p) \/ ScriptHeartbeat(p) \/ Leave(p),
             ~JoinPublish(p), ~BeatPublish(p), ~LeavePublish(p)
      PROVE  UNCHANGED roster
  BY <1>3 DEF Join, Heartbeat, ScriptHeartbeat, Leave, JoinRead, JoinWrite, SnapIndex, SnapRead, JoinAck, BeatRead,
     BeatWrite, BeatMeta, ScriptRead, ScriptRun, ScriptReload, LeaveRead, LeaveWrite, LeaveCountUser,
     LeaveCountRoom, LeaveDropMember, LeaveDropRoom, Start
<1>4. ASSUME NEW w \in Workers, Reap(w), ~ReapPublish(w)
      PROVE  UNCHANGED roster
  BY <1>4 DEF Reap, ReapStart, ReapRange, ReapExists, ReapMeta, ReapPurge, ReapStrip,
     ReapCountUser, ReapDropMember, ReapCountRoom, ReapDropRoom
<1>5. ASSUME \/ \E p \in Procs : CrashRequest(p)
             \/ \E w \in Workers : CrashPass(w)
             \/ Clock \/ UNCHANGED vars
      PROVE  UNCHANGED roster
  BY <1>5 DEF CrashRequest, CrashPass, Clock, vars
<1> QED
  BY <1>1, <1>2, <1>3, <1>4, <1>5 DEF Next

LEMMA JobConn ==
  ASSUME TypeOK, NEW p \in Procs, pc[p] # "idle"
  PROVE  job[p].conn \in Conns /\ job[p].room \in Rooms
BY DEF TypeOK, RequestTypeOK, Shape, JoinJob, BeatJob, ScriptJob, LeaveJob

LEMMA NoScriptsStep ==
  ASSUME ServiceOnly, ~Crashes, TypeOK, NoScripts, [Next]_vars
  PROVE  NoScripts'
<1>1. ASSUME NEW p \in Procs, Join(p) \/ Heartbeat(p) \/ ScriptHeartbeat(p) \/ Leave(p), NEW q \in Procs
      PROVE  pc'[q] \notin ScriptPC
  <2>1. ~ScriptRead(p) /\ ~ScriptReload(p)
    BY DEF ServiceOnly, ScriptRead, ScriptReload, NoScripts, ScriptPC
  <2> QED
    BY <1>1, <2>1, RequestMoves DEF NoScripts, ScriptPC, JoinPC, BeatPC, LeavePC
<1>2. ASSUME NEW w \in Workers, Reap(w) \/ CrashPass(w)
      PROVE  UNCHANGED pc
  BY <1>2 DEF Reap, CrashPass, ReapStart, ReapRange, ReapExists, ReapMeta, ReapPurge, ReapStrip,
     ReapCountUser, ReapDropMember, ReapPublish, ReapCountRoom, ReapDropRoom
<1>3. ~\E p \in Procs : CrashRequest(p)
  BY DEF CrashRequest
<1> QED
  BY <1>1, <1>2, <1>3 DEF Next, Clock, vars, NoScripts

\* The invariants the parts of RosterInv lean on.
Settled ==
  TypeOK /\ Known /\ OneRequest /\ SessionInv /\ IndexedIsReapable /\ NoScripts /\ RosterInv

LEMMA PassIsGoneStep ==
  ASSUME ~Crashes, Settled, [Next]_vars
  PROVE  PassIsGone'
<1> SUFFICES ASSUME NEW w \in Workers, reaper'[w].pc \in StrippedPC \union {"purge"},
                    reaper'[w].conn \in conns'[RoomOf(w)]
             PROVE  reaper'[w].conn \in crossed'
  BY DEF PassIsGone
<1> USE DEF Settled, RosterInv
<1>1. PICK c \in Conns, r \in Rooms : c = reaper[w].conn /\ c = reaper'[w].conn /\ r = RoomOf(w)
  BY PassAt, PassPhases DEF StrippedPC, NamedPC, AnonPC, ReapStrip, ReapMeta
<1>2. ASSUME NEW p \in Procs, JoinWrite(p), job[p].conn = c
      PROVE  c \in crossed'
  BY <1>1, <1>2 DEF JoinWrite, WorkedOn
<1>3. ASSUME c \in conns[r]
      PROVE  c \in crossed'
  <2>1. CASE ReapStrip(w)
    BY <1>1, <2>1 DEF ReapStrip, StripTx, Unindex, TypeOK, StoreTypeOK
  <2>2. CASE ReapMeta(w) /\ connMeta[r][c].user = None
    BY <1>3, <2>2 DEF IndexedIsReapable
  <2>3. CASE reaper[w].pc \in StrippedPC \union {"purge"}
    BY <1>1, <1>2, <1>3, <2>3, WhoIndexes DEF PassIsGone
  <2> QED
    BY <1>1, <2>1, <2>2, <2>3, PassPhases
<1> QED
  BY <1>1, <1>2, <1>3, WhoIndexes

\* The one join that writes the hash of a connection, or indexes it, is the request on it.
LEMMA OnlyItsJoin ==
  ASSUME OneRequest, NEW p \in Procs, pc[p] # "idle", NEW q \in Procs, JoinWrite(q) \/ BeatWrite(q),
         job[q].conn = job[p].conn
  PROVE  p = q
BY DEF OneRequest, JoinWrite, BeatWrite

LEMMA LeftIsGoneStep ==
  ASSUME ~Crashes, Settled, [Next]_vars
  PROVE  LeftIsGone'
<1> SUFFICES ASSUME NEW p \in Procs, pc'[p] \in LeftPC
             PROVE  job'[p].conn \notin conns'[job'[p].room] /\ ~Live(job[p].conn)'
  BY DEF LeftIsGone, Live
<1> USE DEF Settled, RosterInv
<1>1. pc[p] # "idle" /\ pc'[p] # "idle" /\ (LeaveWrite(p) \/ pc[p] \in LeftPC)
  BY Phases DEF LeftPC, LeaveWrite
<1>2. PICK c \in Conns, r \in Rooms : /\ c = job[p].conn /\ c = job'[p].conn
                                      /\ r = job[p].room /\ r = job'[p].room
  BY <1>1, Phases, JobConn
<1>3. CASE LeaveWrite(p)
  <2>1. hash'[c] = NoHash /\ conns' = [conns EXCEPT ![r] = @ \ {c}]
    BY <1>2, <1>3 DEF LeaveWrite, LeaveTx, Unindex, TypeOK, StoreTypeOK
  <2> QED
    BY <1>2, <2>1 DEF Live, NoHash, TypeOK, StoreTypeOK
<1>4. CASE pc[p] \in LeftPC
  <2>1. c \notin conns[r] /\ ~Live(c)
    BY <1>2, <1>4 DEF LeftIsGone
  <2>2. ASSUME NEW q \in Procs, JoinWrite(q) \/ BeatWrite(q), job[q].conn = c
        PROVE  FALSE
    BY <1>1, <1>2, <1>4, <2>2, OnlyItsJoin DEF JoinWrite, BeatWrite, LeftPC
  <2>3. hash'[c] \in {hash[c], NoHash}
    BY <2>2, HashWriters DEF Writes, ScriptRun, NoScripts, ScriptPC
  <2> QED
    BY <1>2, <2>1, <2>2, <2>3, WhoIndexes DEF Live, NoHash
<1> QED
  BY <1>1, <1>3, <1>4

LEMMA JoinedIsIndexedStep ==
  ASSUME ~Crashes, Settled, [Next]_vars
  PROVE  JoinedIsIndexed'
<1> SUFFICES ASSUME NEW p \in Procs, pc'[p] = "joinPublish", job'[p].conn \notin crossed'
             PROVE  /\ job'[p].conn \in conns'[job'[p].room]
                    /\ Live(job[p].conn)' => hash'[job'[p].conn].state = job'[p].state
  BY DEF JoinedIsIndexed, Live
<1> USE DEF Settled, RosterInv
<1>1. job'[p] = job[p] /\ (JoinWrite(p) \/ pc[p] = "joinPublish") /\ pc[p] # "idle"
  BY Phases DEF JoinWrite
<1>2. PICK c \in Conns, r \in Rooms : c = job[p].conn /\ r = job[p].room
  BY <1>1, JobConn
<1>3. CASE JoinWrite(p)
  BY <1>1, <1>2, <1>3 DEF JoinWrite, JoinTx, TypeOK, StoreTypeOK
<1>4. CASE pc[p] = "joinPublish"
  <2>1. ASSUME NEW q \in Procs, JoinWrite(q) \/ BeatWrite(q), job[q].conn = c
        PROVE  FALSE
    BY <1>1, <1>2, <1>4, <2>1, OnlyItsJoin DEF JoinWrite, BeatWrite
  <2>2. c \notin crossed
    BY <1>1, <1>2, <2>1, WhoIndexes
  <2>3. c \in conns[r] /\ (Live(c) => hash[c].state = job[p].state)
    BY <1>2, <1>4, <2>2 DEF JoinedIsIndexed
  <2>4. hash'[c] \in {hash[c], NoHash}
    BY <2>1, HashWriters DEF Writes, ScriptRun, NoScripts, ScriptPC
  <2>5. ASSUME NEW q \in Procs, LeaveWrite(q), job[q].conn = c
        PROVE  FALSE
    BY <1>2, <1>4, <2>5 DEF OneRequest, LeaveWrite
  <2>6. ASSUME NEW w \in Workers, ReapStrip(w), reaper[w].conn = c
        PROVE  FALSE
    BY <1>1, <1>2, <1>4, <2>6 DEF ReapStrip, Announcing
  <2>7. ASSUME NEW w \in Workers, ReapPurge(w), reaper[w].conn = c, RoomOf(w) = r
        PROVE  FALSE
    BY <2>2, <2>3, <2>7 DEF ReapPurge, PassIsGone
  <2>8. c \in conns'[r]
    BY <2>3, <2>5, <2>6, <2>7, WhoIndexes
  <2> QED
    BY <1>1, <1>2, <2>3, <2>4, <2>8 DEF Live, NoHash
<1> QED
  BY <1>1, <1>3, <1>4

LEMMA UpdateIsStoredStep ==
  ASSUME ~Crashes, Settled, [Next]_vars
  PROVE  UpdateIsStored'
<1> SUFFICES ASSUME NEW p \in Procs, pc'[p] \in UpdatePC, job'[p].changed, Live(job[p].conn)'
             PROVE  hash'[job'[p].conn].state = job'[p].state
  BY DEF UpdateIsStored, Live
<1> USE DEF Settled, RosterInv
<1>1. job'[p] = job[p] /\ (BeatWrite(p) \/ pc[p] \in UpdatePC) /\ pc[p] # "idle"
  BY Phases DEF BeatWrite, UpdatePC
<1>2. PICK c \in Conns : c = job[p].conn
  BY <1>1, JobConn
<1>3. CASE BeatWrite(p)
  <2> DEFINE j == job[p]
             next == [hash[c] EXCEPT !.expires = now + TTL,
                                     !.epoch = IF j.raised THEN j.epoch ELSE @,
                                     !.state = IF j.changed THEN j.state ELSE @]
  <2>1. hash' = [hash EXCEPT ![c] = next]
    BY <1>2, <1>3 DEF BeatWrite, BeatTx
  <2>2. next.state = IF j.changed THEN j.state ELSE hash[c].state
    BY DEF TypeOK, StoreTypeOK, Hash
  <2> HIDE DEF next
  <2> QED
    BY <1>1, <1>2, <2>1, <2>2 DEF TypeOK, StoreTypeOK
<1>4. CASE pc[p] \in UpdatePC
  <2>1. ASSUME NEW q \in Procs, JoinWrite(q) \/ BeatWrite(q), job[q].conn = c
        PROVE  FALSE
    BY <1>1, <1>2, <1>4, <2>1, OnlyItsJoin DEF JoinWrite, BeatWrite, UpdatePC
  <2>2. hash'[c] \in {hash[c], NoHash}
    BY <2>1, HashWriters DEF Writes, ScriptRun, NoScripts, ScriptPC
  <2> QED
    BY <1>1, <1>2, <1>4, <2>2 DEF Live, NoHash, UpdateIsStored
<1> QED
  BY <1>1, <1>3, <1>4

LEMMA PublishesChangeStep ==
  ASSUME ~Crashes, Settled, [Next]_vars
  PROVE  PublishesChange'
BY Phases DEF Settled, RosterInv, PublishesChange, UpdatePC

LEMMA RosterKnownStep ==
  ASSUME Settled, [Next]_vars
  PROVE  RosterKnown'
<1> SUFFICES ASSUME NEW r \in Rooms, NEW c \in Conns, roster'[r][c] # None
             PROVE  LogsInto(c, r)
  BY DEF RosterKnown
<1> USE DEF Settled, RosterInv
<1>1. ASSUME NEW p \in Procs, JoinPublish(p), job[p].conn = c, job[p].room = r
      PROVE  LogsInto(c, r)
  BY <1>1 DEF JoinPublish, JoinPC, Known, KnownJobs, LogsIn, LogsInto
<1> QED
  BY <1>1, WhoDraws DEF RosterKnown

\* Under OneRoom a connection is heard of in one room only.
LEMMA SameRoom ==
  ASSUME OneRoom, NEW c, NEW r, NEW q, LogsInto(c, r), LogsInto(c, q)
  PROVE  r = q
BY DEF OneRoom, LogsInto

\* The rooms a request, an index, a drawing and a live hash name are such rooms.
LEMMA RoomsKnown ==
  ASSUME Settled
  PROVE  /\ \A p \in Procs : pc[p] # "idle" => LogsInto(job[p].conn, job[p].room)
         /\ \A r \in Rooms : \A c \in conns[r] : LogsInto(c, r)
         /\ \A c \in Conns : Live(c) => hash[c].room \in Rooms /\ LogsInto(c, hash[c].room)
<1> USE DEF Settled
<1>1. ASSUME NEW p \in Procs, pc[p] # "idle"
      PROVE  LogsInto(job[p].conn, job[p].room)
  BY <1>1 DEF TypeOK, RequestTypeOK, Shape, Known, KnownJobs, LogsIn, LogsInto
<1>2. ASSUME NEW r \in Rooms, NEW c \in conns[r]
      PROVE  LogsInto(c, r)
  BY <1>2 DEF TypeOK, StoreTypeOK, IndexedIsReapable, Known, KnownIndex
<1>3. ASSUME NEW c \in Conns, Live(c)
      PROVE  hash[c].room \in Rooms /\ LogsInto(c, hash[c].room)
  BY <1>3 DEF TypeOK, StoreTypeOK, Hash, Live, Known, KnownHash, LogsIn, LogsInto
<1> QED
  BY <1>1, <1>2, <1>3

\* A join that stores a session is about to announce it.
LEMMA JoinAnnounces ==
  ASSUME TypeOK, NEW p \in Procs, JoinWrite(p), NEW c \in Conns, job[p].conn = c
  PROVE  Announcing(c)'
BY DEF JoinWrite, Goto, Announcing, TypeOK, RequestTypeOK

LEMMA IndexedIsDrawnStep ==
  ASSUME ~Crashes, OneRoom, Settled, TypeOK', [Next]_vars
  PROVE  IndexedIsDrawn'
<1> SUFFICES ASSUME NEW r \in Rooms, NEW c \in conns'[r], c \notin crossed'
             PROVE  roster'[r][c] # None \/ Announcing(c)'
  BY DEF IndexedIsDrawn, Announcing
<1> USE DEF Settled, RosterInv
<1>0. c \in Conns
  BY DEF TypeOK, StoreTypeOK
<1>1. CASE \E p \in Procs : JoinWrite(p) /\ job[p].conn = c
  BY <1>0, <1>1, JoinAnnounces
<1>2. CASE ~\E p \in Procs : JoinWrite(p) /\ job[p].conn = c
  <2>1. c \in conns[r] /\ c \notin crossed /\ LogsInto(c, r)
    BY <1>0, <1>2, WhoIndexes, RoomsKnown
  <2>2. CASE Announcing(c)
    <3>1. PICK p \in Procs : pc[p] = "joinPublish" /\ job[p].conn = c
      BY <2>2 DEF Announcing
    <3>2. CASE pc'[p] = "joinPublish"
      BY <3>1, <3>2, Phases DEF Announcing
    <3>3. CASE JoinPublish(p)
      <4>1. job[p].room = r
        BY <2>1, <3>1, RoomsKnown, SameRoom
      <4>2. job[p].state \in SUBSET Marks
        BY <3>1, JobAt DEF TypeOK, JoinPC, JoinJob
      <4>3. roster'[r][c] = job[p].state
        BY <1>0, <3>1, <3>3, <4>1 DEF JoinPublish, TypeOK
      <4> QED
        BY <4>2, <4>3, StoreAssumption
    <3> QED
      BY <3>1, <3>2, <3>3, Phases
  <2>3. CASE roster[r][c] # None
    <3>1. ASSUME NEW p \in Procs, JoinPublish(p) \/ BeatPublish(p)
          PROVE  job[p].state # None
      BY <3>1, JobAt, StoreAssumption DEF JoinPublish, BeatPublish, TypeOK, JoinPC, JoinJob, BeatPC, BeatJob
    <3>2. ASSUME NEW p \in Procs, LeavePublish(p), job[p].conn = c, job[p].room = r
          PROVE  FALSE
      BY <2>1, <3>2 DEF LeavePublish, LeftIsGone, LeftPC
    <3>3. ASSUME NEW w \in Workers, ReapPublish(w), reaper[w].conn = c, RoomOf(w) = r
          PROVE  FALSE
      BY <2>1, <3>3 DEF ReapPublish, PassIsGone, StrippedPC
    <3> QED
      BY <1>0, <2>3, <3>1, <3>2, <3>3, WhoDraws
  <2> QED
    BY <2>1, <2>2, <2>3 DEF IndexedIsDrawn
<1> QED
  BY <1>1, <1>2

LEMMA DrawnIsIndexedStep ==
  ASSUME ~Crashes, OneRoom, Settled, [Next]_vars
  PROVE  DrawnIsIndexed'
<1> SUFFICES ASSUME NEW r \in Rooms, NEW c \in Conns, c \notin crossed', roster'[r][c] # None
             PROVE  c \in conns'[r] \/ Departing(r, c)'
  BY DEF DrawnIsIndexed, Departing
<1> USE DEF Settled, RosterInv
<1>1. ASSUME NEW p \in Procs, JoinWrite(p), job[p].conn = c
      PROVE  c \in conns'[r]
  <2>1. pc[p] # "idle" /\ UNCHANGED roster /\ conns' = [conns EXCEPT ![job[p].room] = @ \union {c}]
    BY <1>1 DEF JoinWrite, JoinTx
  <2>2. job[p].room = r
    BY <1>1, <2>1, RoomsKnown, SameRoom DEF RosterKnown
  <2> QED
    BY <2>1, <2>2 DEF TypeOK, StoreTypeOK
<1>2. CASE ~\E p \in Procs : JoinWrite(p) /\ job[p].conn = c
  <2>1. c \notin crossed
    BY <1>2, WhoIndexes
  <2>2. c \in conns[r] \/ Departing(r, c)
    <3>1. ASSUME NEW p \in Procs, JoinPublish(p), job[p].conn = c, job[p].room = r
          PROVE  c \in conns[r]
      BY <2>1, <3>1 DEF JoinPublish, JoinedIsIndexed
    <3> QED
      BY <2>1, <3>1, WhoDraws DEF DrawnIsIndexed
  <2>3. CASE c \in conns[r]
    <3>1. ASSUME NEW p \in Procs, LeaveWrite(p), job[p].conn = c, job[p].room = r
          PROVE  Departing(r, c)'
      <4>1. pc'[p] = "countUser" /\ job' = job
        BY <3>1 DEF LeaveWrite, Goto, TypeOK, RequestTypeOK
      <4> QED
        BY <3>1, <4>1 DEF Departing, LeftPC
    <3>2. ASSUME NEW w \in Workers, ReapStrip(w), reaper[w].conn = c, RoomOf(w) = r
          PROVE  Departing(r, c)'
      <4>1. reaper'[w].conn = c /\ reaper'[w].pc \in StrippedPC
        BY <3>2, PassMoves DEF Reap, StrippedPC
      <4> QED
        BY <3>2, <4>1 DEF Departing
    <3>3. ASSUME NEW w \in Workers, ReapPurge(w), reaper[w].conn = c, RoomOf(w) = r
          PROVE  FALSE
      BY <2>1, <2>3, <3>3 DEF ReapPurge, PassIsGone
    <3> QED
      BY <2>3, <3>1, <3>2, <3>3, WhoIndexes
  <2>4. ASSUME NEW p \in Procs, pc[p] \in LeftPC, job[p].conn = c, job[p].room = r
        PROVE  Departing(r, c)'
    <3>1. CASE pc'[p] \in LeftPC
      <4>1. job'[p].conn = c /\ job'[p].room = r
        BY <2>4, <3>1, Phases DEF LeftPC
      <4> QED
        BY <3>1, <4>1 DEF Departing
    <3>2. CASE LeavePublish(p)
      BY <2>4, <3>2 DEF LeavePublish, TypeOK
    <3> QED
      BY <2>4, <3>1, <3>2, Phases
  <2>5. ASSUME NEW w \in Workers, reaper[w].pc \in StrippedPC, reaper[w].conn = c, RoomOf(w) = r
        PROVE  Departing(r, c)'
    <3>1. CASE reaper'[w].pc \in StrippedPC
      BY <2>5, <3>1, PassPhases DEF Departing
    <3>2. CASE ReapPublish(w)
      BY <2>5, <3>2 DEF ReapPublish, TypeOK
    <3> QED
      BY <2>5, <3>1, <3>2, PassPhases
  <2> QED
    BY <2>2, <2>3, <2>4, <2>5 DEF Departing
<1> QED
  BY <1>1, <1>2

LEMMA StateIsDrawnStep ==
  ASSUME ~Crashes, OneRoom, Settled, [Next]_vars
  PROVE  StateIsDrawn'
<1> SUFFICES ASSUME NEW c \in Conns, c \notin crossed', Live(c)'
             PROVE  roster'[hash'[c].room][c] = hash'[c].state \/ Announcing(c)' \/ Updating(c)'
  BY DEF StateIsDrawn, Live, Announcing, Updating
<1> USE DEF Settled, RosterInv
<1> DEFINE r == hash[c].room
<1>1. CASE \E p \in Procs : JoinWrite(p) /\ job[p].conn = c
  BY <1>1, JoinAnnounces
\* A heartbeat that changes the state is about to publish it.
<1>2. ASSUME NEW p \in Procs, BeatWrite(p), job[p].conn = c
      PROVE  roster'[hash'[c].room][c] = hash'[c].state \/ Updating(c)'
  <2> DEFINE j == job[p]
             next == [hash[c] EXCEPT !.expires = now + TTL,
                                     !.epoch = IF j.raised THEN j.epoch ELSE @,
                                     !.state = IF j.changed THEN j.state ELSE @]
  <2>1. pc[p] = "beatTx" /\ UNCHANGED <<roster, crossed>> /\ hash' = [hash EXCEPT ![c] = next]
    BY <1>2 DEF BeatWrite, BeatTx
  <2>2. /\ next.state = IF j.changed THEN j.state ELSE hash[c].state
        /\ next.room = hash[c].room /\ next.user = hash[c].user
    BY DEF TypeOK, StoreTypeOK, Hash
  <2> HIDE DEF next
  <2>3. hash'[c] = next
    BY <2>1 DEF TypeOK, StoreTypeOK
  <2>4. CASE j.changed
    <3>1. pc'[p] \in UpdatePC /\ job' = job
      BY <1>2, <2>4 DEF BeatWrite, AfterBeat, Goto, UpdatePC, TypeOK, RequestTypeOK
    <3> QED
      BY <1>2, <2>4, <3>1 DEF Updating
  <2>5. CASE ~j.changed
    <3>1. ~Announcing(c) /\ ~Updating(c)
      BY <1>2, <2>1 DEF OneRequest, Announcing, Updating, UpdatePC
    <3>2. Live(c)
      BY <2>2, <2>3 DEF Live
    <3> QED
      BY <2>1, <2>2, <2>3, <2>5, <3>1, <3>2 DEF StateIsDrawn
  <2> QED
    BY <2>4, <2>5
<1>3. CASE ~\E p \in Procs : (JoinWrite(p) \/ BeatWrite(p)) /\ job[p].conn = c
  <2>1. hash'[c] = hash[c] /\ Live(c)
    <3>1. hash'[c] \in {hash[c], NoHash}
      BY <1>3, HashWriters DEF Writes, ScriptRun, NoScripts, ScriptPC
    <3>2. hash'[c].room # None /\ hash'[c].user # None
      BY DEF Live
    <3>3. hash'[c] # NoHash
      BY <3>2 DEF NoHash
    <3> QED
      BY <3>1, <3>2, <3>3 DEF Live
  <2>2. r \in Rooms /\ LogsInto(c, r)
    BY <2>1, RoomsKnown
  <2>3. c \notin crossed
    BY <1>3, <2>2, WhoIndexes
  <2>4. ASSUME NEW p \in Procs, pc[p] # "idle", job[p].conn = c
        PROVE  job[p].room = r
    BY <2>2, <2>4, RoomsKnown, SameRoom
  <2>5. ASSUME NEW p \in Procs, JoinPublish(p) \/ BeatPublish(p), job[p].conn = c
        PROVE  job[p].state = hash[c].state
    <3>1. CASE JoinPublish(p)
      BY <2>1, <2>3, <2>5, <3>1 DEF JoinPublish, JoinedIsIndexed
    <3>2. CASE BeatPublish(p)
      BY <2>1, <2>5, <3>2 DEF BeatPublish, UpdateIsStored, PublishesChange, UpdatePC
    <3> QED
      BY <2>5, <3>1, <3>2
  <2>6. CASE Announcing(c)
    <3>1. PICK p \in Procs : pc[p] = "joinPublish" /\ job[p].conn = c
      BY <2>6 DEF Announcing
    <3>2. CASE pc'[p] = "joinPublish"
      BY <3>1, <3>2, Phases DEF Announcing
    <3>3. CASE JoinPublish(p)
      <4>1. roster'[r][c] = job[p].state
        BY <2>2, <2>4, <3>1, <3>3 DEF JoinPublish, TypeOK
      <4> QED
        BY <2>1, <2>5, <3>1, <3>3, <4>1
    <3> QED
      BY <3>1, <3>2, <3>3, Phases
  <2>7. CASE Updating(c) /\ ~Announcing(c)
    <3>1. PICK p \in Procs : pc[p] \in UpdatePC /\ job[p].changed /\ job[p].conn = c
      BY <2>7 DEF Updating
    <3>2. CASE pc'[p] \in UpdatePC
      BY <3>1, <3>2, Phases DEF Updating
    <3>3. CASE BeatPublish(p)
      <4>1. roster[r][c] # None
        BY <2>1, <2>3, <2>2, <2>7 DEF SessionInv, LiveSessionIsIndexed, IndexedIsDrawn
      <4>2. job[p].room = r
        BY <2>4, <3>1 DEF UpdatePC
      <4>3. roster'[r][c] = job[p].state
        BY <2>2, <3>1, <3>3, <4>1, <4>2 DEF BeatPublish, TypeOK
      <4> QED
        BY <2>1, <2>5, <3>1, <3>3, <4>3
    <3> QED
      BY <3>1, <3>2, <3>3, Phases
  <2>8. CASE roster[r][c] = hash[c].state
    <3>1. ASSUME NEW p \in Procs, LeavePublish(p), job[p].conn = c
          PROVE  FALSE
      BY <2>1, <3>1 DEF LeavePublish, LeftIsGone, LeftPC
    <3>2. ASSUME NEW w \in Workers, ReapPublish(w), reaper[w].conn = c
          PROVE  FALSE
      BY <2>1, <2>3, <3>2 DEF SessionInv, WorkedOnIsDead
    <3> QED
      BY <2>1, <2>2, <2>5, <2>8, <3>1, <3>2, WhoDraws
  <2> QED
    BY <2>1, <2>3, <2>6, <2>7, <2>8 DEF StateIsDrawn
<1> QED
  BY <1>1, <1>2, <1>3

LEMMA RosterInit ==
  ASSUME Init
  PROVE  OneRequest /\ NoScripts /\ RosterInv
<1>1. \A p \in Procs : pc[p] = "idle"
  BY DEF Init
<1>2. \A w \in Workers : reaper[w].pc = "idle"
  <2>1. NoPass.pc = "idle" /\ \A w \in Workers : reaper[w] = NoPass
    BY DEF Init, NoPass
  <2> QED
    BY <2>1
<1>3. /\ \A r \in Rooms : conns[r] = {} /\ \A c \in Conns : roster[r][c] = None
      /\ \A c \in Conns : ~Live(c)
  BY DEF Init, StoreInit, Live, NoHash
<1>4. PassIsGone /\ IndexedIsDrawn /\ DrawnIsIndexed /\ RosterKnown /\ StateIsDrawn
  BY <1>2, <1>3 DEF PassIsGone, StrippedPC, IndexedIsDrawn, DrawnIsIndexed, RosterKnown, StateIsDrawn
<1>5. LeftIsGone /\ JoinedIsIndexed /\ UpdateIsStored /\ PublishesChange /\ OneRequest /\ NoScripts
  BY <1>1 DEF LeftIsGone, LeftPC, JoinedIsIndexed, UpdateIsStored, UpdatePC, PublishesChange, OneRequest,
     NoScripts, ScriptPC
<1> QED
  BY <1>4, <1>5 DEF RosterInv

\* With one request at a time on a connection, no crash and heartbeats run by the service,
\* the events tell the truth: with nothing in progress on a connection that no pass has
\* crossed, subscribers draw it in exactly the rooms that index it, with its state.
THEOREM Truthful ==
  ASSUME Serial, ServiceOnly, ~Crashes, OneRoom
  PROVE  Spec => []RosterAgrees
<1> DEFINE Inv == OneRequest /\ NoScripts /\ RosterInv
           Given == TypeOK /\ Known /\ SessionInv /\ IndexedIsReapable
<1>1. Init => Inv
  BY RosterInit
<1>2. Inv /\ Given /\ TypeOK' /\ [Next]_vars => Inv'
  BY OneRequestStep, NoScriptsStep, PassIsGoneStep, LeftIsGoneStep, JoinedIsIndexedStep, UpdateIsStoredStep,
     PublishesChangeStep, RosterKnownStep, IndexedIsDrawnStep, DrawnIsIndexedStep, StateIsDrawnStep
     DEF Settled, RosterInv
<1>3. Inv /\ Given => RosterAgrees
  <2> SUFFICES ASSUME Settled, NEW c \in Conns, c \notin crossed, Quiet(c), NEW r \in Rooms
               PROVE  /\ roster[r][c] # None <=> c \in conns[r]
                      /\ Live(c) /\ hash[c].room = r => roster[r][c] = hash[c].state
    BY DEF RosterAgrees, Settled
  <2>1. ~Announcing(c) /\ ~Updating(c) /\ ~Departing(r, c)
    BY DEF Quiet, Busy, WorkedOn, Announcing, Updating, UpdatePC, Departing, LeftPC
  <2> QED
    BY <2>1 DEF Settled, RosterInv, IndexedIsDrawn, DrawnIsIndexed, StateIsDrawn
<1>4. Spec => [](TypeOK /\ IndexedIsReapable /\ SessionInv /\ Known)
  BY TypeCorrect, Reapable, SessionsKept, OnlyLogins, PTL
<1> QED
  BY <1>1, <1>2, <1>3, <1>4, PTL DEF Spec
=============================================================================
