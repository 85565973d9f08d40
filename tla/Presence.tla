------------------------------ MODULE Presence ------------------------------
(***************************************************************************)
(* The presence service: requests (join, heartbeat, leave) and reaper      *)
(* passes running against one Redis, from any number of server processes.  *)
(* One action is one command, MULTI block or script; between two of them   *)
(* anything else may run, and what a request read is kept in its job.      *)
(***************************************************************************)
EXTENDS PresenceStore

CONSTANTS
  Procs,           \* requests that can be in progress at once
  Nodes,           \* server processes running the reaper
  Logins,          \* the (conn, room, user) triples presence:join is sent with
  RequestEpochs,   \* the epochs clients put in a heartbeat
  Heartbeats,      \* heartbeat paths configured: "service", "script" or both
  Lookback,        \* options.reaperLookbackMs, in clock units
  Serial,          \* TRUE: no request on a connection while another is in progress
  Crashes,         \* TRUE: server processes may die between two commands
  MaxEpoch         \* bound: no join that would take a connection's epoch past it

ASSUME PresenceAssumption ==
  /\ Logins \subseteq [conn: Conns, room: Rooms, user: Users]
  /\ RequestEpochs \subseteq Nat
  /\ Heartbeats \subseteq {"service", "script"}
  /\ Lookback \in Nat
  /\ Serial \in BOOLEAN
  /\ Crashes \in BOOLEAN
  /\ MaxEpoch \in Nat

VARIABLES
  pc,           \* where each request is
  job,          \* what it was called with and has read
  reaper,       \* where each node's pass over each room is
  roster,       \* the state of each member of a room, as a subscriber of its events draws it
  crossed       \* history: connections whose last join and a reaper pass crossed

vars == <<storeVars, pc, job, reaper, roster, crossed>>

Workers == Nodes \X Rooms

JoinJob == [conn: Conns, room: Rooms, user: Users, epoch: Epochs,
            state: SUBSET Marks, at: Nat \ {0}, todo: SUBSET Conns, seen: SUBSET Conns]
BeatJob == [conn: Conns, room: Rooms, user: Users, epoch: Epochs,
            state: SUBSET Marks, at: Nat \ {0}, raised: BOOLEAN, changed: BOOLEAN]
ScriptJob == [conn: Conns, room: Rooms, request: Epochs, patch: SUBSET Marks, at: Nat \ {0}]
LeaveJob == [conn: Conns, room: Rooms, user: Users, epoch: Epochs,
             alone: BOOLEAN, empty: BOOLEAN]

JoinPC == {"joinTx", "joinPublish", "snapIndex", "snapRead", "joinAck"}
BeatPC == {"beatTx", "beatMeta", "beatPublish"}
ScriptPC == {"beatScript"}
LeavePC == {"leaveTx", "countUser", "countRoom", "dropMember", "dropRoom", "leavePublish"}

\* The points of a pass, by what it holds: nothing yet, a connection, and its user too.
SeekPC == {"idle", "range", "exists", "dropRoom"}
AnonPC == {"meta", "purge"}
NamedPC == {"strip", "countUser", "dropMember", "publish"}

Pass == {s \in [pc: SeekPC \union AnonPC \union NamedPC, at: Nat, todo: SUBSET Conns,
                conn: Conns \union {None}, user: Users \union {None}] :
           /\ s.pc \in SeekPC <=> s.conn = None
           /\ s.pc \in NamedPC => s.user # None}
NoPass == [pc |-> "idle", at |-> 0, todo |-> {}, conn |-> None, user |-> None]

\* What a request holds at each point.
Shape(at, j) ==
  \/ at = "idle" /\ j = None
  \/ at \in JoinPC /\ j \in JoinJob
  \/ at \in BeatPC /\ j \in BeatJob
  \/ at \in ScriptPC /\ j \in ScriptJob
  \/ at \in LeavePC /\ j \in LeaveJob

RequestTypeOK ==
  /\ DOMAIN pc = Procs /\ DOMAIN job = Procs
  /\ \A p \in Procs : Shape(pc[p], job[p])

\* Type invariant: every key and every request in progress has its shape.
TypeOK ==
  /\ StoreTypeOK
  /\ RequestTypeOK
  /\ reaper \in [Workers -> Pass]
  /\ roster \in [Rooms -> [Conns -> (SUBSET Marks) \union {None}]]
  /\ crossed \in SUBSET Conns

Init ==
  /\ StoreInit
  /\ pc = [p \in Procs |-> "idle"]
  /\ job = [p \in Procs |-> None]
  /\ reaper = [w \in Workers |-> NoPass]
  /\ roster = [r \in Rooms |-> [c \in Conns |-> None]]
  /\ crossed = {}

-----------------------------------------------------------------------------
(* Requests: how they start, go on and end *)

Busy(c) == \E p \in Procs : pc[p] # "idle" /\ job[p].conn = c

\* A request on connection c may start in slot p.
CanStart(p, c) == pc[p] = "idle" /\ (Serial => ~Busy(c))

Start(p, at, j) ==
  /\ pc' = [pc EXCEPT ![p] = at]
  /\ job' = [job EXCEPT ![p] = j]
  /\ UNCHANGED <<reaper, roster, crossed>>

Goto(p, at) == pc' = [pc EXCEPT ![p] = at]

Finish(p) ==
  /\ pc' = [pc EXCEPT ![p] = "idle"]
  /\ job' = [job EXCEPT ![p] = None]

-----------------------------------------------------------------------------
(* join *)

\* HGET epoch, and the epoch of the new session computed from the answer.
JoinRead(p) ==
  \E l \in Logins, s \in SUBSET Marks :
    LET e == NextEpoch(hash[l.conn].epoch, now) IN
    /\ CanStart(p, l.conn)
    /\ e <= MaxEpoch
    /\ Start(p, "joinTx", [conn |-> l.conn, room |-> l.room, user |-> l.user, epoch |-> e,
                           state |-> s, at |-> now, todo |-> {}, seen |-> {}])
    /\ UNCHANGED storeVars

WorkedOn(c) == \E w \in Workers : reaper[w].conn = c

\* The MULTI, whatever the hash holds by now.
JoinWrite(p) ==
  /\ pc[p] = "joinTx"
  /\ LET j == job[p] IN
     /\ JoinTx(j.conn, j.room, j.user, j.epoch, j.state, j.at)
     /\ crossed' = IF WorkedOn(j.conn) THEN crossed \union {j.conn} ELSE crossed \ {j.conn}
  /\ Goto(p, "joinPublish")
  /\ UNCHANGED <<job, reaper, roster>>

JoinPublish(p) ==
  /\ pc[p] = "joinPublish"
  /\ roster' = [roster EXCEPT ![job[p].room][job[p].conn] = job[p].state]
  /\ Goto(p, "snapIndex")
  /\ UNCHANGED <<storeVars, job, reaper, crossed>>

\* fetchRoomSnapshot: SMEMBERS, then a pipeline of one HGETALL per member, taken
\* at one instant (what is said of a snapshot concerns one entry of it at a time);
\* a hash without user_id is left out.
SnapIndex(p) ==
  /\ pc[p] = "snapIndex"
  /\ job' = [job EXCEPT ![p].todo = conns[job[p].room]]
  /\ Goto(p, "snapRead")
  /\ UNCHANGED <<storeVars, reaper, roster, crossed>>

SnapRead(p) ==
  /\ pc[p] = "snapRead"
  /\ job' = [job EXCEPT ![p].todo = {},
                        ![p].seen = {c \in job[p].todo : hash[c].user # None}]
  /\ Goto(p, "joinAck")
  /\ UNCHANGED <<storeVars, reaper, roster, crossed>>

\* The snapshot is handed to the caller.
JoinAck(p) ==
  /\ pc[p] = "joinAck"
  /\ Finish(p)
  /\ UNCHANGED <<storeVars, reaper, roster, crossed>>

-----------------------------------------------------------------------------
(* heartbeat, as PresenceService runs it *)

\* HGETALL, the fence and the merge of the patch.  A request without epoch
\* keeps the one read; a patch that changes nothing writes no state.
BeatRead(p) ==
  \E c \in Conns : \E e \in RequestEpochs \union {hash[c].epoch}, patch \in SUBSET Marks :
    /\ "service" \in Heartbeats
    /\ CanStart(p, c)
    /\ Live(c)
    /\ e >= hash[c].epoch
    /\ Start(p, "beatTx", [conn |-> c, room |-> hash[c].room, user |-> hash[c].user,
                           epoch |-> e, state |-> hash[c].state \union patch, at |-> now,
                           raised |-> e > hash[c].epoch,
                           changed |-> ~(patch \subseteq hash[c].state)])
    /\ UNCHANGED storeVars

\* Mutant of AfterBeat: no update event.
AfterBeatSilent(p) == Finish(p)

AfterBeat(p) == IF job[p].changed THEN Goto(p, "beatPublish") /\ UNCHANGED job ELSE Finish(p)

BeatWrite(p) ==
  /\ pc[p] = "beatTx"
  /\ LET j == job[p] IN BeatTx(j.conn, j.room, j.epoch, j.state, j.raised, j.changed, j.at)
  /\ IF job[p].raised THEN Goto(p, "beatMeta") /\ UNCHANGED job
     ELSE AfterBeat(p)
  /\ UNCHANGED <<reaper, roster, crossed>>

BeatMeta(p) ==
  /\ pc[p] = "beatMeta"
  /\ LET j == job[p] IN PutMeta(j.conn, j.room, j.user, j.epoch)
  /\ AfterBeat(p)
  /\ UNCHANGED <<reaper, roster, crossed>>

\* The update event: a subscriber that does not draw the connection ignores it.
BeatPublish(p) ==
  /\ pc[p] = "beatPublish"
  /\ roster' = [roster EXCEPT ![job[p].room][job[p].conn] = IF @ = None THEN None
                                                            ELSE job[p].state]
  /\ Finish(p)
  /\ UNCHANGED <<storeVars, reaper, crossed>>

-----------------------------------------------------------------------------
(* heartbeat, as LuaHeartbeatExecutor runs it *)

\* HGET room_id, to build the script's keys.
ScriptRead(p) ==
  \E c \in Conns, e \in RequestEpochs \union {0}, patch \in SUBSET Marks :
    /\ "script" \in Heartbeats
    /\ CanStart(p, c)
    /\ hash[c].room # None
    /\ Start(p, "beatScript", [conn |-> c, room |-> hash[c].room, request |-> e,
                               patch |-> patch, at |-> now])
    /\ UNCHANGED storeVars

\* HEARTBEAT_SCRIPT, with request 0 for a heartbeat without epoch.  It finds
\* the hash gone or the request stale and writes nothing, or writes it all;
\* no event is published.
ScriptRun(p) ==
  /\ pc[p] = "beatScript"
  /\ LET j == job[p]
         current == hash[j.conn].epoch
     IN \/ /\ ~Live(j.conn) \/ (j.request # 0 /\ j.request < current)
           /\ UNCHANGED storeVars
        \/ /\ Live(j.conn) /\ (j.request = 0 \/ j.request >= current)
           /\ BeatScript(j.conn, j.room, IF j.request = 0 THEN current ELSE j.request,
                         hash[j.conn].state \union j.patch, j.at)
  /\ Finish(p)
  /\ UNCHANGED <<reaper, roster, crossed>>

\* NOSCRIPT: Redis has lost the script and ran nothing; it is loaded again and the
\* heartbeat starts over.
ScriptReload(p) ==
  /\ pc[p] = "beatScript"
  /\ LET c == job[p].conn IN
     IF hash[c].room = None THEN Finish(p)
     ELSE /\ job' = [job EXCEPT ![p].room = hash[c].room, ![p].at = now]
          /\ UNCHANGED pc
  /\ UNCHANGED <<storeVars, reaper, roster, crossed>>

-----------------------------------------------------------------------------
(* leave, called by presence:leave and by disconnect *)

\* HGETALL; without a live hash there is nothing to clean up.
LeaveRead(p) ==
  \E c \in Conns :
    /\ CanStart(p, c)
    /\ Live(c)
    /\ Start(p, "leaveTx", [conn |-> c, room |-> hash[c].room, user |-> hash[c].user,
                            epoch |-> hash[c].epoch, alone |-> FALSE, empty |-> FALSE])
    /\ UNCHANGED storeVars

LeaveWrite(p) ==
  /\ pc[p] = "leaveTx"
  /\ LeaveTx(job[p].conn, job[p].room, job[p].user)
  /\ Goto(p, "countUser")
  /\ UNCHANGED <<job, reaper, roster, crossed>>

\* HVALS conn_meta and SCARD conns are sent together, in this order.
LeaveCountUser(p) ==
  /\ pc[p] = "countUser"
  /\ job' = [job EXCEPT ![p].alone = NoConnOf(job[p].room, job[p].user)]
  /\ Goto(p, "countRoom")
  /\ UNCHANGED <<storeVars, reaper, roster, crossed>>

AfterDrop(j) == IF j.empty THEN "dropRoom" ELSE "leavePublish"

LeaveCountRoom(p) ==
  /\ pc[p] = "countRoom"
  /\ LET j == [job[p] EXCEPT !.empty = conns[job[p].room] = {}] IN
     /\ job' = [job EXCEPT ![p] = j]
     /\ Goto(p, IF j.alone THEN "dropMember" ELSE AfterDrop(j))
  /\ UNCHANGED <<storeVars, reaper, roster, crossed>>

LeaveDropMember(p) ==
  /\ pc[p] = "dropMember"
  /\ DropMember(job[p].room, job[p].user)
  /\ Goto(p, AfterDrop(job[p]))
  /\ UNCHANGED <<job, reaper, roster, crossed>>

LeaveDropRoom(p) ==
  /\ pc[p] = "dropRoom"
  /\ DropRoom(job[p].room)
  /\ Goto(p, "leavePublish")
  /\ UNCHANGED <<job, reaper, roster, crossed>>

LeavePublish(p) ==
  /\ pc[p] = "leavePublish"
  /\ roster' = [roster EXCEPT ![job[p].room][job[p].conn] = None]
  /\ Finish(p)
  /\ UNCHANGED <<storeVars, reaper, crossed>>

-----------------------------------------------------------------------------
(* The reaper: worker <<n, r>> is node n's pass over room r *)

RoomOf(w) == w[2]

Pause(w, at) == reaper' = [reaper EXCEPT ![w] = [@ EXCEPT !.pc = at]]

\* reapOnce: a room found in active_rooms, and the time of the pass.
ReapStart(w) ==
  /\ reaper[w].pc = "idle"
  /\ RoomOf(w) \in activeRooms
  /\ reaper' = [reaper EXCEPT ![w] = [NoPass EXCEPT !.pc = "range", !.at = now]]
  /\ UNCHANGED <<storeVars, pc, job, roster, crossed>>

\* ZRANGEBYSCORE last_seen 0 cutoff; with no stale connection the pass is over.
ReapRange(w) ==
  /\ reaper[w].pc = "range"
  /\ LET stale == {c \in Conns : /\ lastSeen[RoomOf(w)][c] > 0
                                 /\ lastSeen[RoomOf(w)][c] + Lookback <= reaper[w].at}
     IN reaper' = [reaper EXCEPT ![w] =
                     IF stale = {} THEN NoPass
                     ELSE [NoPass EXCEPT !.pc = "exists", !.todo = stale]]
  /\ UNCHANGED <<storeVars, pc, job, roster, crossed>>

\* EXISTS conn: a connection whose hash is still there is skipped.
ReapExists(w) ==
  /\ reaper[w].pc = "exists"
  /\ \E c \in reaper[w].todo :
       LET left == [reaper[w] EXCEPT !.todo = @ \ {c}]
           taken == [left EXCEPT !.conn = c, !.pc = "meta"]
       IN reaper' = [reaper EXCEPT ![w] = IF Exists(c) THEN left ELSE taken]
  /\ UNCHANGED <<storeVars, pc, job, roster, crossed>>

\* HGET conn_meta.
ReapMeta(w) ==
  /\ reaper[w].pc = "meta"
  /\ LET user == connMeta[RoomOf(w)][reaper[w].conn].user IN
     reaper' = [reaper EXCEPT ![w] =
                  [@ EXCEPT !.user = user, !.pc = IF user = None THEN "purge" ELSE "strip"]]
  /\ UNCHANGED <<storeVars, pc, job, roster, crossed>>

NextStale(w) ==
  reaper' = [reaper EXCEPT ![w] = [@ EXCEPT !.pc = "exists", !.conn = None, !.user = None]]

ReapPurge(w) ==
  /\ reaper[w].pc = "purge"
  /\ PurgeTx(reaper[w].conn, RoomOf(w))
  /\ NextStale(w)
  /\ UNCHANGED <<pc, job, roster, crossed>>

\* A join has stored its session and not yet published it.
Announcing(c) == \E p \in Procs : pc[p] = "joinPublish" /\ job[p].conn = c

ReapStrip(w) ==
  /\ reaper[w].pc = "strip"
  /\ StripTx(reaper[w].conn, RoomOf(w), reaper[w].user)
  /\ crossed' = crossed \union {c \in {reaper[w].conn} : Announcing(c)}
  /\ Pause(w, "countUser")
  /\ UNCHANGED <<pc, job, roster>>

ReapCountUser(w) ==
  /\ reaper[w].pc = "countUser"
  /\ Pause(w, IF NoConnOf(RoomOf(w), reaper[w].user) THEN "dropMember" ELSE "publish")
  /\ UNCHANGED <<storeVars, pc, job, roster, crossed>>

\* Mutant of ReapDropMember: no leave is published when the user's last connection goes.
ReapDropMemberQuiet(w) ==
  /\ reaper[w].pc = "dropMember"
  /\ DropMember(RoomOf(w), reaper[w].user)
  /\ NextStale(w)
  /\ UNCHANGED <<pc, job, roster, crossed>>

ReapDropMember(w) ==
  /\ reaper[w].pc = "dropMember"
  /\ DropMember(RoomOf(w), reaper[w].user)
  /\ Pause(w, "publish")
  /\ UNCHANGED <<pc, job, roster, crossed>>

ReapPublish(w) ==
  /\ reaper[w].pc = "publish"
  /\ roster' = [roster EXCEPT ![RoomOf(w)][reaper[w].conn] = None]
  /\ NextStale(w)
  /\ UNCHANGED <<storeVars, pc, job, crossed>>

\* SCARD conns, once every stale connection has been dealt with.
ReapCountRoom(w) ==
  /\ reaper[w].pc = "exists" /\ reaper[w].todo = {}
  /\ reaper' = [reaper EXCEPT ![w] = IF conns[RoomOf(w)] = {}
                                     THEN [NoPass EXCEPT !.pc = "dropRoom"] ELSE NoPass]
  /\ UNCHANGED <<storeVars, pc, job, roster, crossed>>

ReapDropRoom(w) ==
  /\ reaper[w].pc = "dropRoom"
  /\ DropRoom(RoomOf(w))
  /\ reaper' = [reaper EXCEPT ![w] = NoPass]
  /\ UNCHANGED <<pc, job, roster, crossed>>

-----------------------------------------------------------------------------
(* Environment and specification *)

Clock == Tick /\ UNCHANGED <<pc, job, reaper, roster, crossed>>

\* A server process dies: its requests and passes stop between two commands.
CrashRequest(p) ==
  /\ Crashes /\ pc[p] # "idle"
  /\ Finish(p)
  /\ UNCHANGED <<storeVars, reaper, roster, crossed>>

CrashPass(w) ==
  /\ Crashes /\ reaper[w].pc # "idle"
  /\ reaper' = [reaper EXCEPT ![w] = NoPass]
  /\ UNCHANGED <<storeVars, pc, job, roster, crossed>>

Join(p) == JoinRead(p) \/ JoinWrite(p) \/ JoinPublish(p) \/ SnapIndex(p) \/ SnapRead(p) \/ JoinAck(p)

Heartbeat(p) == BeatRead(p) \/ BeatWrite(p) \/ BeatMeta(p) \/ BeatPublish(p)

ScriptHeartbeat(p) == ScriptRead(p) \/ ScriptRun(p) \/ ScriptReload(p)

Leave(p) ==
  \/ LeaveRead(p) \/ LeaveWrite(p) \/ LeaveCountUser(p) \/ LeaveCountRoom(p)
  \/ LeaveDropMember(p) \/ LeaveDropRoom(p) \/ LeavePublish(p)

Reap(w) ==
  \/ ReapStart(w) \/ ReapRange(w) \/ ReapExists(w) \/ ReapMeta(w) \/ ReapPurge(w)
  \/ ReapStrip(w) \/ ReapCountUser(w) \/ ReapDropMember(w) \/ ReapPublish(w)
  \/ ReapCountRoom(w) \/ ReapDropRoom(w)

Next ==
  \/ \E p \in Procs : Join(p) \/ Heartbeat(p) \/ ScriptHeartbeat(p) \/ Leave(p) \/ CrashRequest(p)
  \/ \E w \in Workers : Reap(w) \/ CrashPass(w)
  \/ Clock

Spec == Init /\ [][Next]_vars

\* A request in progress goes on.
Proceed(p) == pc[p] # "idle" /\ (Join(p) \/ Heartbeat(p) \/ ScriptHeartbeat(p) \/ Leave(p))

\* Redis answers every command and setInterval starts every pass: neither a request
\* nor a pass stops for ever between two commands.  Clients need not send anything
\* and the clock need not advance.
FairSpec ==
  /\ Spec
  /\ \A p \in Procs : WF_vars(Proceed(p))
  /\ \A w \in Workers : WF_vars(Reap(w))
=============================================================================
