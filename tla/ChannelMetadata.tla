-------------------------- MODULE ChannelMetadata --------------------------
(***************************************************************************)
(* The metadata methods of PresenceService, used when transactional        *)
(* metadata is off: check the lock, read the record, check the revisions,  *)
(* write the record back and publish what changed.  Each is a command of   *)
(* its own: calls interleave between them, and the lock can move.          *)
(***************************************************************************)
EXTENDS MetadataOps

CONSTANTS
  Calls,      \* calls that can be in progress at once
  NoCall,     \* what an idle call holds
  Nobody,     \* the owner of a lock that is not held
  MaxMajor    \* bound: no call starts once the major revision has reached it

ASSUME ServiceAssumption ==
  /\ Nobody \notin Actors
  /\ MaxMajor \in Nat

VARIABLES
  channel,    \* prs:{chan:<type>:<name>}:meta
  lockOwner,  \* prs:lock:<name>, set by whoever manages locks: not this program
  pc,         \* where each call is
  call,       \* its request and the contents it read
  replica,    \* the contents as a subscriber of the channel's events has them
  crossed,    \* history: the calls between their check and their write are not safe by the lock
  lost        \* history: the events published do not add up to the record

vars == <<channel, lockOwner, pc, call, replica, crossed, lost>>

\* Type invariant: contents and calls have their shapes.
TypeOK ==
  /\ IsChannel(channel) /\ IsChannel(replica)
  /\ lockOwner \in Actors \union {Nobody}
  /\ pc \in [Calls -> {"idle", "read", "persist", "publish"}]
  /\ DOMAIN call = Calls
  /\ \A p \in Calls :
       IF pc[p] = "idle" THEN call[p] = NoCall
       ELSE call[p] \in [request: Requests, read: {call[p].read}] /\ IsChannel(call[p].read)
  /\ crossed \in BOOLEAN /\ lost \in BOOLEAN

Init ==
  /\ channel = NoChannel
  /\ lockOwner = Nobody
  /\ pc = [p \in Calls |-> "idle"]
  /\ call = [p \in Calls |-> NoCall]
  /\ replica = NoChannel
  /\ crossed = FALSE
  /\ lost = FALSE

-----------------------------------------------------------------------------
(* Events *)

\* Mutant: the items come from the record before the change.
ChannelEventBefore(ch, q) ==
  [operation |-> q.kind,
   items |-> IF q.kind = "set" THEN RecordForSet(q)
             ELSE [k \in Doomed(ch, q) \intersect Keys(ch.items) |-> ch.items[k]],
   major |-> NextMajor(ch.major)]

\* The event of a request applied to contents ch: what a removal names is what it removed.
ChannelEvent(ch, q) ==
  [operation |-> q.kind,
   items |-> CASE q.kind = "set" -> RecordForSet(q)
               [] q.kind = "update" -> [k \in Keys(q.data) |-> UpdatedRecord(ch, q)[k]]
               [] q.kind = "remove" -> [k \in Doomed(ch, q) \intersect Keys(ch.items) |-> ch.items[k]],
   major |-> NextMajor(ch.major)]

\* What a subscriber makes of it.
Learn(rep, e) ==
  [items |-> CASE e.operation = "set" -> e.items
               [] e.operation = "update" ->
                    [k \in Keys(rep.items) \union Keys(e.items) |->
                       IF k \in Keys(e.items) THEN e.items[k] ELSE rep.items[k]]
               [] e.operation = "remove" ->
                    [k \in Keys(rep.items) \ Keys(e.items) |-> rep.items[k]],
   major |-> e.major]

-----------------------------------------------------------------------------
(* A call *)

Return(p) ==
  /\ pc' = [pc EXCEPT ![p] = "idle"]
  /\ call' = [call EXCEPT ![p] = NoCall]

\* Calls that have checked the lock and not yet written.
Exposed == {p \in Calls : pc[p] \in {"read", "persist"}}

\* The lock cannot keep request q and some exposed call apart: one of them does not ask for
\* it, or both are its owner's.
Overlaps(q) ==
  \E p \in Exposed : LET r == call[p].request IN ~q.locked \/ ~r.locked \/ r.actor = q.actor

\* The crossing is over when no exposed call is left.
StillCrossed(p) == crossed /\ Exposed \ {p} # {}

\* Mutant: the lock is only required to be held, by anyone.
HeldBySomeone(q) == q.locked => lockOwner # Nobody

\* verifyMetadataLock
HoldsLock(q) == q.locked => lockOwner = q.actor

Begin(p) ==
  \E q \in Requests :
    /\ pc[p] = "idle"
    /\ channel.major < MaxMajor
    /\ HoldsLock(q)
    /\ crossed' = (crossed \/ Overlaps(q))
    /\ pc' = [pc EXCEPT ![p] = "read"]
    /\ call' = [call EXCEPT ![p] = [request |-> q, read |-> NoChannel]]
    /\ UNCHANGED <<channel, lockOwner, replica, lost>>

\* A removal that finds nothing to remove changes nothing.
Writes(ch, q) ==
  /\ Passes(ch, q)
  /\ q.kind = "remove" => Doomed(ch, q) \intersect Keys(ch.items) # {}

\* readChannelMetadataState and the checks.
ReadPasses(p) ==
  /\ pc[p] = "read"
  /\ Writes(channel, call[p].request)
  /\ pc' = [pc EXCEPT ![p] = "persist"]
  /\ call' = [call EXCEPT ![p] = [@ EXCEPT !.read = channel]]
  /\ UNCHANGED <<channel, lockOwner, replica, crossed, lost>>

\* An error, or a removal that answers at once.
ReadReturns(p) ==
  /\ pc[p] = "read"
  /\ ~Writes(channel, call[p].request)
  /\ Return(p)
  /\ crossed' = StillCrossed(p)
  /\ UNCHANGED <<channel, lockOwner, replica, lost>>

\* Calls that have written and not yet told.
Untold == {p \in Calls : pc[p] = "publish"}

\* persistChannelMetadata: the record built from what was read.  A crossed write drops a
\* change that was or will be told; a set starts the record anew.
Persist(p) ==
  /\ pc[p] = "persist"
  /\ channel' = After(call[p].read, call[p].request)
  /\ pc' = [pc EXCEPT ![p] = "publish"]
  /\ crossed' = StillCrossed(p)
  /\ lost' = (crossed \/ (lost /\ (call[p].request.kind # "set" \/ Untold # {})))
  /\ UNCHANGED <<lockOwner, call, replica>>

\* Its event is told before that of an earlier write.
Overtakes(p) == \E o \in Untold : call[o].read.major < call[p].read.major

\* publishMetadataEvent
Publish(p) ==
  /\ pc[p] = "publish"
  /\ replica' = Learn(replica, ChannelEvent(call[p].read, call[p].request))
  /\ lost' = (lost \/ Overtakes(p))
  /\ Return(p)
  /\ UNCHANGED <<channel, lockOwner, crossed>>

\* A command is rejected or the process ends: what the call wrote so far stays.
Fail(p) ==
  /\ pc[p] # "idle"
  /\ crossed' = StillCrossed(p)
  /\ lost' = (lost \/ pc[p] = "publish")
  /\ Return(p)
  /\ UNCHANGED <<channel, lockOwner, replica>>

\* Locks are taken, released and let expire outside this program, at any time.
LockMoves ==
  /\ lockOwner' \in (Actors \union {Nobody}) \ {lockOwner}
  /\ crossed' = (crossed \/ \E p \in Exposed : call[p].request.locked /\ call[p].request.actor = lockOwner)
  /\ UNCHANGED <<channel, pc, call, replica, lost>>

Step(p) == Begin(p) \/ ReadPasses(p) \/ ReadReturns(p) \/ Persist(p) \/ Publish(p) \/ Fail(p)

Next == LockMoves \/ \E p \in Calls : Step(p)

Spec == Init /\ [][Next]_vars

-----------------------------------------------------------------------------
(* Properties *)

Register == INSTANCE MetadataRegister

\* "Exclusive writes" under a named lock: while no owner loses the lock or starts a second
\* call, and no caller goes without it, between a check and its write, every write applies a
\* request to the contents of that moment, though check, read and write are separate commands.
ExclusiveWrites == Register!Init /\ [][~crossed => Register!Next]_channel

\* When every written change was told, each in its turn, and none was written crossed, since
\* the last set: a subscriber that folds the set, update and remove events has the stored
\* record and its major revision.
ReplicaAgrees == (~lost /\ Untold = {}) => replica = channel
=============================================================================
