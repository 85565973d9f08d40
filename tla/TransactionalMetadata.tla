----------------------- MODULE TransactionalMetadata -----------------------
(***************************************************************************)
(* TransactionalMetadataWrapper: WATCH the channel's key, read it, check   *)
(* and write it with MULTI/EXEC, and start over on a conflict.  Redis      *)
(* keeps the watched keys per connection, and a server process makes all   *)
(* its calls, and the presence service its transactions, on one.           *)
(***************************************************************************)
EXTENDS MetadataOps

CONSTANTS
  Calls,        \* calls that can be in progress at once
  Sockets,      \* connections to Redis
  SocketOf,     \* the connection each call is made on
  PresenceOn,   \* the connections presence transactions run on
  NoCall,       \* what an idle call holds
  Nobody,       \* the owner of a lock that is not held
  MaxRetries,   \* options.maxRetries
  MaxMajor      \* bound: no call starts once the major revision has reached it

ASSUME WrapperAssumption ==
  /\ SocketOf \in [Calls -> Sockets]
  /\ PresenceOn \subseteq Sockets
  /\ Nobody \notin Actors
  /\ MaxRetries \in Nat \ {0}
  /\ MaxMajor \in Nat

VARIABLES
  channel,    \* prs:{chan:<type>:<name>}:meta
  lockOwner,  \* prs:lock:<name>, set by whoever manages locks: not this program
  watching,   \* the connections that watch the key
  dirty,      \* those on which the key has changed since
  pc,         \* where each call is
  call        \* its request, the contents it read and its failed attempts

vars == <<channel, lockOwner, watching, dirty, pc, call>>

IsCall(c) ==
  /\ c \in [request: Requests, read: {c.read}, attempt: Nat, retry: BOOLEAN]
  /\ IsChannel(c.read)

\* Type invariant: contents, connections and calls have their shapes.
TypeOK ==
  /\ IsChannel(channel)
  /\ lockOwner \in Actors \union {Nobody}
  /\ watching \in SUBSET Sockets /\ dirty \in SUBSET watching
  /\ pc \in [Calls -> {"idle", "watch", "read", "exec", "unwatch"}]
  /\ DOMAIN call = Calls
  /\ \A p \in Calls : IF pc[p] = "idle" THEN call[p] = NoCall ELSE IsCall(call[p])

Init ==
  /\ channel = NoChannel
  /\ lockOwner = Nobody
  /\ watching = {} /\ dirty = {}
  /\ pc = [p \in Calls |-> "idle"]
  /\ call = [p \in Calls |-> NoCall]

-----------------------------------------------------------------------------
(* Redis *)

\* UNWATCH, and what EXEC does first: the connection watches nothing any more.
Forget(s) ==
  /\ watching' = watching \ {s}
  /\ dirty' = dirty \ {s}

\* A write by connection s, whose own watches are gone, to the key others watch.
Touch(s) ==
  /\ watching' = watching \ {s}
  /\ dirty' = watching \ {s}

-----------------------------------------------------------------------------
(* A call *)

Goto(p, at) == pc' = [pc EXCEPT ![p] = at]

Return(p) ==
  /\ pc' = [pc EXCEPT ![p] = "idle"]
  /\ call' = [call EXCEPT ![p] = NoCall]

\* verifyMetadataLock, then the first attempt.
Begin(p) ==
  \E q \in Requests :
    /\ pc[p] = "idle"
    /\ channel.major < MaxMajor
    /\ q.locked => lockOwner = q.actor
    /\ call' = [call EXCEPT ![p] = [request |-> q, read |-> NoChannel, attempt |-> 0,
                                    retry |-> FALSE]]
    /\ Goto(p, "watch")
    /\ UNCHANGED <<channel, lockOwner, watching, dirty>>

\* Mutant: the key is read without being watched.
WatchNotSent(p) ==
  /\ pc[p] = "watch"
  /\ Goto(p, "read")
  /\ UNCHANGED <<channel, lockOwner, watching, dirty, call>>

\* WATCH: a key the connection watches already keeps its mark.
Watch(p) ==
  /\ pc[p] = "watch"
  /\ watching' = watching \union {SocketOf[p]}
  /\ Goto(p, "read")
  /\ UNCHANGED <<channel, lockOwner, dirty, call>>

\* HGETALL and the checks.  A remove request on an empty channel returns at once.
Idle(ch, q) == q.kind = "remove" /\ MajorOK(ch, q) /\ IsEmpty(ch)

ReadPasses(p) ==
  /\ pc[p] = "read"
  /\ Passes(channel, call[p].request) /\ ~Idle(channel, call[p].request)
  /\ call' = [call EXCEPT ![p] = [@ EXCEPT !.read = channel]]
  /\ Goto(p, "exec")
  /\ UNCHANGED <<channel, lockOwner, watching, dirty>>

\* The call returns, and its connection goes on watching the key.
ReadIdle(p) ==
  /\ pc[p] = "read"
  /\ Idle(channel, call[p].request)
  /\ Return(p)
  /\ UNCHANGED <<channel, lockOwner, watching, dirty>>

ReadFails(p) ==
  /\ pc[p] = "read"
  /\ \E retry \in BOOLEAN :
       /\ IF retry THEN Conflicting(channel, call[p].request) ELSE Refused(channel, call[p].request)
       /\ call' = [call EXCEPT ![p] = [@ EXCEPT !.retry = retry]]
  /\ Goto(p, "unwatch")
  /\ UNCHANGED <<channel, lockOwner, watching, dirty>>

\* EXEC writes the record built from what was read, unless the key is marked.
Exec(p) ==
  /\ pc[p] = "exec"
  /\ SocketOf[p] \notin dirty
  /\ channel' = After(call[p].read, call[p].request)
  /\ Touch(SocketOf[p])
  /\ Return(p)
  /\ UNCHANGED lockOwner

ExecAborts(p) ==
  /\ pc[p] = "exec"
  /\ SocketOf[p] \in dirty
  /\ Forget(SocketOf[p])
  /\ call' = [call EXCEPT ![p] = [@ EXCEPT !.retry = TRUE]]
  /\ Goto(p, "unwatch")
  /\ UNCHANGED <<channel, lockOwner>>

\* Mutant: a conflict is tried again without being counted.
UnwatchUncounted(p) ==
  /\ pc[p] = "unwatch"
  /\ Forget(SocketOf[p])
  /\ IF call[p].retry THEN Goto(p, "watch") /\ UNCHANGED call ELSE Return(p)
  /\ UNCHANGED <<channel, lockOwner>>

\* UNWATCH after a failure; a conflict is tried again while attempts are left.
Unwatch(p) ==
  /\ pc[p] = "unwatch"
  /\ Forget(SocketOf[p])
  /\ IF call[p].retry /\ call[p].attempt + 1 < MaxRetries
     THEN /\ call' = [call EXCEPT ![p] = [@ EXCEPT !.attempt = call[p].attempt + 1]]
          /\ Goto(p, "watch")
     ELSE Return(p)
  /\ UNCHANGED <<channel, lockOwner>>

-----------------------------------------------------------------------------
(* The rest of the system *)

\* A MULTI of the presence service: its EXEC forgets what its connection watches, and
\* is discarded if the key is marked.  Its caller does not look.
PresenceTx(s) ==
  /\ s \in PresenceOn
  /\ Forget(s)
  /\ UNCHANGED <<channel, lockOwner, pc, call>>

\* Locks are taken and released outside this program.
LockMoves ==
  /\ lockOwner' \in Actors \union {Nobody}
  /\ UNCHANGED <<channel, watching, dirty, pc, call>>

Step(p) ==
  \/ Watch(p) \/ ReadPasses(p) \/ ReadIdle(p) \/ ReadFails(p)
  \/ Exec(p) \/ ExecAborts(p) \/ Unwatch(p)

Next ==
  \/ \E p \in Calls : Begin(p) \/ Step(p)
  \/ \E s \in Sockets : PresenceTx(s)
  \/ LockMoves

Spec == Init /\ [][Next]_vars

\* Redis answers and the retry timer fires: a call in progress goes on.
FairSpec == Spec /\ \A p \in Calls : WF_vars(Step(p))

-----------------------------------------------------------------------------
(* Properties *)

Register == INSTANCE MetadataRegister

\* "True atomicity" (the class comment): every EXEC that writes applies a request to the
\* contents it was checked against, so no change is lost between the read and the write.
ImplementsRegister == Register!Spec

\* Retries end: every call returns to its caller, with an answer or an error.
CallsReturn == \A p \in Calls : pc[p] # "idle" ~> pc[p] = "idle"
=============================================================================
