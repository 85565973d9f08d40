----------------------------- MODULE EventBridge -----------------------------
(***************************************************************************)
(* How PresenceService listens to Redis Pub/Sub (presence/service.ts):     *)
(* handlers of presence and of metadata events share one subscriber, a     *)
(* duplicate of the Redis connection that is made when the first handler   *)
(* needs it and torn down with the last.  createSocketBridge is a handler  *)
(* of each kind, startReaper a timer, and stop undoes everything.          *)
(***************************************************************************)
EXTENDS FiniteSets

CONSTANTS
  Presence,    \* handlers given to subscribe
  Metadata,    \* handlers given to subscribeMetadata
  Bridges,     \* the pairs of them that belong to one createSocketBridge
  Links,       \* bound: connections redis.duplicate() can make
  None

Handlers == Presence \union Metadata

ASSUME BridgeAssumption ==
  /\ Presence \intersect Metadata = {}
  /\ Bridges \subseteq Presence \X Metadata
  /\ None \notin Links

VARIABLES
  registered,   \* this.eventHandlers and this.metadataEventHandlers
  caller,       \* what the code that owns each handler is doing
  stopping,     \* service.stop awaits teardownSubscriber
  reaper,       \* this.reaperTimer !== null
  subscriber,   \* this.subscriber
  promise,      \* this.subscriberPromise, by the connection it is about
  link,         \* the connections
  crossed       \* history: a call has been made while another was in progress

serviceVars == <<registered, caller, stopping, reaper, subscriber, promise, link>>
vars == <<serviceVars, crossed>>

\* Type invariant: the shapes of the service's fields and of the calls in progress.
TypeOK ==
  /\ registered \subseteq Handlers
  /\ caller \in [Handlers -> {"out", "creating", "waiting", "in", "leaving", "failed"}]
  /\ stopping \in BOOLEAN /\ reaper \in BOOLEAN
  /\ subscriber \in Links \union {None}
  /\ promise \in Links \union {None}
  /\ link \in [Links -> {"unused", "connecting", "listening", "muted", "closed", "lost"}]
  /\ crossed \in BOOLEAN

Init ==
  /\ registered = {}
  /\ caller = [h \in Handlers |-> "out"]
  /\ stopping = FALSE /\ reaper = FALSE
  /\ subscriber = None
  /\ promise = None
  /\ link = [s \in Links |-> "unused"]
  /\ crossed = FALSE

Awaiting == {"creating", "waiting", "leaving"}
Idle == ~stopping /\ \A h \in Handlers : caller[h] \notin Awaiting
Call == crossed' = (crossed \/ ~Idle)

-----------------------------------------------------------------------------
(* subscribe and subscribeMetadata *)

\* createSocketBridge subscribes its metadata handler after its presence handler, and
\* gives up when one of them fails; any other caller may try again.
MaySubscribe(h) ==
  /\ caller[h] \in {"out", "failed"}
  /\ \A b \in Bridges :
       /\ h = b[1] => caller[b[1]] = "out" /\ caller[b[2]] = "out"
       /\ h = b[2] => caller[b[1]] = "in" /\ caller[b[2]] = "out"

\* Mutant of EnsureSubscriber: a subscriber in the making is not looked for.
EnsureOwnSubscriber(h) ==
  IF subscriber # None
  THEN caller' = [caller EXCEPT ![h] = "in"] /\ UNCHANGED <<promise, link>>
  ELSE \E s \in Links :
         /\ link[s] = "unused"
         /\ promise' = s
         /\ link' = [link EXCEPT ![s] = "connecting"]
         /\ caller' = [caller EXCEPT ![h] = "creating"]

\* ensureSubscriber: the subscriber there is, the one being made, or a new one.
EnsureSubscriber(h) ==
  IF subscriber # None
  THEN caller' = [caller EXCEPT ![h] = "in"] /\ UNCHANGED <<promise, link>>
  ELSE IF promise # None
  THEN caller' = [caller EXCEPT ![h] = "waiting"] /\ UNCHANGED <<promise, link>>
  ELSE \E s \in Links :
         /\ link[s] = "unused"
         /\ promise' = s
         /\ link' = [link EXCEPT ![s] = "connecting"]
         /\ caller' = [caller EXCEPT ![h] = "creating"]

Subscribe(h) ==
  /\ MaySubscribe(h)
  /\ Call
  /\ registered' = registered \union {h}
  /\ EnsureSubscriber(h)
  /\ UNCHANGED <<stopping, reaper, subscriber>>

Creators == {h \in Handlers : caller[h] \in {"creating", "waiting"}}
Settle(outcome) ==
  caller' = [h \in Handlers |-> IF h \in Creators THEN outcome ELSE caller[h]]

\* Mutant of Connected: those who found the promise are not told.
ConnectedUntold ==
  /\ promise # None
  /\ subscriber' = promise
  /\ link' = [link EXCEPT ![promise] = "listening"]
  /\ promise' = None
  /\ caller' = [h \in Handlers |-> IF caller[h] = "creating" THEN "in" ELSE caller[h]]
  /\ UNCHANGED <<registered, stopping, reaper, crossed>>

\* psubscribe has succeeded: the subscriber listens, and whoever awaited it returns,
\* though stop may have taken its handler out meanwhile.
Connected ==
  /\ promise # None
  /\ subscriber' = promise
  /\ link' = [link EXCEPT ![promise] = "listening"]
  /\ promise' = None
  /\ Settle("in")
  /\ UNCHANGED <<registered, stopping, reaper, crossed>>

\* psubscribe has failed: the handlers of those who awaited it are taken out again, and
\* the connection, which nobody closes, is lost.
ConnectFails ==
  /\ promise # None
  /\ link' = [link EXCEPT ![promise] = "lost"]
  /\ promise' = None
  /\ Settle("failed")
  /\ registered' = registered \ Creators
  /\ UNCHANGED <<subscriber, stopping, reaper, crossed>>

-----------------------------------------------------------------------------
(* The returned unsubscribe functions, and stop *)

\* The stop of a bridge unsubscribes its presence handler first.
MayUnsubscribe(h) ==
  /\ caller[h] = "in"
  /\ \A b \in Bridges :
       /\ h = b[1] => caller[b[2]] = "in"
       /\ h = b[2] => caller[b[1]] = "out"

\* Mutants of Last: any unsubscription ends the subscriber, or a metadata handler's never.
AnyIsLast(h) == TRUE
PresenceIsLast(h) == h \in Presence /\ registered' \intersect Presence = {}

\* The subscriber goes with the last handler, for a presence handler already with the
\* last presence handler.
Last(h) ==
  /\ registered' \intersect Presence = {}
  /\ h \in Presence \/ registered' \intersect Metadata = {}

\* teardownSubscriber, up to its await: punsubscribe is sent.
Mute == link' = [link EXCEPT ![subscriber] = "muted"]

\* teardownSubscriber, the rest: whichever subscriber there is now is disconnected; when
\* another teardown was faster there is none, and the call throws.
Disconnect ==
  /\ subscriber' = None
  /\ IF subscriber = None THEN UNCHANGED link ELSE link' = [link EXCEPT ![subscriber] = "closed"]

Unsubscribe(h) ==
  /\ MayUnsubscribe(h)
  /\ Call
  /\ registered' = registered \ {h}
  /\ IF Last(h) /\ subscriber # None
     THEN caller' = [caller EXCEPT ![h] = "leaving"] /\ Mute
     ELSE caller' = [caller EXCEPT ![h] = "out"] /\ UNCHANGED link
  /\ UNCHANGED <<stopping, reaper, subscriber, promise>>

\* A bridge whose first half throws does not come to its second (MayUnsubscribe).
Unsubscribed(h) ==
  /\ caller[h] = "leaving"
  /\ caller' = [caller EXCEPT ![h] = IF subscriber = None THEN "failed" ELSE "out"]
  /\ Disconnect
  /\ UNCHANGED <<registered, stopping, reaper, promise, crossed>>

\* pmessage, dispatchEvent and dispatchMetadataEvent: the handlers an event reaches.
Reached == IF subscriber # None /\ link[subscriber] = "listening" THEN registered ELSE {}

StartReaper ==
  /\ reaper' = TRUE
  /\ UNCHANGED <<registered, caller, stopping, subscriber, promise, link, crossed>>

Stop ==
  /\ ~stopping
  /\ Call
  /\ reaper' = FALSE
  /\ registered' = {}
  /\ IF subscriber # None THEN stopping' = TRUE /\ Mute ELSE UNCHANGED <<stopping, link>>
  /\ UNCHANGED <<caller, subscriber, promise>>

Stopped ==
  /\ stopping
  /\ stopping' = FALSE
  /\ Disconnect
  /\ UNCHANGED <<registered, caller, reaper, promise, crossed>>

Redis == Connected \/ ConnectFails \/ Stopped \/ \E h \in Handlers : Unsubscribed(h)

Next ==
  \/ \E h \in Handlers : Subscribe(h) \/ Unsubscribe(h)
  \/ StartReaper \/ Stop
  \/ Redis

Spec == Init /\ [][Next]_vars

\* Redis answers psubscribe and punsubscribe, or fails them.
FairSpec ==
  /\ Spec
  /\ WF_vars(Connected \/ ConnectFails)
  /\ WF_vars(Stopped)
  /\ \A h \in Handlers : WF_vars(Unsubscribed(h))

-----------------------------------------------------------------------------
(* Properties *)

\* The service holds every connection it has made and not closed: at most one listens,
\* so no event is dispatched twice, and a later unsubscribe or stop can reach it.
OneSubscriber ==
  \A s \in Links :
    /\ link[s] = "connecting" => s = promise
    /\ link[s] \in {"listening", "muted"} => s = subscriber

\* While calls have been one at a time and a presence handler is registered, the
\* events reach every handler of either kind.
PresenceHears ==
  ~crossed /\ Idle /\ registered \intersect Presence # {} => Reached = registered

\* Once every owner has unsubscribed or failed, however the calls crossed each other and
\* a stop, no subscriber is left.
NothingLeft ==
  registered = {} /\ ~stopping /\ (\A h \in Handlers : caller[h] \in {"out", "failed"})
    => subscriber = None

\* Every call to subscribe, to an unsubscribe function and to stop returns.
CallsReturn ==
  /\ \A h \in Handlers : caller[h] \in Awaiting ~> caller[h] \notin Awaiting
  /\ stopping ~> ~stopping
=============================================================================
