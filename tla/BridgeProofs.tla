----------------------------- MODULE BridgeProofs -----------------------------
(***************************************************************************)
(* Proofs about EventBridge, for any number of handlers, bridges and       *)
(* connections: at most one subscriber, none left behind, and none deaf.   *)
(* Then about PresenceServer, with the one bridge a server makes and any   *)
(* number of signals and clients: it implements EventBridge, and what it   *)
(* disposes of stays disposed of.                                          *)
(***************************************************************************)
EXTENDS PresenceServer, TLAPS

\* The promise is about a connection in the making, the subscriber about one that is
\* made and not closed, and there is one of them at a time.
Fields ==
  /\ promise # None => link[promise] = "connecting" /\ subscriber = None
  /\ subscriber # None => link[subscriber] \in {"listening", "muted"}

\* Who has a handler registered, or awaits the promise, is known.
Owned ==
  /\ \A h \in registered : caller[h] \in {"creating", "waiting", "in"}
  /\ \A h \in Handlers : caller[h] \in {"creating", "waiting"} => promise # None
  /\ promise # None => \E h \in Handlers : caller[h] \in {"creating", "waiting"}
  /\ subscriber # None => stopping \/ \E h \in Handlers : caller[h] \in {"in", "leaving"}

\* A teardown in progress.
Leaving == stopping \/ \E h \in Handlers : caller[h] = "leaving"

\* While calls are one at a time: a teardown means that no presence handler is
\* registered, only a teardown mutes, and a presence handler that is in is heard.
Uncrossed ==
  ~crossed =>
    /\ Leaving => registered \intersect Presence = {}
    /\ subscriber # None /\ link[subscriber] = "muted" => Leaving
    /\ \A h \in registered \intersect Presence : caller[h] = "in" => subscriber # None

IInv == TypeOK /\ OneSubscriber /\ Fields /\ Owned /\ Uncrossed

-----------------------------------------------------------------------------
LEMMA InitInv == Init => IInv
BY DEF Init, IInv, TypeOK, OneSubscriber, Fields, Owned, Uncrossed, Leaving

LEMMA StutterInv == IInv /\ UNCHANGED vars => IInv'
BY DEF vars, serviceVars, IInv, TypeOK, OneSubscriber, Fields, Owned, Uncrossed, Leaving

\* The connection that subscribe asks for.
LEMMA SubscribeInv == ASSUME IInv, NEW h \in Handlers, Subscribe(h) PROVE IInv'
<1>1. /\ caller[h] \in {"out", "failed"}
      /\ crossed' = (crossed \/ ~Idle)
      /\ registered' = registered \union {h}
      /\ UNCHANGED <<stopping, reaper, subscriber>>
  BY DEF Subscribe, MaySubscribe, Call
<1>2. \/ /\ subscriber # None
         /\ caller' = [caller EXCEPT ![h] = "in"] /\ UNCHANGED <<promise, link>>
      \/ /\ subscriber = None /\ promise # None
         /\ caller' = [caller EXCEPT ![h] = "waiting"] /\ UNCHANGED <<promise, link>>
      \/ /\ subscriber = None /\ promise = None
         /\ \E s \in Links : /\ link[s] = "unused"
                             /\ promise' = s
                             /\ link' = [link EXCEPT ![s] = "connecting"]
                             /\ caller' = [caller EXCEPT ![h] = "creating"]
  BY DEF Subscribe, EnsureSubscriber
<1>3. TypeOK'
  BY <1>1, <1>2 DEF IInv, TypeOK, Idle
<1>4. OneSubscriber' /\ Fields'
  <2>1. CASE UNCHANGED <<promise, link>>
    BY <1>1, <2>1 DEF IInv, OneSubscriber, Fields
  <2>2. ASSUME NEW s \in Links, subscriber = None, promise = None, link[s] = "unused",
               promise' = s, link' = [link EXCEPT ![s] = "connecting"]
        PROVE  OneSubscriber' /\ Fields'
    <3>1. \A z \in Links : link'[z] = IF z = s THEN "connecting" ELSE link[z]
      BY <2>2 DEF IInv, TypeOK
    <3> QED
      BY <1>1, <2>2, <3>1, BridgeAssumption DEF IInv, OneSubscriber, Fields
  <2>3. \/ UNCHANGED <<promise, link>>
        \/ \E s \in Links : /\ subscriber = None /\ promise = None /\ link[s] = "unused"
                            /\ promise' = s /\ link' = [link EXCEPT ![s] = "connecting"]
    BY <1>2
  <2> QED
    BY <2>1, <2>2, <2>3
<1>5. /\ \A g \in Handlers : g # h => caller'[g] = caller[g]
      /\ caller'[h] \in {"creating", "waiting", "in"}
      /\ caller'[h] = "in" => subscriber # None
      /\ caller'[h] # "in" => promise' # None
      /\ promise # None => promise' = promise
      /\ promise' # None /\ promise = None => caller'[h] = "creating"
  BY <1>2, BridgeAssumption DEF IInv, TypeOK
<1>6. Owned'
  BY <1>1, <1>5 DEF IInv, Owned, TypeOK
<1>7. Uncrossed'
  <2> SUFFICES ASSUME ~crossed' PROVE Uncrossed'
    BY DEF Uncrossed
  <2>1. ~crossed /\ ~Leaving
    BY <1>1 DEF Idle, Leaving, Awaiting
  <2>2. ~Leaving'
    BY <2>1, <1>1, <1>5 DEF Leaving
  <2>3. subscriber # None => link'[subscriber] = link[subscriber]
    BY <1>2
  <2> QED
    BY <2>1, <2>2, <2>3, <1>1, <1>5 DEF IInv, Uncrossed, TypeOK
<1> QED
  BY <1>3, <1>4, <1>6, <1>7 DEF IInv

\* Its success.
LEMMA ConnectedInv == ASSUME IInv, Connected PROVE IInv'
<1>1. /\ promise # None /\ promise \in Links
      /\ subscriber' = promise
      /\ link' = [link EXCEPT ![promise] = "listening"]
      /\ promise' = None
      /\ caller' = [h \in Handlers |-> IF h \in Creators THEN "in" ELSE caller[h]]
      /\ UNCHANGED <<registered, stopping, reaper, crossed>>
  BY DEF Connected, Settle, IInv, TypeOK
<1>2. TypeOK' /\ OneSubscriber' /\ Fields'
  <2>1. \A s \in Links : link'[s] = IF s = promise THEN "listening" ELSE link[s]
    BY <1>1 DEF IInv, TypeOK
  <2>2. TypeOK'
    BY <1>1 DEF IInv, TypeOK
  <2> QED
    BY <1>1, <2>1, <2>2, BridgeAssumption DEF IInv, OneSubscriber, Fields
<1>3. \A h \in Handlers : /\ caller'[h] \notin {"creating", "waiting"}
                          /\ caller'[h] = "leaving" => caller[h] = "leaving"
                          /\ caller[h] \in {"creating", "waiting", "in"} => caller'[h] = "in"
  BY <1>1 DEF IInv, TypeOK, Creators
<1>4. Owned'
  BY <1>1, <1>3 DEF IInv, Owned, TypeOK
<1>5. Uncrossed'
  BY <1>1, <1>2, <1>3 DEF IInv, Uncrossed, Leaving, TypeOK
<1> QED
  BY <1>2, <1>4, <1>5 DEF IInv

\* Its failure.
LEMMA ConnectFailsInv == ASSUME IInv, ConnectFails PROVE IInv'
<1>1. /\ promise # None /\ promise \in Links
      /\ link' = [link EXCEPT ![promise] = "lost"]
      /\ promise' = None
      /\ caller' = [h \in Handlers |-> IF h \in Creators THEN "failed" ELSE caller[h]]
      /\ registered' = registered \ Creators
      /\ UNCHANGED <<subscriber, stopping, reaper, crossed>>
  BY DEF ConnectFails, Settle, IInv, TypeOK
<1>2. subscriber = None
  BY <1>1 DEF IInv, Fields
<1>3. TypeOK' /\ OneSubscriber' /\ Fields'
  BY <1>1, <1>2 DEF IInv, TypeOK, OneSubscriber, Fields
<1>4. \A h \in Handlers : /\ caller'[h] \notin {"creating", "waiting"}
                          /\ caller'[h] = "leaving" => caller[h] = "leaving"
                          /\ caller[h] \notin {"creating", "waiting"} => caller'[h] = caller[h]
  BY <1>1 DEF IInv, TypeOK, Creators
<1>5. \A h \in registered' : h \in registered /\ caller'[h] = "in" /\ caller[h] = "in"
  BY <1>1 DEF IInv, Owned, TypeOK, Creators
<1>6. Owned'
  BY <1>1, <1>2, <1>4, <1>5 DEF Owned
<1>7. Uncrossed'
  BY <1>1, <1>2, <1>4, <1>5 DEF IInv, Uncrossed, Leaving
<1> QED
  BY <1>3, <1>6, <1>7 DEF IInv

\* Muting the subscriber, for stop and for the last unsubscription.
LEMMA MuteFields ==
  ASSUME IInv, subscriber # None, Mute, UNCHANGED <<subscriber, promise>>
  PROVE  OneSubscriber' /\ Fields' /\ link' \in [Links -> {"unused", "connecting", "listening", "muted", "closed", "lost"}]
BY DEF Mute, IInv, TypeOK, OneSubscriber, Fields

\* The last presence handler, or the last of all, mutes the subscriber.  Where another
\* handler stays registered, its owner still has it.
LEMMA UnsubscribeInv == ASSUME IInv, NEW h \in Handlers, Unsubscribe(h) PROVE IInv'
<1>1. /\ caller[h] = "in"
      /\ crossed' = (crossed \/ ~Idle)
      /\ registered' = registered \ {h}
      /\ UNCHANGED <<stopping, reaper, subscriber, promise>>
  BY DEF Unsubscribe, MayUnsubscribe, Call
<1>2. CASE Last(h) /\ subscriber # None
  <2>1. caller' = [caller EXCEPT ![h] = "leaving"] /\ Mute /\ registered' \intersect Presence = {}
    BY <1>2 DEF Unsubscribe, Last
  <2>2. OneSubscriber' /\ Fields' /\ TypeOK'
    BY <1>1, <1>2, <2>1, MuteFields DEF IInv, TypeOK, Idle
  <2>3. Owned'
    BY <1>1, <2>1 DEF IInv, Owned, TypeOK
  <2>4. Uncrossed'
    BY <1>1, <2>1 DEF IInv, Uncrossed, Leaving, TypeOK
  <2> QED
    BY <2>2, <2>3, <2>4 DEF IInv
<1>3. CASE ~(Last(h) /\ subscriber # None)
  <2>1. caller' = [caller EXCEPT ![h] = "out"] /\ UNCHANGED link
    BY <1>3 DEF Unsubscribe
  <2>2. OneSubscriber' /\ Fields' /\ TypeOK'
    BY <1>1, <2>1 DEF IInv, TypeOK, OneSubscriber, Fields, Idle
  <2>3. subscriber # None => \E g \in registered' : caller[g] = "in" /\ g # h
    <3> SUFFICES ASSUME subscriber # None PROVE \E g \in registered' : caller[g] = "in" /\ g # h
      OBVIOUS
    <3>1. promise = None
      BY DEF IInv, Fields
    <3>2. PICK g \in registered' : TRUE
      BY <1>3 DEF Last
    <3> QED
      BY <3>1, <3>2, <1>1 DEF IInv, Owned, TypeOK
  <2>4. Owned'
    BY <1>1, <2>1, <2>3 DEF IInv, Owned, TypeOK
  <2>5. Uncrossed'
    BY <1>1, <2>1 DEF IInv, Uncrossed, Leaving, TypeOK
  <2> QED
    BY <2>2, <2>4, <2>5 DEF IInv
<1> QED
  BY <1>2, <1>3

\* The end of a teardown.
LEMMA DisconnectFields ==
  ASSUME IInv, Disconnect, UNCHANGED promise
  PROVE  OneSubscriber' /\ Fields' /\ subscriber' = None
         /\ link' \in [Links -> {"unused", "connecting", "listening", "muted", "closed", "lost"}]
BY DEF Disconnect, IInv, TypeOK, OneSubscriber, Fields

LEMMA UnsubscribedInv == ASSUME IInv, NEW h \in Handlers, Unsubscribed(h) PROVE IInv'
<1>1. /\ caller[h] = "leaving"
      /\ caller' = [caller EXCEPT ![h] = IF subscriber = None THEN "failed" ELSE "out"]
      /\ Disconnect
      /\ UNCHANGED <<registered, stopping, reaper, promise, crossed>>
  BY DEF Unsubscribed
<1>2. OneSubscriber' /\ Fields' /\ subscriber' = None /\ TypeOK'
  BY <1>1, DisconnectFields DEF IInv, TypeOK
<1>3. Owned'
  BY <1>1, <1>2 DEF IInv, Owned, TypeOK
<1>4. Uncrossed'
  BY <1>1, <1>2 DEF IInv, Uncrossed, Leaving, TypeOK
<1> QED
  BY <1>2, <1>3, <1>4 DEF IInv

LEMMA StopInv == ASSUME IInv, Stop PROVE IInv'
<1>1. /\ crossed' = (crossed \/ ~Idle)
      /\ registered' = {}
      /\ reaper' = FALSE
      /\ UNCHANGED <<caller, subscriber, promise>>
      /\ IF subscriber # None THEN stopping' = TRUE /\ Mute ELSE UNCHANGED <<stopping, link>>
  BY DEF Stop, Call
<1>2. OneSubscriber' /\ Fields' /\ TypeOK'
  BY <1>1, MuteFields DEF IInv, TypeOK, OneSubscriber, Fields, Idle
<1>3. Owned'
  BY <1>1 DEF IInv, Owned
<1>4. Uncrossed'
  BY <1>1 DEF IInv, Uncrossed, Leaving
<1> QED
  BY <1>2, <1>3, <1>4 DEF IInv

LEMMA StoppedInv == ASSUME IInv, Stopped PROVE IInv'
<1>1. /\ stopping /\ stopping' = FALSE
      /\ Disconnect
      /\ UNCHANGED <<registered, caller, reaper, promise, crossed>>
  BY DEF Stopped
<1>2. OneSubscriber' /\ Fields' /\ subscriber' = None /\ TypeOK'
  BY <1>1, DisconnectFields DEF IInv, TypeOK
<1>3. Owned'
  BY <1>1, <1>2 DEF IInv, Owned
<1>4. Uncrossed'
  BY <1>1, <1>2 DEF IInv, Uncrossed, Leaving
<1> QED
  BY <1>2, <1>3, <1>4 DEF IInv

LEMMA StartReaperInv == ASSUME IInv, StartReaper PROVE IInv'
BY DEF StartReaper, IInv, TypeOK, OneSubscriber, Fields, Owned, Uncrossed, Leaving

-----------------------------------------------------------------------------
LEMMA NextInv == ASSUME IInv, Next PROVE IInv'
<1>1. ASSUME NEW h \in Handlers, Subscribe(h) PROVE IInv'
  BY <1>1, SubscribeInv
<1>2. ASSUME NEW h \in Handlers, Unsubscribe(h) PROVE IInv'
  BY <1>2, UnsubscribeInv
<1>3. ASSUME NEW h \in Handlers, Unsubscribed(h) PROVE IInv'
  BY <1>3, UnsubscribedInv
<1> QED
  BY <1>1, <1>2, <1>3, StartReaperInv, StopInv, StoppedInv, ConnectedInv, ConnectFailsInv
  DEF Next, Redis

LEMMA Invariant == Spec => []IInv
<1>1. IInv /\ [Next]_vars => IInv'
  BY NextInv, StutterInv
<1> QED
  BY InitInv, <1>1, PTL DEF Spec

\* The fields of the service, its connections and its callers keep their shapes.
THEOREM TypeCorrect == Spec => []TypeOK
BY Invariant, PTL DEF IInv

\* ensureSubscriber and teardownSubscriber hold every connection that is open: one
\* listens, one is in the making, never two.
THEOREM SingleSubscriber == Spec => []OneSubscriber
BY Invariant, PTL DEF IInv

\* When the owners of all handlers have unsubscribed or failed, no subscriber is left,
\* whatever crossed.
THEOREM NoneLeft == Spec => []NothingLeft
<1>1. IInv => NothingLeft
  BY DEF IInv, Owned, NothingLeft
<1> QED
  BY Invariant, <1>1, PTL

\* With calls one at a time, a registered presence handler means that events reach every
\* registered handler.
THEOREM Hears == Spec => []PresenceHears
<1>1. IInv => PresenceHears
  <2> SUFFICES ASSUME IInv, ~crossed, Idle, NEW h \in registered \intersect Presence
               PROVE  Reached = registered
    BY DEF PresenceHears
  <2>1. ~Leaving /\ caller[h] = "in"
    BY DEF IInv, TypeOK, Owned, Idle, Leaving, Awaiting
  <2>2. subscriber # None /\ link[subscriber] = "listening"
    BY <2>1 DEF IInv, Fields, Uncrossed
  <2> QED
    BY <2>2 DEF Reached
<1> QED
  BY Invariant, <1>1, PTL

-----------------------------------------------------------------------------
(* The server *)

LEMMA TwoHandlers == OneBridge => Handlers = {p, m} /\ p # m
BY BridgeAssumption DEF OneBridge, Handlers

\* Every step of the server is a step of the bridge, or leaves its fields alone.
LEMMA ServerStep == ASSUME OneBridge, [ServerNext]_serverVars PROVE [Next]_vars
<1>1. p \in Handlers /\ m \in Handlers
  BY TwoHandlers
<1>2. CASE RedisAnswers
  BY <1>2 DEF RedisAnswers, Next
<1>3. CASE Progress
  BY <1>1, <1>3 DEF Progress, WarmUp, Bridge, Run, GiveUp, InitFails, Next
<1>4. CASE Shutdown
  BY <1>1, <1>4 DEF Shutdown, StopBridge, StopService, Disposed, Exit, Quit, QuitAnswered, QuitFails, Next
<1>5. ASSUME NEW s \in Signals, Signal(s) PROVE [Next]_vars
  BY <1>1, <1>5 DEF Signal, Next
<1>6. ASSUME NEW c \in Clients, Connect(c) \/ Depart(c) PROVE [Next]_vars
  BY <1>6 DEF Connect, Depart
<1>7. CASE PassBegins \/ BatchBegins \/ WorkEnds
  BY <1>7 DEF PassBegins, BatchBegins, WorkEnds
<1>8. CASE UNCHANGED serverVars
  BY <1>8 DEF serverVars
<1> QED
  BY <1>2, <1>3, <1>4, <1>5, <1>6, <1>7, <1>8 DEF ServerNext

\* A server with its one bridge behaves as the event bridge does: what holds of every
\* use of the service's handlers holds of the server's.
THEOREM ServerIsBridge == OneBridge => (ServerSpec => Spec)
<1> SUFFICES ASSUME OneBridge PROVE ServerSpec => Spec
  OBVIOUS
<1>1. ServerInit => Init
  BY DEF ServerInit
<1>2. [ServerNext]_serverVars => [Next]_vars
  BY ServerStep
<1> QED
  BY <1>1, <1>2, PTL DEF ServerSpec, Spec

\* The shapes of the server's own variables.
ProcessTypes ==
  /\ phase \in {"warming", "bridging", "running", "failing"}
  /\ dispose \in {"no", "presence", "metadata", "service", "done"}
  /\ batcher \in BOOLEAN /\ runtime \in BOOLEAN /\ redis \in BOOLEAN /\ exited \in BOOLEAN
  /\ pass \in BOOLEAN /\ batch \in BOOLEAN
  /\ shutdown \in [Signals -> {"none", "disposing", "quitting", "awaiting", "refused", "done"}]
  /\ http \in {"listening", "closing"}
  /\ client \in [Clients -> {"away", "ignored", "served"}]

\* How far initPresence and dispose are with the bridge's two handlers.  The metadata
\* handler finds the subscriber that the presence handler has made, so that it is never
\* its subscription that fails.
Wired ==
  /\ phase \in {"warming", "bridging"} =>
       /\ caller[p] # "leaving" /\ caller[m] \in {"out", "in"}
       /\ caller[p] = "in" => subscriber # None
       /\ caller[m] = "in" => caller[p] = "in"
  /\ phase = "failing" => caller[p] = "failed" /\ caller[m] = "out" /\ registered = {} /\ batcher
  /\ phase = "running" =>
       /\ dispose = "no" => caller[p] = "in" /\ caller[m] = "in"
       /\ dispose = "presence" => caller[p] \in {"leaving", "out"} /\ caller[m] = "in"
       /\ dispose = "metadata" => caller[p] = "out" /\ caller[m] \in {"leaving", "out"}
       /\ dispose \in {"service", "done"} =>
            caller[p] = "out" /\ caller[m] = "out" /\ batcher /\ ~reaper
  /\ caller[p] = "leaving" \/ caller[m] = "leaving" => subscriber # None

\* dispose is of a runtime, and a runtime of an initPresence that has returned; service.stop
\* awaits within dispose only, since a bridge that failed has no subscriber to tear down.
Paced ==
  /\ phase # "running" => dispose = "no" /\ ~runtime /\ ~reaper
  /\ stopping => dispose = "service"

ServerInv == ProcessTypes /\ Wired /\ Paced

LEMMA ServerInitInv == OneBridge /\ ServerInit => ServerInv
<1> SUFFICES ASSUME OneBridge, ServerInit PROVE ServerInv
  OBVIOUS
<1>1. caller[p] = "out" /\ caller[m] = "out"
  BY TwoHandlers DEF ServerInit, Init
<1>2. ~stopping /\ ~reaper
  BY DEF ServerInit, Init
<1> QED
  BY <1>1, <1>2 DEF ServerInit, ServerInv, ProcessTypes, Wired, Paced

\* With both handlers in, or one on its way out, no connection is in the making.
LEMMA NoPromise ==
  ASSUME OneBridge, IInv, caller[p] \notin {"creating", "waiting"}, caller[m] \notin {"creating", "waiting"}
  PROVE  promise = None
BY TwoHandlers DEF IInv, Owned

\* Redis answers a subscription: of the presence handler, while initPresence awaits it.
LEMMA AnswerInv ==
  ASSUME OneBridge, IInv, ServerInv, Connected \/ ConnectFails, UNCHANGED processVars
  PROVE  ServerInv'
<1>1. promise # None /\ promise \in Links /\ stopping' = stopping /\ reaper' = reaper
  BY DEF Connected, ConnectFails, IInv, TypeOK
<1>2. phase \in {"warming", "bridging"} /\ caller[p] \in {"creating", "waiting"} /\ caller[m] = "out"
  BY <1>1, NoPromise, TwoHandlers DEF ServerInv, ProcessTypes, Wired
<1>3. /\ caller'[m] = "out"
      /\ \/ caller'[p] = "in" /\ subscriber' = promise
         \/ caller'[p] = "failed"
  BY <1>1, <1>2, TwoHandlers DEF Connected, ConnectFails, Settle, Creators
<1>4. Wired'
  BY <1>1, <1>2, <1>3 DEF processVars, work, outside, Wired
<1> QED
  BY <1>1, <1>4 DEF processVars, work, outside, ServerInv, ProcessTypes, Paced

LEMMA RedisInv == ASSUME OneBridge, IInv, ServerInv, RedisAnswers PROVE ServerInv'
<1>1. UNCHANGED processVars
  BY DEF RedisAnswers
<1>2. CASE Connected \/ ConnectFails
  BY <1>1, <1>2, AnswerInv
<1>3. CASE Stopped
  <2>1. UNCHANGED <<registered, caller, reaper, promise>> /\ stopping' = FALSE /\ dispose = "service"
    BY <1>3 DEF Stopped, ServerInv, Paced
  <2>2. caller[p] # "leaving" /\ caller[m] # "leaving"
    BY <2>1 DEF ServerInv, ProcessTypes, Wired, Paced
  <2> QED
    BY <1>1, <2>1, <2>2 DEF processVars, work, outside, ServerInv, ProcessTypes, Wired, Paced
<1>4. ASSUME NEW h \in Handlers, Unsubscribed(h) PROVE ServerInv'
  <2>1. /\ caller[h] = "leaving" /\ UNCHANGED <<registered, stopping, reaper, promise>>
        /\ caller' = [caller EXCEPT ![h] = IF subscriber = None THEN "failed" ELSE "out"]
    BY <1>4 DEF Unsubscribed
  <2>2. \A g \in Handlers : caller'[g] = IF g = h THEN "out" ELSE caller[g]
    <3>1. subscriber # None
      BY <2>1, TwoHandlers DEF ServerInv, Wired
    <3> QED
      BY <2>1, <3>1 DEF IInv, TypeOK
  <2>3. phase = "running" /\ (h = p \/ h = m)
    BY <2>1, TwoHandlers DEF ServerInv, ProcessTypes, Wired
  <2>4. Wired'
    BY <1>1, <2>1, <2>2, <2>3, TwoHandlers DEF processVars, work, outside, ServerInv, ProcessTypes, Wired
  <2> QED
    BY <1>1, <2>1, <2>4 DEF processVars, work, outside, ServerInv, ProcessTypes, Paced
<1> QED
  BY <1>2, <1>3, <1>4 DEF RedisAnswers, Redis

\* initPresence subscribes a handler.
LEMMA BridgeInv == ASSUME OneBridge, IInv, ServerInv, Bridge PROVE ServerInv'
<1>1. phase = "bridging" /\ UNCHANGED processVars
  BY DEF Bridge
<1>2. PICK h \in {p, m} : Subscribe(h)
  BY DEF Bridge
<1>3. /\ h \in Handlers /\ UNCHANGED <<stopping, reaper, subscriber>>
      /\ caller[h] \in {"out", "failed"}
      /\ h = p => caller[p] = "out" /\ caller[m] = "out"
      /\ h = m => caller[p] = "in" /\ caller[m] = "out"
  BY <1>2, TwoHandlers DEF Subscribe, MaySubscribe, OneBridge
<1>4. /\ caller'[h] \in {"creating", "waiting", "in"}
      /\ caller'[h] = "in" <=> subscriber # None
      /\ \A g \in Handlers : g # h => caller'[g] = caller[g]
  BY <1>2, <1>3 DEF Subscribe, EnsureSubscriber, IInv, TypeOK
<1>5. Wired'
  BY <1>1, <1>3, <1>4, TwoHandlers DEF processVars, work, outside, ServerInv, Wired
<1> QED
  BY <1>1, <1>3, <1>5 DEF processVars, work, outside, ServerInv, ProcessTypes, Paced

LEMMA ProgressInv == ASSUME OneBridge, IInv, ServerInv, Progress PROVE ServerInv'
<1>1. CASE WarmUp
  BY <1>1 DEF WarmUp, vars, serviceVars, work, outside, ServerInv, ProcessTypes, Wired, Paced
<1>2. CASE Run
  <2>1. caller[p] = "in" /\ caller[m] = "in" /\ dispose = "no" /\ ~stopping
    BY <1>2 DEF Run, ServerInv, Wired, Paced
  <2> QED
    BY <1>2, <2>1 DEF Run, StartReaper, work, outside, ServerInv, ProcessTypes, Wired, Paced
<1>3. CASE GiveUp
  <2>1. caller[p] = "failed" /\ caller[m] = "out"
    BY <1>3 DEF GiveUp, ServerInv, Wired
  <2>2. subscriber = None
    <3>1. \A h \in Handlers : caller[h] \in {"failed", "out"}
      BY <2>1, TwoHandlers
    <3>2. ~stopping
      BY <1>3 DEF GiveUp, Stop
    <3> QED
      BY <3>1, <3>2 DEF IInv, Owned
  <2>3. registered' = {} /\ ~reaper' /\ UNCHANGED <<caller, stopping>> /\ ~stopping
    BY <1>3, <2>2 DEF GiveUp, Stop
  <2> QED
    BY <1>3, <2>1, <2>3 DEF GiveUp, work, outside, ServerInv, ProcessTypes, Wired, Paced
<1>4. CASE InitFails
  BY <1>4 DEF InitFails, vars, serviceVars, work, outside, ServerInv, ProcessTypes, Wired, Paced
<1> QED
  BY <1>1, <1>2, <1>3, <1>4, BridgeInv DEF Progress

\* What an unsubscribe function does to its owner.
LEMMA Leaves ==
  ASSUME IInv, NEW h \in Handlers, Unsubscribe(h)
  PROVE  /\ caller[h] = "in" /\ caller'[h] \in {"leaving", "out"}
         /\ \A g \in Handlers : g # h => caller'[g] = caller[g]
         /\ caller'[h] = "leaving" => subscriber # None
         /\ UNCHANGED <<stopping, reaper, subscriber>>
BY DEF Unsubscribe, MayUnsubscribe, IInv, TypeOK

\* A signal either starts dispose and waits for it, or goes on to quit.
LEMMA SignalInv ==
  ASSUME OneBridge, IInv, ServerInv, NEW s \in Signals, Signal(s)
  PROVE  ServerInv'
<1>1. UNCHANGED <<phase, batcher, work, redis, outside>> /\ shutdown[s] = "none"
  BY DEF Signal
<1>2. CASE runtime /\ dispose = "no"
  <2>1. /\ dispose' = "presence" /\ shutdown' = [shutdown EXCEPT ![s] = "disposing"]
        /\ Unsubscribe(p) /\ runtime' = runtime
    BY <1>2 DEF Signal
  <2>2. phase = "running" /\ caller[m] = "in" /\ ~stopping
    BY <1>2 DEF ServerInv, Wired, Paced
  <2>3. \A z \in Signals : shutdown'[z] = IF z = s THEN "disposing" ELSE shutdown[z]
    BY <2>1 DEF ServerInv, ProcessTypes
  <2>4. Wired' /\ Paced'
    BY <1>1, <2>1, <2>2, Leaves, TwoHandlers DEF Wired, Paced
  <2> QED
    BY <1>1, <2>1, <2>3, <2>4 DEF work, outside, ServerInv, ProcessTypes
<1>3. CASE ~(runtime /\ dispose = "no")
  <2>1. /\ shutdown' = [shutdown EXCEPT ![s] = "quitting"] /\ runtime' = FALSE
        /\ UNCHANGED <<vars, dispose>>
    BY <1>3 DEF Signal
  <2>2. \A z \in Signals : shutdown'[z] = IF z = s THEN "quitting" ELSE shutdown[z]
    BY <2>1 DEF ServerInv, ProcessTypes
  <2> QED
    BY <1>1, <2>1, <2>2 DEF vars, serviceVars, work, outside, ServerInv, ProcessTypes, Wired, Paced
<1> QED
  BY <1>2, <1>3

LEMMA ShutdownInv == ASSUME OneBridge, IInv, ServerInv, Shutdown PROVE ServerInv'
<1>1. CASE StopBridge
  <2>1. phase = "running" /\ ~stopping
    BY <1>1 DEF StopBridge, ServerInv, Paced
  <2>2. Unsubscribe(m) /\ caller[p] = "out"
    BY <1>1 DEF StopBridge
  <2>3. Wired' /\ Paced'
    BY <1>1, <2>1, <2>2, Leaves, TwoHandlers DEF StopBridge, Wired, Paced
  <2> QED
    BY <1>1, <2>3 DEF StopBridge, work, outside, ServerInv, ProcessTypes
<1>2. CASE StopService
  <2>1. phase = "running" /\ caller[p] = "out" /\ caller[m] = "out"
    BY <1>2 DEF StopService, ServerInv, Wired, Paced
  <2> QED
    BY <1>2, <2>1 DEF StopService, Stop, work, outside, ServerInv, ProcessTypes, Wired, Paced
<1>3. CASE Disposed
  <2>1. phase = "running" /\ ~stopping
    BY <1>3 DEF Disposed, ServerInv, Paced
  <2>2. shutdown' \in [Signals -> {"none", "disposing", "quitting", "awaiting", "refused", "done"}]
    BY <1>3 DEF Disposed, ServerInv, ProcessTypes
  <2> QED
    BY <1>3, <2>1, <2>2 DEF Disposed, vars, serviceVars, work, outside, ServerInv, ProcessTypes, Wired, Paced
<1>4. CASE Exit
  BY <1>4 DEF Exit, vars, serviceVars, work, ServerInv, ProcessTypes, Wired, Paced
<1>5. ASSUME NEW s \in Signals, Quit(s) \/ QuitAnswered(s) \/ QuitFails(s) PROVE ServerInv'
  <2>1. /\ shutdown' \in [Signals -> {"none", "disposing", "quitting", "awaiting", "refused", "done"}]
        /\ http' \in {"listening", "closing"} /\ redis' \in BOOLEAN /\ exited' \in BOOLEAN
    BY <1>5 DEF Quit, QuitAnswered, QuitFails, outside, ServerInv, ProcessTypes
  <2>2. UNCHANGED <<vars, phase, dispose, batcher, runtime, work, client>>
    BY <1>5 DEF Quit, QuitAnswered, QuitFails, outside
  <2> QED
    BY <2>1, <2>2 DEF vars, serviceVars, work, ServerInv, ProcessTypes, Wired, Paced
<1> QED
  BY <1>1, <1>2, <1>3, <1>4, <1>5 DEF Shutdown

\* Work in progress begins and ends beside all this.
LEMMA WorkInv ==
  ASSUME IInv, ServerInv, PassBegins \/ BatchBegins \/ WorkEnds
  PROVE  ServerInv'
<1>1. /\ UNCHANGED <<vars, phase, dispose, batcher, runtime, shutdown, redis, outside>>
      /\ pass' \in BOOLEAN /\ batch' \in BOOLEAN
  BY DEF PassBegins, BatchBegins, WorkEnds, ServerInv, ProcessTypes
<1> QED
  BY <1>1 DEF vars, serviceVars, outside, ServerInv, ProcessTypes, Wired, Paced

LEMMA ServerNextInv == ASSUME OneBridge, IInv, ServerInv, [ServerNext]_serverVars PROVE ServerInv'
<1>1. ASSUME NEW c \in Clients, Connect(c) \/ Depart(c) PROVE ServerInv'
  BY <1>1 DEF Connect, Depart, vars, serviceVars, work, outside, ServerInv, ProcessTypes, Wired, Paced
<1>2. CASE UNCHANGED serverVars
  BY <1>2 DEF serverVars, processVars, work, outside, vars, serviceVars, ServerInv, ProcessTypes, Wired, Paced
<1> QED
  BY <1>1, <1>2, RedisInv, ProgressInv, ShutdownInv, SignalInv, WorkInv DEF ServerNext

LEMMA ServerInvariant == OneBridge => (ServerSpec => []IInv /\ []ServerInv)
<1> SUFFICES ASSUME OneBridge PROVE ServerSpec => []IInv /\ []ServerInv
  OBVIOUS
<1>1. ServerSpec => []IInv
  BY ServerIsBridge, Invariant, PTL
<1>2. ServerInit => ServerInv
  BY ServerInitInv
<1>3. IInv /\ ServerInv /\ [ServerNext]_serverVars => ServerInv'
  BY ServerNextInv
<1> QED
  BY <1>1, <1>2, <1>3, PTL DEF ServerSpec

\* What initPresence, dispose and shutdown keep has its shape, the service's fields included.
THEOREM ServerTypeCorrect == OneBridge => (ServerSpec => []ServerTypeOK)
<1>1. IInv /\ ServerInv => ServerTypeOK
  BY DEF IInv, ServerInv, ProcessTypes, ServerTypeOK
<1> QED
  BY <1>1, ServerInvariant, PTL

\* Whenever and however often the signals come, and wherever Redis fails initPresence, a
\* dispose that has returned leaves no timer, handler, batch or subscriber behind.
THEOREM DisposeIsFinal == OneBridge => (ServerSpec => []NothingGoesOn)
<1> SUFFICES ASSUME OneBridge PROVE ServerSpec => []NothingGoesOn
  OBVIOUS
<1>1. IInv /\ ServerInv => NothingGoesOn
  <2> SUFFICES ASSUME IInv, ServerInv, dispose = "done" \/ phase = "failing"
               PROVE  /\ ~reaper /\ batcher
                      /\ registered = {} /\ subscriber = None /\ promise = None
                      /\ \A s \in Links : link[s] \in {"unused", "closed", "lost"}
    BY DEF NothingGoesOn
  <2>1. ~reaper /\ batcher /\ ~stopping /\ caller[p] \in {"out", "failed"} /\ caller[m] = "out"
    BY DEF ServerInv, ProcessTypes, Wired, Paced
  <2>2. \A h \in Handlers : caller[h] \in {"out", "failed"}
    BY <2>1, TwoHandlers
  <2>3. registered = {} /\ subscriber = None /\ promise = None
    BY <2>1, <2>2 DEF IInv, TypeOK, Owned
  <2> QED
    BY <2>1, <2>3, BridgeAssumption DEF IInv, TypeOK, OneSubscriber
<1> QED
  BY <1>1, ServerInvariant, PTL

\* Once dispose has returned no pass of the reaper and no batch begins, whatever the
\* signals; what dispose found in progress is not waited for (safeStop).
THEOREM OnlyOldWork ==
  OneBridge => (ServerSpec => [][dispose = "done" => (pass' => pass) /\ (batch' => batch)]_serverVars)
<1> SUFFICES ASSUME OneBridge
             PROVE  ServerSpec => [][dispose = "done" => (pass' => pass) /\ (batch' => batch)]_serverVars
  OBVIOUS
<1>1. ASSUME IInv, ServerInv, ServerNext, dispose = "done"
      PROVE  (pass' => pass) /\ (batch' => batch)
  <2>1. ~reaper /\ batcher
    BY <1>1 DEF ServerInv, ProcessTypes, Wired, Paced
  <2>2. ~PassBegins /\ ~BatchBegins
    BY <2>1 DEF PassBegins, BatchBegins
  <2>3. CASE WorkEnds
    BY <2>3 DEF WorkEnds
  <2>4. CASE RedisAnswers \/ Progress
    BY <2>4 DEF RedisAnswers, Progress, WarmUp, Bridge, Run, GiveUp, InitFails, processVars, work
  <2>5. CASE Shutdown
    BY <2>5 DEF Shutdown, StopBridge, StopService, Disposed, Exit, Quit, QuitAnswered, QuitFails, work
  <2>6. ASSUME NEW s \in Signals, Signal(s) PROVE UNCHANGED work
    BY <2>6 DEF Signal
  <2>7. ASSUME NEW c \in Clients, Connect(c) \/ Depart(c) PROVE UNCHANGED work
    BY <2>7 DEF Connect, Depart
  <2> QED
    BY <1>1, <2>2, <2>3, <2>4, <2>5, <2>6, <2>7 DEF ServerNext, work
<1> QED
  BY <1>1, ServerInvariant, PTL DEF ServerSpec

=============================================================================
