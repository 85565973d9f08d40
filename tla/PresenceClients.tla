---------------------------- MODULE PresenceClients ----------------------------
(***************************************************************************)
(* The presence clients of the SDK that share one socket: PresenceChannel  *)
(* objects (modules/presence/presence-channel.ts), used directly or behind *)
(* ChannelPresence (modules/channel/channel-presence.ts), which makes one  *)
(* for every join.  The server may answer what it is sent at any time, in  *)
(* any order, or never; the socket drops and reconnects.                   *)
(***************************************************************************)
EXTENDS Naturals, FiniteSets

CONSTANTS
  Direct,     \* PresenceChannel objects the application has
  Wrapped,    \* bound: the ones one ChannelPresence can make
  Calls,      \* bound: promises and acknowledgements outstanding at once
  None,
  HeartbeatIntervalMs,
  MaxMissed,  \* maxMissedHeartbeats
  Logger      \* has ChannelPresence a logger?  RealtimeClient.channel() passes its options for one

Channels == Direct \union Wrapped

ASSUME ClientsAssumption ==
  /\ Direct \intersect Wrapped = {} /\ None \notin Channels \union Calls
  /\ HeartbeatIntervalMs \in Nat /\ MaxMissed \in Nat /\ Logger \in BOOLEAN

VARIABLES
  connected,  \* socket.connected
  state,      \* ChannelState of each channel: null, all of it, or an epoch alone
  loop,       \* does the heartbeat interval run
  missed,     \* missedHeartbeats
  listening,  \* the channels whose handlers are on the socket, once or more often
  call,       \* what waits for an acknowledgement or a timer
  made,       \* the objects ChannelPresence has made
  current,    \* ChannelPresence.presenceChannel
  stopped,    \* history: a channel took all handlers off the socket
  overlapped  \* history: ChannelPresence was called while a call to it was under way

channelVars == <<state, loop, missed>>
listenVars == <<listening, stopped>>
wrapperVars == <<made, current, overlapped>>
vars == <<connected, channelVars, listenVars, call, wrapperVars>>

\* open: the promise is not settled.  then: what leave's caller does next.
Call == [kind: {"join", "heartbeat", "leave", "emit"}, channel: Channels,
         ack: {"buffered", "sent", "never"}, open: BOOLEAN,
         then: {"return", "detach", "drop", "rejoin"}]

\* Type invariant: the shapes of channels and calls; the missed heartbeats stay
\* within maxMissedHeartbeats, where an error resets them.
TypeOK ==
  /\ connected \in BOOLEAN
  /\ state \in [Channels -> {"null", "epoch", "whole"}]
  /\ loop \in [Channels -> BOOLEAN]
  /\ missed \in [Channels -> 0..MaxMissed]
  /\ listening \subseteq Channels
  /\ call \in [Calls -> Call \union {None}]
  /\ made \subseteq Wrapped
  /\ current \in Wrapped \union {None}
  /\ stopped \in BOOLEAN /\ overlapped \in BOOLEAN

Init ==
  /\ connected = TRUE
  /\ state = [c \in Channels |-> "null"]
  /\ loop = [c \in Channels |-> FALSE]
  /\ missed = [c \in Channels |-> 0]
  /\ listening = {}
  /\ call = [i \in Calls |-> None]
  /\ made = {} /\ current = None
  /\ stopped = FALSE /\ overlapped = FALSE

Waits(i, kind) == call[i] # None /\ call[i].kind = kind
Answerable(i, kind) == Waits(i, kind) /\ call[i].ack = "sent"

\* socket.emit with an acknowledgement: kept in the socket's buffer while it is down.
Request(kind, c, then) ==
  [kind |-> kind, channel |-> c, ack |-> IF connected THEN "sent" ELSE "buffered",
   open |-> TRUE, then |-> then]
Send(i, kind, c) == call[i] = None /\ call' = [call EXCEPT ![i] = Request(kind, c, "return")]

\* A call is forgotten when it is settled and its acknowledgement is in, or lost.
Forget(i) == call' = [call EXCEPT ![i] = None]
Settle(i) == call' = [call EXCEPT ![i] = IF @.ack = "never" THEN None ELSE [@ EXCEPT !.open = FALSE]]

\* Mutant of Cleaned: the interval runs on.
CleanedBeating(c) ==
  /\ state' = [state EXCEPT ![c] = "null"]
  /\ UNCHANGED loop

\* cleanupState
Cleaned(c) ==
  /\ loop' = [loop EXCEPT ![c] = FALSE]
  /\ state' = [state EXCEPT ![c] = "null"]

StartHeartbeatLoop(c) == loop' = [loop EXCEPT ![c] = HeartbeatIntervalMs > 0]

\* A channel's handlers go on the socket.
AttachSocketHandlers(c) == listening' = listening \union {c}

\* socket.off(event) without a handler: the handlers of every channel go.
DetachSocketHandlers ==
  /\ listening' = {}
  /\ stopped' = TRUE

-----------------------------------------------------------------------------
(* PresenceChannel *)

Join(i) ==
  \E c \in Direct :
    /\ AttachSocketHandlers(c)
    /\ Send(i, "join", c)
    /\ UNCHANGED <<connected, channelVars, stopped, wrapperVars>>

JoinRefused(i) ==
  /\ Answerable(i, "join")
  /\ Forget(i)
  /\ UNCHANGED <<connected, channelVars, listenVars, wrapperVars>>

JoinAccepted(i) ==
  /\ Answerable(i, "join")
  /\ LET c == call[i].channel IN
     /\ state' = [state EXCEPT ![c] = "whole"]
     /\ missed' = [missed EXCEPT ![c] = 0]
     /\ StartHeartbeatLoop(c)
  /\ Forget(i)
  /\ UNCHANGED <<connected, listenVars, wrapperVars>>

\* updateState, of a PresenceChannel or of a ChannelPresence on its current one.
MayUpdateState(c) == c \in Direct \/ c = current

\* sendHeartbeat, by the interval or by updateState.  Without a state it throws, and
\* sends nothing.
SendHeartbeat(i) ==
  \E c \in Channels :
    /\ loop[c] \/ MayUpdateState(c)
    /\ state[c] # "null"
    /\ Send(i, "heartbeat", c)
    /\ UNCHANGED <<connected, channelVars, listenVars, wrapperVars>>

\* recordMissedHeartbeat: one too many is an error, and the count starts again.
Missed(c) == missed' = [missed EXCEPT ![c] = IF @ + 1 > MaxMissed THEN 0 ELSE @ + 1]

\* The acknowledgement of a heartbeat, which may carry the epoch: it then leaves a
\* channel that has no state with an epoch alone.  Too late, it does nothing.
HeartbeatAccepted(i) ==
  /\ Answerable(i, "heartbeat")
  /\ Forget(i)
  /\ LET c == call[i].channel IN
     IF call[i].open
     THEN /\ state' \in {state, [state EXCEPT ![c] = IF @ = "null" THEN "epoch" ELSE @]}
          /\ missed' = [missed EXCEPT ![c] = 0]
     ELSE UNCHANGED <<state, missed>>
  /\ UNCHANGED <<connected, loop, listenVars, wrapperVars>>

\* Mutant of HeartbeatRefused: a refusal counts however late.
HeartbeatRefusedLate(i) ==
  /\ Answerable(i, "heartbeat")
  /\ Forget(i)
  /\ Missed(call[i].channel)
  /\ UNCHANGED <<connected, state, loop, listenVars, wrapperVars>>

HeartbeatRefused(i) ==
  /\ Answerable(i, "heartbeat")
  /\ Forget(i)
  /\ IF call[i].open THEN Missed(call[i].channel) ELSE UNCHANGED missed
  /\ UNCHANGED <<connected, state, loop, listenVars, wrapperVars>>

HeartbeatExpires(i) ==
  /\ Waits(i, "heartbeat") /\ call[i].open
  /\ Settle(i)
  /\ Missed(call[i].channel)
  /\ UNCHANGED <<connected, state, loop, listenVars, wrapperVars>>

\* emit(event, payload, {ack: true}): a custom event, its promise and its timer.
Emit(i) ==
  \E c \in Direct :
    /\ Send(i, "emit", c)
    /\ UNCHANGED <<connected, channelVars, listenVars, wrapperVars>>

EmitAnswered(i) ==
  /\ Answerable(i, "emit")
  /\ Forget(i)
  /\ UNCHANGED <<connected, channelVars, listenVars, wrapperVars>>

\* Mutant of EmitExpires: the timer waits for the connection.
EmitExpiresOnline(i) ==
  /\ Waits(i, "emit") /\ call[i].open /\ connected
  /\ Settle(i)
  /\ UNCHANGED <<connected, channelVars, listenVars, wrapperVars>>

EmitExpires(i) ==
  /\ Waits(i, "emit") /\ call[i].open
  /\ Settle(i)
  /\ UNCHANGED <<connected, channelVars, listenVars, wrapperVars>>

\* leave of a channel that has a state, and stop, which detaches afterwards.
Leave(i) ==
  \E c \in Direct, then \in {"return", "detach"} :
    /\ state[c] # "null"
    /\ call[i] = None
    /\ call' = [call EXCEPT ![i] = Request("leave", c, then)]
    /\ UNCHANGED <<connected, channelVars, listenVars, wrapperVars>>

\* stop of a channel that has none.
Stop ==
  /\ \E c \in Direct : state[c] = "null"
  /\ DetachSocketHandlers
  /\ UNCHANGED <<connected, channelVars, call, wrapperVars>>

-----------------------------------------------------------------------------
(* ChannelPresence *)

WrapperCalls == {i \in Calls : call[i] # None /\ call[i].channel \in Wrapped
                               /\ call[i].kind \in {"join", "leave"}}
Overlap == overlapped' = (overlapped \/ WrapperCalls # {})
HasToLeave == \E c \in Wrapped : c = current /\ state[c] # "null"
Rejoins == {i \in Calls : call[i] # None /\ call[i].then = "rejoin"}

\* The bound on objects, and the warning that there is a current channel: without a
\* logger it throws, the join rejects, and nothing has changed.
MayJoin(i) ==
  /\ call[i] = None
  /\ Cardinality(Wrapped \ made) > Cardinality(Rejoins)
  /\ current # None => Logger

\* The join of a new PresenceChannel, which becomes the current one.
JoinNew(i) ==
  \E c \in Wrapped \ made :
    /\ c = CHOOSE d \in Wrapped \ made : TRUE
    /\ made' = made \union {c} /\ current' = c
    /\ AttachSocketHandlers(c)
    /\ call' = [call EXCEPT ![i] = Request("join", c, "return")]

\* join: at once without a current channel, or with one that has nothing to leave.
PresenceJoin(i) ==
  /\ MayJoin(i)
  /\ ~HasToLeave
  /\ JoinNew(i)
  /\ Overlap
  /\ UNCHANGED <<connected, channelVars, stopped>>

\* Mutant of PresenceRejoin: the current channel is not left.
PresenceRejoinOver(i) ==
  /\ MayJoin(i)
  /\ HasToLeave
  /\ JoinNew(i)
  /\ Overlap
  /\ UNCHANGED <<connected, channelVars, stopped>>

\* join, which must first leave the current channel.
PresenceRejoin(i) ==
  /\ MayJoin(i)
  /\ HasToLeave
  /\ call' = [call EXCEPT ![i] = Request("leave", current, "rejoin")]
  /\ Overlap
  /\ UNCHANGED <<connected, channelVars, listenVars, made, current>>

\* leave, of a current channel that has something to leave.
PresenceLeave(i) ==
  /\ call[i] = None
  /\ HasToLeave
  /\ call' = [call EXCEPT ![i] = Request("leave", current, "drop")]
  /\ Overlap
  /\ UNCHANGED <<connected, channelVars, listenVars, made, current>>

CleanupPresenceChannel == current' = None

\* leave, of one that has nothing to leave.
PresenceDrop ==
  /\ current # None /\ ~HasToLeave
  /\ CleanupPresenceChannel
  /\ Overlap
  /\ UNCHANGED <<connected, channelVars, listenVars, made, call>>

\* leave is over: the channel is cleaned up, and what called leave goes on.  Later
\* the acknowledgement or the timer finds the promise settled, and does nothing.
LeaveReturns(i) ==
  LET c == call[i].channel IN
  /\ Cleaned(c)
  /\ CASE call[i].then = "return" -> Forget(i) /\ UNCHANGED <<listenVars, made, current>>
       [] call[i].then = "detach" -> Forget(i) /\ DetachSocketHandlers /\ UNCHANGED <<made, current>>
       [] call[i].then = "drop"   -> Forget(i) /\ CleanupPresenceChannel /\ UNCHANGED <<listenVars, made>>
       [] call[i].then = "rejoin" -> JoinNew(i) /\ UNCHANGED stopped
  /\ UNCHANGED <<connected, missed, overlapped>>

LeaveAnswered(i) == Answerable(i, "leave") /\ LeaveReturns(i)
LeaveExpires(i) == Waits(i, "leave") /\ LeaveReturns(i)

-----------------------------------------------------------------------------
(* The socket *)

\* What was sent will not be answered.  Only the promises with a timer go on.
Lost(k) ==
  IF k = None \/ k.ack # "sent" THEN k
  ELSE IF k.kind = "join" \/ ~k.open THEN None ELSE [k EXCEPT !.ack = "never"]

\* Mutant of Disconnected: the channels wait for the reconnection.
DisconnectedWaits ==
  /\ connected
  /\ connected' = FALSE
  /\ call' = [i \in Calls |-> Lost(call[i])]
  /\ UNCHANGED <<channelVars, listenVars, wrapperVars>>

\* The socket is down, and every channel that listens cleans up.
Disconnected ==
  /\ connected
  /\ connected' = FALSE
  /\ call' = [i \in Calls |-> Lost(call[i])]
  /\ state' = [c \in Channels |-> IF c \in listening THEN "null" ELSE state[c]]
  /\ loop' = [c \in Channels |-> loop[c] /\ c \notin listening]
  /\ UNCHANGED <<missed, listenVars, wrapperVars>>

\* The socket is up again, and sends what it has kept.
Reconnected ==
  /\ ~connected
  /\ connected' = TRUE
  /\ call' = [i \in Calls |-> IF call[i] # None /\ call[i].ack = "buffered"
                              THEN [call[i] EXCEPT !.ack = "sent"] ELSE call[i]]
  /\ UNCHANGED <<channelVars, listenVars, wrapperVars>>

-----------------------------------------------------------------------------
Expires(i) == HeartbeatExpires(i) \/ EmitExpires(i) \/ LeaveExpires(i)

Next ==
  \/ \E i \in Calls :
       \/ Join(i) \/ JoinRefused(i) \/ JoinAccepted(i)
       \/ SendHeartbeat(i) \/ HeartbeatAccepted(i) \/ HeartbeatRefused(i)
       \/ Emit(i) \/ EmitAnswered(i)
       \/ Leave(i) \/ LeaveAnswered(i)
       \/ PresenceJoin(i) \/ PresenceRejoin(i) \/ PresenceLeave(i)
       \/ Expires(i)
  \/ Stop \/ PresenceDrop
  \/ Disconnected \/ Reconnected

Spec == Init /\ [][Next]_vars

\* Timers fire (setTimeout); the server and the network owe nothing.
FairSpec == Spec /\ \A i \in Calls : WF_vars(Expires(i))

-----------------------------------------------------------------------------
\* A heartbeat loop runs only for a channel that knows its whole session: no loop
\* outlives leave or a lost connection to send the epoch of a session that is over.
LoopHasState == \A c \in Channels : loop[c] => state[c] = "whole"

\* Unless a channel that was stopped took everyone's handlers off the socket, no
\* heartbeat loop runs while the socket is down, whatever was buffered or on its way.
QuietOffline == ~stopped => \A c \in Channels : loop[c] => connected

\* With one call at a time to it, a ChannelPresence beats for its current channel
\* alone: a channel it has replaced or left never beats again.
OneLoop == ~overlapped => \A c \in Wrapped : loop[c] => c = current

\* A heartbeat has one outcome: once its timer has fired, the acknowledgement changes
\* neither the channel's state nor its count of missed heartbeats.
LateAnswerIgnored ==
  [][\A i \in Calls : call[i] # None /\ ~call[i].open /\ call'[i] # call[i] /\ connected'
        => UNCHANGED channelVars]_vars

\* A promise with a timer that is not settled.
Timed(i) == call[i] # None /\ call[i].kind # "join" /\ call[i].open

\* A heartbeat, a leave and an acknowledged emit are settled, whether the server
\* answers or the socket drops (a join has no timer: its promise may stay pending).
TimedCallsSettle == \A i \in Calls : Timed(i) ~> ~Timed(i)
=============================================================================
