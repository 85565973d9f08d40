------------------------ MODULE PresenceClientsProofs ------------------------
(***************************************************************************)
(* Proofs about PresenceClients, for any number of channels and of calls   *)
(* outstanding, and any limit of missed heartbeats: what runs a heartbeat  *)
(* loop, and when.                                                         *)
(***************************************************************************)
EXTENDS PresenceClients, TLAPS

\* An acknowledgement that may still come was asked for on this connection.
SentOnline == \A i \in Calls : call[i] # None /\ call[i].ack = "sent" => connected

\* What beats, or will when its join is accepted, hears the disconnection.
LoopListens ==
  ~stopped => /\ \A c \in Channels : loop[c] => c \in listening
              /\ \A i \in Calls : Waits(i, "join") => call[i].channel \in listening

\* One call at a time to ChannelPresence: it is about the current channel.
OneCall ==
  ~overlapped => /\ \A i \in WrapperCalls : call[i].channel = current
                 /\ \A i, j \in WrapperCalls : i = j

\* ChannelPresence leaves its own channels alone.
LeavesOwn ==
  \A i \in Calls : call[i] # None /\ call[i].then \in {"drop", "rejoin"}
                     => call[i].channel \in Wrapped

IInv ==
  /\ TypeOK /\ LoopHasState /\ SentOnline /\ LoopListens /\ QuietOffline
  /\ OneLoop /\ OneCall /\ LeavesOwn

-----------------------------------------------------------------------------
(* The helpers *)

LEMMA RequestTyped ==
  ASSUME NEW kind \in {"join", "heartbeat", "leave", "emit"}, NEW c \in Channels,
         NEW then \in {"return", "detach", "drop", "rejoin"}
  PROVE  /\ Request(kind, c, then) \in Call
         /\ Request(kind, c, then).kind = kind
         /\ Request(kind, c, then).channel = c
         /\ Request(kind, c, then).then = then
         /\ Request(kind, c, then).ack = "sent" => connected
  BY DEF Request, Call

LEMMA LostKeeps ==
  ASSUME NEW k \in Call \union {None}
  PROVE  /\ Lost(k) \in Call \union {None}
         /\ Lost(k) # None => /\ k # None /\ k \in Call
                              /\ Lost(k).kind = k.kind /\ Lost(k).channel = k.channel
                              /\ Lost(k).then = k.then /\ Lost(k).ack # "sent"
  BY DEF Lost, Call

\* The timer of a call: the promise is settled, and nothing else of the call changes.
LEMMA SettleKeeps ==
  ASSUME TypeOK, NEW i \in Calls, call[i] # None, Settle(i)
  PROVE  /\ call' \in [Calls -> Call \union {None}]
         /\ \A j \in Calls : call'[j] # None =>
              /\ call[j] # None
              /\ call'[j].kind = call[j].kind /\ call'[j].channel = call[j].channel
              /\ call'[j].then = call[j].then /\ call'[j].ack = call[j].ack
  BY DEF TypeOK, Settle, Call

\* A new call in a free slot, or in the place of the one it goes on from.
LEMMA Placed ==
  ASSUME TypeOK, NEW i \in Calls, NEW k \in Call \union {None}, call' = [call EXCEPT ![i] = k]
  PROVE  /\ call' \in [Calls -> Call \union {None}]
         /\ call'[i] = k
         /\ \A j \in Calls : j # i => call'[j] = call[j]
  BY DEF TypeOK

-----------------------------------------------------------------------------
(* Initially, and when nothing happens *)

LEMMA InitInv == Init => IInv
<1> SUFFICES ASSUME Init PROVE IInv
  OBVIOUS
<1>1. TypeOK
  <2>1. 0 \in 0..MaxMissed
    BY ClientsAssumption
  <2> QED
    BY <2>1 DEF Init, TypeOK
<1>2. \A c \in Channels : ~loop[c]
  BY DEF Init
<1>3. \A i \in Calls : call[i] = None
  BY DEF Init
<1>4. /\ LoopHasState /\ SentOnline /\ LoopListens /\ QuietOffline /\ OneLoop /\ OneCall /\ LeavesOwn
  BY <1>2, <1>3 DEF LoopHasState, SentOnline, LoopListens, QuietOffline, OneLoop, OneCall,
       LeavesOwn, Waits, WrapperCalls, Channels
<1> QED
  BY <1>1, <1>4 DEF IInv

LEMMA StutterInv == IInv /\ UNCHANGED vars => IInv'
BY DEF vars, channelVars, listenVars, wrapperVars, IInv, TypeOK, LoopHasState, SentOnline,
       LoopListens, QuietOffline, OneLoop, OneCall, LeavesOwn, Waits, WrapperCalls

-----------------------------------------------------------------------------
(* Calls *)

\* What the invariant says of calls alone.
CallsInv == SentOnline /\ OneCall /\ LeavesOwn

\* A call that ends leaves the others as they were.
LEMMA ForgetInv ==
  ASSUME IInv, NEW i \in Calls, Forget(i), UNCHANGED <<connected, listenVars, wrapperVars>>
  PROVE  /\ call' \in [Calls -> Call \union {None}]
         /\ CallsInv'
         /\ \A j \in Calls : Waits(j, "join")' => Waits(j, "join") /\ call'[j] = call[j]
<1>1. /\ call' \in [Calls -> Call \union {None}]
      /\ \A j \in Calls : call'[j] = None \/ call'[j] = call[j]
  BY Placed DEF Forget, IInv, TypeOK
<1>2. WrapperCalls' \subseteq WrapperCalls
  BY <1>1 DEF WrapperCalls
<1> QED
  BY <1>1, <1>2
  DEF IInv, CallsInv, SentOnline, OneCall, LeavesOwn, Waits, listenVars, wrapperVars, WrapperCalls

\* So does one whose timer has fired.
LEMMA SettleInv ==
  ASSUME IInv, NEW i \in Calls, call[i] # None, Settle(i),
         UNCHANGED <<connected, listenVars, wrapperVars>>
  PROVE  /\ call' \in [Calls -> Call \union {None}]
         /\ CallsInv'
         /\ LoopListens => \A j \in Calls : ~stopped /\ Waits(j, "join")' => call'[j].channel \in listening
<1>1. /\ call' \in [Calls -> Call \union {None}]
      /\ \A j \in Calls : call'[j] # None =>
              /\ call[j] # None
              /\ call'[j].kind = call[j].kind /\ call'[j].channel = call[j].channel
              /\ call'[j].then = call[j].then /\ call'[j].ack = call[j].ack
  BY SettleKeeps DEF IInv
<1>2. WrapperCalls' \subseteq WrapperCalls
  BY <1>1 DEF WrapperCalls
<1>3. /\ SentOnline' /\ LeavesOwn'
  BY <1>1 DEF IInv, SentOnline, LeavesOwn
<1>4. OneCall'
  BY <1>1, <1>2 DEF IInv, OneCall, wrapperVars, WrapperCalls
<1> QED
  BY <1>1, <1>3, <1>4 DEF CallsInv, LoopListens, Waits

\* A new call of a channel to which ChannelPresence has no call under way, or which
\* is none of its own.
LEMMA PlacedInv ==
  ASSUME IInv, NEW i \in Calls, NEW kind \in {"join", "heartbeat", "leave", "emit"},
         NEW c \in Channels, NEW then \in {"return", "detach", "drop", "rejoin"},
         call' = [call EXCEPT ![i] = Request(kind, c, then)],
         connected' = connected,
         then \in {"drop", "rejoin"} => c \in Wrapped,
         ~overlapped' => ~overlapped,
         ~overlapped' => \/ current' = current /\ (c \in Direct \/ kind \in {"heartbeat", "emit"})
                         \/ current' = c /\ WrapperCalls \subseteq {i},
         kind = "join" /\ ~stopped' => c \in listening',
         ~stopped' => ~stopped /\ listening \subseteq listening'
  PROVE  /\ call' \in [Calls -> Call \union {None}]
         /\ CallsInv'
         /\ \A j \in Calls : ~stopped' /\ Waits(j, "join")' => call'[j].channel \in listening'
<1> DEFINE k == Request(kind, c, then)
<1>1. /\ k \in Call /\ k.kind = kind /\ k.channel = c /\ k.then = then
      /\ k.ack = "sent" => connected
  BY RequestTyped
<1> HIDE DEF k
<1>2. /\ call' \in [Calls -> Call \union {None}]
      /\ call'[i] = k
      /\ \A j \in Calls : j # i => call'[j] = call[j]
  BY <1>1, Placed DEF IInv, k
<1>3. SentOnline' /\ LeavesOwn'
  BY <1>1, <1>2 DEF IInv, SentOnline, LeavesOwn
<1>4. OneCall'
  <2> SUFFICES ASSUME ~overlapped' PROVE OneCall'
    BY DEF OneCall
  <2>1. WrapperCalls' \subseteq WrapperCalls \union {i}
    BY <1>2 DEF WrapperCalls
  <2>2. CASE current' = current /\ (c \in Direct \/ kind \in {"heartbeat", "emit"})
    <3>1. i \notin WrapperCalls'
      BY <2>2, <1>1, <1>2, ClientsAssumption DEF WrapperCalls
    <3> QED
      BY <3>1, <2>1, <2>2, <1>2 DEF IInv, OneCall, WrapperCalls
  <2>3. CASE current' = c /\ WrapperCalls \subseteq {i}
    BY <2>1, <2>3, <1>1, <1>2 DEF OneCall
  <2> QED
    BY <2>2, <2>3
<1>5. \A j \in Calls : ~stopped' /\ Waits(j, "join")' => call'[j].channel \in listening'
  BY <1>1, <1>2 DEF IInv, LoopListens, Waits
<1> QED
  BY <1>2, <1>3, <1>4, <1>5 DEF CallsInv

-----------------------------------------------------------------------------
(* Steps that leave the loops and the connection alone *)

\* Counting a missed heartbeat stays within the limit.
LEMMA MissedType ==
  ASSUME TypeOK, NEW c \in Channels, Missed(c)
  PROVE  missed' \in [Channels -> 0..MaxMissed]
<1>1. \A n \in 0..MaxMissed : (IF n + 1 > MaxMissed THEN 0 ELSE n + 1) \in 0..MaxMissed
  BY ClientsAssumption
<1> QED
  BY <1>1 DEF TypeOK, Missed

\* With the loops, the sessions and what listens as they were, only the calls matter.
LEMMA QuietStep ==
  ASSUME IInv, TypeOK', CallsInv', UNCHANGED <<connected, loop, listening, stopped>>,
         \A c \in Channels : state[c] = "whole" => state'[c] = "whole",
         ~overlapped' => ~overlapped /\ (current' = current \/ \A c \in Wrapped : ~loop[c]),
         \A j \in Calls : ~stopped' /\ Waits(j, "join")' => call'[j].channel \in listening'
  PROVE  IInv'
BY DEF IInv, CallsInv, LoopHasState, LoopListens, QuietOffline, OneLoop, Channels

LEMMA JoinInv == ASSUME IInv, NEW i \in Calls, Join(i) PROVE IInv'
<1>1. PICK c \in Direct : AttachSocketHandlers(c) /\ Send(i, "join", c)
                          /\ UNCHANGED <<connected, channelVars, stopped, wrapperVars>>
  BY DEF Join
<1>2. /\ call' \in [Calls -> Call \union {None}]
      /\ CallsInv'
      /\ \A j \in Calls : ~stopped' /\ Waits(j, "join")' => call'[j].channel \in listening'
  <2>1. c \in Channels /\ "join" \in {"join", "heartbeat", "leave", "emit"}
        /\ "return" \in {"return", "detach", "drop", "rejoin"}
    BY DEF Channels
  <2> QED
    BY <1>1, <2>1, PlacedInv DEF Send, AttachSocketHandlers, wrapperVars
<1>3. TypeOK'
  BY <1>1, <1>2 DEF IInv, TypeOK, AttachSocketHandlers, channelVars, wrapperVars, Channels
<1> QED
  BY <1>1, <1>2, <1>3
  DEF IInv, CallsInv, AttachSocketHandlers, LoopHasState, LoopListens, QuietOffline, OneLoop,
      channelVars, wrapperVars

LEMMA JoinRefusedInv == ASSUME IInv, NEW i \in Calls, JoinRefused(i) PROVE IInv'
<1>1. /\ Forget(i) /\ UNCHANGED <<connected, channelVars, listenVars, wrapperVars>>
  BY DEF JoinRefused
<1>2. /\ call' \in [Calls -> Call \union {None}]
      /\ CallsInv'
      /\ \A j \in Calls : Waits(j, "join")' => Waits(j, "join") /\ call'[j] = call[j]
  BY <1>1, ForgetInv
<1>3. TypeOK'
  BY <1>1, <1>2 DEF IInv, TypeOK, channelVars, listenVars, wrapperVars
<1> QED
  BY <1>1, <1>2, <1>3, QuietStep DEF IInv, LoopListens, channelVars, listenVars, wrapperVars

\* The one step that starts a loop: the connection is up, the session is whole, the
\* channel listens, and of ChannelPresence it is the current one.
LEMMA JoinAcceptedInv == ASSUME IInv, NEW i \in Calls, JoinAccepted(i) PROVE IInv'
<1> DEFINE c == call[i].channel
<1>1. /\ Answerable(i, "join") /\ Forget(i)
      /\ state' = [state EXCEPT ![c] = "whole"]
      /\ missed' = [missed EXCEPT ![c] = 0]
      /\ loop' = [loop EXCEPT ![c] = HeartbeatIntervalMs > 0]
      /\ UNCHANGED <<connected, listenVars, wrapperVars>>
  BY DEF JoinAccepted, StartHeartbeatLoop
<1>2. call[i] \in Call /\ c \in Channels /\ connected /\ Waits(i, "join")
  BY <1>1 DEF Answerable, Waits, IInv, TypeOK, SentOnline, Call
<1>3. /\ call' \in [Calls -> Call \union {None}]
      /\ CallsInv'
      /\ \A j \in Calls : Waits(j, "join")' => Waits(j, "join") /\ call'[j] = call[j]
  BY <1>1, ForgetInv
<1> HIDE DEF c
<1>4. TypeOK'
  <2>1. 0 \in 0..MaxMissed /\ (HeartbeatIntervalMs > 0) \in BOOLEAN
    BY ClientsAssumption
  <2> QED
    BY <1>1, <1>2, <1>3, <2>1 DEF IInv, TypeOK, listenVars, wrapperVars
<1>5. LoopHasState'
  BY <1>1, <1>2 DEF IInv, TypeOK, LoopHasState
<1>6. \A d \in Channels : loop'[d] => loop[d] \/ d = c
  BY <1>1, <1>2 DEF IInv, TypeOK
<1>7. LoopListens'
  BY <1>1, <1>2, <1>3, <1>6 DEF IInv, LoopListens, listenVars, c
<1>8. QuietOffline'
  BY <1>1, <1>2 DEF QuietOffline
<1>9. OneLoop'
  <2>1. c \in Wrapped => i \in WrapperCalls
    BY <1>2 DEF WrapperCalls, Waits, c
  <2> QED
    BY <1>1, <1>6, <2>1 DEF IInv, OneLoop, OneCall, wrapperVars, Channels, c
<1> QED
  BY <1>3, <1>4, <1>5, <1>7, <1>8, <1>9 DEF IInv, CallsInv

LEMMA SendHeartbeatInv == ASSUME IInv, NEW i \in Calls, SendHeartbeat(i) PROVE IInv'
<1>1. PICK c \in Channels : Send(i, "heartbeat", c)
                            /\ UNCHANGED <<connected, channelVars, listenVars, wrapperVars>>
  BY DEF SendHeartbeat
<1>2. /\ call' \in [Calls -> Call \union {None}]
      /\ CallsInv'
      /\ \A j \in Calls : ~stopped' /\ Waits(j, "join")' => call'[j].channel \in listening'
  <2>1. "heartbeat" \in {"join", "heartbeat", "leave", "emit"}
        /\ "return" \in {"return", "detach", "drop", "rejoin"}
    OBVIOUS
  <2> QED
    BY <1>1, <2>1, PlacedInv DEF Send, listenVars, wrapperVars
<1>3. TypeOK'
  BY <1>1, <1>2 DEF IInv, TypeOK, channelVars, listenVars, wrapperVars
<1> QED
  BY <1>1, <1>2, <1>3, QuietStep DEF channelVars, listenVars, wrapperVars

LEMMA EmitInv == ASSUME IInv, NEW i \in Calls, Emit(i) PROVE IInv'
<1>1. PICK c \in Direct : Send(i, "emit", c)
                          /\ UNCHANGED <<connected, channelVars, listenVars, wrapperVars>>
  BY DEF Emit
<1>2. /\ call' \in [Calls -> Call \union {None}]
      /\ CallsInv'
      /\ \A j \in Calls : ~stopped' /\ Waits(j, "join")' => call'[j].channel \in listening'
  <2>1. c \in Channels /\ "emit" \in {"join", "heartbeat", "leave", "emit"}
        /\ "return" \in {"return", "detach", "drop", "rejoin"}
    BY DEF Channels
  <2> QED
    BY <1>1, <2>1, PlacedInv DEF Send, listenVars, wrapperVars
<1>3. TypeOK'
  BY <1>1, <1>2 DEF IInv, TypeOK, channelVars, listenVars, wrapperVars
<1> QED
  BY <1>1, <1>2, <1>3, QuietStep DEF channelVars, listenVars, wrapperVars

LEMMA LeaveInv == ASSUME IInv, NEW i \in Calls, Leave(i) PROVE IInv'
<1>1. PICK c \in Direct, then \in {"return", "detach"} :
        /\ call' = [call EXCEPT ![i] = Request("leave", c, then)]
        /\ UNCHANGED <<connected, channelVars, listenVars, wrapperVars>>
  BY DEF Leave
<1>2. /\ call' \in [Calls -> Call \union {None}]
      /\ CallsInv'
      /\ \A j \in Calls : ~stopped' /\ Waits(j, "join")' => call'[j].channel \in listening'
  <2>1. c \in Channels /\ "leave" \in {"join", "heartbeat", "leave", "emit"}
        /\ then \in {"return", "detach", "drop", "rejoin"} /\ then \notin {"drop", "rejoin"}
    BY DEF Channels
  <2> QED
    BY <1>1, <2>1, PlacedInv DEF listenVars, wrapperVars
<1>3. TypeOK'
  BY <1>1, <1>2 DEF IInv, TypeOK, channelVars, listenVars, wrapperVars
<1> QED
  BY <1>1, <1>2, <1>3, QuietStep DEF channelVars, listenVars, wrapperVars

LEMMA EmitAnsweredInv == ASSUME IInv, NEW i \in Calls, EmitAnswered(i) PROVE IInv'
<1>1. /\ Forget(i) /\ UNCHANGED <<connected, channelVars, listenVars, wrapperVars>>
  BY DEF EmitAnswered
<1>2. /\ call' \in [Calls -> Call \union {None}]
      /\ CallsInv'
      /\ \A j \in Calls : Waits(j, "join")' => Waits(j, "join") /\ call'[j] = call[j]
  BY <1>1, ForgetInv
<1>3. TypeOK'
  BY <1>1, <1>2 DEF IInv, TypeOK, channelVars, listenVars, wrapperVars
<1> QED
  BY <1>1, <1>2, <1>3, QuietStep DEF IInv, LoopListens, channelVars, listenVars, wrapperVars

LEMMA EmitExpiresInv == ASSUME IInv, NEW i \in Calls, EmitExpires(i) PROVE IInv'
<1>1. /\ call[i] # None /\ Settle(i) /\ UNCHANGED <<connected, channelVars, listenVars, wrapperVars>>
  BY DEF EmitExpires, Waits
<1>2. /\ call' \in [Calls -> Call \union {None}]
      /\ CallsInv'
      /\ LoopListens => \A j \in Calls : ~stopped /\ Waits(j, "join")' => call'[j].channel \in listening
  BY <1>1, SettleInv
<1>3. TypeOK'
  BY <1>1, <1>2 DEF IInv, TypeOK, channelVars, listenVars, wrapperVars
<1> QED
  BY <1>1, <1>2, <1>3, QuietStep DEF IInv, channelVars, listenVars, wrapperVars

LEMMA HeartbeatExpiresInv == ASSUME IInv, NEW i \in Calls, HeartbeatExpires(i) PROVE IInv'
<1>1. /\ call[i] # None /\ Settle(i) /\ Missed(call[i].channel)
      /\ UNCHANGED <<connected, state, loop, listenVars, wrapperVars>>
  BY DEF HeartbeatExpires, Waits
<1>2. /\ call' \in [Calls -> Call \union {None}]
      /\ CallsInv'
      /\ LoopListens => \A j \in Calls : ~stopped /\ Waits(j, "join")' => call'[j].channel \in listening
  BY <1>1, SettleInv
<1>3. TypeOK'
  <2>1. call[i].channel \in Channels
    BY <1>1 DEF IInv, TypeOK, Call
  <2> QED
    BY <1>1, <1>2, <2>1, MissedType DEF IInv, TypeOK, listenVars, wrapperVars
<1> QED
  BY <1>1, <1>2, <1>3, QuietStep DEF IInv, listenVars, wrapperVars

LEMMA HeartbeatRefusedInv == ASSUME IInv, NEW i \in Calls, HeartbeatRefused(i) PROVE IInv'
<1>1. /\ call[i] # None /\ Forget(i)
      /\ Missed(call[i].channel) \/ UNCHANGED missed
      /\ UNCHANGED <<connected, state, loop, listenVars, wrapperVars>>
  BY DEF HeartbeatRefused, Answerable, Waits
<1>2. /\ call' \in [Calls -> Call \union {None}]
      /\ CallsInv'
      /\ \A j \in Calls : Waits(j, "join")' => Waits(j, "join") /\ call'[j] = call[j]
  BY <1>1, ForgetInv
<1>3. TypeOK'
  <2>1. call[i].channel \in Channels
    BY <1>1 DEF IInv, TypeOK, Call
  <2> QED
    BY <1>1, <1>2, <2>1, MissedType DEF IInv, TypeOK, listenVars, wrapperVars
<1> QED
  BY <1>1, <1>2, <1>3, QuietStep DEF IInv, LoopListens, listenVars, wrapperVars

LEMMA HeartbeatAcceptedInv == ASSUME IInv, NEW i \in Calls, HeartbeatAccepted(i) PROVE IInv'
<1> DEFINE c == call[i].channel
<1>1. /\ call[i] # None /\ Forget(i)
      /\ state' = state \/ state' = [state EXCEPT ![c] = IF @ = "null" THEN "epoch" ELSE @]
      /\ missed' = missed \/ missed' = [missed EXCEPT ![c] = 0]
      /\ UNCHANGED <<connected, loop, listenVars, wrapperVars>>
  BY DEF HeartbeatAccepted, Answerable, Waits
<1>2. /\ call' \in [Calls -> Call \union {None}]
      /\ CallsInv'
      /\ \A j \in Calls : Waits(j, "join")' => Waits(j, "join") /\ call'[j] = call[j]
  BY <1>1, ForgetInv
<1>3. c \in Channels
  BY <1>1 DEF IInv, TypeOK, Call
<1> HIDE DEF c
<1>4. TypeOK'
  <2>1. 0 \in 0..MaxMissed
    BY ClientsAssumption
  <2>2. missed' \in [Channels -> 0..MaxMissed]
    BY <1>1, <1>3, <2>1 DEF IInv, TypeOK
  <2>3. state' \in [Channels -> {"null", "epoch", "whole"}]
    BY <1>1, <1>3 DEF IInv, TypeOK
  <2> QED
    BY <1>1, <1>2, <2>2, <2>3 DEF IInv, TypeOK, listenVars, wrapperVars
<1>5. \A d \in Channels : state[d] = "whole" => state'[d] = "whole"
  BY <1>1, <1>3 DEF IInv, TypeOK
<1> QED
  BY <1>1, <1>2, <1>4, <1>5, QuietStep DEF IInv, LoopListens, listenVars, wrapperVars

-----------------------------------------------------------------------------
(* leave, stop and ChannelPresence *)

LEMMA StopInv == ASSUME IInv, Stop PROVE IInv'
<1>1. /\ DetachSocketHandlers /\ UNCHANGED <<connected, channelVars, call, wrapperVars>>
  BY DEF Stop
<1>2. TypeOK'
  BY <1>1 DEF IInv, TypeOK, DetachSocketHandlers, channelVars, wrapperVars
<1>3. CallsInv'
  BY <1>1 DEF IInv, CallsInv, SentOnline, OneCall, LeavesOwn, WrapperCalls, wrapperVars
<1> QED
  BY <1>1, <1>2, <1>3
  DEF IInv, CallsInv, DetachSocketHandlers, LoopHasState, LoopListens, QuietOffline, OneLoop,
      channelVars, wrapperVars

\* Where ChannelPresence has nothing to leave, none of its channels beats.
LEMMA NothingBeats ==
  ASSUME IInv, ~HasToLeave, ~overlapped
  PROVE  \A c \in Wrapped : ~loop[c]
BY DEF IInv, LoopHasState, OneLoop, HasToLeave, Channels

\* A new channel of ChannelPresence: what its join sends, and that it listens.
LEMMA JoinNewCalls ==
  ASSUME IInv, NEW i \in Calls, JoinNew(i), UNCHANGED <<connected, stopped>>,
         ~overlapped' => ~overlapped /\ WrapperCalls \subseteq {i}
  PROVE  /\ call' \in [Calls -> Call \union {None}]
         /\ CallsInv'
         /\ \A j \in Calls : ~stopped' /\ Waits(j, "join")' => call'[j].channel \in listening'
         /\ made' \subseteq Wrapped /\ current' \in Wrapped
         /\ listening' \subseteq Channels /\ listening \subseteq listening'
<1>1. PICK c \in Wrapped \ made :
        /\ made' = made \union {c} /\ current' = c
        /\ AttachSocketHandlers(c)
        /\ call' = [call EXCEPT ![i] = Request("join", c, "return")]
  BY DEF JoinNew
<1>2. c \in Channels /\ "join" \in {"join", "heartbeat", "leave", "emit"}
      /\ "return" \in {"return", "detach", "drop", "rejoin"}
  BY <1>1 DEF Channels
<1>3. listening' = listening \union {c}
  BY <1>1 DEF AttachSocketHandlers
<1> QED
  BY <1>1, <1>2, <1>3, PlacedInv DEF IInv, TypeOK

LEMMA PresenceJoinInv == ASSUME IInv, NEW i \in Calls, PresenceJoin(i) PROVE IInv'
<1>1. /\ ~HasToLeave /\ JoinNew(i)
      /\ overlapped' = (overlapped \/ WrapperCalls # {})
      /\ UNCHANGED <<connected, channelVars, stopped>>
  BY DEF PresenceJoin, Overlap
<1>2. /\ call' \in [Calls -> Call \union {None}]
      /\ CallsInv'
      /\ \A j \in Calls : ~stopped' /\ Waits(j, "join")' => call'[j].channel \in listening'
      /\ made' \subseteq Wrapped /\ current' \in Wrapped
      /\ listening' \subseteq Channels /\ listening \subseteq listening'
  BY <1>1, JoinNewCalls
<1>3. TypeOK'
  BY <1>1, <1>2 DEF IInv, TypeOK, channelVars
<1>4. OneLoop'
  BY <1>1, NothingBeats DEF OneLoop, channelVars
<1> QED
  BY <1>1, <1>2, <1>3, <1>4
  DEF IInv, CallsInv, LoopHasState, LoopListens, QuietOffline, channelVars

\* A leave that ChannelPresence makes, for itself or before a join.
LEMMA WrapperLeaveInv ==
  ASSUME IInv, NEW i \in Calls, NEW then \in {"drop", "rejoin"}, HasToLeave, Overlap,
         call' = [call EXCEPT ![i] = Request("leave", current, then)],
         UNCHANGED <<connected, channelVars, listenVars, made, current>>
  PROVE  IInv'
<1>1. /\ current \in Wrapped /\ current \in Channels
      /\ "leave" \in {"join", "heartbeat", "leave", "emit"}
      /\ then \in {"return", "detach", "drop", "rejoin"}
  BY DEF HasToLeave, Channels
<1>2. ~overlapped' => ~overlapped /\ WrapperCalls \subseteq {i}
  BY DEF Overlap
<1>3. /\ call' \in [Calls -> Call \union {None}]
      /\ CallsInv'
      /\ \A j \in Calls : ~stopped' /\ Waits(j, "join")' => call'[j].channel \in listening'
  BY <1>1, <1>2, PlacedInv DEF listenVars
<1>4. TypeOK'
  BY <1>3 DEF IInv, TypeOK, Overlap, channelVars, listenVars
<1> QED
  BY <1>2, <1>3, <1>4, QuietStep DEF channelVars, listenVars

LEMMA PresenceDropInv == ASSUME IInv, PresenceDrop PROVE IInv'
<1>1. /\ ~HasToLeave /\ current' = None
      /\ overlapped' = (overlapped \/ WrapperCalls # {})
      /\ UNCHANGED <<connected, channelVars, listenVars, made, call>>
  BY DEF PresenceDrop, CleanupPresenceChannel, Overlap
<1>2. TypeOK'
  BY <1>1 DEF IInv, TypeOK, channelVars, listenVars
<1>3. CallsInv'
  BY <1>1 DEF IInv, CallsInv, SentOnline, OneCall, LeavesOwn, WrapperCalls
<1>4. OneLoop'
  BY <1>1, NothingBeats DEF OneLoop, channelVars
<1> QED
  BY <1>1, <1>2, <1>3, <1>4
  DEF IInv, CallsInv, LoopHasState, LoopListens, QuietOffline, Waits, channelVars, listenVars

\* leave is over: its channel beats no longer.  A leave of ChannelPresence was about the
\* current channel, so no channel of its beats when another becomes current.
LEMMA LeaveReturnsInv ==
  ASSUME IInv, NEW i \in Calls, Waits(i, "leave"), LeaveReturns(i)
  PROVE  IInv'
<1> DEFINE c == call[i].channel
<1>1. call[i] \in Call /\ call[i] # None /\ c \in Channels
  BY DEF Waits, IInv, TypeOK, Call
<1>2. /\ loop' = [loop EXCEPT ![c] = FALSE]
      /\ state' = [state EXCEPT ![c] = "null"]
      /\ UNCHANGED <<connected, missed, overlapped>>
  BY DEF LeaveReturns, Cleaned
<1>3. \/ /\ call[i].then = "return" /\ Forget(i) /\ UNCHANGED <<listenVars, made, current>>
      \/ /\ call[i].then = "detach" /\ Forget(i) /\ DetachSocketHandlers /\ UNCHANGED <<made, current>>
      \/ /\ call[i].then = "drop" /\ Forget(i) /\ current' = None /\ UNCHANGED <<listenVars, made>>
      \/ /\ call[i].then = "rejoin" /\ JoinNew(i) /\ UNCHANGED stopped
  <2>1. call[i].then \in {"return", "detach", "drop", "rejoin"}
    BY <1>1 DEF Call
  <2> QED
    BY <2>1 DEF LeaveReturns, CleanupPresenceChannel
<1>4. /\ \A d \in Channels : loop'[d] => loop[d] /\ d # c
      /\ loop' \in [Channels -> BOOLEAN]
      /\ state' \in [Channels -> {"null", "epoch", "whole"}]
  BY <1>1, <1>2 DEF IInv, TypeOK
<1>5. LoopHasState'
  BY <1>1, <1>2, <1>4 DEF IInv, LoopHasState, TypeOK
<1>6. call[i].then \in {"drop", "rejoin"} /\ ~overlapped =>
        /\ c = current /\ WrapperCalls \subseteq {i}
        /\ \A d \in Wrapped : ~loop'[d]
  <2> SUFFICES ASSUME call[i].then \in {"drop", "rejoin"}, ~overlapped
               PROVE  c = current /\ WrapperCalls \subseteq {i} /\ \A d \in Wrapped : ~loop'[d]
    OBVIOUS
  <2>1. i \in WrapperCalls
    BY <1>1 DEF IInv, LeavesOwn, WrapperCalls, Waits
  <2> QED
    BY <2>1, <1>4 DEF IInv, OneCall, OneLoop, Channels
<1> HIDE DEF c
<1>7. CASE Forget(i) /\ made' = made /\ (current' = current \/ (call[i].then = "drop" /\ current' = None))
           /\ (UNCHANGED listenVars \/ DetachSocketHandlers)
  <2>1. /\ call' \in [Calls -> Call \union {None}]
        /\ \A j \in Calls : call'[j] = None \/ call'[j] = call[j]
        /\ call'[i] = None
    BY <1>7, Placed DEF Forget, IInv, TypeOK
  <2>2. TypeOK'
    BY <1>2, <1>4, <1>7, <2>1 DEF IInv, TypeOK, listenVars, DetachSocketHandlers
  <2>3. SentOnline' /\ LeavesOwn'
    BY <1>2, <2>1 DEF IInv, SentOnline, LeavesOwn
  <2>4. WrapperCalls' \subseteq WrapperCalls \ {i}
    BY <2>1 DEF WrapperCalls
  <2>5. OneCall'
    BY <1>2, <1>6, <1>7, <2>1, <2>4 DEF IInv, OneCall, WrapperCalls
  <2>6. OneLoop'
    BY <1>2, <1>4, <1>6, <1>7 DEF IInv, OneLoop, Channels
  <2>7. LoopListens' /\ QuietOffline'
    BY <1>2, <1>4, <1>7, <2>1 DEF IInv, LoopListens, QuietOffline, Waits, listenVars, DetachSocketHandlers
  <2> QED
    BY <1>5, <2>2, <2>3, <2>5, <2>6, <2>7 DEF IInv
<1>8. CASE call[i].then = "rejoin" /\ JoinNew(i) /\ UNCHANGED stopped
  <2>1. /\ call' \in [Calls -> Call \union {None}]
        /\ CallsInv'
        /\ \A j \in Calls : ~stopped' /\ Waits(j, "join")' => call'[j].channel \in listening'
        /\ made' \subseteq Wrapped /\ current' \in Wrapped
        /\ listening' \subseteq Channels /\ listening \subseteq listening'
    BY <1>2, <1>6, <1>8, JoinNewCalls
  <2>2. TypeOK'
    BY <1>2, <1>4, <1>8, <2>1 DEF IInv, TypeOK
  <2>3. OneLoop'
    BY <1>2, <1>6, <1>8 DEF OneLoop
  <2>4. LoopListens' /\ QuietOffline'
    BY <1>2, <1>4, <1>8, <2>1 DEF IInv, LoopListens, QuietOffline
  <2> QED
    BY <1>5, <2>1, <2>2, <2>3, <2>4 DEF IInv, CallsInv
<1> QED
  BY <1>3, <1>7, <1>8

-----------------------------------------------------------------------------
(* The socket *)

\* What listens stops beating; with no channel stopped, that is everything that beats.
LEMMA DisconnectedInv == ASSUME IInv, Disconnected PROVE IInv'
<1>1. /\ connected' = FALSE
      /\ call' = [i \in Calls |-> Lost(call[i])]
      /\ state' = [c \in Channels |-> IF c \in listening THEN "null" ELSE state[c]]
      /\ loop' = [c \in Channels |-> loop[c] /\ c \notin listening]
      /\ UNCHANGED <<missed, listenVars, wrapperVars>>
  BY DEF Disconnected
<1>2. \A i \in Calls :
        /\ call'[i] \in Call \union {None}
        /\ call'[i] # None => /\ call[i] # None
                              /\ call'[i].kind = call[i].kind /\ call'[i].channel = call[i].channel
                              /\ call'[i].then = call[i].then /\ call'[i].ack # "sent"
  BY <1>1, LostKeeps DEF IInv, TypeOK
<1>3. TypeOK'
  <2>1. call' \in [Calls -> Call \union {None}]
    BY <1>1, <1>2
  <2>2. state' \in [Channels -> {"null", "epoch", "whole"}]
    BY <1>1 DEF IInv, TypeOK
  <2>3. loop' \in [Channels -> BOOLEAN]
    BY <1>1 DEF IInv, TypeOK
  <2> QED
    BY <1>1, <2>1, <2>2, <2>3 DEF IInv, TypeOK, listenVars, wrapperVars
<1>4. SentOnline' /\ LeavesOwn'
  BY <1>2 DEF IInv, SentOnline, LeavesOwn
<1>5. OneCall'
  <2>1. WrapperCalls' \subseteq WrapperCalls
    BY <1>2 DEF WrapperCalls
  <2> QED
    BY <1>1, <1>2, <2>1 DEF IInv, OneCall, wrapperVars, WrapperCalls
<1>6. \A c \in Channels : loop'[c] => loop[c] /\ c \notin listening /\ state'[c] = state[c]
  BY <1>1 DEF IInv, TypeOK
<1>7. LoopHasState' /\ QuietOffline' /\ OneLoop'
  BY <1>1, <1>6
  DEF IInv, LoopHasState, QuietOffline, LoopListens, OneLoop, listenVars, wrapperVars, Channels
<1>8. LoopListens'
  BY <1>1, <1>2, <1>6 DEF IInv, LoopListens, Waits, listenVars
<1> QED
  BY <1>3, <1>4, <1>5, <1>7, <1>8 DEF IInv

LEMMA ReconnectedInv == ASSUME IInv, Reconnected PROVE IInv'
<1>1. /\ connected' = TRUE
      /\ call' = [i \in Calls |-> IF call[i] # None /\ call[i].ack = "buffered"
                                  THEN [call[i] EXCEPT !.ack = "sent"] ELSE call[i]]
      /\ UNCHANGED <<channelVars, listenVars, wrapperVars>>
  BY DEF Reconnected
<1>2. \A i \in Calls :
        /\ call'[i] \in Call \union {None}
        /\ call'[i] # None => /\ call[i] # None
                              /\ call'[i].kind = call[i].kind /\ call'[i].channel = call[i].channel
                              /\ call'[i].then = call[i].then
  BY <1>1 DEF IInv, TypeOK, Call
<1>3. TypeOK'
  <2>1. call' \in [Calls -> Call \union {None}]
    BY <1>1, <1>2
  <2> QED
    BY <1>1, <2>1 DEF IInv, TypeOK, channelVars, listenVars, wrapperVars
<1>4. SentOnline' /\ LeavesOwn'
  BY <1>1, <1>2 DEF IInv, SentOnline, LeavesOwn
<1>5. OneCall'
  <2>1. WrapperCalls' \subseteq WrapperCalls
    BY <1>2 DEF WrapperCalls
  <2> QED
    BY <1>1, <1>2, <2>1 DEF IInv, OneCall, wrapperVars, WrapperCalls
<1>6. LoopHasState' /\ QuietOffline' /\ OneLoop'
  BY <1>1 DEF IInv, LoopHasState, QuietOffline, OneLoop, channelVars, wrapperVars
<1>7. LoopListens'
  BY <1>1, <1>2 DEF IInv, LoopListens, Waits, channelVars, listenVars
<1> QED
  BY <1>3, <1>4, <1>5, <1>6, <1>7 DEF IInv

-----------------------------------------------------------------------------
(* The invariant *)

LEMMA NextInv == ASSUME IInv, Next PROVE IInv'
<1>1. ASSUME NEW i \in Calls, Join(i) PROVE IInv'
  BY <1>1, JoinInv
<1>2. ASSUME NEW i \in Calls, JoinRefused(i) PROVE IInv'
  BY <1>2, JoinRefusedInv
<1>3. ASSUME NEW i \in Calls, JoinAccepted(i) PROVE IInv'
  BY <1>3, JoinAcceptedInv
<1>4. ASSUME NEW i \in Calls, SendHeartbeat(i) PROVE IInv'
  BY <1>4, SendHeartbeatInv
<1>5. ASSUME NEW i \in Calls, HeartbeatAccepted(i) PROVE IInv'
  BY <1>5, HeartbeatAcceptedInv
<1>6. ASSUME NEW i \in Calls, HeartbeatRefused(i) PROVE IInv'
  BY <1>6, HeartbeatRefusedInv
<1>7. ASSUME NEW i \in Calls, Emit(i) PROVE IInv'
  BY <1>7, EmitInv
<1>8. ASSUME NEW i \in Calls, EmitAnswered(i) PROVE IInv'
  BY <1>8, EmitAnsweredInv
<1>9. ASSUME NEW i \in Calls, Leave(i) PROVE IInv'
  BY <1>9, LeaveInv
<1>10. ASSUME NEW i \in Calls, LeaveAnswered(i) PROVE IInv'
  BY <1>10, LeaveReturnsInv DEF LeaveAnswered, Answerable
<1>11. ASSUME NEW i \in Calls, PresenceJoin(i) PROVE IInv'
  BY <1>11, PresenceJoinInv
<1>12. ASSUME NEW i \in Calls, PresenceRejoin(i) PROVE IInv'
  <2>1. "rejoin" \in {"drop", "rejoin"}
    OBVIOUS
  <2> QED
    BY <1>12, <2>1, WrapperLeaveInv DEF PresenceRejoin
<1>13. ASSUME NEW i \in Calls, PresenceLeave(i) PROVE IInv'
  <2>1. "drop" \in {"drop", "rejoin"}
    OBVIOUS
  <2> QED
    BY <1>13, <2>1, WrapperLeaveInv DEF PresenceLeave
<1>14. ASSUME NEW i \in Calls, Expires(i) PROVE IInv'
  BY <1>14, HeartbeatExpiresInv, EmitExpiresInv, LeaveReturnsInv DEF Expires, LeaveExpires
<1>15. CASE Stop
  BY <1>15, StopInv
<1>16. CASE PresenceDrop
  BY <1>16, PresenceDropInv
<1>17. CASE Disconnected
  BY <1>17, DisconnectedInv
<1>18. CASE Reconnected
  BY <1>18, ReconnectedInv
<1> QED
  BY <1>1, <1>2, <1>3, <1>4, <1>5, <1>6, <1>7, <1>8, <1>9, <1>10, <1>11, <1>12, <1>13, <1>14,
     <1>15, <1>16, <1>17, <1>18 DEF Next

LEMMA Invariant == Spec => []IInv
<1>1. IInv /\ [Next]_vars => IInv'
  BY NextInv, StutterInv
<1> QED
  BY InitInv, <1>1, PTL DEF Spec

-----------------------------------------------------------------------------
(* Settled promises *)

\* Only the timers of a heartbeat and of an acknowledged emit settle a promise before
\* its acknowledgement.
SettledByTimer == \A i \in Calls : call[i] # None /\ ~call[i].open => call[i].kind \in {"heartbeat", "emit"}

\* A step that only one call takes part in: it is forgotten, made anew, or settled.
Slot(i) ==
  /\ \A j \in Calls : j # i => call'[j] = call[j]
  /\ \/ call'[i] = None
     \/ call'[i].open
     \/ call'[i].kind \in {"heartbeat", "emit"}

LEMMA ForgetSlot == ASSUME TypeOK, NEW i \in Calls, Forget(i) PROVE Slot(i)
BY DEF TypeOK, Forget, Slot

LEMMA RequestSlot ==
  ASSUME TypeOK, NEW i \in Calls, NEW kind, NEW c, NEW then,
         call' = [call EXCEPT ![i] = Request(kind, c, then)]
  PROVE  Slot(i)
<1>1. Request(kind, c, then).open
  BY DEF Request
<1>2. call'[i] = Request(kind, c, then) /\ \A j \in Calls : j # i => call'[j] = call[j]
  BY DEF TypeOK
<1> QED
  BY <1>1, <1>2 DEF Slot

LEMMA SettleSlot ==
  ASSUME TypeOK, NEW i \in Calls, Waits(i, "heartbeat") \/ Waits(i, "emit"), Settle(i)
  PROVE  Slot(i)
<1>1. call[i] \in Call /\ call[i].kind \in {"heartbeat", "emit"}
  BY DEF TypeOK, Waits
<1>2. /\ \A j \in Calls : j # i => call'[j] = call[j]
      /\ call'[i] = IF call[i].ack = "never" THEN None ELSE [call[i] EXCEPT !.open = FALSE]
  BY DEF TypeOK, Settle
<1>3. [call[i] EXCEPT !.open = FALSE].kind = call[i].kind
  BY <1>1 DEF Call
<1> QED
  BY <1>1, <1>2, <1>3 DEF Slot

LEMMA JoinNewSlot == ASSUME TypeOK, NEW i \in Calls, JoinNew(i) PROVE Slot(i)
BY RequestSlot DEF JoinNew

LEMMA LeaveReturnsSlot ==
  ASSUME TypeOK, NEW i \in Calls, Waits(i, "leave"), LeaveReturns(i)
  PROVE  Slot(i)
<1>1. call[i].then \in {"return", "detach", "drop"} => Forget(i)
  BY DEF LeaveReturns
<1>2. CASE call[i].then \in {"return", "detach", "drop"}
  BY <1>1, <1>2, ForgetSlot
<1>3. CASE call[i].then = "rejoin"
  BY <1>3, JoinNewSlot DEF LeaveReturns
<1>4. call[i].then \in {"return", "detach", "drop", "rejoin"}
  BY DEF TypeOK, Waits, Call
<1> QED
  BY <1>2, <1>3, <1>4

\* The actions of one call.
CallStep(i) ==
  \/ Join(i) \/ JoinRefused(i) \/ JoinAccepted(i)
  \/ SendHeartbeat(i) \/ HeartbeatAccepted(i) \/ HeartbeatRefused(i)
  \/ Emit(i) \/ EmitAnswered(i)
  \/ Leave(i) \/ LeaveAnswered(i)
  \/ PresenceJoin(i) \/ PresenceRejoin(i) \/ PresenceLeave(i)
  \/ Expires(i)

LEMMA CallStepSlot == ASSUME TypeOK, NEW i \in Calls, CallStep(i) PROVE Slot(i)
<1>1. CASE Join(i) \/ SendHeartbeat(i) \/ Emit(i)
  BY <1>1, RequestSlot DEF Join, SendHeartbeat, Emit, Send
<1>2. CASE Leave(i) \/ PresenceRejoin(i) \/ PresenceLeave(i)
  BY <1>2, RequestSlot DEF Leave, PresenceRejoin, PresenceLeave
<1>3. CASE PresenceJoin(i)
  BY <1>3, JoinNewSlot DEF PresenceJoin
<1>4. CASE JoinRefused(i) \/ JoinAccepted(i) \/ HeartbeatAccepted(i) \/ HeartbeatRefused(i) \/ EmitAnswered(i)
  BY <1>4, ForgetSlot DEF JoinRefused, JoinAccepted, HeartbeatAccepted, HeartbeatRefused, EmitAnswered
<1>5. CASE LeaveAnswered(i) \/ LeaveExpires(i)
  BY <1>5, LeaveReturnsSlot DEF LeaveAnswered, LeaveExpires, Answerable
<1>6. CASE HeartbeatExpires(i) \/ EmitExpires(i)
  BY <1>6, SettleSlot DEF HeartbeatExpires, EmitExpires
<1> QED
  BY <1>1, <1>2, <1>3, <1>4, <1>5, <1>6 DEF CallStep, Expires

LEMMA NextSplits ==
  ASSUME Next
  PROVE  \/ \E i \in Calls : CallStep(i)
         \/ UNCHANGED call
         \/ Disconnected
         \/ Reconnected
BY DEF Next, CallStep, Stop, PresenceDrop

LEMMA SettledInv == ASSUME TypeOK, SettledByTimer, [Next]_vars PROVE SettledByTimer'
<1>1. ASSUME NEW i \in Calls, CallStep(i) PROVE SettledByTimer'
  BY <1>1, CallStepSlot DEF Slot, SettledByTimer
<1>2. CASE UNCHANGED call
  BY <1>2 DEF SettledByTimer
<1>3. CASE Disconnected
  <2>1. \A j \in Calls : call[j] \in Call \union {None} /\ call'[j] = Lost(call[j])
    BY <1>3 DEF Disconnected, TypeOK
  <2>2. \A j \in Calls : call'[j] # None => call[j] # None /\ call'[j].kind = call[j].kind
                                            /\ call'[j].open = call[j].open
    BY <2>1 DEF Lost, Call
  <2> QED
    BY <2>2 DEF SettledByTimer
<1>4. CASE Reconnected
  <2>1. \A j \in Calls : /\ call[j] \in Call \union {None}
                         /\ call'[j] = IF call[j] # None /\ call[j].ack = "buffered"
                                       THEN [call[j] EXCEPT !.ack = "sent"] ELSE call[j]
    BY <1>4 DEF Reconnected, TypeOK
  <2>2. \A j \in Calls : call'[j] # None => call[j] # None /\ call'[j].kind = call[j].kind
                                            /\ call'[j].open = call[j].open
    BY <2>1 DEF Call
  <2> QED
    BY <2>2 DEF SettledByTimer
<1>5. CASE UNCHANGED vars
  BY <1>5 DEF vars, SettledByTimer
<1> QED
  BY <1>1, <1>2, <1>3, <1>4, <1>5, NextSplits

\* A call whose promise is settled: its next step is its last, and the channel's no more.
LEMMA LateStep ==
  ASSUME TypeOK, SettledByTimer, NEW i \in Calls, call[i] # None, ~call[i].open, CallStep(i)
  PROVE  UNCHANGED channelVars
<1>1. call[i].kind \in {"heartbeat", "emit"}
  BY DEF SettledByTimer
<1>2. HeartbeatAccepted(i) \/ HeartbeatRefused(i) \/ EmitAnswered(i)
  BY <1>1 DEF CallStep, Expires, Join, SendHeartbeat, Emit, Send, Leave, PresenceJoin, PresenceRejoin, MayJoin,
     PresenceLeave, JoinRefused, JoinAccepted, LeaveAnswered, LeaveExpires, HeartbeatExpires,
     EmitExpires, Answerable, Waits
<1> QED
  BY <1>2 DEF HeartbeatAccepted, HeartbeatRefused, EmitAnswered, channelVars

LEMMA LateAnswer ==
  ASSUME TypeOK, SettledByTimer, [Next]_vars,
         NEW i \in Calls, call[i] # None, ~call[i].open, call'[i] # call[i], connected'
  PROVE  UNCHANGED channelVars
<1>1. Next /\ call' # call
  BY DEF vars
<1>2. ASSUME NEW j \in Calls, CallStep(j) PROVE UNCHANGED channelVars
  <2>1. i = j
    BY <1>2, CallStepSlot DEF Slot
  <2> QED
    BY <1>2, <2>1, LateStep
<1>3. CASE Disconnected
  BY <1>3 DEF Disconnected
<1>4. CASE Reconnected
  BY <1>4 DEF Reconnected
<1> QED
  BY <1>1, <1>2, <1>3, <1>4, NextSplits

-----------------------------------------------------------------------------
(* Theorems *)

\* Channels and calls keep their shapes, and the missed heartbeats their limit, for any
\* number of them and any maxMissedHeartbeats.
THEOREM TypeCorrect == Spec => []TypeOK
BY Invariant, PTL DEF IInv

\* A heartbeat loop runs only for a channel that knows its whole session (startHeartbeatLoop
\* and cleanupState), in whatever order acknowledgements and timers come.
THEOREM LoopsHaveState == Spec => []LoopHasState
BY Invariant, PTL DEF IInv

\* No heartbeat loop runs while the socket is down, unless stop() took everyone's handlers
\* off the socket (the disconnect handler of each channel).
THEOREM LoopsAreOnline == Spec => []QuietOffline
BY Invariant, PTL DEF IInv

\* A ChannelPresence used one call at a time beats for its current channel alone.
THEOREM OneLoopBeats == Spec => []OneLoop
BY Invariant, PTL DEF IInv

\* Once the timer of a heartbeat has fired, its acknowledgement, accepted or refused, changes
\* neither the channel's state nor its missed heartbeats, in whatever order they come
\* (sendHeartbeat's settled promise).
THEOREM LateAnswersIgnored == Spec => LateAnswerIgnored
<1>1. Init => SettledByTimer
  BY DEF Init, SettledByTimer
<1>2. TypeOK /\ SettledByTimer /\ [Next]_vars => SettledByTimer'
  BY SettledInv
<1>3. TypeOK /\ SettledByTimer /\ [Next]_vars
        => [\A i \in Calls : call[i] # None /\ ~call[i].open /\ call'[i] # call[i] /\ connected'
              => UNCHANGED channelVars]_vars
  BY LateAnswer
<1> QED
  BY <1>1, <1>2, <1>3, TypeCorrect, PTL DEF Spec, LateAnswerIgnored

=============================================================================
