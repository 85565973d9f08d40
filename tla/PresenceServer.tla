--------------------------- MODULE PresenceServer ---------------------------
(***************************************************************************)
(* The life of a server process: initPresence and its runtime's dispose    *)
(* (presence-server.ts) around the event bridge, and the start, the        *)
(* signals and the end of the program that uses them (server.ts).          *)
(***************************************************************************)
EXTENDS EventBridge

CONSTANTS
  p, m,        \* the handlers of the socket bridge
  Clients,     \* clients that connect to the HTTP server
  Signals      \* bound: the SIGINTs and SIGTERMs that arrive

\* What createSocketBridge subscribes is all there is.
OneBridge == Presence = {p} /\ Metadata = {m} /\ Bridges = {<<p, m>>}

VARIABLES
  phase,      \* initPresence
  dispose,    \* runtime.dispose
  batcher,    \* the heartbeat batcher has been disposed of
  runtime,    \* presenceRuntime !== null
  shutdown,   \* the shutdown each signal has started
  pass,       \* a pass of the reaper is in progress; one stands for those that overlap
  batch,      \* a batch of the heartbeat batcher is in progress, likewise
  redis,      \* quit has been sent on the Redis connections
  http,       \* httpServer
  client,     \* the connection of each client
  exited      \* process.exit, or an unhandled rejection

work == <<pass, batch>>
outside == <<http, client, exited>>
processVars == <<phase, dispose, batcher, runtime, shutdown, work, redis, outside>>
serverVars == <<vars, processVars>>

\* Type invariant: the shapes of what initPresence, dispose and shutdown keep.
ServerTypeOK ==
  /\ TypeOK
  /\ phase \in {"warming", "bridging", "running", "failing"}
  /\ dispose \in {"no", "presence", "metadata", "service", "done"}
  /\ batcher \in BOOLEAN /\ runtime \in BOOLEAN /\ redis \in BOOLEAN /\ exited \in BOOLEAN
  /\ pass \in BOOLEAN /\ batch \in BOOLEAN
  /\ shutdown \in [Signals -> {"none", "disposing", "quitting", "awaiting", "refused", "done"}]
  /\ http \in {"listening", "closing"}
  /\ client \in [Clients -> {"away", "ignored", "served"}]

\* The server listens at once; initPresence is under way.
ServerInit ==
  /\ Init
  /\ phase = "warming" /\ dispose = "no"
  /\ batcher = FALSE /\ runtime = FALSE
  /\ shutdown = [s \in Signals |-> "none"]
  /\ pass = FALSE /\ batch = FALSE
  /\ redis = FALSE
  /\ http = "listening"
  /\ client = [c \in Clients |-> "away"]
  /\ exited = FALSE

-----------------------------------------------------------------------------
(* initPresence *)

\* The heartbeat script is loaded, or the load fails and the process exits.
WarmUp ==
  /\ phase = "warming"
  /\ \/ phase' = "bridging" /\ UNCHANGED exited
     \/ exited' = TRUE /\ UNCHANGED phase
  /\ UNCHANGED <<vars, dispose, batcher, runtime, shutdown, work, redis, http, client>>

\* service.createSocketBridge
Bridge ==
  /\ phase = "bridging"
  /\ Subscribe(p) \/ Subscribe(m)
  /\ UNCHANGED processVars

\* The bridge is up: handlers are registered, the reaper starts, and server.ts has its runtime.
Run ==
  /\ phase = "bridging" /\ caller[m] = "in"
  /\ StartReaper
  /\ phase' = "running" /\ runtime' = TRUE
  /\ UNCHANGED <<dispose, batcher, shutdown, work, redis, outside>>

\* The bridge has failed: safeStop without a bridge.
GiveUp ==
  /\ phase = "bridging"
  /\ caller[p] = "failed" \/ caller[m] = "failed"
  /\ Stop
  /\ phase' = "failing" /\ batcher' = TRUE
  /\ UNCHANGED <<dispose, runtime, shutdown, work, redis, outside>>

\* safeStop is done, the error is thrown on, and server.ts exits with it.
InitFails ==
  /\ phase = "failing" /\ ~stopping
  /\ exited' = TRUE
  /\ UNCHANGED <<vars, phase, dispose, batcher, runtime, shutdown, work, redis, http, client>>

-----------------------------------------------------------------------------
(* Signals: shutdown, dispose and safeStop *)

\* The first shutdown disposes of the runtime; one that finds the runtime already being
\* disposed of, or not there yet, goes on to the Redis connections.
Signal(s) ==
  /\ shutdown[s] = "none"
  /\ IF runtime /\ dispose = "no"
     THEN /\ dispose' = "presence"
          /\ shutdown' = [shutdown EXCEPT ![s] = "disposing"]
          /\ Unsubscribe(p)
          /\ UNCHANGED runtime
     ELSE /\ shutdown' = [shutdown EXCEPT ![s] = "quitting"]
          /\ runtime' = FALSE
          /\ UNCHANGED <<vars, dispose>>
  /\ UNCHANGED <<phase, batcher, work, redis, outside>>

\* Mutant of StopBridge: the batcher and the service are forgotten.
StopBridgeOnly ==
  /\ dispose = "presence" /\ caller[p] = "out"
  /\ Unsubscribe(m)
  /\ dispose' = "service"
  /\ UNCHANGED <<phase, batcher, runtime, shutdown, work, redis, outside>>

\* bridge.stop, its second half.  (Its first cannot throw here: nothing else tears the
\* subscriber down before service.stop.)
StopBridge ==
  /\ dispose = "presence" /\ caller[p] = "out"
  /\ Unsubscribe(m)
  /\ dispose' = "metadata"
  /\ UNCHANGED <<phase, batcher, runtime, shutdown, work, redis, outside>>

\* heartbeatBatcher.dispose and service.stop: both stop what is to come, neither waits for
\* a pass or a batch in progress.
StopService ==
  /\ dispose = "metadata" /\ caller[m] = "out"
  /\ Stop
  /\ batcher' = TRUE
  /\ dispose' = "service"
  /\ UNCHANGED <<phase, runtime, shutdown, work, redis, outside>>

\* dispose returns to the shutdown that called it.
Disposed ==
  /\ dispose = "service" /\ ~stopping
  /\ dispose' = "done"
  /\ runtime' = FALSE
  /\ shutdown' = [s \in Signals |-> IF shutdown[s] = "disposing" THEN "quitting" ELSE shutdown[s]]
  /\ UNCHANGED <<vars, phase, batcher, work, redis, outside>>

\* quit is sent on the three connections.  Those of a second shutdown are being closed
\* already, and refuse it.
Quit(s) ==
  /\ shutdown[s] = "quitting"
  /\ shutdown' = [shutdown EXCEPT ![s] = IF redis THEN "refused" ELSE "awaiting"]
  /\ redis' = TRUE
  /\ UNCHANGED <<vars, phase, dispose, batcher, runtime, work, outside>>

\* Mutant of QuitAnswered: the HTTP server is left open.
QuitAnsweredOnly(s) ==
  /\ shutdown[s] = "awaiting"
  /\ shutdown' = [shutdown EXCEPT ![s] = "done"]
  /\ UNCHANGED <<vars, phase, dispose, batcher, runtime, work, redis, outside>>

\* All three are closed, and the HTTP server is told to close.
QuitAnswered(s) ==
  /\ shutdown[s] = "awaiting"
  /\ shutdown' = [shutdown EXCEPT ![s] = "done"]
  /\ http' = "closing"
  /\ UNCHANGED <<vars, phase, dispose, batcher, runtime, work, redis, client, exited>>

\* A quit is rejected, which nobody handles: the process ends.
QuitFails(s) ==
  /\ shutdown[s] \in {"awaiting", "refused"}
  /\ exited' = TRUE
  /\ UNCHANGED <<vars, phase, dispose, batcher, runtime, shutdown, work, redis, http, client>>

\* httpServer.close calls back when the last connection has gone.
Exit ==
  /\ http = "closing"
  /\ \A c \in Clients : client[c] = "away"
  /\ exited' = TRUE
  /\ UNCHANGED <<vars, phase, dispose, batcher, runtime, shutdown, work, redis, http, client>>

-----------------------------------------------------------------------------
(* Work in progress *)

\* The reaper's timer fires.
PassBegins ==
  /\ reaper /\ ~pass
  /\ pass' = TRUE
  /\ UNCHANGED <<vars, phase, dispose, batcher, runtime, shutdown, batch, redis, outside>>

\* The window of the batcher closes over a heartbeat of a client.
BatchBegins ==
  /\ phase = "running" /\ ~batcher /\ ~batch
  /\ batch' = TRUE
  /\ UNCHANGED <<vars, phase, dispose, batcher, runtime, shutdown, pass, redis, outside>>

\* Mutant of WorkEnds: what is sent on a connection that has been quit is never rejected.
WorkEndsOnline ==
  /\ ~redis
  /\ \/ pass /\ pass' = FALSE /\ UNCHANGED batch
     \/ batch /\ batch' = FALSE /\ UNCHANGED pass
  /\ UNCHANGED <<vars, phase, dispose, batcher, runtime, shutdown, redis, outside>>

\* Redis answers, or rejects what it is asked on a connection that has been quit: the
\* pass logs that, the batch passes it on to its requests.
WorkEnds ==
  /\ \/ pass /\ pass' = FALSE /\ UNCHANGED batch
     \/ batch /\ batch' = FALSE /\ UNCHANGED pass
  /\ UNCHANGED <<vars, phase, dispose, batcher, runtime, shutdown, redis, outside>>

-----------------------------------------------------------------------------
(* Clients *)

\* A socket that connects before the handlers are registered gets none.
Connect(c) ==
  /\ client[c] = "away" /\ http = "listening"
  /\ client' = [client EXCEPT ![c] = IF phase = "running" THEN "served" ELSE "ignored"]
  /\ UNCHANGED <<vars, phase, dispose, batcher, runtime, shutdown, work, redis, http, exited>>

Depart(c) ==
  /\ client[c] # "away"
  /\ client' = [client EXCEPT ![c] = "away"]
  /\ UNCHANGED <<vars, phase, dispose, batcher, runtime, shutdown, work, redis, http, exited>>

RedisAnswers == Redis /\ UNCHANGED processVars
Progress == WarmUp \/ Bridge \/ Run \/ GiveUp \/ InitFails
Shutdown == \/ StopBridge \/ StopService \/ Disposed \/ Exit
            \/ \E s \in Signals : Quit(s) \/ QuitAnswered(s) \/ QuitFails(s)

ServerNext ==
  /\ ~exited
  /\ \/ RedisAnswers \/ Progress \/ Shutdown
     \/ PassBegins \/ BatchBegins \/ WorkEnds
     \/ \E s \in Signals : Signal(s)
     \/ \E c \in Clients : Connect(c) \/ Depart(c)

ServerSpec == ServerInit /\ [][ServerNext]_serverVars

\* Redis answers or fails, and what awaited the answer goes on.
FairServerSpec ==
  /\ ServerSpec
  /\ WF_serverVars(~exited /\ (RedisAnswers \/ Progress))
  /\ WF_serverVars(~exited /\ Shutdown)
  /\ WF_serverVars(~exited /\ WorkEnds)

-----------------------------------------------------------------------------
(* Properties *)

Signalled == \E s \in Signals : shutdown[s] # "none"

\* When dispose has returned, or initPresence has thrown, nothing of the service goes on:
\* no timer, no handler, no subscriber listening or in the making, no batch waiting.
NothingGoesOn ==
  dispose = "done" \/ (phase = "failing" /\ exited) =>
    /\ ~reaper /\ batcher
    /\ registered = {} /\ subscriber = None /\ promise = None
    /\ \A s \in Links : link[s] \in {"unused", "closed", "lost"}

\* Once dispose has returned, the passes and batches it did not wait for come to an end,
\* though Redis is being quit under them, and no other begins.
WorkDiesOut == dispose = "done" ~> [](exited \/ (~pass /\ ~batch))

\* A signal leads to the end of the process, or to an HTTP server that takes no more
\* clients and waits for those it has.
ShutdownEnds == Signalled ~> exited \/ http = "closing"
=============================================================================
