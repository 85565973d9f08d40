# A verification project for realtime-mesage

TLA+ models of realtime-mesage: presence and channel metadata on Redis, the batcher, the
event bridge, the Socket.IO handlers and the life of a server process (`backend/src`), and
the client SDK (`realtime-message-sdk/src`). TLC checks them on small instances and TLAPS
proves the theorems listed below for every instance.

## The system

Socket.IO servers share one Redis and nothing else. Each server process has one Redis
connection for all commands and a second one for Pub/Sub. Clients use the SDK over one
socket.

| Part | State | Operations |
| --- | --- | --- |
| Presence service (`service.ts` 90-280) | per connection the hash `prs:conn:<id>` with a TTL; per room `conns`, `members`, `last_seen`, `conn_meta`; `prs:user:<id>:conns`; `prs:active_rooms` | `join`, `heartbeat`, `leave`, `fetchRoomSnapshot` |
| Reaper (`service.ts` 700-724, 835-908) | a timer per process | `reapOnce`, `reapRoom` |
| Lua heartbeat (`lua-scripts.ts`, `lua-heartbeat-executor.ts`) | the loaded script | `heartbeat`, `getEpoch` |
| Heartbeat batcher (`heartbeat-batcher.ts`) | a buffer, a timer, batches in progress | `heartbeat`, `flush`, `dispose` |
| Channel metadata (`service.ts` 341-698) | per channel the hash `prs:{chan:..}:meta` with items, count, major revision; locks `prs:lock:<name>`, only read here | `set`, `update`, `remove`, `get` |
| Transactional metadata (`metadata-transactional.ts`) | the watches of the Redis connection | the same, with WATCH/MULTI/EXEC and retries |
| Subscriber and bridge (`service.ts` 282-339, 726-833) | a Redis subscriber and the promise of one, two handler sets | `subscribe`, `subscribeMetadata`, their unsubscribe functions, `createSocketBridge`, `stop` |
| Socket handlers (`handlers.ts`) | `socket.data`, Socket.IO rooms | one per client event, `disconnect` |
| Server process (`presence-server.ts`, `server.ts`) | the runtime, its bridge, batcher and reaper; the HTTP server | `initPresence`, `dispose`, start, SIGINT and SIGTERM |
| SDK presence (`presence-channel.ts`, `channel-presence.ts`) | a channel's session, heartbeat interval, missed count, handlers on the socket | `join`, `sendHeartbeat`, `updateState`, `emitWithAck`, `leave`, `stop` |
| SDK client (`realtime-client.ts`, `channel.ts`, `channel-storage.ts`, `channel-metadata-client.ts`) | the socket, the metadata client, the channels | `connect`, `disconnect`, `shutdown`, `channel`, `createPresenceChannel`, `joinRoom`, metadata calls |

A client's request reaches a handler, which calls the service (or, for a heartbeat, the batcher
or the script); the service reads and writes Redis in several commands with `await`s between
them, then publishes an event that every process's subscriber forwards to the sockets of the
room. The reaper of each process runs beside the requests. On the client, channels share the
socket, and with it socket.io-client's `off(event)`, buffering and reconnection.

What is hard: every operation is a sequence of commands, and anything may run between
two of them (other requests of the same socket, other sockets, other processes, the
reaper, the expiry of the hash); a process may die between two commands; events are
published after the transaction they report; heartbeats are fenced by an epoch that was
read earlier; WATCH state belongs to the connection that all calls of a process share; a
subscriber is made and torn down by calls that do not wait for each other; promises depend on
batches, timers and acknowledgements that may be late, failed or missing.

What makes each part correct:

- Presence: a session's epoch never regresses and its accepted patches stay; nothing but
  a join opens a session; a live session is indexed; what is indexed can be reaped; the
  indexes leave nothing behind; members are the users with a connection; events agree
  with what is stored; a dead connection is announced as gone.
- Batcher: no promise is forgotten but a superseded one; a late batch revives nothing; a
  client that awaits its answers gets them, and its session is as the registry says.
- Metadata: a change that is accepted is applied to the contents it was checked against;
  calls return; subscribers that fold the events have the stored record.
- Bridge: never two subscribers, none when nobody listens, one while somebody does.
- Handlers: what a socket's data says of its room, user and epoch is what its session says; it
  hears its room; a socket that has gone leaves; every call is answered,
  but for a heartbeat that another replaced in the batcher's buffer.
- Server: what `initPresence` starts, `dispose` or a failed start undoes; what it does not wait for
  ends by itself; a signal ends the process.
- SDK: heartbeats go with a session and a connection, one loop per channel; calls settle; no
  socket, channel, storage or handler is lost track of.

`PROJECT.json` lists the hazards at their lines, with the properties that cover them and what
the properties leave out.

## Modules

| Module | Contents |
| --- | --- |
| `PresenceStore` | the Redis keys and the transactions and scripts run on them, one operator each; the clock and the TTL |
| `Presence` | requests and reaper passes over the store: one action per Redis command, with what a request read kept in `job` |
| `PresenceProps` | the properties of presence |
| `SessionRegistry` | what presence promises of a session, every request one step; `Presence` and `HeartbeatBatcher` implement it by refinement mappings |
| `HeartbeatBatcher` | the buffer, its timer and the batches, over `PresenceStore` |
| `MetadataOps` | the checks and record builders that both metadata paths have |
| `MetadataRegister` | what metadata promises: a change checks and replaces the contents in one step |
| `ChannelMetadata` | the plain path: lock check, read, HSET, publish |
| `TransactionalMetadata` | the WATCH path, with the watches Redis keeps per connection |
| `SocketHandlers` | the calls of sockets and what the handlers keep, with the batcher's buffer, over sessions as the registry has them |
| `EventBridge` | handlers, the subscriber they share, the socket bridge, the reaper's timer, `stop` |
| `PresenceServer` | `EventBridge` with the process around it: start, failures, signals, clients, passes and batches in progress |
| `PresenceClients` | the presence channels of one client on their socket |
| `RealtimeClient` | the client: sockets, channels, listeners, shutdowns |
| `MC...` | the instances for TLC: `MCPresence`, `MCBatcher`, `MCMetadata`, `MCChannelMetadata`, `MCHandlers`, `MCEventBridge`, `MCServer`, `MCClients`, `MCRealtimeClient` |
| `...Proofs` | theorems: `PresenceProofs` (in four parts), `BatcherProofs`, `MetadataProofs` (transactional), `ChannelMetadataProofs`, `HandlersProofs`, `BridgeProofs` (the bridge, then the server), `PresenceClientsProofs`, `RealtimeClientProofs` |

### How the models correspond to the code

Presence. `pc[p]` is the command the request in slot `p` sends next and `job[p]` its
local variables; `pc` "joinTx" to "joinAck" is `join` and `fetchRoomSnapshot`, "beatTx" to
"beatPublish" is `PresenceService.heartbeat`, "beatScript" is `LuaHeartbeatExecutor`,
"leaveTx" to "leavePublish" is `leave`. `reaper[<<n, r>>]` is node `n`'s pass over room
`r`. A transaction is one step because Redis runs a MULTI block or a script alone. The
reads of a request happen with its start, which loses nothing: a request that has sent
nothing has no effect. `roster` is an observer: what a subscriber that applies events the way the
SDK's `handlePresenceEvent` does would show. `crossed` is history: the connections whose
last join and a reaper pass over them overlapped, for which the code promises nothing;
properties that cannot hold for them leave them out.

Batcher. `buffer[c]` is the request connection `c` waits with, `batches` the runs of
`processBatch` at their two pipelines ("read", "write") and their replies. `request` holds the
promises that are not settled; a superseded one stays there. Joins, leaves and the TTL run
beside it as the store's transactions. `Polite` connections await each answer before
they send more; the others do not.

Metadata. `call[p]` holds the request, the contents it read, and (WATCH path) its
attempts; `watching` and `dirty` are the connections that WATCH the key and those whose
next EXEC fails. `SocketOf` gives the connection a call is made on: in the program it is the
one connection of its process. Locks are set by nobody in this repository: `LockMoves`
lets them be taken, released and expire at any time. In `ChannelMetadata`, `crossed` is history: among
the calls between their check and their write (`Exposed`) there is one the lock cannot keep from
another, because its owner lost the lock or has two calls, or because one goes without the lock.
`lost` is history too: the events told since the last set do not add up to the record, because a
write was crossed, an event was not published, or one was published before that of an earlier write.

Handlers. `call[k]` is a run of a handler at the `await` it is at: a service call is "join",
"beat" or "leave" until it takes effect on `session`, then "joined", "left" and so on until the
handler goes on. With a batcher (`Batched`) a heartbeat is first "buffered", and "superseded" for
good when another of its socket comes before the flush (heartbeat-batcher.ts:92): the handler never
returns. A refused heartbeat is answered too, with the stored epoch (handlers.ts:206-211). `strained` is history: sockets with a call that failed, or made before
the last one's answer. The client sends the epoch it was last told (`known`), or none.

Bridge and server. `caller[h]` is the code that owns handler `h`: it may be creating or waiting
for the subscriber ("creating", "waiting"), have its unsubscribe function ("in"), await the teardown
("leaving"). A bridge is a presence and a metadata handler subscribed one after the other; if the
first subscription fails, the second is not made; if the first unsubscribe throws, the second is not
called (service.ts:333-338). `link` are the connections `redis.duplicate()` makes;
"lost" is one whose psubscribe failed. `PresenceServer` adds `phase` (initPresence),
`dispose`, `shutdown[s]` (the run of `shutdown` each signal starts) and `exited`. A failure of the
first `await` of the start, an unhandled rejection (of a `quit`, say), and `process.exit` all end it.
`pass` and `batch` are a run of `reapOnce` and of `processBatch` in progress: `dispose` stops what
starts them and waits for neither (presence-server.ts:208-235), so they do meet connections that
have been quit, and a signal during the start quits Redis before the reaper is started.

SDK. In `PresenceClients`, `state[c]` is a channel's `ChannelState` (null, whole, or the epoch
alone, which `{...null, epoch}` would make), and `call[i]` a promise with its acknowledgement ("buffered" while
the socket is down, "sent", "never") and whether it is open; `then` is what the caller of a
leave does next. `Logger` says whether the `ChannelPresence` was given a logger: `RealtimeClient.channel()`
passes its options where `Channel` takes one (realtime-client.ts:346-350, channel.ts:55-59), and without
one a join over a current channel throws at its warning (channel-presence.ts:44). In `RealtimeClient`, `connecting[k]` follows one `connect()`, `cache` and
`legacy` are the client's two maps, `shutting[x]` follows one `shutdown()`, several of which may be under
way, and `onStorage`, `onMetadata`, `onDisconnect` are the listeners on sockets. That the storage's
listener is called is all that is modelled of it: on a channel the client made it throws
(channel-storage.ts:240), for the reason above. Both stand on the same facts of socket.io-client, which is external: it buffers emits while
reconnecting, drops the acknowledgements of a lost connection, and `off(event)` removes everyone.

History variables (`crossed`, `lost`, `strained`, `overlapped`, `stopped`, `kept`, `muted`) never
guard a step: they name the overlaps under which a property does not hold of the code, and the
hazards in `PROJECT.json` say what happens then.

### Abstractions

- A state is the set of marks a client has set, so a patch adds marks. A patch that
  overwrites a key with another value is not told apart from one that adds it.
- Time is a counter; a tick is long against a command or short, as commands are not tied to it.
  Redis deletes a hash when its deadline is reached. The clock is the same on every node.
  Timers of the batcher and of the SDK may fire at any time.
- The snapshot's pipeline of HGETALLs, and the batcher's, are read at one instant.
- The requests of one process share a FIFO connection; letting every interleaving happen
  adds orders only where two commands of one process would have been sent in a fixed
  order.
- `SocketHandlers` takes a service call as one step. Its partial effects are in `Presence`; a call
  that fails may or may not have taken effect.
- JSON, key names, timestamps, `updated` and `authorUid`, logging and error texts are left
  out. A metadata request names each key once; an item
  may lack a value, which a set takes for the empty one and an update for the one there is.
- In `PresenceServer` one pass and one batch stand for those that overlap.
- `getChannelMetadata` and `getEpoch` only read and have no action of their own.

## Runs

| Run | Module | Shows |
| --- | --- | --- |
| `presence_races` | `MCPresence` | `TypeOK`, `IndexedIsReapable`, `LiveSessionIsIndexed`, `OnlyJoinOpensSession` under any two overlapping requests on a connection, both heartbeat paths, expiry, the reaper and crashes |
| `presence_serial` | `MCPresence` | `ImplementsRegistry`, `RosterAgrees`, `ZombiesAnnounced` with the requests of a connection one at a time, against expiry and two nodes' reapers |
| `presence_script` | `MCPresence` | `NoOrphanIndex`, `MembersJustified` with two connections of one user and the Lua heartbeat |
| `batcher` | `MCBatcher` | `OnlySuperseded`, `NoRevival`, `ImplementsRegistry`, `HeartbeatsAnswered` with overlapping batches of two connections against joins, leaves, the TTL, failures and dispose |
| `metadata_watch` | `MCMetadata` | `ImplementsRegister`, `CallsReturn` on private connections |
| `metadata_lock` | `MCChannelMetadata` | `ExclusiveWrites`, `ReplicaAgrees` on the plain path, for callers with the lock and without while it moves at any time |
| `handlers` | `MCHandlers` | `HearsItsRoom`, `KnowsItsSession`, `GoneHasLeft`, `NeverFenced`, `OnlySupersededUnanswered` for a socket with two calls at a time, the batcher, failures and expiry |
| `bridge` | `MCEventBridge` | `OneSubscriber`, `PresenceHears`, `NothingLeft`, `CallsReturn` for handlers that come and go across each other and a stop |
| `server` | `MCServer` | `NothingGoesOn`, `ShutdownEnds`, `WorkDiesOut` from the start of a process to its end, with a pass and a batch in progress |
| `channels` | `MCClients` | `LoopHasState`, `QuietOffline`, `OneLoop`, `LateAnswerIgnored`, `TimedCallsSettle` on a socket that drops and reconnects |
| `client` | `MCRealtimeClient` | `NoStraySocket`, `ChannelsUsable`, `ListenersOwned`, `HearsDisconnect`, `ConnectSettles`, `ShutdownReturns` over two sockets and two `shutdown()` calls |
| `metadata_shared` | `MCMetadata` | a counterexample to `ImplementsRegister` (below) |

`TypeOK` is checked in `presence_races`; the type invariants of the other modules are proved.

### Bounds, and why they are enough

- `presence_races`: one connection, two request slots, `TTL` and `Lookback` 1, two clock values,
  epochs to 3. Every race the code is exposed to on a connection is between two requests, or a
  request and a pass; each pair of commands meets in each order, with the hash present,
  deleted or expired between them.
- `presence_serial`: one connection, one mark, three clock values, two nodes: long enough for
  join, expiry, reaping and rejoin, and for two passes over the same session. Requests carry
  the stored epoch or epoch 3, which raises it.
- `presence_script`: two connections of one user, two slots: the count of a leave meets the
  join, the leave and the reaping of the other connection. Requests carry the stored epoch, none, or epoch 2,
  with which the script raises a stored 1. The run merges states that
  differ in `roster` and `userConns` only: nothing reads them, and the properties do not
  name them. Slots and connections are interchangeable.
- `MaxEpoch` bounds joins: no join starts that would take an epoch past it. It is at
  least `MaxTime`, so that a join is never refused for the clock alone.
- `batcher`: two connections, one of them polite, two requests, batches of at most two, two clock
  values, one mark, epochs to 2: a batch can be flushed by size or by time, two can overlap, one
  can hold both connections, a heartbeat can be behind, level, ahead or without an epoch, and a
  rejoin, a leave or the TTL can come between the two pipelines.
- `metadata_watch`, `metadata_shared`: two calls, two retries, six requests, three changes: both
  calls can lose a race, once or for good. `s3` is a connection of presence transactions that no call uses.
- `metadata_lock`: two calls, two actors, six requests, one without the lock, three changes: a set, a change
  on it, and a change to make after the two crossed. The lock moves between any two commands. The calls
  are interchangeable.
- `handlers`: one socket (sockets share nothing but the service), two rooms, two users, two calls,
  two clock values, epochs to 3: a join can meet a join to the other room, a leave or the disconnect,
  and a rejoin can change the user. The batcher is on: a second heartbeat can come before or after the
  flush of the first. `Batched = FALSE` leaves out the buffer only; the theorems are for both.
- `bridge`: two handlers of each kind, a bridge that owns one of each, four connections: a second
  subscribe can come at every stage of the first, and a subscriber can fail and be
  made again. When the four are used up, no more are made.
- `server`: one bridge, two connections, two clients, two signals: one client comes before the
  runtime is there and one after, and the second signal comes at every stage of the first. A pass and a batch can begin, and end, at every
  stage of a shutdown.
- `channels`: one direct channel and two of a `ChannelPresence`, two outstanding calls, one missed
  heartbeat tolerated: a heartbeat meets a leave, a rejoin's leave or a late answer.
  `Logger` is TRUE, as for a `ChannelPresence` the application makes; FALSE, as for those of
  `RealtimeClient.channel()`, only forbids joins. The theorems are for both.
- `client`: two sockets, two `connect()` calls, two `shutdown()` calls, a channel and a presence channel:
  one reconnection by the client itself and one by socket.io, and a connect across another.
- Deadlock is checked in the presence, metadata and bridge runs. It is off where the system may stop
  for good: `batcher` (disposed, and the clock at its bound), `handlers` (every socket gone), `server` (the
  process has exited), `channels` (nothing has a timer and the server need not answer) and `client` (the
  sockets of the bound are used up).

### Fairness

- `Presence!FairSpec`: a request in progress goes on (Redis answers, promises resolve) and so does a
  reaper pass, which `setInterval` starts. Nothing is assumed of clients or of the clock.
  Crashes are off in `presence_serial`: a leave whose process died before publishing it is
  announced by nobody, so `ZombiesAnnounced` is about connections that still are indexed.
- `TransactionalMetadata!FairSpec`: a call in progress goes on. Starting calls is not fair.
- `HeartbeatBatcher!FairSpec`: `setTimeout` fires, and the pipelines of a batch are answered.
- `SocketHandlers!FairSpec`: each handler goes on, by its service call's answer or failure, and the
  batcher's window closes. Nothing is assumed of a superseded heartbeat.
- `EventBridge!FairSpec`: Redis answers psubscribe or fails it, and the awaits of a teardown end.
- `PresenceServer!FairServerSpec`: the same for the start and for each step of a shutdown while
  the process lives, and Redis answers or rejects what passes and batches ask of it, also on a
  connection that has been quit. Nothing is assumed of clients or signals.
- `PresenceClients!FairSpec`: timers fire. Neither the server nor the network owes anything.
- `RealtimeClient!FairSpec`: the auth provider answers, an opening socket connects or fails
  (socket.io-client has a timeout), and each step of `shutdown()` ends.

### What the violation run shows

`metadata_shared`: on the process's shared connection, WATCH does not protect one call from
another: a change is lost, though the class comment (metadata-transactional.ts:47-48) promises
true atomicity. On private connections it does (`metadata_watch`, theorem `Atomic`).

### Known limits of the code

Met while modelling; each is a hazard in `PROJECT.json`, and the properties say under which
condition they hold without it:

- the epoch fence is checked on the hash that was read: a heartbeat overtaken by a rejoin writes its
  state over the new session (`ImplementsRegistry` is about requests one at a time);
- `leave` counts, then removes the room from `active_rooms`: a join between leaves a room that no
  reaper visits (`ZombiesAnnounced` excepts it);
- the Lua heartbeat, the batcher and transactional metadata publish nothing;
- a removal that changes nothing returns without UNWATCH, and nobody looks at the reply of
  presence transactions that Redis then discards;
- the plain metadata path checks its lock once, before the read, and an owner may have two calls;
- a heartbeat replaced in the batcher's buffer is never answered;
- `dispose` waits for no pass and no batch in progress, and a signal during the start quits Redis
  without a `dispose`;
- a channel of `RealtimeClient` has its options for a logger, and each logging call of it throws;
- subscribe during a teardown leaves a handler deaf, and the last presence handler takes the subscriber
  from the metadata handlers that remain;
- a second join of a socket before the first is answered, or to another room after a lost leave,
  leaves the first session's entries;
- `stop()` of one SDK channel takes every channel's handlers off the socket; overlapping `join` and
  `leave` of a `ChannelPresence` can leave a second loop; overlapping `connect()` calls lose a socket;
  a join and the metadata calls have no timer.

## Theorems

For any number of connections, rooms, requests, nodes, handlers, sockets, channels and calls, from
the named assumptions on the constants (which TLC evaluates in every run) and the hypotheses named
below. Every safety invariant and every action property that a passing run checks is a theorem here.

### Presence (`PresenceProofs`)

- `TypeCorrect`: `[]TypeOK`. One step per action, with lemmas for the transactions and for starting,
  moving and ending a request.
- `Reapable`: `[]IndexedIsReapable`. Given types it is inductive: only a join adds to `conns`, and
  it adds the score and `conn_meta` with it; only `Unindex` takes either away, and it takes all
  three; heartbeats write times and users that are never absent.
- `OnlyJoinOpens`: `OnlyJoinOpensSession`. A heartbeat's MULTI keeps the room and the user of the
  hash as they are, absent ones included.
- `LiveIsIndexed`: `[]LiveSessionIsIndexed`. Not inductive as it stands: the reaper strips a
  connection some steps after it found the hash gone. The invariant (`SessionInv`) adds that a live
  hash has a deadline (so EXISTS sees it) and that a connection a pass works on is dead or
  `crossed`.
- `OnlyLogins`: `[]Known`, what the hash, the indexes, requests and passes hold of a connection
  comes from one of its logins; the next two rest on it. Hypothesis `OneRoom`: a connection joins
  one room. A connection that joins a second one leaves the entries of the first (see the limits
  above).
- `NoOrphans`: `[]NoOrphanIndex`. Hypotheses `ScriptOnly` and `OneRoom`. The script checks the hash
  and writes in one step, and a live connection is in `conns` (`SessionInv`) of the one room that
  its entries are of (`Known`): it adds a score to nothing that is not indexed. The service's
  heartbeat writes the score and `conn_meta` of a connection that may have left, or may have been
  reaped, since its hash was read: with it TLC refutes `NoOrphanIndex` even for one request at a
  time.
- `Members`: `[]MembersJustified`. Hypotheses `ScriptOnly`, `OneLogin` (one room and one user) and
  no crashes: a leave that dies between its count and its removal drops nobody. Given `Known` and
  `SessionInv` it needs `PurgeCrossed`: a pass that found no `conn_meta` entry, and so will drop no
  member, removes none unless a join has crossed it. The service's late `conn_meta` is such an
  entry: with it TLC refutes this property too.
- `Registered`: `ImplementsRegistry`. Hypothesis `Serial`: one request at a time on a connection.
  The invariant (`OneRequest`, `Ahead`) says that what a request is about to write is ahead of the
  hash it would replace; a step of the service is then a step of `SessionRegistry` or a stutter.
  Reapers and crashes are any.
- `Truthful`: `[]RosterAgrees`. Hypotheses `Serial`, `OneRoom`, no crashes (an event dies with its
  process) and `ServiceOnly` (the script publishes nothing). The invariant (`RosterInv`) says, for
  every stage of a join, an update, a leave and a pass, what the index and the hash already have of
  it and that the roster differs from them only where an event of that connection is still to be
  published.

`Serial` and `Crashes` are constants that choose which program is meant, and `presence_serial` and
`presence_script` are instances of the hypotheses above; no theorem holds for want of a state.

### Batcher (`BatcherProofs`)

- `TypeCorrect`, `Armed`, `Superseded` (`OnlySuperseded`), `NoneRevived` (`NoRevival`). The
  invariant says where a promise can be: what waits in the buffer is unanswered, of the connection
  it waits for and in no batch; what is in a batch is in that batch alone, so settling one batch
  settles nobody else's request. `Armed` has no run: a waiting buffer has its timer.
- `Registered`: `ImplementsRegistry`, which is about the connections that await their answers
  (`Polite`). The invariant (`PoliteInv`) says that such a connection has one request awaited and in
  one place, and that what a batch plans to write of it is ahead of its hash; the other connections
  of the batch may do as they like.

### Metadata (`MetadataProofs`, `ChannelMetadataProofs`)

- `MetadataProofs!TypeCorrect`, and `Atomic`: if every call has a connection of its own that
  presence does not use (`PrivateSockets`), `Spec => ImplementsRegister`. The invariant says that a
  call about to EXEC watches the key and either has read the present contents and checked them, or
  is marked dirty.
- `ChannelMetadataProofs!TypeCorrect`, `Atomic` (`ExclusiveWrites`) and `Replicated`
  (`[]ReplicaAgrees`), for any requests, any calls of any owner and any moves of the lock: what the
  lock does not protect is in `crossed` and `lost`, not in a hypothesis. The invariant says that
  exposed calls which nothing crossed are one call of the lock's owner (`Apart`) whose read, if it
  was made, is what is stored, and that the calls which have written and not yet told form a chain of
  revisions from the replica's contents to the stored ones (`Chain`, `ReplicaKnows`).

### Handlers (`HandlersProofs`)

- `TypeCorrect`, `Hearing`, `Knowing`, `GoneLeaves`, `ToldIsAccepted`, `SupersededOverlap`. For a socket that is not
  strained, at most one call is in progress, and the invariant says at each `await` of that call
  what the socket's data, its rooms, its session and the client's epoch have to do with each other;
  a session may expire at any of them.

### Bridge and server (`BridgeProofs`)

- `TypeCorrect`, `SingleSubscriber`, `NoneLeft`, `Hears`. The invariant ties `subscriber` and
  `promise` to the state of the link each names and to the callers that wait for it, and, while
  calls have not crossed, says that a registered handler whose call has returned has a listening
  subscriber.
- `ServerIsBridge`: `ServerSpec => Spec`, so that the four above are about a server too. Hypothesis
  of this and the next three, `OneBridge`: the handlers are those of the one `createSocketBridge`,
  which `MCServer` assumes of its constants.
- `ServerTypeCorrect`, `DisposeIsFinal` (`NothingGoesOn`) and `OnlyOldWork`, after which no pass and no
  batch begins once `dispose` has returned, for any number of signals and clients. The invariant says how far the bridge's two handlers are in
  each phase of the start and of `dispose` (`Wired`), that `stop` awaits a teardown within `dispose`
  only, as a bridge that failed has no subscriber (`Paced`).

### SDK (`PresenceClientsProofs`, `RealtimeClientProofs`)

- `PresenceClientsProofs!TypeCorrect`, `LoopsHaveState`, `LoopsAreOnline`, `OneLoopBeats`. The
  invariant adds that an acknowledgement that could start a loop is on a connected socket, that a
  looping channel still has its handlers there, and, for a `ChannelPresence` used one call at a
  time, that its calls in progress are of its current channel. `LateAnswersIgnored` rests on one
  more: only the timers of heartbeats and of emits settle a promise before its acknowledgement.
- `RealtimeClientProofs!TypeCorrect`, `SocketsHeld`, `ChannelsFollow`, `ListenersKept`,
  `DisconnectHeard`, for any number of crossing `shutdown()` calls. The invariant says that attempts have opening sockets of their own; that an
  attempt which crossed nothing is alone and replaces no open socket; that no channel is cached
  while an attempt or the end of `shutdown()` may change the socket, unless `kept`; and that bound
  events mean a handler on an open socket.

Only model-checked: the liveness properties `ZombiesAnnounced`, `HeartbeatsAnswered`, `CallsReturn`
(of the bridge and of transactional metadata), `OnlySupersededUnanswered`, `ShutdownEnds`,
`WorkDiesOut`, `TimedCallsSettle`, `ConnectSettles` and `ShutdownReturns`. Liveness under fairness is out of the
prover's reach.

## Not modelled

- `core/channel.ts`, `channel-presence.ts`, `channel-storage.ts` and `channel-types.ts` of the SDK: an earlier
  implementation that no code imports.
- Of `PresenceChannel`: the handlers of custom events, its local events (the code emits them to
  the server), plain emits and the socket's error event. Event forwarding in `Channel` and `EventEmitter`
  calls listeners and has no state that a property could be about.
- The calls of the SDK's metadata clients (`ChannelMetadataClient`, `ChannelStorage`): each sends one
  request and waits, without a timer, for its acknowledgement. `RealtimeClient` has their listeners.
- `metadata.withLock` only runs its callback; nothing in the repository takes the locks it stands for.
- `BATCH_HEARTBEAT_SCRIPT` and the unused branch for an empty removal list are dead code.
- Tracing, metrics, benchmarks, examples and the demo change no state of the system.

## Plan

1. `RosterAgrees` and `MembersJustified` through crashes: a history variable for the
   connections a crash was about, and the theorems without the hypothesis `~Crashes`.
2. `SocketHandlers` over `Presence` instead of the registry, so that a handler's failure meets the partial
   effects of a service call.
3. Composition of `PresenceClients` with `SocketHandlers`: late and lost acknowledgements against the session the
   server has.
