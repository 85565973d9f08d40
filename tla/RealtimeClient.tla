----------------------------- MODULE RealtimeClient -----------------------------
(***************************************************************************)
(* The SDK's RealtimeClient (core/realtime-client.ts): the sockets it      *)
(* opens, the metadata client it keeps on its socket, and the channels and *)
(* presence channels made on a socket (modules/channel/channel.ts,         *)
(* channel-storage.ts, modules/metadata/channel-metadata-client.ts), of    *)
(* which it has the handlers on the socket.  PresenceClients has what a    *)
(* presence channel does on its socket.                                    *)
(***************************************************************************)
EXTENDS Naturals

CONSTANTS
  Sockets,    \* bound: the sockets one client opens
  Connects,   \* bound: connect() calls under way at once
  Ids,        \* channel ids
  Legacy,     \* bound: what createPresenceChannel and joinRoom make
  Shutdowns,  \* bound: shutdown() calls under way at once
  None

ASSUME ClientAssumption ==
  /\ None \notin Sockets \union {"idle", "auth"}
  /\ Sockets \intersect {"idle", "auth"} = {}

VARIABLES
  sock,         \* each socket: unused, opening, up, down (reconnecting) or closed
  socket,       \* this.socket
  connecting,   \* where each connect() is: idle, at the auth provider, or at its socket
  metadata,     \* the socket of this._metadata
  eventsBound,
  cache,        \* this.channels: the socket of each channel
  legacy,       \* this.presenceChannels: the socket of each
  onMetadata,   \* the sockets a metadata client listens on
  onStorage,    \* the channels whose storage listens, with their sockets
  onDisconnect, \* the sockets the client's own disconnect handler is on
  shutting,     \* where each shutdown() is
  disposed,     \* the channels each has stopped and disposed
  crossed,      \* history: connect() with a connect() under way, or a socket reconnecting
  kept,         \* history: channels kept over a connect() or disconnect(), or made meanwhile
  muted         \* history: the application stopped a presence channel itself

socketVars == <<sock, socket, connecting, crossed>>
handlerVars == <<onMetadata, onStorage, onDisconnect, muted>>
channelVars == <<cache, legacy, kept>>
shutVars == <<shutting, disposed>>
vars == <<socketVars, metadata, eventsBound, handlerVars, channelVars, shutVars>>

\* Type invariant: the shapes of sockets, channels and calls.
TypeOK ==
  /\ sock \in [Sockets -> {"unused", "opening", "up", "down", "closed"}]
  /\ socket \in Sockets \union {None}
  /\ connecting \in [Connects -> {"idle", "auth"} \union Sockets]
  /\ metadata \in Sockets \union {None}
  /\ eventsBound \in BOOLEAN
  /\ cache \in [Ids -> Sockets \union {None}]
  /\ legacy \in [Legacy -> Sockets \union {None}]
  /\ onMetadata \subseteq Sockets
  /\ onStorage \subseteq Ids \X Sockets
  /\ onDisconnect \subseteq Sockets
  /\ shutting \in [Shutdowns -> {"no", "channels", "legacy"}]
  /\ disposed \in [Shutdowns -> SUBSET Ids]
  /\ crossed \in BOOLEAN /\ kept \in BOOLEAN /\ muted \in BOOLEAN

Init ==
  /\ sock = [s \in Sockets |-> "unused"]
  /\ socket = None
  /\ connecting = [k \in Connects |-> "idle"]
  /\ metadata = None
  /\ eventsBound = FALSE
  /\ cache = [i \in Ids |-> None]
  /\ legacy = [l \in Legacy |-> None]
  /\ onMetadata = {} /\ onStorage = {} /\ onDisconnect = {}
  /\ shutting = [x \in Shutdowns |-> "no"] /\ disposed = [x \in Shutdowns |-> {}]
  /\ crossed = FALSE /\ kept = FALSE /\ muted = FALSE

Is(s, status) == s # None /\ sock[s] = status
Unused == {s \in Sockets : sock[s] = "unused"}
Cached == {i \in Ids : cache[i] # None}
Connecting == {k \in Connects : connecting[k] # "idle"}
Shutting == {x \in Shutdowns : shutting[x] # "no"}

-----------------------------------------------------------------------------
(* connect *)

\* connect(), unless the socket is connected: the auth provider is asked.
Connect(k) ==
  /\ connecting[k] = "idle"
  /\ \A s \in {socket} : ~Is(s, "up")
  /\ connecting' = [connecting EXCEPT ![k] = "auth"]
  /\ crossed' = (crossed \/ Connecting # {} \/ Is(socket, "down"))
  /\ kept' = (kept \/ Cached # {})
  /\ UNCHANGED <<sock, socket, metadata, eventsBound, handlerVars, cache, legacy, shutVars>>

\* resolveAuthQuery has an answer, if need be an empty one: a new socket is opened.
AuthAnswered(k) ==
  /\ connecting[k] = "auth"
  /\ \E s \in Unused :
       /\ s = CHOOSE t \in Unused : TRUE
       /\ sock' = [sock EXCEPT ![s] = "opening"]
       /\ connecting' = [connecting EXCEPT ![k] = s]
  /\ UNCHANGED <<socket, crossed, metadata, eventsBound, handlerVars, channelVars, shutVars>>

\* setupEventHandlers
BindEvents(s) ==
  /\ eventsBound' = TRUE
  /\ onDisconnect' = IF eventsBound THEN onDisconnect ELSE onDisconnect \union {s}

\* A ChannelMetadataClient is made, which listens, or is disposed.
AttachMetadata(s) == metadata' = s /\ onMetadata' = onMetadata \union {s}
DisposeMetadata == metadata' = None /\ onMetadata' = onMetadata \ {metadata}

\* The storage of a channel attaches and detaches its listener.  That the listener is
\* called is all there is here: in a channel the client made it throws, for the channel was
\* given its options where it takes a logger.
AttachStorage(i, s) == onStorage' = onStorage \union {<<i, s>>}
DetachStorage(i, s) == onStorage' = onStorage \ {<<i, s>>}

\* onConnect: the socket becomes the client's, with a metadata client of its own.
Connected(k) ==
  \E s \in Sockets :
    /\ connecting[k] = s /\ sock[s] = "opening"
    /\ sock' = [sock EXCEPT ![s] = "up"]
    /\ connecting' = [connecting EXCEPT ![k] = "idle"]
    /\ socket' = s
    /\ AttachMetadata(s)
    /\ BindEvents(s)
    /\ UNCHANGED <<crossed, onStorage, muted, channelVars, shutVars>>

\* Mutant of ConnectFails: the socket is left to try again.
ConnectFailsOpen(k) ==
  \E s \in Sockets :
    /\ connecting[k] = s
    /\ sock' = [sock EXCEPT ![s] = "down"]
    /\ connecting' = [connecting EXCEPT ![k] = "idle"]
    /\ UNCHANGED <<socket, crossed, metadata, eventsBound, handlerVars, channelVars, shutVars>>

\* Mutant of ConnectFails: the promise is not rejected.
ConnectFailsSilently(k) ==
  \E s \in Sockets :
    /\ connecting[k] = s /\ sock[s] = "opening"
    /\ sock' = [sock EXCEPT ![s] = "closed"]
    /\ UNCHANGED <<socket, connecting, crossed, metadata, eventsBound, handlerVars, channelVars,
                   shutVars>>

\* onError
ConnectFails(k) ==
  \E s \in Sockets :
    /\ connecting[k] = s
    /\ sock' = [sock EXCEPT ![s] = "closed"]
    /\ connecting' = [connecting EXCEPT ![k] = "idle"]
    /\ UNCHANGED <<socket, crossed, metadata, eventsBound, handlerVars, channelVars, shutVars>>

-----------------------------------------------------------------------------
(* disconnect and shutdown *)

\* Mutant of Disconnecting: eventsBound is left to the disconnect handler.
DisconnectingBound ==
  IF socket = None
  THEN UNCHANGED <<sock, socket, metadata, eventsBound, onMetadata>>
  ELSE /\ sock' = [sock EXCEPT ![socket] = "closed"]
       /\ socket' = None
       /\ DisposeMetadata
       /\ eventsBound' = (eventsBound /\ ~(Is(socket, "up") /\ socket \in onDisconnect))

\* The work of disconnect(): the metadata client is disposed, and the socket closed,
\* up or reconnecting.
Disconnecting ==
  IF socket = None
  THEN UNCHANGED <<sock, socket, metadata, eventsBound, onMetadata>>
  ELSE /\ sock' = [sock EXCEPT ![socket] = "closed"]
       /\ socket' = None
       /\ DisposeMetadata
       /\ eventsBound' = FALSE

Disconnect ==
  /\ Disconnecting
  /\ kept' = (kept \/ Cached # {})
  /\ UNCHANGED <<connecting, crossed, onStorage, onDisconnect, muted, cache, legacy, shutVars>>

Goes(x, where) == shutting' = [shutting EXCEPT ![x] = where]

\* shutdown(), while another may be under way.
Shutdown(x) ==
  /\ shutting[x] = "no"
  /\ Goes(x, "channels")
  /\ UNCHANGED <<socketVars, metadata, eventsBound, handlerVars, channelVars, disposed>>

\* Mutant of ShutdownDisposes: the channel is stopped only.
ShutdownStopsOnly(x) ==
  \E i \in Cached \ disposed[x] :
    /\ shutting[x] = "channels"
    /\ disposed' = [disposed EXCEPT ![x] = @ \union {i}]
    /\ UNCHANGED <<socketVars, metadata, eventsBound, handlerVars, channelVars, shutting>>

\* presence.stop() of a channel has returned, and the channel is disposed, if need be again.
ShutdownDisposes(x) ==
  \E i \in Cached \ disposed[x] :
    /\ shutting[x] = "channels"
    /\ disposed' = [disposed EXCEPT ![x] = @ \union {i}]
    /\ DetachStorage(i, cache[i])
    /\ UNCHANGED <<socketVars, metadata, eventsBound, onMetadata, onDisconnect, muted,
                   channelVars, shutting>>

\* Mutant of ShutdownClears: the channels stay for the next connection.
ShutdownKeeps(x) ==
  /\ shutting[x] = "channels" /\ Cached \subseteq disposed[x]
  /\ Goes(x, "legacy")
  /\ UNCHANGED <<socketVars, metadata, eventsBound, handlerVars, channelVars, disposed>>

\* Every channel is disposed, one added meanwhile too: the map is cleared, which every
\* other shutdown() is iterating over.
ShutdownClears(x) ==
  /\ shutting[x] = "channels" /\ Cached \subseteq disposed[x]
  /\ Goes(x, "legacy")
  /\ disposed' = [y \in Shutdowns |-> {}]
  /\ cache' = [i \in Ids |-> None]
  /\ UNCHANGED <<socketVars, metadata, eventsBound, handlerVars, legacy, kept>>

\* PresenceChannel.stop takes the handlers of everyone off its socket, the client's too.
StopOn(s) == onDisconnect' = onDisconnect \ {s}

\* Mutant of ShutdownStopsLegacy: stop waits for the server's answer.
ShutdownStopsOnline(x) ==
  \E l \in Legacy :
    /\ shutting[x] = "legacy" /\ Is(legacy[l], "up")
    /\ StopOn(legacy[l])
    /\ legacy' = [legacy EXCEPT ![l] = None]
    /\ UNCHANGED <<socketVars, metadata, eventsBound, onMetadata, onStorage, muted, cache, kept,
                   shutVars>>

ShutdownStopsLegacy(x) ==
  \E l \in Legacy :
    /\ shutting[x] = "legacy" /\ legacy[l] # None
    /\ StopOn(legacy[l])
    /\ legacy' = [legacy EXCEPT ![l] = None]
    /\ UNCHANGED <<socketVars, metadata, eventsBound, onMetadata, onStorage, muted, cache, kept,
                   shutVars>>

ShutdownDisconnects(x) ==
  /\ shutting[x] = "legacy" /\ \A l \in Legacy : legacy[l] = None
  /\ Goes(x, "no")
  /\ Disconnecting
  /\ UNCHANGED <<connecting, crossed, onStorage, onDisconnect, muted, channelVars, disposed>>

-----------------------------------------------------------------------------
(* Channels *)

\* The constructor of Channel, on socket s.
NewChannel(i, s) == cache' = [cache EXCEPT ![i] = s] /\ AttachStorage(i, s)

\* channel(id), the first time: its storage listens.  Later the same one is returned.
Channel ==
  \E i \in Ids \ Cached :
    /\ socket # None
    /\ NewChannel(i, socket)
    /\ kept' = (kept \/ Shutting # {} \/ Connecting # {})
    /\ UNCHANGED <<socketVars, metadata, eventsBound, onMetadata, onDisconnect, muted, legacy,
                   shutVars>>

\* createPresenceChannel, of itself or in joinRoom.
CreatePresenceChannel ==
  \E l \in Legacy :
    /\ socket # None /\ legacy[l] = None
    /\ legacy' = [legacy EXCEPT ![l] = socket]
    /\ UNCHANGED <<socketVars, metadata, eventsBound, handlerVars, cache, kept, shutVars>>

\* joinRoom was refused: the presence channel is forgotten.
JoinRoomRefused ==
  \E l \in Legacy :
    /\ legacy[l] # None /\ Is(legacy[l], "up")
    /\ legacy' = [legacy EXCEPT ![l] = None]
    /\ UNCHANGED <<socketVars, metadata, eventsBound, handlerVars, cache, kept, shutVars>>

\* The application stops its presence channel.
StopPresenceChannel ==
  \E l \in Legacy :
    /\ legacy[l] # None
    /\ StopOn(legacy[l])
    /\ muted' = TRUE
    /\ UNCHANGED <<socketVars, metadata, eventsBound, onMetadata, onStorage, channelVars, shutVars>>

-----------------------------------------------------------------------------
(* The network *)

\* A socket is down; the client's handler, where it is on, notes it.
Drop(s) ==
  /\ sock[s] = "up"
  /\ sock' = [sock EXCEPT ![s] = "down"]
  /\ eventsBound' = (eventsBound /\ s \notin onDisconnect)
  /\ UNCHANGED <<socket, connecting, crossed, metadata, handlerVars, channelVars, shutVars>>

Reconnect(s) ==
  /\ sock[s] = "down"
  /\ sock' = [sock EXCEPT ![s] = "up"]
  /\ UNCHANGED <<socket, connecting, crossed, metadata, eventsBound, handlerVars, channelVars, shutVars>>

\* reconnectionAttempts are used up, or the server closed the socket.
GiveUp(s) ==
  /\ sock[s] = "down"
  /\ sock' = [sock EXCEPT ![s] = "closed"]
  /\ UNCHANGED <<socket, connecting, crossed, metadata, eventsBound, handlerVars, channelVars, shutVars>>

-----------------------------------------------------------------------------
Opened(k) == Connected(k) \/ ConnectFails(k)
ShutdownStep(x) ==
  ShutdownDisposes(x) \/ ShutdownClears(x) \/ ShutdownStopsLegacy(x) \/ ShutdownDisconnects(x)

Next ==
  \/ \E k \in Connects : Connect(k) \/ AuthAnswered(k) \/ Opened(k)
  \/ Disconnect \/ \E x \in Shutdowns : Shutdown(x) \/ ShutdownStep(x)
  \/ Channel \/ CreatePresenceChannel \/ JoinRoomRefused \/ StopPresenceChannel
  \/ \E s \in Sockets : Drop(s) \/ Reconnect(s) \/ GiveUp(s)

Spec == Init /\ [][Next]_vars

\* An opening socket connects or fails (socket.io-client has a timeout), and stop()
\* of a presence channel returns (leave has a timer).
FairSpec ==
  /\ Spec
  /\ \A k \in Connects : WF_vars(AuthAnswered(k)) /\ WF_vars(Opened(k))
  /\ \A x \in Shutdowns : WF_vars(ShutdownStep(x))

-----------------------------------------------------------------------------
\* No socket is left open that the client cannot close: one that is opening, up or
\* reconnecting is the client's or that of a connect() under way, unless connect() was
\* called across another, or across a socket that was reconnecting.
NoStraySocket ==
  ~crossed => \A s \in Sockets :
    sock[s] \in {"opening", "up", "down"} => s = socket \/ \E k \in Connects : connecting[k] = s

\* Channels do not outlive their connection through shutdown(): a channel the client
\* would return is on its current socket, unless channels were kept over a connect() or
\* a disconnect(), or made while a connect() or shutdown() was under way.
ChannelsUsable == ~kept => \A i \in Cached : cache[i] = socket

\* The storage of a channel listens until a shutdown() disposes it.
StorageHeard ==
  \A i \in Ids, s \in Sockets :
    <<i, s>> \in onStorage <=> cache[i] = s /\ \A x \in Shutdowns : i \notin disposed[x]

\* The client's metadata client is on its socket, and listens there.
MetadataHeard ==
  /\ metadata = socket
  /\ socket # None => socket \in onMetadata
  /\ ~crossed => \A s \in onMetadata : s = socket \/ sock[s] = "closed"

\* No listener is left that the client has forgotten, and none is missing: not of a channel's
\* storage, through shutdown() calls that cross, and not of a metadata client, of which only
\* the client's own is on an open socket, unless connect() calls crossed.
ListenersOwned == StorageHeard /\ MetadataHeard

\* The client hears of the loss of its socket: the handlers that shutdown() took off
\* one connection with its presence channels are back on the next.  (Not so when the
\* application stopped a presence channel, and connects again after the loss.)
HearsDisconnect ==
  ~crossed /\ ~muted /\ Shutting = {} /\ Is(socket, "up") => socket \in onDisconnect

\* connect() settles, where a socket is left to open.
ConnectSettles ==
  \A k \in Connects : connecting[k] # "idle" ~> connecting[k] = "idle" \/ Unused = {}

\* Each shutdown() returns, unless channels or presence channels are made without end: it
\* stops those added meanwhile too, and so does another shutdown() at the same time.
ShutdownReturns ==
  \/ []<><<Channel \/ CreatePresenceChannel>>_vars
  \/ \A x \in Shutdowns : shutting[x] # "no" ~> shutting[x] = "no"
=============================================================================
