------------------------ MODULE RealtimeClientProofs ------------------------
(***************************************************************************)
(* What the SDK client keeps of its sockets, channels and listeners, for   *)
(* any number of sockets, connect() and shutdown() calls, channels and     *)
(* presence channels.                                                      *)
(***************************************************************************)
EXTENDS RealtimeClient, TLAPS

USE ClientAssumption

-----------------------------------------------------------------------------
(* The invariant *)

Open(s) == s # None /\ sock[s] \in {"up", "down"}

\* Each attempt under way has an opening socket of its own.
Opening ==
  \A k \in Connects : connecting[k] \in Sockets =>
    /\ sock[connecting[k]] = "opening"
    /\ \A j \in Connects : connecting[j] = connecting[k] => j = k

\* The client's socket has been up; without one no events are bound.
Current ==
  IF socket = None THEN ~eventsBound ELSE sock[socket] \in {"up", "down", "closed"}

\* A connect() that crossed nothing is the only one, and replaces no open socket.
Alone ==
  ~crossed => \A k \in Connecting : Connecting = {k} /\ ~Open(socket)

SocketInv == Opening /\ Current /\ Alone /\ NoStraySocket

\* The shutdown() calls that are about to stop the presence channels and disconnect.
Ending == {x \in Shutdowns : shutting[x] = "legacy"}

\* shutdown() disposes channels the client has, and none is disposed when it is not at it.
Disposals ==
  \A x \in Shutdowns : disposed[x] \subseteq Cached /\ (shutting[x] # "channels" => disposed[x] = {})

\* No channels while a connect() or the end of a shutdown() may change the socket.
Emptied == ~kept /\ (Connecting # {} \/ Ending # {}) => Cached = {}

ChannelInv == Disposals /\ Emptied /\ StorageHeard /\ ChannelsUsable

\* The client's disconnect handler is on its open socket, and what it takes to be bound is.
Listening ==
  ~crossed /\ ~muted /\ Ending = {} =>
    /\ Open(socket) => socket \in onDisconnect
    /\ eventsBound => Open(socket) /\ sock[socket] = "up"

\* A metadata client is made on a socket that is up.
MetadataInv == MetadataHeard /\ \A s \in onMetadata : sock[s] \in {"up", "down", "closed"}

IInv == TypeOK /\ SocketInv /\ ChannelInv /\ Listening /\ MetadataInv

LEMMA InitInv == ASSUME Init PROVE IInv
<1> USE DEF Init
<1>1. TypeOK
  BY DEF TypeOK
<1>2. SocketInv
  BY DEF SocketInv, Opening, Current, Alone, NoStraySocket, Connecting
<1>3. ChannelInv
  BY DEF ChannelInv, Disposals, Emptied, Ending, StorageHeard, ChannelsUsable, Cached
<1> QED
  BY <1>1, <1>2, <1>3 DEF IInv, Listening, Open, MetadataInv, MetadataHeard

-----------------------------------------------------------------------------
(* Type correctness *)

LEMMA DisconnectingType ==
  ASSUME TypeOK, Disconnecting
  PROVE  /\ sock' \in [Sockets -> {"unused", "opening", "up", "down", "closed"}]
         /\ socket' \in Sockets \union {None} /\ metadata' \in Sockets \union {None}
         /\ eventsBound' \in BOOLEAN /\ onMetadata' \subseteq Sockets
BY DEF TypeOK, Disconnecting, DisposeMetadata

LEMMA StepType ==
  ASSUME TypeOK, [Next]_vars
  PROVE  TypeOK'
<1> USE DEF socketVars, handlerVars, channelVars, shutVars
<1>1. ASSUME NEW k \in Connects, Connect(k) \/ AuthAnswered(k) \/ Opened(k) PROVE TypeOK'
  <2>1. CASE Connect(k)
    BY <2>1 DEF TypeOK, Connect
  <2>2. CASE AuthAnswered(k)
    BY <2>2 DEF TypeOK, AuthAnswered, Unused
  <2>3. CASE Connected(k)
    BY <2>3 DEF TypeOK, Connected, AttachMetadata, BindEvents
  <2>4. CASE ConnectFails(k)
    BY <2>4 DEF TypeOK, ConnectFails
  <2> QED
    BY <1>1, <2>1, <2>2, <2>3, <2>4 DEF Opened
<1>2. CASE Disconnect
  BY <1>2, DisconnectingType DEF TypeOK, Disconnect
<1>3. ASSUME NEW x \in Shutdowns, Shutdown(x) PROVE TypeOK'
  BY <1>3 DEF TypeOK, Shutdown, Goes
<1>4. ASSUME NEW x \in Shutdowns, ShutdownStep(x) PROVE TypeOK'
  <2>1. CASE ShutdownDisposes(x)
    BY <2>1 DEF TypeOK, ShutdownDisposes, DetachStorage, Cached
  <2>2. CASE ShutdownClears(x)
    BY <2>2 DEF TypeOK, ShutdownClears, Goes
  <2>3. CASE ShutdownStopsLegacy(x)
    BY <2>3 DEF TypeOK, ShutdownStopsLegacy, StopOn
  <2>4. CASE ShutdownDisconnects(x)
    BY <2>4, DisconnectingType DEF TypeOK, ShutdownDisconnects, Goes
  <2> QED
    BY <1>4, <2>1, <2>2, <2>3, <2>4 DEF ShutdownStep
<1>5. CASE Channel
  BY <1>5 DEF TypeOK, Channel, NewChannel, AttachStorage
<1>6. CASE CreatePresenceChannel \/ JoinRoomRefused \/ StopPresenceChannel
  BY <1>6 DEF TypeOK, CreatePresenceChannel, JoinRoomRefused, StopPresenceChannel, StopOn
<1>7. ASSUME NEW s \in Sockets, Drop(s) \/ Reconnect(s) \/ GiveUp(s) PROVE TypeOK'
  BY <1>7 DEF TypeOK, Drop, Reconnect, GiveUp
<1>8. CASE UNCHANGED vars
  BY <1>8 DEF vars, TypeOK
<1> QED
  BY <1>1, <1>2, <1>3, <1>4, <1>5, <1>6, <1>7, <1>8 DEF Next

-----------------------------------------------------------------------------
(* Sockets *)

\* disconnect() closes the socket it gives up, and leaves the others as they are.
LEMMA DisconnectingSockets ==
  ASSUME TypeOK, SocketInv, Disconnecting, UNCHANGED <<connecting, crossed>>
  PROVE  SocketInv'
<1> USE DEF SocketInv, Connecting
<1>1. CASE socket = None
  BY <1>1 DEF Disconnecting, TypeOK, Opening, Current, Alone, NoStraySocket, Open
<1>2. CASE socket # None
  <2>1. /\ sock' = [sock EXCEPT ![socket] = "closed"] /\ socket' = None /\ ~eventsBound'
        /\ socket \in Sockets
    BY <1>2 DEF Disconnecting, TypeOK
  <2>2. Opening'
    <3>1. \A k \in Connects : connecting[k] \in Sockets => connecting[k] # socket
      BY <1>2 DEF Opening, Current
    <3> QED
      BY <2>1, <3>1 DEF TypeOK, Opening
  <2>3. Current' /\ Alone'
    BY <2>1 DEF Current, Alone, Open
  <2>4. NoStraySocket'
    BY <2>1 DEF TypeOK, NoStraySocket
  <2> QED
    BY <2>2, <2>3, <2>4
<1> QED
  BY <1>1, <1>2

LEMMA SocketStep ==
  ASSUME TypeOK, SocketInv, [Next]_vars
  PROVE  SocketInv'
<1> USE DEF SocketInv, Connecting
<1>1. ASSUME NEW k \in Connects, Connect(k) PROVE SocketInv'
  <2>1. /\ connecting' = [connecting EXCEPT ![k] = "auth"]
        /\ crossed' = (crossed \/ Connecting # {} \/ Is(socket, "down"))
        /\ ~Is(socket, "up") /\ UNCHANGED <<sock, socket, eventsBound>>
    BY <1>1 DEF Connect
  <2>2. Opening' /\ Current'
    BY <2>1 DEF TypeOK, Opening, Current
  <2>3. Alone'
    <3>1. Connecting' = Connecting \union {k}
      BY <2>1 DEF TypeOK
    <3>2. ASSUME ~crossed' PROVE Connecting' = {k} /\ ~Open(socket)'
      <4>1. Connecting = {} /\ ~Is(socket, "down")
        BY <2>1, <3>2
      <4>2. Connecting' = {k}
        BY <3>1, <4>1
      <4>3. ~Open(socket)'
        BY <2>1, <4>1 DEF Open, Is
      <4> QED
        BY <4>2, <4>3
    <3> HIDE DEF Connecting
    <3>3. \A j \in Connecting' : ~crossed' => j = k
      BY <3>2
    <3> QED
      BY <3>2, <3>3 DEF Alone
  <2>4. NoStraySocket'
    BY <1>1, <2>1 DEF TypeOK, NoStraySocket, Connect
  <2> QED
    BY <2>2, <2>3, <2>4
<1>2. ASSUME NEW k \in Connects, AuthAnswered(k) PROVE SocketInv'
  <2>1. PICK s \in Sockets : /\ sock[s] = "unused"
                             /\ sock' = [sock EXCEPT ![s] = "opening"]
                             /\ connecting' = [connecting EXCEPT ![k] = s]
    BY <1>2 DEF AuthAnswered, Unused
  <2>2. connecting[k] = "auth" /\ UNCHANGED <<socket, crossed, eventsBound>>
    BY <1>2 DEF AuthAnswered
  <2>3. Opening'
    BY <2>1, <2>2 DEF TypeOK, Opening
  <2>4. Current'
    BY <2>1, <2>2 DEF TypeOK, Current
  <2>5. Alone'
    BY <2>1, <2>2 DEF TypeOK, Alone, Open
  <2>6. NoStraySocket'
    BY <2>1, <2>2 DEF TypeOK, NoStraySocket
  <2> QED
    BY <2>3, <2>4, <2>5, <2>6
<1>3. ASSUME NEW k \in Connects, Connected(k) PROVE SocketInv'
  <2>1. PICK s \in Sockets : /\ connecting[k] = s /\ sock[s] = "opening"
                             /\ sock' = [sock EXCEPT ![s] = "up"]
                             /\ connecting' = [connecting EXCEPT ![k] = "idle"]
                             /\ socket' = s /\ UNCHANGED crossed
    BY <1>3 DEF Connected
  <2>2. Opening'
    BY <2>1 DEF TypeOK, Opening
  <2>3. Current'
    BY <2>1 DEF TypeOK, Current
  <2>4. Alone'
    BY <2>1 DEF TypeOK, Alone
  <2>5. NoStraySocket'
    <3>1. ASSUME ~crossed, NEW t \in Sockets, t # s PROVE sock[t] \notin {"opening", "up", "down"}
      BY <2>1, <3>1 DEF TypeOK, Alone, NoStraySocket, Open, Current
    <3> QED
      BY <2>1, <3>1 DEF TypeOK, NoStraySocket
  <2> QED
    BY <2>2, <2>3, <2>4, <2>5
<1>4. ASSUME NEW k \in Connects, ConnectFails(k) PROVE SocketInv'
  <2>1. PICK s \in Sockets : /\ connecting[k] = s
                             /\ sock' = [sock EXCEPT ![s] = "closed"]
                             /\ connecting' = [connecting EXCEPT ![k] = "idle"]
                             /\ UNCHANGED <<socket, crossed, eventsBound>>
    BY <1>4 DEF ConnectFails
  <2>2. Opening'
    BY <2>1 DEF TypeOK, Opening
  <2>3. Current'
    BY <2>1 DEF TypeOK, Current
  <2>4. Alone'
    BY <2>1 DEF TypeOK, Alone, Open
  <2>5. NoStraySocket'
    BY <2>1 DEF TypeOK, NoStraySocket
  <2> QED
    BY <2>2, <2>3, <2>4, <2>5
<1>5. ASSUME NEW x \in Shutdowns, ShutdownDisconnects(x) PROVE SocketInv'
  BY <1>5, DisconnectingSockets DEF ShutdownDisconnects
<1>6. ASSUME NEW s \in Sockets, Drop(s) \/ Reconnect(s) \/ GiveUp(s) PROVE SocketInv'
  <2>1. PICK status \in {"up", "down", "closed"} : sock' = [sock EXCEPT ![s] = status]
    BY <1>6 DEF Drop, Reconnect, GiveUp
  <2>2. /\ sock[s] \in {"up", "down"} /\ UNCHANGED <<socket, connecting, crossed>>
    BY <1>6 DEF Drop, Reconnect, GiveUp
  <2>3. eventsBound' => eventsBound
    BY <1>6 DEF Drop, Reconnect, GiveUp
  <2>4. Opening'
    BY <2>1, <2>2 DEF TypeOK, Opening
  <2>5. Current'
    BY <2>1, <2>2, <2>3 DEF TypeOK, Current
  <2>6. Alone'
    BY <2>1, <2>2 DEF TypeOK, Alone, Open
  <2>7. NoStraySocket'
    BY <2>1, <2>2 DEF TypeOK, NoStraySocket
  <2> QED
    BY <2>4, <2>5, <2>6, <2>7
<1>7. CASE UNCHANGED <<socketVars, eventsBound>>
  BY <1>7 DEF socketVars, Opening, Current, Alone, NoStraySocket, Open
<1>8. ASSUME NEW x \in Shutdowns,
             Shutdown(x) \/ ShutdownDisposes(x) \/ ShutdownClears(x) \/ ShutdownStopsLegacy(x)
      PROVE  SocketInv'
  BY <1>7, <1>8 DEF Shutdown, ShutdownDisposes, ShutdownClears, ShutdownStopsLegacy
<1>9. CASE Disconnect
  BY <1>9, DisconnectingSockets DEF Disconnect
<1>11. CASE Channel \/ CreatePresenceChannel \/ JoinRoomRefused \/ StopPresenceChannel
  BY <1>7, <1>11 DEF Channel, CreatePresenceChannel, JoinRoomRefused, StopPresenceChannel
<1>10. CASE UNCHANGED vars
  BY <1>7, <1>10 DEF vars
<1> QED
  BY <1>1, <1>2, <1>3, <1>4, <1>5, <1>6, <1>8, <1>9, <1>10, <1>11 DEF Next, Opened, ShutdownStep

-----------------------------------------------------------------------------
(* Channels *)

LEMMA ChannelStep ==
  ASSUME TypeOK, SocketInv, ChannelInv, [Next]_vars
  PROVE  ChannelInv'
<1> USE DEF ChannelInv, Cached, Ending
<1>1. ASSUME NEW k \in Connects, Connect(k) PROVE ChannelInv'
  BY <1>1 DEF Connect, handlerVars, shutVars, Disposals, Emptied, StorageHeard, ChannelsUsable
<1>2. ASSUME NEW k \in Connects, AuthAnswered(k) PROVE ChannelInv'
  <2>1. Connecting # {}
    BY <1>2 DEF AuthAnswered, Connecting
  <2> QED
    BY <1>2, <2>1
       DEF AuthAnswered, handlerVars, channelVars, shutVars, Disposals, Emptied, StorageHeard, ChannelsUsable
<1>3. ASSUME NEW k \in Connects, Connected(k) \/ ConnectFails(k) PROVE ChannelInv'
  <2>1. k \in Connecting
    BY <1>3 DEF Connected, ConnectFails, Connecting
  <2>2. UNCHANGED <<onStorage, cache, kept, shutting, disposed>>
    BY <1>3 DEF Connected, ConnectFails, handlerVars, channelVars, shutVars
  <2> QED
    BY <1>3, <2>1, <2>2 DEF Disposals, Emptied, StorageHeard, ChannelsUsable, ConnectFails
<1>4. CASE Disconnect
  <2>1. UNCHANGED <<onStorage, cache, shutting, disposed, connecting>> /\ (kept' <=> kept \/ Cached # {})
    BY <1>4 DEF Disconnect, shutVars
  <2> QED
    BY <2>1 DEF Disposals, Emptied, StorageHeard, ChannelsUsable, Connecting
<1>5. ASSUME NEW x \in Shutdowns, Shutdown(x) PROVE ChannelInv'
  <2>1. /\ UNCHANGED <<socketVars, onStorage, channelVars, disposed>>
        /\ shutting[x] = "no" /\ shutting' = [shutting EXCEPT ![x] = "channels"]
    BY <1>5 DEF Shutdown, Goes, handlerVars
  <2>2. Ending' = Ending /\ \A y \in Shutdowns : shutting'[y] # "channels" => shutting[y] # "channels"
    BY <2>1 DEF TypeOK
  <2> QED
    BY <2>1, <2>2 DEF socketVars, channelVars, Disposals, Emptied, StorageHeard, ChannelsUsable, Connecting
<1>6. ASSUME NEW x \in Shutdowns, ShutdownDisposes(x) PROVE ChannelInv'
  <2>1. PICK i \in Cached \ disposed[x] : /\ shutting[x] = "channels"
                                          /\ disposed' = [disposed EXCEPT ![x] = @ \union {i}]
                                          /\ onStorage' = onStorage \ {<<i, cache[i]>>}
                                          /\ UNCHANGED <<socketVars, channelVars, shutting>>
    BY <1>6 DEF ShutdownDisposes, DetachStorage
  <2>2. \A y \in Shutdowns : disposed'[y] = IF y = x THEN disposed[x] \union {i} ELSE disposed[y]
    BY <2>1 DEF TypeOK
  <2>3. \A j \in Ids : (\A y \in Shutdowns : j \notin disposed'[y])
                        <=> (\A y \in Shutdowns : j \notin disposed[y]) /\ j # i
    BY <2>2
  <2>4. StorageHeard'
    BY <2>1, <2>3 DEF StorageHeard, channelVars
  <2>5. Disposals'
    BY <2>1, <2>2 DEF Disposals, channelVars
  <2> QED
    BY <2>1, <2>4, <2>5 DEF Emptied, ChannelsUsable, Connecting, socketVars, channelVars
<1>7. ASSUME NEW x \in Shutdowns, ShutdownClears(x) PROVE ChannelInv'
  <2>1. /\ Cached \subseteq disposed[x] /\ UNCHANGED <<socketVars, onStorage, kept>>
        /\ disposed' = [y \in Shutdowns |-> {}] /\ cache' = [i \in Ids |-> None]
    BY <1>7 DEF ShutdownClears, handlerVars
  <2> QED
    BY <2>1 DEF socketVars, Disposals, Emptied, StorageHeard, ChannelsUsable, Connecting
<1>8. ASSUME NEW x \in Shutdowns, ShutdownDisconnects(x) PROVE ChannelInv'
  <2>1. /\ UNCHANGED <<onStorage, cache, kept, disposed, connecting>>
        /\ shutting[x] = "legacy" /\ shutting' = [shutting EXCEPT ![x] = "no"]
    BY <1>8 DEF ShutdownDisconnects, channelVars, Goes
  <2>2. /\ x \in Ending /\ Ending' \subseteq Ending
        /\ \A y \in Shutdowns : shutting'[y] # "channels" => shutting[y] # "channels"
    BY <2>1 DEF TypeOK
  <2> QED
    BY <2>1, <2>2 DEF Disposals, Emptied, StorageHeard, ChannelsUsable, Connecting
<1>9. CASE Channel
  <2>1. PICK i \in Ids \ Cached : /\ socket # None
                                  /\ cache' = [cache EXCEPT ![i] = socket]
                                  /\ onStorage' = onStorage \union {<<i, socket>>}
                                  /\ kept' = (kept \/ Shutting # {} \/ Connecting # {})
                                  /\ UNCHANGED <<socketVars, shutVars>>
    BY <1>9 DEF Channel, NewChannel, AttachStorage
  <2>2. Disposals'
    BY <2>1 DEF Disposals, TypeOK, shutVars
  <2>3. Emptied'
    BY <2>1 DEF Emptied, Connecting, Shutting, socketVars, shutVars
  <2>4. StorageHeard'
    <3>1. \A x \in Shutdowns : i \notin disposed[x]
      BY <2>1 DEF Disposals
    <3>2. disposed' = disposed /\ cache[i] = None /\ socket \in Sockets
      BY <2>1 DEF TypeOK, shutVars
    <3>3. ASSUME NEW j \in Ids, NEW s \in Sockets
          PROVE  <<j, s>> \in onStorage' <=> cache'[j] = s /\ \A x \in Shutdowns : j \notin disposed'[x]
      <4>1. CASE j = i
        BY <2>1, <3>1, <3>2, <4>1 DEF StorageHeard, TypeOK
      <4>2. CASE j # i
        BY <2>1, <3>2, <4>2 DEF StorageHeard, TypeOK
      <4> QED
        BY <4>1, <4>2
    <3> QED
      BY <3>3 DEF StorageHeard
  <2>5. ChannelsUsable'
    BY <2>1 DEF ChannelsUsable, TypeOK, socketVars
  <2> QED
    BY <2>2, <2>3, <2>4, <2>5
<1>10. CASE UNCHANGED <<socket, connecting, onStorage, cache, kept, shutVars>>
  BY <1>10 DEF shutVars, Disposals, Emptied, StorageHeard, ChannelsUsable, Connecting
<1>11. CASE CreatePresenceChannel \/ JoinRoomRefused \/ StopPresenceChannel
  BY <1>10, <1>11 DEF CreatePresenceChannel, JoinRoomRefused, StopPresenceChannel,
       socketVars, handlerVars, channelVars
<1>12. ASSUME NEW x \in Shutdowns, ShutdownStopsLegacy(x) PROVE ChannelInv'
  BY <1>10, <1>12 DEF ShutdownStopsLegacy, socketVars, handlerVars, channelVars
<1>13. ASSUME NEW s \in Sockets, Drop(s) \/ Reconnect(s) \/ GiveUp(s) PROVE ChannelInv'
  BY <1>10, <1>13 DEF Drop, Reconnect, GiveUp, handlerVars, channelVars
<1>14. CASE UNCHANGED vars
  BY <1>10, <1>14 DEF vars, socketVars, handlerVars, channelVars
<1> QED
  BY <1>1, <1>2, <1>3, <1>4, <1>5, <1>6, <1>7, <1>8, <1>9, <1>11, <1>12, <1>13, <1>14
     DEF Next, Opened, ShutdownStep

-----------------------------------------------------------------------------
(* The disconnect handler *)

LEMMA ListeningStep ==
  ASSUME TypeOK, SocketInv, Listening, [Next]_vars
  PROVE  Listening'
<1> USE DEF Listening, Open, Ending
<1>1. ASSUME NEW k \in Connects, Connect(k) \/ AuthAnswered(k) \/ ConnectFails(k) PROVE Listening'
  <2>1. UNCHANGED <<socket, eventsBound, onDisconnect, muted, shutting>>
    BY <1>1 DEF Connect, AuthAnswered, ConnectFails, handlerVars, shutVars
  <2>2. crossed => crossed'
    BY <1>1 DEF Connect, AuthAnswered, ConnectFails
  <2>3. socket # None => sock'[socket] = sock[socket]
    BY <1>1 DEF Connect, AuthAnswered, ConnectFails, Unused, TypeOK, SocketInv, Current, Opening
  <2> QED
    BY <2>1, <2>2, <2>3
<1>2. ASSUME NEW k \in Connects, Connected(k) PROVE Listening'
  <2>1. PICK s \in Sockets : /\ connecting[k] = s /\ sock' = [sock EXCEPT ![s] = "up"]
                             /\ socket' = s /\ BindEvents(s) /\ UNCHANGED <<crossed, muted, shutVars>>
    BY <1>2 DEF Connected
  <2>2. ~crossed => ~Open(socket)
    BY <2>1 DEF SocketInv, Alone, Connecting
  <2> QED
    BY <2>1, <2>2 DEF BindEvents, TypeOK, shutVars
<1>3. ASSUME Disconnecting, UNCHANGED <<crossed, muted, onDisconnect>> PROVE Listening'
  <2>1. socket' = None /\ ~eventsBound'
    BY <1>3 DEF Disconnecting, SocketInv, Current
  <2> QED
    BY <1>3, <2>1
<1>4. CASE StopPresenceChannel
  BY <1>4 DEF StopPresenceChannel
<1>11. ASSUME NEW x \in Shutdowns, ShutdownStopsLegacy(x) PROVE Listening'
  <2>1. x \in Ending'
    BY <1>11 DEF ShutdownStopsLegacy, shutVars
  <2> QED
    BY <2>1
<1>5. ASSUME NEW s \in Sockets, Drop(s) PROVE Listening'
  <2>1. s # socket => sock'[socket] = sock[socket]
    BY <1>5 DEF Drop, TypeOK
  <2> QED
    BY <1>5 DEF Drop, TypeOK, handlerVars, shutVars
<1>6. ASSUME NEW s \in Sockets, Reconnect(s) \/ GiveUp(s) PROVE Listening'
  BY <1>6 DEF Reconnect, GiveUp, TypeOK, handlerVars, shutVars
<1>7. CASE UNCHANGED <<socketVars, eventsBound, onDisconnect, muted>>
           /\ Ending \subseteq Ending'
  BY <1>7 DEF socketVars
<1>8. CASE Channel \/ CreatePresenceChannel \/ JoinRoomRefused
  BY <1>7, <1>8 DEF Channel, CreatePresenceChannel, JoinRoomRefused, handlerVars, shutVars
<1>9. ASSUME NEW x \in Shutdowns, Shutdown(x) \/ ShutdownDisposes(x) \/ ShutdownClears(x) PROVE Listening'
  <2>1. UNCHANGED <<socketVars, eventsBound, onDisconnect, muted>>
    BY <1>9 DEF Shutdown, ShutdownDisposes, ShutdownClears, handlerVars
  <2>2. Ending \subseteq Ending'
    BY <1>9 DEF Shutdown, ShutdownDisposes, ShutdownClears, Goes, TypeOK
  <2> QED
    BY <1>7, <2>1, <2>2
<1>10. CASE UNCHANGED vars
  BY <1>7, <1>10 DEF vars, handlerVars, shutVars
<1> QED
  BY <1>1, <1>2, <1>3, <1>4, <1>5, <1>6, <1>8, <1>9, <1>10, <1>11
     DEF Next, Opened, ShutdownStep, Disconnect, ShutdownDisconnects

-----------------------------------------------------------------------------
(* Metadata clients *)

LEMMA MetadataStep ==
  ASSUME TypeOK, SocketInv, SocketInv', MetadataInv, [Next]_vars
  PROVE  MetadataInv'
<1> USE DEF MetadataInv
\* Once no metadata listener is on a socket that never was up, the sockets tell the rest.
<1>1. ASSUME metadata' = socket', socket' # None => socket' \in onMetadata',
             \A s \in onMetadata' : sock'[s] \in {"up", "down", "closed"}, onMetadata' \subseteq Sockets
      PROVE  MetadataInv'
  <2>1. ASSUME NEW s \in onMetadata', ~crossed' PROVE s = socket' \/ sock'[s] = "closed"
    <3>1. ASSUME NEW k \in Connects, connecting'[k] = s PROVE sock'[s] = "opening"
      BY <1>1, <3>1 DEF SocketInv, Opening
    <3> QED
      BY <1>1, <2>1, <3>1 DEF SocketInv, NoStraySocket
  <2> QED
    BY <1>1, <2>1 DEF MetadataHeard
<1>2. onMetadata \subseteq Sockets /\ metadata = socket /\ (socket # None => socket \in onMetadata)
  BY DEF TypeOK, MetadataHeard
<1>3. ASSUME NEW k \in Connects, Connect(k) \/ AuthAnswered(k) \/ ConnectFails(k) PROVE MetadataInv'
  <2>1. UNCHANGED <<socket, metadata, onMetadata>>
    BY <1>3 DEF Connect, AuthAnswered, ConnectFails, handlerVars
  <2>2. \A s \in onMetadata : sock'[s] = sock[s] \/ sock'[s] = "closed"
    BY <1>2, <1>3 DEF Connect, AuthAnswered, ConnectFails, Unused, TypeOK
  <2> QED
    BY <1>1, <1>2, <2>1, <2>2
<1>4. ASSUME NEW k \in Connects, Connected(k) PROVE MetadataInv'
  <2>1. PICK s \in Sockets : /\ sock' = [sock EXCEPT ![s] = "up"] /\ socket' = s
                             /\ metadata' = s /\ onMetadata' = onMetadata \union {s}
    BY <1>4 DEF Connected, AttachMetadata
  <2> QED
    BY <1>1, <1>2, <2>1 DEF TypeOK
<1>5. ASSUME Disconnecting PROVE MetadataInv'
  <2>1. CASE socket = None
    BY <1>1, <1>2, <1>5, <2>1 DEF Disconnecting
  <2>2. CASE socket # None
    <3>1. /\ sock' = [sock EXCEPT ![socket] = "closed"] /\ socket' = None
          /\ metadata' = None /\ onMetadata' = onMetadata \ {metadata}
      BY <1>5, <2>2 DEF Disconnecting, DisposeMetadata
    <3> QED
      BY <1>1, <1>2, <3>1 DEF TypeOK
  <2> QED
    BY <2>1, <2>2
<1>6. ASSUME NEW s \in Sockets, Drop(s) \/ Reconnect(s) \/ GiveUp(s) PROVE MetadataInv'
  <2>1. UNCHANGED <<socket, metadata, onMetadata>>
    BY <1>6 DEF Drop, Reconnect, GiveUp, handlerVars
  <2>2. \A t \in onMetadata : sock'[t] \in {"up", "down", "closed"}
    BY <1>2, <1>6 DEF Drop, Reconnect, GiveUp, TypeOK
  <2> QED
    BY <1>1, <1>2, <2>1, <2>2
<1>7. CASE UNCHANGED <<sock, socket, metadata, onMetadata>>
  BY <1>1, <1>2, <1>7
<1>8. CASE Channel \/ CreatePresenceChannel \/ JoinRoomRefused \/ StopPresenceChannel
  BY <1>7, <1>8 DEF Channel, CreatePresenceChannel, JoinRoomRefused, StopPresenceChannel,
       socketVars, handlerVars
<1>9. ASSUME NEW x \in Shutdowns,
             Shutdown(x) \/ ShutdownDisposes(x) \/ ShutdownClears(x) \/ ShutdownStopsLegacy(x)
      PROVE  MetadataInv'
  BY <1>7, <1>9 DEF Shutdown, ShutdownDisposes, ShutdownClears, ShutdownStopsLegacy, socketVars, handlerVars
<1>10. CASE UNCHANGED vars
  BY <1>7, <1>10 DEF vars, socketVars, handlerVars
<1> QED
  BY <1>3, <1>4, <1>5, <1>6, <1>8, <1>9, <1>10
     DEF Next, Opened, ShutdownStep, Disconnect, ShutdownDisconnects

LEMMA Invariant == Spec => []IInv
<1>1. IInv /\ [Next]_vars => IInv'
  BY StepType, SocketStep, ChannelStep, ListeningStep, MetadataStep DEF IInv
<1> QED
  BY InitInv, <1>1, PTL DEF Spec

-----------------------------------------------------------------------------
(* Theorems *)

\* Sockets, attempts, channels and listeners keep their shapes.
THEOREM TypeCorrect == Spec => []TypeOK
BY Invariant, PTL DEF IInv

\* Every open socket is the client's or that of a connect() under way, as long as no
\* connect() crossed another or a reconnecting socket (connect and disconnect).
THEOREM SocketsHeld == Spec => []NoStraySocket
BY Invariant, PTL DEF IInv, SocketInv

\* Cached channels are on the client's socket (channel and shutdown).
THEOREM ChannelsFollow == Spec => []ChannelsUsable
BY Invariant, PTL DEF IInv, ChannelInv

\* The listeners on the client's sockets are those of the channels it has and has not disposed,
\* and of its own metadata client, however shutdown() calls cross (ListenersOwned).
THEOREM ListenersKept == Spec => []ListenersOwned
BY Invariant, PTL DEF IInv, ChannelInv, MetadataInv, ListenersOwned

\* The client's disconnect handler is on its socket while it is up (setupEventHandlers).
THEOREM DisconnectHeard == Spec => []HearsDisconnect
<1>1. IInv => HearsDisconnect
  BY DEF IInv, Listening, Open, HearsDisconnect, Is, Ending, Shutting
<1> QED
  BY Invariant, <1>1, PTL
=============================================================================
