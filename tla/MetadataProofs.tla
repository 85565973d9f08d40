--------------------------- MODULE MetadataProofs ---------------------------
(***************************************************************************)
(* TransactionalMetadata is type correct and, when every call has a        *)
(* connection of its own that presence transactions do not use, it         *)
(* implements the register, for any calls, requests and retries.           *)
(***************************************************************************)
EXTENDS TransactionalMetadata, TLAPS

\* What the wrapper needs of its deployment and the server does not arrange.
PrivateSockets ==
  /\ \A p, o \in Calls : SocketOf[p] = SocketOf[o] => p = o
  /\ \A p \in Calls : SocketOf[p] \notin PresenceOn

-----------------------------------------------------------------------------
(* Records *)

LEMMA NoChannelIsChannel == IsChannel(NoChannel)
<1>1. NoItems \in [DOMAIN NoItems -> Entry] /\ DOMAIN NoItems = {}
  BY DEF NoItems
<1> QED
  BY <1>1 DEF IsChannel, IsRecord, NoChannel

LEMMA AfterIsChannel ==
  ASSUME NEW ch, NEW q, IsChannel(ch), IsRequest(q)
  PROVE  IsChannel(After(ch, q))
<1> DEFINE items == After(ch, q).items
<1>1. ch.items \in [DOMAIN ch.items -> Entry] /\ DOMAIN ch.items \subseteq ItemKeys
  BY DEF IsChannel, IsRecord
<1>2. q.data \in [DOMAIN q.data -> Item] /\ DOMAIN q.data \subseteq ItemKeys
  BY DEF IsRequest
<1>3. q.kind \in {"set", "update", "remove"}
  BY DEF IsRequest
<1>4. CASE q.kind = "set"
  <2>1. IsRecord(RecordForSet(q))
    BY <1>2, ValuesAssumption DEF IsRecord, RecordForSet, Normalized, Entry, Item, Keys
  <2> QED
    BY <1>4, <2>1 DEF After, IsChannel, NextMajor
<1>5. CASE q.kind = "update"
  <2>1. IsRecord(UpdatedRecord(ch, q))
    BY <1>1, <1>2, ValuesAssumption DEF IsRecord, UpdatedRecord, EntryForUpdate, Normalized, Entry, Item, Keys
  <2> QED
    BY <1>5, <2>1 DEF After, IsChannel, NextMajor
<1>6. CASE q.kind = "remove"
  <2>1. IsRecord(RemainingRecord(ch, q))
    BY <1>1 DEF IsRecord, RemainingRecord, Keys
  <2> QED
    BY <1>6, <2>1 DEF After, IsChannel, NextMajor
<1> QED
  BY <1>3, <1>4, <1>5, <1>6

-----------------------------------------------------------------------------
(* Types *)

LEMMA CallFields ==
  ASSUME NEW c, IsCall(c)
  PROVE  /\ c.request \in Requests /\ IsRequest(c.request)
         /\ IsChannel(c.read) /\ c.attempt \in Nat /\ c.retry \in BOOLEAN
         /\ \A ch : IsChannel(ch) => IsCall([c EXCEPT !.read = ch])
         /\ \A b \in BOOLEAN : IsCall([c EXCEPT !.retry = b])
         /\ \A n \in Nat : IsCall([c EXCEPT !.attempt = n])
BY RequestsAssumption DEF IsCall

\* The next value of the calls, when only call p changes.
LEMMA CallsTyped ==
  ASSUME TypeOK, NEW p \in Calls, NEW at, NEW c,
         at \in {"idle", "watch", "read", "exec", "unwatch"},
         IF at = "idle" THEN c = NoCall ELSE IsCall(c),
         pc' = [pc EXCEPT ![p] = at], call' = [call EXCEPT ![p] = c]
  PROVE  /\ pc' \in [Calls -> {"idle", "watch", "read", "exec", "unwatch"}]
         /\ DOMAIN call' = Calls
         /\ \A o \in Calls : IF pc'[o] = "idle" THEN call'[o] = NoCall ELSE IsCall(call'[o])
BY DEF TypeOK

\* Contents, connections and calls keep their shapes (TypeOK).
THEOREM TypeCorrect == Spec => []TypeOK
<1>1. Init => TypeOK
  BY NoChannelIsChannel DEF Init, TypeOK
<1>2. TypeOK /\ [Next]_vars => TypeOK'
  <2> SUFFICES ASSUME TypeOK, [Next]_vars PROVE TypeOK'
    OBVIOUS
  <2>1. ASSUME NEW p \in Calls, Begin(p) PROVE TypeOK'
    <3>1. PICK q \in Requests :
            /\ call' = [call EXCEPT ![p] = [request |-> q, read |-> NoChannel, attempt |-> 0,
                                            retry |-> FALSE]]
            /\ Goto(p, "watch")
            /\ UNCHANGED <<channel, lockOwner, watching, dirty>>
      BY <2>1 DEF Begin
    <3>2. IsCall([request |-> q, read |-> NoChannel, attempt |-> 0, retry |-> FALSE])
      BY NoChannelIsChannel DEF IsCall
    <3> QED
      BY <3>1, <3>2, CallsTyped DEF TypeOK, Goto
  <2>2. ASSUME NEW p \in Calls, Watch(p) PROVE TypeOK'
    <3>1. pc[p] = "watch" /\ IsCall(call[p])
      BY <2>2 DEF Watch, TypeOK
    <3>2. SocketOf[p] \in Sockets
      BY WrapperAssumption
    <3> QED
      BY <2>2, <3>1, <3>2 DEF Watch, TypeOK, Goto
  <2>3. ASSUME NEW p \in Calls, ReadPasses(p) PROVE TypeOK'
    <3>1. IsCall([call[p] EXCEPT !.read = channel])
      BY <2>3, CallFields DEF ReadPasses, TypeOK
    <3> QED
      BY <2>3, <3>1, CallsTyped DEF ReadPasses, TypeOK, Goto
  <2>4. ASSUME NEW p \in Calls, ReadIdle(p) PROVE TypeOK'
    BY <2>4, CallsTyped DEF ReadIdle, TypeOK, Return
  <2>5. ASSUME NEW p \in Calls, ReadFails(p) PROVE TypeOK'
    <3>1. PICK retry \in BOOLEAN : call' = [call EXCEPT ![p] = [@ EXCEPT !.retry = retry]]
      BY <2>5 DEF ReadFails
    <3>2. IsCall([call[p] EXCEPT !.retry = retry])
      BY <2>5, CallFields DEF ReadFails, TypeOK
    <3> QED
      BY <2>5, <3>1, <3>2, CallsTyped DEF ReadFails, TypeOK, Goto
  <2>6. ASSUME NEW p \in Calls, Exec(p) PROVE TypeOK'
    <3>1. IsCall(call[p])
      BY <2>6 DEF Exec, TypeOK
    <3>2. IsChannel(channel')
      BY <2>6, <3>1, CallFields, AfterIsChannel DEF Exec
    <3> QED
      BY <2>6, <3>2, CallsTyped DEF Exec, TypeOK, Return, Touch
  <2>7. ASSUME NEW p \in Calls, ExecAborts(p) PROVE TypeOK'
    <3>1. IsCall([call[p] EXCEPT !.retry = TRUE])
      BY <2>7, CallFields DEF ExecAborts, TypeOK
    <3> QED
      BY <2>7, <3>1, CallsTyped DEF ExecAborts, TypeOK, Goto, Forget
  <2>8. ASSUME NEW p \in Calls, Unwatch(p) PROVE TypeOK'
    <3>1. IsCall(call[p]) /\ call[p].attempt + 1 \in Nat
      BY <2>8, CallFields DEF Unwatch, TypeOK
    <3>2. IsCall([call[p] EXCEPT !.attempt = call[p].attempt + 1])
      BY <3>1, CallFields
    <3>3. CASE call[p].retry /\ call[p].attempt + 1 < MaxRetries
      BY <2>8, <3>2, <3>3, CallsTyped DEF Unwatch, TypeOK, Goto, Forget
    <3>4. CASE ~(call[p].retry /\ call[p].attempt + 1 < MaxRetries)
      BY <2>8, <3>4, CallsTyped DEF Unwatch, TypeOK, Return, Forget
    <3> QED
      BY <3>3, <3>4
  <2>9. ASSUME NEW s \in Sockets, PresenceTx(s) PROVE TypeOK'
    BY <2>9 DEF PresenceTx, TypeOK, Forget
  <2>10. CASE LockMoves
    BY <2>10 DEF LockMoves, TypeOK
  <2>11. CASE UNCHANGED vars
    BY <2>11 DEF vars, TypeOK
  <2> QED
    BY <2>1, <2>2, <2>3, <2>4, <2>5, <2>6, <2>7, <2>8, <2>9, <2>10, <2>11 DEF Next, Step
<1> QED
  BY <1>1, <1>2, PTL DEF Spec

-----------------------------------------------------------------------------
(* Atomicity *)

\* A call about to write watches the key, and has either read what is stored now, and
\* checked it, or a mark that makes its EXEC fail.
WatchInv ==
  \A p \in Calls :
    /\ pc[p] \in {"read", "exec"} => SocketOf[p] \in watching
    /\ pc[p] = "exec" => \/ SocketOf[p] \in dirty
                         \/ /\ call[p].read = channel
                            /\ Passes(channel, call[p].request)

\* A step of call p that leaves the contents alone disturbs only call p.
LEMMA OthersKeepWatching ==
  ASSUME PrivateSockets, TypeOK, WatchInv, NEW p \in Calls, NEW o \in Calls, o # p,
         pc'[o] = pc[o], call'[o] = call[o], channel' = channel,
         watching \ {SocketOf[p]} \subseteq watching', dirty \ {SocketOf[p]} \subseteq dirty'
  PROVE  /\ pc'[o] \in {"read", "exec"} => SocketOf[o] \in watching'
         /\ pc'[o] = "exec" => \/ SocketOf[o] \in dirty'
                              \/ /\ call'[o].read = channel'
                                 /\ Passes(channel', call'[o].request)
<1>1. SocketOf[o] # SocketOf[p]
  BY DEF PrivateSockets
<1> QED
  BY <1>1 DEF WatchInv

LEMMA WatchInvInductive ==
  ASSUME PrivateSockets
  PROVE  /\ Init => WatchInv
         /\ TypeOK /\ WatchInv /\ [Next]_vars => WatchInv'
<1>1. Init => WatchInv
  BY DEF Init, WatchInv
<1>2. TypeOK /\ WatchInv /\ [Next]_vars => WatchInv'
  <2> SUFFICES ASSUME TypeOK, WatchInv, [Next]_vars PROVE WatchInv'
    OBVIOUS
  <2>1. ASSUME NEW p \in Calls, Begin(p) PROVE WatchInv'
    <3>1. pc' = [pc EXCEPT ![p] = "watch"] /\ \E c : call' = [call EXCEPT ![p] = c]
      BY <2>1 DEF Begin, Goto
    <3>2. UNCHANGED <<channel, watching, dirty>>
      BY <2>1 DEF Begin
    <3> QED
      BY <3>1, <3>2, OthersKeepWatching DEF WatchInv, TypeOK
  <2>2. ASSUME NEW p \in Calls, Watch(p) PROVE WatchInv'
    BY <2>2, OthersKeepWatching DEF WatchInv, TypeOK, Watch, Goto
  <2>3. ASSUME NEW p \in Calls, ReadPasses(p) PROVE WatchInv'
    <3>1. /\ pc' = [pc EXCEPT ![p] = "exec"] /\ pc[p] = "read"
          /\ call' = [call EXCEPT ![p] = [call[p] EXCEPT !.read = channel]]
          /\ UNCHANGED <<channel, watching, dirty>>
      BY <2>3 DEF ReadPasses, Goto
    <3>2. IsCall(call[p]) /\ Passes(channel, call[p].request)
      BY <2>3 DEF ReadPasses, TypeOK
    <3>3. call'[p].read = channel /\ call'[p].request = call[p].request
      BY <3>1, <3>2 DEF TypeOK, IsCall
    <3> QED
      BY <3>1, <3>2, <3>3, OthersKeepWatching DEF WatchInv, TypeOK
  <2>4. ASSUME NEW p \in Calls, ReadIdle(p) PROVE WatchInv'
    BY <2>4, OthersKeepWatching DEF WatchInv, TypeOK, ReadIdle, Return
  <2>5. ASSUME NEW p \in Calls, ReadFails(p) PROVE WatchInv'
    BY <2>5, OthersKeepWatching DEF WatchInv, TypeOK, ReadFails, Goto
  <2>6. ASSUME NEW p \in Calls, Exec(p) PROVE WatchInv'
    <3>1. /\ pc' = [pc EXCEPT ![p] = "idle"] /\ call' = [call EXCEPT ![p] = NoCall]
          /\ watching' = watching \ {SocketOf[p]} /\ dirty' = watching \ {SocketOf[p]}
      BY <2>6 DEF Exec, Return, Touch
    <3>2. ASSUME NEW o \in Calls, o # p, pc[o] \in {"read", "exec"}
          PROVE  SocketOf[o] \in watching' /\ SocketOf[o] \in dirty'
      BY <3>1, <3>2 DEF PrivateSockets, WatchInv
    <3> QED
      BY <3>1, <3>2 DEF WatchInv, TypeOK
  <2>7. ASSUME NEW p \in Calls, ExecAborts(p) PROVE WatchInv'
    BY <2>7, OthersKeepWatching DEF WatchInv, TypeOK, ExecAborts, Goto, Forget
  <2>8. ASSUME NEW p \in Calls, Unwatch(p) PROVE WatchInv'
    <3>1. /\ \E at \in {"watch", "idle"} : pc' = [pc EXCEPT ![p] = at]
          /\ \E c : call' = [call EXCEPT ![p] = c]
      BY <2>8 DEF Unwatch, Goto, Return
    <3> QED
      BY <2>8, <3>1, OthersKeepWatching DEF WatchInv, TypeOK, Unwatch, Forget
  <2>9. ASSUME NEW s \in Sockets, PresenceTx(s) PROVE WatchInv'
    BY <2>9 DEF WatchInv, PresenceTx, Forget, PrivateSockets
  <2>10. CASE LockMoves
    BY <2>10 DEF WatchInv, LockMoves
  <2>11. CASE UNCHANGED vars
    BY <2>11 DEF WatchInv, vars
  <2> QED
    BY <2>1, <2>2, <2>3, <2>4, <2>5, <2>6, <2>7, <2>8, <2>9, <2>10, <2>11 DEF Next, Step
<1> QED
  BY <1>1, <1>2

\* The register's operators are the wrapper's own.
LEMMA SameOperators ==
  /\ Register!Init <=> channel = NoChannel
  /\ \A ch, q : Register!Passes(ch, q) <=> Passes(ch, q)
  /\ \A ch, q : Register!After(ch, q) = After(ch, q)
<1>1. Register!Init <=> channel = NoChannel
  BY DEF Register!Init, Register!NoChannel, NoChannel, Register!NoItems, NoItems
<1>2. ASSUME NEW ch, NEW q PROVE Register!Passes(ch, q) <=> Passes(ch, q)
  BY DEF Register!Passes, Passes, Register!Refused, Refused, Register!Conflicting, Conflicting,
         Register!MajorOK, MajorOK, Register!IsEmpty, IsEmpty, Register!Missing, Missing,
         Register!ItemOK, ItemOK, Register!Keys, Keys
<1>3. ASSUME NEW ch, NEW q PROVE Register!After(ch, q) = After(ch, q)
  BY DEF Register!After, After, Register!RecordForSet, RecordForSet, Register!Normalized, Normalized,
         Register!UpdatedRecord, UpdatedRecord, Register!EntryForUpdate, EntryForUpdate,
         Register!RemainingRecord, RemainingRecord, Register!Doomed, Doomed,
         Register!NextMajor, NextMajor, Register!Keys, Keys
<1> QED
  BY <1>1, <1>2, <1>3

\* On private connections WATCH makes the check and the write one: every change applies a
\* request to the contents it was checked against (ImplementsRegister).
THEOREM Atomic ==
  ASSUME PrivateSockets
  PROVE  Spec => ImplementsRegister
<1>1. Init => WatchInv /\ Register!Init
  BY WatchInvInductive, SameOperators DEF Init
<1>2. TypeOK /\ WatchInv /\ [Next]_vars => WatchInv'
  BY WatchInvInductive
<1>3. TypeOK /\ WatchInv /\ [Next]_vars => [Register!Next]_channel
  <2> SUFFICES ASSUME TypeOK, WatchInv, [Next]_vars, channel' # channel PROVE Register!Next
    OBVIOUS
  <2>1. PICK p \in Calls : Exec(p)
    BY DEF Next, Step, Begin, Watch, ReadPasses, ReadIdle, ReadFails, ExecAborts, Unwatch,
           PresenceTx, LockMoves, vars
  <2>2. call[p].read = channel /\ Passes(channel, call[p].request)
    BY <2>1 DEF WatchInv, Exec
  <2>3. call[p].request \in Requests
    BY <2>1, CallFields DEF TypeOK, Exec
  <2>4. channel' = After(channel, call[p].request)
    BY <2>1, <2>2 DEF Exec
  <2>5. Register!Change(call[p].request)
    BY <2>2, <2>4, SameOperators DEF Register!Change
  <2> QED
    BY <2>3, <2>5 DEF Register!Next
<1> QED
  BY <1>1, <1>2, <1>3, TypeCorrect, PTL DEF Spec, ImplementsRegister, Register!Spec
=============================================================================
