--------------------------- MODULE PresenceStore ---------------------------
(***************************************************************************)
(* The Redis keys of the presence service (backend/src/presence/keys.ts)   *)
(* and the transactions the service runs on them.  Redis executes one      *)
(* command, MULTI block or script at a time, so each is one action here;   *)
(* the modules that extend this one say who runs them and in what order.   *)
(***************************************************************************)
EXTENDS Naturals

CONSTANTS
  Conns,      \* connection ids (socket ids)
  Rooms,      \* room ids
  Users,      \* user ids
  Marks,      \* state entries a client can set: a state is the set of those set
  None,       \* an absent hash field
  TTL,        \* options.ttlMs, in clock units
  MaxTime     \* bound: the clock stops here

ASSUME StoreAssumption ==
  /\ None \notin Conns \union Rooms \union Users
  /\ \A s \in SUBSET Marks : s # None
  /\ TTL \in Nat \ {0}
  /\ MaxTime \in Nat \ {0}

VARIABLES
  now,          \* Date.now(), never 0
  hash,         \* prs:conn:<connId>: room_id, user_id, epoch, state and the PEXPIRE deadline
  conns,        \* prs:{room:<roomId>}:conns
  members,      \* prs:{room:<roomId>}:members
  lastSeen,     \* prs:{room:<roomId>}:last_seen, score 0: not in the sorted set
  connMeta,     \* prs:{room:<roomId>}:conn_meta
  userConns,    \* prs:user:<userId>:conns
  activeRooms   \* prs:active_rooms

indexVars == <<conns, members, lastSeen, connMeta, userConns, activeRooms>>
storeVars == <<now, hash, conns, members, lastSeen, connMeta, userConns, activeRooms>>

Epochs == Nat

Hash == [room: Rooms \union {None}, user: Users \union {None},
         epoch: Epochs, state: SUBSET Marks, expires: Nat]

Meta == [user: Users \union {None}, epoch: Epochs]

\* What HGETALL and HGET answer for a key that does not exist.
NoHash == [room |-> None, user |-> None, epoch |-> 0, state |-> {}, expires |-> 0]
NoMeta == [user |-> None, epoch |-> 0]

StoreTypeOK ==
  /\ now \in Nat \ {0}
  /\ hash \in [Conns -> Hash]
  /\ conns \in [Rooms -> SUBSET Conns]
  /\ members \in [Rooms -> SUBSET Users]
  /\ lastSeen \in [Rooms -> [Conns -> Nat]]
  /\ connMeta \in [Rooms -> [Conns -> Meta]]
  /\ userConns \in [Users -> SUBSET Conns]
  /\ activeRooms \in SUBSET Rooms

StoreInit ==
  /\ now = 1
  /\ hash = [c \in Conns |-> NoHash]
  /\ conns = [r \in Rooms |-> {}]
  /\ members = [r \in Rooms |-> {}]
  /\ lastSeen = [r \in Rooms |-> [c \in Conns |-> 0]]
  /\ connMeta = [r \in Rooms |-> [c \in Conns |-> NoMeta]]
  /\ userConns = [u \in Users |-> {}]
  /\ activeRooms = {}

-----------------------------------------------------------------------------
(* Reading *)

\* EXISTS: every write to a connection hash sets its deadline.
Exists(c) == hash[c].expires > 0

\* Mutant of Live: the answer of HGETALL is not examined.
LiveUnchecked(c) == TRUE

\* The hash names its room and its user: what heartbeat and leave ask of it.
\* A late HSET on an expired key leaves a hash that does not.
Live(c) == hash[c].room # None /\ hash[c].user # None

\* Mutant of NoConnOf: the connection that leaves is counted as well.
NoConnOfOffByOne(r, u) ==
  \E c \in Conns : \A d \in Conns : connMeta[r][d].user = u <=> d = c

\* countUserConnsInRoom(r, u) === 0
NoConnOf(r, u) == \A c \in Conns : connMeta[r][c].user # u

\* Mutant of NextEpoch: Math.max(prevEpoch, fallback).
NextEpochNotRaised(previous, fallback) == IF previous < fallback THEN fallback ELSE previous

\* nextEpoch(previous, fallback)
NextEpoch(previous, fallback) ==
  IF previous = 0 \/ previous + 1 < fallback THEN fallback ELSE previous + 1

-----------------------------------------------------------------------------
(* Writing: the transactions *)

\* The MULTI of join.
JoinTx(c, r, u, e, s, t) ==
  /\ members' = [members EXCEPT ![r] = @ \union {u}]
  /\ conns' = [conns EXCEPT ![r] = @ \union {c}]
  /\ hash' = [hash EXCEPT ![c] = [room |-> r, user |-> u, epoch |-> e,
                                  state |-> s, expires |-> now + TTL]]
  /\ lastSeen' = [lastSeen EXCEPT ![r][c] = t]
  /\ connMeta' = [connMeta EXCEPT ![r][c] = [user |-> u, epoch |-> e]]
  /\ userConns' = [userConns EXCEPT ![u] = @ \union {c}]
  /\ activeRooms' = activeRooms \union {r}
  /\ UNCHANGED now

\* Mutant of BeatTx: the heartbeat writes the whole hash back.
BeatTxRewrites(c, r, e, s, raised, changed, t) ==
  /\ hash' = [hash EXCEPT ![c] = [room |-> r, user |-> connMeta[r][c].user, epoch |-> e,
                                  state |-> s, expires |-> now + TTL]]
  /\ lastSeen' = [lastSeen EXCEPT ![r][c] = t]
  /\ UNCHANGED <<now, conns, members, connMeta, userConns, activeRooms>>

\* The MULTI of a heartbeat.  HSET and PEXPIRE create the key when it has
\* expired or was deleted since it was read: the other fields stay absent.
BeatTx(c, r, e, s, raised, changed, t) ==
  /\ LET written == [hash[c] EXCEPT !.expires = now + TTL,
                                   !.epoch = IF raised THEN e ELSE @,
                                   !.state = IF changed THEN s ELSE @]
     IN hash' = [hash EXCEPT ![c] = written]
  /\ lastSeen' = [lastSeen EXCEPT ![r][c] = t]
  /\ UNCHANGED <<now, conns, members, connMeta, userConns, activeRooms>>

\* The HSET of conn_meta that follows a heartbeat which raised the epoch.
PutMeta(c, r, u, e) ==
  /\ connMeta' = [connMeta EXCEPT ![r][c] = [user |-> u, epoch |-> e]]
  /\ UNCHANGED <<now, hash, conns, members, lastSeen, userConns, activeRooms>>

\* HEARTBEAT_SCRIPT: the whole heartbeat in one script, on a live hash.
BeatScript(c, r, e, s, t) ==
  /\ hash' = [hash EXCEPT ![c] = [@ EXCEPT !.expires = now + TTL, !.epoch = e, !.state = s]]
  /\ lastSeen' = [lastSeen EXCEPT ![r][c] = t]
  /\ connMeta' = IF e = hash[c].epoch THEN connMeta
                 ELSE [connMeta EXCEPT ![r][c] = [user |-> hash[c].user, epoch |-> e]]
  /\ UNCHANGED <<now, conns, members, userConns, activeRooms>>

\* Mutants of Unindex: one of the three indexes is forgotten.
UnindexKeepsConn(c, r) ==
  /\ lastSeen' = [lastSeen EXCEPT ![r][c] = 0]
  /\ connMeta' = [connMeta EXCEPT ![r][c] = NoMeta]
  /\ UNCHANGED <<now, conns, members, activeRooms>>

UnindexKeepsScore(c, r) ==
  /\ conns' = [conns EXCEPT ![r] = @ \ {c}]
  /\ connMeta' = [connMeta EXCEPT ![r][c] = NoMeta]
  /\ UNCHANGED <<now, lastSeen, members, activeRooms>>

\* SREM conns, ZREM last_seen and HDEL conn_meta: common to leave and the reaper.
Unindex(c, r) ==
  /\ conns' = [conns EXCEPT ![r] = @ \ {c}]
  /\ lastSeen' = [lastSeen EXCEPT ![r][c] = 0]
  /\ connMeta' = [connMeta EXCEPT ![r][c] = NoMeta]
  /\ UNCHANGED <<now, members, activeRooms>>

\* Mutant of LeaveTx: the hash is left to its TTL.
LeaveTxKeepsHash(c, r, u) ==
  /\ Unindex(c, r)
  /\ userConns' = [userConns EXCEPT ![u] = @ \ {c}]
  /\ UNCHANGED hash

\* The MULTI of leave.
LeaveTx(c, r, u) ==
  /\ Unindex(c, r)
  /\ hash' = [hash EXCEPT ![c] = NoHash]
  /\ userConns' = [userConns EXCEPT ![u] = @ \ {c}]

\* The MULTI of the reaper for a connection whose conn_meta it read.
StripTx(c, r, u) ==
  /\ Unindex(c, r)
  /\ userConns' = [userConns EXCEPT ![u] = @ \ {c}]
  /\ UNCHANGED hash

\* The MULTI of the reaper for a connection without conn_meta.
PurgeTx(c, r) ==
  /\ Unindex(c, r)
  /\ UNCHANGED <<hash, userConns>>

DropMember(r, u) ==
  /\ members' = [members EXCEPT ![r] = @ \ {u}]
  /\ UNCHANGED <<now, hash, conns, lastSeen, connMeta, userConns, activeRooms>>

DropRoom(r) ==
  /\ activeRooms' = activeRooms \ {r}
  /\ UNCHANGED <<now, hash, conns, members, lastSeen, connMeta, userConns>>

\* Time passes, and Redis drops the hashes whose deadline is reached.
Tick ==
  /\ now < MaxTime
  /\ now' = now + 1
  /\ hash' = [c \in Conns |-> IF hash[c].expires <= now + 1 THEN NoHash ELSE hash[c]]
  /\ UNCHANGED indexVars
=============================================================================
