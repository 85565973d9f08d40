---------------------------- MODULE MetadataOps ----------------------------
(***************************************************************************)
(* What a metadata request does to the record of a channel: the checks and *)
(* the record builders that PresenceService and                            *)
(* TransactionalMetadataWrapper both have.                                 *)
(***************************************************************************)
EXTENDS Integers

CONSTANTS
  ItemKeys,   \* keys of metadata items
  Values,     \* values of metadata items
  Empty,      \* the empty string, one of them
  Undefined,  \* what a request has for an item it gives no value
  Actors,     \* user ids
  Requests    \* the requests clients send

\* totalCount is the number of items: both are always written together.
Entry == [value: Values, revision: Nat]

IsRecord(items) == DOMAIN items \subseteq ItemKeys /\ items \in [DOMAIN items -> Entry]

IsChannel(ch) ==
  /\ ch = [items |-> ch.items, major |-> ch.major]
  /\ IsRecord(ch.items)
  /\ ch.major \in Nat

NoItems == [k \in {} |-> 0]

\* What HGETALL answers when nothing was ever set.
NoChannel == [items |-> NoItems, major |-> 0]

\* A revision below zero is one that is not given.  A request names each key once; a remove
\* request without keys removes them all.
Item == [value: Values \union {Undefined}, revision: Int]

IsRequest(q) ==
  /\ q \in [kind: {"set", "update", "remove"}, data: {q.data}, expected: Int,
            actor: Actors, locked: BOOLEAN]
  /\ DOMAIN q.data \subseteq ItemKeys /\ q.data \in [DOMAIN q.data -> Item]
  /\ q.kind = "update" => DOMAIN q.data # {}

ASSUME ValuesAssumption == Empty \in Values /\ Undefined \notin Values

ASSUME RequestsAssumption == \A q \in Requests : IsRequest(q)

Keys(x) == DOMAIN x

-----------------------------------------------------------------------------
(* The checks *)

\* ensureMajorRevision
MajorOK(ch, q) == q.expected < 0 \/ q.expected = ch.major

IsEmpty(ch) == Keys(ch.items) = {}

Missing(ch, q) == Keys(q.data) \ Keys(ch.items)

\* ensureItemRevision
ItemOK(item, entry) == item.revision < 0 \/ item.revision = entry.revision

\* Refused with METADATA_INVALID.
Refused(ch, q) ==
  /\ q.kind = "update"
  /\ IsEmpty(ch) \/ (MajorOK(ch, q) /\ Missing(ch, q) # {})

\* Refused with METADATA_CONFLICT.  With one item missing and another of the wrong
\* revision, the first of the list decides: either answer may come.
Conflicting(ch, q) ==
  \/ ~MajorOK(ch, q) /\ ~(q.kind = "update" /\ IsEmpty(ch))
  \/ /\ q.kind = "update" /\ MajorOK(ch, q)
     /\ \E k \in Keys(q.data) \ Missing(ch, q) : ~ItemOK(q.data[k], ch.items[k])

Passes(ch, q) == ~Refused(ch, q) /\ ~Conflicting(ch, q)

-----------------------------------------------------------------------------
(* The record a request writes *)

\* normalizeMetadataValue
Normalized(value) == IF value = Undefined THEN Empty ELSE value

\* buildRecordForSet: the whole record is replaced.
RecordForSet(q) ==
  [k \in Keys(q.data) |-> [value |-> Normalized(q.data[k].value),
                           revision |-> IF q.data[k].revision > 0 THEN q.data[k].revision ELSE 1]]

\* buildEntryForUpdate: an item without a value keeps the one it had.
EntryForUpdate(entry, item) ==
  [value |-> IF item.value = Undefined THEN entry.value ELSE Normalized(item.value),
   revision |-> entry.revision + 1]

UpdatedRecord(ch, q) ==
  [k \in Keys(ch.items) |-> IF k \in Keys(q.data) THEN EntryForUpdate(ch.items[k], q.data[k])
                            ELSE ch.items[k]]

Doomed(ch, q) == IF Keys(q.data) = {} THEN Keys(ch.items) ELSE Keys(q.data)

RemainingRecord(ch, q) == [k \in Keys(ch.items) \ Doomed(ch, q) |-> ch.items[k]]

\* incrementMetadataMajor
NextMajor(major) == major + 1

\* The contents after a request that passes is applied to contents ch.
After(ch, q) ==
  [items |-> CASE q.kind = "set" -> RecordForSet(q)
               [] q.kind = "update" -> UpdatedRecord(ch, q)
               [] q.kind = "remove" -> RemainingRecord(ch, q),
   major |-> NextMajor(ch.major)]
=============================================================================
