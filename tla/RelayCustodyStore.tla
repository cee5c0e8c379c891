------------------------- MODULE RelayCustodyStore -------------------------
(***************************************************************************)
(* The durable custody store of a relay (RelayCustodyStore in              *)
(* core/src/store/relay_custody.rs), as operators on its contents          *)
(*                                                                         *)
(*   s.recs    custody id -> custody record                                *)
(*   s.closed  the closing entries of the transition log, one for each     *)
(*             record about to be removed as "delivered" or "purged"       *)
(*                                                                         *)
(* so that a handler of the swarm can call several operations in a row.    *)
(* Custody ids are 1, 2, 3...: the order of accepted_at_ms, which the code *)
(* sorts by.  The log's other entries (accepted, dispatching, returned,    *)
(* migrated) change nothing and are left out.                              *)
(*                                                                         *)
(* Every operation is a series of separately flushed writes; the operators *)
(* named ...Prefixes give the contents a crash in between can leave.       *)
(***************************************************************************)
EXTENDS RelayRegistry, StoragePressure, FiniteSets

CONSTANTS Messages, Destinations,
          NoIdentity,        \* None, where an Option<identity id> is expected
          LocalIdentity,     \* the relay's own peer id, a possible destination
          Bytes,             \* serialized size of the record of each message
          MaxPending,        \* MAX_PENDING_PER_DESTINATION
          MaxAttempts        \* delivery_attempts at which mark_dispatching fails

ASSUME StoreAssumption ==
    /\ NoIdentity \notin Identities
    /\ Bytes \in [Messages -> Nat \ {0}]
    /\ MaxPending \in Nat \ {0}
    /\ MaxAttempts \in Nat

CustodyRecords == [dest: Destinations, msg: Messages,
                   ident: Identities \cup {NoIdentity},
                   dev: Devices \cup {NoDevice},
                   state: {"Accepted", "Dispatching"},
                   attempts: 0..MaxAttempts]

Closings == [id: Nat, dest: Destinations, msg: Messages, how: {"delivered", "purged"}]

StoreTypeOK(s) ==
    /\ s = [recs |-> s.recs, closed |-> s.closed]
    /\ DOMAIN s.recs \subseteq Nat
    /\ s.recs \in [DOMAIN s.recs -> CustodyRecords]
    /\ s.closed \subseteq Closings

EmptyStore == [recs |-> [c \in {} |-> 0], closed |-> {}]

NewRecord(d, m, i, dev) ==
    [dest |-> d, msg |-> m, ident |-> i, dev |-> dev, state |-> "Accepted", attempts |-> 0]
-----------------------------------------------------------------------------
\* Defect: the message id is not compared.
RecordsOf_MUT(s, d, m) == {c \in DOMAIN s.recs : s.recs[c].dest = d}

\* find_existing, has_message_for_destination
RecordsOf(s, d, m) == {c \in DOMAIN s.recs : s.recs[c].dest = d /\ s.recs[c].msg = m}

\* Defect: records already being dispatched are pulled as well.
Pending_MUT(s, d) == {c \in DOMAIN s.recs : s.recs[c].dest = d}

\* pending_for_destination: the oldest limit records in state Accepted
Pending(s, d) == {c \in DOMAIN s.recs : s.recs[c].dest = d /\ s.recs[c].state = "Accepted"}
Oldest(C, limit) == {c \in C : Cardinality({b \in C : b < c}) < limit}

put_message(s, c, rec) ==
    [s EXCEPT !.recs = [x \in DOMAIN s.recs \cup {c} |-> IF x = c THEN rec ELSE s.recs[x]]]

\* The log entries that close the records of C
Closing(s, C, how) ==
    {[id |-> c, dest |-> s.recs[c].dest, msg |-> s.recs[c].msg, how |-> how] : c \in C}

\* Defect: the record is removed before the removal is logged.
CloseCut_MUT(s, C, L, how) ==
    [recs |-> [x \in DOMAIN s.recs \ C |-> s.recs[x]],
     closed |-> s.closed \cup Closing(s, C \ L, how)]

\* record_transition, then remove_message, for each record of C in turn; cut by
\* a crash, some are done and at most one is logged but not yet removed (L).
CloseCut(s, C, L, how) ==
    [recs |-> [x \in DOMAIN s.recs \ (C \ L) |-> s.recs[x]],
     closed |-> s.closed \cup Closing(s, C, how)]

Close(s, C, how) == CloseCut(s, C, {}, how)

AtMostOneOf(C) == {{}} \cup {{c} : c \in C}

\* The records of C come in the order of their keys, which may be any.
ClosePrefixes(s, C, how) ==
    {CloseCut(s, A, L, how) : A \in SUBSET C, L \in AtMostOneOf(C)}

\* Defect: the number of attempts is not limited.
can_dispatch_MUT(s, c) == s.recs[c].attempts >= 0

\* mark_dispatching for each record of C, all of which are Accepted and below
\* the attempt limit (the others are refused, see can_dispatch)
can_dispatch(s, c) == s.recs[c].attempts < MaxAttempts

mark_dispatching(s, C) ==
    [s EXCEPT !.recs = [x \in DOMAIN s.recs |->
        IF x \in C THEN [s.recs[x] EXCEPT !.state = "Dispatching", !.attempts = @ + 1]
        ELSE s.recs[x]]]

\* Defects: the record stays Dispatching; a record that is gone is written back.
mark_dispatch_failed_MUT(s, C) == s
mark_dispatch_failed_MUT2(s, C) ==
    [s EXCEPT !.recs = [x \in DOMAIN s.recs \cup C |->
        IF x \in DOMAIN s.recs \ C THEN s.recs[x]
        ELSE NewRecord(CHOOSE d \in Destinations : TRUE, CHOOSE m \in Messages : TRUE,
                       NoIdentity, NoDevice)]]

\* mark_dispatch_failed: no effect on a record that is gone or not Dispatching
mark_dispatch_failed(s, C) ==
    [s EXCEPT !.recs = [x \in DOMAIN s.recs |->
        IF x \in C THEN [s.recs[x] EXCEPT !.state = "Accepted"] ELSE s.recs[x]]]

\* mark_delivered: an error, and no effect, when the record is gone
mark_delivered(s, C) == Close(s, C \cap DOMAIN s.recs, "delivered")

converge_delivered_for_message(s, d, m) == Close(s, RecordsOf(s, d, m), "delivered")
-----------------------------------------------------------------------------
\* The side effects of a registration change on the queue of identity i.
migrate_pending_identity_device(s, C, to) ==
    [s EXCEPT !.recs = [x \in DOMAIN s.recs |->
        IF x \in C THEN [s.recs[x] EXCEPT !.dev = to] ELSE s.recs[x]]]

\* dev = NoDevice: the records of the identity for every device
IdentityRecords(s, i, dev) ==
    {c \in DOMAIN s.recs : s.recs[c].ident = i /\ dev \in {NoDevice, s.recs[c].dev}}

apply_registry_side_effect(s, i, e) ==
    LET C == IdentityRecords(s, i, e.from)
    IN  IF e.kind = "migrate" THEN migrate_pending_identity_device(s, C, e.to)
        ELSE IF e.kind = "purge" THEN Close(s, C, "purged")
        ELSE s

\* ... and what a crash in the middle of it leaves
SideEffectPrefixes(s, i, e) ==
    LET C == IdentityRecords(s, i, e.from)
    IN  IF e.kind = "migrate" THEN {migrate_pending_identity_device(s, A, e.to) : A \in SUBSET C}
        ELSE IF e.kind = "purge" THEN ClosePrefixes(s, C, "purged")
        ELSE {s}
-----------------------------------------------------------------------------
\* Storage pressure.  K is a set of stored ids, elsewhere the bytes the rest of
\* the device uses.  The sum of the records' sizes is the number of their bytes,
\* <<c, n>> being the n-th byte of record c.
BytesStored(s, K) == UNION {{c} \X (1..Bytes[s.recs[c].msg]) : c \in K}
BytesOf(s, K) == Cardinality(BytesStored(s, K))

is_identity_related_record(d) == d = LocalIdentity

\* Defect: age alone decides what is purged.
PurgedBefore_MUT(s, b, c) == b < c

\* purge_oldest_by_policy: what is kept of K once at least need bytes went,
\* others' messages before the relay's own and the oldest first.
PurgedBefore(s, b, c) ==
    LET own(x) == is_identity_related_record(s.recs[x].dest)
    IN  (~own(b) /\ own(c)) \/ (own(b) = own(c) /\ b < c)

purge_oldest_by_policy(s, K, need) ==
    {c \in K : BytesOf(s, {b \in K : PurgedBefore(s, b, c)}) >= need}

\* ... so that the rest of K and extra bytes more fit the quota
PurgeTo(s, K, extra, quota) ==
    purge_oldest_by_policy(s, K, Monus(BytesOf(s, K) + extra, quota))

\* enforce_storage_pressure_internal: what is kept of the used bytes; foreign: a
\* write of a message that is not the relay's own is waiting
enforce_storage_pressure_internal(s, used, other, foreign) ==
    IF foreign /\ emergency_mode(other, used)
    THEN PurgeTo(s, DOMAIN s.recs, 0, hard_ceiling_bytes(other))
    ELSE PurgeTo(s, PurgeTo(s, DOMAIN s.recs, 0, target_quota_bytes(other, used)),
                 0, hard_ceiling_bytes(other))

\* Defect: the write goes on whatever room the purges made.
WriteFits_MUT(size, used, other) == TRUE

\* The last check of enforce_storage_pressure_for_write, after every purge
WriteFits(size, used, other) ==
    /\ used + size <= target_quota_bytes(other, used)
    /\ used + size <= hard_ceiling_bytes(other)

WriteOutcome(s, K, size, other) == [keep |-> K, ok |-> WriteFits(size, BytesOf(s, K), other)]

\* What it does for a write of size bytes once the device is probed again, with
\* the used bytes of K kept so far
MakeRoom(s, K, used, size, other, foreign) ==
    IF foreign /\ emergency_mode(other, used)
    THEN [keep |-> K, ok |-> FALSE]
    ELSE WriteOutcome(s, PurgeTo(s, PurgeTo(s, K, size, target_quota_bytes(other, used)),
                                 size, hard_ceiling_bytes(other)), size, other)

\* enforce_storage_pressure_for_write: what is kept, and whether the write of
\* message m for d may go on
enforce_storage_pressure_for_write(s, elsewhere, d, m) ==
    LET foreign == ~is_identity_related_record(d)
        used == BytesOf(s, DOMAIN s.recs)
        K == enforce_storage_pressure_internal(s, used, from_snapshot(elsewhere, used), foreign)
        left == BytesOf(s, K)
    IN  MakeRoom(s, K, left, Bytes[m], from_snapshot(elsewhere, left), foreign)
=============================================================================
