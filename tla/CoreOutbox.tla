----------------------------- MODULE CoreOutbox -----------------------------
(***************************************************************************)
(* The outbox of IronCore (core/src/store/outbox.rs on its memory backend, *)
(* as IronCore opens it) and the calls of core/src/iron_core.rs that work  *)
(* on it: prepare_message puts a message in, mark_message_sent takes it    *)
(* out when a receipt or the swarm confirms it, handle_peer_connection_    *)
(* event takes out what is due for a peer that has just been identified,   *)
(* hands it to the transport manager and puts it back one by one.  The     *)
(* drift store (core/src/drift/store.rs) takes the messages that are to be *)
(* stored and carried; it is persistent, and evicts over its budget.       *)
(*                                                                         *)
(* Each call on the outbox holds its lock, the flush only around each of   *)
(* its calls.  It runs in the swarm task, so there is one at a time; the   *)
(* others run in the application's tasks.                                  *)
(***************************************************************************)
EXTENDS Integers, FiniteSets

CONSTANTS Msgs, Peers,
          MAX_QUEUE_PER_PEER, MAX_TOTAL_QUEUED,
          MaxQueued,    \* hand-overs before a message is Failed (12)
          MaxErrors,    \* refused hand-overs before it is Failed (3)
          MaxAge,       \* seconds after which perform_maintenance means to drop
          MAX_MESSAGES, \* the budget of the drift store
          Ttl,          \* seconds from created_at to ttl_expiry (604800)
          Instants,     \* bound: the values of the clock, seconds of Unix time
          MaxCrashes    \* bound: restarts

ASSUME OutboxAssumption ==
    /\ {MAX_QUEUE_PER_PEER, MAX_TOTAL_QUEUED, MaxQueued, MaxErrors, MaxAge} \subseteq Nat \ {0}
    /\ {MAX_MESSAGES, Ttl} \subseteq Nat \ {0}
    /\ MaxErrors <= MaxQueued
    /\ Instants \subseteq Nat \ {0} /\ MaxCrashes \in Nat

VARIABLES
    outbox,    \* the messages of all the queues
    total,     \* the count the backend keeps of them
    flush,     \* what the running flush has taken out and not put back
    linked,    \* peers a transport of the transport manager has discovered
    drift,     \* the envelopes in the drift store
    now,       \* the clock, in seconds
    crashes,
    prepared,  \* messages prepared since the start
    confirmed, \* those mark_message_sent was called for
    excused,   \* those that left the outbox for a reason, or never got there: the
               \* peer was linked when prepared, the queue was full, it was drained,
               \* the message was older than MaxAge, or a restart
    evicted,   \* the envelopes the drift store evicted
    raced,     \* those confirmed while the flush had them
    tried      \* when each message was last handed over, and how often in all

vars == <<outbox, total, flush, linked, drift, now, crashes, prepared, confirmed,
          excused, evicted, raced, tried>>

Millis(secs) == 1000 * secs
Ids(S) == {q.id : q \in S}
QueueOf(p) == {q \in outbox : q.to = p}

Never == [at |-> 0, attempts |-> 0]

Init ==
    /\ outbox = {} /\ total = 0 /\ flush = {} /\ linked = {} /\ drift = {}
    /\ now \in Instants /\ (\A t \in Instants : now <= t) /\ crashes = 0
    /\ prepared = {} /\ confirmed = {} /\ excused = {} /\ evicted = {} /\ raced = {}
    /\ tried = [m \in Msgs |-> Never]

\* enqueue is refused when the outbox or the peer's queue is full, and all its
\* callers drop the error.

\* Defect: only the peer's queue is looked at.
Full_MUT(p) == Cardinality(QueueOf(p)) >= MAX_QUEUE_PER_PEER

Full(p) == total >= MAX_TOTAL_QUEUED \/ Cardinality(QueueOf(p)) >= MAX_QUEUE_PER_PEER

enqueue(q) ==
    IF Full(q.to)
    THEN /\ excused' = excused \cup {q.id}
         /\ UNCHANGED <<outbox, total>>
    ELSE /\ outbox' = outbox \cup {q}
         /\ total' = total + 1
         /\ UNCHANGED excused

\* Envelopes differ in their age only: each has priority 128 and no hops.  The
\* score falls with the age, and is 0 from ttl_expiry on.
priority_score(e) == IF now >= e.created_at + Ttl THEN 0 ELSE e.created_at

\* MeshStore::insert with evict_if_over_budget: one of the lowest scores goes, which
\* may be the new envelope's when all are of the same second.
insert(e) ==
    IF Cardinality(drift \cup {e}) <= MAX_MESSAGES
    THEN /\ drift' = drift \cup {e}
         /\ UNCHANGED evicted
    ELSE \E lowest \in drift \cup {e} :
            /\ \A x \in drift \cup {e} : priority_score(lowest) <= priority_score(x)
            /\ drift' = (drift \cup {e}) \ {lowest}
            /\ evicted' = evicted \cup {lowest}

\* prepare_message_internal: a message that is to be stored and carried goes to
\* the drift store, one for a linked peer nowhere, any other one to the outbox.
Prepare(m, p) ==
    /\ m \notin prepared
    /\ prepared' = prepared \cup {m}
    /\ \/ /\ insert([id |-> m, created_at |-> now])
          /\ UNCHANGED <<outbox, total, excused>>
       \/ /\ p \in linked
          /\ excused' = excused \cup {m}
          /\ UNCHANGED <<outbox, total, drift, evicted>>
       \/ /\ p \notin linked
          /\ enqueue([id |-> m, to |-> p, attempts |-> 0, retry |-> 0,
                      state |-> "Enqueued", queued_at |-> Millis(now)])
          /\ UNCHANGED <<drift, evicted>>
    /\ UNCHANGED <<flush, linked, now, crashes, confirmed, raced, tried>>

\* Defect: a message already handed over is left to the flush.
MarkMessageSent_MUT(m) ==
    /\ m \in prepared
    /\ outbox' = {q \in outbox : q.id # m \/ q.attempts > 0}
    /\ total' = Cardinality(outbox')
    /\ drift' = {e \in drift : e.id # m}
    /\ confirmed' = confirmed \cup {m}
    /\ raced' = IF m \in Ids(flush) THEN raced \cup {m} ELSE raced
    /\ UNCHANGED <<flush, linked, now, crashes, prepared, excused, evicted, tried>>

\* mark_message_sent, after a receipt (which may be repeated, or come after a
\* restart) or the swarm's Ok.
MarkMessageSent(m) ==
    /\ m \in prepared
    /\ outbox' = {q \in outbox : q.id # m}
    /\ total' = IF m \in Ids(outbox) THEN total - 1 ELSE total
    /\ drift' = {e \in drift : e.id # m}
    /\ confirmed' = confirmed \cup {m}
    /\ raced' = IF m \in Ids(flush) THEN raced \cup {m} ELSE raced
    /\ UNCHANGED <<flush, linked, now, crashes, prepared, excused, evicted, tried>>

\* Defect: every message that is not Failed is due.
is_due_MUT(q) == TRUE

\* next_retry_at is None (0 here) or in seconds.
is_due(q) == q.retry <= now

\* Defect: the count is not lowered.
FlushPeerMessages_MUT(p) ==
    LET due == {q \in QueueOf(p) : q.state = "Enqueued" /\ is_due(q)}
    IN  /\ flush = {} /\ due # {}
        /\ flush' = due
        /\ outbox' = outbox \ due
        /\ UNCHANGED <<total, linked, drift, now, crashes, prepared, confirmed,
                       excused, evicted, raced, tried>>

\* flush_peer_messages, called when the peer p has been identified.
FlushPeerMessages(p) ==
    LET due == {q \in QueueOf(p) : q.state = "Enqueued" /\ is_due(q)}
    IN  /\ flush = {} /\ due # {}
        /\ flush' = due
        /\ outbox' = outbox \ due
        /\ total' = total - Cardinality(due)
        /\ UNCHANGED <<linked, drift, now, crashes, prepared, confirmed, excused,
                       evicted, raced, tried>>

\* 2^n seconds, at most an hour.
Hour == 3600
two_to(n) == 2^n
receipt_timeout(n) == IF n < 12 /\ two_to(n) \in 1..Hour THEN two_to(n) ELSE Hour

\* What becomes of a message after hand-over number n.
attempted(q, n, failed) ==
    [q EXCEPT !.attempts = n,
              !.state = IF failed THEN "Failed" ELSE "Enqueued",
              !.retry = IF failed THEN 0 ELSE now + receipt_timeout(n)]

\* Defect: a message the transport took is taken for delivered.
put_back_MUT(q, n) ==
    IF q.to \in linked
    THEN UNCHANGED <<outbox, total, excused>>
    ELSE enqueue(attempted(q, n, n >= MaxErrors))

put_back(q, n) ==
    enqueue(attempted(q, n, n >= IF q.to \in linked THEN MaxQueued ELSE MaxErrors))

\* One turn of the loop of handle_peer_connection_event.  send_to_peer queues the
\* message for a linked peer and refuses it for any other one.
FlushOne(q) ==
    /\ q \in flush
    /\ flush' = flush \ {q}
    /\ put_back(q, q.attempts + 1)
    /\ tried' = [tried EXCEPT ![q.id] = [at |-> now, attempts |-> @.attempts + 1]]
    /\ UNCHANGED <<linked, drift, now, crashes, prepared, confirmed, evicted, raced>>

\* drain_for_peer, of block_and_delete_peer and flush_outbox_for_peer.
DrainForPeer(p) ==
    /\ outbox' = outbox \ QueueOf(p)
    /\ total' = total - Cardinality(QueueOf(p))
    /\ excused' = excused \cup Ids(QueueOf(p))
    /\ UNCHANGED <<flush, linked, drift, now, crashes, prepared, confirmed, evicted,
                   raced, tried>>

\* remove_expired of perform_maintenance: the clock is in seconds, queued_at in
\* milliseconds, and the difference saturates at 0.
saturating_sub(a, b) == IF a >= b THEN a - b ELSE 0
expired(q) == saturating_sub(now, q.queued_at) >= MaxAge

\* What it is meant to be.
overdue(q) == Millis(now) - q.queued_at >= Millis(MaxAge)

PerformMaintenance ==
    LET old == {q \in outbox : expired(q)}
    IN  /\ outbox' = outbox \ old
        /\ total' = total - Cardinality(old)
        /\ excused' = excused \cup Ids({q \in old : overdue(q)})
        /\ UNCHANGED <<flush, linked, drift, now, crashes, prepared, confirmed,
                       evicted, raced, tried>>

\* handle_event of the transport manager: PeerDiscovered and PeerDisconnected.
HandleEvent(p) ==
    /\ linked' \in {linked \cup {p}, linked \ {p}}
    /\ UNCHANGED <<outbox, total, flush, drift, now, crashes, prepared, confirmed,
                   excused, evicted, raced, tried>>

Tick ==
    /\ now' \in {t \in Instants : t > now}
    /\ UNCHANGED <<outbox, total, flush, linked, drift, crashes, prepared, confirmed,
                   excused, evicted, raced, tried>>

\* A restart.  The outbox is lost with the memory, the drift store is not.
Crash ==
    /\ crashes < MaxCrashes
    /\ crashes' = crashes + 1
    /\ outbox' = {} /\ total' = 0 /\ flush' = {} /\ linked' = {}
    /\ excused' = excused \cup Ids(outbox \cup flush)
    /\ UNCHANGED <<drift, now, prepared, confirmed, evicted, raced, tried>>

Next ==
    \/ \E m \in Msgs : MarkMessageSent(m) \/ \E p \in Peers : Prepare(m, p)
    \/ \E p \in Peers : FlushPeerMessages(p) \/ DrainForPeer(p) \/ HandleEvent(p)
    \/ \E q \in flush : FlushOne(q)
    \/ PerformMaintenance \/ Tick \/ Crash

Spec == Init /\ [][Next]_vars
-----------------------------------------------------------------------------
Queued == [id : Msgs, to : Peers, attempts : 0..MaxQueued, state : {"Enqueued", "Failed"},
           retry : {0} \cup {t + receipt_timeout(n) : t \in Instants, n \in 1..MaxQueued},
           queued_at : {Millis(t) : t \in Instants}]

Envelopes == [id : Msgs, created_at : Instants]

\* Every variable has its type; no message is handed over more than MaxQueued times.
TypeOK ==
    /\ outbox \subseteq Queued /\ flush \subseteq Queued
    /\ total \in 0..MAX_TOTAL_QUEUED
    /\ linked \subseteq Peers
    /\ drift \subseteq Envelopes /\ evicted \subseteq Envelopes /\ prepared \subseteq Msgs
    /\ confirmed \subseteq Msgs /\ excused \subseteq Msgs /\ raced \subseteq Msgs
    /\ now \in Instants /\ crashes \in 0..MaxCrashes
    /\ tried \in [Msgs -> [at : {0} \cup Instants, attempts : 0..MaxQueued]]

\* The count the memory backend keeps, and the limits rest on, is exact whatever
\* the interleaving of enqueue, remove, flush, drain and maintenance; no message is
\* twice in the outbox and the hands of the flush; no queue exceeds its limit.
TotalExact ==
    /\ total = Cardinality(outbox)
    /\ outbox \cap flush = {}
    /\ \A q1, q2 \in outbox \cup flush : q1.id = q2.id => q1 = q2
    /\ \A p \in Peers : Cardinality(QueueOf(p)) <= MAX_QUEUE_PER_PEER

\* A prepared message that nobody confirmed is in the outbox, in the hands of the
\* flush or in the drift store: being handed to a transport, being refused by one, or
\* having run out of attempts does not lose it ("Transport queuing is not delivery
\* confirmation. Keep the message in the outbox", core/src/iron_core.rs).  The
\* exceptions: the peer was linked when the message was prepared, which is then not
\* queued at all; a full queue refused it; the peer's queue was drained; maintenance
\* removed it MaxAge seconds after it was queued, never sooner; the node restarted
\* with the message in its outbox, which is in memory; or the drift store, being
\* full, evicted it, for envelopes as new as it or newer unless its ttl was over.
NoSilentLoss ==
    /\ prepared \ confirmed \subseteq Ids(outbox \cup flush \cup drift \cup evicted) \cup excused
    /\ \A v \in evicted, e \in drift : v.created_at <= e.created_at \/ now >= v.created_at + Ttl
    /\ Cardinality(drift) <= MAX_MESSAGES

\* A confirmed message is not kept and not handed over again, unless its
\* confirmation came while the flush had it: mark_message_sent then finds nothing
\* to remove, and the flush puts the message back.
ConfirmedLeaves == \A m \in confirmed : m \in Ids(outbox \cup flush \cup drift) => m \in raced

\* Two hand-overs of a message are at least 2^n seconds apart after the n-th, however
\* often the peer is identified in between.
AttemptsSpaced ==
    [][\A m \in Msgs : tried'[m] # tried[m] /\ tried[m].attempts > 0 =>
          now >= tried[m].at + receipt_timeout(tried[m].attempts)]_vars
=============================================================================
