-------------------------- MODULE CoreOutboxProofs --------------------------
(***************************************************************************)
(* Proofs about CoreOutbox, for every set of messages and peers, all limits *)
(* and any number of restarts.                                             *)
(***************************************************************************)
EXTENDS CoreOutbox, FiniteSetTheorems, TLAPS

\* A message as the queues hold it, with any number of attempts.
Retries == {0} \cup {t + receipt_timeout(n) : t \in Instants, n \in Nat}
Stamps == {Millis(t) : t \in Instants}
Row == [id : Msgs, to : Peers, attempts : Nat, state : {"Enqueued", "Failed"},
        retry : Retries, queued_at : Stamps]

Rows == outbox \cup flush

\* The counters: what TotalExact says of them, and that the outbox is finite.
Counts ==
    /\ IsFiniteSet(outbox)
    /\ total = Cardinality(outbox)
    /\ \A p \in Peers : Cardinality(QueueOf(p)) <= MAX_QUEUE_PER_PEER

\* The messages: each of them is once in the outbox or the flush, and was prepared.
Placed ==
    /\ Rows \subseteq Row
    /\ outbox \cap flush = {}
    /\ \A q1, q2 \in Rows : q1.id = q2.id => q1 = q2
    /\ Ids(Rows) \subseteq prepared
    /\ confirmed \subseteq prepared
    /\ prepared \subseteq Msgs
    /\ now \in Instants

\* The distance of hand-overs: a message knows when it was last handed over, and
\* the flush holds only messages that were due when it began.
Spaced ==
    /\ tried \in [Msgs -> [at : {0} \cup Instants, attempts : Nat]]
    /\ \A m \in Msgs \ prepared : tried[m].attempts = 0
    /\ \A q \in Rows :
          /\ q.attempts = tried[q.id].attempts
          /\ q.state = "Enqueued" /\ q.attempts > 0
                => q.retry = tried[q.id].at + receipt_timeout(q.attempts)
    /\ \A q \in flush : q.state = "Enqueued" /\ q.retry <= now

\* The messages nobody confirmed: the first part of NoSilentLoss.
Kept ==
    prepared \ confirmed \subseteq Ids(outbox \cup flush \cup drift \cup evicted) \cup excused

\* The drift store: the other parts, and that no envelope is of the future.
Carried ==
    /\ drift \cup evicted \subseteq Envelopes
    /\ \A e \in drift \cup evicted : e.created_at <= now
    /\ \A v \in evicted, e \in drift : v.created_at <= e.created_at \/ now >= v.created_at + Ttl
    /\ IsFiniteSet(drift)
    /\ Cardinality(drift) <= MAX_MESSAGES

IInv == Counts /\ Placed /\ Spaced /\ Kept /\ Carried /\ ConfirmedLeaves
-----------------------------------------------------------------------------
\* Removing messages from the outbox and lowering the count by their number keeps
\* the counters right (flush_peer_messages, drain_for_peer, remove, remove_expired).
LEMMA RemovalCounts ==
    ASSUME Counts, NEW D, D \subseteq outbox,
           outbox' = outbox \ D, total' = total - Cardinality(D)
    PROVE  Counts'
<1>1. IsFiniteSet(outbox') /\ total' = Cardinality(outbox')
  <2>1. /\ IsFiniteSet(outbox \ D)
        /\ Cardinality(outbox \ D) = Cardinality(outbox) - Cardinality(outbox \cap D)
    BY FS_Difference DEF Counts
  <2>2. outbox \cap D = D
    OBVIOUS
  <2> QED BY <2>1, <2>2, Zenon DEF Counts
<1>2. ASSUME NEW p \in Peers
      PROVE  Cardinality(QueueOf(p)') <= MAX_QUEUE_PER_PEER
  <2>1. IsFiniteSet(QueueOf(p))
    BY FS_Subset DEF Counts, QueueOf
  <2>2. QueueOf(p)' \in SUBSET QueueOf(p)
    BY DEF QueueOf
  <2>3. /\ Cardinality(QueueOf(p)') <= Cardinality(QueueOf(p))
        /\ IsFiniteSet(QueueOf(p)')
    BY <2>1, <2>2, FS_Subset
  <2>4. /\ Cardinality(QueueOf(p)') \in Nat /\ Cardinality(QueueOf(p)) \in Nat
    BY <2>1, <2>3, FS_CardinalityType
  <2> QED BY <2>3, <2>4, OutboxAssumption DEF Counts
<1> QED BY <1>1, <1>2 DEF Counts

\* enqueue keeps the counters right and the limit of every queue, for a message
\* that is not in the outbox.
LEMMA EnqueueCounts ==
    ASSUME Counts, NEW q, q \notin outbox, q.to \in Peers, enqueue(q)
    PROVE  Counts'
<1>1. CASE Full(q.to)
  BY <1>1 DEF enqueue, Counts, QueueOf
<1>2. CASE ~Full(q.to)
  <2>1. outbox' = outbox \cup {q} /\ total' = total + 1
    BY <1>2 DEF enqueue
  <2>2. IsFiniteSet(outbox') /\ total' = Cardinality(outbox')
    BY <2>1, FS_AddElement DEF Counts
  <2>3. ASSUME NEW p \in Peers
        PROVE  Cardinality(QueueOf(p)') <= MAX_QUEUE_PER_PEER
    <3>1. IsFiniteSet(QueueOf(p)) /\ Cardinality(QueueOf(p)) \in Nat
      BY FS_Subset, FS_CardinalityType DEF Counts, QueueOf
    <3>2. CASE p = q.to
      <4>1. QueueOf(p)' = QueueOf(p) \cup {q} /\ q \notin QueueOf(p)
        BY <2>1, <3>2 DEF QueueOf
      <4>2. Cardinality(QueueOf(p)') = Cardinality(QueueOf(p)) + 1
        BY <3>1, <4>1, FS_AddElement, Zenon
      <4>3. ~(Cardinality(QueueOf(p)) >= MAX_QUEUE_PER_PEER)
        BY <1>2, <3>2 DEF Full
      <4> QED BY <3>1, <4>2, <4>3, OutboxAssumption
    <3>3. CASE p # q.to
      <4>1. QueueOf(p)' = QueueOf(p)
        BY <2>1, <3>3 DEF QueueOf
      <4> QED BY <4>1 DEF Counts
    <3> QED BY <3>2, <3>3
  <2> QED BY <2>2, <2>3 DEF Counts
<1> QED BY <1>1, <1>2
\* Taking messages away keeps the rest in place.
LEMMA RemovalPlaced ==
    ASSUME Placed, outbox' \subseteq outbox, flush' \subseteq flush,
           prepared' = prepared, confirmed' \subseteq prepared, now' \in Instants
    PROVE  Placed'
<1>1. Rows' \subseteq Rows
  BY DEF Rows
<1> QED BY <1>1 DEF Placed, Ids

\* enqueue of a message that is neither in the outbox nor in the hands of the flush.
LEMMA EnqueuePlaced ==
    ASSUME Placed, NEW r \in Row, enqueue(r), r.id \in prepared',
           r.id \notin Ids(outbox \cup flush'), flush' \subseteq flush,
           prepared \subseteq prepared', prepared' \subseteq Msgs,
           confirmed' = confirmed, now' = now
    PROVE  Placed'
<1>1. outbox' \subseteq outbox \cup {r}
  BY DEF enqueue
<1>2. \A q \in outbox \cup flush' : q.id # r.id
  BY DEF Ids
<1>3. Rows' \subseteq outbox \cup flush' \cup {r}
  BY <1>1 DEF Rows
<1>4. outbox \cup flush' \subseteq Rows
  BY DEF Rows
<1>5. Rows' \subseteq Row /\ Ids(Rows)' \subseteq prepared'
  BY <1>3, <1>4 DEF Placed, Ids
<1>6. ASSUME NEW q1 \in Rows', NEW q2 \in Rows', q1.id = q2.id
      PROVE  q1 = q2
  BY <1>2, <1>3, <1>4, <1>6 DEF Placed
<1>7. outbox' \cap flush' = {}
  BY <1>1, <1>2 DEF Placed
<1> QED BY <1>5, <1>6, <1>7 DEF Placed

\* The message that the flush puts back is the one it took, with one attempt more.
LEMMA AttemptedRow ==
    ASSUME Placed, NEW q \in Rows, NEW failed \in BOOLEAN
    PROVE  LET r == attempted(q, q.attempts + 1, failed)
           IN  /\ r \in Row
               /\ r.id = q.id /\ r.to = q.to /\ r.attempts = q.attempts + 1
               /\ r.state = "Enqueued" => r.retry = now + receipt_timeout(q.attempts + 1)
<1> DEFINE n == q.attempts + 1
<1>1. q \in Row /\ n \in Nat /\ now \in Instants
  BY DEF Placed, Row
<1>2. now + receipt_timeout(n) \in Retries /\ 0 \in Retries
  BY <1>1 DEF Retries
<1> HIDE DEF n
<1>3. /\ attempted(q, n, failed) \in Row
      /\ attempted(q, n, failed).id = q.id /\ attempted(q, n, failed).to = q.to
      /\ attempted(q, n, failed).attempts = n
      /\ attempted(q, n, failed).state = "Enqueued"
            => attempted(q, n, failed).retry = now + receipt_timeout(n)
  BY <1>1, <1>2, Zenon DEF attempted, Row
<1> QED BY <1>3 DEF n
\* What a row says of its hand-overs stays right where neither the row nor the
\* record of its hand-overs changes.
LEMMA UntriedSpaced ==
    ASSUME Spaced, Placed, Rows' \subseteq Rows, tried' = tried,
           prepared \subseteq prepared', now <= now', flush' \subseteq flush,
           now \in Nat, now' \in Nat, \A q \in flush : q.retry \in Int
    PROVE  Spaced'
BY DEF Spaced

\* The clock and the times of the next attempt are natural numbers.
LEMMA ClockType ==
    ASSUME Placed
    PROVE  now \in Nat /\ \A q \in Rows : q.retry \in Nat
<1>1. ASSUME NEW n \in Nat
      PROVE  receipt_timeout(n) \in Nat
  <2>1. Hour \in Nat
    BY DEF Hour
  <2> QED BY <2>1 DEF receipt_timeout
<1>2. Retries \subseteq Nat
  BY <1>1, OutboxAssumption DEF Retries
<1> QED BY <1>2, OutboxAssumption, Zenon DEF Placed, Row

\* Time passes, and envelopes leave the drift store when they are confirmed.
LEMMA QuietCarried ==
    ASSUME Carried, now \in Instants, drift' \subseteq drift, evicted' = evicted,
           now' \in Instants, now <= now'
    PROVE  Carried'
<1>1. IsFiniteSet(drift') /\ Cardinality(drift') <= Cardinality(drift)
  BY FS_Subset DEF Carried
<1>2. Cardinality(drift') \in Nat /\ Cardinality(drift) \in Nat
  BY <1>1, FS_CardinalityType DEF Carried
<1>3. Cardinality(drift') <= MAX_MESSAGES
  BY <1>1, <1>2, OutboxAssumption DEF Carried
<1>4. now \in Nat /\ now' \in Nat /\ Ttl \in Nat
  BY OutboxAssumption
<1>5. \A e \in drift \cup evicted : e.created_at \in Nat /\ e \in Envelopes
  BY OutboxAssumption DEF Carried, Envelopes
<1>6. \A e \in drift' \cup evicted' : e \in Envelopes /\ e.created_at <= now'
  BY <1>4, <1>5 DEF Carried
<1>7. \A v \in evicted', e \in drift' :
         v.created_at <= e.created_at \/ now' >= v.created_at + Ttl
  BY <1>4, <1>5 DEF Carried
<1> QED BY <1>1, <1>3, <1>6, <1>7, Zenon DEF Carried

\* A score is positive until the ttl is over, and grows with created_at.
LEMMA ScoreOrder ==
    ASSUME now \in Instants, NEW v \in Envelopes, NEW e \in Envelopes,
           priority_score(v) <= priority_score(e)
    PROVE  v.created_at <= e.created_at \/ now >= v.created_at + Ttl
<1>1. /\ v.created_at \in Nat \ {0} /\ e.created_at \in Nat \ {0}
      /\ now \in Nat /\ Ttl \in Nat
  BY OutboxAssumption DEF Envelopes
<1> QED BY <1>1 DEF priority_score

\* MeshStore::insert: the new envelope is kept or evicted, what it evicts has no
\* higher score than what stays, and the store keeps to its budget.
LEMMA InsertCarried ==
    ASSUME Carried, now \in Instants, NEW e \in Envelopes, e.created_at = now,
           insert(e), now' = now
    PROVE  /\ Carried'
           /\ drift' \subseteq drift \cup {e} /\ evicted \subseteq evicted'
           /\ drift \cup {e} \cup evicted \subseteq drift' \cup evicted'
<1> DEFINE all == drift \cup {e}
<1>1. IsFiniteSet(all) /\ Cardinality(all) \in Nat
  BY FS_AddElement, FS_CardinalityType DEF Carried
<1>2. Cardinality(drift) \in Nat /\ Cardinality(all) <= Cardinality(drift) + 1
  <2>1. IsFiniteSet(drift) /\ Cardinality(drift) \in Nat
    BY FS_CardinalityType, Zenon DEF Carried
  <2>2. CASE e \in drift
    <3>1. all = drift
      BY <2>2
    <3>2. Cardinality(all) = Cardinality(drift)
      BY <3>1, Zenon
    <3> QED BY <2>1, <3>2
  <2>3. CASE e \notin drift
    <3>1. Cardinality(all) = Cardinality(drift) + 1
      BY <2>1, <2>3, FS_AddElement, Zenon
    <3> QED BY <2>1, <3>1
  <2> QED BY <2>2, <2>3
<1>3. MAX_MESSAGES \in Nat /\ Cardinality(drift) <= MAX_MESSAGES /\ now \in Nat
  BY OutboxAssumption DEF Carried
<1>4. \A x \in all \cup evicted : x \in Envelopes /\ x.created_at <= now /\ x.created_at \in Nat
  <2>1. \A x \in drift \cup evicted : x \in Envelopes /\ x.created_at <= now
    BY Zenon DEF Carried
  <2>2. \A x \in Envelopes : x.created_at \in Nat
    BY OutboxAssumption DEF Envelopes
  <2> QED BY <1>3, <2>1, <2>2
<1>5. \A v \in evicted, x \in all : v.created_at <= x.created_at \/ now >= v.created_at + Ttl
  BY <1>4 DEF Carried
<1>6. CASE Cardinality(all) <= MAX_MESSAGES
  <2>1. drift' = all /\ evicted' = evicted
    BY <1>6, Zenon DEF insert
  <2> HIDE DEF all
  <2>2. Carried'
    BY <1>1, <1>4, <1>5, <1>6, <2>1, Zenon DEF Carried
  <2> QED BY <2>1, <2>2, Zenon DEF all
<1>7. CASE ~(Cardinality(all) <= MAX_MESSAGES)
  <2>1. PICK lowest \in all :
           /\ \A x \in all : priority_score(lowest) <= priority_score(x)
           /\ drift' = all \ {lowest} /\ evicted' = evicted \cup {lowest}
    BY <1>7, Zenon DEF insert
  <2>2. \A x \in all : lowest.created_at <= x.created_at \/ now >= lowest.created_at + Ttl
    BY <1>4, <2>1, ScoreOrder, Zenon
  <2>3. IsFiniteSet(drift') /\ Cardinality(drift') = Cardinality(all) - 1
    BY <1>1, <2>1, FS_RemoveElement, Zenon
  <2>4. Cardinality(drift') <= MAX_MESSAGES
    BY <1>1, <1>2, <1>3, <2>3
  <2> HIDE DEF all
  <2>5. Carried'
    BY <1>4, <1>5, <2>1, <2>2, <2>3, <2>4, Zenon DEF Carried
  <2> QED BY <2>1, <2>5, Zenon DEF all
<1> QED BY <1>6, <1>7

\* What maintenance takes for expired is: the clock in seconds is below the one in
\* milliseconds.
LEMMA ExpiredOverdue ==
    ASSUME Placed, NEW q \in outbox, expired(q)
    PROVE  overdue(q)
<1>1. q.queued_at \in Stamps /\ now \in Instants
  BY DEF Placed, Rows, Row
<1>2. PICK t \in Instants : q.queued_at = 1000 * t
  BY <1>1 DEF Stamps, Millis
<1>3. now \in Nat /\ t \in Nat /\ MaxAge \in Nat \ {0}
  BY <1>1, OutboxAssumption
<1> QED BY <1>2, <1>3 DEF expired, overdue, saturating_sub, Millis
-----------------------------------------------------------------------------
\* An empty outbox, with nothing prepared, satisfies IInv.
LEMMA InitIInv == Init => IInv
<1> SUFFICES ASSUME Init PROVE IInv
  OBVIOUS
<1>1. Rows = {} /\ Ids(Rows) = {}
  BY DEF Init, Rows, Ids
<1>2. Counts
  <2>1. \A p \in Peers : QueueOf(p) = {}
    BY DEF Init, QueueOf
  <2> QED BY <2>1, FS_EmptySet, OutboxAssumption DEF Init, Counts
<1>3. Placed
  BY <1>1 DEF Init, Placed, Rows
<1>4. Spaced
  BY <1>1 DEF Init, Spaced, Never
<1>5. Carried
  BY FS_EmptySet, OutboxAssumption DEF Init, Carried
<1> QED BY <1>2, <1>3, <1>4, <1>5, Zenon DEF IInv, Init, Kept, ConfirmedLeaves, Ids

\* Prepare: a new message goes to the drift store, nowhere or to the outbox.
LEMMA PrepareIInv ==
    ASSUME IInv, NEW m \in Msgs, NEW p \in Peers, Prepare(m, p)
    PROVE  IInv'
<1> USE DEF IInv
<1> DEFINE q == [id |-> m, to |-> p, attempts |-> 0, retry |-> 0,
                 state |-> "Enqueued", queued_at |-> Millis(now)]
           e == [id |-> m, created_at |-> now]
<1>1. /\ m \notin prepared /\ prepared' = prepared \cup {m}
      /\ flush' = flush /\ now' = now /\ confirmed' = confirmed
      /\ raced' = raced /\ tried' = tried
  BY Zenon DEF Prepare
<1>2. m \notin Ids(Rows) /\ m \notin confirmed
  BY <1>1 DEF Placed
<1>3. CASE outbox' = outbox /\ total' = total
  <2>1. Counts'
    BY <1>3 DEF Counts, QueueOf
  <2>2. Rows' = Rows
    BY <1>1, <1>3 DEF Rows
  <2>3. Placed'
    BY <1>1, <1>3, <2>2 DEF Placed, Ids
  <2>4. Spaced'
    BY <1>1, <2>2, Zenon DEF Spaced
  <2>5. \/ insert(e) /\ excused' = excused
        \/ drift' = drift /\ evicted' = evicted /\ excused' = excused \cup {m}
    <3>1. q.id = m /\ q \notin outbox
      BY <1>2 DEF Rows, Ids
    <3>2. CASE enqueue(q) /\ drift' = drift /\ evicted' = evicted
      <4> HIDE DEF q
      <4> QED BY <1>3, <3>1, <3>2, Zenon DEF enqueue
    <3> QED BY <3>2, Zenon DEF Prepare
  <2>6. Kept' /\ ConfirmedLeaves' /\ Carried'
    <3>1. CASE insert(e) /\ excused' = excused
      <4>1. e \in Envelopes /\ e.id = m /\ e.created_at = now
        BY DEF Envelopes, Placed
      <4> HIDE DEF e, q
      <4>2. /\ Carried'
            /\ drift' \subseteq drift \cup {e} /\ evicted \subseteq evicted'
            /\ drift \cup {e} \cup evicted \subseteq drift' \cup evicted'
        BY <1>1, <3>1, <4>1, InsertCarried, Zenon DEF Placed
      <4>3. Kept'
        BY <1>1, <1>3, <3>1, <4>1, <4>2, Zenon DEF Kept, Ids
      <4>4. ConfirmedLeaves'
        BY <1>1, <1>2, <1>3, <4>1, <4>2, Zenon DEF ConfirmedLeaves, Ids
      <4> QED BY <4>2, <4>3, <4>4
    <3>2. CASE drift' = drift /\ evicted' = evicted /\ excused' = excused \cup {m}
      BY <1>1, <1>3, <3>2, Zenon DEF Kept, Carried, ConfirmedLeaves, Ids
    <3> QED BY <2>5, <3>1, <3>2, Zenon
  <2> QED BY <2>1, <2>3, <2>4, <2>6
<1>4. CASE ~(outbox' = outbox /\ total' = total)
  <2>1. enqueue(q) /\ drift' = drift /\ evicted' = evicted
    BY <1>4, Zenon DEF Prepare
  <2>2. q \in Row
    <3>1. 0 \in Retries /\ Millis(now) \in Stamps
      BY DEF Retries, Stamps, Placed
    <3> QED BY <3>1 DEF Row
  <2>3. q.id = m /\ q.to = p /\ q.attempts = 0
    BY Zenon
  <2> HIDE DEF q
  <2>4. q \notin outbox
    BY <1>2, <2>3, Zenon DEF Rows, Ids
  <2>5. Counts'
    BY <2>1, <2>3, <2>4, EnqueueCounts, Zenon
  <2>6. Placed'
    BY <1>1, <1>2, <2>1, <2>2, <2>3, EnqueuePlaced, Zenon DEF Rows, Placed
  <2>7. outbox' = outbox \cup {q} /\ excused' = excused
    BY <1>4, <2>1 DEF enqueue
  <2>8. Spaced'
    BY <1>1, <2>3, <2>7 DEF Spaced, Rows
  <2>9. Kept' /\ Carried' /\ ConfirmedLeaves'
    BY <1>1, <1>2, <2>1, <2>3, <2>7, Zenon DEF Kept, Carried, ConfirmedLeaves, Ids
  <2> QED BY <2>5, <2>6, <2>8, <2>9
<1> QED BY <1>3, <1>4

\* MarkMessageSent: at most one message is removed, since ids are unique.
LEMMA MarkMessageSentIInv ==
    ASSUME IInv, NEW m \in Msgs, MarkMessageSent(m)
    PROVE  IInv'
<1> USE DEF IInv
<1> DEFINE D == {q \in outbox : q.id = m}
<1>1. /\ m \in prepared /\ outbox' = outbox \ D
      /\ total' = IF m \in Ids(outbox) THEN total - 1 ELSE total
      /\ drift' = {e \in drift : e.id # m} /\ confirmed' = confirmed \cup {m}
      /\ raced' = IF m \in Ids(flush) THEN raced \cup {m} ELSE raced
      /\ flush' = flush /\ now' = now /\ prepared' = prepared
      /\ excused' = excused /\ evicted' = evicted /\ tried' = tried
  BY Zenon DEF MarkMessageSent
<1>2. total' = total - Cardinality(D)
  <2>1. total \in Nat
    BY FS_CardinalityType DEF Counts
  <2>2. CASE m \in Ids(outbox)
    <3>1. PICK q \in outbox : q.id = m
      BY <2>2 DEF Ids
    <3>2. D = {q}
      BY <3>1 DEF Placed, Rows
    <3> QED BY <1>1, <2>2, <3>2, FS_Singleton, Zenon
  <2>3. CASE m \notin Ids(outbox)
    <3>1. D = {}
      BY <2>3 DEF Ids
    <3>2. total' = total
      BY <1>1, <2>3, Zenon
    <3> QED BY <2>1, <3>1, <3>2, FS_EmptySet
  <2> QED BY <2>2, <2>3
<1>3. D \subseteq outbox
  OBVIOUS
<1>4. \A q \in outbox' : q \in outbox /\ q.id # m
  BY <1>1
<1>5. \A q \in outbox : q.id # m => q \in outbox'
  BY <1>1, Zenon
<1> HIDE DEF D
<1>6. Counts'
  BY <1>1, <1>2, <1>3, RemovalCounts
<1>7. Placed'
  BY <1>1, <1>3, RemovalPlaced, Zenon DEF Placed
<1>8. Spaced'
  BY <1>1, <1>4 DEF Spaced, Rows
<1>9. Kept'
  BY <1>1, <1>5, Zenon DEF Kept, Ids
<1>10. ConfirmedLeaves'
  BY <1>1, <1>4, Zenon DEF ConfirmedLeaves, Ids
<1>11. Carried'
  BY <1>1, QuietCarried, ClockType DEF Placed
<1> QED BY <1>6, <1>7, <1>8, <1>9, <1>10, <1>11

\* The messages of D leave the outbox for good, for a reason that excuses them.
LEMMA ExcusedRemoval ==
    ASSUME IInv, NEW D, D \subseteq outbox, outbox' = outbox \ D,
           total' = total - Cardinality(D), excused' = excused \cup Ids(D),
           UNCHANGED <<flush, drift, now, prepared, confirmed, evicted, raced, tried>>
    PROVE  IInv'
<1> USE DEF IInv
<1>1. Counts'
  BY RemovalCounts, Zenon
<1>2. Placed'
  BY RemovalPlaced, Zenon DEF Placed
<1>3. Spaced'
  BY Zenon DEF Spaced, Rows
<1>4. Kept' /\ Carried'
  BY Zenon DEF Kept, Carried, Ids
<1>5. ConfirmedLeaves'
  BY Zenon DEF ConfirmedLeaves, Ids
<1> QED BY <1>1, <1>2, <1>3, <1>4, <1>5

\* FlushPeerMessages: what is due moves from the outbox to the flush.
LEMMA FlushPeerMessagesIInv ==
    ASSUME IInv, NEW p \in Peers, FlushPeerMessages(p)
    PROVE  IInv'
<1> USE DEF IInv
<1> DEFINE D == {q \in QueueOf(p) : q.state = "Enqueued" /\ is_due(q)}
<1>1. /\ flush = {} /\ flush' = D /\ outbox' = outbox \ D
      /\ total' = total - Cardinality(D)
      /\ UNCHANGED <<drift, now, prepared, confirmed, excused, evicted, raced, tried>>
  BY Zenon DEF FlushPeerMessages
<1>2. D \subseteq outbox /\ \A q \in D : q.state = "Enqueued" /\ q.retry <= now
  BY DEF QueueOf, is_due
<1> HIDE DEF D
<1>3. Rows' = Rows
  BY <1>1, <1>2 DEF Rows
<1>4. Counts'
  BY <1>1, <1>2, RemovalCounts, Zenon
<1>5. Placed'
  BY <1>1, <1>3, Zenon DEF Placed, Ids
<1>6. Spaced'
  BY <1>1, <1>2, <1>3, Zenon DEF Spaced
<1>7. Kept' /\ Carried' /\ ConfirmedLeaves'
  BY <1>1, <1>3, Zenon DEF Kept, Carried, ConfirmedLeaves, Rows, Ids
<1> QED BY <1>4, <1>5, <1>6, <1>7

\* FlushOne: the message goes back, with one attempt more, or is refused by a full
\* outbox, which excuses it.
LEMMA FlushOneIInv ==
    ASSUME IInv, NEW q \in flush, FlushOne(q)
    PROVE  IInv'
<1> USE DEF IInv
<1> DEFINE n == q.attempts + 1
           failed == n >= IF q.to \in linked THEN MaxQueued ELSE MaxErrors
           r == attempted(q, n, failed)
<1>1. /\ flush' = flush \ {q} /\ enqueue(r)
      /\ tried' = [tried EXCEPT ![q.id] = [at |-> now, attempts |-> @.attempts + 1]]
      /\ UNCHANGED <<drift, now, prepared, confirmed, evicted, raced>>
  BY Zenon DEF FlushOne, put_back
<1>2. q \in Rows /\ failed \in BOOLEAN
  BY DEF Rows
<1>3. /\ r \in Row /\ r.id = q.id /\ r.to = q.to /\ r.attempts = n
      /\ r.state = "Enqueued" => r.retry = now + receipt_timeout(n)
  BY <1>2, AttemptedRow, Zenon
<1>4. /\ q \in Row /\ q.id \in Msgs /\ q.id \in prepared /\ q.to \in Peers
      /\ q.attempts \in Nat /\ now \in Instants
  BY <1>2 DEF Placed, Row, Ids
<1>5. \A s \in outbox \cup flush' : s \in Rows /\ s.id # q.id
  BY <1>1, <1>2, Zenon DEF Placed, Rows
<1> HIDE DEF failed, r
<1>6. r \notin outbox /\ r.id \notin Ids(outbox \cup flush')
  BY <1>3, <1>5, Zenon DEF Ids
<1>7. Counts'
  BY <1>1, <1>3, <1>4, <1>6, EnqueueCounts, Zenon
<1>8. Placed'
  BY <1>1, <1>3, <1>4, <1>6, EnqueuePlaced, Zenon DEF Placed
<1>9. Rows' \subseteq (outbox \cup flush') \cup {r}
  BY <1>1, Zenon DEF Rows, enqueue
<1>10. Spaced'
  <2>1. /\ tried' \in [Msgs -> [at : {0} \cup Instants, attempts : Nat]]
        /\ tried'[q.id] = [at |-> now, attempts |-> n]
        /\ \A m \in Msgs : m # q.id => tried'[m] = tried[m]
    <3>1. tried[q.id] \in [at : {0} \cup Instants, attempts : Nat] /\ tried[q.id].attempts = q.attempts
      BY <1>2, <1>4, Zenon DEF Spaced
    <3> QED BY <1>1, <1>4, <3>1 DEF Spaced
  <2>2. \A m \in Msgs \ prepared' : tried'[m].attempts = 0
    BY <1>1, <1>4, <2>1, Zenon DEF Spaced
  <2>3. ASSUME NEW s \in Rows'
        PROVE  /\ s.attempts = tried'[s.id].attempts
               /\ s.state = "Enqueued" /\ s.attempts > 0
                     => s.retry = tried'[s.id].at + receipt_timeout(s.attempts)
    <3>1. CASE s = r
      BY <1>3, <2>1, <3>1
    <3>2. CASE s # r
      <4>1. s \in Rows /\ s.id # q.id
        BY <1>5, <1>9, <3>2
      <4>2. s.id \in Msgs
        BY <4>1 DEF Placed, Row
      <4> QED BY <2>1, <4>1, <4>2, Zenon DEF Spaced
    <3> QED BY <3>1, <3>2, Zenon
  <2> QED BY <1>1, <2>1, <2>2, <2>3, Zenon DEF Spaced
<1>11. /\ Ids(outbox \cup flush)' \subseteq Ids(outbox \cup flush)
       /\ Ids(outbox \cup flush) \subseteq Ids(outbox \cup flush)' \cup excused'
       /\ excused \subseteq excused'
  <2>1. CASE outbox' = outbox \cup {r} /\ excused' = excused
    BY <1>1, <1>3, <2>1, Zenon DEF Ids
  <2>2. CASE outbox' = outbox /\ excused' = excused \cup {r.id}
    BY <1>1, <1>3, <2>2, Zenon DEF Ids
  <2> QED BY <1>1, <2>1, <2>2, Zenon DEF enqueue
<1>12. Kept' /\ Carried' /\ ConfirmedLeaves'
  <2> DEFINE held == Ids(outbox \cup flush)
  <2>1. /\ \A x : x \in Ids(outbox \cup flush \cup drift \cup evicted)
                    <=> x \in held \/ x \in Ids(drift \cup evicted)
        /\ \A x : x \in Ids(outbox \cup flush \cup drift \cup evicted)'
                    <=> x \in held' \/ x \in Ids(drift \cup evicted)
    BY <1>1, Zenon DEF Ids
  <2>2. Kept'
    <3> HIDE DEF held
    <3> QED BY <1>1, <1>11, <2>1, Zenon DEF Kept, held
  <2>3. ConfirmedLeaves'
    BY <1>1, <1>11, Zenon DEF ConfirmedLeaves, Ids
  <2> QED BY <1>1, <2>2, <2>3, Zenon DEF Carried
<1> QED BY <1>7, <1>8, <1>10, <1>12

\* Tick: what the flush holds stays due when the clock moves on.
LEMMA TickIInv ==
    ASSUME IInv, Tick
    PROVE  IInv'
<1> USE DEF IInv
<1>1. /\ now' \in Instants /\ now' > now
      /\ UNCHANGED <<outbox, total, flush, drift, prepared, confirmed, excused, evicted,
                     raced, tried>>
  BY DEF Tick
<1>2. now \in Nat /\ now' \in Nat /\ \A q \in Rows : q.retry \in Nat
  BY <1>1, ClockType, OutboxAssumption
<1>3. Counts' /\ Kept' /\ ConfirmedLeaves'
  BY <1>1, Zenon DEF Counts, QueueOf, Kept, ConfirmedLeaves, Ids
<1>4. Placed'
  BY <1>1, RemovalPlaced, Zenon DEF Placed
<1>5. Spaced'
  BY <1>1, <1>2 DEF Spaced, Rows
<1>6. Carried'
  <2>1. now <= now'
    BY <1>1, <1>2
  <2> QED BY <1>1, <2>1, QuietCarried, Zenon DEF Placed
<1> QED BY <1>3, <1>4, <1>5, <1>6, Zenon

\* Crash: the outbox and the flush are lost with the memory, which excuses what
\* they held.
LEMMA CrashIInv ==
    ASSUME IInv, Crash
    PROVE  IInv'
<1> USE DEF IInv
<1>1. /\ outbox' = {} /\ total' = 0 /\ flush' = {}
      /\ excused' = excused \cup Ids(outbox \cup flush)
      /\ UNCHANGED <<drift, now, prepared, confirmed, evicted, raced, tried>>
  BY DEF Crash
<1>2. Rows' = {}
  BY <1>1 DEF Rows
<1>3. Counts'
  <2>1. \A p \in Peers : QueueOf(p)' = {}
    BY <1>1 DEF QueueOf
  <2> QED BY <1>1, <2>1, FS_EmptySet, OutboxAssumption DEF Counts
<1>4. Placed' /\ Spaced'
  BY <1>1, <1>2, Zenon DEF Placed, Spaced, Ids
<1>5. Kept' /\ Carried' /\ ConfirmedLeaves'
  BY <1>1, Zenon DEF Kept, Carried, ConfirmedLeaves, Ids
<1> QED BY <1>3, <1>4, <1>5

\* Steps that change only the links, and stuttering.
LEMMA QuietIInv ==
    ASSUME IInv, UNCHANGED <<outbox, total, flush, drift, now, prepared, confirmed,
                             excused, evicted, raced, tried>>
    PROVE  IInv'
BY Zenon DEF IInv, Counts, Placed, Spaced, Kept, Carried, ConfirmedLeaves, Rows, Ids, QueueOf

\* Every step of the outbox keeps IInv.
LEMMA NextIInv ==
    ASSUME IInv, [Next]_vars
    PROVE  IInv'
<1>1. ASSUME NEW m \in Msgs, MarkMessageSent(m) PROVE IInv'
  BY <1>1, MarkMessageSentIInv
<1>2. ASSUME NEW m \in Msgs, NEW p \in Peers, Prepare(m, p) PROVE IInv'
  BY <1>2, PrepareIInv
<1>3. ASSUME NEW p \in Peers, FlushPeerMessages(p) PROVE IInv'
  BY <1>3, FlushPeerMessagesIInv
<1>4. ASSUME NEW p \in Peers, DrainForPeer(p) PROVE IInv'
  <2>1. QueueOf(p) \subseteq outbox
    BY DEF QueueOf
  <2> QED BY <1>4, <2>1, ExcusedRemoval DEF DrainForPeer
<1>5. ASSUME NEW p \in Peers, HandleEvent(p) PROVE IInv'
  BY <1>5, QuietIInv DEF HandleEvent
<1>6. ASSUME NEW q \in flush, FlushOne(q) PROVE IInv'
  BY <1>6, FlushOneIInv
<1>7. CASE PerformMaintenance
  <2> DEFINE old == {q \in outbox : expired(q)}
  <2>1. old \subseteq outbox
    OBVIOUS
  <2>2. /\ outbox' = outbox \ old /\ total' = total - Cardinality(old)
        /\ excused' = excused \cup Ids({q \in old : overdue(q)})
        /\ UNCHANGED <<flush, drift, now, prepared, confirmed, evicted, raced, tried>>
    BY <1>7, Zenon DEF PerformMaintenance
  <2>3. {q \in old : overdue(q)} = old
    BY ExpiredOverdue, Zenon DEF IInv
  <2> HIDE DEF old
  <2> QED BY <2>1, <2>2, <2>3, ExcusedRemoval, Zenon
<1>8. CASE Tick
  BY <1>8, TickIInv
<1>9. CASE Crash
  BY <1>9, CrashIInv
<1>10. CASE UNCHANGED vars
  BY <1>10, QuietIInv DEF vars
<1> QED
  BY <1>1, <1>2, <1>3, <1>4, <1>5, <1>6, <1>7, <1>8, <1>9, <1>10 DEF Next

\* IInv is an inductive invariant of the outbox.
THEOREM Invariance == Spec => []IInv
<1>1. Init => IInv
  BY InitIInv
<1>2. IInv /\ [Next]_vars => IInv'
  BY NextIInv
<1> QED BY <1>1, <1>2, PTL DEF Spec
-----------------------------------------------------------------------------
\* The count of the memory backend is exact, the limit of every queue holds and no
\* message is twice in the outbox and the flush, for any limits and any number of
\* messages, peers and restarts.
THEOREM CountsExact == Spec => []TotalExact
<1>1. IInv => TotalExact
  BY Zenon DEF IInv, Counts, Placed, Rows, TotalExact
<1> QED BY <1>1, Invariance, PTL

\* Nothing that was prepared is lost but for the reasons NoSilentLoss names, and the
\* drift store evicts only when it is full, and only the oldest or the expired.
THEOREM NothingLost == Spec => []NoSilentLoss
<1>1. IInv => NoSilentLoss
  BY Zenon DEF IInv, Kept, Carried, NoSilentLoss
<1> QED BY <1>1, Invariance, PTL

\* Only a confirmation that raced the flush leaves its message behind.
THEOREM ConfirmedGone == Spec => []ConfirmedLeaves
<1>1. IInv => ConfirmedLeaves
  BY DEF IInv
<1> QED BY <1>1, Invariance, PTL

\* What AttemptsSpaced asks of a step that hands m over.
Far(m) == now >= tried[m].at + receipt_timeout(tried[m].attempts)

\* The flush hands over only what is due, and a message is due when the time of
\* its last hand-over has run out.
LEMMA FlushOneFar ==
    ASSUME IInv, NEW q \in flush, FlushOne(q), NEW m \in Msgs,
           tried'[m] # tried[m], tried[m].attempts > 0
    PROVE  Far(m)
<1>1. /\ q \in Rows /\ q.id \in Msgs /\ q.retry \in Nat /\ now \in Nat
  BY ClockType, Zenon DEF IInv, Placed, Rows, Row
<1>2. m = q.id
  BY <1>1, Zenon DEF FlushOne, IInv, Spaced
<1>3. /\ q.attempts = tried[m].attempts /\ q.state = "Enqueued" /\ q.retry <= now
  BY <1>1, <1>2, Zenon DEF IInv, Spaced
<1>4. q.retry = tried[m].at + receipt_timeout(tried[m].attempts)
  BY <1>1, <1>2, <1>3, Zenon DEF IInv, Spaced
<1> QED BY <1>1, <1>3, <1>4, Zenon DEF Far

\* Two hand-overs of a message are apart by the time-out of the first of them,
\* however often its peer is identified.
THEOREM HandOversSpaced == Spec => AttemptsSpaced
<1>1. ASSUME IInv, [Next]_vars
      PROVE  [\A m \in Msgs : tried'[m] # tried[m] /\ tried[m].attempts > 0 =>
                 now >= tried[m].at + receipt_timeout(tried[m].attempts)]_vars
  <2>1. ASSUME NEW q \in flush, FlushOne(q)
        PROVE  \A m \in Msgs : tried'[m] # tried[m] /\ tried[m].attempts > 0 => Far(m)
    BY <1>1, <2>1, FlushOneFar, Zenon
  <2>2. CASE UNCHANGED tried
    BY <2>2, Zenon
  <2>3. (\E q \in flush : FlushOne(q)) \/ UNCHANGED tried
    BY <1>1, Zenon DEF Next, vars, MarkMessageSent, Prepare, FlushPeerMessages, DrainForPeer,
       HandleEvent, PerformMaintenance, Tick, Crash
  <2> QED BY <2>1, <2>2, <2>3, Zenon DEF Far
<1> QED BY <1>1, Invariance, PTL DEF Spec, AttemptsSpaced
-----------------------------------------------------------------------------
\* A message that may still be handed over has an attempt left.
Unspent == TypeOK /\ \A q \in Rows : q.state = "Enqueued" => q.attempts < MaxQueued

\* enqueue keeps to the limit of the outbox.
LEMMA EnqueueTyped ==
    ASSUME Unspent, NEW q \in Queued, q.state = "Enqueued" => q.attempts < MaxQueued, enqueue(q)
    PROVE  /\ outbox' \subseteq Queued /\ total' \in 0..MAX_TOTAL_QUEUED /\ excused' \subseteq Msgs
           /\ \A r \in outbox' : r.state = "Enqueued" => r.attempts < MaxQueued
<1>1. total \in Nat /\ MAX_TOTAL_QUEUED \in Nat /\ total <= MAX_TOTAL_QUEUED /\ q.id \in Msgs
  BY OutboxAssumption DEF Unspent, TypeOK, Queued
<1>2. CASE Full(q.to)
  BY <1>1, <1>2, Zenon DEF enqueue, Unspent, TypeOK, Rows
<1>3. CASE ~Full(q.to)
  <2>1. total < MAX_TOTAL_QUEUED
    BY <1>1, <1>3 DEF Full
  <2>2. outbox' = outbox \cup {q} /\ total' = total + 1 /\ excused' = excused
    BY <1>3, Zenon DEF enqueue
  <2> QED BY <1>1, <2>1, <2>2 DEF Unspent, TypeOK, Rows
<1> QED BY <1>2, <1>3, Zenon

\* The message handed over for the n-th time fails at the latest when its attempts
\* are used up.
LEMMA AttemptedTyped ==
    ASSUME Unspent, NEW q \in flush, q.state = "Enqueued"
    PROVE  LET n == q.attempts + 1
               r == attempted(q, n, n >= IF q.to \in linked THEN MaxQueued ELSE MaxErrors)
           IN  r \in Queued /\ (r.state = "Enqueued" => r.attempts < MaxQueued)
<1> DEFINE n == q.attempts + 1
           failed == n >= IF q.to \in linked THEN MaxQueued ELSE MaxErrors
           r == attempted(q, n, failed)
<1>1. q \in Queued /\ now \in Instants /\ MaxQueued \in Nat /\ MaxErrors \in Nat /\ MaxErrors <= MaxQueued
  BY OutboxAssumption, Zenon DEF Unspent, TypeOK
<1>2. q.attempts \in Nat /\ q.attempts < MaxQueued
  BY <1>1 DEF Unspent, Rows, Queued
<1>3. n \in 1..MaxQueued /\ n \in 0..MaxQueued
  BY <1>1, <1>2
<1>4. ~failed => n < MaxQueued
  BY <1>1, <1>3
<1>5. failed \in BOOLEAN
  BY <1>1, <1>3
<1> HIDE DEF n, failed
<1>6. r = [q EXCEPT !.attempts = n, !.state = IF failed THEN "Failed" ELSE "Enqueued",
                    !.retry = IF failed THEN 0 ELSE now + receipt_timeout(n)]
  BY DEF attempted
<1> DEFINE back == now + receipt_timeout(n)
           times == {t + receipt_timeout(i) : t \in Instants, i \in 1..MaxQueued}
           stamps == {Millis(t) : t \in Instants}
<1>7. back \in times /\ Queued = [id : Msgs, to : Peers, attempts : 0..MaxQueued, state : {"Enqueued", "Failed"},
                                  retry : {0} \cup times, queued_at : stamps]
  BY <1>1, <1>3 DEF Queued
<1>8. r \in Queued
  <2>1. \/ r = [q EXCEPT !.attempts = n, !.state = "Failed", !.retry = 0]
        \/ r = [q EXCEPT !.attempts = n, !.state = "Enqueued", !.retry = back]
    BY <1>5, <1>6, Zenon
  <2> HIDE DEF r, back, times, stamps
  <2> QED BY <1>1, <1>3, <1>7, <2>1, Zenon
<1>9. r.state = "Enqueued" => r.attempts < MaxQueued
  BY <1>1, <1>4, <1>6 DEF Queued
<1> QED BY <1>8, <1>9, Zenon DEF n, failed

\* Fewer messages, and a lower count.
LEMMA RemovalTyped ==
    ASSUME IInv, IInv', NEW D, D \subseteq outbox, total' = total - Cardinality(D), total \in 0..MAX_TOTAL_QUEUED
    PROVE  total' \in 0..MAX_TOTAL_QUEUED
<1>1. IsFiniteSet(D) /\ Cardinality(D) \in Nat
  BY FS_Subset, FS_CardinalityType, Zenon DEF IInv, Counts
<1>2. total' \in Nat
  BY FS_CardinalityType, Zenon DEF IInv, Counts
<1>3. MAX_TOTAL_QUEUED \in Nat
  BY OutboxAssumption, Zenon
<1> QED BY <1>1, <1>2, <1>3

\* Every step keeps the types and the limits.
LEMMA UnspentNext ==
    ASSUME IInv, IInv', Unspent, [Next]_vars
    PROVE  Unspent'
<1>0. /\ outbox \subseteq Queued /\ flush \subseteq Queued /\ total \in 0..MAX_TOTAL_QUEUED
      /\ linked \subseteq Peers /\ drift \subseteq Envelopes /\ evicted \subseteq Envelopes
      /\ prepared \subseteq Msgs
      /\ confirmed \subseteq Msgs /\ excused \subseteq Msgs /\ raced \subseteq Msgs
      /\ now \in Instants /\ crashes \in 0..MaxCrashes
      /\ tried \in [Msgs -> [at : {0} \cup Instants, attempts : 0..MaxQueued]]
      /\ \A q \in outbox \cup flush : q.state = "Enqueued" => q.attempts < MaxQueued
  BY Zenon DEF Unspent, TypeOK, Rows
<1>1. /\ MaxQueued \in Nat /\ MaxQueued >= 1 /\ MAX_TOTAL_QUEUED \in Nat /\ MaxCrashes \in Nat
  BY OutboxAssumption
<1>2. \A S : S \subseteq Queued => Ids(S) \subseteq Msgs
  BY DEF Ids, Queued
<1>3. ASSUME NEW m \in Msgs, MarkMessageSent(m)
      PROVE  Unspent'
  <2>1. total' \in 0..MAX_TOTAL_QUEUED
    <3>1. total' \in Nat
      BY FS_CardinalityType, Zenon DEF IInv, Counts
    <3> QED BY <1>0, <1>1, <1>3, <3>1 DEF MarkMessageSent
  <2> QED BY <1>0, <1>3, <2>1, Zenon DEF MarkMessageSent, Unspent, TypeOK, Rows
<1>4. ASSUME NEW m \in Msgs, NEW p \in Peers, Prepare(m, p)
      PROVE  Unspent'
  <2> DEFINE q == [id |-> m, to |-> p, attempts |-> 0, retry |-> 0,
                   state |-> "Enqueued", queued_at |-> Millis(now)]
  <2>1. q \in Queued /\ q.attempts < MaxQueued
    BY <1>0, <1>1 DEF Queued
  <2>2. CASE enqueue(q) /\ UNCHANGED <<drift, evicted>>
    <3> HIDE DEF q
    <3>1. /\ outbox' \subseteq Queued /\ total' \in 0..MAX_TOTAL_QUEUED /\ excused' \subseteq Msgs
          /\ \A r \in outbox' : r.state = "Enqueued" => r.attempts < MaxQueued
      BY <2>1, <2>2, EnqueueTyped, Zenon
    <3> QED BY <1>0, <1>4, <2>2, <3>1, Zenon DEF Prepare, Unspent, TypeOK, Rows
  <2>3. CASE UNCHANGED <<outbox, total>> /\ excused' \subseteq Msgs
    <3>1. drift' \subseteq Envelopes /\ evicted' \subseteq Envelopes
      BY Zenon DEF IInv, Carried
    <3> QED BY <1>0, <1>4, <2>3, <3>1, Zenon DEF Prepare, Unspent, TypeOK, Rows
  <2> QED BY <1>0, <1>4, <2>2, <2>3, Zenon DEF Prepare
<1>5. ASSUME NEW p \in Peers, FlushPeerMessages(p)
      PROVE  Unspent'
  <2> DEFINE due == {q \in QueueOf(p) : q.state = "Enqueued" /\ is_due(q)}
  <2>1. due \subseteq outbox /\ total' = total - Cardinality(due)
    BY <1>5, Zenon DEF QueueOf, FlushPeerMessages
  <2>2. /\ flush' = due /\ outbox' = outbox \ due
        /\ UNCHANGED <<linked, drift, now, crashes, prepared, confirmed, excused, evicted,
                       raced, tried>>
    BY <1>5, Zenon DEF FlushPeerMessages
  <2> HIDE DEF due
  <2>3. total' \in 0..MAX_TOTAL_QUEUED
    BY <1>0, <2>1, RemovalTyped, Zenon
  <2> QED BY <1>0, <2>1, <2>2, <2>3, Zenon DEF Unspent, TypeOK, Rows
<1>6. ASSUME NEW D, D \subseteq outbox, outbox' = outbox \ D, total' = total - Cardinality(D),
             excused' = excused \cup Ids(D),
             UNCHANGED <<flush, linked, drift, now, crashes, prepared, confirmed, evicted,
                         raced, tried>>
      PROVE  Unspent'
  <2>1. total' \in 0..MAX_TOTAL_QUEUED
    BY <1>0, <1>6, RemovalTyped, Zenon
  <2>2. Ids(D) \subseteq Msgs
    BY <1>0, <1>2, <1>6, Zenon
  <2> QED BY <1>0, <1>6, <2>1, <2>2, Zenon DEF Unspent, TypeOK, Rows
<1>7. ASSUME NEW q \in flush, FlushOne(q)
      PROVE  Unspent'
  <2> DEFINE n == q.attempts + 1
             r == attempted(q, n, n >= IF q.to \in linked THEN MaxQueued ELSE MaxErrors)
  <2>1. q \in Queued /\ q.state = "Enqueued" /\ q.id \in Msgs /\ tried[q.id].attempts = q.attempts
        /\ q.attempts \in Nat /\ q.attempts < MaxQueued
    BY <1>0, <1>7 DEF IInv, Spaced, Rows, Queued
  <2>2. r \in Queued /\ (r.state = "Enqueued" => r.attempts < MaxQueued)
    BY <1>7, <2>1, AttemptedTyped, Zenon
  <2>3. enqueue(r)
    BY <1>7, Zenon DEF FlushOne, put_back
  <2> HIDE DEF r
  <2>4. /\ outbox' \subseteq Queued /\ total' \in 0..MAX_TOTAL_QUEUED /\ excused' \subseteq Msgs
        /\ \A x \in outbox' : x.state = "Enqueued" => x.attempts < MaxQueued
    BY <2>2, <2>3, EnqueueTyped
  <2>5. tried' \in [Msgs -> [at : {0} \cup Instants, attempts : 0..MaxQueued]]
    <3>1. tried[q.id].attempts + 1 \in 0..MaxQueued
      BY <1>1, <2>1
    <3> QED BY <1>0, <1>7, <2>1, <3>1, Zenon DEF FlushOne
  <2> QED BY <1>0, <1>7, <2>4, <2>5, Zenon DEF FlushOne, Unspent, TypeOK, Rows
<1>8. CASE PerformMaintenance
  <2> DEFINE old == {q \in outbox : expired(q)}
  <2>1. /\ old \subseteq outbox /\ outbox' = outbox \ old /\ total' = total - Cardinality(old)
        /\ excused' = excused \cup Ids({q \in old : overdue(q)})
        /\ UNCHANGED <<flush, linked, drift, now, crashes, prepared, confirmed, evicted,
                       raced, tried>>
    BY <1>8, Zenon DEF PerformMaintenance
  <2>2. {q \in old : overdue(q)} = old
    BY ExpiredOverdue, Zenon DEF IInv
  <2> HIDE DEF old
  <2> QED BY <1>6, <2>1, <2>2, Zenon
<1>9. ASSUME NEW p \in Peers, DrainForPeer(p)
      PROVE  Unspent'
  <2>1. QueueOf(p) \subseteq outbox
    BY DEF QueueOf
  <2> QED BY <1>6, <1>9, <2>1, Zenon DEF DrainForPeer
<1>10. ASSUME NEW p \in Peers, HandleEvent(p)
       PROVE  Unspent'
  BY <1>0, <1>10, Zenon DEF HandleEvent, Unspent, TypeOK, Rows
<1>11. CASE Tick
  BY <1>0, <1>11, Zenon DEF Tick, Unspent, TypeOK, Rows
<1>12. CASE Crash
  <2>1. Ids(outbox \cup flush) \subseteq Msgs
    BY <1>0, <1>2, Zenon
  <2>2. crashes' \in 0..MaxCrashes /\ total' \in 0..MAX_TOTAL_QUEUED
    BY <1>0, <1>1, <1>12 DEF Crash
  <2> QED BY <1>0, <1>12, <2>1, <2>2, Zenon DEF Crash, Unspent, TypeOK, Rows
<1>13. CASE UNCHANGED vars
  BY <1>0, <1>13, Zenon DEF vars, Unspent, TypeOK, Rows
<1> QED BY <1>3, <1>4, <1>5, <1>7, <1>8, <1>9, <1>10, <1>11, <1>12, <1>13, Zenon DEF Next

\* Every variable has its type: the outbox keeps to MAX_TOTAL_QUEUED, and no message
\* is handed over more often than MaxQueued times.
THEOREM OutboxTyping == Spec => []TypeOK
<1>1. Init => Unspent
  BY OutboxAssumption DEF Init, Unspent, TypeOK, Rows, Never
<1>2. IInv /\ IInv' /\ Unspent /\ [Next]_vars => Unspent'
  BY UnspentNext
<1>3. Unspent => TypeOK
  BY DEF Unspent
<1> QED BY <1>1, <1>2, <1>3, Invariance, PTL DEF Spec
=============================================================================
