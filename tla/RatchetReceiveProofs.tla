----------------------- MODULE RatchetReceiveProofs -----------------------
(***************************************************************************)
(* The receiving side of the ratchet sessions: a message is opened once,   *)
(* no key is lost but to the limit of the cache, a message that fails      *)
(* leaves the session alone, and one that is refused was too far along its *)
(* chain.                                                                  *)
(***************************************************************************)
EXTENDS RatchetProofs

\* The receiving side of a session s, given the wire W and what was opened, O.
\* Keys in the cache are of chains before the root key and behind the receiving
\* chain; so are the messages it opened, and their keys are not in the cache;
\* and every position it passed is accounted for.
OpenedOf(W, O, s) == {m \in W : <<s.born, m.id>> \in O}

CacheBehind(W, s) ==
    \A e \in s.skipped :
        /\ Len(e.chain) < Len(s.root)
        /\ \E m \in W : m.dh = e.dh /\ m.key[1] = e.chain
        /\ s.receiving # Nil /\ e.chain = s.receiving.key => e.number < s.receiving.index

OpenedBehind(W, O, s) ==
    \A m \in OpenedOf(W, O, s) :
        /\ Len(m.key[1]) < Len(s.root)
        /\ s.receiving # Nil /\ m.key[1] = s.receiving.key => m.number < s.receiving.index
        /\ \A e \in s.skipped : m.key # <<e.chain, e.number>>

Passed(W, O, s, n) ==
    \/ \E m \in OpenedOf(W, O, s) : m.key = <<s.receiving.key, n>>
    \/ \E e \in s.skipped \cup s.dropped : e.chain = s.receiving.key /\ e.number = n

Accounted(W, O, s) ==
    s.receiving # Nil => \A n \in 0..(s.receiving.index - 1) : Passed(W, O, s, n)

Received(W, O, s) ==
    /\ s.receiving # Nil => Len(s.receiving.key) < Len(s.root)
    /\ CacheBehind(W, s) /\ OpenedBehind(W, O, s) /\ Accounted(W, O, s)

\* The messages of W are as the earlier invariants say.
Orderly(W) ==
    /\ W \subseteq Envelopes /\ Numbered(W)
    /\ \A m \in W : m.key = <<m.key[1], m.number>>
    /\ \A m1, m2 \in W : m1.dh = m2.dh <=> m1.key[1] = m2.key[1]

\* The lengths of root keys are numbers.
LEMMA Lengths ==
    /\ \A r \in Roots : Len(r) \in Nat
    /\ \A m \in Envelopes : m.key[1] \in Roots /\ m.number \in Nat
    /\ \A s \in Sessions : s.root \in Roots /\ s.skipped \subseteq SkippedKeys
    /\ \A e \in SkippedKeys : e.chain \in Roots /\ e.number \in Nat
<1>1. \A m \in Envelopes : m.key[1] \in Roots /\ m.number \in Nat
  BY DEF Envelopes
<1>2. \A s \in Sessions : s.root \in Roots /\ s.skipped \subseteq SkippedKeys
  BY DEF Sessions
<1>3. \A e \in SkippedKeys : e.chain \in Roots /\ e.number \in Nat
  BY DEF SkippedKeys
<1> QED BY <1>1, <1>2, <1>3

\* Opening m adds m to what the session opened.
LEMMA OpenedMore ==
    ASSUME NEW W, Numbered(W), NEW O, NEW m \in W, NEW s, NEW t, t.born = s.born
    PROVE  OpenedOf(W, O \cup {<<t.born, m.id>>}, t) = OpenedOf(W, O, s) \cup {m}
BY DEF OpenedOf, Numbered

\* A message opened with a cached key was not opened before, and the cache does
\* not have its key any more.
LEMMA CacheReceived ==
    ASSUME NEW W, Orderly(W), NEW O, NEW m \in W, NEW s \in Sessions, NEW t \in Sessions,
           Received(W, O, s), FromCache(s, t, m)
    PROVE  <<t.born, m.id>> \notin O /\ Received(W, O \cup {<<t.born, m.id>>}, t)
<1> DEFINE O2 == O \cup {<<t.born, m.id>>}
           C == cached(s, m)
<1>1. PICK e0 \in C : m.key = <<e0.chain, m.number>>
  BY DEF FromCache
<1>2. /\ t.skipped = s.skipped \ C /\ t.root = s.root /\ t.receiving = s.receiving
      /\ t.dropped = s.dropped /\ t.born = s.born
  BY DEF FromCache
<1>3. e0 \in s.skipped /\ e0.dh = m.dh /\ e0.number = m.number
  BY DEF cached
<1>4. OpenedOf(W, O2, t) = OpenedOf(W, O, s) \cup {m}
  BY <1>2, OpenedMore DEF Orderly
<1>5. <<t.born, m.id>> \notin O
  BY <1>1, <1>3, <1>2 DEF Received, OpenedBehind, OpenedOf
<1>6. ASSUME NEW e \in s.skipped, e.dh = m.dh
      PROVE  e.chain = m.key[1]
  BY <1>6 DEF Received, CacheBehind, Orderly
<1>7. ASSUME NEW e \in s.skipped, e.chain = m.key[1]
      PROVE  e.dh = m.dh
  BY <1>7 DEF Received, CacheBehind, Orderly
<1>8. CacheBehind(W, t)
  BY <1>2, Zenon DEF Received, CacheBehind
<1>9. OpenedBehind(W, O2, t)
  <2>1. ASSUME NEW x \in OpenedOf(W, O, s)
        PROVE  /\ Len(x.key[1]) < Len(t.root)
               /\ t.receiving # Nil /\ x.key[1] = t.receiving.key => x.number < t.receiving.index
               /\ \A e \in t.skipped : x.key # <<e.chain, e.number>>
    BY <1>2, Zenon DEF Received, OpenedBehind
  <2>2. m.key[1] = e0.chain
    BY <1>1
  <2>3. Len(m.key[1]) < Len(t.root)
    BY <1>2, <1>3, <2>2 DEF Received, CacheBehind
  <2>4. t.receiving # Nil /\ m.key[1] = t.receiving.key => m.number < t.receiving.index
    BY <1>2, <1>3, <2>2, Zenon DEF Received, CacheBehind
  <2>5. ASSUME NEW e \in t.skipped, m.key = <<e.chain, e.number>>
        PROVE  FALSE
    BY <1>1, <1>2, <2>5, <1>7 DEF cached
  <2> HIDE DEF O2
  <2> QED BY <1>4, <2>1, <2>3, <2>4, <2>5, Zenon DEF OpenedBehind
<1>10. Accounted(W, O2, t)
  <2>1. ASSUME t.receiving # Nil, NEW n \in 0..(t.receiving.index - 1)
        PROVE  Passed(W, O2, t, n)
    <3>1. Passed(W, O, s, n)
      BY <1>2, <2>1 DEF Received, Accounted
    <3>2. CASE \E x \in OpenedOf(W, O, s) : x.key = <<s.receiving.key, n>>
      BY <1>2, <1>4, <3>2, Zenon DEF Passed
    <3>3. ASSUME NEW e \in s.skipped \cup s.dropped, e.chain = s.receiving.key, e.number = n
          PROVE  Passed(W, O2, t, n)
      <4>1. CASE e \in t.skipped \cup t.dropped
        BY <1>2, <3>3, <4>1 DEF Passed
      <4>2. CASE e \in C
        <5>1. e \in s.skipped /\ e.dh = m.dh /\ e.number = m.number
          BY <4>2 DEF cached
        <5>2. m.key = <<t.receiving.key, n>>
          BY <1>1, <1>2, <1>6, <3>3, <5>1
        <5> QED BY <1>4, <5>2, Zenon DEF Passed
      <4> QED BY <1>2, <4>1, <4>2
    <3> QED BY <3>1, <3>2, <3>3, Zenon DEF Passed
  <2> QED BY <2>1, Zenon DEF Accounted
<1> QED BY <1>2, <1>5, <1>8, <1>9, <1>10 DEF Received

\* A message opened in the receiving chain was not opened before; the keys it
\* passes go to the cache or are evicted.
LEMMA ChainReceived ==
    ASSUME NEW W, Orderly(W), NEW O, NEW m \in W, NEW s \in Sessions, NEW t \in Sessions,
           Received(W, O, s), FromChain(s, t, m)
    PROVE  <<t.born, m.id>> \notin O /\ Received(W, O \cup {<<t.born, m.id>>}, t)
<1> DEFINE O2 == O \cup {<<t.born, m.id>>}
           n == m.number
           a == s.receiving.index
           r == s.receiving.key
           new == KeysBetween(s.their_dh, r, a, n)
<1>1. /\ s.receiving # Nil /\ a <= n /\ s.their_dh = m.dh /\ m.key = <<r, n>>
      /\ t.receiving = [key |-> r, index |-> n + 1] /\ t.root = s.root /\ t.born = s.born
      /\ t.skipped \in Kept(s.skipped, new)
      /\ t.dropped = s.dropped \cup ((s.skipped \cup new) \ t.skipped)
  BY Zenon DEF FromChain, InChain
<1>2. a \in Nat /\ n \in Nat
  BY <1>1, Lengths, Zenon DEF Sessions, Chains, Orderly
<1>3. t.skipped \subseteq s.skipped \cup new
  BY <1>1, Zenon DEF Kept
<1>4. \A e \in new : e.dh = m.dh /\ e.chain = r /\ e.number \in a..(n - 1)
  BY <1>1 DEF KeysBetween
<1>5. \A i \in a..(n - 1) : \E e \in new : e.chain = r /\ e.number = i
  <2> TAKE i \in a..(n - 1)
  <2>1. [dh |-> s.their_dh, number |-> i, chain |-> r] \in new
    BY Zenon DEF KeysBetween
  <2> QED BY <2>1
<1>6. t.receiving.key = r /\ t.receiving.index = n + 1
  BY <1>1
<1>7. m.key[1] = r /\ m.key[2] = n /\ \A x \in W : x.number \in Nat
  BY <1>1, Lengths DEF Orderly
<1>8. \A e \in s.skipped : e.number \in Nat
  BY Lengths, Zenon
<1>9. OpenedOf(W, O2, t) = OpenedOf(W, O, s) \cup {m}
  BY <1>1, OpenedMore DEF Orderly
<1> HIDE DEF new, O2, n, a, r
<1>10. \A e \in s.skipped : e.chain = r => e.number < a
  BY <1>1, Zenon DEF Received, CacheBehind, r, a
<1>11. \A x \in OpenedOf(W, O, s) : x.key[1] = r => x.number < a
  BY <1>1, Zenon DEF Received, OpenedBehind, r, a
<1>12. Len(r) < Len(s.root)
  BY <1>1, Zenon DEF Received, r
<1>13. <<t.born, m.id>> \notin O
  BY <1>1, <1>2, <1>11 DEF n, OpenedOf
<1>14. CacheBehind(W, t)
  BY <1>1, <1>2, <1>8, <1>10, <1>4, <1>7, <1>12, <1>3, <1>6 DEF Received, CacheBehind
<1>15. OpenedBehind(W, O2, t)
  <2>1. ASSUME NEW x \in OpenedOf(W, O, s)
        PROVE  /\ Len(x.key[1]) < Len(s.root)
               /\ x.key[1] = r => x.number < n + 1
               /\ \A e \in t.skipped : x.key # <<e.chain, e.number>>
    <3>1. x \in W /\ x.key = <<x.key[1], x.number>> /\ x.number \in Nat
      BY <1>7, Zenon DEF OpenedOf, Orderly
    <3>2. Len(x.key[1]) < Len(s.root) /\ \A e \in s.skipped : x.key # <<e.chain, e.number>>
      BY Zenon DEF Received, OpenedBehind
    <3>3. ASSUME NEW e \in new, x.key = <<e.chain, e.number>>
          PROVE  FALSE
      BY <1>4, <3>1, <3>3, <1>2, <1>11
    <3> QED BY <1>1, <1>2, <1>3, <1>11, <3>1, <3>2, <3>3
  <2>2. ASSUME NEW e \in t.skipped, m.key = <<e.chain, e.number>>
        PROVE  FALSE
    BY <1>1, <2>2, <1>2, <1>10, <1>4, <1>3
  <2>3. Len(m.key[1]) < Len(s.root) /\ n < n + 1 /\ m.number = n
    BY <1>7, <1>12 DEF n
  <2> QED BY <1>1, <1>9, <2>1, <2>2, <2>3 DEF OpenedBehind
<1>16. Accounted(W, O2, t)
  <2>1. s.skipped \cup s.dropped \cup new \subseteq t.skipped \cup t.dropped
    BY <1>1, Zenon
  <2>2. ASSUME NEW j \in 0..((n + 1) - 1)
        PROVE  Passed(W, O2, t, j)
    <3>1. CASE j < a
      <4>1. Passed(W, O, s, j)
        BY <1>1, <1>2, <3>1 DEF Received, Accounted, a
      <4> QED BY <1>6, <1>9, <2>1, <4>1, Zenon DEF Passed, r
    <3>2. CASE j >= a /\ j < n
      <4>1. PICK e \in new : e.chain = r /\ e.number = j
        BY <1>2, <1>5, <3>2
      <4> QED BY <1>6, <2>1, <4>1, Zenon DEF Passed
    <3>3. CASE j = n
      BY <1>1, <1>9, <3>3 DEF Passed
    <3> QED BY <1>2, <3>1, <3>2, <3>3
  <2> QED BY <1>6, <2>2 DEF Accounted
<1>17. t.receiving # Nil => Len(t.receiving.key) < Len(t.root)
  BY <1>1, <1>12
<1> QED BY <1>13, <1>14, <1>15, <1>16, <1>17 DEF Received, O2

\* A Diffie-Hellman step starts a chain that is longer than all before it.
LEMMA RatchetReceived ==
    ASSUME NEW W, Orderly(W), NEW O, NEW s \in Sessions, NEW b \in Sessions, NEW dh, NEW k,
           Received(W, O, s), Ratcheted(s, b, dh, k)
    PROVE  Received(W, O, b)
<1>1. /\ Len(b.receiving.key) = Len(s.root) + 1 /\ Len(b.root) = Len(s.root) + 2
      /\ b.skipped = s.skipped /\ b.dropped = s.dropped /\ b.born = s.born
      /\ b.receiving # Nil => b.receiving.index = 0
  BY Zenon DEF Ratcheted
<1>2. Len(s.root) \in Nat
  OBVIOUS
<1>3. CacheBehind(W, b)
  BY <1>1 DEF Received, CacheBehind
<1>4. OpenedBehind(W, O, b)
  BY Lengths, <1>1, <1>2 DEF Received, OpenedBehind, OpenedOf, Orderly
<1>5. Accounted(W, O, b)
  BY <1>1 DEF Accounted
<1> QED BY <1>1, <1>3, <1>4, <1>5 DEF Received

\* Whatever the way: a message that opens was not opened before.
LEMMA OpensReceived ==
    ASSUME NEW W, Orderly(W), NEW O, NEW m \in W, NEW s \in Sessions, NEW t \in Sessions,
           NEW k, Received(W, O, s), Opens(s, t, m, k)
    PROVE  <<t.born, m.id>> \notin O /\ Received(W, O \cup {<<t.born, m.id>>}, t)
<1>1. CASE FromCache(s, t, m)
  BY <1>1, CacheReceived, Zenon
<1>2. CASE FromChain(s, t, m)
  BY <1>2, ChainReceived
<1>3. CASE FromRatchet(s, t, m, k)
  <2>1. PICK b \in Sessions : /\ Ratcheted(s, b, m.dh, k) /\ InChain(b, t, m.number)
                              /\ m.key = <<b.receiving.key, m.number>>
    BY <1>3, Zenon DEF FromRatchet
  <2>2. Received(W, O, b)
    BY <2>1, RatchetReceived, Zenon
  <2>3. FromChain(b, t, m)
    BY <2>1, Zenon DEF FromChain, Ratcheted
  <2> QED BY <2>2, <2>3, ChainReceived, Zenon
<1> QED BY <1>1, <1>2, <1>3, Zenon DEF Opens

\* A session that was just made has opened nothing.
LEMMA BlankReceived ==
    ASSUME NEW W, NEW O, NEW s, NEW k, Blank(s, k), \A o \in O : o[1] # k
    PROVE  Received(W, O, s)
<1>1. s.receiving = Nil /\ s.skipped = {} /\ s.born = k
  BY DEF Blank
<1>2. OpenedOf(W, O, s) = {}
  BY <1>1 DEF OpenedOf
<1> QED BY <1>1, <1>2, Zenon DEF Received, CacheBehind, OpenedBehind, Accounted

-----------------------------------------------------------------------------
\* The receiving side of every session is in order, and nothing was opened twice.
AllReceived ==
    /\ OpenedOnce
    /\ \A p \in Parties, c \in Slots :
          sessions[p][c] # Nil => Received(wire, opened, sessions[p][c])

\* The messages on the wire are in order.
LEMMA OrderlyWire ==
    ASSUME Typed, Dated, Distinct
    PROVE  Orderly(wire)
<1>1. \A m \in wire : m.key \in Roots \X Nat /\ m.key[2] = m.number
  BY Zenon DEF Typed, TypeOK, Envelopes, Dated, DatedMessage
<1>2. \A m \in wire : m.key = <<m.key[1], m.number>>
  BY <1>1
<1> QED BY <1>2, Zenon DEF Orderly, Typed, TypeOK, Dated, Distinct

\* What a session received depends on its receiving side alone.
LEMMA ReceivedSame ==
    ASSUME NEW W, NEW O, NEW s, NEW W2, NEW O2, NEW t, Received(W, O, s), W \subseteq W2,
           OpenedOf(W2, O2, t) = OpenedOf(W, O, s),
           t.root = s.root, t.receiving = s.receiving, t.skipped = s.skipped,
           t.dropped = s.dropped
    PROVE  Received(W2, O2, t)
<1>1. CacheBehind(W2, t)
  BY Zenon DEF Received, CacheBehind
<1>2. OpenedBehind(W2, O2, t)
  BY Zenon DEF Received, OpenedBehind
<1>3. Accounted(W2, O2, t)
  BY ZenonT(30) DEF Received, Accounted, Passed
<1> QED BY <1>1, <1>2, <1>3, Zenon DEF Received

\* The arrival of a message keeps every receiving side in order.
LEMMA ReceivedArrives ==
    ASSUME Typed, Typed', Dated, Distinct, AllReceived,
           NEW p \in Parties, NEW m \in wire, Arrives(p, m)
    PROVE  AllReceived'
<1>0. TypeOK /\ "id" \in Slots /\ wire' = wire /\ m \in Envelopes
      /\ sessions[p]["id"] \in Sessions \cup {Nil} /\ Orderly(wire)
  BY OrderlyWire DEF Slots, Arrives, Typed, TypeOK
<1>1. ASSUME NEW s, NEW t, Opening(p, m, s, t)
      PROVE  AllReceived'
  <2> DEFINE o == <<t.born, m.id>>
  <2>1. Placed(p, "id", t) /\ Outgoing(p, sessions[p]["id"], t)
    BY <1>1, OpeningOutgoing, Zenon
  <2>2. s \in Sessions /\ t \in Sessions /\ (s = sessions[p]["id"] \/ Rebuilt(p, m, s))
        /\ Opens(s, t, m, next_dh(p, s)) /\ open(p, t, m)
    BY <1>1, Zenon DEF Opening
  <2>3. opened' = opened \cup {o} /\ reopened' = reopened \cup ({o} \cap opened)
    BY <2>2, Zenon DEF open
  <2>4. Received(wire, opened, s)
    BY <1>0, <2>2, RatchetAssumption, NewReceiver, FreshKey, BlankReceived DEF AllReceived, Rebuilt,
       Known, Dated
  <2>5. o \notin opened /\ Received(wire, opened \cup {o}, t)
    BY <1>0, <2>2, <2>4, OpensReceived, Zenon
  <2>6. OpenedOnce'
    BY <2>3, <2>5, Zenon DEF AllReceived, OpenedOnce
  <2>7. t # Nil
    BY <2>2, RatchetAssumption
  <2>8. Alone(sessions, p, "id", t)
    BY <1>0, <2>1, <2>7, OutgoingAlone, Zenon
  <2> HIDE DEF o
  <2>9. ASSUME NEW q \in Parties, NEW d \in Slots, sessions'[q][d] # Nil
        PROVE  Received(wire', opened', sessions'[q][d])
    <3>1. CASE <<q, d>> = <<p, "id">>
      BY <1>0, <2>1, <2>3, <2>5, <3>1, Zenon DEF Placed
    <3>2. CASE <<q, d>> # <<p, "id">>
      <4>1. PICK u : u = sessions[q][d] /\ u = sessions'[q][d]
        BY <2>1, <3>2, Zenon DEF Placed
      <4>2. Received(wire, opened, u) /\ t.born # u.born
        BY <2>8, <2>9, <3>2, <4>1, Zenon DEF AllReceived, Alone, Apart
      <4>3. OpenedOf(wire, opened', u) = OpenedOf(wire, opened, u)
        BY <2>3, <4>2, Zenon DEF OpenedOf, o
      <4> QED BY <1>0, <4>1, <4>2, <4>3, ReceivedSame, Zenon
    <3> QED BY <3>1, <3>2, Zenon
  <2> QED BY <2>6, <2>9, Zenon DEF AllReceived
<1>2. ASSUME NEW t, Refusing(p, m, t)
      PROVE  AllReceived'
  <2>1. Placed(p, "id", t)
    BY <1>2, RefusingOutgoing, Zenon
  <2>2. opened' = opened /\ reopened' = reopened
    BY <1>2, Zenon DEF Refusing
  <2>3. t # Nil => Received(wire, opened, t)
    <3>1. CASE Rebuilt(p, m, t)
      BY <1>0, <3>1, NewReceiver, FreshKey, BlankReceived DEF Rebuilt, Known, Dated
    <3>2. CASE sessions[p]["id"] # Nil /\ t = with_pq_fields(sessions[p]["id"], m)
      <4>1. PICK s : s = sessions[p]["id"]
        BY Zenon
      <4>2. s \in Sessions /\ Same(s, t) /\ Received(wire, opened, s)
        BY <1>0, <3>2, <4>1, PqFieldsType, Zenon DEF AllReceived
      <4>3. OpenedOf(wire, opened, t) = OpenedOf(wire, opened, s)
        BY <4>2, Zenon DEF Same, OpenedOf
      <4> QED BY <4>2, <4>3, ReceivedSame, Zenon DEF Same
    <3> QED BY <1>2, <3>1, <3>2, Zenon DEF Refusing
  <2>4. ASSUME NEW q \in Parties, NEW d \in Slots, sessions'[q][d] # Nil
        PROVE  Received(wire', opened', sessions'[q][d])
    BY <1>0, <2>1, <2>2, <2>3, <2>4, Zenon DEF Placed, AllReceived
  <2> QED BY <2>2, <2>4, Zenon DEF AllReceived, OpenedOnce
<1> QED BY <1>1, <1>2, Zenon DEF Arrives, Arrival

\* A new message on the wire was opened by nobody.
LEMMA OpenedSame ==
    ASSUME Typed, Dated, NEW m, m.id = Cardinality(wire), NEW s, NEW t, t.born = s.born
    PROVE  OpenedOf(wire \cup {m}, opened, t) = OpenedOf(wire, opened, s)
<1>1. \A x \in wire : x.id \in Nat /\ x.id < Cardinality(wire)
  BY Zenon DEF Typed, TypeOK, Envelopes, Dated, Numbered
<1>2. \A o \in opened : o[2] \in {x.id : x \in wire}
  BY Zenon DEF Typed, TypeOK
<1>3. <<t.born, m.id>> \notin opened
  BY <1>1, <1>2
<1> QED BY <1>3 DEF OpenedOf

\* So does the sending of one.
LEMMA ReceivedSends ==
    ASSUME Typed, Typed', Dated, Distinct, AllReceived,
           NEW p \in Parties, NEW c \in Slots, Sends(p, c)
    PROVE  AllReceived'
<1>1. PICK s, t, m : Sending(p, c, s, t, m)
  BY Zenon DEF Sends
<1>2. /\ Placed(p, c, t) /\ s # Nil
      /\ \/ s = sessions[p][c]
         \/ ~KnownBy(keys, s.born) /\ Blank(s, s.born)
  BY <1>1, SenderFacts, Zenon
<1>3. /\ Advanced(s, t) /\ m.id = Cardinality(wire) /\ wire' = wire \cup {m}
      /\ opened' = opened /\ reopened' = reopened
  BY <1>1, Zenon DEF Sending, Sends
<1>4. Received(wire, opened, s)
  BY <1>2, BlankReceived DEF AllReceived, Dated
<1>5. t.root = s.root /\ t.receiving = s.receiving /\ t.skipped = s.skipped
      /\ t.dropped = s.dropped /\ t.born = s.born
  BY <1>3, Zenon DEF Advanced
<1>6. Received(wire', opened', t)
  BY <1>3, <1>5, OpenedSame, <1>4, ReceivedSame
<1>7. ASSUME NEW q \in Parties, NEW d \in Slots, sessions'[q][d] # Nil
      PROVE  Received(wire', opened', sessions'[q][d])
  <2>1. CASE <<q, d>> = <<p, c>>
    BY <1>2, <1>6, <2>1, Zenon DEF Placed
  <2>2. CASE <<q, d>> # <<p, c>>
    <3>1. PICK u : u = sessions[q][d] /\ u = sessions'[q][d]
      BY <1>2, <2>2, Zenon DEF Placed
    <3>2. Received(wire, opened, u)
      BY <1>7, <3>1, Zenon DEF AllReceived
    <3>3. OpenedOf(wire', opened', u) = OpenedOf(wire, opened, u)
      BY <1>3, OpenedSame
    <3> QED BY <1>3, <3>1, <3>2, <3>3, ReceivedSame, Zenon
  <2> QED BY <2>1, <2>2, Zenon
<1> QED BY <1>3, <1>7, Zenon DEF AllReceived, OpenedOnce

\* AllReceived is inductive.
LEMMA ReceivedAlways == Spec => []AllReceived
<1>1. Init => AllReceived
  BY DEF Init, AllReceived, OpenedOnce
<1>2. ASSUME Typed, AllReceived, Drops
      PROVE  AllReceived'
  BY <1>2 DEF Drops, AllReceived, OpenedOnce
<1>3. Typed /\ Typed' /\ Dated /\ Distinct /\ AllReceived /\ [Next]_vars => AllReceived'
  BY <1>2, NextKinds, ReceivedArrives, ReceivedSends
<1> QED BY <1>1, <1>3, TypedAlways, DistinctAlways, PTL DEF Spec

\* A session opens a message once, in whatever order copies arrive (decrypt takes
\* the key out of the cache, and never goes back along a chain).
THEOREM OpenedOnlyOnce == Spec => []OpenedOnce
<1>1. AllReceived => OpenedOnce
  BY DEF AllReceived
<1> QED BY <1>1, ReceivedAlways, PTL

\* Every position that a receiving chain passed is accounted for: its message was
\* opened, its key is in the cache, or the full cache evicted it (get_message_key).
THEOREM NoKeyLost == Spec => []KeysAccounted
<1>1. AllReceived => KeysAccounted
  <2> SUFFICES ASSUME AllReceived, NEW s \in Live, s.receiving # Nil,
                      NEW n \in 0..(s.receiving.index - 1)
               PROVE  \/ \E m \in OpenedBy(s) : m.key = <<s.receiving.key, n>>
                      \/ \E e \in s.skipped : e.chain = s.receiving.key /\ e.number = n
                      \/ \E e \in s.dropped : e.chain = s.receiving.key /\ e.number = n
    BY Zenon DEF KeysAccounted
  <2>1. Received(wire, opened, s)
    BY DEF Live, AllReceived
  <2>2. Passed(wire, opened, s, n)
    BY <2>1, Zenon DEF Received, Accounted
  <2>3. OpenedOf(wire, opened, s) = OpenedBy(s)
    BY Zenon DEF OpenedOf, OpenedBy
  <2> QED BY <2>2, <2>3, Zenon DEF Passed
<1> QED BY <1>1, ReceivedAlways, PTL

\* A session that lives on moves only in a step that sends or opens a message.
LEMMA MovesOnSuccess ==
    ASSUME Typed, Typed', Dated, Distinct, AllReceived, AllReceived', [Next]_vars,
           NEW p \in Parties, NEW c \in Slots, sessions[p][c] # Nil, sessions'[p][c] # Nil,
           sessions[p][c].born = sessions'[p][c].born,
           Moves(sessions[p][c], sessions'[p][c])
    PROVE  opened' # opened \/ wire' # wire
<1>0. sessions'[p][c] # sessions[p][c]
  BY Zenon DEF Moves
<1>1. CASE Drops
  BY <1>0, <1>1, Zenon DEF Drops
<1>2. ASSUME NEW q \in Parties, NEW d \in Slots, Sends(q, d)
      PROVE  wire' # wire
  <2>1. PICK s, t, m : Sending(q, d, s, t, m)
    BY <1>2, Zenon DEF Sends
  <2>2. m.id = Cardinality(wire) /\ wire' = wire \cup {m}
    BY <2>1, Zenon DEF Sending
  <2>3. m \notin wire
    BY <2>2, FS_CardinalityType DEF Dated, Numbered, Typed
  <2> QED BY <2>2, <2>3, Zenon
<1>3. ASSUME NEW q \in Parties, NEW m \in wire, Arrives(q, m)
      PROVE  opened' # opened
  <2>0. TypeOK /\ m \in Envelopes /\ "id" \in Slots
    BY Zenon DEF Typed, TypeOK, Slots
  <2>1. ASSUME NEW s, NEW t, Opening(q, m, s, t)
        PROVE  opened' # opened
    <3>1. opened' = opened \cup {<<t.born, m.id>>}
          /\ reopened' = reopened \cup ({<<t.born, m.id>>} \cap opened)
      BY <2>1, Zenon DEF Opening, open
    <3>2. <<t.born, m.id>> \notin opened
      BY <3>1, Zenon DEF AllReceived, OpenedOnce
    <3> QED BY <3>1, <3>2, Zenon
  <2>2. ASSUME NEW t, Refusing(q, m, t)
        PROVE  FALSE
    <3>1. Placed(q, "id", t)
      BY <2>2, RefusingOutgoing, Zenon
    <3>2. <<p, c>> = <<q, "id">> /\ t = sessions'[p][c]
      BY <1>0, <3>1, Zenon DEF Placed
    <3>3. PICK s : s = sessions[p][c]
      BY Zenon
    <3>4. s \in Sessions /\ s # Nil /\ KnownBy(keys, s.born) /\ s.born = t.born /\ Moves(s, t)
      BY <3>2, <3>3 DEF Typed, TypeOK, Dated, DatedSession
    <3>5. CASE Rebuilt(q, m, t)
      <4>1. Blank(t, Fresh(q, 1)) /\ ~KnownBy(keys, Fresh(q, 1))
        BY <2>0, <3>5, NewReceiver, FreshKey DEF Rebuilt, Known
      <4> QED BY <3>4, <4>1, Zenon DEF Blank
    <3>6. CASE t = with_pq_fields(s, m)
      BY <2>0, <3>4, <3>6, PqFieldsType DEF Same, Moves
    <3> QED BY <2>2, <3>2, <3>3, <3>5, <3>6, Zenon DEF Refusing
  <2> QED BY <1>3, <2>1, <2>2, Zenon DEF Arrives, Arrival
<1> QED BY <1>1, <1>2, <1>3, NextKinds, Zenon

\* Commit on success: a message that fails, and whatever else happens, leaves the
\* chains, the root key and the cache of a session alone (decrypt works on a clone
\* and the session manager replaces a session as a whole).
THEOREM FailureChangesNothing == Spec => CommitOnSuccess
<1> DEFINE Commits == \A p \in Parties, c \in Slots :
              LET s == sessions[p][c]
                  t == sessions'[p][c]
              IN  s # Nil /\ t # Nil /\ s.born = t.born /\ Moves(s, t)
                    => opened' # opened \/ wire' # wire
<1>1. Typed /\ Typed' /\ Dated /\ Distinct /\ AllReceived /\ AllReceived' /\ [Next]_vars
        => [Commits]_vars
  BY MovesOnSuccess, Zenon
<1> QED BY <1>1, TypedAlways, DistinctAlways, ReceivedAlways, PTL DEF Spec, CommitOnSuccess

-----------------------------------------------------------------------------
\* The root key of a session made from a bundle, which both parties can derive
\* from what every message of that session carries.
Boot(p, k) == root_key_ratchet(<<<<p, <<k>>>>>>, k, Identity(Other(p)), Nil)

BootSession(p, s) ==
    /\ ~s.confirmed
    /\ s.transcript = p /\ s.hct = Encap(Identity(Other(p)), s.our_dh)
    /\ s.sending # Nil /\ s.sending.key = Boot(p, s.our_dh)

BootMessage(m) ==
    /\ m.ct = Encap(Identity(Other(m.from)), m.dh)
    /\ m.transcript = m.from
    /\ m.key[1] = Boot(m.from, m.dh)

\* Filed as IronCore files them, the sessions that send never receive: they stay
\* as their bundle made them, and so does all they send.
Bootstrapped ==
    filing = "split" =>
        /\ \A p \in Parties : sessions[p]["pk"] # Nil => BootSession(p, sessions[p]["pk"])
        /\ \A m \in wire : BootMessage(m)

\* What a session made from the ciphertext of a message starts from.
LEMMA ReceiverStart ==
    ASSUME NEW p \in Parties, NEW ct \in Ciphertexts, NEW r, r = init_as_receiver(p, ct)
    PROVE  /\ r.their_dh = Nil /\ r.pq_recv = Nil /\ r.transcript = Other(p)
           /\ r.root = <<<<Other(p), Decap(Identity(p), ct)>>>>
           /\ r.skipped = {}
BY Zenon DEF init_as_receiver

\* That session uses the identity key for its first ratchet step.
LEMMA ReceiverSecret ==
    ASSUME NEW p \in Parties, NEW ct \in Ciphertexts, NEW r, r = init_as_receiver(p, ct)
    PROVE  r.identity_secret /\ ~r.confirmed
BY Zenon DEF init_as_receiver

\* The receiving chain after a ratchet step of such a session.
LEMMA FirstChain ==
    ASSUME NEW p \in Parties, NEW s \in Sessions, NEW dh \in KeyPairs, NEW k \in KeyPairs,
           s.identity_secret
    PROVE  LET t == dh_ratchet(p, s, dh, k)
           IN  /\ t.receiving = Chain(root_key_ratchet(s.root, Identity(p), dh, s.pq_recv))
               /\ t.skipped = s.skipped
<1> DEFINE r1 == root_key_ratchet(s.root, Identity(p), dh, s.pq_recv)
           r2 == root_key_ratchet(r1, k, dh, s.pq_sent)
           c1 == Chain(r1)
           c2 == Chain(r2)
           x == IF s.pq_recv = Nil THEN s.pq_mixed ELSE s.pq_recv
           t == [s EXCEPT !.identity_secret = FALSE, !.their_dh = dh,
                          !.receiving = c1, !.sending = c2,
                          !.our_dh = k, !.root = r2, !.steps = @ + 1,
                          !.pq_sent = Nil, !.pq_recv = Nil, !.pq_mixed = x]
<1>1. dh_ratchet(p, s, dh, k) = t
  BY DEF dh_ratchet
<1> HIDE DEF r1, r2, c1, c2, x
<1> QED BY <1>1 DEF c1, r1

\* A fresh receiving chain reaches every message that is not too far along it.
LEMMA ChainReaches ==
    ASSUME NEW s \in Sessions, s.skipped = {}, s.their_dh \in KeyPairs,
           NEW r \in Roots, s.receiving = Chain(r),
           NEW n \in Nat, n <= MaxSkip
    PROVE  \E t \in get_message_key(s, n) : t.receiving.key = r
<1> DEFINE c == Chain(r)
           K == KeysBetween(s.their_dh, r, 0, n)
           t == [s EXCEPT !.skipped = K, !.receiving.index = n + 1,
                          !.dropped = @ \cup ((s.skipped \cup K) \ K)]
<1>1. c \in Chains /\ c.key = r /\ c.index = 0 /\ c # Nil
  BY ChainType, RatchetAssumption
<1>2. IsFiniteSet(K) /\ Cardinality(K) <= n - 0 /\ Cardinality(K) \in Nat
  BY BetweenFinite, FS_CardinalityType
<1>3. K = {[dh |-> s.their_dh, number |-> i, chain |-> s.receiving.key] :
             i \in skipped_range(s.receiving, n)}
  BY <1>1, Zenon DEF KeysBetween, skipped_range
<1> HIDE DEF K
<1>4. K \in Kept(s.skipped, K)
  BY <1>2, RatchetAssumption DEF Kept
<1>5. t \in get_message_key(s, n)
  <2>1. ~(s.receiving = Nil \/ n < s.receiving.index \/ n - s.receiving.index > MaxSkip)
    BY <1>1, RatchetAssumption
  <2>2. get_message_key(s, n) =
          {[s EXCEPT !.skipped = L, !.receiving.index = n + 1,
                     !.dropped = @ \cup ((s.skipped \cup K) \ L)] : L \in Kept(s.skipped, K)}
    BY <1>3, <2>1, Zenon DEF get_message_key
  <2> QED BY <1>4, <2>2, Zenon
<1>6. t.receiving.key = r
  <2> HIDE DEF t
  <2>1. InChain(s, t, n)
    BY <1>5, MessageKey, Zenon
  <2>2. t.receiving = [key |-> s.receiving.key, index |-> n + 1]
    BY <2>1, Zenon DEF InChain
  <2> QED BY <1>1, <2>2
<1> QED BY <1>5, <1>6, Zenon

\* Both parties derive the same first root key.
LEMMA BootAgrees ==
    ASSUME NEW p \in Parties, NEW k \in KeyPairs
    PROVE  /\ Boot(p, k) \in Roots
           /\ root_key_ratchet(<<<<p, <<k>>>>>>, Identity(Other(p)), k, Nil) = Boot(p, k)
<1> DEFINE first == <<<<p, <<k>>>>>>
           i == Identity(Other(p))
<1>1. i \in KeyPairs /\ Nil \in Secrets \cup {Nil}
  BY OtherParty, Zenon DEF Identity, KeyPairs
<1>2. first \in Roots
  <2>1. <<k>> \in Secrets
    BY DEF Secrets
  <2>2. <<p, <<k>>>> \in Mixed
    BY <2>1, Zenon DEF Mixed
  <2>3. first \in Seq(Mixed)
    BY <2>2
  <2> QED BY <2>3 DEF Roots, Mixed
<1> HIDE DEF first, i
<1>3. root_key_ratchet(first, k, i, Nil) \in Roots
  BY <1>1, <1>2, RootStep, Zenon
<1>4. root_key_ratchet(first, i, k, Nil) = root_key_ratchet(first, k, i, Nil)
  BY DEF root_key_ratchet
<1> QED BY <1>3, <1>4, Zenon DEF Boot, first, i

\* A session rebuilt for a message with bootstrap material opens it, unless it is
\* too far along its chain.
LEMMA RebuiltOpens ==
    ASSUME TypeOK, NEW m \in wire, BootMessage(m), m.key[2] = m.number, m.number <= MaxSkip,
           NEW p, p = Other(m.from), NEW r, r = rebuilt(p, m)
    PROVE  r # Nil /\ decrypt_message_ratcheted(p, r, m, next_dh(p, r)) # {}
<1>0. m \in Envelopes /\ m.from \in Parties /\ p \in Parties /\ Other(p) = m.from
      /\ m.dh \in KeyPairs /\ m.number \in Nat
  BY OtherParty, Zenon DEF TypeOK, Envelopes
<1>1. m.ct = Encap(Identity(p), m.dh) /\ m.transcript = m.from
      /\ m.key[1] = Boot(m.from, m.dh)
  BY Zenon DEF BootMessage
<1>2. m.ct \in Ciphertexts /\ m.ct # Nil
  BY <1>0, <1>1, RatchetAssumption DEF Identity, KeyPairs, Encap, Ciphertexts
<1>3. r = init_as_receiver(p, m.ct)
  BY <1>2, Zenon DEF rebuilt
<1>4. r \in Sessions /\ r # Nil
  BY <1>0, <1>2, <1>3, NewReceiver, RatchetAssumption
<1>5. /\ r.their_dh = Nil /\ r.pq_recv = Nil /\ r.transcript = m.from
      /\ r.root = <<<<m.from, Decap(Identity(p), m.ct)>>>> /\ r.skipped = {}
  BY <1>0, <1>2, <1>3, ReceiverStart
<1>6. r.identity_secret /\ ~r.confirmed
  BY <1>0, <1>2, <1>3, ReceiverSecret, Zenon
<1>7. Decap(Identity(p), m.ct) = <<m.dh>>
  BY <1>1 DEF Decap, Encap
<1>8. ratchet_checks(r, m)
  BY <1>1, <1>5, <1>6, Zenon DEF ratchet_checks
<1>9. with_pq_fields(r, m) = r
  BY <1>6, Zenon DEF with_pq_fields
<1> DEFINE k == next_dh(p, r)
           b == dh_ratchet(p, r, m.dh, k)
<1>10. k \in KeyPairs
  BY <1>0, <1>4, NextDh, Zenon
<1> HIDE DEF k
<1>11. b \in Sessions /\ b.skipped = {} /\ b.their_dh \in KeyPairs
       /\ b.receiving = Chain(Boot(m.from, m.dh))
  <2>1. b \in Sessions /\ b.their_dh = m.dh
    BY <1>0, <1>4, <1>10, DhRatchet DEF Ratcheted
  <2>2. b.receiving = Chain(root_key_ratchet(r.root, Identity(p), m.dh, r.pq_recv))
        /\ b.skipped = r.skipped
    BY <1>0, <1>4, <1>6, <1>10, FirstChain
  <2>3. root_key_ratchet(r.root, Identity(p), m.dh, r.pq_recv) = Boot(m.from, m.dh)
    BY <1>0, <1>5, <1>7, BootAgrees
  <2> QED BY <1>0, <1>5, <2>1, <2>2, <2>3, Zenon
<1> HIDE DEF b
<1>12. PICK t \in get_message_key(b, m.number) : t.receiving.key = Boot(m.from, m.dh)
  <2>1. PICK root \in Roots : root = Boot(m.from, m.dh)
    BY <1>0, BootAgrees, Zenon
  <2>2. \E t \in get_message_key(b, m.number) : t.receiving.key = root
    BY <1>0, <1>11, <2>1, ChainReaches
  <2> QED BY <2>1, <2>2, Zenon
<1>13. opens_with(t, m)
  BY <1>0, <1>1, <1>12 DEF Envelopes, opens_with
<1>14. r.their_dh # m.dh
  BY <1>0, <1>5, RatchetAssumption, Zenon
<1>15. confirm(t) \in decrypt(p, r, m, k)
  BY <1>5, <1>13, <1>14, Zenon DEF cached, decrypt, b
<1>16. decrypt_message_ratcheted(p, r, m, k) = decrypt(p, r, m, k)
  BY <1>8, <1>9, Zenon DEF decrypt_message_ratcheted
<1> QED BY <1>4, <1>15, <1>16, Zenon DEF k

\* A session made from a bundle carries the bootstrap material.
LEMMA SenderStart ==
    ASSUME NEW p \in Parties, NEW s, s = init_as_sender(p), s.sending # Nil
    PROVE  BootSession(p, s)
<1>1. ~s.confirmed
  BY Zenon DEF init_as_sender
<1>2. s.transcript = p /\ s.our_dh = Fresh(p, 1) /\ s.hct = Encap(Identity(Other(p)), Fresh(p, 1))
      /\ s.sending = Chain(Boot(p, Fresh(p, 1)))
  BY Zenon DEF init_as_sender, Boot
<1>3. s.sending.key = Boot(p, Fresh(p, 1))
  BY <1>2 DEF Chain
<1> QED BY <1>1, <1>2, <1>3, Zenon DEF BootSession

\* Sending keeps the bootstrap material with the session and the message.
LEMMA BootSends ==
    ASSUME Typed, Bootstrapped, NEW p \in Parties, NEW c \in Slots, Sends(p, c)
    PROVE  Bootstrapped'
<1> SUFFICES ASSUME filing' = "split"
             PROVE  /\ \A q \in Parties : sessions'[q]["pk"] # Nil =>
                          BootSession(q, sessions'[q]["pk"])
                    /\ \A m \in wire' : BootMessage(m)
  BY Zenon DEF Bootstrapped
<1>0. TypeOK /\ "pk" \in Slots /\ filing = "split" /\ c = "pk"
  BY Zenon DEF Typed, Slots, Sends, SendSlot
<1>1. PICK s, t, m : Sending(p, c, s, t, m)
  BY Zenon DEF Sends
<1>2. s.sending \in Chains /\ s.sending # Nil
  BY <1>1, RatchetAssumption, Zenon DEF Sending
<1>3. BootSession(p, s)
  BY <1>1, RatchetAssumption, <1>0, SenderStart DEF Sending, Bootstrapped
<1>4. Advanced(s, t) /\ Placed(p, "pk", t)
  BY <1>0, <1>1, SetPlaced, Zenon DEF Sending
<1>5. BootSession(p, t)
  <2>1. ~t.confirmed
    BY <1>3, <1>4, Zenon DEF BootSession, Advanced
  <2>2. t.sending = [key |-> s.sending.key, index |-> s.sending.index + 1]
    BY <1>4, Zenon DEF Advanced
  <2>3. t.sending \in Chains
    BY <1>2, <2>2 DEF Chains
  <2>4. t.sending # Nil /\ t.sending.key = s.sending.key
    BY <2>2, <2>3, RatchetAssumption
  <2>5. t.transcript = s.transcript /\ t.hct = s.hct /\ t.our_dh = s.our_dh
    BY <1>4, Zenon DEF Advanced
  <2> QED BY <1>3, <2>1, <2>4, <2>5, Zenon DEF BootSession
<1>6. BootMessage(m)
  BY <1>1, <1>3 DEF Sending, BootSession, BootMessage
<1>7. wire' = wire \cup {m}
  BY <1>1, Zenon DEF Sending
<1>8. ASSUME NEW q \in Parties, sessions'[q]["pk"] # Nil
      PROVE  BootSession(q, sessions'[q]["pk"])
  BY <1>4, <1>5, <1>0, <1>8, Zenon DEF Placed, Bootstrapped
<1>9. \A x \in wire' : BootMessage(x)
  BY <1>0, <1>6, <1>7, Zenon DEF Bootstrapped
<1> QED BY <1>8, <1>9, Zenon

\* The bootstrap material stays, whatever happens.
LEMMA BootAlways == Spec => []Bootstrapped
<1>1. Init => Bootstrapped
  BY DEF Init, Bootstrapped, Slots
<1>2. ASSUME Typed, Bootstrapped, wire' = wire, filing' = filing,
             \A q \in Parties : sessions'[q]["pk"] = sessions[q]["pk"] \/ sessions'[q]["pk"] = Nil
      PROVE  Bootstrapped'
  <2> SUFFICES ASSUME filing' = "split"
               PROVE  /\ \A q \in Parties : sessions'[q]["pk"] # Nil =>
                            BootSession(q, sessions'[q]["pk"])
                      /\ \A m \in wire' : BootMessage(m)
    BY Zenon DEF Bootstrapped
  <2> QED BY <1>2, Zenon DEF Bootstrapped
<1>3. ASSUME Typed, Bootstrapped, Drops
      PROVE  Bootstrapped'
  BY <1>2, <1>3, Zenon DEF Drops, Slots
<1>4. ASSUME Typed, Typed', Dated, Bootstrapped,
             NEW p \in Parties, NEW m \in wire, Arrives(p, m)
      PROVE  Bootstrapped'
  <2>1. PICK t : Placed(p, "id", t)
    BY <1>4, OpeningOutgoing, RefusingOutgoing, Zenon DEF Arrives, Arrival
  <2>2. \A q \in Parties : sessions'[q]["pk"] = sessions[q]["pk"]
    BY <2>1, Zenon DEF Placed, Slots
  <2>3. wire' = wire /\ filing' = filing
    BY <1>4, Zenon DEF Arrives
  <2> QED BY <1>2, <1>4, <2>2, <2>3, Zenon
<1>5. Typed /\ Typed' /\ Dated /\ Bootstrapped /\ [Next]_vars => Bootstrapped'
  BY <1>3, <1>4, NextKinds, BootSends, Zenon
<1> QED BY <1>1, <1>5, TypedAlways, DistinctAlways, PTL DEF Spec

\* A message that arrives and is refused was too far along its chain.
LEMMA RefusalFar ==
    ASSUME Typed, Dated, Bootstrapped, filing = "split", NEW m \in wire, Receive(m)
    PROVE  refused' = refused \/ (refused' = refused \cup {m.id} /\ m.number > MaxSkip)
<1> DEFINE p == Other(m.from)
           r == rebuilt(p, m)
           second == IF r = Nil THEN {} ELSE decrypt_message_ratcheted(p, r, m, next_dh(p, r))
<1>1. refused' = refused \/ (refused' = refused \cup {m.id} /\ second = {})
  BY Zenon DEF Receive, open
<1>2. TypeOK /\ BootMessage(m) /\ m.key[2] = m.number /\ m.number \in Nat
  BY Zenon DEF Typed, TypeOK, Bootstrapped, Dated, DatedMessage, Envelopes
<1>3. m.number <= MaxSkip => second # {}
  BY <1>2, RebuiltOpens, Zenon
<1> HIDE DEF second
<1> QED BY <1>1, <1>2, <1>3, RatchetAssumption

\* Filed as IronCore files them, a message is refused only when it is more than
\* MAX_SKIP messages along its chain: the rebuild in decrypt_with_ratchet_fallback
\* opens every other one, whatever was lost, repeated, reordered or forgotten.
THEOREM RefusedOnlyFar == Spec => []RefusedIsTooFar
<1>1. Init => RefusedIsTooFar
  BY Zenon DEF Init, RefusedIsTooFar, Refused
<1>2. ASSUME RefusedIsTooFar, wire' = wire, refused' = refused, filing' = filing
      PROVE  RefusedIsTooFar'
  BY <1>2, Zenon DEF RefusedIsTooFar, Refused
<1>3. ASSUME Typed, Dated, RefusedIsTooFar, NEW p \in Parties, Send(p)
      PROVE  RefusedIsTooFar'
  <2>1. PICK s, t, m : Sending(p, SendSlot, s, t, m)
    BY <1>3, SendKinds, Zenon
  <2>2. m.id = Cardinality(wire) /\ wire' = wire \cup {m}
        /\ refused' = refused /\ filing' = filing
    BY <1>3, <2>1, SendKinds, Zenon DEF Sending
  <2>3. refused \subseteq {x.id : x \in wire} /\ \A x \in wire : x.id < Cardinality(wire)
        /\ x.id \in Nat
    BY <1>3, Zenon DEF Typed, TypeOK, Dated, Numbered, Envelopes
  <2>4. m.id \notin refused
    BY <2>2, <2>3
  <2> QED BY <1>3, <2>2, <2>4, Zenon DEF RefusedIsTooFar, Refused
<1>4. ASSUME Typed, Dated, Bootstrapped, RefusedIsTooFar, NEW m \in wire, Receive(m)
      PROVE  RefusedIsTooFar'
  <2>1. wire' = wire /\ filing' = filing
    BY <1>4, Zenon DEF Receive
  <2>2. \A x \in wire : x.id = m.id => x = m
    BY <1>4, Zenon DEF Dated, Numbered
  <2>3. filing = "split" =>
          refused' = refused \/ (refused' = refused \cup {m.id} /\ m.number > MaxSkip)
    BY <1>4, RefusalFar, Zenon
  <2> QED BY <1>4, <2>1, <2>2, <2>3, Zenon DEF RefusedIsTooFar, Refused
<1>5. Typed /\ Dated /\ Bootstrapped /\ RefusedIsTooFar /\ [Next]_vars => RefusedIsTooFar'
  BY <1>2, <1>3, <1>4, Zenon DEF Next, vars, Restart, ratchet_reset_session
<1> QED BY <1>1, <1>5, TypedAlways, DistinctAlways, BootAlways, PTL DEF Spec
=============================================================================
