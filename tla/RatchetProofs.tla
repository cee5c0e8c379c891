--------------------------- MODULE RatchetProofs ---------------------------
(***************************************************************************)
(* Proofs about the ratchet sessions: what every step does to them, that   *)
(* they are well typed, and that no key is used twice.  For every limit of *)
(* the cache, every cadence of the post-quantum steps, both ways of filing *)
(* sessions, and any number of messages, key pairs, restarts and resets.   *)
(***************************************************************************)
EXTENDS Ratchet, FiniteSetTheorems, TLAPS

\* Each party has one other.
LEMMA OtherParty ==
    ASSUME NEW p \in Parties
    PROVE  Other(p) \in Parties /\ Other(p) # p /\ Other(Other(p)) = p
BY RatchetAssumption, Zenon DEF Other

\* What a root key consists of.
Mixed == (Parties \X Secrets) \cup ((SUBSET KeyPairs) \X (Secrets \cup {Nil}))

\* The two key pairs last mixed into a root key.
Pair(r) == r[Len(r)][1]

\* A step of the root key adds the two key pairs it is given.
LEMMA RootStep ==
    ASSUME NEW r \in Roots, NEW a \in KeyPairs, NEW b \in KeyPairs,
           NEW pq \in Secrets \cup {Nil}
    PROVE  /\ root_key_ratchet(r, a, b, pq) \in Roots
           /\ Len(root_key_ratchet(r, a, b, pq)) = Len(r) + 1
           /\ Pair(root_key_ratchet(r, a, b, pq)) = {a, b}
<1> DEFINE x == <<{a, b}, pq>>
<1> HIDE DEF x
<1> QED BY DEF root_key_ratchet, Roots, Mixed, Pair, x

\* A new chain is well typed.
LEMMA ChainType ==
    ASSUME NEW r \in Roots
    PROVE  Chain(r) \in Chains /\ Chain(r).key = r /\ Chain(r).index = 0
BY DEF Chain, Chains

\* Decapsulation gives a secret.
LEMMA DecapType ==
    ASSUME NEW k \in KeyPairs, NEW ct \in Ciphertexts
    PROVE  Decap(k, ct) \in Secrets
BY DEF Decap, Ciphertexts, Secrets

-----------------------------------------------------------------------------
\* The fields of a session that its chains, its cache and its name depend on.
Same(s, t) ==
    /\ t.our_dh = s.our_dh /\ t.their_dh = s.their_dh /\ t.root = s.root
    /\ t.sending = s.sending /\ t.receiving = s.receiving
    /\ t.skipped = s.skipped /\ t.dropped = s.dropped /\ t.born = s.born
    /\ t.identity_secret = s.identity_secret

\* The PQ fields of a message leave the chains and the cache alone.
LEMMA PqFieldsType ==
    ASSUME NEW s \in Sessions, NEW m \in Envelopes
    PROVE  with_pq_fields(s, m) \in Sessions /\ Same(s, with_pq_fields(s, m))
<1>1. CASE s.confirmed /\ m.ct # Nil /\ ratchet_checks(s, m)
  <2> DEFINE k == IF s.pq_prev # Nil THEN s.pq_prev ELSE s.pq_our
             ss == Decap(k, m.ct)
             recv == IF ss = s.pq_mixed THEN s.pq_recv ELSE ss
             t == [s EXCEPT !.pq_recv = recv, !.pq_their = m.ek]
  <2>1. k \in KeyPairs /\ m.ct \in Ciphertexts /\ m.ek \in KeyPairs \cup {Nil}
    BY <1>1 DEF Sessions, Envelopes
  <2>2. ss \in Secrets
    BY <2>1, DecapType
  <2>3. with_pq_fields(s, m) = t
    BY <1>1 DEF with_pq_fields, handle_incoming_pq_fields
  <2> HIDE DEF ss
  <2>4. recv \in Secrets \cup {Nil}
    BY <2>2 DEF Sessions
  <2> HIDE DEF recv
  <2>5. t \in Sessions
    BY <2>1, <2>4, ZenonT(30) DEF Sessions
  <2>6. Same(s, t)
    BY DEF Same, Sessions
  <2> QED BY <2>3, <2>5, <2>6
<1>2. CASE ~(s.confirmed /\ m.ct # Nil /\ ratchet_checks(s, m))
  BY <1>2, Zenon DEF with_pq_fields, Same
<1> QED BY <1>1, <1>2

\* The keys numbered from a to n - 1 of a chain.
KeysBetween(dh, r, a, n) == {[dh |-> dh, number |-> i, chain |-> r] : i \in a..(n - 1)}

\* The result of a message key derived from the current receiving chain.
InChain(s, t, n) ==
    /\ s.receiving # Nil /\ n >= s.receiving.index /\ n - s.receiving.index <= MaxSkip
    /\ t.receiving = [key |-> s.receiving.key, index |-> n + 1]
    /\ LET new == KeysBetween(s.their_dh, s.receiving.key, s.receiving.index, n)
       IN  /\ t.skipped \in Kept(s.skipped, new)
           /\ t.dropped = s.dropped \cup ((s.skipped \cup new) \ t.skipped)
    /\ t.our_dh = s.our_dh /\ t.their_dh = s.their_dh /\ t.root = s.root
    /\ t.sending = s.sending /\ t.born = s.born

\* get_message_key advances the receiving chain and files the keys it passes.
LEMMA MessageKey ==
    ASSUME NEW s \in Sessions, s.their_dh \in KeyPairs, NEW n \in Nat,
           NEW t \in get_message_key(s, n)
    PROVE  t \in Sessions /\ InChain(s, t, n)
<1>1. s.receiving # Nil /\ n >= s.receiving.index /\ n - s.receiving.index <= MaxSkip
      /\ s.receiving \in Chains
  <2>1. ~ (\/ s.receiving = Nil \/ n < s.receiving.index \/ n - s.receiving.index > MaxSkip)
    BY Zenon DEF get_message_key
  <2>2. s.receiving \in Chains
    BY <2>1 DEF Sessions
  <2>3. s.receiving.index \in Nat
    BY <2>2 DEF Chains
  <2> QED BY <2>1, <2>2, <2>3, RatchetAssumption
<1> DEFINE new == KeysBetween(s.their_dh, s.receiving.key, s.receiving.index, n)
<1>2. new \subseteq SkippedKeys
  BY <1>1 DEF KeysBetween, Chains, SkippedKeys
<1>3. PICK K \in Kept(s.skipped, new) :
         t = [s EXCEPT !.skipped = K, !.receiving.index = n + 1,
                       !.dropped = @ \cup ((s.skipped \cup new) \ K)]
  BY Zenon DEF get_message_key, skipped_range, KeysBetween
<1> HIDE DEF new
<1>4. K \subseteq SkippedKeys
  BY <1>2 DEF Kept, Sessions
<1> DEFINE d == s.dropped \cup ((s.skipped \cup new) \ K)
           r == [s.receiving EXCEPT !.index = n + 1]
<1>5. d \subseteq SkippedKeys
  BY <1>2 DEF Sessions
<1>6. r \in Chains /\ r = [key |-> s.receiving.key, index |-> n + 1]
  BY <1>1 DEF Chains
<1>7. t = [s EXCEPT !.skipped = K, !.receiving = r, !.dropped = d]
  BY <1>3
<1> HIDE DEF d, r
<1>8. t \in Sessions
  <2> DEFINE a == [s EXCEPT !.skipped = K]
             b == [a EXCEPT !.receiving = r]
  <2>1. a \in Sessions
    BY <1>4 DEF Sessions
  <2>2. t = [b EXCEPT !.dropped = d]
    BY <1>7
  <2> HIDE DEF a
  <2>3. b \in Sessions
    BY <1>6, <2>1 DEF Sessions
  <2> HIDE DEF b
  <2> QED BY <1>5, <2>2, <2>3 DEF Sessions
<1>9. /\ t.skipped = K /\ t.receiving = r /\ t.dropped = d
      /\ t.our_dh = s.our_dh /\ t.their_dh = s.their_dh /\ t.root = s.root
      /\ t.sending = s.sending /\ t.born = s.born
  BY <1>7 DEF Sessions
<1> QED BY <1>1, <1>6, <1>8, <1>9, Zenon DEF InChain, new, d

\* The result of a Diffie-Hellman step on dh with the new key pair k.
Ratcheted(s, t, dh, k) ==
    /\ t.receiving # Nil => t.receiving.key \in Roots /\ t.receiving.index = 0
    /\ Len(t.receiving.key) = Len(s.root) + 1
    /\ Len(t.root) = Len(s.root) + 2
    /\ Pair(t.root) = {k, dh}
    /\ t.sending = Chain(t.root)
    /\ t.our_dh = k /\ t.their_dh = dh
    /\ t.skipped = s.skipped /\ t.dropped = s.dropped /\ t.born = s.born

\* dh_ratchet starts two new chains and touches neither cache nor name.
LEMMA DhRatchet ==
    ASSUME NEW p \in Parties, NEW s \in Sessions, NEW dh \in KeyPairs, NEW k \in KeyPairs
    PROVE  /\ dh_ratchet(p, s, dh, k) \in Sessions
           /\ Ratcheted(s, dh_ratchet(p, s, dh, k), dh, k)
<1> DEFINE ours == IF s.identity_secret THEN Identity(p) ELSE s.our_dh
           old == s.root
           got == s.pq_recv
           sent == s.pq_sent
           r1 == root_key_ratchet(old, ours, dh, got)
           r2 == root_key_ratchet(r1, k, dh, sent)
           c1 == Chain(r1)
           c2 == Chain(r2)
<1>1. ours \in KeyPairs
  BY DEF Identity, KeyPairs, Sessions
<1>2. old \in Roots /\ got \in Secrets \cup {Nil} /\ sent \in Secrets \cup {Nil}
  BY DEF Sessions
<1> HIDE DEF ours, old, got, sent
<1>3. r1 \in Roots /\ Len(r1) = Len(old) + 1
  BY <1>2, <1>1, RootStep
<1> HIDE DEF r1
<1>4. r2 \in Roots /\ Len(r2) = Len(r1) + 1 /\ Pair(r2) = {k, dh}
  BY <1>2, <1>3, RootStep
<1> HIDE DEF r2
<1>5. c1 \in Chains /\ c1.key = r1 /\ c1.index = 0 /\ c2 \in Chains
  BY <1>3, <1>4, ChainType
<1> HIDE DEF c1, c2
<1> DEFINE a0 == [s EXCEPT !.identity_secret = FALSE]
           a == [a0 EXCEPT !.their_dh = dh]
           b0 == [a EXCEPT !.receiving = c1]
           b == [b0 EXCEPT !.sending = c2]
           c0 == [b EXCEPT !.our_dh = k]
           c == [c0 EXCEPT !.root = r2]
           d == [c EXCEPT !.steps = @ + 1, !.pq_sent = Nil]
           e == [d EXCEPT !.pq_recv = Nil, !.pq_mixed = IF s.pq_recv = Nil THEN @ ELSE s.pq_recv]
<1>6. dh_ratchet(p, s, dh, k) = e
  BY DEF dh_ratchet, c1, c2, r1, r2, ours, old, got, sent
<1>7. a0 \in Sessions /\ a0.skipped = s.skipped /\ a0.dropped = s.dropped /\ a0.born = s.born
  <2>1. a0 \in Sessions
    BY ZenonT(30) DEF Sessions
  <2> QED BY <2>1
<1> HIDE DEF a0
<1>8. a \in Sessions /\ a.their_dh = dh
      /\ a.skipped = s.skipped /\ a.dropped = s.dropped /\ a.born = s.born
  BY <1>7 DEF Sessions
<1> HIDE DEF a
<1>9. b \in Sessions /\ b.receiving = c1 /\ b.sending = c2 /\ b.their_dh = dh
      /\ b.skipped = s.skipped /\ b.dropped = s.dropped /\ b.born = s.born
  <2>1. b0 \in Sessions
    BY <1>5, <1>8 DEF Sessions
  <2>2. b0.receiving = c1 /\ b0.their_dh = dh
        /\ b0.skipped = s.skipped /\ b0.dropped = s.dropped /\ b0.born = s.born
    BY <1>8 DEF Sessions
  <2> HIDE DEF b0
  <2>3. b \in Sessions
    BY <1>5, <2>1 DEF Sessions
  <2> QED BY <2>2, <2>3 DEF Sessions
<1> HIDE DEF b
<1>10. c \in Sessions /\ c.our_dh = k /\ c.root = r2
       /\ c.receiving = c1 /\ c.sending = c2 /\ c.their_dh = dh
       /\ c.skipped = s.skipped /\ c.dropped = s.dropped /\ c.born = s.born
  <2>1. c0 \in Sessions
    BY <1>9 DEF Sessions
  <2>2. c0.our_dh = k /\ c0.receiving = c1 /\ c0.sending = c2 /\ c0.their_dh = dh
        /\ c0.skipped = s.skipped /\ c0.dropped = s.dropped /\ c0.born = s.born
    BY <1>9 DEF Sessions
  <2> HIDE DEF c0
  <2>3. c \in Sessions
    BY <1>4, <2>1 DEF Sessions
  <2> QED BY <2>2, <2>3 DEF Sessions
<1> HIDE DEF c
<1>11. d \in Sessions /\ Same(c, d)
  <2>1. c.steps + 1 \in Nat
    BY <1>10 DEF Sessions
  <2>2. d \in Sessions
    BY <1>10, <2>1, ZenonT(30) DEF Sessions
  <2>3. Same(c, d)
    BY DEF Sessions, Same
  <2> QED BY <2>2, <2>3
<1> HIDE DEF d
<1>12. e \in Sessions /\ Same(d, e)
  <2> DEFINE x == [d EXCEPT !.pq_recv = Nil]
             mixed == IF s.pq_recv = Nil THEN d.pq_mixed ELSE s.pq_recv
  <2>1. x \in Sessions /\ x.pq_mixed = d.pq_mixed
    BY <1>11 DEF Sessions
  <2>2. mixed \in Secrets \cup {Nil}
    BY <1>11 DEF Sessions
  <2>3. e = [x EXCEPT !.pq_mixed = mixed]
    OBVIOUS
  <2>4. Same(d, x)
    BY DEF Sessions, Same
  <2> HIDE DEF x, mixed, e
  <2>5. e \in Sessions
    BY <2>1, <2>2, <2>3 DEF Sessions
  <2>6. Same(x, e)
    BY <2>3 DEF Sessions, Same
  <2> QED BY <2>4, <2>5, <2>6 DEF Same
<1> HIDE DEF e
<1>13. Len(r1) = Len(s.root) + 1 /\ Len(r2) = Len(s.root) + 2
  <2>1. Len(old) \in Nat
    BY <1>2 DEF Roots
  <2>2. Len(r2) = Len(old) + 2
    BY <1>3, <1>4, <2>1
  <2> QED BY <1>3, <2>2, Zenon DEF old
<1>14. Ratcheted(s, e, dh, k)
  BY <1>3, <1>4, <1>5, <1>10, <1>11, <1>12, <1>13 DEF Ratcheted, Same, c2
<1> QED BY <1>6, <1>12, <1>14

\* Confirming a session leaves its chains alone.
LEMMA Confirmed ==
    ASSUME NEW s \in Sessions
    PROVE  confirm(s) \in Sessions /\ Same(s, confirm(s))
<1>1. confirm(s) \in Sessions
  BY ZenonT(30) DEF confirm, Sessions
<1>2. Same(s, confirm(s))
  BY DEF confirm, Same, Sessions
<1> QED BY <1>1, <1>2

\* A key taken from the cache leaves it; the first message opened confirms.
LEMMA TakenFromCache ==
    ASSUME NEW s \in Sessions, NEW K
    PROVE  LET t == confirm(forget(s, K))
           IN  /\ t \in Sessions
               /\ t.skipped = s.skipped \ K
               /\ t.our_dh = s.our_dh /\ t.their_dh = s.their_dh /\ t.root = s.root
               /\ t.sending = s.sending /\ t.receiving = s.receiving
               /\ t.dropped = s.dropped /\ t.born = s.born
<1> DEFINE K0 == s.skipped \ K
<1>1. K0 \subseteq SkippedKeys
  BY DEF Sessions
<1> DEFINE a == [s EXCEPT !.skipped = K0]
<1>2. forget(s, K) = a
  BY DEF forget
<1> HIDE DEF K0
<1>3. a \in Sessions /\ a.skipped = K0
      /\ a.our_dh = s.our_dh /\ a.their_dh = s.their_dh /\ a.root = s.root
      /\ a.sending = s.sending /\ a.receiving = s.receiving
      /\ a.dropped = s.dropped /\ a.born = s.born
  BY <1>1 DEF Sessions
<1> HIDE DEF a
<1>4. confirm(a) \in Sessions /\ Same(a, confirm(a))
  BY <1>3, Confirmed
<1> QED BY <1>2, <1>3, <1>4 DEF Same, K0

\* The ways in which decrypt succeeds: with a cached key, in the current chain,
\* or in the chain of a Diffie-Hellman step.
FromCache(s, t, m) ==
    /\ \E e \in cached(s, m) : m.key = <<e.chain, m.number>>
    /\ t.skipped = s.skipped \ cached(s, m)
    /\ t.our_dh = s.our_dh /\ t.their_dh = s.their_dh /\ t.root = s.root
    /\ t.sending = s.sending /\ t.receiving = s.receiving
    /\ t.dropped = s.dropped /\ t.born = s.born

FromChain(s, t, m) ==
    /\ s.their_dh = m.dh /\ InChain(s, t, m.number)
    /\ m.key = <<s.receiving.key, m.number>>

FromRatchet(s, t, m, k) ==
    \E b \in Sessions :
        /\ Ratcheted(s, b, m.dh, k) /\ InChain(b, t, m.number)
        /\ m.key = <<b.receiving.key, m.number>>

Opens(s, t, m, k) == FromCache(s, t, m) \/ FromChain(s, t, m) \/ FromRatchet(s, t, m, k)

\* decrypt succeeds in one of those ways.
LEMMA DecryptOpens ==
    ASSUME NEW p \in Parties, NEW s \in Sessions, NEW m \in Envelopes, NEW k \in KeyPairs,
           NEW t \in decrypt(p, s, m, k)
    PROVE  t \in Sessions /\ Opens(s, t, m, k)
<1> DEFINE C == cached(s, m)
           base == IF s.their_dh = m.dh THEN s ELSE dh_ratchet(p, s, m.dh, k)
<1>0. m.dh \in KeyPairs /\ m.number \in Nat
  BY DEF Envelopes
<1>1. CASE C # {}
  <2>1. t = confirm(forget(s, C)) /\ \E e \in C : <<e.chain, m.number>> = m.key
    BY <1>1 DEF decrypt
  <2> HIDE DEF C
  <2>2. t \in Sessions /\ t.skipped = s.skipped \ C
        /\ t.our_dh = s.our_dh /\ t.their_dh = s.their_dh /\ t.root = s.root
        /\ t.sending = s.sending /\ t.receiving = s.receiving
        /\ t.dropped = s.dropped /\ t.born = s.born
    BY <2>1, TakenFromCache
  <2> QED BY <2>1, <2>2, Zenon DEF Opens, FromCache, C
<1>2. CASE C = {}
  <2>1. PICK u \in get_message_key(base, m.number) : opens_with(u, m) /\ t = confirm(u)
    BY <1>2, Zenon DEF decrypt
  <2>2. base \in Sessions /\ base.their_dh \in KeyPairs
    BY <1>0, DhRatchet DEF Ratcheted
  <2>3. s.their_dh # m.dh => Ratcheted(s, base, m.dh, k)
    BY <1>0, DhRatchet
  <2>4. s.their_dh = m.dh => base = s
    OBVIOUS
  <2> HIDE DEF base
  <2>5. u \in Sessions /\ InChain(base, u, m.number)
    BY <1>0, <2>2, MessageKey
  <2>6. t \in Sessions /\ Same(u, t)
    BY <2>1, <2>5, Confirmed
  <2>7. InChain(base, t, m.number)
    BY <2>5, <2>6, Zenon DEF InChain, Same
  <2>8. u.receiving.key = base.receiving.key
    BY <2>5 DEF InChain
  <2>9. m.key = <<base.receiving.key, m.number>>
    BY <2>1, <2>8, Zenon DEF opens_with
  <2> QED BY <2>2, <2>3, <2>4, <2>6, <2>7, <2>9 DEF Opens, FromChain, FromRatchet
<1> QED BY <1>1, <1>2

\* So does decrypt_message_ratcheted: the PQ fields change none of it.
LEMMA MessageOpens ==
    ASSUME NEW p \in Parties, NEW s \in Sessions, NEW m \in Envelopes, NEW k \in KeyPairs,
           NEW t \in decrypt_message_ratcheted(p, s, m, k)
    PROVE  t \in Sessions /\ Opens(s, t, m, k)
<1> DEFINE u == with_pq_fields(s, m)
<1>1. u \in Sessions /\ Same(s, u)
  BY PqFieldsType, Zenon
<1>2. t \in decrypt(p, u, m, k)
  BY DEF decrypt_message_ratcheted
<1> HIDE DEF u
<1>3. t \in Sessions /\ Opens(u, t, m, k)
  BY <1>1, <1>2, DecryptOpens, Zenon
<1>4. FromCache(u, t, m) => FromCache(s, t, m)
  BY <1>1, Zenon DEF FromCache, Same, cached
<1>5. FromChain(u, t, m) => FromChain(s, t, m)
  BY <1>1, Zenon DEF FromChain, InChain, Same
<1>6. FromRatchet(u, t, m, k) => FromRatchet(s, t, m, k)
  BY <1>1 DEF FromRatchet, Ratcheted, Same
<1> QED BY <1>3, <1>4, <1>5, <1>6, Zenon DEF Opens

-----------------------------------------------------------------------------
\* The cache is finite and within its limit.
Small(s) == IsFiniteSet(s.skipped) /\ Cardinality(s.skipped) <= MaxSkip

\* There are n - a keys between two positions of a chain, at most.
LEMMA BetweenFinite ==
    ASSUME NEW dh, NEW r, NEW a \in Nat, NEW n \in Nat, a <= n
    PROVE  /\ IsFiniteSet(KeysBetween(dh, r, a, n))
           /\ Cardinality(KeysBetween(dh, r, a, n)) <= n - a
<1> DEFINE S == a..(n - 1)
           T == KeysBetween(dh, r, a, n)
           f == [i \in S |-> [dh |-> dh, number |-> i, chain |-> r]]
<1>1. f \in Surjection(S, T)
  <2>1. T = {f[i] : i \in S}
    BY DEF KeysBetween
  <2>2. f \in [S -> T] /\ \A t \in T : \E i \in S : f[i] = t
    BY <2>1, Zenon
  <2> HIDE DEF f, S, T
  <2> QED BY <2>2 DEF Surjection
<1>2. IsFiniteSet(S) /\ Cardinality(S) = n - a
  <2>1. IsFiniteSet(S) /\ Cardinality(S) = IF a > n - 1 THEN 0 ELSE (n - 1) - a + 1
    BY FS_Interval
  <2> HIDE DEF S
  <2> QED BY <2>1
<1> HIDE DEF S, T, f
<1>3. IsFiniteSet(T) /\ Cardinality(T) <= Cardinality(S)
  BY <1>1, <1>2, FS_Surjection, Zenon
<1> QED BY <1>2, <1>3 DEF T

\* What is kept of the cache and the new keys fits the limit.
LEMMA KeptSmall ==
    ASSUME NEW old, IsFiniteSet(old), NEW new, IsFiniteSet(new), NEW K \in Kept(old, new)
    PROVE  IsFiniteSet(K) /\ Cardinality(K) <= MaxSkip
<1> DEFINE all == old \cup new
<1>1. IsFiniteSet(all)
  BY FS_Union, Zenon
<1>2. K \in SUBSET all
        /\ Cardinality(K) = IF Cardinality(all) <= MaxSkip THEN Cardinality(all) ELSE MaxSkip
  BY Zenon DEF Kept
<1> HIDE DEF all
<1>3. IsFiniteSet(K) /\ Cardinality(all) \in Nat
  BY <1>1, <1>2, FS_Subset, FS_CardinalityType, Zenon
<1> QED BY <1>2, <1>3, RatchetAssumption

\* A message opened in the receiving chain leaves a cache within its limit.
LEMMA ChainSmall ==
    ASSUME NEW s \in Sessions, Small(s), NEW t \in Sessions, NEW n \in Nat, InChain(s, t, n)
    PROVE  Small(t)
<1> DEFINE new == KeysBetween(s.their_dh, s.receiving.key, s.receiving.index, n)
<1>1. s.receiving.index \in Nat /\ s.receiving.index <= n
  BY Zenon DEF InChain, Sessions, Chains
<1>2. IsFiniteSet(new)
  BY <1>1, BetweenFinite, Zenon
<1>3. t.skipped \in Kept(s.skipped, new)
  BY Zenon DEF InChain
<1> HIDE DEF new
<1> QED BY <1>2, <1>3, KeptSmall DEF Small

\* So does any message that opens.
LEMMA OpensSmall ==
    ASSUME NEW s \in Sessions, Small(s), NEW t \in Sessions, NEW m \in Envelopes, NEW k,
           Opens(s, t, m, k)
    PROVE  Small(t)
<1>0. m.number \in Nat
  BY DEF Envelopes
<1>1. CASE FromCache(s, t, m)
  BY <1>1, FS_Subset, FS_CardinalityType, RatchetAssumption DEF FromCache, Small
<1>2. CASE FromChain(s, t, m)
  BY <1>0, <1>2, ChainSmall, Zenon DEF FromChain
<1>3. CASE FromRatchet(s, t, m, k)
  <2>1. PICK b \in Sessions : Ratcheted(s, b, m.dh, k) /\ InChain(b, t, m.number)
    BY <1>3, Zenon DEF FromRatchet
  <2>2. Small(b)
    BY <2>1, Zenon DEF Ratcheted, Small
  <2> QED BY <1>0, <2>1, <2>2, ChainSmall, Zenon
<1> QED BY <1>1, <1>2, <1>3 DEF Opens

-----------------------------------------------------------------------------
\* A key pair that has been generated, given how many each party generated.
KnownBy(K, k) == k \in KeyPairs /\ k[2] <= K[k[1]]

Known(k) == KnownBy(keys, k)

\* The next key pair of a party is new.
LEMMA FreshKey ==
    ASSUME TypeOK, NEW p \in Parties, NEW n \in Nat \ {0}
    PROVE  /\ Fresh(p, n) \in KeyPairs /\ Fresh(p, n)[1] = p
           /\ Fresh(p, n)[2] = keys[p] + n /\ ~Known(Fresh(p, n))
<1>1. keys[p] \in Nat
  BY DEF TypeOK
<1> QED BY <1>1 DEF Fresh, KeyPairs, Known, KnownBy

\* A session that was just made has opened nothing.
Blank(s, k) ==
    /\ s.our_dh = k /\ s.born = k /\ s.receiving = Nil
    /\ s.skipped = {} /\ s.dropped = {} /\ s.confirmed = FALSE

\* init_as_receiver makes a session that cannot send yet.
LEMMA NewReceiver ==
    ASSUME TypeOK, NEW p \in Parties, NEW ct \in Ciphertexts
    PROVE  /\ init_as_receiver(p, ct) \in Sessions
           /\ Blank(init_as_receiver(p, ct), Fresh(p, 1))
           /\ init_as_receiver(p, ct).sending = Nil
<1> DEFINE q == Other(p)
           k == Fresh(p, 1)
           i == Identity(p)
           root == <<<<q, Decap(i, ct)>>>>
<1>1. q \in Parties /\ k \in KeyPairs /\ i \in KeyPairs
  BY FreshKey, OtherParty DEF Identity, KeyPairs
<1>2. root \in Roots
  BY <1>1, DecapType DEF Mixed, Roots
<1> HIDE DEF q, k, i, root
<1>3. init_as_receiver(p, ct) =
        [our_dh |-> k, their_dh |-> Nil, root |-> root,
         sending |-> Nil, receiving |-> Nil, steps |-> 0,
         skipped |-> {}, dropped |-> {}, identity_secret |-> TRUE,
         confirmed |-> FALSE, hct |-> ct, transcript |-> q,
         pq_our |-> i, pq_prev |-> Nil, pq_their |-> Nil,
         pq_sent |-> Nil, pq_recv |-> Nil, pq_mixed |-> Nil, born |-> k]
  BY Zenon DEF init_as_receiver, q, k, i, root
<1>4. init_as_receiver(p, ct) \in Sessions
  BY <1>1, <1>2, <1>3 DEF Sessions
<1>5. Blank(init_as_receiver(p, ct), k) /\ init_as_receiver(p, ct).sending = Nil
  BY <1>3 DEF Blank
<1> QED BY <1>4, <1>5, Zenon DEF k

\* init_as_sender makes a session that can send.
LEMMA NewSender ==
    ASSUME TypeOK, NEW p \in Parties
    PROVE  LET s == init_as_sender(p)
           IN  /\ s \in Sessions /\ Blank(s, Fresh(p, 1))
               /\ s.sending \in Chains /\ s.sending.index = 0 /\ s.sending # Nil
               /\ Pair(s.sending.key) = {Fresh(p, 1), Identity(Other(p))}
<1> DEFINE q == Other(p)
           k == Fresh(p, 1)
           i == Identity(q)
           first == <<<<p, <<k>>>>>>
           root == root_key_ratchet(first, k, i, Nil)
           chain == Chain(root)
           ct == Encap(i, k)
<1>1. q \in Parties /\ k \in KeyPairs /\ i \in KeyPairs
  BY FreshKey, OtherParty DEF Identity, KeyPairs
<1>2. first \in Roots
  <2>0. <<k>> \in Secrets
    BY <1>1 DEF Secrets
  <2>1. <<p, <<k>>>> \in Mixed
    BY <2>0 DEF Mixed
  <2>2. first \in Seq(Mixed)
    BY <2>1
  <2> QED BY <2>2 DEF Roots, Mixed
<1> HIDE DEF q, k, i, first
<1>3. root \in Roots /\ Pair(root) = {k, i}
  BY <1>1, <1>2, RootStep
<1> HIDE DEF root
<1>4. chain \in Chains /\ chain.key = root /\ chain.index = 0
  BY <1>3, ChainType
<1>5. ct \in Ciphertexts
  BY <1>1, Zenon DEF Encap, Ciphertexts
<1>6. init_as_sender(p) =
        [our_dh |-> k, their_dh |-> i, root |-> root,
         sending |-> chain, receiving |-> Nil, steps |-> 1,
         skipped |-> {}, dropped |-> {}, identity_secret |-> FALSE,
         confirmed |-> FALSE, hct |-> ct, transcript |-> p,
         pq_our |-> k, pq_prev |-> Nil, pq_their |-> i,
         pq_sent |-> Nil, pq_recv |-> Nil, pq_mixed |-> Nil, born |-> k]
  BY Zenon DEF init_as_sender, q, k, i, first, root, chain, ct
<1> HIDE DEF chain, ct
<1>7. init_as_sender(p) \in Sessions
  BY <1>1, <1>3, <1>4, <1>5, <1>6 DEF Sessions
<1>8. Blank(init_as_sender(p), k) /\ init_as_sender(p).sending = chain
  BY <1>6 DEF Blank
<1>9. chain # Nil
  BY <1>4, RatchetAssumption, Zenon
<1> QED BY <1>3, <1>4, <1>7, <1>8, <1>9, Zenon DEF k, i, q

\* The key pair of the next step is new, and not that of the session.
LEMMA NextDh ==
    ASSUME TypeOK, NEW p \in Parties, NEW s \in Sessions
    PROVE  /\ next_dh(p, s) \in KeyPairs /\ next_dh(p, s)[1] = p
           /\ next_dh(p, s)[2] > keys[p] /\ ~Known(next_dh(p, s))
           /\ s.our_dh = Fresh(p, 1) => next_dh(p, s)[2] > s.our_dh[2]
<1>1. keys[p] \in Nat
  BY DEF TypeOK
<1>2. CASE s.our_dh = Fresh(p, 1)
  BY <1>1, FreshKey DEF next_dh
<1>3. CASE s.our_dh # Fresh(p, 1)
  BY <1>1, FreshKey DEF next_dh
<1> QED BY <1>2, <1>3, Zenon

\* A session made from the ciphertext of a message.
Rebuilt(p, m, s) == m.ct \in Ciphertexts /\ s = init_as_receiver(p, m.ct)

\* A message opens in the session on file, or in one made for it.
Opening(p, m, s, t) ==
    /\ s \in Sessions /\ t \in Sessions
    /\ s = sessions[p]["id"] \/ Rebuilt(p, m, s)
    /\ Opens(s, t, m, next_dh(p, s))
    /\ open(p, t, m)

\* A message does not open: the session is replaced, kept, or there is none.
Refusing(p, m, t) ==
    /\ set_session(p, "id", t)
    /\ refused' = refused \cup {m.id}
    /\ UNCHANGED <<opened, reopened>>
    /\ \/ /\ Rebuilt(p, m, t)
          /\ keys' = [keys EXCEPT ![p] = @ + 1]
       \/ /\ m.ct = Nil /\ UNCHANGED keys
          /\ \/ t = Nil /\ sessions[p]["id"] = Nil
             \/ sessions[p]["id"] # Nil /\ t = with_pq_fields(sessions[p]["id"], m)

Arrival(p, m) ==
    \/ \E s, t : Opening(p, m, s, t)
    \/ \E t : Refusing(p, m, t)

\* Receive does one or the other.
LEMMA ReceiveKinds ==
    ASSUME TypeOK, NEW m \in wire, Receive(m)
    PROVE  /\ m \in Envelopes /\ Other(m.from) \in Parties
           /\ Arrival(Other(m.from), m)
           /\ keys'[Other(m.from)] <= MaxKeys
           /\ UNCHANGED <<filing, wire, restarts>>
<1> DEFINE p == Other(m.from)
           s == first_session(p, m)
           r == rebuilt(p, m)
           first == IF s = Nil THEN {} ELSE decrypt_message_ratcheted(p, s, m, next_dh(p, s))
           second == IF r = Nil THEN {} ELSE decrypt_message_ratcheted(p, r, m, next_dh(p, r))
<1>1. m \in Envelopes /\ p \in Parties
  BY OtherParty, Zenon DEF TypeOK, Envelopes
<1>2. keys'[p] <= MaxKeys /\ UNCHANGED <<filing, wire, restarts>>
  BY Zenon DEF Receive
<1>3. sessions[p]["id"] \in Sessions \cup {Nil} /\ m.ct \in Ciphertexts \cup {Nil}
  BY <1>1 DEF TypeOK, Slots, Envelopes
<1>4. \/ \E t \in first : open(p, t, m)
      \/ \E t \in second : open(p, t, m)
      \/ /\ set_session(p, RecvSlot, IF r # Nil \/ s = Nil THEN r ELSE after_failure(p, s, m))
         /\ refused' = refused \cup {m.id}
         /\ keys' = [keys EXCEPT ![p] = @ + (IF r # Nil THEN 1 ELSE 0)]
         /\ UNCHANGED <<opened, reopened>>
  BY Zenon DEF Receive
<1> HIDE DEF p
<1>5. r # Nil => Rebuilt(p, m, r) /\ r \in Sessions
  BY <1>1, <1>3, NewReceiver, Zenon DEF rebuilt, Rebuilt
<1>6. s # Nil => s \in Sessions /\ (s = sessions[p]["id"] \/ Rebuilt(p, m, s))
  BY <1>1, <1>3, NewReceiver, Zenon DEF first_session, Rebuilt, RecvSlot
<1>7. r = Nil => m.ct = Nil /\ s = sessions[p]["id"]
  BY <1>1, <1>3, NewReceiver, RatchetAssumption DEF rebuilt, first_session, RecvSlot
<1> HIDE DEF s, r
<1>8. ASSUME NEW t \in first, open(p, t, m)
      PROVE  Arrival(p, m)
  BY <1>8, <1>1, <1>6, NextDh, MessageOpens, Zenon DEF Arrival, Opening
<1>9. ASSUME NEW t \in second, open(p, t, m)
      PROVE  Arrival(p, m)
  BY <1>9, <1>1, <1>5, NextDh, MessageOpens, Zenon DEF Arrival, Opening
<1>10. ASSUME set_session(p, RecvSlot, IF r # Nil \/ s = Nil THEN r ELSE after_failure(p, s, m)),
              refused' = refused \cup {m.id},
              keys' = [keys EXCEPT ![p] = @ + (IF r # Nil THEN 1 ELSE 0)],
              UNCHANGED <<opened, reopened>>
       PROVE  Arrival(p, m)
  <2> DEFINE t == IF r # Nil \/ s = Nil THEN r ELSE after_failure(p, s, m)
  <2>0. keys[p] \in Nat /\ keys = [keys EXCEPT ![p] = @ + 0]
    BY <1>1 DEF TypeOK
  <2>1. CASE r # Nil
    BY <1>10, <2>1, <1>5, Zenon DEF Arrival, Refusing, RecvSlot
  <2>2. CASE r = Nil
    BY <1>10, <2>0, <2>2, <1>7, Zenon DEF Arrival, Refusing, RecvSlot, after_failure
  <2> QED BY <2>1, <2>2, Zenon
<1> HIDE DEF first, second
<1>11. Arrival(p, m)
  BY <1>4, <1>8, <1>9, <1>10, Zenon
<1> QED BY <1>1, <1>2, <1>11, Zenon DEF p

\* The type invariant, with what the limit of the cache rests on.
Typed ==
    /\ TypeOK /\ IsFiniteSet(wire)
    /\ \A p \in Parties, c \in Slots :
          sessions[p][c] # Nil => IsFiniteSet(sessions[p][c].skipped)

\* What encrypting a message does to a session.
Advanced(s, t) ==
    /\ t.sending = [key |-> s.sending.key, index |-> s.sending.index + 1]
    /\ t.our_dh = s.our_dh /\ t.their_dh = s.their_dh /\ t.root = s.root
    /\ t.receiving = s.receiving /\ t.skipped = s.skipped /\ t.dropped = s.dropped
    /\ t.born = s.born /\ t.hct = s.hct /\ t.transcript = s.transcript
    /\ t.confirmed = s.confirmed

\* encrypt moves the sending chain on by one.
LEMMA Encrypted ==
    ASSUME NEW s \in Sessions, s.sending \in Chains
    PROVE  encrypt(s) \in Sessions /\ Advanced(s, encrypt(s))
<1> DEFINE c == [key |-> s.sending.key, index |-> s.sending.index + 1]
<1>1. c \in Chains
  BY DEF Chains
<1>2. c = [s.sending EXCEPT !.index = @ + 1]
  BY DEF Chains
<1>3. encrypt(s) = [s EXCEPT !.sending = c]
  BY <1>2 DEF encrypt
<1> HIDE DEF c
<1>4. encrypt(s) \in Sessions
  BY <1>1, <1>3 DEF Sessions
<1>5. /\ encrypt(s).sending = c
      /\ encrypt(s).our_dh = s.our_dh /\ encrypt(s).their_dh = s.their_dh
      /\ encrypt(s).root = s.root /\ encrypt(s).receiving = s.receiving
      /\ encrypt(s).skipped = s.skipped /\ encrypt(s).dropped = s.dropped
      /\ encrypt(s).born = s.born /\ encrypt(s).hct = s.hct
      /\ encrypt(s).transcript = s.transcript
  BY <1>3 DEF Sessions
<1>6. encrypt(s).confirmed = s.confirmed
  BY <1>3 DEF Sessions
<1> QED BY <1>4, <1>5, <1>6, Zenon DEF Advanced, c

\* A post-quantum step changes only what belongs to it.
LEMMA PqStepped ==
    ASSUME TypeOK, NEW p \in Parties, NEW s \in Sessions, NEW a, Advanced(a, s)
    PROVE  perform_pq_ratchet_step(p, s) \in Sessions
           /\ Advanced(a, perform_pq_ratchet_step(p, s))
<1> DEFINE k == Fresh(p, 1)
           secret == <<k>>
           x == [s EXCEPT !.pq_sent = secret]
           y == [x EXCEPT !.pq_prev = s.pq_our]
           t == [y EXCEPT !.pq_our = k]
<1>1. k \in KeyPairs
  BY FreshKey
<1>2. secret \in Secrets
  BY <1>1 DEF Secrets
<1>3. perform_pq_ratchet_step(p, s) = t
  BY DEF perform_pq_ratchet_step
<1> HIDE DEF k, secret
<1>4. x \in Sessions
  BY <1>2 DEF Sessions
<1>5. Advanced(a, x)
  BY DEF Advanced, Sessions
<1> HIDE DEF x
<1>6. y \in Sessions
  BY <1>4 DEF Sessions
<1>7. Advanced(a, y)
  BY <1>5 DEF Advanced, Sessions
<1> HIDE DEF y
<1>8. t \in Sessions
  BY <1>1, <1>6 DEF Sessions
<1>9. Advanced(a, t)
  BY <1>7 DEF Advanced, Sessions
<1> QED BY <1>3, <1>8, <1>9

\* A message sent by session s of p, which becomes t.
Sending(p, c, s, t, m) ==
    /\ s \in Sessions /\ s.sending \in Chains
    /\ t \in Sessions /\ Advanced(s, t)
    /\ m \in Envelopes /\ m.from = p /\ m.id = Cardinality(wire) /\ m.dh = s.our_dh
    /\ m.number = s.sending.index /\ m.key = <<s.sending.key, s.sending.index>>
    /\ ~s.confirmed => m.transcript = s.transcript /\ m.ct = s.hct
    /\ set_session(p, c, t) /\ wire' = wire \cup {m}
    /\ \/ s = sessions[p][c] /\ keys' \in {keys, [keys EXCEPT ![p] = @ + 1]}
       \/ s = init_as_sender(p) /\ keys' = [keys EXCEPT ![p] = @ + 1]

\* Send sends one message, by the session on file or by one made from the bundle.
LEMMA SendKinds ==
    ASSUME Typed, NEW p \in Parties, Send(p)
    PROVE  /\ SendSlot \in Slots /\ \E s, t, m : Sending(p, SendSlot, s, t, m)
           /\ keys'[p] <= MaxKeys
           /\ UNCHANGED <<filing, opened, reopened, refused, restarts>>
<1> DEFINE s0 == sessions[p][SendSlot]
           s == IF s0 = Nil THEN init_as_sender(p) ELSE s0
           m == envelope(p, s)
           due == pq_step_due(s, m.number)
           t == IF due THEN perform_pq_ratchet_step(p, encrypt(s)) ELSE encrypt(s)
<1>1. SendSlot \in Slots
  BY DEF SendSlot, Slots
<1>2. s.sending # Nil /\ set_session(p, SendSlot, t) /\ wire' = wire \cup {m}
  BY Zenon DEF Send
<1>3. /\ keys' = [keys EXCEPT ![p] = @ + IF s0 = Nil \/ due THEN 1 ELSE 0]
      /\ keys'[p] <= MaxKeys
      /\ UNCHANGED <<filing, opened, reopened, refused, restarts>>
  BY Zenon DEF Send
<1>4. s0 \in Sessions \cup {Nil} /\ TypeOK
  BY <1>1, Zenon DEF Typed, TypeOK
<1>5. s \in Sessions
  BY <1>4, NewSender, Zenon
<1> HIDE DEF s0
<1>6. (s0 # Nil /\ s = s0) \/ (s0 = Nil /\ s = init_as_sender(p))
  OBVIOUS
<1> HIDE DEF s
<1>7. s.sending \in Chains /\ s.sending.key \in Roots /\ s.sending.index \in Nat
  BY <1>2, <1>5, Zenon DEF Sessions, Chains
<1>8. t \in Sessions /\ Advanced(s, t)
  <2>1. encrypt(s) \in Sessions /\ Advanced(s, encrypt(s))
    BY <1>5, <1>7, Encrypted, Zenon
  <2> HIDE DEF due
  <2> QED BY <1>4, <2>1, PqStepped, Zenon
<1>9. m \in Envelopes
  <2> DEFINE n == s.sending.index
             ct == IF ~s.confirmed THEN s.hct
                   ELSE IF pq_step_due(s, n) THEN Encap(s.pq_their, Fresh(p, 1)) ELSE Nil
             ek == IF ~s.confirmed THEN s.pq_our
                   ELSE IF pq_step_due(s, n) THEN Fresh(p, 1) ELSE Nil
             tr == IF s.confirmed THEN Nil ELSE s.transcript
             id == Cardinality(wire)
             key == <<s.sending.key, n>>
  <2>1. id \in Nat
    BY FS_CardinalityType, Zenon DEF Typed
  <2>2. Fresh(p, 1) \in KeyPairs
    BY <1>4, FreshKey
  <2>3. ct \in Ciphertexts \cup {Nil}
    BY <1>5, <2>2, Zenon DEF pq_step_due, Encap, Ciphertexts, Sessions
  <2>4. ek \in KeyPairs \cup {Nil}
    BY <1>5, <2>2, Zenon DEF Sessions
  <2>5. tr \in Parties \cup {Nil}
    BY <1>5, Zenon DEF Sessions
  <2>6. n \in Nat /\ key \in Roots \X Nat /\ s.our_dh \in KeyPairs
    BY <1>5, <1>7, Zenon DEF Sessions
  <2>7. m = [from |-> p, id |-> id, dh |-> s.our_dh, number |-> n, key |-> key,
             transcript |-> tr, ct |-> ct, ek |-> ek]
    BY Zenon DEF envelope
  <2> HIDE DEF n, ct, ek, tr, id, key, m
  <2> QED BY <2>1, <2>3, <2>4, <2>5, <2>6, <2>7, Zenon DEF Envelopes
<1>10. /\ m.from = p /\ m.id = Cardinality(wire) /\ m.dh = s.our_dh
       /\ m.number = s.sending.index /\ m.key = <<s.sending.key, s.sending.index>>
  BY Zenon DEF envelope
<1>11. ~s.confirmed => m.transcript = s.transcript /\ m.ct = s.hct
  BY Zenon DEF envelope
<1> HIDE DEF due, t, m
<1>12. \/ s = sessions[p][SendSlot] /\ keys' \in {keys, [keys EXCEPT ![p] = @ + 1]}
       \/ s = init_as_sender(p) /\ keys' = [keys EXCEPT ![p] = @ + 1]
  <2>1. keys = [keys EXCEPT ![p] = @ + 0]
    BY <1>4 DEF TypeOK
  <2> QED BY <1>3, <1>6, <2>1, Zenon DEF s0
<1>13. Sending(p, SendSlot, s, t, m)
  BY <1>2, <1>5, <1>7, <1>8, <1>9, <1>10, <1>11, <1>12, Zenon DEF Sending
<1> QED BY <1>1, <1>3, <1>13, Zenon

-----------------------------------------------------------------------------
\* One place of the session table changes, to t.
Placed(p, c, t) ==
    /\ sessions' \in [Parties -> [Slots -> Sessions \cup {Nil}]]
    /\ sessions'[p][c] = t
    /\ \A q \in Parties, d \in Slots : <<q, d>> # <<p, c>> => sessions'[q][d] = sessions[q][d]

\* set_session changes one place.
LEMMA SetPlaced ==
    ASSUME TypeOK, NEW p \in Parties, NEW c \in Slots, NEW t \in Sessions \cup {Nil},
           set_session(p, c, t)
    PROVE  Placed(p, c, t)
<1>1. sessions \in [Parties -> [Slots -> Sessions \cup {Nil}]]
  BY Zenon DEF TypeOK
<1>2. sessions' = [sessions EXCEPT ![p] = [sessions[p] EXCEPT ![c] = t]]
  BY DEF set_session
<1> QED BY <1>1, <1>2, Zenon DEF Placed

\* The part of the type invariant that concerns the sessions.
LEMMA PlacedTyped ==
    ASSUME Typed, NEW p \in Parties, NEW c \in Slots, NEW t, Placed(p, c, t),
           t # Nil => Small(t),
           filing' = filing,
           wire' \subseteq Envelopes, wire \subseteq wire', IsFiniteSet(wire'),
           keys' \in [Parties -> 0..MaxKeys],
           opened' \subseteq KeyPairs \X {m.id : m \in wire'},
           reopened' \subseteq opened',
           refused' \subseteq {m.id : m \in wire'},
           restarts' \in 0..MaxRestarts
    PROVE  Typed'
<1>1. ASSUME NEW q \in Parties, NEW d \in Slots, sessions'[q][d] # Nil
      PROVE  Small(sessions'[q][d])
  BY <1>1 DEF Placed, Small, Typed, TypeOK
<1> QED BY <1>1, Zenon DEF Typed, TypeOK, Small, Placed

\* The session on file is well typed.
LEMMA OnFile ==
    ASSUME Typed, NEW p \in Parties, NEW c \in Slots
    PROVE  /\ sessions[p][c] \in Sessions \cup {Nil}
           /\ sessions[p][c] # Nil => Small(sessions[p][c])
BY Zenon DEF Typed, TypeOK, Small

\* So is a new one.
LEMMA BlankSmall ==
    ASSUME NEW s, NEW k, Blank(s, k)
    PROVE  Small(s)
BY FS_EmptySet, RatchetAssumption DEF Blank, Small

\* The arrival of a message keeps the types.
LEMMA TypedArrival ==
    ASSUME Typed, NEW m \in wire, NEW p \in Parties, Arrival(p, m),
           keys'[p] <= MaxKeys, UNCHANGED <<filing, wire, restarts>>
    PROVE  Typed'
<1>0. m \in Envelopes /\ TypeOK /\ "id" \in Slots /\ keys \in [Parties -> 0..MaxKeys]
  BY Zenon DEF Typed, TypeOK, Slots
<1>1. ASSUME NEW s, NEW t, Opening(p, m, s, t)
      PROVE  Typed'
  <2>1. s \in Sessions /\ t \in Sessions /\ Opens(s, t, m, next_dh(p, s)) /\ open(p, t, m)
        /\ (s = sessions[p]["id"] \/ Rebuilt(p, m, s))
    BY <1>1, Zenon DEF Opening
  <2>2. Small(s)
    BY <1>0, <2>1, OnFile, RatchetAssumption, NewReceiver, BlankSmall DEF Rebuilt
  <2>3. Small(t)
    BY <1>0, <2>1, <2>2, OpensSmall, Zenon
  <2>4. Placed(p, "id", t)
    BY <1>0, <2>1, SetPlaced, Zenon DEF open, RecvSlot
  <2>5. t.born \in KeyPairs /\ t.our_dh[2] \in Nat
    BY <2>1, Zenon DEF Sessions, KeyPairs
  <2>6. keys' \in [Parties -> 0..MaxKeys]
    BY <2>1, <1>0, <2>5 DEF open
  <2>7. opened' = opened \cup {<<t.born, m.id>>} /\ UNCHANGED refused
        /\ reopened' = reopened \cup ({<<t.born, m.id>>} \cap opened)
    BY <2>1, Zenon DEF open
  <2>8. opened' \subseteq KeyPairs \X {x.id : x \in wire'} /\ reopened' \subseteq opened'
        /\ refused' \subseteq {x.id : x \in wire'}
    BY <1>0, <2>5, <2>7 DEF TypeOK
  <2>9. wire' \subseteq Envelopes /\ IsFiniteSet(wire') /\ wire \subseteq wire'
        /\ restarts' \in 0..MaxRestarts /\ filing' = filing
    BY Zenon DEF Typed, TypeOK
  <2> QED BY <1>0, <2>3, <2>4, <2>6, <2>8, <2>9, PlacedTyped, Zenon
<1>2. ASSUME NEW t, Refusing(p, m, t)
      PROVE  Typed'
  <2>1. t \in Sessions \cup {Nil} /\ (t # Nil => Small(t))
    BY <1>0, NewReceiver, BlankSmall, OnFile, PqFieldsType, <1>2 DEF Rebuilt, Same, Small, Refusing
  <2>2. Placed(p, "id", t)
    BY <1>0, <1>2, <2>1, SetPlaced, Zenon DEF Refusing
  <2>3. keys' \in [Parties -> 0..MaxKeys]
    BY <1>2, <1>0 DEF Refusing
  <2>4. refused' = refused \cup {m.id} /\ UNCHANGED <<opened, reopened>>
    BY <1>2, Zenon DEF Refusing
  <2>5. opened' \subseteq KeyPairs \X {x.id : x \in wire'} /\ reopened' \subseteq opened'
        /\ refused' \subseteq {x.id : x \in wire'}
    BY <1>0, <2>4, Zenon DEF TypeOK
  <2>6. wire' \subseteq Envelopes /\ IsFiniteSet(wire') /\ wire \subseteq wire'
        /\ restarts' \in 0..MaxRestarts /\ filing' = filing
    BY DEF Typed, TypeOK
  <2> QED BY <1>0, <2>1, <2>2, <2>3, <2>5, <2>6, PlacedTyped, Zenon
<1> QED BY <1>1, <1>2, Zenon DEF Arrival

\* A step that at most drops sessions: a restart, a reset, or nothing.
Drops ==
    /\ sessions' \in [Parties -> [Slots -> Sessions \cup {Nil}]]
    /\ \A q \in Parties, d \in Slots : sessions'[q][d] = sessions[q][d] \/ sessions'[q][d] = Nil
    /\ restarts' \in 0..MaxRestarts
    /\ UNCHANGED <<filing, wire, keys, opened, reopened, refused>>

Sends(p, c) ==
    /\ \E s, t, m : Sending(p, c, s, t, m)
    /\ keys'[p] <= MaxKeys /\ c = SendSlot
    /\ UNCHANGED <<filing, opened, reopened, refused, restarts>>

Arrives(p, m) ==
    /\ p = Other(m.from) /\ Arrival(p, m)
    /\ keys'[p] <= MaxKeys /\ UNCHANGED <<filing, wire, restarts>>

\* Every step sends a message, brings one, or at most drops sessions.
LEMMA NextKinds ==
    ASSUME Typed, [Next]_vars
    PROVE  \/ Drops
           \/ \E p \in Parties, c \in Slots : Sends(p, c)
           \/ \E p \in Parties, m \in wire : Arrives(p, m)
<1>0. /\ TypeOK /\ sessions \in [Parties -> [Slots -> Sessions \cup {Nil}]]
      /\ restarts \in 0..MaxRestarts
  BY Zenon DEF Typed, TypeOK
<1>1. ASSUME NEW p \in Parties, Send(p)
      PROVE  \E c \in Slots : Sends(p, c)
  BY <1>1, SendKinds, Zenon DEF Sends
<1>2. ASSUME NEW p \in Parties, Restart(p)
      PROVE  Drops
  BY <1>0, <1>2, RatchetAssumption DEF Restart, Drops
<1>3. ASSUME NEW p \in Parties, NEW c \in Slots, ratchet_reset_session(p, c)
      PROVE  Drops
  BY <1>0, <1>3, SetPlaced, RatchetAssumption DEF ratchet_reset_session, Drops, Placed
<1>4. ASSUME NEW m \in wire, Receive(m)
      PROVE  \E p \in Parties : Arrives(p, m)
  BY <1>0, <1>4, ReceiveKinds, Zenon DEF Arrives
<1>5. CASE UNCHANGED vars
  BY <1>0, <1>5, Zenon DEF vars, Drops
<1> QED BY <1>1, <1>2, <1>3, <1>4, <1>5, Zenon DEF Next

\* So does the sending of one.
LEMMA TypedSends ==
    ASSUME Typed, NEW p \in Parties, NEW c \in Slots, Sends(p, c)
    PROVE  Typed'
<1>0. TypeOK /\ keys \in [Parties -> 0..MaxKeys] /\ wire \subseteq Envelopes
  BY Zenon DEF Typed, TypeOK
<1>1. PICK s, t, m : Sending(p, c, s, t, m)
  BY Zenon DEF Sends
<1>2. s \in Sessions /\ t \in Sessions /\ Advanced(s, t) /\ m \in Envelopes
      /\ set_session(p, c, t) /\ wire' = wire \cup {m}
  BY <1>1, Zenon DEF Sending
<1>3. Small(s)
  BY OnFile, RatchetAssumption, <1>0, NewSender, BlankSmall, <1>1 DEF Sending
<1>4. Small(t)
  BY <1>2, <1>3, Zenon DEF Advanced, Small
<1>5. Placed(p, c, t)
  BY <1>0, <1>2, SetPlaced, Zenon
<1>6. keys' \in [Parties -> 0..MaxKeys]
  BY <1>0 DEF Sending, Sends
<1>7. wire' \subseteq Envelopes /\ wire \subseteq wire' /\ IsFiniteSet(wire')
  BY <1>0, <1>2, FS_AddElement, Zenon DEF Typed
<1>8. opened' \subseteq KeyPairs \X {x.id : x \in wire'} /\ reopened' \subseteq opened'
      /\ refused' \subseteq {x.id : x \in wire'}
  BY <1>2, Zenon DEF Sends, Typed, TypeOK
<1>9. restarts' \in 0..MaxRestarts /\ filing' = filing
  BY Zenon DEF Sends, Typed, TypeOK
<1> QED BY <1>4, <1>5, <1>6, <1>7, <1>8, <1>9, PlacedTyped, Zenon

\* So do restarts and resets.
LEMMA TypedDrops ==
    ASSUME Typed, Drops
    PROVE  Typed'
<1> QED BY Zenon DEF Drops, Typed, TypeOK

\* The initial states are well typed.
LEMMA TypedInit ==
    ASSUME Init
    PROVE  Typed
BY FS_EmptySet, RatchetAssumption DEF Init, Typed, TypeOK

\* Typed is inductive.
LEMMA TypedAlways == Spec => []Typed
<1>1. Typed /\ [Next]_vars => Typed'
  <2> SUFFICES ASSUME Typed, [Next]_vars PROVE Typed'
    OBVIOUS
  <2>1. ASSUME NEW p \in Parties, NEW m \in wire, Arrives(p, m)
        PROVE  Typed'
    BY <2>1, TypedArrival, Zenon DEF Arrives
  <2> QED BY <2>1, NextKinds, TypedSends, TypedDrops
<1> QED BY <1>1, TypedInit, PTL DEF Spec

\* The sessions are well typed, and the cache of skipped keys never grows past
\* MAX_SKIP_KEYS (get_message_key evicts before it stores).
THEOREM RatchetTyping == Spec => []TypeOK
<1>1. Typed => TypeOK
  BY Zenon DEF Typed
<1> QED BY <1>1, TypedAlways, PTL

-----------------------------------------------------------------------------
\* What is on the wire and what is in a session comes from key pairs that have
\* been generated.
DatedMessage(K, m) ==
    m.key[2] = m.number /\ KnownBy(K, m.dh) /\ \A x \in Pair(m.key[1]) : KnownBy(K, x)

DatedSession(K, p, s) ==
    /\ s.our_dh[1] = p /\ KnownBy(K, s.our_dh)
    /\ s.born[1] = p /\ KnownBy(K, s.born)
    /\ s.sending # Nil => \A x \in Pair(s.sending.key) : KnownBy(K, x)

Numbered(W) ==
    /\ \A m \in W : m.id < Cardinality(W)
    /\ \A m1, m2 \in W : m1.id = m2.id => m1 = m2

Dated ==
    /\ Numbered(wire)
    /\ \A m \in wire : DatedMessage(keys, m)
    /\ \A o \in opened : KnownBy(keys, o[1])
    /\ \A p \in Parties, c \in Slots :
          sessions[p][c] # Nil => DatedSession(keys, p, sessions[p][c])

\* Key pairs are only added.
Grows == \A q \in Parties : keys[q] <= keys'[q]

\* A key pair stays known.
LEMMA KnownGrows ==
    ASSUME Typed, Typed', Grows, NEW k, KnownBy(keys, k)
    PROVE  KnownBy(keys', k)
<1>1. k[1] \in Parties /\ k[2] \in Nat
  BY Zenon DEF KnownBy, KeyPairs
<1>2. keys[k[1]] \in Nat /\ keys'[k[1]] \in Nat
  BY <1>1 DEF Typed, TypeOK
<1> QED BY <1>1, <1>2 DEF Grows, KnownBy

\* A session keeps its sending chain, its key pair and its name.
Quietly(s, t) ==
    s # Nil /\ t.our_dh = s.our_dh /\ t.born = s.born /\ t.sending = s.sending

\* A session gets a new key pair, and with it a new sending chain or none.
Freshly(p, s, t) ==
    /\ t.our_dh[1] = p /\ ~KnownBy(keys, t.our_dh) /\ KnownBy(keys', t.our_dh)
    /\ \/ s # Nil /\ t.born = s.born
       \/ t.born[1] = p /\ ~KnownBy(keys, t.born) /\ KnownBy(keys', t.born)
    /\ t.sending # Nil =>
          /\ t.our_dh \in Pair(t.sending.key)
          /\ \A x \in Pair(t.sending.key) : KnownBy(keys', x)

Outgoing(p, s, t) == t = Nil \/ Quietly(s, t) \/ Freshly(p, s, t)

\* What opening a message does to the sending side.
LEMMA OpeningOutgoing ==
    ASSUME Typed, Typed', Dated, NEW p \in Parties, NEW m \in wire, NEW s, NEW t,
           Opening(p, m, s, t)
    PROVE  Grows /\ Placed(p, "id", t) /\ Outgoing(p, sessions[p]["id"], t)
<1> DEFINE k == next_dh(p, s)
<1>0. TypeOK /\ "id" \in Slots /\ m \in Envelopes /\ keys[p] \in Nat
  BY DEF Typed, TypeOK, Slots
<1>1. s \in Sessions /\ t \in Sessions /\ Opens(s, t, m, k) /\ open(p, t, m)
      /\ (s = sessions[p]["id"] \/ Rebuilt(p, m, s))
  BY Zenon DEF Opening
<1>2. s # Nil
  BY <1>1, RatchetAssumption, Zenon
<1>3. Placed(p, "id", t)
  BY <1>0, <1>1, SetPlaced, Zenon DEF open, RecvSlot
<1>4. t.our_dh \in KeyPairs /\ t.our_dh[2] \in Nat
  BY <1>1, Zenon DEF Sessions, KeyPairs
<1>5. keys' = [keys EXCEPT ![p] = IF t.our_dh[2] > keys[p] THEN t.our_dh[2] ELSE keys[p]]
      /\ keys \in [Parties -> 0..MaxKeys]
  BY <1>0, <1>1, Zenon DEF open, TypeOK
<1>6. Grows /\ t.our_dh[2] <= keys'[p]
  BY <1>4, <1>5 DEF Grows
<1>7. /\ k \in KeyPairs /\ k[1] = p /\ k[2] > keys[p] /\ ~KnownBy(keys, k)
      /\ s.our_dh = Fresh(p, 1) => k[2] > s.our_dh[2]
  BY <1>0, <1>1, NextDh, Zenon DEF Known
<1>8. Rebuilt(p, m, s) => /\ s.our_dh = Fresh(p, 1) /\ s.born = Fresh(p, 1)
                          /\ s.receiving = Nil /\ s.skipped = {}
  <2>1. Rebuilt(p, m, s) => Blank(s, Fresh(p, 1))
    BY <1>0, NewReceiver, Zenon DEF Rebuilt
  <2> QED BY <2>1, Zenon DEF Blank
<1> HIDE DEF k
<1>9. CASE FromCache(s, t, m) \/ FromChain(s, t, m)
  BY <1>8, <1>9, <1>2, <1>1, <1>3, <1>6, Zenon DEF FromCache, FromChain, InChain, cached, Quietly, Outgoing
<1>10. CASE FromRatchet(s, t, m, k)
  <2>1. PICK b \in Sessions : Ratcheted(s, b, m.dh, k) /\ InChain(b, t, m.number)
    BY <1>10, Zenon DEF FromRatchet
  <2>2. t.our_dh = k /\ t.born = s.born /\ t.sending = Chain(b.root) /\ Pair(b.root) = {k, m.dh}
        /\ Chain(b.root).key = b.root
    BY <2>1, Zenon DEF Ratcheted, InChain, Chain
  <2>3. KnownBy(keys', k)
    BY <1>6, <1>7, <2>2, Zenon DEF KnownBy
  <2>4. KnownBy(keys', m.dh)
    BY <1>6, KnownGrows, Zenon DEF Dated, DatedMessage
  <2>5. \/ sessions[p]["id"] # Nil /\ t.born = sessions[p]["id"].born
        \/ t.born[1] = p /\ ~KnownBy(keys, t.born) /\ KnownBy(keys', t.born)
    <3>1. CASE Rebuilt(p, m, s)
      <4>1. t.born = Fresh(p, 1) /\ k[2] > Fresh(p, 1)[2]
        BY <1>7, <1>8, <2>2, <3>1, Zenon
      <4>2. Fresh(p, 1) \in KeyPairs /\ Fresh(p, 1)[1] = p /\ Fresh(p, 1)[2] = keys[p] + 1
            /\ ~KnownBy(keys, Fresh(p, 1))
        BY <1>0, FreshKey DEF Known
      <4>3. keys'[p] \in Nat /\ k[2] \in Nat
        BY <1>7 DEF Typed, TypeOK, KeyPairs
      <4>4. KnownBy(keys', Fresh(p, 1))
        BY <1>0, <1>6, <2>2, <4>1, <4>2, <4>3 DEF KnownBy
      <4> QED BY <4>1, <4>2, <4>4, Zenon
    <3>2. CASE s = sessions[p]["id"]
      BY <1>2, <2>2, <3>2, Zenon
    <3> QED BY <1>1, <3>1, <3>2, Zenon
  <2>6. Freshly(p, sessions[p]["id"], t)
    BY <1>7, <2>2, <2>3, <2>4, <2>5, Zenon DEF Freshly
  <2> QED BY <1>3, <1>6, <2>6, Zenon DEF Outgoing
<1> QED BY <1>1, <1>9, <1>10, Zenon DEF Opens

\* What refusing a message does to it.
LEMMA RefusingOutgoing ==
    ASSUME Typed, NEW p \in Parties, NEW m \in wire, NEW t, Refusing(p, m, t)
    PROVE  Grows /\ Placed(p, "id", t) /\ Outgoing(p, sessions[p]["id"], t)
<1>0. TypeOK /\ "id" \in Slots /\ m \in Envelopes /\ keys \in [Parties -> Nat]
      /\ sessions[p]["id"] \in Sessions \cup {Nil}
  BY DEF Typed, TypeOK, Slots
<1>1. CASE Rebuilt(p, m, t) /\ keys' = [keys EXCEPT ![p] = keys[p] + 1]
  <2>1. t \in Sessions /\ t.our_dh = Fresh(p, 1) /\ t.born = Fresh(p, 1) /\ t.sending = Nil
    BY <1>0, <1>1, NewReceiver, Zenon DEF Rebuilt, Blank
  <2>2. Fresh(p, 1) \in KeyPairs /\ Fresh(p, 1)[1] = p /\ Fresh(p, 1)[2] = keys[p] + 1
        /\ ~KnownBy(keys, Fresh(p, 1))
    BY <1>0, FreshKey DEF Known
  <2>3. KnownBy(keys', Fresh(p, 1)) /\ Grows
    BY <1>0, <1>1, <2>2 DEF KnownBy, Grows
  <2>4. Freshly(p, sessions[p]["id"], t)
    BY <2>1, <2>2, <2>3, Zenon DEF Freshly
  <2>5. Placed(p, "id", t)
    BY <1>0, <2>1, SetPlaced, Zenon DEF Refusing
  <2> QED BY <2>3, <2>4, <2>5, Zenon DEF Outgoing
<1>2. CASE UNCHANGED keys /\ t = Nil
  BY <1>0, <1>2, SetPlaced DEF Refusing, Grows, Outgoing
<1>3. CASE UNCHANGED keys /\ sessions[p]["id"] # Nil /\ t = with_pq_fields(sessions[p]["id"], m)
  BY <1>0, <1>3, PqFieldsType, SetPlaced DEF Refusing, Grows, Outgoing, Quietly, Same
<1> QED BY <1>1, <1>2, <1>3, Zenon DEF Refusing

\* Dated is kept by a change of one session.
LEMMA DatedPlaced ==
    ASSUME Typed, Typed', Dated, NEW p \in Parties, NEW c \in Slots, NEW t,
           Placed(p, c, t), Grows, t # Nil => DatedSession(keys', p, t),
           Numbered(wire'), \A m \in wire' : m \in wire \/ DatedMessage(keys', m),
           \A o \in opened' : o \in opened \/ KnownBy(keys', o[1])
    PROVE  Dated'
<1>1. ASSUME NEW m \in wire'
      PROVE  DatedMessage(keys', m)
  BY KnownGrows, Zenon DEF Dated, DatedMessage
<1>2. ASSUME NEW o \in opened'
      PROVE  KnownBy(keys', o[1])
  BY KnownGrows, Zenon DEF Dated
<1>3. ASSUME NEW q \in Parties, NEW d \in Slots, sessions'[q][d] # Nil
      PROVE  DatedSession(keys', q, sessions'[q][d])
  <2>1. CASE <<q, d>> = <<p, c>>
    BY <1>3, <2>1, Zenon DEF Placed
  <2>2. CASE <<q, d>> # <<p, c>>
    <3>1. sessions'[q][d] = sessions[q][d]
      BY <2>2, Zenon DEF Placed
    <3>2. PICK u : u = sessions[q][d]
      BY Zenon
    <3>3. DatedSession(keys, q, u)
      BY <1>3, <3>1, <3>2, Zenon DEF Dated
    <3>4. DatedSession(keys', q, u)
      BY <3>3, KnownGrows, Zenon DEF DatedSession
    <3> QED BY <3>1, <3>2, <3>4, Zenon
  <2> QED BY <2>1, <2>2, Zenon
<1> QED BY <1>1, <1>2, <1>3, Zenon DEF Dated

\* A session that keeps its key pair, or gets a new one, is dated.
LEMMA OutgoingDated ==
    ASSUME Typed, Typed', Dated, Grows, NEW p \in Parties, NEW c \in Slots, NEW t,
           Outgoing(p, sessions[p][c], t), t # Nil
    PROVE  DatedSession(keys', p, t)
<1>1. PICK s : s = sessions[p][c]
  BY Zenon
<1>2. s # Nil => DatedSession(keys, p, s)
  BY <1>1, Zenon DEF Dated
<1>3. CASE Quietly(s, t)
  BY <1>2, <1>3, KnownGrows, Zenon DEF Quietly, DatedSession
<1>4. CASE Freshly(p, s, t)
  BY <1>2, <1>4, KnownGrows, Zenon DEF Freshly, DatedSession
<1> QED BY <1>1, <1>3, <1>4, Zenon DEF Outgoing

\* The arrival of a message keeps them dated.
LEMMA DatedArrives ==
    ASSUME Typed, Typed', Dated, NEW p \in Parties, NEW m \in wire, Arrives(p, m)
    PROVE  Dated'
<1>0. "id" \in Slots /\ wire' = wire /\ Numbered(wire)
  BY Zenon DEF Slots, Arrives, Dated
<1>1. ASSUME NEW s, NEW t, Opening(p, m, s, t)
      PROVE  Dated'
  <2>1. Grows /\ Placed(p, "id", t) /\ Outgoing(p, sessions[p]["id"], t)
    BY <1>1, OpeningOutgoing, Zenon
  <2>2. t \in Sessions /\ opened' = opened \cup {<<t.born, m.id>>}
    BY <1>1, Zenon DEF Opening, open
  <2>3. t # Nil
    BY <2>2, RatchetAssumption, Zenon
  <2>4. DatedSession(keys', p, t)
    BY <1>0, <2>1, <2>3, OutgoingDated, Zenon
  <2>5. \A o \in opened' : o \in opened \/ KnownBy(keys', o[1])
    BY <2>2, <2>4 DEF DatedSession
  <2> QED BY <1>0, <2>1, <2>4, <2>5, DatedPlaced, Zenon
<1>2. ASSUME NEW t, Refusing(p, m, t)
      PROVE  Dated'
  BY <1>2, RefusingOutgoing, <1>0, OutgoingDated, DatedPlaced, Zenon DEF Refusing
<1> QED BY <1>1, <1>2, Zenon DEF Arrives, Arrival

\* The session a message is sent by.
LEMMA SenderFacts ==
    ASSUME Typed, Typed', Dated, NEW p \in Parties, NEW c \in Slots, NEW s, NEW t, NEW m,
           Sending(p, c, s, t, m)
    PROVE  /\ Grows /\ Placed(p, c, t) /\ s # Nil /\ s.sending # Nil
           /\ DatedSession(keys', p, s)
           /\ \/ s = sessions[p][c]
              \/ /\ ~KnownBy(keys, s.our_dh) /\ s.our_dh \in Pair(s.sending.key)
                 /\ ~KnownBy(keys, s.born) /\ Blank(s, s.born)
<1>0. TypeOK /\ keys \in [Parties -> Nat] /\ keys' \in [Parties -> Nat]
  BY DEF Typed, TypeOK
<1>1. /\ s \in Sessions /\ s.sending \in Chains /\ t \in Sessions /\ set_session(p, c, t)
      /\ \/ s = sessions[p][c] /\ keys' \in {keys, [keys EXCEPT ![p] = keys[p] + 1]}
         \/ s = init_as_sender(p) /\ keys' = [keys EXCEPT ![p] = keys[p] + 1]
  BY Zenon DEF Sending
<1>2. Grows
  BY <1>0, <1>1 DEF Grows
<1>3. Placed(p, c, t)
  BY <1>0, <1>1, SetPlaced, Zenon
<1>4. s # Nil /\ s.sending # Nil
  BY <1>1, RatchetAssumption, Zenon
<1>5. CASE s = sessions[p][c]
  <2>1. DatedSession(keys, p, s)
    BY <1>4, <1>5, Zenon DEF Dated
  <2>2. DatedSession(keys', p, s)
    BY <1>2, <2>1, KnownGrows, Zenon DEF DatedSession
  <2> QED BY <1>2, <1>3, <1>4, <1>5, <2>2, Zenon
<1>6. CASE s = init_as_sender(p) /\ keys' = [keys EXCEPT ![p] = keys[p] + 1]
  <2> DEFINE k == Fresh(p, 1)
             i == Identity(Other(p))
  <2>1. Blank(s, k) /\ Pair(s.sending.key) = {k, i}
    BY <1>0, <1>6, NewSender, Zenon
  <2>2. k \in KeyPairs /\ k[1] = p /\ k[2] = keys[p] + 1 /\ ~KnownBy(keys, k)
    BY <1>0, FreshKey DEF Known
  <2>3. KnownBy(keys', k)
    BY <1>0, <1>6, <2>2 DEF KnownBy
  <2>4. KnownBy(keys', i)
    BY <1>0, OtherParty DEF Identity, KeyPairs, KnownBy
  <2> HIDE DEF k, i
  <2>5. DatedSession(keys', p, s)
    BY <2>1, <2>2, <2>3, <2>4, Zenon DEF DatedSession, Blank
  <2> QED BY <1>2, <1>3, <1>4, <2>1, <2>2, <2>5, Zenon DEF Blank
<1> QED BY <1>1, <1>5, <1>6, Zenon

\* So does the sending of one.
LEMMA DatedSends ==
    ASSUME Typed, Typed', Dated, NEW p \in Parties, NEW c \in Slots, Sends(p, c)
    PROVE  Dated'
<1>1. PICK s, t, m : Sending(p, c, s, t, m)
  BY Zenon DEF Sends
<1>2. Grows /\ Placed(p, c, t) /\ s.sending # Nil /\ DatedSession(keys', p, s)
  BY <1>1, SenderFacts, Zenon
<1>3. /\ Advanced(s, t) /\ m.id = Cardinality(wire) /\ m.dh = s.our_dh
      /\ m.number = s.sending.index /\ m.key = <<s.sending.key, s.sending.index>>
      /\ wire' = wire \cup {m} /\ opened' = opened
  BY <1>1, Zenon DEF Sending, Sends
<1>4. t.sending.key = s.sending.key /\ t.our_dh = s.our_dh /\ t.born = s.born
  BY <1>3 DEF Advanced
<1>5. DatedSession(keys', p, t)
  BY <1>2, <1>4, Zenon DEF DatedSession
<1>6. DatedMessage(keys', m)
  BY <1>2, <1>3 DEF DatedSession, DatedMessage
<1>7. Numbered(wire')
  <2>1. Numbered(wire) /\ IsFiniteSet(wire)
    BY Zenon DEF Dated, Typed
  <2>2. m \notin wire /\ Cardinality(wire) \in Nat
    BY <1>3, <2>1, FS_CardinalityType DEF Numbered
  <2>3. Cardinality(wire') = Cardinality(wire) + 1
    BY <1>3, <2>1, <2>2, FS_AddElement, Zenon
  <2>4. \A x \in wire : x.id \in Nat
    BY Zenon DEF Typed, TypeOK, Envelopes
  <2> QED BY <1>3, <2>1, <2>2, <2>3, <2>4 DEF Numbered
<1> QED BY <1>2, <1>3, <1>5, <1>6, <1>7, DatedPlaced, Zenon

-----------------------------------------------------------------------------
\* The sending chain of session s is ahead of what it has sent (W is the wire),
\* and no other session (in T) has it.
Ahead(W, s) ==
    /\ s.sending # Nil =>
          \A m \in W : Pair(m.key[1]) = Pair(s.sending.key) =>
              m.key[1] = s.sending.key /\ m.number < s.sending.index /\ m.dh = s.our_dh
    /\ \A m \in W : m.dh = s.our_dh => s.sending # Nil /\ m.key[1] = s.sending.key

Apart(s, t) ==
    /\ s.our_dh # t.our_dh /\ s.born # t.born
    /\ s.sending # Nil /\ t.sending # Nil => Pair(s.sending.key) # Pair(t.sending.key)

Alone(T, p, c, s) ==
    \A q \in Parties, d \in Slots :
        <<q, d>> # <<p, c>> /\ T[q][d] # Nil => Apart(s, T[q][d])

Distinct ==
    /\ \A p \in Parties, c \in Slots : sessions[p][c] # Nil =>
          Ahead(wire, sessions[p][c]) /\ Alone(sessions, p, c, sessions[p][c])
    /\ \A m1, m2 \in wire : m1.dh = m2.dh <=> m1.key[1] = m2.key[1]
    /\ NoKeyReuse

\* A session that keeps its key pair keeps its chain to itself; so does one with a
\* new key pair, because nothing else can hold that.
LEMMA OutgoingAlone ==
    ASSUME Typed, Dated, Distinct, NEW p \in Parties, NEW c \in Slots, NEW t,
           Outgoing(p, sessions[p][c], t), t # Nil
    PROVE  Ahead(wire, t) /\ Alone(sessions, p, c, t)
<1>1. PICK s : s = sessions[p][c]
  BY Zenon
<1>2. s # Nil => Ahead(wire, s) /\ Alone(sessions, p, c, s)
  BY <1>1, Zenon DEF Distinct
<1>3. CASE Quietly(s, t)
  BY <1>2, <1>3, Zenon DEF Quietly, Ahead, Alone, Apart
<1>4. CASE Freshly(p, s, t)
  <2>1. ~KnownBy(keys, t.our_dh) /\ (t.sending # Nil => t.our_dh \in Pair(t.sending.key))
    BY <1>4, Zenon DEF Freshly
  <2>2. ASSUME NEW m \in wire
        PROVE  m.dh # t.our_dh /\ (t.sending # Nil => Pair(m.key[1]) # Pair(t.sending.key))
    BY <2>1, Zenon DEF Dated, DatedMessage
  <2>3. Ahead(wire, t)
    BY <2>2, Zenon DEF Ahead
  <2>4. ASSUME NEW q \in Parties, NEW d \in Slots, <<q, d>> # <<p, c>>, sessions[q][d] # Nil
        PROVE  Apart(t, sessions[q][d])
    <3>1. PICK u : u = sessions[q][d]
      BY Zenon
    <3>2. DatedSession(keys, q, u)
      BY <2>4, <3>1, Zenon DEF Dated
    <3>3. t.our_dh # u.our_dh
      BY <2>1, <3>2, Zenon DEF DatedSession
    <3>4. t.born # u.born
      BY <1>2, <2>4, <3>1, <1>4, <3>2, Zenon DEF Alone, Apart, Freshly, DatedSession
    <3>5. t.sending # Nil /\ u.sending # Nil => Pair(t.sending.key) # Pair(u.sending.key)
      BY <2>1, <3>2, Zenon DEF DatedSession
    <3> QED BY <3>1, <3>3, <3>4, <3>5, Zenon DEF Apart
  <2>5. Alone(sessions, p, c, t)
    BY <2>4, Zenon DEF Alone
  <2> QED BY <2>3, <2>5, Zenon
<1> QED BY <1>1, <1>3, <1>4, Zenon DEF Outgoing

\* Sessions stay apart when one of them changes.
LEMMA AlonePlaced ==
    ASSUME Typed, Distinct, NEW p \in Parties, NEW c \in Slots, NEW t, Placed(p, c, t),
           t # Nil => Alone(sessions, p, c, t),
           NEW q \in Parties, NEW d \in Slots, sessions'[q][d] # Nil
    PROVE  Alone(sessions', q, d, sessions'[q][d])
<1>1. ASSUME NEW a \in Parties, NEW b \in Slots, <<a, b>> # <<p, c>>
      PROVE  sessions'[a][b] = sessions[a][b]
  BY <1>1, Zenon DEF Placed
<1>2. sessions'[p][c] = t
  BY Zenon DEF Placed
<1>3. CASE <<q, d>> = <<p, c>>
  BY <1>1, <1>2, <1>3, Zenon DEF Alone
<1>4. CASE <<q, d>> # <<p, c>>
  <2>1. PICK u : u = sessions[q][d]
    BY Zenon
  <2>2. sessions'[q][d] = u /\ u # Nil
    BY <1>1, <1>4, <2>1, Zenon
  <2>3. Alone(sessions, q, d, u)
    BY <2>1, <2>2, Zenon DEF Distinct
  <2>4. t # Nil => Apart(t, u)
    BY <1>4, <2>1, <2>2, Zenon DEF Alone
  <2>5. t # Nil => Apart(u, t)
    BY <2>4, Zenon DEF Apart
  <2>6. ASSUME NEW a \in Parties, NEW b \in Slots, <<a, b>> # <<q, d>>, sessions'[a][b] # Nil
        PROVE  Apart(u, sessions'[a][b])
    BY <1>2, <2>5, <2>6, <1>1, <2>3 DEF Alone
  <2> QED BY <2>2, <2>6, Zenon DEF Alone
<1> QED BY <1>3, <1>4, Zenon

\* The arrival of a message keeps the chains apart.
LEMMA DistinctArrives ==
    ASSUME Typed, Typed', Dated, Distinct, NEW p \in Parties, NEW m \in wire, Arrives(p, m)
    PROVE  Distinct'
<1>0. "id" \in Slots /\ wire' = wire
  BY DEF Slots, Arrives
<1>1. PICK t : Placed(p, "id", t) /\ Outgoing(p, sessions[p]["id"], t)
  BY OpeningOutgoing, RefusingOutgoing, Zenon DEF Arrives, Arrival
<1>2. t # Nil => Ahead(wire, t) /\ Alone(sessions, p, "id", t)
  BY <1>0, <1>1, OutgoingAlone, Zenon
<1>3. ASSUME NEW q \in Parties, NEW d \in Slots, sessions'[q][d] # Nil
      PROVE  Ahead(wire', sessions'[q][d]) /\ Alone(sessions', q, d, sessions'[q][d])
  BY <1>0, <1>1, <1>2, <1>3, AlonePlaced DEF Placed, Distinct
<1>4. (\A m1, m2 \in wire' : m1.dh = m2.dh <=> m1.key[1] = m2.key[1]) /\ NoKeyReuse'
  BY <1>0, Zenon DEF Distinct, NoKeyReuse
<1> QED BY <1>3, <1>4, Zenon DEF Distinct

\* So does the sending of one: its key is the next of a chain that is ahead.
LEMMA DistinctSends ==
    ASSUME Typed, Typed', Dated, Distinct, NEW p \in Parties, NEW c \in Slots, Sends(p, c)
    PROVE  Distinct'
<1>1. PICK s, t, m : Sending(p, c, s, t, m)
  BY Zenon DEF Sends
<1>2. /\ Placed(p, c, t) /\ s # Nil /\ s.sending # Nil
      /\ \/ s = sessions[p][c]
         \/ /\ ~KnownBy(keys, s.our_dh) /\ s.our_dh \in Pair(s.sending.key)
            /\ ~KnownBy(keys, s.born) /\ Blank(s, s.born)
  BY <1>1, SenderFacts, Zenon
<1>3. /\ Advanced(s, t) /\ m.dh = s.our_dh /\ s.sending \in Chains
      /\ m.number = s.sending.index /\ m.key = <<s.sending.key, s.sending.index>>
      /\ wire' = wire \cup {m}
  BY <1>1, Zenon DEF Sending, Sends
<1>4. /\ t.sending.key = s.sending.key /\ t.sending.index = s.sending.index + 1
      /\ t.our_dh = s.our_dh /\ t.born = s.born /\ s.sending.index \in Nat
      /\ m.key[1] = s.sending.key /\ m.key[2] = s.sending.index
  BY <1>3 DEF Advanced, Chains
<1>5. Ahead(wire, s) /\ Alone(sessions, p, c, s)
  <2>1. CASE s = sessions[p][c]
    BY <1>2, <2>1, Zenon DEF Distinct
  <2>2. CASE /\ ~KnownBy(keys, s.our_dh) /\ s.our_dh \in Pair(s.sending.key)
             /\ ~KnownBy(keys, s.born)
    <3>1. Ahead(wire, s)
      BY <2>2, Zenon DEF Dated, DatedMessage, Ahead
    <3>2. ASSUME NEW q \in Parties, NEW d \in Slots, sessions[q][d] # Nil
          PROVE  Apart(s, sessions[q][d])
      <4>1. DatedSession(keys, q, sessions[q][d])
        BY <3>2, Zenon DEF Dated
      <4> QED BY <2>2, <4>1, Zenon DEF DatedSession, Apart
    <3>3. Alone(sessions, p, c, s)
      BY <3>2, Zenon DEF Alone
    <3> QED BY <3>1, <3>3, Zenon
  <2> QED BY <1>2, <2>1, <2>2, Zenon
<1>6. t.sending # Nil
  <2>1. t \in Sessions /\ t.sending = [key |-> s.sending.key, index |-> s.sending.index + 1]
    BY <1>1, Zenon DEF Sending, Advanced
  <2>2. s.sending.key \in Roots
    BY <1>3, Zenon DEF Chains
  <2>3. s.sending.index + 1 \in Nat
    BY <1>4
  <2>4. t.sending \in Chains
    BY <2>1, <2>2, <2>3 DEF Chains
  <2> QED BY <2>4, RatchetAssumption, Zenon
<1>7. Alone(sessions, p, c, t)
  BY <1>2, <1>4, <1>5, Zenon DEF Alone, Apart
<1>8. \A x \in wire : x.number \in Nat
  BY Zenon DEF Typed, TypeOK, Envelopes
<1>9. Ahead(wire', t)
  <2>1. \A x \in wire : x.number < s.sending.index => x.number < t.sending.index
    BY <1>4, <1>8
  <2>2. m.number < t.sending.index
    BY <1>3, <1>4
  <2> QED BY <1>2, <1>3, <1>4, <1>5, <1>6, <2>1, <2>2, Zenon DEF Ahead
<1>10. ASSUME NEW q \in Parties, NEW d \in Slots, sessions'[q][d] # Nil
       PROVE  Ahead(wire', sessions'[q][d]) /\ Alone(sessions', q, d, sessions'[q][d])
  <2>1. Alone(sessions', q, d, sessions'[q][d])
    BY <1>2, <1>7, <1>10, AlonePlaced, Zenon
  <2>2. CASE <<q, d>> = <<p, c>>
    BY <1>2, <1>9, <2>1, <2>2, Zenon DEF Placed
  <2>3. CASE <<q, d>> # <<p, c>>
    <3>1. PICK u : u = sessions[q][d] /\ u = sessions'[q][d]
      BY <1>2, <2>3, Zenon DEF Placed
    <3>2. Ahead(wire, u) /\ Apart(s, u)
      BY <1>5, <1>10, <2>3, <3>1, Zenon DEF Distinct, Alone
    <3>3. Ahead(wire', u)
      BY <1>2, <1>3, <3>2 DEF Ahead, Apart
    <3> QED BY <2>1, <3>1, <3>3, Zenon
  <2> QED BY <2>2, <2>3, Zenon
<1>11. ASSUME NEW x \in wire
       PROVE  (x.dh = m.dh <=> x.key[1] = m.key[1]) /\ x.key # m.key
  <2>1. x.key[2] = x.number
    BY Zenon DEF Dated, DatedMessage
  <2>2. x.dh = m.dh => x.key[1] = m.key[1]
    BY <1>3, <1>5 DEF Ahead
  <2>3. x.key[1] = m.key[1] => x.number < s.sending.index /\ x.dh = m.dh
    BY <1>2, <1>3, <1>5 DEF Ahead
  <2>4. x.key # m.key
    BY <1>4, <2>1, <2>3
  <2> QED BY <2>2, <2>3, <2>4, Zenon
<1>12. \A m1, m2 \in wire' : m1.dh = m2.dh <=> m1.key[1] = m2.key[1]
  BY <1>3, <1>11 DEF Distinct
<1>13. NoKeyReuse'
  BY <1>3, <1>11, Zenon DEF Distinct, NoKeyReuse
<1> QED BY <1>10, <1>12, <1>13, Zenon DEF Distinct

\* Dropping sessions disturbs nothing of that.
LEMMA DropsOutgoing ==
    ASSUME Typed, Typed', Dated, Distinct, Drops
    PROVE  Dated' /\ Distinct'
<1>1. ASSUME NEW q \in Parties, NEW d \in Slots, sessions'[q][d] # Nil
      PROVE  sessions'[q][d] = sessions[q][d]
  BY <1>1, Zenon DEF Drops
<1>2. wire' = wire /\ keys' = keys /\ opened' = opened
  BY Zenon DEF Drops
<1>3. Dated'
  BY <1>1, <1>2, Zenon DEF Dated
<1>4. ASSUME NEW q \in Parties, NEW d \in Slots, sessions'[q][d] # Nil
      PROVE  Ahead(wire', sessions'[q][d]) /\ Alone(sessions', q, d, sessions'[q][d])
  <2>1. PICK u : u = sessions[q][d] /\ u = sessions'[q][d] /\ u # Nil
    BY <1>1, <1>4, Zenon
  <2>2. Ahead(wire, u) /\ Alone(sessions, q, d, u)
    BY <2>1, Zenon DEF Distinct
  <2>3. Alone(sessions', q, d, u)
    BY <1>1, <2>2, Zenon DEF Alone
  <2> QED BY <1>2, <2>1, <2>2, <2>3, Zenon
<1>5. Distinct'
  BY <1>2, <1>4, Zenon DEF Distinct, NoKeyReuse
<1> QED BY <1>3, <1>5, Zenon

\* Dated and Distinct are inductive.
LEMMA DistinctAlways == Spec => [](Dated /\ Distinct)
<1>1. Init => Dated /\ Distinct
  BY DEF Init, Dated, Numbered, Distinct, NoKeyReuse
<1>2. Typed /\ Typed' /\ Dated /\ Distinct /\ [Next]_vars => Dated' /\ Distinct'
  BY NextKinds, DropsOutgoing, DatedArrives, DatedSends, DistinctArrives, DistinctSends, Zenon
<1> QED BY <1>1, <1>2, TypedAlways, PTL DEF Spec

\* No two messages are encrypted under one key: whatever is lost, repeated or
\* reordered, however often sessions are rebuilt, reset or lost in a restart, and
\* however the caller files them (RatchetSession::encrypt, the key pairs of
\* handle_dh_ratchet_trial and of the two ways to make a session).
THEOREM KeysUsedOnce == Spec => []NoKeyReuse
<1>1. Distinct => NoKeyReuse
  BY Zenon DEF Distinct
<1> QED BY <1>1, DistinctAlways, PTL
=============================================================================
