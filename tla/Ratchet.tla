------------------------------ MODULE Ratchet ------------------------------
(***************************************************************************)
(* The double-ratchet sessions of two parties that hold each other's key   *)
(* bundle: RatchetSession (core/src/crypto/ratchet.rs), the session manager *)
(* (session_manager.rs) and the functions that choose and rebuild sessions *)
(* (encrypt.rs), over a network that loses, repeats and reorders messages, *)
(* with restarts.                                                          *)
(*                                                                         *)
(* Keys are terms.  A Diffie-Hellman output is the set of its two keys, a  *)
(* root key the sequence of what was mixed into it, a message key its      *)
(* chain and number.  A message opens exactly if the receiver derives the  *)
(* sender's term.  Sessions are in memory only: IronCore creates the       *)
(* manager without a backend.                                              *)
(***************************************************************************)
EXTENDS Integers, FiniteSets, Sequences

CONSTANTS Parties,       \* the two ends of a conversation
          Nil,           \* None
          Filings,       \* how the caller files sessions: "split", "shared"
          MaxSkip,       \* MAX_SKIP_KEYS
          MaxSteps,      \* MAX_RATCHET_STEPS
          PqEvery,       \* messages between two post-quantum steps, 100
          MaxSends,      \* bound: messages sent, both parties
          MaxKeys,       \* bound: key pairs a party generates
          MaxRestarts    \* bound: restarts and session resets, both parties

\* The terms.  A key pair is its owner and number; a shared secret the key
\* pairs it comes from; a root key the sequence of what was mixed into it.
KeyPairs == Parties \X Nat
Secrets == Seq(KeyPairs)
Ciphertexts == [to : KeyPairs, secret : KeyPairs]
Roots == Seq((Parties \X Secrets) \cup ((SUBSET KeyPairs) \X (Secrets \cup {Nil})))
Chains == [key : Roots, index : Nat]
SkippedKeys == [dh : KeyPairs, number : Nat, chain : Roots]

\* RatchetSession.  dropped, born: history, the keys evicted from the cache and
\* the first key pair, which names the session.
Sessions ==
    [our_dh : KeyPairs, their_dh : KeyPairs \cup {Nil}, root : Roots,
     sending : Chains \cup {Nil}, receiving : Chains \cup {Nil}, steps : Nat,
     skipped : SUBSET SkippedKeys, dropped : SUBSET SkippedKeys,
     identity_secret : BOOLEAN, confirmed : BOOLEAN,
     hct : Ciphertexts, transcript : Parties,
     pq_our : KeyPairs, pq_prev : KeyPairs \cup {Nil},
     pq_their : KeyPairs \cup {Nil}, pq_sent : Secrets \cup {Nil},
     pq_recv : Secrets \cup {Nil}, pq_mixed : Secrets \cup {Nil},
     born : KeyPairs]

\* EnvelopeV2: the fields that matter, the key it is encrypted with, and the
\* place of the message in the order of sending.
Envelopes ==
    [from : Parties, id : Nat, dh : KeyPairs, number : Nat, key : Roots \X Nat,
     transcript : Parties \cup {Nil}, ct : Ciphertexts \cup {Nil},
     ek : KeyPairs \cup {Nil}]

ASSUME RatchetAssumption ==
    /\ \E a, b \in Parties : a # b /\ Parties = {a, b}
    /\ Filings \subseteq {"split", "shared"}
    /\ MaxSkip \in Nat /\ MaxSteps \in Nat /\ PqEvery \in Nat \ {0}
    /\ MaxSends \in Nat /\ MaxKeys \in Nat /\ MaxRestarts \in Nat
    /\ Nil \notin Parties \cup KeyPairs \cup Ciphertexts \cup Chains \cup Sessions

VARIABLES
    filing,      \* the caller's way of filing, fixed
    sessions,    \* sessions[p][slot]: the session manager of p
    wire,        \* messages sent, any of which may arrive at any time
    keys,        \* key pairs generated by each party
    opened,      \* history: <<session, id of a message it decrypted>>
    reopened,    \* history: those decrypted again by the same session
    refused,     \* history: ids of messages that could not be decrypted
    restarts

vars == <<filing, sessions, wire, keys, opened, reopened, refused, restarts>>

Slots == {"pk", "id"}

\* IronCore sends under the recipient's public key and receives under the hash
\* of the sender's; a caller that uses the hash for both shares one session.
SendSlot == IF filing = "split" THEN "pk" ELSE "id"

RecvSlot == "id"

Other(p) == CHOOSE q \in Parties : q # p

\* The n-th fresh key pair of p, and p's identity keys.
Fresh(p, n) == <<p, keys[p] + n>>
Identity(p) == <<p, 0>>

\* A KEM ciphertext for key pair k with secret s.  Decapsulation never fails:
\* another key pair just gets another secret.
Encap(k, s) == [to |-> k, secret |-> s]
Decap(k, ct) == IF ct.to = k THEN <<ct.secret>> ELSE <<k, ct.secret>>

root_key_ratchet(root, a, b, pq) == Append(root, <<{a, b}, pq>>)
Chain(root) == [key |-> root, index |-> 0]
-----------------------------------------------------------------------------
\* init_as_sender_hybrid.
init_as_sender(p) ==
    LET q == Other(p)
        k == Fresh(p, 1)
        root == root_key_ratchet(<<<<p, <<k>>>>>>, k, Identity(q), Nil)
    IN  [our_dh |-> k, their_dh |-> Identity(q), root |-> root,
         sending |-> Chain(root), receiving |-> Nil, steps |-> 1,
         skipped |-> {}, dropped |-> {}, identity_secret |-> FALSE,
         confirmed |-> FALSE, hct |-> Encap(Identity(q), k), transcript |-> p,
         pq_our |-> k, pq_prev |-> Nil, pq_their |-> Identity(q),
         pq_sent |-> Nil, pq_recv |-> Nil, pq_mixed |-> Nil, born |-> k]

\* init_as_receiver_hybrid, from the KEM ciphertext a message carries.  What it
\* takes for the peer's encapsulation key is that ciphertext: no key at all.
init_as_receiver(p, ct) ==
    LET q == Other(p)
        k == Fresh(p, 1)
    IN  [our_dh |-> k, their_dh |-> Nil,
         root |-> <<<<q, Decap(Identity(p), ct)>>>>,
         sending |-> Nil, receiving |-> Nil, steps |-> 0,
         skipped |-> {}, dropped |-> {}, identity_secret |-> TRUE,
         confirmed |-> FALSE, hct |-> ct, transcript |-> q,
         pq_our |-> Identity(p), pq_prev |-> Nil, pq_their |-> Nil,
         pq_sent |-> Nil, pq_recv |-> Nil, pq_mixed |-> Nil, born |-> k]

\* perform_pq_ratchet_step, and the cadence encrypt_message_ratcheted gives it;
\* n is the number of the message just encrypted.  A step without a usable key
\* of the peer fails, and the message goes out without PQ fields.
pq_step_due(s, n) == s.confirmed /\ n > 0 /\ n % PqEvery = 0 /\ s.pq_their # Nil

perform_pq_ratchet_step(p, s) ==
    LET k == Fresh(p, 1)
    IN  [s EXCEPT !.pq_sent = <<k>>, !.pq_prev = s.pq_our, !.pq_our = k]

\* Defect: the chain is not advanced.
encrypt_MUT(s) == s

\* RatchetSession::encrypt: the chain moves on.
encrypt(s) == [s EXCEPT !.sending.index = @ + 1]

\* encrypt_message_ratcheted: the envelope of the next message of s.
envelope(p, s) ==
    LET n == s.sending.index
        due == pq_step_due(s, n)
    IN  [from |-> p, id |-> Cardinality(wire), dh |-> s.our_dh, number |-> n,
         key |-> <<s.sending.key, n>>,
         transcript |-> IF s.confirmed THEN Nil ELSE s.transcript,
         ct |-> IF ~s.confirmed THEN s.hct
                ELSE IF due THEN Encap(s.pq_their, Fresh(p, 1)) ELSE Nil,
         ek |-> IF ~s.confirmed THEN s.pq_our
                ELSE IF due THEN Fresh(p, 1) ELSE Nil]
-----------------------------------------------------------------------------
\* Defect: the cache is not limited.
Kept_MUT(old, new) == {old \cup new}

\* The keys left when those in new are added one by one to a full cache: the
\* smallest key goes first, and keys compare by the bytes of the public key,
\* so between two public keys the order is arbitrary.
Kept(old, new) ==
    LET all == old \cup new
        size == IF Cardinality(all) <= MaxSkip THEN Cardinality(all) ELSE MaxSkip
    IN  {K \in SUBSET all :
            /\ Cardinality(K) = size
            /\ \A k \in K, e \in all \ K : k.dh = e.dh => e.number < k.number}

\* Defect: the key of the message before the target is not stored.
skipped_range_MUT(chain, n) == chain.index .. n - 2

skipped_range(chain, n) == chain.index .. n - 1

\* get_message_key: the sessions that hold the key of message n of the current
\* receiving chain, none if n is behind the chain or too far ahead.
get_message_key(s, n) ==
    IF \/ s.receiving = Nil
       \/ n < s.receiving.index
       \/ n - s.receiving.index > MaxSkip
    THEN {}
    ELSE LET new == {[dh |-> s.their_dh, number |-> i, chain |-> s.receiving.key] :
                        i \in skipped_range(s.receiving, n)}
         IN  {[s EXCEPT !.skipped = K, !.receiving.index = n + 1,
                        !.dropped = @ \cup ((s.skipped \cup new) \ K)] :
                K \in Kept(s.skipped, new)}

\* handle_dh_ratchet_trial, up to the message key.  The secret of our own PQ
\* step goes into the sending chain only, so that it cannot make the trial
\* fail: the first candidate is adopted whenever the message opens.
dh_ratchet(p, s, dh, k) ==
    LET ours == IF s.identity_secret THEN Identity(p) ELSE s.our_dh
        r1 == root_key_ratchet(s.root, ours, dh, s.pq_recv)
        r2 == root_key_ratchet(r1, k, dh, s.pq_sent)
    IN  [s EXCEPT !.identity_secret = FALSE, !.their_dh = dh,
                  !.receiving = Chain(r1), !.sending = Chain(r2),
                  !.our_dh = k, !.root = r2, !.steps = @ + 1,
                  !.pq_sent = Nil, !.pq_recv = Nil,
                  !.pq_mixed = IF s.pq_recv = Nil THEN @ ELSE s.pq_recv]

opens_with(s, m) == <<s.receiving.key, m.number>> = m.key

cached(s, m) ==
    {e \in s.skipped : e.dh = m.dh /\ e.number = m.number}

\* Defect: a key taken from the cache stays in it.
forget_MUT(s, K) == s

forget(s, K) == [s EXCEPT !.skipped = @ \ K]

confirm(s) == [s EXCEPT !.confirmed = TRUE]

\* RatchetSession::decrypt: the sessions it can end in, none if it fails.  The
\* cache decides alone when it has a key for the message.
decrypt(p, s, m, k) ==
    LET C == cached(s, m)
        base == IF s.their_dh = m.dh THEN s ELSE dh_ratchet(p, s, m.dh, k)
    IN  IF C # {}
        THEN {confirm(forget(s, C)) : e \in {e \in C : <<e.chain, m.number>> = m.key}}
        ELSE {confirm(t) : t \in {t \in get_message_key(base, m.number) :
                                    opens_with(t, m)}}

\* handle_incoming_pq_fields.  The previous key pair has the last word.
handle_incoming_pq_fields(s, m) ==
    LET ss == Decap(IF s.pq_prev # Nil THEN s.pq_prev ELSE s.pq_our, m.ct)
    IN  [s EXCEPT !.pq_recv = IF ss = s.pq_mixed THEN @ ELSE ss,
                  !.pq_their = m.ek]

\* decrypt_message_ratcheted_v2, before the ratchet itself: the checks, and
\* the session that the PQ fields leave, which a failure does not restore.
ratchet_checks(s, m) ==
    /\ ~s.confirmed /\ m.transcript # Nil => m.transcript = s.transcript
    /\ s.confirmed /\ m.number > 0 /\ m.number % PqEvery = 0 => m.ct # Nil

with_pq_fields(s, m) ==
    IF s.confirmed /\ m.ct # Nil /\ ratchet_checks(s, m)
    THEN handle_incoming_pq_fields(s, m) ELSE s

decrypt_message_ratcheted(p, s, m, k) ==
    IF ratchet_checks(s, m) THEN decrypt(p, with_pq_fields(s, m), m, k) ELSE {}
-----------------------------------------------------------------------------
\* Every variable has its type; the cache of skipped keys never exceeds its limit.
TypeOK ==
    /\ filing \in Filings
    /\ sessions \in [Parties -> [Slots -> Sessions \cup {Nil}]]
    /\ \A p \in Parties, c \in Slots :
          sessions[p][c] # Nil => Cardinality(sessions[p][c].skipped) <= MaxSkip
    /\ wire \subseteq Envelopes
    /\ keys \in [Parties -> 0..MaxKeys]
    /\ opened \subseteq KeyPairs \X {m.id : m \in wire}
    /\ reopened \subseteq opened
    /\ refused \subseteq {m.id : m \in wire}
    /\ restarts \in 0..MaxRestarts

Init ==
    /\ filing \in Filings
    /\ sessions = [p \in Parties |-> [c \in Slots |-> Nil]]
    /\ wire = {}
    /\ keys = [p \in Parties |-> 0]
    /\ opened = {}
    /\ reopened = {}
    /\ refused = {}
    /\ restarts = 0

set_session(p, c, s) == sessions' = [sessions EXCEPT ![p][c] = s]

\* encrypt_with_ratchet_fallback for a peer whose bundle is known, as called by
\* prepare_message_internal: get_or_create_session_hybrid, then encrypt.
Send(p) ==
    LET s0 == sessions[p][SendSlot]
        s == IF s0 = Nil THEN init_as_sender(p) ELSE s0
        m == envelope(p, s)
    IN  /\ Cardinality(wire) < MaxSends
        /\ s.sending # Nil
        /\ s.steps < MaxSteps
        /\ set_session(p, SendSlot,
              IF pq_step_due(s, m.number)
              THEN perform_pq_ratchet_step(p, encrypt(s)) ELSE encrypt(s))
        /\ wire' = wire \cup {m}
        /\ keys' = [keys EXCEPT ![p] = @ +
                      IF s0 = Nil \/ pq_step_due(s, m.number) THEN 1 ELSE 0]
        /\ keys'[p] <= MaxKeys
        /\ UNCHANGED <<filing, opened, reopened, refused, restarts>>

\* The key pair of the next ratchet step of s, which may itself be new.
next_dh(p, s) == Fresh(p, IF s.our_dh = Fresh(p, 1) THEN 2 ELSE 1)

open(p, s, m) ==
    /\ set_session(p, RecvSlot, s)
    /\ opened' = opened \cup {<<s.born, m.id>>}
    /\ reopened' = reopened \cup ({<<s.born, m.id>>} \cap opened)
    /\ keys' = [keys EXCEPT ![p] = IF s.our_dh[2] > @ THEN s.our_dh[2] ELSE @]
    /\ UNCHANGED refused

\* The session the message is first tried with: the one on file, or one made
\* from the KEM ciphertext it carries, or none.
first_session(p, m) ==
    IF sessions[p][RecvSlot] # Nil THEN sessions[p][RecvSlot]
    ELSE IF m.ct # Nil THEN init_as_receiver(p, m.ct) ELSE Nil

\* Defect: no rebuild, the message is dropped.
rebuilt_MUT(p, m) == Nil

\* SESSION DIVERGENCE RECOVERY: a receiver session made from the ciphertext.
rebuilt(p, m) == IF m.ct # Nil THEN init_as_receiver(p, m.ct) ELSE Nil

\* Defect: a failed attempt keeps the ratchet step it took.
after_failure_MUT(p, s, m) ==
    IF s.their_dh = m.dh THEN with_pq_fields(s, m)
    ELSE dh_ratchet(p, with_pq_fields(s, m), m.dh, next_dh(p, s))

\* What a failed attempt leaves of a session that is not replaced: the trial is
\* dropped, the PQ fields that came before it stay.
after_failure(p, s, m) == with_pq_fields(s, m)

\* decrypt_with_ratchet_fallback on the arrival of m: try the session, and if
\* that fails replace it and try again.  The replacement stays even if the
\* message does not open with it.
Receive(m) ==
    LET p == Other(m.from)
        s == first_session(p, m)
        r == rebuilt(p, m)
        first == IF s = Nil THEN {} ELSE decrypt_message_ratcheted(p, s, m, next_dh(p, s))
        second == IF r = Nil THEN {} ELSE decrypt_message_ratcheted(p, r, m, next_dh(p, r))
    IN  /\ \/ \E t \in first : open(p, t, m)
           \/ /\ first = {}
              /\ \E t \in second : open(p, t, m)
           \/ /\ first = {} /\ second = {}
              /\ set_session(p, RecvSlot,
                    IF r # Nil \/ s = Nil THEN r ELSE after_failure(p, s, m))
              /\ refused' = refused \cup {m.id}
              /\ keys' = [keys EXCEPT ![p] = @ + (IF r # Nil THEN 1 ELSE 0)]
              /\ UNCHANGED <<opened, reopened>>
        /\ keys'[p] <= MaxKeys
        /\ UNCHANGED <<filing, wire, restarts>>

\* The process of p restarts: nothing of the sessions was saved.
Restart(p) ==
    /\ restarts < MaxRestarts
    /\ sessions' = [sessions EXCEPT ![p] = [c \in Slots |-> Nil]]
    /\ restarts' = restarts + 1
    /\ UNCHANGED <<filing, wire, keys, opened, reopened, refused>>

\* ratchet_reset_session: the application drops one session.
ratchet_reset_session(p, c) ==
    /\ restarts < MaxRestarts
    /\ sessions[p][c] # Nil
    /\ set_session(p, c, Nil)
    /\ restarts' = restarts + 1
    /\ UNCHANGED <<filing, wire, keys, opened, reopened, refused>>

Next ==
    \/ \E p \in Parties :
          \/ Send(p)
          \/ Restart(p)
          \/ \E c \in Slots : ratchet_reset_session(p, c)
    \/ \E m \in wire : Receive(m)

Spec == Init /\ [][Next]_vars
-----------------------------------------------------------------------------
Live == {s \in {sessions[p][c] : p \in Parties, c \in Slots} : s # Nil}

OpenedBy(s) == {m \in wire : <<s.born, m.id>> \in opened}

Refused == {m \in wire : m.id \in refused}

\* No two messages are ever encrypted under one key: not across the messages of
\* a chain, ratchet steps, rebuilt sessions, restarts or resets
\* (RatchetSession::encrypt takes a new message key each time).
NoKeyReuse == \A m1, m2 \in wire : m1.key = m2.key => m1 = m2

\* Every message number that a receiving chain has passed is accounted for: its
\* message was opened, or its key is in the cache, or the cache was full and
\* evicted it.  So a delayed message is lost to the limit only, whatever the
\* order of arrival (get_message_key, the cache lookup in decrypt).
KeysAccounted ==
    \A s \in Live : s.receiving # Nil =>
        \A n \in 0..(s.receiving.index - 1) :
            LET held(E) == \E e \in E : e.chain = s.receiving.key /\ e.number = n
                used == \E m \in OpenedBy(s) : m.key = <<s.receiving.key, n>>
            IN  used \/ held(s.skipped) \/ held(s.dropped)

\* A session opens a message once: a second copy finds neither a cached key nor
\* a chain position (decrypt removes the key it used).
OpenedOnce == reopened = {}

\* With sessions filed as IronCore files them, every message carries bootstrap
\* material, and one that is refused was too far along its chain to be skipped
\* to: no loss, repetition, reordering, restart or reset of either side makes
\* any other message undecipherable (the rebuild in
\* decrypt_with_ratchet_fallback).
RefusedIsTooFar ==
    filing = "split" => \A m \in Refused : m.number > MaxSkip

\* A session moved on.
Moves(s, t) ==
    \/ s.sending # t.sending \/ s.receiving # t.receiving
    \/ s.root # t.root \/ s.skipped # t.skipped

\* Commit on success: the chains, the root key and the cache of a session that
\* lives on change only in a step that opens or sends a message; a message that
\* fails leaves them alone (decrypt works on a clone).
CommitOnSuccess ==
    [][\A p \in Parties, c \in Slots :
         LET s == sessions[p][c]
             t == sessions'[p][c]
         IN  s # Nil /\ t # Nil /\ s.born = t.born /\ Moves(s, t)
               => opened' # opened \/ wire' # wire]_vars
=============================================================================
