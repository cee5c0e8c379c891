-------------------------- MODULE CustodyContract --------------------------
(***************************************************************************)
(* What a relay promises about the messages it takes into custody, without *)
(* queues, requests, connections, registrations, storage or restarts.      *)
(*                                                                         *)
(* A message for a destination is a key.  A key is held under one custody  *)
(* id at most, ids are given once, and what is held stays held until a log *)
(* entry says why it is given up: it was purged, or it was delivered, and  *)
(* then its destination has it.                                            *)
(***************************************************************************)
EXTENDS Naturals

CONSTANT Keys

VARIABLES
    given,     \* the custody ids given so far are 1..given
    held,      \* custody id -> key
    log,       \* the entries <<id, key, how>>
    received   \* the keys their destination has

contractVars == <<given, held, log, received>>

Init == given = 0 /\ held = [c \in {} |-> c] /\ log = {} /\ received = {}

Entries(C, how) == {<<c, held[c], how>> : c \in C}

Receive(k) ==
    /\ UNCHANGED <<given, held, log>>
    /\ received' = received \cup {k}

\* The ids of C are logged and given up, except for those of L: a crash may come
\* between the two.
GiveUp(C, L, how) ==
    /\ UNCHANGED <<given, received>>
    /\ held' = [c \in DOMAIN held \ (C \ L) |-> held[c]]
    /\ log' = log \cup Entries(C, how)
    /\ how = "delivered" => \A c \in C : held[c] \in received

\* A key that is not held is taken, after the purge of P.
Take(k, P) ==
    /\ given' = given + 1
    /\ \A c \in DOMAIN held : held[c] # k
    /\ held' = [c \in (DOMAIN held \ P) \cup {given + 1} |->
                   IF c = given + 1 THEN k ELSE held[c]]
    /\ log' = log \cup Entries(P, "purged")
    /\ UNCHANGED received

Next ==
    \/ \E C \in SUBSET DOMAIN held : \E L \in SUBSET C, how \in {"delivered", "purged"} :
            GiveUp(C, L, how)
    \/ \E k \in Keys : Receive(k)
    \/ \E k \in Keys, P \in SUBSET DOMAIN held : Take(k, P)

ContractSpec == Init /\ [][Next]_contractVars
=============================================================================
