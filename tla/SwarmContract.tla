---------------------------- MODULE SwarmContract ----------------------------
(***************************************************************************)
(* SwarmRelay implements CustodyContract.  What the contract says is held  *)
(* are the stored records, its log the closing entries of the transition   *)
(* log.                                                                    *)
(***************************************************************************)
EXTENDS SwarmRelay

KeyOf(x) == <<x.dest, x.msg>>

KeysOf(s) == [c \in DOMAIN s.recs |-> KeyOf(s.recs[c])]

LogOf(s) == {<<e.id, KeyOf(e), e.how>> : e \in s.closed}

Contract == INSTANCE CustodyContract WITH
    Keys <- Markers, given <- nextId - 1, held <- KeysOf(store), log <- LogOf(store)

\* The relay keeps the contract of custody: through retries, markers, answers that
\* come late, purges, migrations and crashes inside handlers, its store changes only
\* by taking a message that it does not hold, under a new id, and by giving up
\* records whose log entry is true and written first.
ImplementsContract == Contract!ContractSpec
=============================================================================
