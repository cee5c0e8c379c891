---------------------------- MODULE MCCoreOutbox ----------------------------
(***************************************************************************)
(* CoreOutbox for TLC.  Messages and peers are interchangeable.            *)
(***************************************************************************)
EXTENDS CoreOutbox, TLC

Symmetric == Permutations(Msgs) \cup Permutations(Peers)
=============================================================================
