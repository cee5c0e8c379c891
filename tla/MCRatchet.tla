----------------------------- MODULE MCRatchet -----------------------------
(***************************************************************************)
(* The instances of Ratchet that TLC checks.                               *)
(***************************************************************************)
EXTENDS Ratchet, TLC

Swap == Permutations(Parties)
=============================================================================
