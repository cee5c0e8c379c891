-------------------------- MODULE MCRelayRegistry --------------------------
(* Model values for RelayRegistry. *)
EXTENDS RelayRegistry
CONSTANTS i1, i2, a, b, c

Both == {i1, i2}
First == {i1}
Phones == {a, b, c}
=============================================================================
