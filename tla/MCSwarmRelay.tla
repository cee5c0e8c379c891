---------------------------- MODULE MCSwarmRelay ----------------------------
(* Model values for SwarmRelay. *)
EXTENDS SwarmContract, TLC
CONSTANTS d1, d2, m1, m2, m3, s1, i1, a, b

MixedBytes == [m \in Messages |-> IF m = m1 THEN 2 ELSE 3]
UnitBytes == [m \in Messages |-> 1]
Plain == {<<NoIdentity, NoDevice>>}
Hinted == {<<i1, a>>, <<i1, b>>, <<i1, NoDevice>>}
None == {}
Everywhere == Destinations \X Messages
OneElsewhere == {<<d1, m1>>}
NoUsage == {0}

\* Messages and devices are interchangeable: all have the same size, and the
\* target hints name every device.
Interchange == Permutations(Messages) \cup Permutations(Devices)

\* ... except for m1, if it alone may be delivered elsewhere.
Others == Permutations(Messages \ {m1})
=============================================================================
