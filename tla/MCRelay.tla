------------------------------- MODULE MCRelay -------------------------------
(* Model-checking instance of Relay: a handful of connections for one or  *)
(* two sessions.                                                           *)
EXTENDS Relay, TLC

CONSTANTS c1, c2, c3, c4, s1, s2

MCConns3 == {c1, c2, c3}
MCConns4 == {c1, c2, c3, c4}
MCSessions1 == {s1}
MCSessions2 == {s1, s2}

ConnSymmetry == Permutations(Conns)
=============================================================================
