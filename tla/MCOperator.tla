----------------------------- MODULE MCOperator -----------------------------
(* Two callsigns and two process numbers. *)
EXTENDS Operator, TLC

CONSTANTS alpha, bravo, p1, p2

MCCallsign == {alpha, bravo}
MCPid == {p1, p2}
Symmetry == Permutations(MCCallsign) \cup Permutations(MCPid)
=============================================================================
