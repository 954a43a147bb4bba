----------------------------- MODULE MCConsole -----------------------------
(* Two profiles, one of them given a card and a relay URL at launch. *)
EXTENDS Console

CONSTANTS c1, c2

MCProfile == 1 .. 2
MCCard == {c1, c2}
MCLaunchCard == [p \in MCProfile |-> IF p = 1 THEN c1 ELSE c2]
MCLaunchUrl == {1}
MCKeyPresent == {1, 2}
=============================================================================
