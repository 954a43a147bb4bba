----------------------------- MODULE MCStation -----------------------------
(* Two contact cards, one status request at a time. *)
EXTENDS Station

CONSTANTS c1, c2, s1

MCCard == {c1, c2}
MCTrusted == {c1}
MCSlot == {s1}
=============================================================================
