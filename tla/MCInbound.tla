----------------------------- MODULE MCInbound -----------------------------
(* Small instances of Inbound for TLC.                                     *)
EXTENDS Inbound, TLC

CONSTANTS p1, p2, ann, eve, m1, m2, b1, b2

envelope(s, m, b, g) == [sender |-> s, message |-> m, body |-> b, genuine |-> g]

\* Two messages of Ann's and one that is always refused.
TwoMessages == {envelope(ann, m1, b1, TRUE), envelope(ann, m2, b1, TRUE),
                envelope(eve, m1, b1, FALSE)}

\* Two bodies under one message id.
TwoBodies == {envelope(ann, m1, b1, TRUE), envelope(ann, m1, b2, TRUE)}

Symmetry == Permutations(Proc)
=============================================================================
