----------------------------- MODULE MCOutbound -----------------------------
(* Small instances of Outbound for TLC.                                    *)
EXTENDS Outbound, TLC

CONSTANTS p1, p2, q1, m1, hello, bye

\* One message.
OneSend == {[message |-> m1, content |-> hello]}

\* One message id asked for with two contents.
TwoContents == {[message |-> m1, content |-> hello], [message |-> m1, content |-> bye]}

Symmetry == Permutations(Proc)
=============================================================================
