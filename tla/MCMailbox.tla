----------------------------- MODULE MCMailbox -----------------------------
(* Small instances of Mailbox for TLC.                                     *)
EXTENDS Mailbox, TLC

CONSTANTS p1, p2, d1, d2, alice, bob, b1, b2

env(i, s, b, x, n) == [id |-> i, sender |-> s, body |-> b, expires |-> x, bytes |-> n]

\* Two envelopes under one id, and a large one.
MCEnvelope ==
    {env(1, alice, b1, 5, 1), env(1, alice, b2, 9, 1), env(2, alice, b1, 9, 2)}

\* Two legacy records whose key order is 1, 2.
MCLegacy == {env(1, alice, b1, 5, 1), env(2, alice, b1, 9, 2)}

NoLegacy == {}

Symmetry == Permutations(Proc)
=============================================================================
