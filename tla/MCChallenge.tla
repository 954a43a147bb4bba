---------------------------- MODULE MCChallenge ----------------------------
(* A small instance of Challenge for TLC.                                  *)
EXTENDS Challenge, TLC

CONSTANTS p1, p2, p3, c1, c2, d1, d2

Symmetry == Permutations(Proc) \cup Permutations(ChallengeId) \cup Permutations(Device)
=============================================================================
