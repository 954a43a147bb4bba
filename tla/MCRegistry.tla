----------------------------- MODULE MCRegistry -----------------------------
(* Small instances of Registry for TLC.                                    *)
EXTENDS Registry, TLC

CONSTANTS p1, p2, alice, d1, d2, k1, k2, a, b, c1, c2

bundle(id, d, otk, public, x) ==
    [id |-> id, identity |-> alice, device |-> d, pubkey |-> k1,
     otk |-> otk, public |-> public, created |-> 0, expires |-> x]

\* Two devices, the second of which also publishes the first's one-time key.
MCPublication == {bundle(1, d1, 1, a, 1), bundle(2, d2, 1, b, 2), bundle(3, d1, 2, a, 2)}

\* The key of a legacy device is replaced after its bundles were published.
MCDeviceRecord == {[identity |-> alice, device |-> d1, pubkey |-> k2]}

MCLegacyDevice == {[identity |-> alice, device |-> d1, pubkey |-> k1]}

Symmetry == Permutations(Proc) \cup Permutations(ClaimId)
=============================================================================
