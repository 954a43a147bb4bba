SPECIFICATION Spec
CONSTANTS
    p1 = p1
    p2 = p2
    q1 = q1
    m1 = m1
    hello = hello
    bye = bye
    Absent = Absent
    Stranger = Stranger
    Peer = Peer
    Publisher = {q1}
    PoolTarget = 2
    Lifetime = 1
    MaxClaims = 3
    MaxBundles = 4
    MaxTime = 1
    MaxStrangers = 0
    MaxFaults = 1
    Proc = {p1, p2}
    Message = {m1}
    Content = {hello, bye}
    Sends <- TwoContents
    EnvelopeLife = 1
SYMMETRY Symmetry
INVARIANTS
    EncryptedOnce
    KeysHeldBounded
CHECK_DEADLOCK FALSE
