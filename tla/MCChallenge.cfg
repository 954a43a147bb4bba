SPECIFICATION Spec
CONSTANTS
    p1 = p1
    p2 = p2
    p3 = p3
    c1 = c1
    c2 = c2
    d1 = d1
    d2 = d2
    Proc = {p1, p2, p3}
    NoTxn = NoTxn
    ChallengeId = {c1, c2}
    Device = {d1, d2}
    TTL = 1
    Grace = 1
    MaxTime = 3
    Absent = Absent
SYMMETRY Symmetry
INVARIANTS
    AdmittedOnce
    RefusedOnlyByAWinner
CHECK_DEADLOCK FALSE
