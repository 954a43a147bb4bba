SPECIFICATION Spec
CONSTANTS
    p1 = p1
    p2 = p2
    d1 = d1
    d2 = d2
    alice = alice
    bob = bob
    b1 = b1
    b2 = b2
    Proc = {p1, p2}
    Device = {d1}
    Sender = {alice}
    Body = {b1, b2}
    EnvId = {1, 2}
    Envelope <- MCEnvelope
    Cursor = {0, Absent}
    ReadThrough = {1, 2, Absent}
    Legacy <- NoLegacy
    Quota = 2
    BatchLimit = 1
    ByteBudget = 2
    BackfillBatch = 1
    RetentionCap = 2
    MarkTTL = 2
    MaxPosition = 2
    MaxTime = 6
    Absent = Absent
SYMMETRY Symmetry
INVARIANTS
    TypeOK
    EveryRecordSelectable
    MarksWithinIssued
    MarkOutlivesCovered
PROPERTIES
    JudgedPositionsStable
    AcceptedEnvelopeImmutable
