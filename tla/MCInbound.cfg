SPECIFICATION FairSpec
CONSTANTS
    p1 = p1
    p2 = p2
    ann = ann
    eve = eve
    m1 = m1
    m2 = m2
    b1 = b1
    b2 = b2
    Absent = Absent
    Sender = {ann, eve}
    Message = {m1, m2}
    Body = {b1, b2}
    Proc = {p1}
    Envelope <- TwoMessages
    PageLimit = 2
    MaxPages = 2
    AckChunk = 1
    EndsIn = {"poll"}
    MaxPosition = 4
    MaxImports = 1
    MaxFaults = 1
INVARIANTS
    TrustedStaysAhead
PROPERTIES
    TrustedDelivered
    RewalkEnds
