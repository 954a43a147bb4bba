SPECIFICATION Spec
CONSTANTS
    p1 = p1
    p2 = p2
    ann = ann
    eve = eve
    m1 = m1
    m2 = m2
    b1 = b1
    b2 = b2
    Absent = Absent
    Sender = {ann, eve}
    Message = {m1, m2}
    Body = {b1, b2}
    Proc = {p1, p2}
    Envelope <- TwoBodies
    PageLimit = 1
    MaxPages = 2
    AckChunk = 2
    EndsIn = {"poll", "import"}
    MaxPosition = 3
    MaxImports = 2
    MaxFaults = 2
SYMMETRY Symmetry
INVARIANTS
    MarkOnlyOverJudged
    HistoryOnce
    AckedIsKept
