CONSTANTS
    c1 = c1
    c2 = c2
    s1 = s1
    Slot <- MCSlot
    Card <- MCCard
    Blank = Blank
    None = None
    Bare = Bare
    MaxRounds = 1
    MaxGestures = 4
    MaxQueue = 2
    MaxPending = 2
    Trusted <- MCTrusted
SPECIFICATION Spec
INVARIANTS
    ReportNotOlder
    PreviewIsCurrent
    SpinnerHasRequest
PROPERTY GateSpec
