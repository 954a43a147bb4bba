CONSTANTS
    alpha = alpha
    bravo = bravo
    p1 = p1
    p2 = p2
    Callsign <- MCCallsign
    Pid <- MCPid
    MaxSetups = 2
    None = None
SPECIFICATION Spec
SYMMETRY Symmetry
INVARIANTS
    KeyOpensDatabase
    DaemonReachable
PROPERTY LostOnlyByAgreement
