SPECIFICATION FairSpec
CONSTANTS
    p1 = p1
    p2 = p2
    q1 = q1
    m1 = m1
    hello = hello
    bye = bye
    Absent = Absent
    Stranger = Stranger
    Peer = Peer
    Publisher = {q1}
    PoolTarget = 2
    Lifetime = 1
    MaxClaims = 3
    MaxBundles = 5
    MaxTime = 1
    MaxStrangers = 1
    MaxFaults = 1
    Proc = {p1}
    Message = {m1}
    Content = {hello}
    Sends <- OneSend
    EnvelopeLife = 1
INVARIANTS
    MailboxReadable
    MembersDistinct
PROPERTIES
    ClaimSettles
CHECK_DEADLOCK FALSE
