SPECIFICATION Spec
CONSTANTS
    p1 = p1
    p2 = p2
    alice = alice
    d1 = d1
    d2 = d2
    k1 = k1
    k2 = k2
    a = a
    b = b
    c1 = c1
    c2 = c2
    Proc = {p1, p2}
    NoTxn = NoTxn
    Identity = {alice}
    Device = {d1, d2}
    PubKey = {k1, k2}
    DeviceRecord <- MCDeviceRecord
    Publication <- MCPublication
    BundleId = {1, 2, 3}
    OneTimeKey = {1, 2}
    PublicKey = {a, b}
    ClaimId = {c1, c2}
    LegacyDevice <- MCLegacyDevice
    MaxDevices = 2
    Retries = 2
    MaxTime = 1
    Absent = Absent
SYMMETRY Symmetry
INVARIANTS
    OneTimeKeyHandedOnce
    ClaimAnswerStable
    AvailableIffUnclaimed
    PublishersAuthorized
