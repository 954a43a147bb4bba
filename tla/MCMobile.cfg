CONSTANTS
    a = a
    b = b
    Phone <- MCPhone
    MaxMessages = 2
    MaxHandlers = 2
    MaxSwitches = 1
    Restless <- MCReaders
    Writes <- MCWrites
    Readers <- MCReaders
    Onboarded <- MCOnboarded
SPECIFICATION MobileSpec
INVARIANTS
    BusyIffHandler
    OneMessagePerCounter
    AckedWasJudged
