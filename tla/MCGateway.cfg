CONSTANTS
    hall = hall
    cellar = cellar
    KnxDevice = KnxDevice
    NoEvent = NoEvent
    Devices <- MCDevices
SPECIFICATION FairSpec
INVARIANTS
    TypeOK
    TickWalkSafe
    CleanReturn
    TelegramsReachLegacy
PROPERTIES
    SignalEndsProgram
CHECK_DEADLOCK FALSE
