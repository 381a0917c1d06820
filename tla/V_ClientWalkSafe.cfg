CONSTANTS
    hall = hall
    cellar = cellar
    KnxDevice = KnxDevice
    NoEvent = NoEvent
    Devices <- MCDevices
SPECIFICATION FairSpec
INVARIANTS
    ClientWalkSafe
CHECK_DEADLOCK FALSE
