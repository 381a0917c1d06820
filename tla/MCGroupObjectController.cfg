CONSTANTS
    light = light
    blind = blind
    meter = meter
    scene = scene
    NoObject = NoObject
    NoAddress = NoAddress
    Objects = {light, blind, meter, scene}
    NullObjects = {scene}
    Addresses <- MCAddresses
    Settings <- MCSettings
    TickInterval = 50
SPECIFICATION FairSpec
INVARIANTS
    TypeOK
    PollConcluded
    TicksAsConfigured
    ErrorsFollowConnection
PROPERTIES
    ExpiryIsEarned
    PollContractHolds
    PolledForEver
CHECK_DEADLOCK FALSE
