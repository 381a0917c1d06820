SPECIFICATION Spec
CONSTANTS
    Descriptors <- MCDescriptors
    Exports <- MCExports
    Configurations <- MCConfigurations
    UserValues <- MCUserValues
    DevicePayloads <- MCDevicePayloads
    DevicePackets <- MCDevicePackets
    Messages <- MCMessages
    Frames <- MCFrames
    Own = 4352
    MaxBus = 1
    MaxObjects = 2
INVARIANTS
    TypeOK
    ConfigurationAccepted
    TypeKept
    DevicesDistinct
    UserValueArrives
    ValuesAccepted
    ShownIsBus
    ShownUsable
    MessageHeard
    EventsDistinguishable
    FramesRead
CHECK_DEADLOCK FALSE
