SPECIFICATION Spec
CONSTANTS
    Descriptors <- MCDescriptors
    Exports <- TimeOfDay
    Configurations <- MCConfigurations
    UserValues <- MCUserValues
    DevicePayloads <- MCDevicePayloads
    DevicePackets <- MCDevicePackets
    Messages <- MCMessages
    Frames <- MCFrames
    Own = 4352
    MaxBus = 1
    MaxObjects = 2
INVARIANT ControlFramesRead
CHECK_DEADLOCK FALSE
