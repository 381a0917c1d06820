CONSTANTS
    light = light
    blind = blind
    meter = meter
    scene = scene
    NoObject = NoObject
    NoAddress = NoAddress
    Objects = {light, blind, meter, scene}
    NullObjects = {scene}
    Addresses <- MCAddresses
    Settings <- MCSettings
    TickInterval = 50
SPECIFICATION Spec
PROPERTY
    NoErrorForAnswered
CHECK_DEADLOCK FALSE
