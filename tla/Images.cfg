CONSTANTS
    NULL = NULL
    one = one
    two = two
    ImageHandles = {one, two}
    ImageAt <- DeviceMemory
    ImageAddresses <- Memory
    MaxDimension = 32
    Tile4K = 4096
    ImageMemory = 100000
    Descriptions <- SomeDescriptions
    ImageCommands <- Commands
    MaxCommands = 1
SPECIFICATION ImagesSpec
INVARIANTS
    PixelsApart
PROPERTIES
    EffectOnPixels
CHECK_DEADLOCK FALSE
