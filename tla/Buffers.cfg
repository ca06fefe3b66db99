CONSTANTS
    NULL = NULL
    main = main
    other = other
    sub = sub
    sub2 = sub2
    Mains = {main, other}
    Subs = {sub, sub2}
    DeviceAt <- Device
    GPUMemory = 8
    Alignment = 2
    Addresses <- SomeAddresses
    Creations <- SomeCreations
    Regions <- SomeRegions
    Transfers <- SomeTransfers
    Rectangles <- SomeRectangles
    MaxMoves = 2
SPECIFICATION BuffersSpec
INVARIANTS
    HostRightsKept
    MappedPointersAgree
PROPERTIES
    EffectAsDocumented
CHECK_DEADLOCK FALSE
