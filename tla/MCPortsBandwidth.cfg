CONSTANTS
    near = near
    far = far
    Readers <- MCReaders
    Lat <- MCLat
    BW = 1
    Data <- MCData
    ClientMax = 2
    Refusals = 1
    MaxCycle = 5
    NoItem <- MCNoItem
SPECIFICATION Spec
PROPERTY
    OverloadThrows
