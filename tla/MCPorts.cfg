CONSTANTS
    near = near
    far = far
    Readers <- MCReaders
    Lat <- MCLat
    BW = 2
    Data <- MCData
    ClientMax = 2
    Refusals = 1
    MaxCycle = 4
    NoItem <- MCNoItem
SPECIFICATION Spec
INVARIANTS
    TypeOK
    NoOverwrite
    InFlight
PROPERTY
    ImplementsDelayLine
