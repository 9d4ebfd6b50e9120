CONSTANTS
    CAPACITY = 2
    NoKey = 0
    NoObject = NoObject
    Size = 4
    Words <- Program
    StoreWords <- Stored
    Vector = 3
    ISAs <- Architectures
    kernel_results <- KernelResults
    NopLimit = 1
    Runs <- Three
    MaxEdits = 2
SPECIFICATION Spec
INVARIANTS
    CacheAgrees
    EndsForAReason
PROPERTIES
    EvictsOnlyWhenFull
    FetchesPresentBytes
    ImplementsDelayedPC
