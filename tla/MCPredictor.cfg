CONSTANTS
    ways = 2
    Policies = {"LRU"}
    Tags = {1, 2, 3}
    NoTag = 0
    Modes <- AllModes
    DEPTH = 1
    Targets = {0, 100}
    Window = 4
SPECIFICATION Spec
INVARIANTS
    PredictsOwnHistory
    CoherentPrediction
