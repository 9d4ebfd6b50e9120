CONSTANTS
    ways = 4
    Policies <- Both
    Tags <- Five
    NoTag = "none"
    Careful = TRUE
SPECIFICATION Spec
INVARIANTS
    LookupFindsTags
    VictimIsNotRecent
PROPERTIES
    ImplementsLRUSet
