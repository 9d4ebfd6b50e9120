CONSTANTS
    set_bits = 1
    page_bits = 1
    offset_bits = 1
    Addresses = 16
    Radix = 2
    Width = 4
    Stored <- Three
SPECIFICATION Spec
INVARIANTS
    CopyIsExact
    ReplicaAgrees
    SameStrings
    LoadReturnsStore
    UnalignedPair
