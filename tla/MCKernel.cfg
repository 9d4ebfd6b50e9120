CONSTANTS
    Input <- MCInput
    Seekable = TRUE
    Names = {"f"}
    MAX_ATTEMPTS = 2
    MaxOpens = 2
    BufferSize = 2
    MaxWritten = 1
CHECK_DEADLOCK FALSE
SPECIFICATION Spec
INVARIANTS
    StaleDescriptor
    ReplicasFollow
PROPERTIES
    ReadsFirstGoodWord
    PositiveCountIsExact
    CallsEnd
