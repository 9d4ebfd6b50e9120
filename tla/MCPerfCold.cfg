CONSTANTS
    Regs <- MCRegs
    InitRF <- MCInitRF
    v0 = "a"
    epc = "hi"
    handler = 0
    DEADLOCK = 100
    CodeSize = 6
    long_alu_latency = 3
    LONG_LATENCY = 30
    Alphabet <- ColdAlphabet
    ProgramLength = 2
    prefetch_method = "wrong-path"
    line_size = 2
    fetchahead = 1
    CacheLines = 2
    BTBSize = 1
    is_hooked = FALSE
    InstrsToRun = 4
    Calls = 1
    InitTags <- NoTags
    kernel_results <- Kernel
SPECIFICATION FairSpec
INVARIANTS
    RetiresInProgramOrder
    MissIsAbsent
    NoDeadlock
PROPERTIES
    RunReturns
