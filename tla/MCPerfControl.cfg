CONSTANTS
    Regs <- MCRegs
    InitRF <- MCInitRF
    v0 = "a"
    epc = "hi"
    handler = 0
    DEADLOCK = 100
    CodeSize = 4
    long_alu_latency = 2
    LONG_LATENCY = 30
    Alphabet <- ControlAlphabet
    ProgramLength = 3
    prefetch_method = "no-prefetch"
    line_size = 6
    fetchahead = 0
    CacheLines = 4
    BTBSize = 2
    is_hooked = FALSE
    InstrsToRun = 3
    Calls = 2
    InitTags <- AllTags
    kernel_results <- Kernel
SPECIFICATION Spec
INVARIANTS
    RetiresInProgramOrder
    ResumesWhereStopped
