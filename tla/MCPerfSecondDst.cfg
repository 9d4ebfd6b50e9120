CONSTANTS
    Regs <- MCRegs
    InitRF <- MCInitRF
    v0 = "a"
    epc = "hi"
    handler = 0
    DEADLOCK = 100
    CodeSize = 6
    long_alu_latency = 3
    LONG_LATENCY = 30
    Alphabet <- SecondDstAlphabet
    ProgramLength = 3
    prefetch_method = "no-prefetch"
    line_size = 6
    fetchahead = 0
    CacheLines = 4
    BTBSize = 4
    is_hooked = FALSE
    InstrsToRun = 4
    Calls = 1
    InitTags <- AllTags
    kernel_results <- Kernel
SPECIFICATION Spec
INVARIANTS
    RetiresInProgramOrder
