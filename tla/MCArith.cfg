CONSTANTS
    XLEN = 8
    WORD = 4
    Operands <- AllOperands
    Factors <- MACFactors
    Raws <- AllRaws
    MIPSRaws <- AllMIPS
CHECK_DEADLOCK FALSE
SPECIFICATION Spec
INVARIANTS
    AccumulatesExactly
    ArithmeticIsExact
    BitsArePlaced
    ImmediatesDecode
    ClassFitsExecutor
