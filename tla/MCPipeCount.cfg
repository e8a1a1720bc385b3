SPECIFICATION CountFairSpec
CONSTANTS
    NRegs = 3
    NVals = 2
    NPcs = 5
    NWords = 2
    Progs <- LoopProgs
    Inputs <- LoopInputs
    TVec = 4
    NoExec = {}
    Misaligned = {}
    Faulting = {}
INVARIANT CyclesAccounted
PROPERTIES PipeIsIsa Progress
