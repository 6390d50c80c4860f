CONSTANTS
    N = 2
    simQuantum = 2
    Local <- MCLocal
    src <- MCsrc
    dst <- MCdst
    Exits = {}
    Stats = {"stat"}
    Async = {"stat"}
    Early = TRUE
    Repeat = {0, 1}
    priority <- MCpriority
    NumCycles = {4}
    EndTick = 6

SPECIFICATION Spec

INVARIANT NoCrossedBarriers
