CONSTANTS
    N = 2
    simQuantum = 2
    Local <- MCLocal
    src <- MCsrc
    dst <- MCdst
    Exits = {"exit"}
    Stats = {"stat"}
    Async = {"exit", "stat"}
    Early = FALSE
    Repeat = {0, 1}
    priority <- MCpriority
    NumCycles = {1, 3}
    EndTick = 3

SPECIFICATION Spec

INVARIANTS
    NoCrossedBarriers
    NothingInThePast
    ProcessAlone
    ClockSkew
    QuantumEventFound
    OthersWait

PROPERTY SimulateReturns

CHECK_DEADLOCK FALSE
