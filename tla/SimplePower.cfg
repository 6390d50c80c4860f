CONSTANTS
    N = 3
    thres_1_to_off = 2
    thres_off_to_1 = 8
    SMState <- State
    SMMsg <- MsgType
    StartSM <- StartState
    InitSM <- InitState
    InitSMMsg <- InitMsg
    SMUpdate <- update
    Leaks <- MCLeaks
    Lower <- energy_consume_lower_bound
    Upper = 12
    system_leakage = 1
    energy_profile_mult = 1
    FirstSamples = {0, 3, 7}
    Samples = {0, 1, 4, 9}
    Costs = {0, 1, 3}
    HandlerCosts = {1, 4, 9}
    NoMsg = NoMsg
SPECIFICATION Spec
INVARIANTS
    MsgQueueInv
    SlavesInStep
    StateMatchesEnergy
    MsgsTrackState
    SlavesKnowState
    AtMostTwoMsgs
PROPERTIES
    ImplementsRail
    QueueDrains
