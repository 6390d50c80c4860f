CONSTANTS
    N = 2
    thres_down <- MCDown
    thres_up <- MCUp
    thres_1_to_retention = 4
    thres_retention_to_off = 1
    thres_off_to_1 = 5
    thres_retention_to_1 = 5
    Upper = 14
    system_leakage = 2
    FirstSamples = {0, 6}
    Samples = {1, 9}
    Costs = {0, 3}
    HandlerCosts = {1, 4, 9}
    NoMsg = NoMsg
    energy_profile_mult = 1
SPECIFICATION LeakSpec
PROPERTY
    LeakageEndsRetention
