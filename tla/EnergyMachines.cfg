CONSTANTS
    N = 2
    Upper = 14
    system_leakage = 1
    energy_profile_mult = 1
    FirstSamples = {0, 3, 6, 9}
    Samples = {0, 1, 4, 9}
    Costs = {0, 1, 3}
    HandlerCosts = {1, 4, 9}
    NoMsg = NoMsg
    thres_ret_to_off = 2
    thres_1_to_ret = 5
    thres_ret_to_1 = 9
    thres_down <- MCDown
    thres_up <- MCUp
    thres_1_to_retention = 4
    thres_retention_to_off = 3
    thres_off_to_1 = 5
    thres_retention_to_1 = 5
    thres_off_low = 3
    thres_low_mid = 6
    thres_mid_high = 9
    thres_low = 4
    thres_high = 9
SPECIFICATION MachinesSpec
INVARIANTS
    RetentionOK
    MsgsFollow
PROPERTIES
    DVFSLevelOK
    DFSSettles
    TwoThresRail
