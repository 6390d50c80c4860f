CONSTANTS
    N = 3
    NoMsg = NoMsg
    Dev <- MCDev
    clockPeriod = 2
    cycle_backup = 1
    cycle_restore = 1
    delay_set <- MCSet
    delay_self <- MCSelf
    delay_cpu_interrupt <- MCInterrupt
    is_interruptable <- MCInterruptable
    Latencies = {2, 4}
    ReInit = TRUE
SPECIFICATION HistSpec
INVARIANT AssertTaskScheduled
