CONSTANTS
    e1 = e1
    e2 = e2
    e3 = e3
    e4 = e4
    NULL = NULL
    Event <- MCEvent
    priority <- MCPriority
    MaxTick = 2
SYMMETRY MCSymmetry
SPECIFICATION BinsSpec
INVARIANTS
    NeverPanics
    AgendaSorted
    NothingInThePast
PROPERTIES
    TimeForward
    ImplementsAgenda
