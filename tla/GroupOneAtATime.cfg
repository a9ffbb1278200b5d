SPECIFICATION FairSpec
CONSTANTS
    a1 = a1
    a2 = a2
    a3 = a3
    a4 = a4
    Agents = {a1, a2, a3}
    Founders = {a1}
    Publishers = {a1, a2}
    Kinds = {"plain", "consistent"}
    Leavers = {a1, a2, a3}
    Sequential = TRUE
    MaxCalls = 1
    MaxLeaves = 1
INVARIANTS
    NoLeftovers
PROPERTIES
    SynchronousViews
    LeaverForgotten
CHECK_DEADLOCK FALSE
