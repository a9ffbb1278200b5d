SPECIFICATION Spec
CONSTANTS
    a1 = a1
    a2 = a2
    a3 = a3
    a4 = a4
    Agents = {a1, a2}
    Founders = {a1}
    Publishers = {a1, a2}
    Kinds = {"plain"}
    Leavers = {a1, a2}
    Sequential = FALSE
    MaxCalls = 2
    MaxLeaves = 1
INVARIANTS
    OnlyLeaversFail
    FilterIsSet
CHECK_DEADLOCK FALSE
