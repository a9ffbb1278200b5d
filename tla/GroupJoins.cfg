SPECIFICATION FairSpec
CONSTANTS
    a1 = a1
    a2 = a2
    a3 = a3
    a4 = a4
    Agents = {a1, a2, a3}
    Founders = {a1}
    Publishers = {a1, a2}
    Kinds = {"consistent"}
    Leavers = {}
    Sequential = FALSE
    MaxCalls = 1
    MaxLeaves = 0
INVARIANTS
    TypeOK
    OnlyEntered
    HelloGuarantee
    MutualViews
    SubscribersComplete
PROPERTIES
    JoinCompletes
CHECK_DEADLOCK FALSE
