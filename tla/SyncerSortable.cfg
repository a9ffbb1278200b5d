SPECIFICATION Spec
CONSTANTS
    a1 = a1  a2 = a2
    Agents <- Two
    Ids <- Either
    Orders = {TRUE}
    MaxTime = 2
    MaxCalls = 1
    MaxSends = 2
INVARIANTS Sortable
CHECK_DEADLOCK FALSE
