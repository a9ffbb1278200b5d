SPECIFICATION Spec
CONSTANTS
    a1 = a1  a2 = a2
    Agents <- Two
    Ids <- Same
    Orders = {TRUE, FALSE}
    MaxTime = 3
    MaxCalls = 2
    MaxSends = 2
INVARIANTS TypeOK CausalUpToSecond Intact
CHECK_DEADLOCK FALSE
SYMMETRY Symmetry
