SPECIFICATION FairSpec
CONSTANTS
    Subs = {"me", "other"}
    Me = "me"
    Subscribed = {"me"}
    MaxSends = 1
    MaxChanges = 2
    MaxRegs = 2
    Targets = {1, 2}
INVARIANTS TypeOK SendComplete CountsShown SecondOnlyAfterTimeout
PROPERTIES CalledBack Shown
CHECK_DEADLOCK FALSE
