SPECIFICATION FairSpec
CONSTANTS
    a1 = a1  a2 = a2  a3 = a3
    Agents = {a1, a2, a3}
    Invites <- Others
    Synced <- One
    Senders <- None
    Queries <- None
    Prompt = TRUE
    MaxAccepts = 1
    MaxSends = 0
INVARIANTS OnceConnected
PROPERTIES SyncSound AcceptConnects LoopGoesOn
CHECK_DEADLOCK FALSE
