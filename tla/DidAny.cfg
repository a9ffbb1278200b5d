SPECIFICATION Spec
CONSTANTS
    a1 = a1  a2 = a2  a3 = a3
    Agents <- Two
    Invites <- Mutual
    Synced <- One
    Senders <- One
    Queries <- One
    Prompt = TRUE
    MaxAccepts = 1
    MaxSends = 1
INVARIANTS TypeOK OnceReadable OnlyAccepterPanics OnlyRepeatsWedge
CHECK_DEADLOCK FALSE
