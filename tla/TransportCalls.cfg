SPECIFICATION FairSpec
CONSTANTS
    p1 = p1
    p2 = p2
    t1 = t1
    t2 = t2
    Me = me
    Peers <- TwoPeers
    Topics <- OneTopic
    Publishers <- OnePublisher
    SingleQueue = {}
    MayClose = TRUE
    MaxJobs = 2
INVARIANTS
    TypeOK
    KeysMatch
PROPERTIES
    RequestsReturn
    ServesCalls
CHECK_DEADLOCK FALSE
