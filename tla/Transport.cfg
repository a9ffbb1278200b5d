SPECIFICATION Spec
CONSTANTS
    p1 = p1
    p2 = p2
    t1 = t1
    t2 = t2
    Me = me
    Peers <- OnePeer
    Topics <- TwoTopics
    Publishers <- OnePublisher
    SingleQueue <- OneSingle
    MayClose = FALSE
    MaxJobs = 3
INVARIANTS
    OnlyClashesFail
    SocketsFollow
CHECK_DEADLOCK FALSE
