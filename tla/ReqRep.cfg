SPECIFICATION FairSpec
CONSTANTS
    Agents = {"a", "b"}
    Uses <- Some
    Queries <- Patterns
    Stoppers = {"a"}
    MaxCalls = 2
INVARIANTS TypeOK OneInFlight AnswersMatch StopsGracefully
PROPERTIES CallsReturn StopExits
CHECK_DEADLOCK FALSE
