CONSTANTS
    Tx <- Transactions
    HintsOf <- Hints
    Workers = 1
    QueueCapacity = 1
    MaxSkew = 1
    SeenCapacity = 2
    Offsets <- Clocks
    Never = Never
    MaxTime = 2
    MaxReplays = 1
SPECIFICATION Spec
INVARIANTS TypeOK HintsFollowCommit SignedRequests
PROPERTIES ReplayRejected EveryHintAccounted
CHECK_DEADLOCK FALSE
