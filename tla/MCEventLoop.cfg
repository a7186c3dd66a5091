CONSTANTS
    Group = {g1}
    User = {u1}
    NoRoute = NoRoute
    Hints <- MCHints
    MaxDirtyRoutes = 2
SPECIFICATION FairSpec
INVARIANTS TypeOK WakeNotLost NoHintForgotten
PROPERTIES EveryHintRead
CHECK_DEADLOCK FALSE
