CONSTANTS
    Group = {g1, g2}
    User = {u1}
    NoRoute = NoRoute
    Hints <- MCHints
    MaxDirtyRoutes = 3
    ConfirmDelay = 1
    JitDelay = 2
    RepairDelay = 2
    MaxCallbacks = 2
SPECIFICATION Spec
INVARIANTS TypeOK TimerCoversDelayed Capacity
PROPERTIES ImplementsDirtyQueue OverdueReleased
