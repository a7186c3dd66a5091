CONSTANTS
    Group = {g1}
    User = {u1}
    NoRoute = NoRoute
    Hints <- MCHints
    MaxDirtyRoutes = 2
SPECIFICATION Spec
PROPERTY RevocationConfirmed
CHECK_DEADLOCK FALSE
