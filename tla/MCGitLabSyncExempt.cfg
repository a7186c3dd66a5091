CONSTANTS
    User = {1, 2}
    Gid = {g1}
    NoGroup = NoGroup
    NoUser = NoUser
    NoMapping = NoMapping
    Closed = Closed
    Rules <- AllRules
    Grants <- AllGrants
    MaxEnv = 2
    MaxFaults = 0
SPECIFICATION Spec
PROPERTY ExemptKept
