CONSTANTS
    User = {1, 2}
    Gid = {g1, g2}
    NoGroup = NoGroup
    NoUser = NoUser
    NoMapping = NoMapping
    Closed = Closed
    Rules <- AllRules
    Grants <- FewGrants
    MaxEnv = 2
    MaxFaults = 1
SPECIFICATION Spec
INVARIANTS TypeOK BreakerHolds RecordsTruthful
PROPERTIES SteadyRemovalSeenTwice OnlyOwnRemoved PrincipalsKept QuietMeansGone RetiredMeansRevoked BoundBeforeChange UsesAtomicLedger Convergence
