CONSTANTS
    Group = {g1, g2}
    User = {u1, u2}
    NoUser = NoUser
    Secret = {s1, s2}
    Unusable = Unusable
    NoSecret = NoSecret
    MaxAccepted = 2
SPECIFICATION Spec
SYMMETRY Symmetry
INVARIANTS TypeOK IndexConsistent
PROPERTIES AcceptedResolves
