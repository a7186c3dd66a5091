CONSTANTS
    Proc = {p1, p2}
    Nobody = Nobody
    Closed = Closed
    Member = {m1}
    Source = {s1, s2}
    Target = {t1, t2}
    Native = {n1}
    NoMapping = NoMapping
    MaxObservations = 2
    MaxUnsynced = 3
SYMMETRY Symmetry
SPECIFICATION OrderlySpec
INVARIANTS TypeOK SingleWriter
PROPERTY ImplementsAtomicLedger
