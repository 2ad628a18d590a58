SPECIFICATION Spec
CONSTANTS
    r1 = r1
    r2 = r2
    r3 = r3
    r4 = r4
    c1 = c1
    c2 = c2
    c3 = c3
    Revisions = {r1, r2, r3, r4}
    Sound = {r1, r2, r3}
    Callers = {c1, c2, c3}
    MaxRevisions = 2
    NoRev = NoRev
SYMMETRY Symmetry
INVARIANTS
    TypeOK
    CacheIsBounded
    ClosedIsEmpty
    CompiledStays
