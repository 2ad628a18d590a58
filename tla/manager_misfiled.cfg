SPECIFICATION Spec
CONSTANTS
    r1 = r1
    r2 = r2
    r3 = r3
    s1 = s1
    s2 = s2
    t1 = t1
    t2 = t2
    d1 = d1
    Revisions = {r1, r2}
    Passing = {r1, r2}
    Sources = {s1}
    Movable = {s1}
    Tags = {t1, t2}
    TagOf <- MCTagOf
    Readers = {}
    MaxRevisions = 3
    Faults = {"misfile"}
    NoRev = NoRev
    NoSource = NoSource
    NoTag = NoTag
    Missing = Missing
    Corrupt = Corrupt
INVARIANT
    RollbackIsExact
