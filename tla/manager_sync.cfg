SPECIFICATION StepSpec
CONSTANTS
    r1 = r1
    r2 = r2
    r3 = r3
    s1 = s1
    s2 = s2
    t1 = t1
    t2 = t2
    d1 = d1
    Revisions = {r1, r2, r3}
    Passing = {r1, r2}
    Sources = {s1}
    Movable = {}
    Tags = {t1}
    TagOf <- MCOneTag
    Readers = {}
    MaxRevisions = 2
    Faults = {"crash", "power", "sync", "write", "timeout", "network", "close"}
    NoRev = NoRev
    NoSource = NoSource
    NoTag = NoTag
    Missing = Missing
    Corrupt = Corrupt
INVARIANTS
    DurableBeforePublish
    EveryCrashStarts
PROPERTIES
    CallsEnd
