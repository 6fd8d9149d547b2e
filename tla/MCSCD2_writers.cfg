SPECIFICATION FairSpec
CONSTANTS
    w1 = w1
    w2 = w2
    o1 = o1
    o2 = o2
    a = a
    b = b
    Writers = {w1, w2}
    Owners = {o1}
    Snapshots = {a, b}
    ExplicitAt = TRUE
    MaxRows = 3
    MaxTime = 1
INVARIANTS TypeOK Succession NeverOrphaned
PROPERTIES CallEnds HistoryIsAppendOnly
