\* Two uploads that may share a receipt, two labs, two contents, two faults.
CONSTANTS
    Upload = {u1, u2}
    t1 = t1
    t2 = t2
    d1 = d1
    d2 = d2
    Target = {t1, t2}
    Archive <- Archives
    Receipt = {r1}
    None = None
    MaxFaults = 2
SPECIFICATION FairSpec
PROPERTY ApplyEnds
INVARIANTS
    ReferencesResolve
    NoLeak
    VersionsOrdered
CHECK_DEADLOCK FALSE
