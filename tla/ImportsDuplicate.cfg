\* Two imports of the same work, no fault.
CONSTANTS
    Upload = {u1, u2}
    t1 = t1
    t2 = t2
    d1 = d1
    d2 = d2
    Target = {t1, t2}
    Archive <- Archives
    Receipt = {r1}
    None = None
    MaxFaults = 0
SPECIFICATION Spec
INVARIANT IdenticalContentDeduplicated
CHECK_DEADLOCK FALSE
