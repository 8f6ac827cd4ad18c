\* Three waiters, two jobs, two faults.
CONSTANTS
    Waiter = {w1, w2, w3}
    JobId = {j1, j2}
    Nobody = Nobody
    MaxPending = 2
    MaxFaults = 2
SPECIFICATION WaitFairSpec
INVARIANTS
    NoLostWakeup
PROPERTY
    PickedUp
