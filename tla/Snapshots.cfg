\* Two slots, of one process or of two, and two originals.
CONSTANTS
    s1 = s1
    s2 = s2
    a1 = a1
    a2 = a2
    k1 = k1
    k2 = k2
    Slot = {s1, s2}
    Agent = {a1, a2}
    Key = {k1, k2}
    Placement <- MCPlacement
    Task <- MCTask
    File = {f1}
    None = None
    RefTTL = 2
    CacheTTL = 2
    MaxSnapshots = 1
    MaxReferences = 1
    MaxTime = 2
    MaxJobs = 2
    MaxCrashes = 1
SPECIFICATION FairSpec
INVARIANTS
    SandboxOnWhole
    SnapshotsEarned
    AcceptedOnProof
PROPERTIES
    JobsEnd
\* The number of jobs is bounded; JobsEnd tells a stuck slot from an idle one.
CHECK_DEADLOCK FALSE
