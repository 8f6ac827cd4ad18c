\* Two slots and every fault, a lease of three ticks written by a clock that may be
\* behind, so that it can run out under a job of three ticks; one retry.
CONSTANTS
    Submission = {s1}
    DefenseId = {1}
    AttemptId = {1}
    JobId = {1, 2, 3}
    Runner = {r1}
    Key = {k1}
    None = None
    MaxRetries = 1
    LeaseTTL = 3
    Limit = {1}
    FirstLimit = 1
    Skew <- Behind
    Slot = {w1, w2}
    RunnerOf <- OneAgent
    JobTimeout = 3
SPECIFICATION FairAgentSpec
INVARIANTS
    LeaseNotShared
    LeaseKept
PROPERTY
    WorkEnds
