\* A check that outlives the deadline.
CONSTANTS
    Submission = {s1}
    DefenseId = {1}
    AttemptId = {1}
    JobId = {1, 2, 3}
    Runner = {r1}
    Key = {k1}
    None = None
    MaxRetries = 1
    LeaseTTL = 1
    Limit = {1}
    FirstLimit = 1
    Skew = {0}
SPECIFICATION Spec
INVARIANT
    SuccessFinishes
