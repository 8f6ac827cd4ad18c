\* Two submissions and defenses, two keys, every preparation path, two attempts,
\* one retry per job, a lease of two ticks and a backend clock that may be behind
\* or ahead of the database.
CONSTANTS
    Submission = {s1, s2}
    DefenseId = {1, 2}
    AttemptId = {1, 2}
    JobId = {1, 2, 3, 4}
    Runner = {r1}
    Key = {k1, k2}
    None = None
    MaxRetries = 1
    LeaseTTL = 2
    Limit = {1}
    FirstLimit = 1
    Skew <- ClockSkew
SYMMETRY Symmetry
SPECIFICATION Spec
INVARIANTS
    WorkConserved
    ChecksBelongToPlay
    DiscoveryOnce
    PassedInTime
    LeaseLedger
    NewestLeaseWins
PROPERTIES
    ImplementsContract
    LostLeaseStaysLost
