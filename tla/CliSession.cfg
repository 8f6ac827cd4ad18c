\* Limits of one and two ticks, three builds.
CONSTANTS
    Limit = {1, 2}
    MaxAttempts = 3
SPECIFICATION CliSpec
INVARIANTS
    VerdictInTime
    ReportAgrees
CHECK_DEADLOCK FALSE
