\* Liveness, and jitter under punctual ticks: processes that ignore TERM, a daemon stopped once.
SPECIFICATION FairSpec
CONSTANTS
    Configs <- LiveConfigs
    NoTask = NoTask
    Hash <- MCHash
    Pids = {p1, p2}
    NoPid = NoPid
    Events = {"stop"}
    CrashPoints = {}
    OnTimeSlack = 0
    KillGrace = 1
    CoalescedDetailLimit = 1
    MaxBatch = 2
    Exits = {0}
    Retention = 2
    MaxTime = 10
    MaxRows = 6
    MaxStarts = 2
INVARIANTS NoEarlyStart
PROPERTIES LimitedRunCloses QueuedFireSettles StatusForetells
CHECK_DEADLOCK FALSE
