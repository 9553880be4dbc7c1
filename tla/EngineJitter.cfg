\* Violation: after a late tick a fire starts before its jitter offset.
SPECIFICATION Spec
CONSTANTS
    Configs <- LiveConfigs
    NoTask = NoTask
    Hash <- MCHash
    Pids = {p1, p2}
    NoPid = NoPid
    Events = {"sleep"}
    CrashPoints = {}
    OnTimeSlack = 0
    KillGrace = 1
    CoalescedDetailLimit = 1
    MaxBatch = 2
    Exits = {0}
    Retention = 2
    MaxTime = 4
    MaxRows = 5
    MaxStarts = 1
SYMMETRY PidSymmetry
INVARIANTS NoEarlyStart
CHECK_DEADLOCK FALSE
