\* Violation: a request in flight when the daemon stops starts a second process.
SPECIFICATION Spec
CONSTANTS
    Configs <- CronConfigs
    NoTask = NoTask
    Hash <- MCHash
    Pids = {p1, p2}
    NoPid = NoPid
    Events = {"stop", "trigger", "late_request"}
    CrashPoints = {}
    OnTimeSlack = 0
    KillGrace = 1
    CoalescedDetailLimit = 1
    MaxBatch = 2
    Exits = {0}
    Retention = 2
    MaxTime = 4
    MaxRows = 4
    MaxStarts = 2
SYMMETRY PidSymmetry
INVARIANTS NoDoubleRun
CHECK_DEADLOCK FALSE
