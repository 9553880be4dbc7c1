\* Violation: a reload that removes the task drops its queued fire.
SPECIFICATION Spec
CONSTANTS
    Configs <- ReloadConfigs
    NoTask = NoTask
    Hash <- MCHash
    Pids = {p1, p2}
    NoPid = NoPid
    Events = {"edit", "reload"}
    CrashPoints = {}
    OnTimeSlack = 0
    KillGrace = 1
    CoalescedDetailLimit = 1
    MaxBatch = 2
    Exits = {0}
    Retention = 2
    MaxTime = 3
    MaxRows = 5
    MaxStarts = 1
SYMMETRY PidSymmetry
PROPERTIES QueuedFireKept
CHECK_DEADLOCK FALSE
