\* Violation: a watermark task whose launch fails is tried again at every tick.
SPECIFICATION Spec
CONSTANTS
    Configs <- WatermarkConfigs
    NoTask = NoTask
    Hash <- MCHash
    Pids = {p1, p2}
    NoPid = NoPid
    Events = {"launch_failure"}
    CrashPoints = {}
    OnTimeSlack = 0
    KillGrace = 1
    CoalescedDetailLimit = 1
    MaxBatch = 2
    Exits = {0}
    Retention = 2
    MaxTime = 4
    MaxRows = 4
    MaxStarts = 1
SYMMETRY PidSymmetry
INVARIANTS WatermarkSpacing
CHECK_DEADLOCK FALSE
