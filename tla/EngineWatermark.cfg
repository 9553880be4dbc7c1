\* Watermark tasks across stops and crashes, with runs that fail.
SPECIFICATION Spec
CONSTANTS
    Configs <- WatermarkConfigs
    NoTask = NoTask
    Hash <- MCHash
    Pids = {p1, p2}
    NoPid = NoPid
    Events = {"sleep", "stop", "prune"}
    CrashPoints = {"free", "due", "clear", "spawn"}
    OnTimeSlack = 0
    KillGrace = 1
    CoalescedDetailLimit = 1
    MaxBatch = 2
    Exits = {0, 1}
    Retention = 2
    MaxTime = 5
    MaxRows = 4
    MaxStarts = 3
SYMMETRY PidSymmetry
INVARIANTS LiveRunIsTracked WatermarkSpacing
PROPERTIES ClosedRowsStay StatusForetells
CHECK_DEADLOCK FALSE
