\* Stops, crashes and adoption.
SPECIFICATION Spec
CONSTANTS
    Configs <- RestartConfigs
    NoTask = NoTask
    Hash <- MCHash
    Pids = {p1, p2}
    NoPid = NoPid
    Events = {"sleep", "stop", "reload", "pid_reuse"}
    CrashPoints = {"free", "due", "clear"}
    OnTimeSlack = 0
    KillGrace = 1
    CoalescedDetailLimit = 1
    MaxBatch = 2
    Exits = {0}
    Retention = 2
    MaxTime = 4
    MaxRows = 6
    MaxStarts = 3
SYMMETRY PidSymmetry
INVARIANTS NoDoubleRun ClosedRunIsDead OpenRunIsTracked KilledAsConfigured FiresAccounted
PROPERTIES StrangerSpared ReapedExitRecorded ImplementsFireLedger
CHECK_DEADLOCK FALSE
