\* Reloads that change, remove and bring back the task.
SPECIFICATION Spec
CONSTANTS
    Configs <- ReloadConfigs
    NoTask = NoTask
    Hash <- MCHash
    Pids = {p1, p2}
    NoPid = NoPid
    Events = {"pause", "edit", "reload", "stop", "late_request", "second_daemon"}
    CrashPoints = {}
    OnTimeSlack = 0
    KillGrace = 1
    CoalescedDetailLimit = 1
    MaxBatch = 2
    Exits = {0}
    Retention = 2
    MaxTime = 3
    MaxRows = 4
    MaxStarts = 2
SYMMETRY PidSymmetry
INVARIANTS NoDoubleRun ClosedRunIsDead FiresAccounted OpenRunIsTracked PauseRemembered
CHECK_DEADLOCK FALSE
