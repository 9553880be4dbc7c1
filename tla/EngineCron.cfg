\* Overlap policies, late ticks, manual runs: one daemon that is never stopped.
SPECIFICATION Spec
CONSTANTS
    Configs <- CronConfigs
    NoTask = NoTask
    Hash <- MCHash
    Pids = {p1, p2}
    NoPid = NoPid
    Events = {"sleep", "ps_failure", "trigger", "launch_failure"}
    CrashPoints = {}
    OnTimeSlack = 0
    KillGrace = 1
    CoalescedDetailLimit = 1
    MaxBatch = 2
    Exits = {0}
    Retention = 2
    MaxTime = 4
    MaxRows = 5
    MaxStarts = 1
SYMMETRY PidSymmetry
INVARIANTS TypeOK QueuedBehindARun FiresAccounted StreakCounts OpenRunIsTracked
PROPERTIES ImplementsFireLedger
CHECK_DEADLOCK FALSE
