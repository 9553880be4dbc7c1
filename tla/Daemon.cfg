SPECIFICATION FairSpec
CONSTANTS
    DefaultRetentionDays = 2
    DefaultOverrunStreakThreshold = 2
    Environment = {}
    MaxBytes = 2
    Keep = 2
    DaemonFiles <- MCDaemonFiles
    TasksDirs <- MCTasksDirs
    Clients = {"c1"}
    FailureLen = 3
    MaxMoves = 5
    MaxEdits = 2
INVARIANTS TypeOK InForceIsOneLoad ReloadApplies InForceIsSound StreakAlerted LogWhole
PROPERTIES RecentRowsStay StopHeard
CHECK_DEADLOCK FALSE
