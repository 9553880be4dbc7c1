\* Every command sequence, with failures, interruptions, crashes and logins.
SPECIFICATION Spec
CONSTANTS
    Homes = {h1, h2}
    None = None
    Broken = Broken
    Polls = 3
    SlowestTeardown = 2
    Faults = {"copy", "plist", "launchctl", "interrupt", "crash"}
INVARIANTS TypeOK AimedAtABinary NoTraceLeft
PROPERTIES StopHolds RunsAsTold
CHECK_DEADLOCK FALSE
