\* Violation: an install over a loaded service is refused by launchd.
SPECIFICATION Spec
CONSTANTS
    Homes = {h1, h2}
    None = None
    Broken = Broken
    Polls = 3
    SlowestTeardown = 2
    Faults = {}
SYMMETRY HomeSymmetry
PROPERTIES InstallRuns
CHECK_DEADLOCK FALSE
