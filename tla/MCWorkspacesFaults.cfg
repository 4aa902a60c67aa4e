SPECIFICATION Spec
CONSTANTS
    Workspaces = {w1}
    NumJobs = 1
    Builders = {b1, b2}
    Poller = poller
    Readers = {}
    SlowBuilds = TRUE
    MaxFaults = 1
    MaxLaunches = 3
    MaxReports = 1
SYMMETRY BuilderSymmetry
CHECK_DEADLOCK FALSE
INVARIANTS TypeOK NoOrphan
PROPERTIES DownForGood ResultsStand
