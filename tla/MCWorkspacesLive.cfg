SPECIFICATION Spec
CONSTANTS
    Workspaces = {w1}
    NumJobs = 1
    Builders = {b1}
    Poller = poller
    Readers = {reader}
    SlowBuilds = FALSE
    MaxFaults = 1
    MaxLaunches = 3
    MaxReports = 1
CHECK_DEADLOCK FALSE
PROPERTIES WaitingEnds RowsCorrected
