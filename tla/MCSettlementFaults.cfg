SPECIFICATION Spec
CONSTANTS
    Tasks = {t1}
    Confirmations = 1
    ReorgLimit = 3
    BatchSize = 1
    MaxHeight = 5
    MaxReorg = 3
    MaxForks = 1
    MaxFaults = 1
    Disputes = TRUE
    WorkerPays = TRUE
    TextTopics = TRUE
CHECK_DEADLOCK FALSE
INVARIANTS SettledMeansCredited OnlyConfirmed
PROPERTY NothingSkipped
