SPECIFICATION Spec
CONSTANTS
    Tasks = {t1}
    Confirmations = 1
    ReorgLimit = 3
    BatchSize = 1
    MaxHeight = 5
    MaxReorg = 1
    MaxForks = 0
    MaxFaults = 1
    Disputes = FALSE
    WorkerPays = TRUE
    TextTopics = TRUE
CHECK_DEADLOCK FALSE
INVARIANT CreditedOnce
