SPECIFICATION Spec
CONSTANTS
    Tasks = {t1, t2}
    NodeCount = 3
    MaxAttempts = 2
    TriggerRounds = 2
    RowLocks = TRUE
    LeasesExpire = TRUE
    CallsFail = TRUE
    LedgerFails = TRUE
    CanCancel = TRUE
    MaxCrashes = 1
    InitialEscrow = {"CREATED"}
CHECK_DEADLOCK FALSE
SYMMETRY TaskSymmetry
INVARIANTS DependencyOrder WorkMatchesPay DeadLetterIsExhausted
