SPECIFICATION FairSpec
CONSTANTS
    Tasks = {t1, t2}
    NodeCount = 2
    MaxAttempts = 2
    TriggerRounds = 9
    RowLocks = TRUE
    LeasesExpire = FALSE
    CallsFail = TRUE
    LedgerFails = FALSE
    CanCancel = FALSE
    MaxCrashes = 1
    InitialEscrow = {"CREATED"}
CHECK_DEADLOCK FALSE
INVARIANTS  NeverForgotten
 
