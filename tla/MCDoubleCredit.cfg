SPECIFICATION Spec
CONSTANTS
    Tasks = {t1, t2}
    NodeCount = 3
    MaxAttempts = 3
    TriggerRounds = 25
    RowLocks = TRUE
    LeasesExpire = TRUE
    CallsFail = FALSE
    LedgerFails = FALSE
    CanCancel = FALSE
    MaxCrashes = 0
    InitialEscrow = {"FUNDED"}
SYMMETRY TaskSymmetry
CHECK_DEADLOCK FALSE
INVARIANT AtMostOneSettlement
