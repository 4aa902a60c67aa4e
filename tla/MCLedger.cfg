SPECIFICATION Spec
CONSTANTS
    dev = dev
    Developers = {dev}
    Leases = {l1}
    Tasks = {t1, t2}
    OwnerOf <- EarnedByOne
    Gross <- PriceOf40
    Requests = {r1, r2}
    Workers = {w1}
    WithdrawAmounts = {0, 34}
    MaxWithdrawals = 2
    MaxAttempts = 2
SYMMETRY LedgerSymmetry
CHECK_DEADLOCK FALSE
INVARIANTS TypeOK BalancesAreEarned UncontestedBalance 
