SPECIFICATION Spec
CONSTANTS
    Leases = {l1, l2}
    Accounts = {admin, renter}
    Admin = admin
    Contract = escrow
    TreasuryVault = treasury
    NoAccount = nobody
    Amounts = {0, 101, 250}
    Durations = {0, 2, 3}
    InitialBalance = 300
    MaxTime = 5
SYMMETRY LeaseSymmetry
CHECK_DEADLOCK FALSE
INVARIANTS RentPaidOut PaidForTimeUsed NoGainFromRacing 
