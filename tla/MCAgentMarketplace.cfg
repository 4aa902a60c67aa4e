SPECIFICATION Spec
CONSTANTS
    Tasks = {t1, t2}
    Accounts = {owner, alice}
    Owner = owner
    Contract = marketplace
    StakerVault = stakerVault
    DaoVault = daoVault
    Proofs = {proof}
    NoProof = noProof
    NoAccount = nobody
    Amounts = {0, 3, 7}
    Durations = {0, 1}
    DefaultTimeout = 2
    Splits <- MCSplits
    InitialBalance = 10
    MaxTime = 3
SYMMETRY TaskSymmetry
INVARIANTS PaidExactlyOnce  ClosedWithCause LogsDetermineStatus NeverStranded
