SPECIFICATION ClientSpec
CONSTANTS
    Price = 2
    DefaultRate = 1
    LiveRate = 2
    Budgets = {2, 4}
    LeaseHours = {1, 2}
    DefaultHours = 2
    MaxSent = 3
    MaxEdits = 2
    MaxPolls = 4
    MaxReads = 2
    Repos = {r1, r2}
    NoRepo = none
    EarlierBuilds = {"none", "SUCCEEDED"}
    Settings = {s1, s2}
    MaxDeploys = 1
    MaxConnects = 1
    Containers = {w1}
    Leases = {l1}
    MaxRefreshes = 2
    MaxEvents = 2
    Users = {alice, root}
    Admins = {root}
    Nobody = nobody
    MaxSignIns = 1
    MaxVisits = 2
    MaxTx = 1
    MaxActs = 2
    DraftNames = {"n1", "n2"}
    Repositories = {"r1", "r2"}
    NoRepository = ""
    MaxDrafts = 2
    MaxTyped = 2
    Queries = {"all", "one"}
    AllAgents = "all"
    PageSize = 2
    Samples <- SamplesOf
    MaxStock = 3
    MaxPicks = 2
    MaxChecks = 1
    MaxPeeks = 2
    MaxQueries = 2
    MaxReviews = 1
    RealInsts = {"app"}
    DevInst = "dev"
    MaxHubActs = 2
    People = {"me", "u1", "u2"}
    Myself = "me"
    MaxToggles = 3
    Submissions = {"mine", "a1"}
    MyAgents = {"mine"}
    MaxDecisions = 3
    MaxBuilds = 2
    MaxFetches = 1
CHECK_DEADLOCK FALSE
INVARIANTS ClientTypeOK    SessionIsOwn   LeavesForStoredAgent 
 
