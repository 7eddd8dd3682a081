SPECIFICATION ServerSpec
CONSTANTS
    Procs = {"a", "b"}
    Reviews = {"r1", "r2"}
    Users = {"execute", "propose1", "propose2", "repair"}
    ProcOf <- MCProcOf
    ReviewOf <- MCReviewOf
    OpOf <- MCOpOf
    Requested <- MCRequested
    Floor = 1
    Ceiling = 2
    MaxTime = 3
    MaxLeases = 3
    MaxDeaths = 1
    MaxReviews = 2
    MaxEdits = 1
    Standing = TRUE
    ThreadsMayFail = TRUE
    Items <- MCItems
    Writers = {"generate_repair"}
    Limit = 1
    Window = 2
    GrantTtl = 1
    MaxWrites = 2
    MaxHourly = 1
    Hour = 2
    StandingUntil = 2
    GrantForms <- MCGrants
    MaxClock = 2
    MaxGrants = 2
    MaxCrashes = 1
INVARIANTS
    Exclusion
    
    LimitsHold
PROPERTIES
    SupersededNeverBegins
CHECK_DEADLOCK FALSE
