SPECIFICATION JobsSpec
CONSTANTS
    Jobs = {1, 2}
    NameOrder <- MCOrder
    Requests <- MCRestartRequests
    CtorKinds <- MCCtor
    LateKinds <- MCLate
    NoLock = "nolock"
    NoKey = "none"
    BudgetTotal = 2
    MaxUsage = 1
    MaxCrashes = 1
    Runners = {"a", "b"}
    Pids = {1, 2, 3}
    MaxBorn = 3
    MaxStops = 1
INVARIANTS
    RunsOnce
    
    OnlyRestartStrands
    DedupeUnique
    QueueConsistent
    LockExclusion
    KillIsExact
PROPERTIES
    NoLateSuccess
CHECK_DEADLOCK FALSE
