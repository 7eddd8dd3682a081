SPECIFICATION FairSpec
CONSTANTS
    Jobs = {1, 2}
    NameOrder <- MCOrder
    Requests <- MCLiveRequests
    CtorKinds <- MCCtor
    LateKinds <- MCLate
    NoLock = "nolock"
    NoKey = "none"
    BudgetTotal = 1
    MaxUsage = 0
    MaxCrashes = 1
PROPERTIES
    StoppingResolves
    QueuedProgress
