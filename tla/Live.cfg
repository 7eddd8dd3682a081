SPECIFICATION LiveSpec
CONSTANTS
    Approver = "operator"
    MaxProbes = 2
    MaxCalls = 3
    MaxCrashes = 2
    MaxAuths = 1
    Jobs = {1}
    Contents = {s1, s2}
    MaxReverify = 1
    Criteria = 1
    MaxVersions = 1
    MaxDeaths = 1
    s1 = s1
    s2 = s2
INVARIANTS
    LeaseAgrees
    ResumeSound
    CancelNotIgnored
PROPERTIES
    WorkerSilent
    KeepsLife
    ReviewSettles
    StopAnswered
