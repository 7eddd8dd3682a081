SPECIFICATION Spec
CONSTANTS
    Claims = {"c1"}
    Experiments = {"c1"}
    Protected <- ProtectedClaims
    Grade <- ClaimGrade
    Reasons <- ChallengeReasons
    KReruns = 2
    MaxComments = 2
    MaxRevision = 2
    MaxRequests = 2
    MaxSubjects = 3
    MaxCrashes = 1
INVARIANTS
    JudgementSound
    RecordsAgree
CHECK_DEADLOCK FALSE
