CONSTANTS
    Callers = {"c1", "c2"}
    KeyOf <- MCKeyOf
    FileOrder <- MCFileOrder
    Units <- MCUnits
    Rounds = 2
    Slots = 1
    Modulus = 3
    MinAdmitted = 2
    MaxAdmitted = 3
    MaxCalls = 2
    MaxUpsets = 1
    MaxCrashes = 1
SPECIFICATION BothSpec
INVARIANTS
    LeaderAccountedFor
    
    RepositoryKept
CHECK_DEADLOCK FALSE
