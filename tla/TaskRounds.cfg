SPECIFICATION Spec
CONSTANTS
    N = 2
    Measured = {2}
    Adoptable = {1}
    LastFile = 2
    Edited = {0, 2}
    MaxContent = 2
    MaxGen = 1
    Specs = {s1}
    MaxUpsets = 1
    s1 = s1
INVARIANTS
    AutoWritesOnce
    TornIsRecoverable
    SuccessHasEvidence

    
CHECK_DEADLOCK FALSE
