SPECIFICATION Spec
CONSTANTS
    Threads = {t1, t2}
    Patches = {p1, p2}
    MaxSessions = 2
    MaxWrites = 1
    MaxEdits = 1
    MaxRestarts = 1
SYMMETRY Symmetry
INVARIANTS
    LedgerSound
    ExportMatchesApproval

    
CHECK_DEADLOCK FALSE
