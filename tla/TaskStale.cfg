SPECIFICATION Spec
CONSTANTS
    N = 1
    Measured = {}
    Adoptable = {1}
    LastFile = 1
    Edited = {0}
    MaxContent = 2
    MaxGen = 1
    Specs = {s1}
    MaxUpsets = 0
    s1 = s1
CHECK_DEADLOCK FALSE
INVARIANTS
    NothingInherited
