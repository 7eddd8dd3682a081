SPECIFICATION Spec
CONSTANTS
    MaxAuths = 1
    Jobs = {1, 2}
    Snapshots = {s1, s2}
    MaxReverify = 1
    Criteria = 1
    MaxVersions = 2
    MaxCrashes = 1
    s1 = s1
    s2 = s2
PROPERTIES
    
    KeepsBook
CHECK_DEADLOCK FALSE
