SPECIFICATION Spec
CONSTANT MaxCrashes = 1
INVARIANT TerminatedGroupGone
CHECK_DEADLOCK FALSE
