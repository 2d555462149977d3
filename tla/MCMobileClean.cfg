\* One start.
SPECIFICATION FairSpec
CONSTANT MaxEngines = 1
INVARIANT
    StopIsClean
CHECK_DEADLOCK FALSE
