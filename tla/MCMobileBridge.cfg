\* Two starts, any number of stops.
SPECIFICATION FairSpec
CONSTANT MaxEngines = 2
INVARIANTS
    EnginesAreWhole
    OrphanNeedsRace
    PanicNeedsStop
PROPERTY
    StoppedEnginesEnd
CHECK_DEADLOCK FALSE
