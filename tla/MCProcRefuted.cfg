CONSTANTS
    NSlots = 4
    Repertoires <- Refuted
SPECIFICATION Spec
INVARIANTS KillReachesGroup SleepNotEarly
