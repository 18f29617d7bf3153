CONSTANTS
    NSlots = 3
    Repertoires <- Sched
SPECIFICATION FairSpec
PROPERTIES RunnableRuns SleepsRight OrphansReaped FatalSignalActs
