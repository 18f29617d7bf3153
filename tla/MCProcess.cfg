CONSTANTS
    NSlots = 3
    Repertoires <- AllCalls
SPECIFICATION Spec
INVARIANTS ChildHasLiveParent WaiterNotStuck PendingSound
PROPERTIES SigchldKept SavedFrameKept
