CONSTANTS
    RamPages = 11
    PageUnits = 2
    HeapFirst = 1
    HeapLast = 11
    Slots = {0, 1, 2}
    Slot0 = 0
    KStackPages = 2
    PtPages = 1
    Reserve = 1
    Headroom = 1
    MaxCowReserve = 1
    MaxUserPages = 2
    Programs <- MCPrograms
    FileUnits = 3
    MaxFilePages = 1
SPECIFICATION Spec
INVARIANTS RefsMatchOwners AdmittedCompletes
