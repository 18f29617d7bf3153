CONSTANTS
    RamPages = 6
    PageUnits = 2
    HeapFirst = 1
    HeapLast = 5
    MaxRefs = 3
    Requests <- MCRequests
SPECIFICATION Spec
INVARIANTS RefsAreHolds AvailableExact
CHECK_DEADLOCK FALSE
