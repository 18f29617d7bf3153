SPECIFICATION Spec
CONSTANTS
    t1 = t1  t2 = t2  p1 = p1  p2 = p2  p3 = p3
    FPage = {p1, p2, p3}
    Task <- TwoTasks
    Value = {0, 1}
    Zero = 0
    Slots = 2
    HighWater = 2
    Critical = 2
    TickBudget = 1
    MaxBudget = 1
SYMMETRY Interchangeable
INVARIANTS SyncIsDurable
PROPERTIES OnlyWritesChange UntrackedOnlyAtCritical
