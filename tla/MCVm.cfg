SPECIFICATION Spec
CONSTANTS
    t1 = t1  t2 = t2  t3 = t3
    f1 = f1  f2 = f2
    Task = {t1, t2, t3}
    Boot = t1
    Va = {1}
    Frame = {f1, f2}
    Value = {0, 1}
    Zero = 0
    TASK_ASID_MAX = 2
    Reserve = 0
    Prots = {"r", "rw"}
    Programs = {{1}}
    Unmapped = Unmapped
SYMMETRY Interchangeable
INVARIANTS RecordsAgree TlbCoherent
PROPERTIES IsolatedMemory
