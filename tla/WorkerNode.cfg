CONSTANTS
    Slot = {1, 2}
    t1 = t1 t2 = t2
    Over = Over
    Task = {t1, t2}
    BatchSizes = {1, 2}
    NoSlot = NoSlot
    NoTask = NoTask
    Target = {0, 1, 2}
    Restarts = TRUE
SPECIFICATION Spec
INVARIANTS TypeOK NoOrphanThread OnePreassignedTask NothingMislaid StopsAfterOneMore BusyIsBusy
SYMMETRY TaskSymmetry
