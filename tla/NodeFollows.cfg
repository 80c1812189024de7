CONSTANTS
    Slot = {1, 2}
    t1 = t1 t2 = t2
    Over = Over
    Task = {t1}
    BatchSizes = {1, 2}
    NoSlot = NoSlot
    NoTask = NoTask
    Target = {1, 2}
    Restarts = FALSE
SPECIFICATION FairSpec
PROPERTIES StopIsHeard GrowsBack WaitingTaskIsTaken
