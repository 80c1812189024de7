SPECIFICATION FairSpec
CONSTANTS
    n = n nb = nb jA = jA jB = jB s1 = s1 A = A B = B gpu = gpu
    Worker = {n, nb}
    Executor <- MCExecutor
    Extends <- MCExtends
    Type = {A, B}
    Tag = {gpu}
    AdvertOf <- MCAdvertOf
    SizesOf <- MCSizesOf
    MaxSize = 2
    Absent = Absent
    Task = {1, 2}
    Job = {jA, jB}
    Session = {s1}
    JobOf <- MCJobOf
    SessionOf <- MCSessionOf
    TypeOf <- MCTypeOf
    TagsOf <- MCTagsOf
    Priority = {1}
    WindowFactor = 2
    LeaseLimit = 2
    Itself = Itself
    NoOwner = NoOwner
    MaxCommands = 1
INVARIANT TypeOK OrdersStand BlockedIsBlocked LeaseableHasTaker
PROPERTY NoLeaseOnHold WorkFitsNode BestFirst PurgeSparesBusy ServableIsServed
