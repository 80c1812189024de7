SPECIFICATION Spec
CONSTANTS
    s1 = s1 s2 = s2 j1 = j1 j2 = j2 t1 = t1 t2 = t2 t3 = t3
    node = node slot = slot none = none
    Task = {t1, t2, t3}
    Job = {j1, j2}
    Session = {s1}
    JobOf <- MCJobOf
    SessionOf <- MCSessionOf
    Executor = {node, slot}
    NodeOf <- MCNodeOf
    NoOwner = none
    MaxRetries = 1
    LeaseLimit = 2
    ResetChoices = {TRUE}
    AttemptCap = 3
    Command = {"cancel"}
PROPERTY CancellingIsNotRevoked
SYMMETRY Twins
