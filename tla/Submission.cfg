SPECIFICATION Spec
CONSTANTS
    a = a b = b k1 = k1 k2 = k2 k3 = k3
    Client = {a, b}
    OwnIds = {0, 2}
    Call = {k1, k2, k3}
    By <- MCBy
    Args <- MCArgs
    MaxTries <- MCMaxTries
    NewId = 6
INVARIANT OneJobPerCall PatientKeepsAll
PROPERTY RetryIsNotRefused
