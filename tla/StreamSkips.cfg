SPECIFICATION Spec
CONSTANTS
    Task = {1, 2}
    Limits = {1, 2}
    MaxTime = 3
    MaxTurns = 2
PROPERTY DoneMeansAllSent
