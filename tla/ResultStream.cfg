SPECIFICATION FairSpec
CONSTANTS
    Task = {1, 2, 3}
    Limits = {1, 2}
    MaxTime = 2
    MaxTurns = 2
INVARIANT SentOnce
PROPERTY MissedOnlyIfLate StreamEnds
