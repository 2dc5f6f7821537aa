SPECIFICATION FairSpec
CONSTANTS
    Commit = {c0, c1, c2}
    Base = c0
    NoHead = NoHead
    Finding = {f1}
    Process = {p1}
    MaxAttempts = 8
    MaxBlockers = 9
PROPERTIES
    LaunchedAtSelectedHead
    AttemptEnds
