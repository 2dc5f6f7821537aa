SPECIFICATION Spec
CONSTANTS
    Commit = {c0, c1, c2}
    Base = c0
    NoHead = NoHead
    Finding = {f1}
    Process = {p1, p2}
    MaxAttempts = 4
    MaxBlockers = 1
PROPERTIES LaunchedAtSelectedHead
