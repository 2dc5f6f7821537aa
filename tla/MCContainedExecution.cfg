SPECIFICATION FairSpec
CONSTANTS
    MaxOutput = 1
    PipeSize = 1
INVARIANTS
    TypeOK
    CompletedIsTrue
PROPERTIES
    CallEnds
    DomainIsEnded
CHECK_DEADLOCK FALSE
