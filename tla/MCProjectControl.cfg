SPECIFICATION FairSpec
CONSTANTS
    Command = {p1}
    MaxLaunches = 2
INVARIANTS
    NoStrangerSignalled
    SingleRuntime
    SafeMeansStopped
PROPERTIES
    RecordsOutliveProcesses
    GuardOutlivesRuntime
    CommandEnds
