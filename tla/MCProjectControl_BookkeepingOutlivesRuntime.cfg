SPECIFICATION Spec
CONSTANTS
    Command = {p1, p2}
    MaxLaunches = 2
PROPERTIES BookkeepingOutlivesRuntime
