CONSTANTS
    MaxSends = 2
    MaxSteps = 1
    Parts = 1
    MaxLag = 2
    ToolTurns = {1}
    MaxFaults = 1
SPECIFICATION Spec
INVARIANTS DrainedComplete
PROPERTIES ShownIsRecorded NothingStaysOpen
