CONSTANTS
    MaxSends = 2
    MaxSteps = 1
    Parts = 1
    MaxLag = 2
    ToolTurns = {1}
    MaxFaults = 2
SPECIFICATION Spec
INVARIANT NewestAnswerWins
