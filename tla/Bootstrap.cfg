SPECIFICATION FairSpec
CONSTANTS
    N = 3
    Daemon = {2}
    Server = {3}
    MaxRestarts = 1
    MaxBuilds = 3
INVARIANTS HealthMeansUp WorkerHasDependencies RestartLimit
PROPERTIES ProcessEnds
