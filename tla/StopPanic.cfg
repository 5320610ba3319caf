SPECIFICATION PanicSpec
CONSTANTS
    N = 2
    Daemon = {2}
    Server = {}
    MaxRestarts = 1
    MaxBuilds = 2
INVARIANT WorkerHasDependencies
