CONSTANTS
    e1 = e1
    e2 = e2
    w1 = w1
    w2 = w2
    c1 = c1
    c2 = c2
    Env = {e1}
    EditedEnv = {e1}
    Client = {c1, c2}
    Workload = {w1}
    Stateful = {}
    Version = {1, 2}
    Spec <- TwoVersions
    MaxRetries = 0
    MaxGen = 3
    MaxCreations = 2
    MaxFaults = 0
    MaxCrashes = 0
    MaxPanics = 0
    ChanCap = 1
    MaxTimers = 0
    NoItem = NoItem
    NoDoc = NoDoc
    NoEnv = NoEnv
SPECIFICATION ServiceSpec
PROPERTIES DeletingRefusesUpdate
CHECK_DEADLOCK FALSE
