CONSTANTS
    e1 = e1
    e2 = e2
    w1 = w1
    w2 = w2
    c1 = c1
    Env = {e1}
    EditedEnv = {e1}
    Client = {c1}
    Workload = {w1, w2}
    Stateful = {w2}
    Version = {1, 2}
    Spec <- AddsWorkload
    MaxRetries = 1
    MaxGen = 2
    MaxCreations = 2
    MaxFaults = 1
    MaxCrashes = 0
    MaxPanics = 1
    ChanCap = 1
    MaxTimers = 0
    NoItem = NoItem
    NoDoc = NoDoc
    NoEnv = NoEnv
SPECIFICATION ServiceSpec
CHECK_DEADLOCK FALSE
INVARIANTS ServicesTruthful NoOrphans
PROPERTIES ImplementsLifecycle UserItemSticks
