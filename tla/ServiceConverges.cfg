CONSTANTS
    e1 = e1
    e2 = e2
    w1 = w1
    w2 = w2
    c1 = c1
    Env = {e1, e2}
    EditedEnv = {e1}
    Client = {c1}
    Workload = {w1}
    Stateful = {}
    Version = {1}
    Spec <- OneVersion
    MaxRetries = 0
    MaxGen = 2
    MaxCreations = 1
    MaxFaults = 0
    MaxCrashes = 1
    MaxPanics = 0
    ChanCap = 1
    MaxTimers = 0
    NoItem = NoItem
    NoDoc = NoDoc
    NoEnv = NoEnv
SPECIFICATION FairServiceSpec
CHECK_DEADLOCK FALSE
INVARIANTS QueueInv
PROPERTIES EveryCommandServed
