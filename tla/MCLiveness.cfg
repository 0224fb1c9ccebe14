\* Under the scheduling the code relies on, what begins ends.
SPECIFICATION LivenessSpec
CONSTANTS
    Callers = {c1, c2}
    MaxCalls = 1
    TimeWindow = 3
    MaxArrivals = 4
    Horizon = 5
    JobKinds = {"reports"}
    Batches = 1
    Recent = 0
    Overdue = 1
    MaxRuns = 1
    MaxEvents = 2
    Calls = {s1, s2}
    SyncBatches = 1
    MaxTries = 2
    MaxStarts = 2
    MaxRaises = 1
    MainThread = MainThread
    a1 = a1
    a2 = a2
    AnalystThreads <- TwoAnalysts
    Runs <- FewRuns
    Main = Main
    Configs <- FewConfigs
    t1 = t1
    t2 = t2
    Tasks <- TwoTasks
    PoolSize = 1
    MaxErrors = 0
    MaxRestarts = 0
    MaxRequests = 1
PROPERTIES
    CallersServed
    NothingRunsForever
    SyncEnds
    SessionEnds
    Terminates
    RunEnds
CHECK_DEADLOCK FALSE
