\* The session, the graph and the status of an analysis, one at a time.
SPECIFICATION AnalysisSpec
CONSTANTS
    MainThread = MainThread
    a1 = a1
    a2 = a2
    AnalystThreads <- TwoAnalysts
    Runs <- SmallRuns
    Main = Main
    Configs <- SmallConfigs
    t1 = t1
    t2 = t2
    Tasks <- TwoTasks
    PoolSize = 1
    MaxErrors = 1
    MaxRestarts = 1
    MaxRequests = 2
INVARIANTS
    AnalysisTypeOK
    EventsInOrder
    NoEventBelowCheckpoint
    RecoveredWhole
    HistoriesSound
    RoundsBounded
    ReportsDelivered
    CompletedIsSaved
    AgreeAtRest
    DeletedIsGone
PROPERTIES
    NotRunningAgain
CHECK_DEADLOCK FALSE
