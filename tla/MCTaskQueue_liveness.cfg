\* Two tasks of one user, submitted concurrently, one of which may be cancelled, compete for one slot between two workers, one of which may be stopped by SIGTERM at any point: a task put back is not starved and every task in the queue finishes or is withdrawn.
SPECIFICATION FairSpec
CONSTANTS
    t1 = t1
    t2 = t2
    t3 = t3
    u1 = u1
    u2 = u2
    w1 = w1
    w2 = w2
    b1 = b1
    Tasks = {t1, t2}
    Users = {u1}
    owner <- OneUser
    Batches = {}
    NoBatch = NoBatch
    batch <- AllSingle
    NoTask = NoTask
    follows <- NoneBefore
    Workers = {w1, w2}
    UserLimit = 1
    GlobalLimit = 2
    VT = 1
    TPS = 1
    Cleaners = {}
    Renewers = {}
    Stoppable = {w2}
    Cancellable = {t1}
    MaxPasses = 0
    MaxCrashes = 0
    MaxErrors = 0
PROPERTIES
    EveryTaskFinishes
