\* The EXPIRE of the lease key deletes it as it becomes due, the surviving worker's cleanup finds nothing, and the dead worker's task stays processing.
SPECIFICATION FairSpec
CONSTANTS
    t1 = t1
    t2 = t2
    t3 = t3
    u1 = u1
    u2 = u2
    w1 = w1
    w2 = w2
    b1 = b1
    Tasks = {t1}
    Users = {u1}
    owner <- OneUser
    Batches = {}
    NoBatch = NoBatch
    batch <- AllSingle
    NoTask = NoTask
    follows <- NoneBefore
    Workers = {w1, w2}
    UserLimit = 1
    GlobalLimit = 2
    VT = 1
    TPS = 1
    Cleaners = {w2}
    Renewers = {}
    Stoppable = {}
    Cancellable = {}
    MaxPasses = 2
    MaxCrashes = 1
    MaxErrors = 0
PROPERTIES
    CrashedTaskComesBack
