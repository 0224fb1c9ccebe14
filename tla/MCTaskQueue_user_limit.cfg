\* Two workers pass the re-check of dequeue_task before either marks its task, and the user has more tasks in process than the limit.
SPECIFICATION Spec
CONSTANTS
    t1 = t1
    t2 = t2
    t3 = t3
    u1 = u1
    u2 = u2
    w1 = w1
    w2 = w2
    b1 = b1
    Tasks = {t1, t2}
    Users = {u1}
    owner <- OneUser
    Batches = {}
    NoBatch = NoBatch
    batch <- AllSingle
    NoTask = NoTask
    follows <- NoneBefore
    Workers = {w1, w2}
    UserLimit = 1
    GlobalLimit = 2
    VT = 1
    TPS = 1
    Cleaners = {}
    Renewers = {}
    Stoppable = {}
    Cancellable = {}
    MaxPasses = 0
    MaxCrashes = 0
    MaxErrors = 0
INVARIANTS
    UserLimitRespected
