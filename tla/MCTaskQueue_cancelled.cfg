\* A task cancelled while a worker has it is overwritten by the worker's acknowledgement.
SPECIFICATION Spec
CONSTANTS
    t1 = t1
    t2 = t2
    t3 = t3
    u1 = u1
    u2 = u2
    w1 = w1
    w2 = w2
    b1 = b1
    Tasks = {t1}
    Users = {u1}
    owner <- OneUser
    Batches = {}
    NoBatch = NoBatch
    batch <- AllSingle
    NoTask = NoTask
    follows <- NoneBefore
    Workers = {w1}
    UserLimit = 1
    GlobalLimit = 2
    VT = 1
    TPS = 1
    Cleaners = {}
    Renewers = {}
    Stoppable = {}
    Cancellable = {t1}
    MaxPasses = 0
    MaxCrashes = 0
    MaxErrors = 0
PROPERTIES
    CancelledStaysCancelled
