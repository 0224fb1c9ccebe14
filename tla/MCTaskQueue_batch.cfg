\* A batch of three symbols enqueued while two workers consume it, one of which may be killed, its last task may be cancelled and one command may raise: the batch stays a prefix of its list, no task is delivered twice or lost behind its worker's back, and racing dequeues exceed the user limit by at most one slot per other worker, leaked slots included.
SPECIFICATION Spec
CONSTANTS
    t1 = t1
    t2 = t2
    t3 = t3
    u1 = u1
    u2 = u2
    w1 = w1
    w2 = w2
    b1 = b1
    Tasks = {t1, t2, t3}
    Users = {u1}
    owner <- OneUser
    Batches = {b1}
    NoBatch = NoBatch
    batch <- InOneBatch
    NoTask = NoTask
    follows <- ChainedBatch
    Workers = {w1, w2}
    UserLimit = 1
    GlobalLimit = 3
    VT = 1
    TPS = 1
    Cleaners = {}
    Renewers = {}
    Stoppable = {}
    Cancellable = {t3}
    MaxPasses = 0
    MaxCrashes = 1
    MaxErrors = 1
SYMMETRY WorkerSymmetry
INVARIANTS
    BatchIsPrefix
    UserOvershootBounded
    DeliveredAtMostOnce
    NoSilentLoss
