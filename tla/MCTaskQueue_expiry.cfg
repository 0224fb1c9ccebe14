\* Two workers that both clean up, two passes, leases that are renewed, expire and are handled in every order, and one command that may raise and be swallowed: no slot or lease outlives its holder, and two cleanups may push the same task twice, which is all that ends the ledger's promise about it.
SPECIFICATION Spec
CONSTANTS
    t1 = t1
    t2 = t2
    t3 = t3
    u1 = u1
    u2 = u2
    w1 = w1
    w2 = w2
    b1 = b1
    Tasks = {t1}
    Users = {u1}
    owner <- OneUser
    Batches = {}
    NoBatch = NoBatch
    batch <- AllSingle
    NoTask = NoTask
    follows <- NoneBefore
    Workers = {w1, w2}
    UserLimit = 1
    GlobalLimit = 2
    VT = 1
    TPS = 1
    Cleaners = {w1, w2}
    Renewers = {w1}
    Stoppable = {}
    Cancellable = {}
    MaxPasses = 2
    MaxCrashes = 0
    MaxErrors = 1
INVARIANTS
    TypeOK
    SlotsBacked
    LeaseNamesHolder
PROPERTIES
    LedgerSpec
