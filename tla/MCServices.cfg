\* The services around the analysis, one at a time.
SPECIFICATION ServicesSpec
CONSTANTS
    Callers = {p1, p2, p3}
    MaxCalls = 2
    TimeWindow = 3
    MaxArrivals = 5
    Horizon = 5
    JobKinds = {"polls"}
    Batches = 1
    Recent = 0
    Overdue = 1
    MaxRuns = 2
    MaxEvents = 2
    Calls = {p1, p2}
    SyncBatches = 2
    MaxTries = 2
    MaxStarts = 3
    MaxRaises = 1
    Clients = {p1, p2}
    MaxOps = 3
    MaxFaults = 1
    Creators = {p1, p2}
    Sockets = {p1, p2}
    MaxPerUser = 3
    MaxNotes = 5
    MaxMishaps = 1
    Threads = {p1, p2}
    Available <- AvailableSources
    Orders <- PriorityOrders
    DefaultSource = "mongodb"
    MaxAsks = 2
    QuoteRequests = {p1, p2, p3}
    Stocks = {"s1", "s2"}
    ProviderOrders <- QuoteProviders
    MaxQuotes = 3
    MaxAgeings = 1
    Requests = {p1, p2}
    Markets = {"CN", "US"}
    InitialCash = 3
    Commission = 2
    Prices = {1}
    Quantities = {1}
    MaxOrders = 3
    MaxErrors = 1
    MaxDays = 1
INVARIANTS
    ServicesTypeOK
    WindowRespected
    RecordsMatchRuns
    FlagMeansRunning
    StatusTells
    ActiveSettles
    EditsKept
    QuotaKept
    ConnectionsServed
    SourceKept
    FallbackSound
    FetchesShared
    OverdrawnBySalesOnly
    BooksKept
SYMMETRY RequestSymmetry
CHECK_DEADLOCK FALSE
