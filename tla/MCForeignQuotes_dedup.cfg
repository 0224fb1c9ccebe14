\* Two requests with a service each ask for the quote of one stock.
SPECIFICATION QuotesSpec
CONSTANTS
    QuoteRequests = {q1, q2}
    Stocks = {"s1"}
    ProviderOrders <- QuoteProviders
    MaxQuotes = 2
    MaxAgeings = 0
INVARIANT OneCallPerStock
CHECK_DEADLOCK FALSE
