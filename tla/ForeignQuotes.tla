---------------------------- MODULE ForeignQuotes ----------------------------
(***************************************************************************)
(* Quotes of Hong Kong and US stocks: ForeignStockService                  *)
(* (app/services/foreign_stock_service.py).                                *)
(*                                                                         *)
(* A request for a quote takes a lock of its stock and of its force flag,  *)
(* looks at the cache again, and asks the providers in the order of the    *)
(* data source groupings.  Basic information and candlesticks go the same  *)
(* way without a lock.  The locks belong to the service: the routers build *)
(* a service for every request, the tests share one.  The cache is shared. *)
(* A step is the code between two awaits.                                  *)
(***************************************************************************)
EXTENDS Naturals, Sequences, FiniteSets

CONSTANTS
    QuoteRequests,  \* requests in progress
    Stocks,
    ProviderOrders, \* the valid providers, as the groupings may order them
    MaxQuotes,      \* bound: requests
    MaxAgeings      \* bound: times a cached entry grows older

ASSUME QuotesAssumption ==
    /\ ProviderOrders \subseteq Seq(STRING) \ {<<>>}
    /\ MaxQuotes \in Nat /\ MaxAgeings \in Nat

VARIABLES
    shared,         \* the requests share one service
    cached,         \* per stock: its quote, fetched within a second, or before
    asker,          \* per request: see NoRequest
    quotes, ageings

quoteVars == <<shared, cached, asker, quotes, ageings>>

\* covered: history, a quote of the stock has been saved while this request
\* waited, and is still good enough for it.
NoRequest == [at |-> "idle", stock |-> "none", force |-> FALSE, locks |-> FALSE,
              queue |-> <<>>, covered |-> FALSE]

QuotesInit ==
    /\ shared \in BOOLEAN
    /\ cached = [s \in Stocks |-> "none"]
    /\ asker = [r \in QuoteRequests |-> NoRequest]
    /\ quotes = 0 /\ ageings = 0

-----------------------------------------------------------------------------
\* The lock is found by the market and code and the force flag.
SameLock(r, q) ==
    /\ shared /\ asker[q].locks
    /\ asker[q].stock = asker[r].stock /\ asker[q].force = asker[r].force

Fetches(r) == asker[r].at \in {"order", "fetch"}

LockIsFree(r) == \A q \in QuoteRequests \ {r} : SameLock(r, q) => ~ Fetches(q)

RequestEnds(r) == asker' = [asker EXCEPT ![r] = NoRequest]

\* The cache is asked first, unless the refresh is forced.  What it has for
\* the requests without a lock are entries of their own, not followed here.
AskQuote(r, s, force, locks) ==
    /\ asker[r].at = "idle" /\ quotes < MaxQuotes /\ quotes' = quotes + 1
    /\ \/ ~ force /\ (locks => cached[s] # "none") /\ UNCHANGED asker
       \/ /\ force \/ ~ locks \/ cached[s] = "none"
          /\ asker' = [asker EXCEPT ![r] = [NoRequest EXCEPT
                !.at = IF locks THEN "lock" ELSE "order",
                !.stock = s, !.force = force, !.locks = locks]]
    /\ UNCHANGED <<shared, cached, ageings>>

\* Mutant: a forced request takes no notice of what was fetched meanwhile.
GoodEnough_Unforced(force, entry) == ~ force /\ entry # "none"

\* The second look: what is less than a second old even for a forced request.
GoodEnough(force, entry) == entry = "new" \/ (~ force /\ entry # "none")

TakeLock(r) ==
    /\ asker[r].at = "lock" /\ LockIsFree(r)
    /\ IF GoodEnough(asker[r].force, cached[asker[r].stock])
       THEN RequestEnds(r)
       ELSE asker' = [asker EXCEPT ![r].at = "order"]
    /\ UNCHANGED <<shared, cached, quotes, ageings>>

\* _get_source_priority and the filter for known providers.
GetOrder(r) ==
    /\ asker[r].at = "order"
    /\ \E o \in ProviderOrders : asker' = [asker EXCEPT ![r].at = "fetch", ![r].queue = o]
    /\ UNCHANGED <<shared, cached, quotes, ageings>>

Covers(asking, s) ==
    [q \in QuoteRequests |-> IF asking[q].stock = s /\ asking[q].at = "lock"
                        THEN [asking[q] EXCEPT !.covered = TRUE] ELSE asking[q]]

\* A provider answers: the quote is saved and the lock released.
FetchSucceeds(r) ==
    /\ asker[r].at = "fetch"
    /\ IF asker[r].locks
       THEN /\ cached' = [cached EXCEPT ![asker[r].stock] = "new"]
            /\ asker' = Covers([asker EXCEPT ![r] = NoRequest], asker[r].stock)
       ELSE RequestEnds(r) /\ UNCHANGED cached
    /\ UNCHANGED <<shared, quotes, ageings>>

\* It raises or has nothing: the next one, or the request fails.
FetchFails(r) ==
    /\ asker[r].at = "fetch"
    /\ IF Len(asker[r].queue) = 1
       THEN RequestEnds(r)
       ELSE asker' = [asker EXCEPT ![r].queue = Tail(@)]
    /\ UNCHANGED <<shared, cached, quotes, ageings>>

\* A second passes, or the entry expires; covered no more is who needs a newer.
Older(s) ==
    /\ ageings < MaxAgeings /\ ageings' = ageings + 1
    /\ cached[s] # "none"
    /\ cached' = [cached EXCEPT ![s] = IF @ = "new" THEN "old" ELSE "none"]
    /\ asker' = [r \in QuoteRequests |->
          [asker[r] EXCEPT !.covered =
              @ /\ (asker[r].stock = s => GoodEnough(asker[r].force, cached'[s]))]]
    /\ UNCHANGED <<shared, quotes>>

QuoteStep(r) == TakeLock(r) \/ GetOrder(r) \/ FetchSucceeds(r) \/ FetchFails(r)

QuotesNext ==
    \/ \E r \in QuoteRequests :
          \/ \E s \in Stocks, force, locks \in BOOLEAN : AskQuote(r, s, force, locks)
          \/ QuoteStep(r)
    \/ \E s \in Stocks : Older(s)

QuotesSpec == QuotesInit /\ [][QuotesNext]_quoteVars

-----------------------------------------------------------------------------
\* Every variable stays in its domain; a request is asking providers exactly
\* while it has one left to ask.
QuotesTypeOK ==
    /\ shared \in BOOLEAN /\ cached \in [Stocks -> {"none", "new", "old"}]
    /\ \A r \in QuoteRequests :
          /\ asker[r].at \in {"idle", "lock", "order", "fetch"}
          /\ asker[r].at = "fetch" <=> asker[r].queue # <<>>
          /\ asker[r].at = "idle" <=> asker[r] = NoRequest
          /\ asker[r].covered => asker[r].locks

\* Requests for the same quote that share a service and the force flag never
\* ask providers at the same time (the lock of _get_hk_quote, _get_us_quote).
OneFetchPerLock ==
    shared => \A r, q \in QuoteRequests :
        /\ r # q /\ asker[r].locks /\ asker[q].locks /\ Fetches(r) /\ Fetches(q)
        /\ asker[r].stock = asker[q].stock
        => asker[r].force # asker[q].force

\* A request asks no provider for a quote that another saved while it waited,
\* as long as that is less than a second old, or it would take an older one:
\* also when the other had a different force flag, or a service of its own.
WaitersShare ==
    \A r \in QuoteRequests : asker[r].covered => asker[r].at = "lock"

\* Requests that share a service share a call to the providers and its result.
FetchesShared == OneFetchPerLock /\ WaitersShare

\* "确保同一股票同时只有一个API调用": two requests for the quote of one stock,
\* neither of them forced, never ask providers at the same time.
OneCallPerStock ==
    \A r, q \in QuoteRequests :
        /\ r # q /\ asker[r].locks /\ asker[q].locks /\ Fetches(r) /\ Fetches(q)
        /\ asker[r].stock = asker[q].stock
        => asker[r].force \/ asker[q].force
=============================================================================
