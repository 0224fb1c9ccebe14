----------------------------- MODULE MCServices -----------------------------
(***************************************************************************)
(* Small instances of the services around the analysis.  These parts share *)
(* no state, so part says which of them is at work in a behaviour, and the *)
(* others stay as they begin.                                              *)
(***************************************************************************)
EXTENDS RateLimiter, JobRecords, BasicsSync, ConfigStore, Notifications,
        DataSources, ForeignQuotes, PaperTrading

VARIABLE part           \* the part at work

Parts == {"limiter", "jobs", "sync", "config", "notes", "sources", "quotes", "paper"}

\* Tushare is not available, and is called all the same when it is swapped in.
AvailableSources == <<"mongodb", "akshare", "baostock">>
PriorityOrders   == {<<"akshare", "baostock">>, <<"baostock", "baostock">>}
QuoteProviders   == {<<"yahoo_finance", "akshare">>, <<"akshare">>}

\* Each part names its requests, threads or sockets alike, with the same values.
RequestSymmetry == Permutations(Requests)

flowVars     == <<limiterVars, jobVars, syncVars>>
storeVars    == <<configVars, notesVars>>
marketVars   == <<sourceVars, quoteVars, paperVars>>
servicesVars == <<part, flowVars, storeVars, marketVars>>

\* One beginning of the parts that are not at work is enough.
ServicesInit ==
    /\ part \in Parts
    /\ LimiterInit /\ JobsInit /\ SyncInit /\ ConfigInit /\ NotesInit
    /\ SourcesInit /\ QuotesInit /\ PaperInit
    /\ part # "jobs" => kind = CHOOSE k \in JobKinds : TRUE
    /\ part # "sources" => \A s \in DOMAIN has : has[s] = "data"
    /\ part # "quotes" => shared
    /\ part # "paper" => rules /\ market = CHOOSE m \in Markets : TRUE

FlowsNext ==
    \/ part = "limiter" /\ LimiterNext /\ UNCHANGED <<jobVars, syncVars>>
    \/ part = "jobs" /\ JobsNext /\ UNCHANGED <<limiterVars, syncVars>>
    \/ part = "sync" /\ SyncNext /\ UNCHANGED <<limiterVars, jobVars>>

StoresNext ==
    \/ part = "config" /\ ConfigNext /\ UNCHANGED notesVars
    \/ part = "notes" /\ NotesNext /\ UNCHANGED configVars

MarketNext ==
    \/ part = "sources" /\ SourcesNext /\ UNCHANGED <<quoteVars, paperVars>>
    \/ part = "quotes" /\ QuotesNext /\ UNCHANGED <<sourceVars, paperVars>>
    \/ part = "paper" /\ PaperNext /\ UNCHANGED <<sourceVars, quoteVars>>

ServicesNext ==
    /\ UNCHANGED part
    /\ \/ FlowsNext /\ UNCHANGED <<storeVars, marketVars>>
       \/ StoresNext /\ UNCHANGED <<flowVars, marketVars>>
       \/ MarketNext /\ UNCHANGED <<flowVars, storeVars>>

ServicesSpec == ServicesInit /\ [][ServicesNext]_servicesVars

\* Every variable of the service at work stays in its domain.
ServicesTypeOK ==
    /\ part \in Parts
    /\ part = "limiter" => LimiterTypeOK
    /\ part = "jobs" => JobsTypeOK
    /\ part = "sync" => SyncTypeOK
    /\ part = "config" => ConfigTypeOK
    /\ part = "notes" => NotesTypeOK
    /\ part = "sources" => SourcesTypeOK
    /\ part = "quotes" => QuotesTypeOK
    /\ part = "paper" => PaperTypeOK
=============================================================================
