--------------------------- MODULE ServicesProofs ---------------------------
(***************************************************************************)
(* The services around the analysis together, for every value of their     *)
(* constants.  Each behaviour of the composition is, seen by one service,  *)
(* a behaviour of that service: its steps, and stuttering while another    *)
(* part is at work.  What the proofs of the services say therefore holds   *)
(* of the composition that is model-checked.                               *)
(***************************************************************************)
EXTENDS MCServices, FlowProofs, StoreProofs, MarketProofs

LEMMA FlowsWork ==
    ASSUME [ServicesNext]_servicesVars
    PROVE  [LimiterNext]_limiterVars /\ [JobsNext]_jobVars /\ [SyncNext]_syncVars
<1>1. CASE FlowsNext
  BY <1>1 DEF FlowsNext
<1>2. CASE UNCHANGED flowVars
  BY <1>2 DEF flowVars
<1> QED BY <1>1, <1>2 DEF ServicesNext, servicesVars

LEMMA StoresWork ==
    ASSUME [ServicesNext]_servicesVars
    PROVE  [ConfigNext]_configVars /\ [NotesNext]_notesVars
<1>1. CASE StoresNext
  BY <1>1 DEF StoresNext
<1>2. CASE UNCHANGED storeVars
  BY <1>2 DEF storeVars
<1> QED BY <1>1, <1>2 DEF ServicesNext, servicesVars

LEMMA MarketsWork ==
    ASSUME [ServicesNext]_servicesVars
    PROVE  [SourcesNext]_sourceVars /\ [QuotesNext]_quoteVars /\ [PaperNext]_paperVars
<1>1. CASE MarketNext
  BY <1>1 DEF MarketNext
<1>2. CASE UNCHANGED marketVars
  BY <1>2 DEF marketVars
<1> QED BY <1>1, <1>2 DEF ServicesNext, servicesVars

\* The composition is one of behaviours of the services: no part sees a step
\* that its own module does not allow (the parts share no state).
THEOREM ServicesCompose ==
    ServicesSpec =>
        /\ LimiterSpec
        /\ JobsInit /\ [][JobsNext]_jobVars
        /\ SyncInit /\ [][SyncNext]_syncVars
        /\ ConfigSpec /\ NotesSpec
        /\ SourcesSpec /\ QuotesSpec /\ PaperSpec
<1>1. ServicesInit => /\ LimiterInit /\ JobsInit /\ SyncInit /\ ConfigInit /\ NotesInit
                      /\ SourcesInit /\ QuotesInit /\ PaperInit
  BY DEF ServicesInit
<1>2. [ServicesNext]_servicesVars
        => [LimiterNext]_limiterVars /\ [JobsNext]_jobVars /\ [SyncNext]_syncVars
  BY FlowsWork
<1>3. [ServicesNext]_servicesVars => [ConfigNext]_configVars /\ [NotesNext]_notesVars
  BY StoresWork
<1>4. [ServicesNext]_servicesVars
        => [SourcesNext]_sourceVars /\ [QuotesNext]_quoteVars /\ [PaperNext]_paperVars
  BY MarketsWork
<1> QED BY <1>1, <1>2, <1>3, <1>4, PTL
        DEF ServicesSpec, LimiterSpec, ConfigSpec, NotesSpec, SourcesSpec, QuotesSpec, PaperSpec

\* The part at work stays the same, and its variables in their domains, for any
\* number of callers, clients, sockets, requests and faults.
THEOREM ServicesTypeCorrect == ServicesSpec => []ServicesTypeOK
<1>1. ServicesInit => part \in Parts
  BY DEF ServicesInit
<1>2. part \in Parts /\ [ServicesNext]_servicesVars => (part \in Parts)'
  BY DEF ServicesNext, servicesVars
<1>3. ServicesSpec => [](part \in Parts)
  BY <1>1, <1>2, PTL DEF ServicesSpec
<1> QED BY <1>3, ServicesCompose, LimiterTypeCorrect, JobsTypeHolds, SyncTypeHolds,
           ConfigTypeCorrect, NotesTypeCorrect, SourcesTypeCorrect, QuotesTypeCorrect,
           PaperTypeCorrect, PTL DEF ServicesTypeOK

\* What the services promise holds of the composition: the limiter's window, the
\* records of jobs and the synchronisation's flag and status, the configuration's
\* edits, the quota and the connections, the sources and their fallback, the
\* fetches shared, and the cash and books of an account.
THEOREM ServicesAreSafe ==
    ServicesSpec => [](/\ WindowRespected /\ RecordsMatchRuns
                       /\ FlagMeansRunning /\ StatusTells
                       /\ ActiveSettles /\ EditsKept
                       /\ QuotaKept /\ ConnectionsServed
                       /\ SourceKept /\ FallbackSound /\ FetchesShared
                       /\ OverdrawnBySalesOnly /\ BooksKept)
BY ServicesCompose, LimiterRespectsWindow, RecordsLast, FlagLasts, StatusLasts,
   ActiveIsSettled, EditsAreKept, QuotaIsKept, ConnectionsAreServed, ChosenSourceKept,
   FallbacksAreSound, RequestsShareFetches, OnlySalesOverdraw, BooksAreKept, PTL
=============================================================================
