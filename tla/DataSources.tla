----------------------------- MODULE DataSources -----------------------------
(***************************************************************************)
(* The data sources of Chinese stocks: DataSourceManager                   *)
(* (tradingagents/dataflows/data_source_manager.py).                       *)
(*                                                                         *)
(* One manager serves every analysis thread without a lock.  A request     *)
(* reads current_source again at each comparison: to choose the method to  *)
(* call, and for each candidate of a fallback.  Others change it meanwhile:*)
(* a switch for good, and a request for Tushare's own data, or for the     *)
(* name of a stock, for the time of one call.                              *)
(*                                                                         *)
(* What a source has of the stock asked for does not change.  The order of *)
(* a fallback is read from the system configuration each time.  Formats,   *)
(* indicators, periods and the file cache are left out.                    *)
(***************************************************************************)
EXTENDS Naturals, Sequences, SequencesExt

CONSTANTS
    Threads,
    Available,      \* available_sources, in the order they were checked
    DefaultSource,  \* default_source
    Orders,         \* what _get_data_source_priority_order may return
    MaxAsks         \* bound: requests and switches

\* The comparisons of get_stock_data and get_stock_dataframe, in order.
Chain == <<"mongodb", "tushare", "akshare", "baostock">>
Sources == ToSet(Chain)

ASSUME SourcesAssumption ==
    /\ Available \in Seq(Sources) /\ IsInjective(Available)
    /\ DefaultSource \in Sources
    /\ \A o \in Orders : o \in Seq(ToSet(Available) \ {"mongodb"})
    /\ MaxAsks \in Nat

VARIABLES
    has,            \* per source: what a call for the stock does
    currentSource,
    ask,            \* per thread: its request
    asks,
    chosen,         \* history: the default or what was last switched to
    clashed         \* history: a swap overlapped another, or a switch

sourceVars == <<has, currentSource, ask, asks, chosen, clashed>>

\* of: the source last called or to be swapped in; pos: in the chain; queue:
\* of a fallback; again: another fallback may follow; saved: the source to be
\* restored; tried: history, the sources called; calm: history, current_source
\* has not changed since the request began.
NoAsk == [op |-> "none", at |-> "idle", of |-> "none", pos |-> 0, queue |-> <<>>,
          again |-> FALSE, saved |-> "none", tried |-> <<>>, calm |-> TRUE]

Swaps == {"tushare", "info"}

SourcesInit ==
    /\ has \in [Sources -> {"data", "nothing", "error"}]
    /\ currentSource = DefaultSource
    /\ ask = [t \in Threads |-> NoAsk] /\ asks = 0
    /\ chosen = DefaultSource /\ clashed = FALSE

-----------------------------------------------------------------------------
\* What a call does, also of a source that is not available: only fallbacks
\* check for that.
Gives(s) == has[s]

Swapping(t) == ask[t].op \in Swaps /\ ask[t].at \in {"save", "set", "swapped", "restore"}

Sets(s, asking) ==
    /\ currentSource' = s
    /\ ask' = [u \in Threads |-> [asking[u] EXCEPT !.calm = @ /\ s = currentSource]]

Answers(t, answer) == ask' = [ask EXCEPT ![t].at = answer, ![t].queue = <<>>]

Ask(t, op) ==
    /\ ask[t].at = "idle" /\ asks < MaxAsks /\ asks' = asks + 1
    /\ op = "info" => "mongodb" \in ToSet(Available)
    /\ ask' = [ask EXCEPT ![t] = [NoAsk EXCEPT !.op = op,
                                               !.at = IF op \in Swaps THEN "save" ELSE "choose",
                                               !.pos = 1]]
    /\ clashed' = (clashed \/ (op \in Swaps /\ \E u \in Threads : Swapping(u)))
    /\ UNCHANGED <<has, currentSource, chosen>>

\* One comparison of the chain; past its end the source is "not supported".
Choose(t) ==
    /\ ask[t].at = "choose"
    /\ ask' = IF ask[t].pos > Len(Chain) THEN [ask EXCEPT ![t].at = "fall"]
              ELSE IF currentSource = Chain[ask[t].pos]
              THEN [ask EXCEPT ![t].at = "own", ![t].of = Chain[ask[t].pos]]
              ELSE [ask EXCEPT ![t].pos = @ + 1]
    /\ UNCHANGED <<has, currentSource, asks, chosen, clashed>>

\* Mutant: any failure of the chosen source ends the request.
Own_NoFallback(t) ==
    /\ ask[t].at = "own"
    /\ ask' = [ask EXCEPT ![t].tried = Append(@, ask[t].of),
                          ![t].at = IF Gives(ask[t].of) = "data" THEN "served" ELSE "failed"]
    /\ UNCHANGED <<has, currentSource, asks, chosen, clashed>>

\* The chosen source is called.  MongoDB's method falls back by itself, so
\* that get_stock_data will fall back once more; a data frame is given up when
\* the chosen source raises.
Own(t) ==
    LET s == ask[t].of IN
    /\ ask[t].at = "own"
    /\ ask' = [ask EXCEPT ![t].tried = Append(@, s),
                          ![t].again = ask[t].op = "data" /\ s = "mongodb",
                          ![t].at = CASE Gives(s) = "data" -> "served"
                                      [] Gives(s) = "error" /\ ask[t].op = "frame" -> "failed"
                                      [] OTHER -> "fall"]
    /\ UNCHANGED <<has, currentSource, asks, chosen, clashed>>

\* _try_fallback_sources reads the order; a data frame takes the available
\* sources as they come.
Fall(t) ==
    /\ ask[t].at = "fall"
    /\ \E o \in IF ask[t].op = "data" THEN Orders ELSE {Available} :
          ask' = [ask EXCEPT ![t].at = "try", ![t].queue = o]
    /\ UNCHANGED <<has, currentSource, asks, chosen, clashed>>

Again(t) == FALSE

\* The next source, unless it is the current one; after the last the request
\* has failed, or falls back again.
Try(t) ==
    LET s == Head(ask[t].queue) IN
    /\ ask[t].at = "try"
    /\ IF ask[t].queue = <<>>
       THEN IF ask[t].again
            THEN ask' = [ask EXCEPT ![t].again = Again(t), ![t].at = "fall"]
            ELSE Answers(t, "failed")
       ELSE IF s = currentSource
       THEN ask' = [ask EXCEPT ![t].queue = Tail(@)]
       ELSE ask' = [ask EXCEPT ![t].tried = Append(@, s),
                               ![t].queue = IF Gives(s) = "data" THEN <<>> ELSE Tail(@),
                               ![t].at = IF Gives(s) = "data" THEN "served" ELSE @]
    /\ UNCHANGED <<has, currentSource, asks, chosen, clashed>>

-----------------------------------------------------------------------------
\* get_china_stock_data_tushare, and in _try_fallback_stock_info the candidate
\* MongoDB: the source is saved, set, used and restored.  The second has no
\* finally; nothing it does in between raises.

SwapSave(t) ==
    /\ ask[t].at = "save"
    /\ ask' = [ask EXCEPT ![t].at = "set", ![t].saved = currentSource]
    /\ UNCHANGED <<has, currentSource, asks, chosen, clashed>>

SwapSet(t) ==
    LET s == IF ask[t].op = "tushare" THEN "tushare" ELSE "mongodb" IN
    /\ ask[t].at = "set"
    /\ Sets(s, [ask EXCEPT ![t].at = "swapped", ![t].of = s])
    /\ UNCHANGED <<has, asks, chosen, clashed>>

\* Mutant: nothing is restored when the call raises.
SwapCall_NoFinally(t) ==
    /\ ask[t].at = "swapped"
    /\ ask' = [ask EXCEPT ![t].at = IF Gives(ask[t].of) = "error" THEN "failed" ELSE "restore"]
    /\ UNCHANGED <<has, currentSource, asks, chosen, clashed>>

SwapCall(t) ==
    /\ ask[t].at = "swapped"
    /\ ask' = [ask EXCEPT ![t].at = "restore"]
    /\ UNCHANGED <<has, currentSource, asks, chosen, clashed>>

SwapRestore(t) ==
    /\ ask[t].at = "restore"
    /\ Sets(ask[t].saved, [ask EXCEPT
                              ![t].at = IF Gives(ask[t].of) = "data" THEN "served" ELSE "failed",
                                      ![t].saved = "none"])
    /\ UNCHANGED <<has, asks, chosen, clashed>>

\* set_current_source, for a source that is available.
Switch(s) ==
    /\ asks < MaxAsks /\ asks' = asks + 1
    /\ s \in ToSet(Available) \ {"mongodb"}
    /\ Sets(s, ask) /\ chosen' = s
    /\ clashed' = (clashed \/ \E t \in Threads : Swapping(t))
    /\ UNCHANGED has

AskEnds(t) ==
    /\ ask[t].at \in {"served", "failed"}
    /\ ask' = [ask EXCEPT ![t] = NoAsk]
    /\ UNCHANGED <<has, currentSource, asks, chosen, clashed>>

SourcesNext ==
    \/ \E t \in Threads :
          \/ \E op \in Swaps \cup {"data", "frame"} : Ask(t, op)
          \/ Choose(t) \/ Own(t) \/ Fall(t) \/ Try(t)
          \/ SwapSave(t) \/ SwapSet(t) \/ SwapCall(t) \/ SwapRestore(t)
          \/ AskEnds(t)
    \/ \E s \in Sources : Switch(s)

SourcesSpec == SourcesInit /\ [][SourcesNext]_sourceVars

-----------------------------------------------------------------------------
Answered(t) == ask[t].at \in {"served", "failed"}

\* Every variable stays in its domain; a source is saved exactly while it is
\* to be restored, and a queue lasts as long as its fallback.
SourcesTypeOK ==
    /\ currentSource \in Sources /\ chosen \in Sources /\ clashed \in BOOLEAN
    /\ \A t \in Threads :
          /\ ask[t].at \in {"idle", "choose", "own", "fall", "try", "save", "set", "swapped",
                            "restore", "served", "failed"}
          /\ ask[t].at \in {"set", "swapped", "restore"} <=> ask[t].saved \in Sources
          /\ ask[t].queue # <<>> => ask[t].at = "try"
          /\ ToSet(ask[t].tried) \subseteq Sources

\* Unless two swaps overlapped, or a switch fell into one, current_source is
\* the source chosen last whenever no swap is under way, whatever the swapped
\* calls raised (the finally of get_china_stock_data_tushare).
SourceKept ==
    ~ clashed /\ (\A t \in Threads : ~ Swapping(t)) => currentSource = chosen

\* A request during which nobody changed current_source fails only if no source
\* it could ask has the stock: the current one and those of every order in
\* force.  A data frame fails as well, with sources left, when the current one
\* raises.
FailsOnlyIfAllFail ==
    \A t \in Threads : ask[t].at = "failed" /\ ask[t].calm =>
        CASE ask[t].op = "data" ->
                \E o \in Orders : \A s \in ToSet(o) \cup {currentSource} : Gives(s) # "data"
          [] ask[t].op = "frame" ->
                \/ Gives(currentSource) = "error"
                \/ \A s \in ToSet(Available) : Gives(s) # "data"
          [] OTHER -> TRUE

\* How often a list names a source.
Times(s, list) == Cardinality({i \in DOMAIN list : list[i] = s})

\* However often current_source changes under a request, it calls no source
\* more than twice, and ends: a source is called again only when MongoDB's own
\* fallback has failed, or when current_source was changed.  Not so a source
\* that is configured twice: the order is not checked for that.
CalledTwiceAtMost ==
    \A t \in Threads : \A s \in Sources :
        LET called == Times(s, ask[t].tried) IN
        \/ called <= 1
        \/ called = 2 /\ ("mongodb" \in ToSet(ask[t].tried) \/ ~ ask[t].calm)
        \/ \E o \in Orders : Times(s, o) > 1

\* A request tries what there is to try before it fails, and no source over and
\* over.
FallbackSound == FailsOnlyIfAllFail /\ CalledTwiceAtMost
=============================================================================
