----------------------------- MODULE MCAnalysis -----------------------------
(***************************************************************************)
(* Small instances of what happens to one analysis: the durable session it *)
(* writes, the graph it runs, and the two records of its status.  Each is  *)
(* modelled by itself, so part says which of them is at work in a          *)
(* behaviour; the others never begin.                                      *)
(***************************************************************************)
EXTENDS SessionStore, AnalysisGraph, TaskStatus

CONSTANTS a1, a2, t1, t2

VARIABLE part           \* the part at work
analysisVars == <<part, sessionVars, graphVars, statusVars>>

TwoAnalysts == {a1, a2}
TwoTasks    == {t1, t2}

\* Runs with two analyst threads, or one, and a Mongo call that raises or a
\* recovery, and without threads with tools, judged nodes, both, and a clock.
SessionRun(threads, skill, maxNodes, maxErrors, seconds, recoveries) ==
    [threads |-> threads, skill |-> skill, nodes |-> maxNodes, errors |-> maxErrors,
     seconds |-> seconds, recoveries |-> recoveries]

SmallRuns ==
    {SessionRun(TwoAnalysts, FALSE, 1, 1, 0, 0), SessionRun(TwoAnalysts, FALSE, 1, 0, 0, 1),
     SessionRun({a1}, FALSE, 1, 1, 0, 1), SessionRun({}, TRUE, 1, 1, 0, 1), SessionRun({}, FALSE, 2, 1, 0, 0),
     SessionRun({}, FALSE, 2, 0, 1, 1)}

\* The ways to run the analysts, with tool limits 0 to 3; the discussions with 0
\* to 2 rounds.
Limits(m, s, n, f) == [a \in Analysts |-> CASE a = "market" -> m [] a = "social" -> s
                                            [] a = "news" -> n [] OTHER -> f]

Cfg(order, parallel, workers, google, limits, rounds, riskRounds, retries) ==
    [order |-> order, parallel |-> parallel, workers |-> workers, google |-> google,
     maxCalls |-> limits, rounds |-> rounds, riskRounds |-> riskRounds,
     retries |-> retries]

AllFour == <<"market", "social", "news", "fundamentals">>

SmallConfigs ==
    {Cfg(AllFour, FALSE, 4, g, Limits(2, 3, 1, 1), 1, 1, 0) : g \in BOOLEAN}
      \cup {Cfg(<<"market", "social", "fundamentals">>, TRUE, 2, g,
                Limits(2, 2, 1, 1), 1, 1, 0) : g \in BOOLEAN}
      \cup {Cfg(<<"fundamentals", "market">>, FALSE, 4, FALSE,
                Limits(0, 0, 0, k), 0, 0, 1) : k \in {0, 2}}
      \cup {Cfg(<<"news">>, TRUE, 4, FALSE, Limits(1, 1, 1, 1), 2, 2, 1)}

AnalysisInit ==
    /\ part \in {"session", "graph", "status"}
    /\ SessionInit /\ GraphInit /\ StatusInit
    /\ part # "session" => run = CHOOSE r \in Runs : TRUE
    /\ part # "graph" => config = CHOOSE c \in Configs : TRUE

AnalysisNext ==
    /\ UNCHANGED part
    /\ \/ part = "session" /\ SessionNext /\ UNCHANGED <<graphVars, statusVars>>
       \/ part = "graph" /\ GraphNext /\ UNCHANGED <<sessionVars, statusVars>>
       \/ part = "status" /\ StatusNext /\ UNCHANGED <<sessionVars, graphVars>>

AnalysisSpec == AnalysisInit /\ [][AnalysisNext]_analysisVars

\* Every variable of the session, the graph and the status stays in its domain.
AnalysisTypeOK == SessionTypeOK /\ GraphTypeOK /\ StatusTypeOK
=============================================================================
