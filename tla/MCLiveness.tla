----------------------------- MODULE MCLiveness -----------------------------
(***************************************************************************)
(* Small instances of the parts whose scheduling justifies fairness.  part *)
(* says which of them is at work in a behaviour.  The others never begin,  *)
(* and nothing that fairness asks for is enabled in them.                  *)
(***************************************************************************)
EXTENDS RateLimiter, JobRecords, BasicsSync, SessionStore, AnalysisGraph, TaskStatus

CONSTANTS a1, a2, t1, t2

VARIABLE part           \* the part at work
flowVars     == <<limiterVars, jobVars, syncVars>>
analysisVars == <<sessionVars, graphVars, statusVars>>

TwoAnalysts == {a1, a2}
TwoTasks    == {t1, t2}

\* Two analyst threads, or a skill with tools and judged nodes and a Mongo call
\* that raises.
FewRuns ==
    {[threads |-> TwoAnalysts, skill |-> FALSE, nodes |-> 1, errors |-> 0, seconds |-> 0,
      recoveries |-> 0],
     [threads |-> {}, skill |-> TRUE, nodes |-> 1, errors |-> 1, seconds |-> 0,
      recoveries |-> 0]}

\* Three threads of two workers, or one analyst after another; a discussion of
\* one round, or of two, and a judge that may ask again.
FewConfigs ==
    {[order |-> <<"market", "social", "fundamentals">>, parallel |-> TRUE, workers |-> 2,
      google |-> TRUE, maxCalls |-> [a \in Analysts |-> 1], rounds |-> 1,
      riskRounds |-> 1, retries |-> 0],
     [order |-> <<"news", "market">>, parallel |-> FALSE, workers |-> 4,
      google |-> FALSE, maxCalls |-> [a \in Analysts |-> 2], rounds |-> 2,
      riskRounds |-> 2, retries |-> 1]}

LivenessInit ==
    /\ part \in {"limiter", "jobs", "sync", "session", "graph", "status"}
    /\ LimiterInit /\ JobsInit /\ SyncInit /\ SessionInit /\ GraphInit /\ StatusInit
    /\ part # "jobs" => kind = CHOOSE k \in JobKinds : TRUE
    /\ part # "session" => run = CHOOSE r \in Runs : TRUE
    /\ part # "graph" => config = CHOOSE c \in Configs : TRUE

FlowsNext ==
    \/ part = "limiter" /\ LimiterNext /\ UNCHANGED <<jobVars, syncVars>>
    \/ part = "jobs" /\ JobsNext /\ UNCHANGED <<limiterVars, syncVars>>
    \/ part = "sync" /\ SyncNext /\ UNCHANGED <<limiterVars, jobVars>>

AnalysisNext ==
    \/ part = "session" /\ SessionNext /\ UNCHANGED <<graphVars, statusVars>>
    \/ part = "graph" /\ GraphNext /\ UNCHANGED <<sessionVars, statusVars>>
    \/ part = "status" /\ StatusNext /\ UNCHANGED <<sessionVars, graphVars>>

LivenessNext ==
    /\ UNCHANGED part
    /\ \/ FlowsNext /\ UNCHANGED analysisVars
       \/ AnalysisNext /\ UNCHANGED flowVars

LivenessSpec ==
    /\ LivenessInit /\ [][LivenessNext]_<<part, flowVars, analysisVars>>
    /\ LimiterFairness /\ JobsFairness /\ SyncFairness
    /\ SessionFairness /\ GraphFairness /\ StatusFairness
=============================================================================
