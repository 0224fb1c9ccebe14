--------------------------- MODULE AnalysisProofs ---------------------------
(***************************************************************************)
(* Theorems about one analysis, for any number of tasks, any size of the   *)
(* pool and any configuration: the safety of the two copies of a task's    *)
(* status, the analysts' reports, their calls and the discussions of the   *)
(* graph that a task runs, its end, and the composition with its session.  *)
(***************************************************************************)
EXTENDS MCAnalysis, SessionStoreProofs, FoldLemmas, FiniteSetTheorems

-----------------------------------------------------------------------------
\* The status of a task.  Everything is said of one task at a time, in
\* Sound(t), and every step but Cleanup and Restart is a step of one task.


\* Stages in which the run has not yet reported an end.
Busy == {"insert", "validate", "start", "startMongo", "prepare", "prepareMongo", "pool",
         "thread", "report", "link", "complete", "fail"}

\* Whatever failed: a run not yet created is unknown, a deletion has emptied
\* memory, and what was deleted stays away.
Sound(t) ==
    /\ at[t] = "create" => memory[t] = "none" /\ mongo[t] = "none" /\ requested[t] = "nothing"
    /\ at[t] = "link" => t \in savedReports
    /\ requested[t] = "delete" => memory[t] = "none"
    /\ t \in deleted => /\ memory[t] = "none" /\ mongo[t] = "none"
                        /\ at[t] \notin {"create", "insert"}

\* As long as no Mongo call failed for t: what memory knows Mongo knows, and
\* completion is reported for linked tasks only.
Saved(t) ==
    t \notin unsaved =>
        /\ at[t] \notin {"create", "insert"} /\ mongo[t] = "none" => memory[t] = "none"
        /\ at[t] \in {"complete", "completeMongo"} => t \in linked \/ mongo[t] = "none"
        /\ memory[t] = "completed" \/ mongo[t] = "completed" => t \in linked

\* As long as no request met the run of t, memory follows its stages.
Followed(t) ==
    t \notin raced =>
        /\ requested[t] # "nothing" => at[t] \in Over
        /\ at[t] \in Busy => memory[t] \notin Final
        /\ at[t] = "completeMongo" => memory[t] \in {"none", "completed"}
        /\ at[t] = "failMongo" => memory[t] \in {"none", "failed"}
        /\ requested[t] = "mark" => memory[t] \in {"none", "failed"}

\* Both together: the two copies agree once the run and the requests are over.
Agreed(t) ==
    t \notin unsaved \cup raced /\ at[t] = "ended" /\ requested[t] = "nothing"
      /\ memory[t] # "none" => memory[t] \in Final /\ mongo[t] = memory[t]

StatusInv == \A t \in Tasks : Sound(t) /\ Saved(t) /\ Followed(t) /\ Agreed(t)

\* The stages follow each other as TaskStages lists them.
LEMMA StageOrder ==
    ASSUME NEW i \in 1..13
    PROVE  NextStage(TaskStages[i]) = TaskStages[i + 1]
<1> DEFINE Place == CHOOSE k \in DOMAIN TaskStages : TaskStages[k] = TaskStages[i]
<1>1. DOMAIN TaskStages = 1..14
  BY DEF TaskStages
<1>2. \A k \in 1..14 : TaskStages[k] = TaskStages[i] => k = i
  BY DEF TaskStages
<1>3. Place = i
  BY <1>1, <1>2
<1>4. NextStage(TaskStages[i]) = TaskStages[1 + Place]
  BY Zenon DEF NextStage
<1>5. 1 + i = i + 1
  OBVIOUS
<1> QED BY <1>3, <1>4, <1>5, Zenon

LEMMA StagesAre ==
    /\ NextStage("create") = "insert"
    /\ NextStage("insert") = "validate"
    /\ NextStage("validate") = "start"
    /\ NextStage("start") = "startMongo"
    /\ NextStage("startMongo") = "prepare"
    /\ NextStage("prepare") = "prepareMongo"
    /\ NextStage("prepareMongo") = "pool"
    /\ NextStage("pool") = "thread"
    /\ NextStage("thread") = "report"
    /\ NextStage("report") = "link"
    /\ NextStage("link") = "complete"
    /\ NextStage("complete") = "completeMongo"
    /\ NextStage("completeMongo") = "ended"
<1>1. \A i \in 1..13 : NextStage(TaskStages[i]) = TaskStages[i + 1]
  BY StageOrder
<1> QED BY <1>1 DEF TaskStages

LEMMA Names ==
    StageNames = {"create", "ended", "completeMongo", "failMongo", "lost"} \cup Busy
<1>1. DOMAIN TaskStages = 1..14
  BY DEF TaskStages
<1> QED BY <1>1 DEF StageNames, TaskStages, Busy

\* A step of one task disturbs that task only.
Local(t) ==
    /\ \A x \in Tasks \ {t} :
          /\ at'[x] = at[x] /\ memory'[x] = memory[x] /\ mongo'[x] = mongo[x]
          /\ requested'[x] = requested[x]
          /\ x \in savedReports' <=> x \in savedReports
          /\ x \in linked' <=> x \in linked
          /\ x \in unsaved' <=> x \in unsaved
          /\ x \in raced' <=> x \in raced
          /\ x \in deleted' <=> x \in deleted

StepOf(t) ==
    \/ Create(t) \/ RunTask(t) \/ Progress(t)
    \/ MarkMemory(t) \/ MarkMongo(t) \/ DeleteMemory(t) \/ DeleteMongo(t)

\* What a step of one task does to its type, to the others, and to itself.
LEMMA TaskStep ==
    ASSUME StatusTypeOK, StatusInv, NEW t \in Tasks, StepOf(t)
    PROVE  /\ StatusTypeOK'
           /\ Local(t)
           /\ (Sound(t) /\ Saved(t) /\ Followed(t) /\ Agreed(t))'
           /\ t \notin raced /\ memory[t] \in Final => memory'[t] # "running"
<1>a. Sound(t) /\ Saved(t) /\ Followed(t) /\ Agreed(t)
  BY DEF StatusInv
<1> USE <1>a, StagesAre, Names, TaskStatusAssumption
    DEF StatusTypeOK, Local, history, Sound, Saved, Followed, Agreed, Over, Busy, Final
<1>1. CASE Create(t)
  BY <1>1 DEF Create, Goto
<1>2. CASE Insert(t)
  BY <1>2 DEF Insert, Goto, MongoAnswers, MongoRaises
<1>3. CASE Validate(t)
  BY <1>3 DEF Validate, Goto
<1>4. CASE StartMemory(t)
  BY <1>4 DEF StartMemory, WriteMemory, SetMemory, Known, Goto
<1>5. CASE StartMongo(t)
  BY <1>5 DEF StartMongo, WriteMongo, SetMongo, Matched, MongoAnswers, MongoRaises, Goto
<1>6. CASE EnterPool(t)
  BY <1>6 DEF EnterPool, Goto
<1>7. CASE LeavePool(t)
  BY <1>7 DEF LeavePool, Goto
<1>8. CASE SaveReport(t)
  BY <1>8 DEF SaveReport, Goto, MongoAnswers, MongoRaises
<1>9. CASE LinkReport(t)
  BY <1>9 DEF LinkReport, Matched, Goto, MongoAnswers, MongoRaises
<1>10. CASE CompleteMemory(t)
  BY <1>10 DEF CompleteMemory, WriteMemory, SetMemory, Known, Goto
<1>11. CASE CompleteMongo(t)
  BY <1>11 DEF CompleteMongo, WriteMongo, SetMongo, Matched, MongoAnswers, MongoRaises, Goto
<1>12. CASE FailMemory(t)
  BY <1>12 DEF FailMemory, WriteMemory, SetMemory, Known, Goto
<1>13. CASE FailMongo(t)
  BY <1>13 DEF FailMongo, WriteMongo, SetMongo, Matched, MongoAnswers, MongoRaises, Goto
<1>14. CASE Progress(t)
  BY <1>14 DEF Progress, Reporting, SetMemory, Known
<1>15. CASE MarkMemory(t)
  BY <1>15 DEF MarkMemory, Request, Known, Running, Over
<1>16. CASE DeleteMemory(t)
  BY <1>16 DEF DeleteMemory, Request, Running, Over
<1>17. CASE MarkMongo(t)
  BY <1>17 DEF MarkMongo, SetMongo, Matched, MongoAnswers, MongoRaises
<1>18. CASE DeleteMongo(t)
  BY <1>18 DEF DeleteMongo, MongoAnswers, MongoRaises
<1> QED
  BY <1>1, <1>2, <1>3, <1>4, <1>5, <1>6, <1>7, <1>8, <1>9, <1>10, <1>11, <1>12, <1>13, <1>14, <1>15, <1>16, <1>17, <1>18
     DEF StepOf, RunTask

\* The clean-up and a restart meet several tasks at once.
LEMMA CleanupStep ==
    ASSUME StatusTypeOK, StatusInv, Cleanup
    PROVE  /\ StatusTypeOK' /\ StatusInv'
           /\ \A t \in Tasks : memory[t] \in Final => memory'[t] # "running"
<1> USE DEF Cleanup, history
<1>1. StatusTypeOK'
  BY TaskStatusAssumption DEF StatusTypeOK, Final
<1>2. ASSUME NEW t \in Tasks
      PROVE  /\ (Sound(t) /\ Saved(t) /\ Followed(t) /\ Agreed(t))'
             /\ memory[t] \in Final => memory'[t] # "running"
  BY <1>2 DEF StatusTypeOK, StatusInv, Sound, Saved, Followed, Agreed, Over, Busy, Final
<1> QED BY <1>1, <1>2 DEF StatusInv

LEMMA RestartStep ==
    ASSUME StatusTypeOK, StatusInv, Restart
    PROVE  /\ StatusTypeOK' /\ StatusInv'
           /\ \A t \in Tasks : memory[t] \in Final => memory'[t] # "running"
<1> USE DEF Restart, history
<1>1. StatusTypeOK'
  BY Names, TaskStatusAssumption DEF StatusTypeOK, Final, Busy
<1>2. ASSUME NEW t \in Tasks
      PROVE  /\ (Sound(t) /\ Saved(t) /\ Followed(t) /\ Agreed(t))'
             /\ memory[t] \in Final => memory'[t] # "running"
  BY <1>2 DEF StatusTypeOK, StatusInv, Sound, Saved, Followed, Agreed, Over, Busy, Final
<1> QED BY <1>1, <1>2 DEF StatusInv

\* The invariant is inductive, and no step breaks the promise on final statuses.
LEMMA StatusStep ==
    ASSUME StatusTypeOK, StatusInv, [StatusNext]_statusVars
    PROVE  /\ StatusTypeOK' /\ StatusInv'
           /\ \A t \in Tasks \ raced : memory[t] \in Final => memory'[t] # "running"
<1>1. CASE UNCHANGED statusVars
  BY <1>1 DEF statusVars, history, StatusTypeOK, StatusInv, Sound, Saved, Followed, Agreed, Final
<1>2. ASSUME NEW t \in Tasks, StepOf(t)
      PROVE  /\ StatusTypeOK' /\ StatusInv'
             /\ \A x \in Tasks \ raced : memory[x] \in Final => memory'[x] # "running"
  <2>1. /\ StatusTypeOK' /\ Local(t)
        /\ (Sound(t) /\ Saved(t) /\ Followed(t) /\ Agreed(t))'
        /\ t \notin raced /\ memory[t] \in Final => memory'[t] # "running"
    BY <1>2, TaskStep
  <2>2. ASSUME NEW x \in Tasks \ {t}
        PROVE  /\ (Sound(x) /\ Saved(x) /\ Followed(x) /\ Agreed(x))'
               /\ memory[x] \in Final => memory'[x] # "running"
    <3>1. Sound(x) /\ Saved(x) /\ Followed(x) /\ Agreed(x)
      BY <2>2 DEF StatusInv
    <3> QED BY <2>1, <2>2, <3>1 DEF Local, Sound, Saved, Followed, Agreed, Final
  <2> QED BY <2>1, <2>2 DEF StatusInv
<1>3. CASE Cleanup
  BY <1>3, CleanupStep
<1>4. CASE Restart
  BY <1>4, RestartStep
<1> QED BY <1>1, <1>2, <1>3, <1>4 DEF StatusNext, StepOf

LEMMA StatusStart == StatusInit => StatusTypeOK /\ StatusInv
BY Names, TaskStatusAssumption
   DEF StatusInit, StatusTypeOK, StatusInv, Sound, Saved, Followed, Agreed, Over, Busy, Final

LEMMA StatusInvariant == StatusSpec => [](StatusTypeOK /\ StatusInv)
<1>1. StatusInit => StatusTypeOK /\ StatusInv
  BY StatusStart
<1>2. StatusTypeOK /\ StatusInv /\ [StatusNext]_statusVars => StatusTypeOK' /\ StatusInv'
  BY StatusStep
<1> QED BY <1>1, <1>2, PTL DEF StatusSpec

\* The status of a task has its declared values in memory and in Mongo, and a
\* link points at a saved report (analysis_tasks, analysis_reports).
THEOREM StatusTypeCorrect == StatusSpec => []StatusTypeOK
BY StatusInvariant, PTL

\* Whoever saw "completed" finds the result through the task's document, after
\* a restart too, whatever requests met the run; unless a Mongo call failed
\* (_save_analysis_result_web_style runs before the final update).
THEOREM CompletionIsSaved == StatusSpec => []CompletedIsSaved
<1>1. StatusInv => CompletedIsSaved
  BY DEF StatusInv, Saved, CompletedIsSaved
<1> QED BY <1>1, StatusInvariant, PTL

\* Memory and Mongo agree on how a run ended once no request is in progress,
\* unless a Mongo call failed or a request met the run.
THEOREM CopiesAgree == StatusSpec => []AgreeAtRest
<1>1. StatusInv => AgreeAtRest
  BY DEF StatusInv, Agreed, AgreeAtRest
<1> QED BY <1>1, StatusInvariant, PTL

\* A deleted task stays away although its run goes on writing (update_one
\* without upsert, update_task_status only of known tasks).
THEOREM DeletionIsFinal == StatusSpec => []DeletedIsGone
<1>1. StatusInv /\ StatusTypeOK => DeletedIsGone
  BY DEF StatusInv, Sound, DeletedIsGone, StatusTypeOK
<1> QED BY <1>1, StatusInvariant, PTL

\* No late progress message turns a final status back to running.
THEOREM FinalStaysFinal == StatusSpec => NotRunningAgain
<1>1. StatusTypeOK /\ StatusInv /\ [StatusNext]_statusVars
        => [\A t \in Tasks \ raced : memory[t] \in Final => memory'[t] # "running"]_statusVars
  BY StatusStep
<1> QED BY <1>1, StatusInvariant, PTL DEF StatusSpec, NotRunningAgain

-----------------------------------------------------------------------------
\* The graph of an analysis.

ContextStages == {"off", "prepare", "ask", "route", "tools", "clear", "end", "raised"}
Working == {"prepare", "ask", "route", "tools", "clear"}
Early == {"new", "fanout", "analysts"}
Team == Threads(config)

GraphTyped ==
    /\ config \in Configs /\ stage \in Stages /\ todo \in Seq(Analysts)
    /\ pc \in [Ctxs -> ContextStages] /\ turn \in [Ctxs -> Analysts]
    /\ reports \in [Ctxs -> [Analysts -> Reports]] /\ produced \in [Analysts -> Reports]
    /\ asked \in [Analysts -> Nat] /\ DOMAIN count = Analysts
    /\ \A a \in Analysts : turn[a] = a

\* Which contexts work at which stage of run().
Phased ==
    /\ stage = "new" => \A c \in Ctxs : pc[c] = "off"
    /\ stage \notin {"analysts", "failed"} => pc[Main] \notin Working
    /\ stage \notin {"new", "fanout", "failed"} => \A a \in Team : pc[a] = "end"
    /\ \A a \in Analysts \ Team : pc[a] = "off"

\* run() takes its own analysts one after another, each once, and none of the
\* threads'.
Once ==
    /\ \A i \in 1 .. Len(todo) : todo[i] \notin Team /\ asked[todo[i]] = 0
    /\ \A i, j \in 1 .. Len(todo) : todo[i] = todo[j] => i = j
    /\ pc[Main] \in Working => turn[Main] \notin Team /\ \A i \in 1 .. Len(todo) : todo[i] # turn[Main]
    /\ stage = "new" => \A a \in Analysts : asked[a] = 0

\* Reports on the way: where the last one of each analyst is.
Carried ==
    /\ \A a \in Team : reports[a][a] = produced[a]
    /\ \A a \in Analysts \ Team : reports[Main][a] = produced[a]
    /\ stage \in {"new", "fanout"} => \A a \in Team : reports[Main][a] = "none"
    /\ stage \notin {"new", "fanout", "failed"} => \A a \in Team : reports[Main][a] = produced[a]

Allowed(a) == IF config.maxCalls[a] > 1 THEN config.maxCalls[a] ELSE 1

\* Whoever is to be asked once more has a call left.
Limited ==
    /\ \A a \in Analysts \ {"fundamentals"} : count[a] = asked[a] /\ asked[a] <= Allowed(a)
    /\ \A c \in Ctxs : pc[c] \in {"prepare", "ask", "tools"} /\ turn[c] # "fundamentals" =>
          asked[turn[c]] < Allowed(turn[c])

FlowInv == GraphTyped /\ Phased /\ Once /\ Carried /\ Limited

\* How far the discussions are, by the last speaker.
BullBear == IF last = "Bull" THEN spoken["Bull"] = spoken["Bear"] + 1
                             ELSE spoken["Bull"] = spoken["Bear"]

RiskOrder ==
    /\ IF last \in {"Risky", "Safe"} THEN spoken["Risky"] = spoken["Neutral"] + 1
                                       ELSE spoken["Risky"] = spoken["Neutral"]
    /\ IF last = "Safe" THEN spoken["Safe"] = spoken["Neutral"] + 1
                        ELSE spoken["Safe"] = spoken["Neutral"]

Unspoken(team) == \A s \in team : spoken[s] = 0

TalkInv ==
    /\ config \in Configs /\ stage \in Stages
    /\ spoken \in [Debaters \cup RiskTeam -> Nat]
    /\ stage \in Early => last = "" /\ Unspoken(Debaters)
    /\ stage \in Early \cup {"debate", "Research Manager", "Trader"} => Unspoken(RiskTeam)
    /\ stage = "debate" =>
          /\ last \in {"", "Bull", "Bear"} /\ BullBear
          /\ IF last = "" THEN Unspoken(Debaters) ELSE DebateTurns < 2 * config.rounds
    /\ stage \in Judged => last = ""
    /\ stage \in Judged \cup {"risk", "done"} => Fair(Debaters, "Bull", config.rounds)
    /\ stage = "risk" =>
          /\ last \in {"", "Risky", "Safe", "Neutral"} /\ RiskOrder
          /\ IF last = "" THEN Unspoken(RiskTeam) ELSE RiskTurns < 3 * config.riskRounds
    /\ stage \in {"Risk Judge", "done"} => Fair(RiskTeam, "Risky", config.riskRounds)

LEMMA ConfigIs ==
    ASSUME GraphAssumption, config \in Configs
    PROVE  /\ config.order \in Seq(Analysts) /\ Len(config.order) \in Nat
           /\ DOMAIN config.order = 1 .. Len(config.order)
           /\ \A i, j \in 1 .. Len(config.order) : config.order[i] = config.order[j] => i = j
           /\ config.workers \in Nat \ {0} /\ config.maxCalls \in [Analysts -> Nat]
           /\ config.rounds \in Nat /\ config.riskRounds \in Nat
           /\ Main \notin Analysts
<1>1. config \in ConfigType /\ Main \notin Analysts
  BY DEF GraphAssumption
<1>2. /\ config.order \in {s \in BoundedSeq(Analysts, 4) : IsInjective(s)}
      /\ config.workers \in Nat \ {0} /\ config.maxCalls \in [Analysts -> Nat]
      /\ config.rounds \in Nat /\ config.riskRounds \in Nat
  BY <1>1 DEF ConfigType
<1>3. PICK m \in 0 .. 4 : config.order \in [1 .. m -> Analysts]
  BY <1>2 DEF BoundedSeq, SeqOf
<1>4. config.order \in Seq(Analysts)
  BY <1>3, IsASeq
<1>5. Len(config.order) \in Nat /\ DOMAIN config.order = 1 .. Len(config.order)
  BY <1>4, LenProperties
<1> QED BY <1>1, <1>2, <1>4, <1>5 DEF IsInjective

\* The threads take the first analysts, run() the others.
LEMMA TeamIs ==
    ASSUME GraphAssumption, config \in Configs
    PROVE  /\ Team \subseteq Analysts
           /\ ~ FansOut(config) => Team = {}
           /\ FansOut(config) => \A i \in 1 .. Len(config.order) :
                 i > config.workers => config.order[i] \notin Team
<1>1. ASSUME FansOut(config)
      PROVE  /\ Team \subseteq Analysts
             /\ \A i \in 1 .. Len(config.order) : i > config.workers => config.order[i] \notin Team
  <2>1. PICK w \in Nat : w = config.workers
    BY ConfigIs
  <2>2. PICK n \in Nat : n = Len(config.order)
    BY ConfigIs
  <2>3. PICK k : k = Min({w, n})
    OBVIOUS
  <2>4. k \in Nat /\ k <= w /\ k <= n
    <3>1. CASE w <= n
      BY <2>3, <3>1 DEF Min
    <3>2. CASE n <= w
      BY <2>3, <3>2 DEF Min
    <3> QED BY <3>1, <3>2
  <2>5. Team = {config.order[i] : i \in 1 .. k}
    BY <1>1, <2>1, <2>2, <2>3 DEF Team, Threads
  <2>6. \A i \in 1 .. k : i \in 1 .. n
    BY <2>4
  <2>7. Team \subseteq Analysts
    BY <2>2, <2>5, <2>6, ConfigIs, ElementOfSeq
  <2>8. ASSUME NEW i \in 1 .. Len(config.order), i > config.workers, config.order[i] \in Team
        PROVE  FALSE
    <3>1. PICK j \in 1 .. k : config.order[j] = config.order[i]
      BY <2>5, <2>8
    <3>2. j = i
      BY <2>2, <2>6, <3>1, ConfigIs
    <3> QED BY <2>1, <2>2, <2>4, <2>8, <3>1, <3>2
  <2> QED BY <2>7, <2>8
<1> QED BY <1>1 DEF Team, Threads

LEMMA UpdateIs ==
    ASSUME NEW a \in Analysts, NEW h, NEW u \in Updates(a, h), count[a] \in Nat
    PROVE  /\ u.report \in Reports \cup {"kept"}
           /\ a # "fundamentals" => u.count = count[a] + 1
<1>1. CASE a = "market"
  <2>1. u \in MarketUpdates(h, count[a])
    BY <1>1 DEF Updates
  <2> QED BY <1>1, <2>1 DEF MarketUpdates, Update, Reports
<1>2. CASE a = "social"
  <2>1. u \in SocialUpdates(h, count[a])
    BY <1>2 DEF Updates
  <2> QED BY <1>2, <2>1 DEF SocialUpdates, Update, Reports
<1>3. CASE a = "news"
  <2>1. u \in NewsUpdates(h, count[a])
    BY <1>3 DEF Updates
  <2> QED BY <1>3, <2>1 DEF NewsUpdates, Update, Reports
<1>4. CASE a = "fundamentals"
  <2>1. u \in FundamentalsUpdates(h, count[a])
    BY <1>4 DEF Updates
  <2> QED BY <1>4, <2>1 DEF FundamentalsUpdates, Update, Reports
<1> QED BY <1>1, <1>2, <1>3, <1>4 DEF Analysts

\* A context that goes on in the same analyst, and asks nothing.
LEMMA ContextMoves ==
    ASSUME FlowInv, GraphAssumption, NEW c \in Ctxs, NEW to \in ContextStages,
           pc[c] \in Working, pc' = [pc EXCEPT ![c] = to],
           UNCHANGED <<config, todo, turn, reports, count, asked, produced>>,
           stage' = stage \/ (c = Main /\ stage' = "failed"),
           to = "tools" => asked[turn[c]] < Allowed(turn[c]) \/ turn[c] = "fundamentals",
           to \in {"prepare", "ask"} => pc[c] \in {"prepare", "ask", "tools"}
    PROVE  FlowInv'
<1>0. GraphTyped /\ Phased /\ Once /\ Carried /\ Limited
  BY DEF FlowInv
<1>1. /\ pc' \in [Ctxs -> ContextStages] /\ pc'[c] = to
      /\ \A d \in Ctxs \ {c} : pc'[d] = pc[d]
  BY <1>0 DEF GraphTyped
<1>2. stage' \in Stages
  BY <1>0 DEF GraphTyped, Stages
<1>3. GraphTyped'
  BY <1>0, <1>1, <1>2 DEF GraphTyped
<1>4. Team' = Team /\ Main \notin Analysts /\ Team \subseteq Analysts
      /\ Ctxs = Analysts \cup {Main}
  BY <1>0, ConfigIs, TeamIs DEF GraphTyped, Team, Ctxs
<1>5. stage # "new" /\ (c = Main => stage \in {"analysts", "failed"})
  BY <1>0 DEF Phased, Working
<1>6. c \in Analysts => c \in Team /\ stage \in {"fanout", "failed"} /\ stage' = stage
  BY <1>0, <1>4, <1>5 DEF Phased, Working
<1>7. Phased'
  BY <1>0, <1>1, <1>4, <1>5, <1>6 DEF Phased, Working
<1>8. Once'
  BY <1>0, <1>1, <1>4, <1>5 DEF Once
<1>9. Carried'
  BY <1>0, <1>4, <1>5, <1>6 DEF Carried
<1>10. \A a \in Analysts : Allowed(a)' = Allowed(a)
  BY DEF Allowed
<1>11. turn \in [Ctxs -> Analysts]
  BY <1>0 DEF GraphTyped
<1>12. Limited'
  BY <1>0, <1>1, <1>10, <1>11 DEF Limited
<1> QED BY <1>3, <1>7, <1>8, <1>9, <1>12 DEF FlowInv

LEMMA AnalyseFlow ==
    ASSUME FlowInv, GraphAssumption, NEW c \in Ctxs,
           Prepare(c) \/ Route(c) \/ RunTools(c) \/ ClearMessages(c) \/ Raise(c)
    PROVE  FlowInv'
<1>1. CASE Prepare(c)
  BY <1>1, ContextMoves DEF Prepare, Move, Working, ContextStages, runVars, histories
<1>2. CASE RunTools(c)
  BY <1>2, ContextMoves DEF RunTools, Move, Working, ContextStages, runVars
<1>3. CASE ClearMessages(c)
  BY <1>3, ContextMoves DEF ClearMessages, Move, Working, ContextStages, runVars, histories
<1>4. CASE Raise(c)
  <2>1. /\ pc[c] \in Working /\ pc' = [pc EXCEPT ![c] = "raised"]
        /\ UNCHANGED <<config, todo, turn, reports, count, asked, produced>>
        /\ stage' = IF c = Main THEN "failed" ELSE stage
    BY <1>4 DEF Raise, Move, Working, histories
  <2> QED BY <2>1, ContextMoves DEF ContextStages
<1>5. CASE Route(c)
  <2>1. PICK to \in {"tools", "clear"} :
           /\ pc[c] = "route" /\ pc' = [pc EXCEPT ![c] = to]
           /\ UNCHANGED <<config, stage, todo, turn, reports, count, asked, produced>>
           /\ to = "tools" => ~ OverLimit(turn[c])
    BY <1>5 DEF Route, Move, runVars, histories
  <2>2. PICK a \in Analysts : a = turn[c]
    BY DEF FlowInv, GraphTyped
  <2>3. a # "fundamentals" => count[a] = asked[a] /\ asked[a] \in Nat
    BY DEF FlowInv, GraphTyped, Limited
  <2>4. config.maxCalls[a] \in Nat
    BY ConfigIs DEF FlowInv, GraphTyped
  <2>5. to = "tools" => asked[a] < Allowed(a) \/ a = "fundamentals"
    BY <2>1, <2>2, <2>3, <2>4 DEF OverLimit, Allowed
  <2> QED BY <2>1, <2>2, <2>5, ContextMoves DEF Working, ContextStages
<1> QED BY <1>1, <1>2, <1>3, <1>4, <1>5

\* Which analyst a context may be asking: a thread its own, run() one that no
\* thread has.
LEMMA WhoAsks ==
    ASSUME FlowInv, GraphAssumption, NEW c \in Ctxs, pc[c] \in Working
    PROVE  /\ c \in Analysts => c \in Team /\ turn[c] = c /\ stage \in {"fanout", "failed"}
           /\ c = Main => turn[c] \notin Team /\ stage \in {"analysts", "failed"}
           /\ \A i \in 1 .. Len(todo) : todo[i] # turn[c]
           /\ \A d \in Ctxs \ {c} : pc[d] \in Working => turn[d] # turn[c]
<1>1. GraphTyped /\ Phased /\ Once /\ Main \notin Analysts /\ Ctxs = Analysts \cup {Main}
  BY ConfigIs DEF FlowInv, GraphTyped, Ctxs
<1>2. \A a \in Analysts : pc[a] \in Working =>
         a \in Team /\ turn[a] = a /\ stage \in {"fanout", "failed"}
  BY <1>1 DEF Phased, GraphTyped, Working
<1>3. pc[Main] \in Working => turn[Main] \notin Team /\ stage \in {"analysts", "failed"}
  BY <1>1 DEF Phased, Once
<1> QED BY <1>1, <1>2, <1>3 DEF Once

LEMMA AskFlow ==
    ASSUME FlowInv, GraphAssumption, NEW c \in Ctxs, Ask(c)
    PROVE  FlowInv'
<1>0. GraphTyped /\ Phased /\ Once /\ Carried /\ Limited
  BY DEF FlowInv
<1>1. PICK a \in Analysts : a = turn[c]
  BY <1>0 DEF GraphTyped
<1>2. PICK u \in Updates(a, hist[c]) :
         LET r == IF u.report = "kept" THEN reports[c][a] ELSE u.report IN
         /\ Move(c, "ask", "route")
         /\ reports' = [reports EXCEPT ![c][a] = r]
         /\ count' = [count EXCEPT ![a] = u.count]
         /\ asked' = [asked EXCEPT ![a] = @ + 1]
         /\ produced' = [produced EXCEPT ![a] = r]
         /\ UNCHANGED <<runVars, tooled>>
  BY <1>1 DEF Ask
<1>3. pc[c] = "ask" /\ pc[c] \in Working
  BY <1>2 DEF Move, Working
<1>4. PICK r : r = IF u.report = "kept" THEN reports[c][a] ELSE u.report
  OBVIOUS
<1>5. /\ pc' = [pc EXCEPT ![c] = "route"] /\ reports' = [reports EXCEPT ![c][a] = r]
      /\ count' = [count EXCEPT ![a] = u.count] /\ asked' = [asked EXCEPT ![a] = @ + 1]
      /\ produced' = [produced EXCEPT ![a] = r] /\ UNCHANGED <<config, turn, stage, todo>>
  BY <1>2, <1>4 DEF Move, runVars
<1>6. r \in Reports /\ (a # "fundamentals" => u.count = count[a] + 1)
  <2>1. reports[c][a] \in Reports
    BY <1>0 DEF GraphTyped
  <2>2. a # "fundamentals" => count[a] \in Nat
    BY <1>0 DEF GraphTyped, Limited
  <2>3. CASE a # "fundamentals"
    BY <1>4, <2>1, <2>2, <2>3, UpdateIs
  <2>4. CASE a = "fundamentals"
    <3>1. u.report \in Reports \cup {"kept"}
      BY <2>4 DEF Updates, FundamentalsUpdates, Update, Reports
    <3> QED BY <1>4, <2>1, <2>4, <3>1
  <2> QED BY <2>3, <2>4
<1>7. /\ pc' \in [Ctxs -> ContextStages] /\ pc'[c] = "route"
      /\ \A d \in Ctxs \ {c} : pc'[d] = pc[d]
  BY <1>0, <1>5 DEF GraphTyped, ContextStages
<1>8. /\ asked' \in [Analysts -> Nat] /\ asked'[a] = asked[a] + 1 /\ asked[a] \in Nat
      /\ \A b \in Analysts \ {a} : asked'[b] = asked[b]
  BY <1>0, <1>5 DEF GraphTyped
<1>9. /\ DOMAIN count' = Analysts /\ count'[a] = u.count
      /\ \A b \in Analysts \ {a} : count'[b] = count[b]
  BY <1>0, <1>5 DEF GraphTyped
<1>10. /\ produced' \in [Analysts -> Reports] /\ produced'[a] = r
       /\ \A b \in Analysts \ {a} : produced'[b] = produced[b]
  BY <1>0, <1>5, <1>6 DEF GraphTyped
<1>11. /\ reports' \in [Ctxs -> [Analysts -> Reports]] /\ reports'[c][a] = r
       /\ \A d \in Ctxs, b \in Analysts : d # c \/ b # a => reports'[d][b] = reports[d][b]
  BY <1>0, <1>5, <1>6 DEF GraphTyped
<1>12. Team' = Team /\ Main \notin Analysts /\ Team \subseteq Analysts
       /\ Ctxs = Analysts \cup {Main} /\ \A b \in Analysts : Allowed(b)' = Allowed(b)
  BY <1>0, <1>5, ConfigIs, TeamIs DEF GraphTyped, Team, Ctxs, Allowed
<1>13. /\ c \in Analysts => c \in Team /\ a = c /\ stage \in {"fanout", "failed"}
       /\ c = Main => a \notin Team /\ stage \in {"analysts", "failed"}
       /\ \A i \in 1 .. Len(todo) : todo[i] # a
       /\ \A d \in Ctxs \ {c} : pc[d] \in Working => turn[d] # a
  BY <1>1, <1>3, WhoAsks
<1>14. GraphTyped'
  BY <1>0, <1>5, <1>7, <1>8, <1>9, <1>10, <1>11 DEF GraphTyped
<1>15. Phased'
  BY <1>0, <1>3, <1>5, <1>7, <1>12, <1>13 DEF Phased, Working
<1>16. Once'
  <2>1. \A i \in 1 .. Len(todo) : todo[i] \in Analysts
    BY <1>0, ElementOfSeq DEF GraphTyped
  <2>2. pc'[Main] \in Working => pc[Main] \in Working
    BY <1>3, <1>7, <1>12
  <2> QED BY <1>0, <1>5, <1>8, <1>12, <1>13, <2>1, <2>2 DEF Once
<1>17. Carried'
  BY <1>0, <1>5, <1>10, <1>11, <1>12, <1>13 DEF Carried
<1>18. Limited'
  <2>1. ASSUME a # "fundamentals"
        PROVE  count'[a] = asked'[a] /\ asked'[a] <= Allowed(a)
    <3>1. asked[a] < Allowed(a) /\ count[a] = asked[a]
      BY <1>0, <1>1, <1>3, <2>1 DEF Limited
    <3>2. Allowed(a) \in Nat
      BY <1>0, ConfigIs DEF Allowed, GraphTyped
    <3> QED BY <1>6, <1>8, <1>9, <2>1, <3>1, <3>2
  <2>2. \A b \in Analysts \ {"fundamentals"} : count'[b] = asked'[b] /\ asked'[b] <= Allowed(b)
    BY <1>0, <1>8, <1>9, <2>1 DEF Limited
  <2>3. ASSUME NEW d \in Ctxs, pc'[d] \in {"prepare", "ask", "tools"}, turn[d] # "fundamentals"
        PROVE  asked'[turn[d]] < Allowed(turn[d])
    <3>1. d # c /\ pc[d] \in {"prepare", "ask", "tools"}
      BY <1>7, <2>3
    <3>2. turn[d] # a /\ turn[d] \in Analysts
      BY <1>0, <1>13, <3>1 DEF GraphTyped, Working
    <3> QED BY <1>0, <1>8, <2>3, <3>1, <3>2 DEF Limited
  <2>4. turn \in [Ctxs -> Analysts]
    BY <1>0 DEF GraphTyped
  <2> QED BY <1>5, <1>12, <2>2, <2>3, <2>4 DEF Limited
<1> QED BY <1>14, <1>15, <1>16, <1>17, <1>18 DEF FlowInv

LEMMA BeginFlow ==
    ASSUME FlowInv, GraphAssumption, StartGraph
    PROVE  FlowInv'
<1>0. GraphTyped /\ Phased /\ Once /\ Carried /\ Limited
  BY DEF FlowInv
<1>1. /\ stage = "new" /\ stage' = IF FansOut(config) THEN "fanout" ELSE "analysts"
      /\ todo' = IF FansOut(config)
                 THEN SubSeq(config.order, config.workers + 1, Len(config.order))
                 ELSE config.order
      /\ pc' = [c \in Ctxs |-> IF c \in Team THEN "prepare" ELSE "off"]
      /\ UNCHANGED <<config, turn, reports, count, asked, produced>>
  BY DEF StartGraph, Team, histories
<1>2. Team' = Team /\ Main \notin Analysts /\ Team \subseteq Analysts
      /\ Ctxs = Analysts \cup {Main} /\ \A b \in Analysts : Allowed(b)' = Allowed(b)
  BY <1>0, <1>1, ConfigIs, TeamIs DEF GraphTyped, Team, Ctxs, Allowed
<1>3. /\ todo' \in Seq(Analysts)
      /\ \A i \in 1 .. Len(todo') : todo'[i] \notin Team
      /\ \A i, j \in 1 .. Len(todo') : todo'[i] = todo'[j] => i = j
  <2>1. CASE ~ FansOut(config)
    BY <1>0, <1>1, <2>1, ConfigIs, TeamIs DEF GraphTyped
  <2>2. CASE FansOut(config)
    <3>1. PICK o : o = config.order
      OBVIOUS
    <3>2. PICK n \in Nat : n = Len(o)
      BY <1>0, <3>1, ConfigIs DEF GraphTyped
    <3>3. PICK w \in Nat \ {0} : w = config.workers
      BY <1>0, ConfigIs DEF GraphTyped
    <3>4. /\ \A i \in 1 .. n : o[i] \in Analysts
          /\ \A i, j \in 1 .. n : o[i] = o[j] => i = j
          /\ \A i \in 1 .. n : i > w => o[i] \notin Team
      <4>1. \A i \in 1 .. n : o[i] \in Analysts
        BY <1>0, <3>1, <3>2, ConfigIs, ElementOfSeq DEF GraphTyped
      <4> QED BY <1>0, <2>2, <3>1, <3>2, <3>3, <4>1, ConfigIs, TeamIs DEF GraphTyped
    <3>5. todo' = SubSeq(o, w + 1, n)
      BY <1>1, <2>2, <3>1, <3>2, <3>3
    <3>6. /\ w + 1 \in Int /\ n \in Int /\ \A i \in w + 1 .. n : o[i] \in Analysts
      BY <3>4
    <3>7. /\ todo' \in Seq(Analysts) /\ Len(todo') = (IF w + 1 <= n THEN n - (w + 1) + 1 ELSE 0)
          /\ \A i \in 1 .. n - (w + 1) + 1 : todo'[i] = o[w + 1 + i - 1]
      BY <3>5, <3>6, SubSeqProperties
    <3>8. ASSUME NEW i \in 1 .. Len(todo')
          PROVE  w + i \in 1 .. n /\ w + i > w /\ todo'[i] = o[w + i]
      <4>1. i \in 1 .. n - (w + 1) + 1 /\ w + 1 + i - 1 = w + i
        BY <3>7
      <4> QED BY <3>7, <4>1
    <3>9. \A i \in 1 .. Len(todo') : todo'[i] \notin Team
      BY <3>4, <3>8
    <3>10. ASSUME NEW i \in 1 .. Len(todo'), NEW j \in 1 .. Len(todo'), todo'[i] = todo'[j]
           PROVE  i = j
      <4>1. w + i = w + j
        BY <3>4, <3>8, <3>10
      <4> QED BY <4>1
    <3> QED BY <3>7, <3>9, <3>10
  <2> QED BY <2>1, <2>2
<1>4. \A a \in Analysts : asked[a] = 0
  BY <1>0, <1>1 DEF Once
<1>5. GraphTyped'
  BY <1>0, <1>1, <1>3 DEF GraphTyped, ContextStages, Stages
<1>6. /\ pc'[Main] = "off" /\ \A a \in Team : pc'[a] = "prepare"
      /\ \A a \in Analysts \ Team : pc'[a] = "off"
  BY <1>1, <1>2
<1>7. stage' = "fanout" \/ (stage' = "analysts" /\ Team = {})
  BY <1>0, <1>1, TeamIs DEF GraphTyped
<1>8. Phased'
  BY <1>2, <1>6, <1>7 DEF Phased, Working
<1>9. Once'
  <2>1. \A i \in 1 .. Len(todo') : todo'[i] \in Analysts
    BY <1>3, ElementOfSeq
  <2> QED BY <1>1, <1>2, <1>3, <1>4, <1>6, <1>7, <2>1 DEF Once, Working
<1>10. Carried'
  BY <1>0, <1>1, <1>2, <1>7 DEF Carried
<1>11. Limited'
  <2>1. \A a \in Analysts : 0 < Allowed(a)
    BY <1>0, ConfigIs DEF Allowed, GraphTyped
  <2>2. turn \in [Ctxs -> Analysts]
    BY <1>0 DEF GraphTyped
  <2> QED BY <1>0, <1>1, <1>2, <1>4, <2>1, <2>2 DEF Limited
<1> QED BY <1>5, <1>8, <1>9, <1>10, <1>11 DEF FlowInv

LEMMA JoinFlow ==
    ASSUME FlowInv, GraphAssumption, Join
    PROVE  FlowInv'
<1>0. GraphTyped /\ Phased /\ Once /\ Carried /\ Limited
  BY DEF FlowInv
<1>1. /\ stage = "fanout" /\ UNCHANGED <<config, todo, pc, turn, count, asked, produced>>
      /\ \A a \in Team : pc[a] \in {"end", "raised"}
  BY DEF Join, histories, AllEnded, Team
<1>2. Team' = Team /\ Main \notin Analysts /\ Team \subseteq Analysts
      /\ Ctxs = Analysts \cup {Main} /\ \A b \in Analysts : Allowed(b)' = Allowed(b)
  BY <1>0, <1>1, ConfigIs, TeamIs DEF GraphTyped, Team, Ctxs, Allowed
<1>3. turn \in [Ctxs -> Analysts]
  BY <1>0 DEF GraphTyped
<1>4. Limited'
  BY <1>0, <1>1, <1>2, <1>3 DEF Limited
<1>5. stage' \in {"failed", "analysts"}
  BY DEF Join
<1>6. Once'
  BY <1>0, <1>1, <1>2, <1>5 DEF Once
<1>7. CASE stage' = "failed" /\ UNCHANGED reports
  <2>1. GraphTyped' /\ Phased' /\ Carried'
    BY <1>0, <1>1, <1>2, <1>7 DEF GraphTyped, Phased, Carried, Stages
  <2> QED BY <1>4, <1>6, <2>1 DEF FlowInv
<1>8. CASE /\ stage' = "analysts" /\ \A a \in Team : pc[a] # "raised"
           /\ reports' = [reports EXCEPT ![Main] = [a \in Analysts |-> Merged(a)]]
  <2>1. \A a \in Analysts : Merged(a) = IF a \in Team /\ reports[a][a] # "none"
                                        THEN reports[a][a] ELSE reports[Main][a]
    BY DEF Merged, Team
  <2>2. ASSUME NEW a \in Analysts
        PROVE  Merged(a) \in Reports
    <3>1. reports[a][a] \in Reports /\ reports[Main][a] \in Reports
      BY <1>0, <1>2 DEF GraphTyped
    <3> QED BY <2>1, <3>1
  <2>3. /\ reports' \in [Ctxs -> [Analysts -> Reports]]
        /\ \A a \in Analysts : reports'[Main][a] = Merged(a) /\ reports'[a] = reports[a]
    BY <1>0, <1>2, <1>8, <2>2 DEF GraphTyped
  <2>4. GraphTyped' /\ Phased'
    BY <1>0, <1>1, <1>2, <1>8, <2>3 DEF GraphTyped, Phased, Stages
  <2>5. Carried'
    BY <1>0, <1>1, <1>2, <1>8, <2>1, <2>3 DEF Carried
  <2> QED BY <1>4, <1>6, <2>4, <2>5 DEF FlowInv
<1> QED BY <1>7, <1>8 DEF Join, Team

LEMMA NextAnalystFlow ==
    ASSUME FlowInv, GraphAssumption, StartAnalyst
    PROVE  FlowInv'
<1>0. GraphTyped /\ Phased /\ Once /\ Carried /\ Limited
  BY DEF FlowInv
<1>1. /\ stage = "analysts" /\ todo # <<>> /\ todo' = Tail(todo)
      /\ turn' = [turn EXCEPT ![Main] = Head(todo)] /\ pc' = [pc EXCEPT ![Main] = "prepare"]
      /\ UNCHANGED <<config, stage, reports, count, asked, produced>>
  BY DEF StartAnalyst, histories
<1>2. Team' = Team /\ Main \notin Analysts /\ Team \subseteq Analysts
      /\ Ctxs = Analysts \cup {Main} /\ \A b \in Analysts : Allowed(b)' = Allowed(b)
  BY <1>0, <1>1, ConfigIs, TeamIs DEF GraphTyped, Team, Ctxs, Allowed
<1>3. PICK n \in Nat : n = Len(todo)
  BY <1>0, LenProperties DEF GraphTyped
<1>4. /\ Head(todo) \in Analysts /\ Tail(todo) \in Seq(Analysts) /\ Len(Tail(todo)) = n - 1
      /\ \A i \in 1 .. n - 1 : Tail(todo)[i] = todo[i + 1]
      /\ Head(todo) = todo[1] /\ n > 0
  <2>1. n # 0
    BY <1>0, <1>1, <1>3, EmptySeq, LenProperties DEF GraphTyped
  <2>2. Head(todo) = todo[1]
    BY <1>0, <1>1 DEF GraphTyped
  <2> QED BY <1>0, <1>1, <1>3, <2>1, <2>2, HeadTailProperties DEF GraphTyped
<1>5. PICK a \in Analysts : a = Head(todo)
  BY <1>4
<1>6. /\ pc' \in [Ctxs -> ContextStages] /\ pc'[Main] = "prepare"
      /\ \A d \in Analysts : pc'[d] = pc[d]
      /\ turn' \in [Ctxs -> Analysts] /\ turn'[Main] = a /\ \A d \in Analysts : turn'[d] = turn[d]
  BY <1>0, <1>1, <1>2, <1>5 DEF GraphTyped, ContextStages
<1>7. /\ a \notin Team /\ asked[a] = 0
      /\ \A i \in 1 .. Len(todo') : todo'[i] # a /\ todo'[i] = todo[i + 1] /\ i + 1 \in 1 .. Len(todo)
  <2>1. 1 \in 1 .. n /\ a = todo[1]
    BY <1>4, <1>5
  <2>2. a \notin Team /\ asked[a] = 0
    BY <1>0, <1>3, <2>1 DEF Once
  <2>3. ASSUME NEW i \in 1 .. Len(todo')
        PROVE  todo'[i] # a /\ todo'[i] = todo[i + 1] /\ i + 1 \in 1 .. n
    <3>1. i \in 1 .. n - 1 /\ i + 1 \in 1 .. n /\ i + 1 # 1
      BY <1>1, <1>4
    <3>2. todo'[i] = todo[i + 1]
      BY <1>1, <1>4, <3>1
    <3> QED BY <1>0, <1>3, <2>1, <3>1, <3>2 DEF Once
  <2> QED BY <1>3, <2>2, <2>3
<1>8. GraphTyped'
  BY <1>0, <1>1, <1>2, <1>4, <1>6 DEF GraphTyped
<1>9. Phased'
  BY <1>0, <1>1, <1>2, <1>6 DEF Phased
<1>10. Once'
  <2>1. \A i, j \in 1 .. Len(todo') : todo'[i] = todo'[j] => i = j
    <3>1. SUFFICES ASSUME NEW i \in 1 .. Len(todo'), NEW j \in 1 .. Len(todo'), todo'[i] = todo'[j]
                   PROVE  i = j
      OBVIOUS
    <3>2. i + 1 = j + 1
      BY <1>0, <1>7, <3>1 DEF Once
    <3>3. i \in Int /\ j \in Int
      OBVIOUS
    <3> QED BY <3>2, <3>3
  <2>2. \A i \in 1 .. Len(todo') : todo'[i] \notin Team /\ asked[todo'[i]] = 0
    BY <1>0, <1>7 DEF Once
  <2> QED BY <1>1, <1>2, <1>6, <1>7, <2>1, <2>2 DEF Once
<1>11. Carried'
  BY <1>0, <1>1, <1>2 DEF Carried
<1>12. Limited'
  <2>1. 0 < Allowed(a)
    BY <1>0, ConfigIs DEF Allowed, GraphTyped
  <2> QED BY <1>0, <1>1, <1>2, <1>6, <1>7, <2>1 DEF Limited
<1> QED BY <1>8, <1>9, <1>10, <1>11, <1>12 DEF FlowInv

\* The analysts are through: only the stage moves.
LEMMA LateFlow ==
    ASSUME FlowInv, GraphAssumption,
           StartDebate \/ Debate \/ Discuss \/ Decide \/ RaiseLate
    PROVE  FlowInv'
<1>0. GraphTyped /\ Phased /\ Once /\ Carried /\ Limited
  BY DEF FlowInv
<1>1. /\ stage \notin {"new", "fanout", "failed"} /\ stage' \in Stages
      /\ stage' \notin {"new", "fanout", "analysts"} /\ pc[Main] \notin Working
      /\ UNCHANGED <<config, todo, pc, turn, reports, count, asked, produced>>
  <2>1. CASE StartDebate
    BY <2>1 DEF StartDebate, Stages, ctxVars, histories, Working
  <2>2. CASE Debate
    BY <1>0, <2>2 DEF Debate, Speak, Stages, Judged, histories, Phased
  <2>3. CASE Discuss
    BY <1>0, <2>3 DEF Discuss, Speak, Stages, Judged, histories, Phased
  <2>4. CASE Decide
    <3>1. stage \in Judged /\ stage \notin {"new", "fanout", "analysts", "failed"}
      BY <2>4 DEF Decide, Judged
    <3>2. stage' = stage \/ stage' = AfterJudged[stage]
      BY <2>4 DEF Decide
    <3>3. AfterJudged[stage] \in {"Trader", "risk", "done"}
      BY <3>1 DEF AfterJudged, Judged
    <3>4. pc[Main] \notin Working
      BY <1>0, <3>1 DEF Phased
    <3>5. UNCHANGED <<config, todo, pc, turn, reports, count, asked, produced>>
      BY <2>4 DEF Decide, histories
    <3> QED BY <1>0, <3>1, <3>2, <3>3, <3>4, <3>5 DEF Stages, Judged, GraphTyped
  <2>5. CASE RaiseLate
    BY <1>0, <2>5 DEF RaiseLate, Stages, Judged, ctxVars, histories, Phased
  <2> QED BY <2>1, <2>2, <2>3, <2>4, <2>5
<1>2. Team' = Team /\ \A b \in Analysts : Allowed(b)' = Allowed(b)
  BY <1>1 DEF Team, Allowed
<1>3. turn \in [Ctxs -> Analysts]
  BY <1>0 DEF GraphTyped
<1>4. GraphTyped' /\ Phased' /\ Once' /\ Carried' /\ Limited'
  BY <1>0, <1>1, <1>2, <1>3 DEF GraphTyped, Phased, Once, Carried, Limited
<1> QED BY <1>4 DEF FlowInv

LEMMA FlowStep ==
    ASSUME FlowInv, GraphAssumption, [GraphNext]_graphVars
    PROVE  FlowInv'
<1>1. CASE UNCHANGED graphVars
  <2>1. UNCHANGED <<config, stage, todo, pc, turn, reports, count, asked, produced>>
    BY <1>1 DEF graphVars, runVars, ctxVars, histories
  <2>2. Team' = Team /\ \A b \in Analysts : Allowed(b)' = Allowed(b)
    BY <2>1 DEF Team, Allowed
  <2>3. turn \in [Ctxs -> Analysts]
    BY DEF FlowInv, GraphTyped
  <2> QED BY <2>1, <2>2, <2>3 DEF FlowInv, GraphTyped, Phased, Once, Carried, Limited
<1>2. CASE GraphNext
  BY <1>2, AnalyseFlow, AskFlow, BeginFlow, JoinFlow, NextAnalystFlow, LateFlow
     DEF GraphNext, Analyse, Run
<1> QED BY <1>1, <1>2

LEMMA FlowStart ==
    ASSUME GraphAssumption, GraphInit
    PROVE  FlowInv
<1>1. /\ config \in Configs /\ stage = "new" /\ todo = <<>>
      /\ pc = [c \in Ctxs |-> "off"]
      /\ turn = [c \in Ctxs |-> IF c = Main THEN "market" ELSE c]
      /\ reports = [c \in Ctxs |-> [a \in Analysts |-> "none"]]
      /\ count = [a \in Analysts |-> 0] /\ asked = [a \in Analysts |-> 0]
      /\ produced = [a \in Analysts |-> "none"]
  BY DEF GraphInit
<1>2. Main \notin Analysts /\ Ctxs = Analysts \cup {Main} /\ Team \subseteq Analysts
  BY <1>1, ConfigIs, TeamIs DEF Ctxs
<1>3. \A c \in Ctxs : pc[c] = "off"
  BY <1>1
<1>4. todo \in Seq(Analysts) /\ Len(todo) = 0
  BY <1>1
<1>5. \A c \in Ctxs : turn[c] \in Analysts
  BY <1>1, <1>2 DEF Analysts
<1>6. GraphTyped
  BY <1>1, <1>2, <1>4, <1>5 DEF GraphTyped, Stages, ContextStages, Reports
<1>7. Phased
  BY <1>1, <1>2, <1>3 DEF Phased, Working
<1>8. Once
  BY <1>1, <1>2, <1>3, <1>4 DEF Once, Working
<1>9. Carried
  BY <1>1, <1>2 DEF Carried
<1>10. Limited
  <2>1. \A a \in Analysts : 0 < Allowed(a)
    BY <1>1, ConfigIs DEF Allowed
  <2>2. \A a \in Analysts : count[a] = 0 /\ asked[a] = 0
    BY <1>1
  <2>3. \A a \in Analysts : Allowed(a) \in Nat
    BY <1>1, ConfigIs DEF Allowed
  <2> QED BY <1>1, <1>5, <2>1, <2>2, <2>3 DEF Limited
<1> QED BY <1>6, <1>7, <1>8, <1>9, <1>10 DEF FlowInv

LEMMA FlowHolds == GraphSpec => []FlowInv
<1>1. GraphInit => FlowInv
  BY FlowStart, GraphAssumption
<1>2. FlowInv /\ [GraphNext]_graphVars => FlowInv'
  BY FlowStep, GraphAssumption
<1> QED BY <1>1, <1>2, PTL DEF GraphSpec

\* Whichever way the analysts ran, in threads or one after another, the debate
\* starts with the last report of each of them: the merge of run() loses none.
THEOREM ReportsAreDelivered == GraphSpec => []ReportsDelivered
<1>1. FlowInv => ReportsDelivered
  <2>1. SUFFICES ASSUME FlowInv, stage \notin {"new", "fanout", "analysts", "failed"}
                 PROVE  reports[Main] = produced
    BY DEF ReportsDelivered
  <2>2. \A a \in Analysts : reports[Main][a] = produced[a]
    BY <2>1 DEF FlowInv, Carried
  <2>3. reports[Main] \in [Analysts -> Reports] /\ produced \in [Analysts -> Reports]
    BY <2>1 DEF FlowInv, GraphTyped, Ctxs
  <2> QED BY <2>2, <2>3
<1> QED BY <1>1, FlowHolds, PTL

\* Whatever the models answer, and in whatever order the threads run, no other
\* analyst than the fundamentals one is called more often than its limit allows,
\* and each once at least.
THEOREM CallsAreLimited ==
    GraphSpec => [](\A a \in Analysts \ {"fundamentals"} :
                       asked[a] <= Max({1, config.maxCalls[a]}))
<1>1. FlowInv => \A a \in Analysts \ {"fundamentals"} : asked[a] <= Max({1, config.maxCalls[a]})
  <2>1. SUFFICES ASSUME FlowInv, NEW a \in Analysts \ {"fundamentals"}
                 PROVE  asked[a] <= Max({1, config.maxCalls[a]})
    OBVIOUS
  <2>2. PICK m \in Nat : m = config.maxCalls[a]
    BY <2>1, ConfigIs, GraphAssumption DEF FlowInv, GraphTyped
  <2>3. asked[a] \in Nat /\ asked[a] <= IF m > 1 THEN m ELSE 1
    BY <2>1, <2>2 DEF FlowInv, GraphTyped, Limited, Allowed
  <2>4. CASE m > 1
    <3>1. Max({1, m}) = m
      BY <2>4 DEF Max
    <3> QED BY <2>2, <2>3, <2>4, <3>1
  <2>5. CASE m <= 1
    <3>1. Max({1, m}) = 1
      BY <2>5 DEF Max
    <3> QED BY <2>2, <2>3, <2>5, <3>1
  <2> QED BY <2>4, <2>5
<1> QED BY <1>1, FlowHolds, PTL

-----------------------------------------------------------------------------
\* The discussions.

\* A step of an analyst, of a thread or of run() between the analysts.
LEMMA QuietTalk ==
    ASSUME TalkInv, UNCHANGED <<config, spoken, last>>,
           \/ stage' = stage \/ stage' = "failed"
           \/ stage \in Early /\ stage' \in Early \cup {"debate"}
           \/ stage = "Research Manager" /\ stage' = "Trader"
           \/ stage = "Trader" /\ stage' = "risk"
           \/ stage = "Risk Judge" /\ stage' = "done"
    PROVE  TalkInv'
<1>1. DebateTurns' = DebateTurns /\ RiskTurns' = RiskTurns
  BY DEF DebateTurns, RiskTurns
<1>2. /\ config' \in Configs /\ stage' \in Stages
      /\ spoken' \in [Debaters \cup RiskTeam -> Nat]
  BY DEF TalkInv, Stages, Judged, Early
<1>3. CASE stage' = stage
  BY <1>1, <1>2, <1>3 DEF TalkInv, BullBear, RiskOrder, Unspoken, Fair
<1>4. CASE stage' = "failed"
  BY <1>2, <1>4 DEF TalkInv, Early, Judged
<1>5. CASE stage \in Early /\ stage' \in Early \cup {"debate"}
  <2>1. last' = "" /\ Unspoken(Debaters)' /\ Unspoken(RiskTeam)'
    BY <1>5 DEF TalkInv, Unspoken
  <2>2. spoken'["Bull"] = spoken'["Bear"]
    BY <2>1 DEF Unspoken, Debaters
  <2>3. BullBear'
    BY <2>1, <2>2 DEF BullBear
  <2> QED BY <1>2, <1>5, <2>1, <2>3 DEF TalkInv, Early, Judged
<1>6. CASE stage = "Research Manager" /\ stage' = "Trader"
  BY <1>2, <1>6 DEF TalkInv, Early, Judged, Unspoken, Fair
<1>7. CASE stage = "Trader" /\ stage' = "risk"
  <2>1. last' = "" /\ Unspoken(RiskTeam)' /\ Fair(Debaters, "Bull", config.rounds)'
    BY <1>7 DEF TalkInv, Judged, Unspoken, Fair
  <2>2. spoken'["Risky"] = 0 /\ spoken'["Safe"] = 0 /\ spoken'["Neutral"] = 0
    BY <2>1 DEF Unspoken, RiskTeam
  <2>3. spoken'["Risky"] = spoken'["Neutral"] /\ spoken'["Safe"] = spoken'["Neutral"]
    BY <2>2
  <2>4. RiskOrder'
    <3>1. last' \notin {"Risky", "Safe"} /\ last' # "Safe"
      BY <2>1
    <3> QED BY <2>3, <3>1 DEF RiskOrder
  <2> QED BY <1>2, <1>7, <2>1, <2>4 DEF TalkInv, Early, Judged
<1>8. CASE stage = "Risk Judge" /\ stage' = "done"
  BY <1>2, <1>8 DEF TalkInv, Early, Judged, Unspoken, Fair
<1> QED BY <1>3, <1>4, <1>5, <1>6, <1>7, <1>8

\* A speech in the debate of the researchers.
LEMMA DebateTalk ==
    ASSUME TalkInv, GraphAssumption, Debate
    PROVE  TalkInv'
<1>1. /\ config \in Configs /\ spoken \in [Debaters \cup RiskTeam -> Nat]
      /\ stage = "debate" /\ last \in {"", "Bull", "Bear"} /\ BullBear /\ Unspoken(RiskTeam)
      /\ IF last = "" THEN Unspoken(Debaters) ELSE DebateTurns < 2 * config.rounds
  BY DEF TalkInv, Debate, Speak
<1>2. PICK s : s = NextDebater
  OBVIOUS
<1>3. s \in Debaters /\ s = IF last = "Bull" THEN "Bear" ELSE "Bull"
  BY <1>2 DEF NextDebater, Debaters
<1>4. PICK bull \in Nat : bull = spoken["Bull"]
  BY <1>1 DEF Debaters
<1>5. PICK bear \in Nat : bear = spoken["Bear"]
  BY <1>1 DEF Debaters
<1>6. PICK rounds \in Nat : rounds = config.rounds
  BY <1>1, ConfigIs
<1>7. PICK turns \in Nat : turns = bull + bear + 1
  OBVIOUS
<1>8. /\ spoken' = [spoken EXCEPT ![s] = @ + 1] /\ config' = config
      /\ turns >= 2 * rounds => stage' = "Research Manager" /\ last' = ""
      /\ turns < 2 * rounds => stage' = "debate" /\ last' = s
  <2>1. /\ spoken' = [spoken EXCEPT ![s] = @ + 1] /\ config' = config
        /\ stage' = IF DebateOver(turns) THEN "Research Manager" ELSE "debate"
        /\ last' = IF DebateOver(turns) THEN "" ELSE s
    BY <1>2, <1>4, <1>5, <1>7 DEF Debate, Speak, DebateTurns
  <2>2. turns >= 2 * rounds => DebateOver(turns)
    BY <1>6 DEF DebateOver
  <2>3. turns < 2 * rounds => ~ DebateOver(turns)
    BY <1>6 DEF DebateOver
  <2> QED BY <2>1, <2>2, <2>3
<1>9. /\ spoken' \in [Debaters \cup RiskTeam -> Nat]
      /\ \A t \in Debaters \cup RiskTeam : t # s => spoken'[t] = spoken[t]
      /\ spoken'[s] = spoken[s] + 1
  <2>1. s \in Debaters \cup RiskTeam
    BY <1>3
  <2>2. spoken' = [spoken EXCEPT ![s] = spoken[s] + 1] /\ spoken \in [Debaters \cup RiskTeam -> Nat]
    BY <1>1, <1>8
  <2>3. spoken[s] + 1 \in Nat
    BY <2>1, <2>2
  <2> QED BY <2>1, <2>2, <2>3
<1>10. \A t \in RiskTeam : spoken'[t] = 0
  <2>1. \A t \in RiskTeam : t # s /\ spoken[t] = 0
    BY <1>1, <1>3 DEF Debaters, RiskTeam, Unspoken
  <2> QED BY <1>9, <2>1
<1>11. rounds = config'.rounds /\ stage' \in Stages
  <2>1. turns >= 2 * rounds \/ turns < 2 * rounds
    OBVIOUS
  <2>2. stage' \in {"Research Manager", "debate"}
    BY <1>8, <2>1, Zenon
  <2> QED BY <1>6, <1>8, <2>2 DEF Stages, Judged
<1>12. /\ last = "Bull" => bull = bear + 1
       /\ last # "Bull" => bull = bear
       /\ last # "" => bull + bear < 2 * rounds
       /\ last = "" => bull = 0 /\ bear = 0
  <2>1. last = "" => bull = 0 /\ bear = 0
    BY <1>1, <1>4, <1>5 DEF Unspoken, Debaters
  <2>2. last # "" => bull + bear < 2 * rounds
    BY <1>1, <1>4, <1>5, <1>6 DEF DebateTurns
  <2> QED BY <1>1, <1>4, <1>5, <2>1, <2>2 DEF BullBear
<1>13. ASSUME last' = "", stage' = "Research Manager", Fair(Debaters, "Bull", config.rounds)'
       PROVE  TalkInv'
  BY <1>1, <1>8, <1>9, <1>10, <1>11, <1>13 DEF TalkInv, Judged, Early, Unspoken
<1>14. ASSUME stage' = "debate", last' \in Debaters, BullBear', DebateTurns' < 2 * config'.rounds
       PROVE  TalkInv'
  BY <1>1, <1>8, <1>9, <1>10, <1>11, <1>14 DEF TalkInv, Judged, Early, Unspoken, Debaters
<1>15. CASE last \in {"", "Bear"}
  <2>1. s = "Bull"
    BY <1>3, <1>15
  <2>2. spoken'["Bull"] = bull + 1 /\ spoken'["Bear"] = bear
    BY <1>4, <1>5, <1>9, <2>1 DEF Debaters
  <2>3. bull = bear
    BY <1>15, <1>12
  <2>4. bull < rounds \/ bull = 0
    <3>1. CASE last = ""
      BY <1>12, <3>1
    <3>2. CASE last # ""
      <4>1. bull + bear < 2 * rounds
        BY <1>12, <3>2
      <4> QED BY <2>3, <4>1
    <3> QED BY <3>1, <3>2
  <2>5. CASE turns >= 2 * rounds
    <3>1. rounds = 0 /\ bull = 0 /\ bear = 0
      BY <1>7, <2>3, <2>4, <2>5
    <3>2. stage' = "Research Manager" /\ last' = ""
      BY <1>8, <2>5
    <3>3. spoken'["Bull"] = 1 /\ spoken'["Bear"] = 0 /\ config'.rounds = 0
      BY <1>11, <2>2, <3>1
    <3>4. Fair(Debaters, "Bull", config.rounds)'
      BY <3>3 DEF Fair, Debaters
    <3> QED BY <1>13, <3>2, <3>4
  <2>6. CASE turns < 2 * rounds
    <3>1. stage' = "debate" /\ last' = "Bull"
      BY <1>8, <2>1, <2>6
    <3>2. spoken'["Bull"] = spoken'["Bear"] + 1
      BY <2>2, <2>3
    <3>3. BullBear'
      BY <3>1, <3>2 DEF BullBear
    <3>4. DebateTurns' < 2 * config'.rounds
      BY <1>7, <1>11, <2>2, <2>6 DEF DebateTurns
    <3> QED BY <1>14, <3>1, <3>3, <3>4 DEF Debaters
  <2> QED BY <2>5, <2>6
<1>16. CASE last = "Bull"
  <2>1. s = "Bear"
    BY <1>3, <1>16
  <2>2. spoken'["Bull"] = bull /\ spoken'["Bear"] = bear + 1
    BY <1>4, <1>5, <1>9, <2>1 DEF Debaters
  <2>3. bull = bear + 1 /\ bull + bear < 2 * rounds
    BY <1>12, <1>16
  <2>4. CASE turns >= 2 * rounds
    <3>1. bull = rounds /\ bear + 1 = rounds /\ rounds # 0
      BY <1>7, <2>3, <2>4
    <3>2. stage' = "Research Manager" /\ last' = ""
      BY <1>8, <2>4
    <3>3. spoken'["Bull"] = config'.rounds /\ spoken'["Bear"] = config'.rounds /\ config'.rounds # 0
      BY <1>11, <2>2, <3>1
    <3>4. Fair(Debaters, "Bull", config.rounds)'
      BY <3>3 DEF Fair, Debaters
    <3> QED BY <1>13, <3>2, <3>4
  <2>5. CASE turns < 2 * rounds
    <3>1. stage' = "debate" /\ last' = "Bear"
      BY <1>8, <2>1, <2>5
    <3>2. spoken'["Bull"] = spoken'["Bear"]
      BY <2>2, <2>3
    <3>3. BullBear'
      BY <3>1, <3>2 DEF BullBear
    <3>4. DebateTurns' < 2 * config'.rounds
      BY <1>7, <1>11, <2>2, <2>5 DEF DebateTurns
    <3> QED BY <1>14, <3>1, <3>3, <3>4 DEF Debaters
  <2> QED BY <2>4, <2>5
<1> QED BY <1>1, <1>15, <1>16

\* A speech in the risk discussion.
LEMMA RiskTalk ==
    ASSUME TalkInv, GraphAssumption, Discuss
    PROVE  TalkInv'
<1>1. /\ config \in Configs /\ spoken \in [Debaters \cup RiskTeam -> Nat]
      /\ stage = "risk" /\ last \in {"", "Risky", "Safe", "Neutral"} /\ RiskOrder
      /\ Fair(Debaters, "Bull", config.rounds)
      /\ IF last = "" THEN Unspoken(RiskTeam) ELSE RiskTurns < 3 * config.riskRounds
  BY DEF TalkInv, Discuss, Speak
<1>2. PICK s : s = NextInRisk
  OBVIOUS
<1>3. /\ s \in RiskTeam
      /\ s = CASE last = "Risky" -> "Safe" [] last = "Safe" -> "Neutral" [] OTHER -> "Risky"
  BY <1>2 DEF NextInRisk, RiskTeam
<1>4. PICK risky \in Nat : risky = spoken["Risky"]
  BY <1>1 DEF RiskTeam
<1>5. PICK safe \in Nat : safe = spoken["Safe"]
  BY <1>1 DEF RiskTeam
<1>6. PICK n \in Nat : n = spoken["Neutral"]
  BY <1>1 DEF RiskTeam
<1>7. PICK rounds \in Nat : rounds = config.riskRounds
  BY <1>1, ConfigIs
<1>8. PICK turns \in Nat : turns = risky + safe + n + 1
  OBVIOUS
<1>9. /\ spoken' = [spoken EXCEPT ![s] = @ + 1] /\ config' = config
      /\ turns >= 3 * rounds => stage' = "Risk Judge" /\ last' = ""
      /\ turns < 3 * rounds => stage' = "risk" /\ last' = s
  <2>1. /\ spoken' = [spoken EXCEPT ![s] = @ + 1] /\ config' = config
        /\ stage' = IF RiskOver(turns) THEN "Risk Judge" ELSE "risk"
        /\ last' = IF RiskOver(turns) THEN "" ELSE s
    BY <1>2, <1>4, <1>5, <1>6, <1>8 DEF Discuss, Speak, RiskTurns
  <2>2. turns >= 3 * rounds => RiskOver(turns)
    BY <1>7 DEF RiskOver
  <2>3. turns < 3 * rounds => ~ RiskOver(turns)
    BY <1>7 DEF RiskOver
  <2> QED BY <2>1, <2>2, <2>3
<1>10. /\ spoken' \in [Debaters \cup RiskTeam -> Nat]
       /\ \A t \in Debaters \cup RiskTeam : t # s => spoken'[t] = spoken[t]
       /\ spoken'[s] = spoken[s] + 1
  <2>1. s \in Debaters \cup RiskTeam
    BY <1>3
  <2>2. spoken' = [spoken EXCEPT ![s] = spoken[s] + 1] /\ spoken \in [Debaters \cup RiskTeam -> Nat]
    BY <1>1, <1>9
  <2>3. spoken[s] + 1 \in Nat
    BY <2>1, <2>2
  <2> QED BY <2>1, <2>2, <2>3
<1>11. /\ config'.riskRounds = rounds /\ stage' \in Stages
       /\ Fair(Debaters, "Bull", config.rounds)'
  <2>1. \A t \in Debaters : spoken'[t] = spoken[t]
    BY <1>3, <1>10 DEF Debaters, RiskTeam
  <2>2. turns >= 3 * rounds \/ turns < 3 * rounds
    OBVIOUS
  <2>3. stage' \in {"risk", "Risk Judge"}
    BY <1>9, <2>2, Zenon
  <2> QED BY <1>1, <1>7, <1>9, <2>1, <2>3 DEF Stages, Judged, Fair
<1>12. ASSUME last' = "", stage' = "Risk Judge", Fair(RiskTeam, "Risky", config.riskRounds)'
       PROVE  TalkInv'
  BY <1>1, <1>9, <1>10, <1>11, <1>12 DEF TalkInv, Judged, Early
<1>13. ASSUME stage' = "risk", last' \in RiskTeam, RiskOrder', RiskTurns' < 3 * config'.riskRounds
       PROVE  TalkInv'
  BY <1>1, <1>9, <1>10, <1>11, <1>13 DEF TalkInv, Judged, Early, RiskTeam
<1>14. CASE last \in {"", "Neutral"}
  <2>1. s = "Risky"
    BY <1>3, <1>14
  <2>2. spoken'["Risky"] = risky + 1 /\ spoken'["Safe"] = safe /\ spoken'["Neutral"] = n
    BY <1>4, <1>5, <1>6, <1>10, <2>1 DEF RiskTeam
  <2>3. risky = n /\ safe = n
    <3>1. last \notin {"Risky", "Safe"} /\ last # "Safe"
      BY <1>14
    <3> QED BY <1>1, <1>4, <1>5, <1>6, <3>1 DEF RiskOrder
  <2>4. n < rounds \/ n = 0
    <3>1. CASE last = ""
      BY <1>1, <1>6, <3>1 DEF Unspoken, RiskTeam
    <3>2. CASE last = "Neutral"
      <4>1. RiskTurns < 3 * rounds
        BY <1>1, <1>7, <3>2
      <4> QED BY <1>4, <1>5, <1>6, <2>3, <4>1 DEF RiskTurns
    <3> QED BY <1>14, <3>1, <3>2
  <2>5. CASE turns >= 3 * rounds
    <3>1. rounds = 0 /\ n = 0
      BY <1>8, <2>3, <2>4, <2>5
    <3>2. /\ spoken'["Risky"] = 1 /\ spoken'["Safe"] = 0 /\ spoken'["Neutral"] = 0
          /\ config'.riskRounds = 0
      BY <1>11, <2>2, <2>3, <3>1
    <3>3. Fair(RiskTeam, "Risky", config.riskRounds)'
      BY <3>2 DEF Fair, RiskTeam
    <3> QED BY <1>9, <1>12, <2>5, <3>3
  <2>6. CASE turns < 3 * rounds
    <3>1. stage' = "risk" /\ last' = "Risky"
      BY <1>9, <2>1, <2>6
    <3>2. spoken'["Risky"] = spoken'["Neutral"] + 1 /\ spoken'["Safe"] = spoken'["Neutral"]
      BY <2>2, <2>3
    <3>3. RiskOrder'
      BY <3>1, <3>2 DEF RiskOrder
    <3>4. RiskTurns' < 3 * config'.riskRounds
      BY <1>8, <1>11, <2>2, <2>6 DEF RiskTurns
    <3> QED BY <1>13, <3>1, <3>3, <3>4 DEF RiskTeam
  <2> QED BY <2>5, <2>6
<1>15. CASE last = "Risky"
  <2>1. s = "Safe"
    BY <1>3, <1>15
  <2>2. spoken'["Risky"] = risky /\ spoken'["Safe"] = safe + 1 /\ spoken'["Neutral"] = n
    BY <1>4, <1>5, <1>6, <1>10, <2>1 DEF RiskTeam
  <2>3. risky = n + 1 /\ safe = n
    <3>1. last \in {"Risky", "Safe"} /\ last # "Safe"
      BY <1>15
    <3> QED BY <1>1, <1>4, <1>5, <1>6, <3>1 DEF RiskOrder
  <2>4. turns < 3 * rounds
    <3>1. RiskTurns < 3 * rounds
      BY <1>1, <1>7, <1>15
    <3> QED BY <1>4, <1>5, <1>6, <1>8, <2>3, <3>1 DEF RiskTurns
  <2>5. stage' = "risk" /\ last' = "Safe"
    BY <1>9, <2>1, <2>4
  <2>6. spoken'["Risky"] = spoken'["Neutral"] + 1 /\ spoken'["Safe"] = spoken'["Neutral"] + 1
    BY <2>2, <2>3
  <2>7. RiskOrder'
    BY <2>5, <2>6 DEF RiskOrder
  <2>8. RiskTurns' < 3 * config'.riskRounds
    BY <1>8, <1>11, <2>2, <2>4 DEF RiskTurns
  <2> QED BY <1>13, <2>5, <2>7, <2>8 DEF RiskTeam
<1>16. CASE last = "Safe"
  <2>1. s = "Neutral"
    BY <1>3, <1>16
  <2>2. spoken'["Risky"] = risky /\ spoken'["Safe"] = safe /\ spoken'["Neutral"] = n + 1
    BY <1>4, <1>5, <1>6, <1>10, <2>1 DEF RiskTeam
  <2>3. risky = n + 1 /\ safe = n + 1
    <3>1. last \in {"Risky", "Safe"} /\ last = "Safe"
      BY <1>16
    <3> QED BY <1>1, <1>4, <1>5, <1>6, <3>1 DEF RiskOrder
  <2>4. n < rounds
    <3>1. RiskTurns < 3 * rounds
      BY <1>1, <1>7, <1>16
    <3> QED BY <1>4, <1>5, <1>6, <1>8, <2>3, <3>1 DEF RiskTurns
  <2>5. CASE turns >= 3 * rounds
    <3>1. n + 1 = rounds /\ rounds # 0
      BY <1>8, <2>3, <2>4, <2>5
    <3>2. /\ spoken'["Risky"] = config'.riskRounds /\ spoken'["Safe"] = config'.riskRounds
          /\ spoken'["Neutral"] = config'.riskRounds /\ config'.riskRounds # 0
      BY <1>11, <2>2, <2>3, <3>1
    <3>3. Fair(RiskTeam, "Risky", config.riskRounds)'
      BY <3>2 DEF Fair, RiskTeam
    <3> QED BY <1>9, <1>12, <2>5, <3>3
  <2>6. CASE turns < 3 * rounds
    <3>1. stage' = "risk" /\ last' = "Neutral"
      BY <1>9, <2>1, <2>6
    <3>2. spoken'["Risky"] = spoken'["Neutral"] /\ spoken'["Safe"] = spoken'["Neutral"]
      BY <2>2, <2>3
    <3>3. RiskOrder'
      BY <3>1, <3>2 DEF RiskOrder
    <3>4. RiskTurns' < 3 * config'.riskRounds
      BY <1>8, <1>11, <2>2, <2>6 DEF RiskTurns
    <3> QED BY <1>13, <3>1, <3>3, <3>4 DEF RiskTeam
  <2> QED BY <2>5, <2>6
<1> QED BY <1>1, <1>14, <1>15, <1>16

LEMMA TalkStep ==
    ASSUME TalkInv, GraphAssumption, [GraphNext]_graphVars
    PROVE  TalkInv'
<1>1. CASE UNCHANGED graphVars
  BY <1>1, QuietTalk DEF graphVars, runVars, talkVars
<1>2. ASSUME NEW c \in Ctxs, Analyse(c) \/ Raise(c)
      PROVE  TalkInv'
  <2>1. UNCHANGED <<config, spoken, last>>
    BY <1>2 DEF Analyse, Prepare, Ask, Route, RunTools, ClearMessages, Raise, Move, talkVars
  <2>2. stage' = stage \/ stage' = "failed"
    BY <1>2 DEF Analyse, Prepare, Ask, Route, RunTools, ClearMessages, Raise, runVars
  <2> QED BY <2>1, <2>2, QuietTalk
<1>3. CASE StartGraph
  BY <1>3, QuietTalk DEF StartGraph, talkVars, Early
<1>4. CASE Join
  BY <1>4, QuietTalk DEF Join, talkVars, Early
<1>5. CASE StartAnalyst \/ StartDebate
  BY <1>5, QuietTalk DEF StartAnalyst, StartDebate, talkVars, Early
<1>6. CASE Decide
  <2>1. stage \in Judged /\ (stage' = stage \/ stage' = AfterJudged[stage])
        /\ UNCHANGED <<config, spoken, last>>
    BY <1>6 DEF Decide
  <2>2. \/ stage = "Research Manager" /\ AfterJudged[stage] = "Trader"
        \/ stage = "Trader" /\ AfterJudged[stage] = "risk"
        \/ stage = "Risk Judge" /\ AfterJudged[stage] = "done"
    BY <2>1 DEF AfterJudged, Judged
  <2> QED BY <2>1, <2>2, QuietTalk
<1>7. CASE RaiseLate
  BY <1>7, QuietTalk DEF RaiseLate, talkVars
<1>8. CASE GraphNext
  BY <1>2, <1>3, <1>4, <1>5, <1>6, <1>7, <1>8, DebateTalk, RiskTalk DEF GraphNext, Run
<1> QED BY <1>1, <1>8

LEMMA TalkStart == GraphInit => TalkInv
<1>1. SUFFICES ASSUME GraphInit PROVE TalkInv
  OBVIOUS
<1>2. /\ config \in Configs /\ stage = "new" /\ last = ""
      /\ spoken = [s \in Debaters \cup RiskTeam |-> 0]
  BY <1>1 DEF GraphInit
<1> QED BY <1>2 DEF TalkInv, Stages, Judged, Early, Unspoken

\* When a judge rules, both researchers, or all three risk analysts, have had
\* as many turns as configured, whatever the number of rounds is.
THEOREM DebatesAreFair == GraphSpec => []DebatesBalanced
<1>1. GraphInit => TalkInv
  BY TalkStart
<1>2. TalkInv /\ [GraphNext]_graphVars => TalkInv'
  BY TalkStep, GraphAssumption
<1>3. TalkInv => DebatesBalanced
  BY DEF TalkInv, DebatesBalanced
<1> QED BY <1>1, <1>2, <1>3, PTL DEF GraphSpec
-----------------------------------------------------------------------------
\* The message histories of the graph, and what they say of the calls.

\* What a provider asks of a history: each tool message answers the call before
\* it, and each call is answered, at once or, while it is open, by the next step.
Paired(h) == \A i \in DOMAIN h : h[i] = "tool" => i > 1 /\ h[i - 1] = "call"
Answered(h) == \A i \in DOMAIN h : h[i] = "call" => i < Len(h) /\ h[i + 1] = "tool"
OpenEnded(h) == \A i \in DOMAIN h : h[i] = "call" => i = Len(h) \/ h[i + 1] = "tool"
NoCalls(h) == \A i \in DOMAIN h : h[i] # "call"
NoTools(h) == \A i \in DOMAIN h : h[i] # "tool"
OneTool(h) == \E j \in DOMAIN h : {i \in DOMAIN h : h[i] = "tool"} = {j}
\* Not all of it can be dropped.
Lasting(h) == \E i \in DOMAIN h : h[i] # "tool"

\* What a history is when its context stands at p.
Acceptable(h, p) ==
    /\ h \in Seq(Messages) /\ Lasting(h)
    /\ p \in {"off", "end"} => NoCalls(h)
    /\ p = "prepare" => Answered(h)
    /\ p = "ask" => Paired(h) /\ Answered(h)
    /\ p = "route" => OpenEnded(h)
    /\ p = "tools" => OpenEnded(h) /\ h[Len(h)] = "call"

\* The fundamentals node is called once, and again if its first answer was a
\* call, with the one tool message that answers it.
FirstCall(n, t)  == n = 0 /\ t = 0
SecondCall(n, t) == n = 1 /\ t = 1 /\ ~ config.google

OwnData(h, p, n, t) ==
    CASE p = "prepare" -> \/ FirstCall(n, t) /\ NoCalls(h)
                          \/ SecondCall(n, t) /\ Paired(h) /\ OneTool(h)
      [] p = "ask"     -> \/ FirstCall(n, t) /\ NoCalls(h) /\ NoTools(h)
                          \/ SecondCall(n, t) /\ OneTool(h)
      [] p = "route"   -> \/ n = 1 /\ t = 0 /\ NoTools(h) /\ (h[Len(h)] = "call" => ~ config.google)
                          \/ n = 2 /\ t = 1 /\ h[Len(h)] # "call"
      [] p = "tools"   -> n = 1 /\ t = 0 /\ NoTools(h) /\ ~ config.google
      [] OTHER         -> TRUE

HistInv ==
    /\ tooled \in [Analysts -> Nat] /\ hist = [c \in Ctxs |-> hist[c]]
    /\ asked["fundamentals"] <= 2
    /\ asked["fundamentals"] = 0 => tooled["fundamentals"] = 0
    /\ \A c \in Ctxs : Acceptable(hist[c], pc[c])
    /\ \A c \in Ctxs : turn[c] = "fundamentals" =>
          OwnData(hist[c], pc[c], asked["fundamentals"], tooled["fundamentals"])

LEMMA SanitizeSteps ==
    ASSUME NEW h \in Seq(Messages)
    PROVE  \E f \in [0 .. Len(h) -> Seq(Messages)] :
             /\ f[0] = <<>> /\ f[Len(h)] = Sanitize(h)
             /\ \A i \in 1 .. Len(h) :
                  f[i] = IF h[i] = "tool" /\ (f[i - 1] = <<>> \/ Last(f[i - 1]) # "call")
                         THEN f[i - 1] ELSE Append(f[i - 1], h[i])
<1>1. PICK n \in Nat : n = Len(h)
  BY LenProperties
<1>2. DOMAIN h = 1 .. n /\ \A i \in 1 .. n : h[i] \in Messages
  BY <1>1, LenProperties, ElementOfSeq
<1> DEFINE V == Seq(Messages)
           Op(kept, m) == IF m = "tool" /\ (kept = <<>> \/ Last(kept) # "call")
                          THEN kept ELSE Append(kept, m)
           taking == [p \in V \X (1 .. n) |-> Op(p[1], h[p[2]])]
           Folded(F) == F = [s \in SUBSET DOMAIN h |->
                IF s = {} THEN <<>> ELSE Op(F[s \ {Max(s)}], h[Max(s)])]
<1>3. <<>> \in V /\ \A v \in V, m \in Messages : Op(v, m) \in V
  BY AppendProperties
<1>4. taking \in [V \X (1 .. n) -> V] /\ \A v \in V, i \in 1 .. n : taking[<<v, i>>] = Op(v, h[i])
  BY <1>2, <1>3
<1>5. \A s \in SUBSET (1 .. n) : s # {} => Max(s) \in 1 .. n
  BY MaxIsIn
<1>6. PICK F : Folded(F) /\ Sanitize(h) = F[1 .. n]
  <2>1. PICK G : IsFoldFunction(G, V, n, <<>>, taking)
    <3> HIDE DEF V, taking
    <3> QED BY <1>3, <1>4, FoldFunctionExists, Zenon
  <2> HIDE DEF Op, taking
  <2>2. Folded(G)
    BY <1>2, <1>4, <1>5, <2>1 DEF IsFoldFunction
  <2> USE DEF Op
  <2> QED BY <1>2, <2>2 DEF Sanitize, FoldLeft, MapThenFoldSet
<1> HIDE DEF Op, taking
<1>7. FoldsWith(F, V, n, <<>>, taking)
  BY <1>2, <1>4, <1>5, <1>6 DEF FoldsWith
<1>8. PICK f : RunsThrough(f, F, V, n, <<>>, taking)
  <2> HIDE DEF V, Folded
  <2>1. <<>> \in V /\ taking \in [V \X (1 .. n) -> V]
    BY <1>3, <1>4
  <2> QED BY <2>1, <1>7, FoldPlaces
<1>9. \A i \in 1 .. n : f[i] = Op(f[i - 1], h[i])
  <2>1. \A i \in 1 .. n : i - 1 \in 0 .. n
    OBVIOUS
  <2> QED BY <1>4, <1>8, <2>1 DEF RunsThrough
<1>10. f \in [0 .. n -> Seq(Messages)] /\ f[0] = <<>> /\ f[n] = Sanitize(h)
  BY <1>6, <1>8 DEF RunsThrough
<1> QED BY <1>1, <1>9, <1>10 DEF Op

LEMMA Appended ==
    ASSUME NEW h \in Seq(Messages), NEW m \in Messages
    PROVE  /\ Append(h, m) \in Seq(Messages) /\ Append(h, m)[Len(Append(h, m))] = m
           /\ Append(h, m) # <<>>
           /\ Answered(h) => OpenEnded(Append(h, m)) /\ (m # "call" => Answered(Append(h, m)))
           /\ OpenEnded(h) /\ m = "tool" => Answered(Append(h, m))
           /\ Paired(h) /\ (m = "tool" => h # <<>> /\ h[Len(h)] = "call") => Paired(Append(h, m))
           /\ NoCalls(h) /\ m # "call" => NoCalls(Append(h, m))
           /\ NoTools(h) /\ m # "tool" => NoTools(Append(h, m))
           /\ NoTools(h) /\ m = "tool" => OneTool(Append(h, m))
           /\ OneTool(h) /\ m # "tool" => OneTool(Append(h, m))
           /\ Lasting(h) \/ m # "tool" => Lasting(Append(h, m))
<1>1. PICK n \in Nat : n = Len(h) /\ DOMAIN h = 1 .. n
  BY LenProperties
<1>2. PICK g \in Seq(Messages) : g = Append(h, m)
  BY AppendProperties
<1>3. /\ Len(g) = n + 1 /\ DOMAIN g = 1 .. n + 1 /\ g[n + 1] = m /\ g # <<>>
      /\ \A i \in 1 .. n : g[i] = h[i]
  <2>1. Len(g) = n + 1 /\ g[n + 1] = m /\ \A i \in 1 .. n : g[i] = h[i]
    BY <1>1, <1>2, AppendProperties
  <2>2. DOMAIN g = 1 .. n + 1
    BY <1>2, <2>1, LenProperties
  <2>3. g # <<>>
    BY <2>1
  <2> QED BY <2>1, <2>2, <2>3
<1>4. \A i \in 1 .. n + 1 : i \in 1 .. n \/ i = n + 1
  OBVIOUS
<1>5. \A i \in 1 .. n : i \in 1 .. n + 1 /\ (i < n => i + 1 \in 1 .. n) /\ (i = n \/ i < n)
  OBVIOUS
<1>6. Answered(h) => OpenEnded(g) /\ (m # "call" => Answered(g))
  BY <1>1, <1>3, <1>4, <1>5 DEF Answered, OpenEnded
<1>7. OpenEnded(h) /\ m = "tool" => Answered(g)
  <2>1. SUFFICES ASSUME OpenEnded(h), m = "tool", NEW i \in 1 .. n + 1, g[i] = "call"
                 PROVE  i < n + 1 /\ g[i + 1] = "tool"
    BY <1>3 DEF Answered
  <2>2. i \in 1 .. n /\ h[i] = "call"
    BY <1>3, <1>4, <2>1
  <2>3. CASE i = n
    BY <1>3, <2>1, <2>3
  <2>4. CASE i < n
    <3>1. h[i + 1] = "tool" /\ i + 1 \in 1 .. n
      BY <1>1, <2>1, <2>2, <2>4 DEF OpenEnded
    <3> QED BY <1>3, <2>4, <3>1
  <2> QED BY <2>2, <2>3, <2>4
<1>8. Paired(h) /\ (m = "tool" => h # <<>> /\ h[Len(h)] = "call") => Paired(g)
  <2>1. SUFFICES ASSUME Paired(h), m = "tool" => h # <<>> /\ h[n] = "call",
                        NEW i \in 1 .. n + 1, g[i] = "tool"
                 PROVE  i > 1 /\ g[i - 1] = "call"
    BY <1>1, <1>3 DEF Paired
  <2>2. CASE i \in 1 .. n
    <3>1. h[i] = "tool" /\ i > 1 /\ h[i - 1] = "call"
      BY <1>1, <1>3, <2>1, <2>2 DEF Paired
    <3>2. i - 1 \in 1 .. n
      BY <2>2, <3>1
    <3> QED BY <1>3, <3>1, <3>2
  <2>3. CASE i = n + 1
    <3>1. h # <<>> /\ h[n] = "call"
      BY <1>3, <2>1, <2>3
    <3>2. n # 0
      BY <1>1, <3>1, EmptySeq
    <3>3. n \in 1 .. n /\ i > 1 /\ i - 1 = n
      BY <2>3, <3>2
    <3> QED BY <1>3, <3>1, <3>3
  <2> QED BY <1>4, <2>2, <2>3
<1>9. /\ NoCalls(h) /\ m # "call" => NoCalls(g)
      /\ NoTools(h) /\ m # "tool" => NoTools(g)
  BY <1>1, <1>3, <1>4 DEF NoCalls, NoTools
<1>10. NoTools(h) /\ m = "tool" => OneTool(g)
  <2>1. SUFFICES ASSUME NoTools(h), m = "tool" PROVE OneTool(g)
    OBVIOUS
  <2>2. n + 1 \in DOMAIN g /\ g[n + 1] = "tool"
    BY <1>3, <2>1
  <2>3. \A i \in DOMAIN g : g[i] = "tool" => i = n + 1
    BY <1>1, <1>3, <1>4, <2>1 DEF NoTools
  <2> QED BY <2>2, <2>3 DEF OneTool
<1>11. OneTool(h) /\ m # "tool" => OneTool(g)
  <2>1. SUFFICES ASSUME m # "tool", NEW j \in DOMAIN h, {i \in DOMAIN h : h[i] = "tool"} = {j}
                 PROVE  OneTool(g)
    BY DEF OneTool
  <2>2. \A i \in DOMAIN h : i \in DOMAIN g /\ g[i] = h[i]
    BY <1>1, <1>3, <1>5
  <2>3. \A i \in DOMAIN g : g[i] = "tool" => i \in DOMAIN h
    BY <1>1, <1>3, <1>4, <2>1
  <2>4. {i \in DOMAIN g : g[i] = "tool"} = {j}
    BY <2>1, <2>2, <2>3
  <2> QED BY <2>1, <2>2, <2>4 DEF OneTool
<1>12. Lasting(h) \/ m # "tool" => Lasting(g)
  <2>1. n + 1 \in 1 .. n + 1
    OBVIOUS
  <2> QED BY <1>1, <1>3, <1>5, <2>1 DEF Lasting
<1> QED BY <1>2, <1>3, <1>6, <1>7, <1>8, <1>9, <1>10, <1>11, <1>12


\* _sanitize_message_history makes a history acceptable, and leaves one that is.
LEMMA Sanitized ==
    ASSUME NEW h \in Seq(Messages), NEW s, s = Sanitize(h)
    PROVE  /\ s \in Seq(Messages) /\ Paired(s)
           /\ Answered(h) => Answered(s)
           /\ NoCalls(h) => NoCalls(s) /\ NoTools(s)
           /\ Lasting(h) => Lasting(s)
           /\ Paired(h) => s = h
<1>1. PICK n \in Nat : n = Len(h)
  BY LenProperties
<1>2. DOMAIN h = 1 .. n /\ \A i \in 1 .. n : h[i] \in Messages
  BY <1>1, LenProperties, ElementOfSeq
<1>3. PICK f : /\ f \in [0 .. n -> Seq(Messages)] /\ f[0] = <<>> /\ f[n] = s
               /\ \A i \in 1 .. n :
                    f[i] = IF h[i] = "tool" /\ (f[i - 1] = <<>> \/ Last(f[i - 1]) # "call")
                           THEN f[i - 1] ELSE Append(f[i - 1], h[i])
  BY <1>1, SanitizeSteps
<1>4. 0 \in 0 .. n /\ n \in 0 .. n /\ \A i \in 1 .. n : i \in 0 .. n /\ i - 1 \in 0 .. n
  OBVIOUS
<1> DEFINE Dropped(i) == h[i] = "tool" /\ (f[i - 1] = <<>> \/ f[i - 1][Len(f[i - 1])] # "call")
<1>5. ASSUME NEW i \in 1 .. n
      PROVE  /\ f[i] \in Seq(Messages) /\ f[i - 1] \in Seq(Messages) /\ h[i] \in Messages
             /\ Dropped(i) => f[i] = f[i - 1]
             /\ ~ Dropped(i) => f[i] = Append(f[i - 1], h[i])
  BY <1>2, <1>3, <1>4 DEF Last
<1> HIDE DEF Dropped
<1>6. s \in Seq(Messages)
  BY <1>3, <1>4
<1>7. f[0] = <<>> /\ Paired(f[0]) /\ Answered(f[0]) /\ NoCalls(f[0])
  BY <1>3 DEF Paired, Answered, NoCalls
<1>8. Paired(s)
  <2> DEFINE P == {i \in 0 .. n : Paired(f[i])}
  <2>1. 0 \in P
    BY <1>4, <1>7
  <2>2. ASSUME NEW i \in 1 .. n, i - 1 \in P
        PROVE  i \in P
    <3>1. Paired(f[i - 1])
      BY <2>2
    <3>2. Paired(f[i])
      BY <1>5, <3>1, Appended DEF Dropped
    <3> QED BY <1>4, <3>2
  <2> HIDE DEF P
  <2>3. 0 .. n \subseteq P
    BY <2>1, <2>2, UpTo
  <2> QED BY <1>3, <1>4, <2>3 DEF P
<1>9. ASSUME NoCalls(h)
      PROVE  NoCalls(s) /\ NoTools(s)
  <2> DEFINE P == {i \in 0 .. n : NoCalls(f[i])}
  <2>1. 0 \in P
    BY <1>4, <1>7
  <2>2. ASSUME NEW i \in 1 .. n, i - 1 \in P
        PROVE  i \in P
    <3>1. NoCalls(f[i - 1]) /\ h[i] # "call"
      BY <1>2, <1>9, <2>2 DEF NoCalls
    <3>2. NoCalls(f[i])
      BY <1>5, <3>1, Appended
    <3> QED BY <1>4, <3>2
  <2> HIDE DEF P
  <2>3. 0 .. n \subseteq P
    BY <2>1, <2>2, UpTo
  <2>4. NoCalls(s)
    BY <1>3, <1>4, <2>3 DEF P
  <2>5. \A i \in DOMAIN s : i > 1 => i - 1 \in DOMAIN s
    BY <1>6
  <2> QED BY <1>8, <2>4, <2>5 DEF NoCalls, NoTools, Paired
<1>10. ASSUME Lasting(h)
       PROVE  Lasting(s)
  <2>1. PICK k \in 1 .. n : h[k] # "tool"
    BY <1>2, <1>10 DEF Lasting
  <2> DEFINE P == {i \in 0 .. n : i >= k => Lasting(f[i])}
  <2>2. 0 \in P
    BY <2>1
  <2>3. ASSUME NEW i \in 1 .. n, i - 1 \in P
        PROVE  i \in P
    <3>1. ASSUME i >= k
          PROVE  Lasting(f[i])
      <4>1. CASE i = k
        BY <1>5, <2>1, <4>1, Appended DEF Dropped
      <4>2. CASE i # k
        <5>1. Lasting(f[i - 1])
          BY <2>3, <3>1, <4>2
        <5> QED BY <1>5, <5>1, Appended
      <4> QED BY <4>1, <4>2
    <3> QED BY <1>4, <3>1
  <2> HIDE DEF P
  <2>4. 0 .. n \subseteq P
    BY <2>2, <2>3, UpTo
  <2> QED BY <1>3, <1>4, <2>4 DEF P
<1>11. ASSUME Answered(h)
       PROVE  Answered(s)
  <2> DEFINE AwaitsTool(i) == i > 0 /\ h[i] = "call"
             Fine(i) == IF AwaitsTool(i)
                        THEN OpenEnded(f[i]) /\ f[i] # <<>> /\ f[i][Len(f[i])] = "call"
                        ELSE Answered(f[i])
             P == {i \in 0 .. n : Fine(i)}
  <2>1. 0 \in P
    BY <1>4, <1>7
  <2>2. ASSUME NEW i \in 1 .. n, i - 1 \in P
        PROVE  i \in P
    <3>1. CASE AwaitsTool(i - 1)
      <4>1. h[i] = "tool"
        <5>1. i - 1 \in 1 .. n /\ i - 1 + 1 = i
          BY <3>1
        <5> QED BY <1>2, <1>11, <3>1, <5>1 DEF Answered
      <4>2. OpenEnded(f[i - 1]) /\ ~ Dropped(i)
        BY <2>2, <3>1 DEF Dropped
      <4>3. Answered(f[i])
        BY <1>5, <4>1, <4>2, Appended
      <4> QED BY <1>4, <4>1, <4>3
    <3>2. CASE ~ AwaitsTool(i - 1)
      <4>1. Answered(f[i - 1])
        BY <2>2, <3>2
      <4>2. CASE h[i] = "call"
        <5>1. ~ Dropped(i)
          BY <4>2 DEF Dropped
        <5>2. OpenEnded(f[i]) /\ f[i] # <<>> /\ f[i][Len(f[i])] = "call"
          <6>1. f[i] = Append(f[i - 1], h[i]) /\ f[i - 1] \in Seq(Messages) /\ h[i] \in Messages
            BY <1>5, <5>1
          <6>2. /\ OpenEnded(Append(f[i - 1], h[i])) /\ Append(f[i - 1], h[i]) # <<>>
                /\ Append(f[i - 1], h[i])[Len(Append(f[i - 1], h[i]))] = h[i]
            BY <4>1, <6>1, Appended
          <6> QED BY <4>2, <6>1, <6>2
        <5> QED BY <1>4, <4>2, <5>2
      <4>3. CASE h[i] # "call"
        <5>1. Answered(f[i])
          BY <1>5, <4>1, <4>3, Appended
        <5> QED BY <1>4, <4>3, <5>1
      <4> QED BY <4>2, <4>3
    <3> QED BY <3>1, <3>2
  <2>3. ~ AwaitsTool(n)
    BY <1>1, <1>2, <1>11 DEF Answered
  <2> HIDE DEF P
  <2>4. 0 .. n \subseteq P
    BY <2>1, <2>2, UpTo
  <2> QED BY <1>3, <1>4, <2>3, <2>4 DEF P
<1>12. ASSUME Paired(h)
       PROVE  s = h
  <2> DEFINE Same(i) == Len(f[i]) = i /\ \A j \in 1 .. i : f[i][j] = h[j]
             P == {i \in 0 .. n : Same(i)}
  <2>1. 0 \in P
    BY <1>4, <1>7
  <2>2. ASSUME NEW i \in 1 .. n, i - 1 \in P
        PROVE  i \in P
    <3>1. Len(f[i - 1]) = i - 1 /\ \A j \in 1 .. i - 1 : f[i - 1][j] = h[j]
      BY <2>2
    <3>2. ~ Dropped(i)
      <4>1. SUFFICES ASSUME h[i] = "tool" PROVE f[i - 1] # <<>> /\ f[i - 1][i - 1] = "call"
        BY <3>1 DEF Dropped
      <4>2. i > 1 /\ h[i - 1] = "call"
        BY <1>2, <1>12, <4>1 DEF Paired
      <4>3. i - 1 \in 1 .. i - 1 /\ i - 1 # 0
        BY <4>2
      <4> QED BY <3>1, <4>2, <4>3
    <3>3. /\ Len(f[i]) = i /\ f[i][i] = h[i]
          /\ \A j \in 1 .. i - 1 : f[i][j] = f[i - 1][j]
      <4>1. PICK g \in Seq(Messages) : g = f[i - 1]
        BY <1>5
      <4>2. PICK k \in Nat : k = i - 1 /\ Len(g) = k /\ i = k + 1
        BY <3>1, <4>1
      <4>3. f[i] = Append(g, h[i]) /\ h[i] \in Messages
        BY <1>5, <3>2, <4>1
      <4>4. Len(f[i]) = k + 1 /\ f[i][k + 1] = h[i] /\ \A j \in 1 .. k : f[i][j] = g[j]
        BY <4>2, <4>3, AppendProperties
      <4> QED BY <4>1, <4>2, <4>4
    <3>4. \A j \in 1 .. i : j = i \/ j \in 1 .. i - 1
      OBVIOUS
    <3>5. Same(i)
      BY <3>1, <3>3, <3>4
    <3> QED BY <1>4, <3>5
  <2> HIDE DEF P
  <2>3. 0 .. n \subseteq P
    BY <2>1, <2>2, UpTo
  <2>4. Same(n)
    BY <1>4, <2>3 DEF P
  <2> QED BY <1>1, <1>3, <1>6, <2>4, SeqEqual
<1> QED BY <1>6, <1>8, <1>9, <1>10, <1>11, <1>12

LEMMA ClearedSteps ==
    ASSUME NEW h \in Seq(Messages)
    PROVE  \E f \in [0 .. Len(h) -> Seq(Messages)] :
             /\ f[0] = <<>> /\ Cleared(h) = f[Len(h)] \o <<"human">>
             /\ \A i \in 1 .. Len(h) :
                  f[i] = IF h[i] \in {"call", "ai"}
                         THEN f[i - 1] ELSE Append(f[i - 1], h[i])
<1>1. PICK n \in Nat : n = Len(h)
  BY LenProperties
<1>2. DOMAIN h = 1 .. n /\ \A i \in 1 .. n : h[i] \in Messages
  BY <1>1, LenProperties, ElementOfSeq
<1> DEFINE V == Seq(Messages)
           Op(kept, m) == IF m \in {"call", "ai"} THEN kept ELSE Append(kept, m)
           taking == [p \in V \X (1 .. n) |-> Op(p[1], h[p[2]])]
           Folded(F) == F = [s \in SUBSET DOMAIN h |->
                IF s = {} THEN <<>> ELSE Op(F[s \ {Max(s)}], h[Max(s)])]
<1>3. <<>> \in V /\ \A v \in V, m \in Messages : Op(v, m) \in V
  BY AppendProperties
<1>4. taking \in [V \X (1 .. n) -> V] /\ \A v \in V, i \in 1 .. n : taking[<<v, i>>] = Op(v, h[i])
  BY <1>2, <1>3
<1>5. \A s \in SUBSET (1 .. n) : s # {} => Max(s) \in 1 .. n
  BY MaxIsIn
<1>6. PICK F : Folded(F) /\ Cleared(h) = F[1 .. n] \o <<"human">>
  <2>1. PICK G : IsFoldFunction(G, V, n, <<>>, taking)
    <3> HIDE DEF V, taking
    <3> QED BY <1>3, <1>4, FoldFunctionExists, Zenon
  <2> HIDE DEF Op, taking
  <2>2. Folded(G)
    BY <1>2, <1>4, <1>5, <2>1 DEF IsFoldFunction
  <2> USE DEF Op
  <2> QED BY <1>2, <2>2 DEF Cleared, FoldLeft, MapThenFoldSet
<1> HIDE DEF Op, taking
<1>7. FoldsWith(F, V, n, <<>>, taking)
  BY <1>2, <1>4, <1>5, <1>6 DEF FoldsWith
<1>8. PICK f : RunsThrough(f, F, V, n, <<>>, taking)
  <2> HIDE DEF V, Folded
  <2>1. <<>> \in V /\ taking \in [V \X (1 .. n) -> V]
    BY <1>3, <1>4
  <2> QED BY <2>1, <1>7, FoldPlaces
<1>9. \A i \in 1 .. n : f[i] = Op(f[i - 1], h[i])
  <2>1. \A i \in 1 .. n : i - 1 \in 0 .. n
    OBVIOUS
  <2> QED BY <1>4, <1>8, <2>1 DEF RunsThrough
<1>10. f \in [0 .. n -> Seq(Messages)] /\ f[0] = <<>> /\ Cleared(h) = f[n] \o <<"human">>
  BY <1>6, <1>8 DEF RunsThrough
<1> QED BY <1>1, <1>9, <1>10 DEF Op

\* Msg Clear leaves no call.
LEMMA ClearedIs ==
    ASSUME NEW h \in Seq(Messages)
    PROVE  Cleared(h) \in Seq(Messages) /\ NoCalls(Cleared(h)) /\ Lasting(Cleared(h))
<1>1. PICK n \in Nat : n = Len(h)
  BY LenProperties
<1>2. DOMAIN h = 1 .. n /\ \A i \in 1 .. n : h[i] \in Messages
  BY <1>1, LenProperties, ElementOfSeq
<1>3. PICK f : /\ f \in [0 .. n -> Seq(Messages)] /\ f[0] = <<>>
               /\ Cleared(h) = f[n] \o <<"human">>
               /\ \A i \in 1 .. n :
                    f[i] = IF h[i] \in {"call", "ai"} THEN f[i - 1] ELSE Append(f[i - 1], h[i])
  BY <1>1, ClearedSteps
<1>4. 0 \in 0 .. n /\ n \in 0 .. n /\ \A i \in 1 .. n : i \in 0 .. n /\ i - 1 \in 0 .. n
  OBVIOUS
<1> DEFINE P == {i \in 0 .. n : NoCalls(f[i])}
<1>5. 0 \in P
  BY <1>3, <1>4 DEF NoCalls
<1>6. ASSUME NEW i \in 1 .. n, i - 1 \in P
      PROVE  i \in P
  <2>1. f[i - 1] \in Seq(Messages) /\ h[i] \in Messages /\ NoCalls(f[i - 1])
    BY <1>2, <1>3, <1>4, <1>6
  <2>2. h[i] # "call" => NoCalls(Append(f[i - 1], h[i]))
    BY <2>1, Appended
  <2>3. NoCalls(f[i])
    BY <1>3, <2>1, <2>2
  <2> QED BY <1>4, <2>3
<1> HIDE DEF P
<1>7. 0 .. n \subseteq P
  BY <1>5, <1>6, UpTo
<1>8. NoCalls(f[n]) /\ f[n] \in Seq(Messages)
  BY <1>3, <1>4, <1>7 DEF P
<1>9. "human" \in Messages /\ Cleared(h) = Append(f[n], "human")
  BY <1>3, <1>8, AppendIsConcat DEF Messages
<1> QED BY <1>8, <1>9, Appended

\* A step of one context: what is to be shown of its own history.
LEMMA HistoryMoves ==
    ASSUME FlowInv, HistInv, GraphAssumption, NEW c \in Ctxs, NEW h, NEW to,
           pc[c] \in Working, pc' = [pc EXCEPT ![c] = to], hist' = [hist EXCEPT ![c] = h],
           UNCHANGED <<config, turn>>, tooled' \in [Analysts -> Nat],
           Acceptable(h, to),
           turn[c] # "fundamentals" =>
              asked'["fundamentals"] = asked["fundamentals"] /\ tooled'["fundamentals"] = tooled["fundamentals"],
           turn[c] = "fundamentals" =>
              /\ OwnData(h, to, asked'["fundamentals"], tooled'["fundamentals"])
              /\ asked'["fundamentals"] \in {1, 2} \/ UNCHANGED <<asked, tooled>>
    PROVE  HistInv'
<1>1. /\ pc' \in [Ctxs -> {to} \cup ContextStages] /\ pc'[c] = to /\ hist' = [d \in Ctxs |-> hist'[d]]
      /\ hist'[c] = h /\ \A d \in Ctxs \ {c} : pc'[d] = pc[d] /\ hist'[d] = hist[d]
  BY DEF FlowInv, GraphTyped, HistInv
<1>2. \A d \in Ctxs : Acceptable(hist'[d], pc'[d])
  BY <1>1 DEF HistInv
<1>3. asked'["fundamentals"] <= 2 /\ (asked'["fundamentals"] = 0 => tooled'["fundamentals"] = 0)
  BY DEF HistInv
<1>4. ASSUME NEW d \in Ctxs, turn[d] = "fundamentals"
      PROVE  OwnData(hist'[d], pc'[d], asked'["fundamentals"], tooled'["fundamentals"])
  <2>1. CASE d = c
    BY <1>1, <1>4, <2>1
  <2>2. CASE d # c /\ turn[c] # "fundamentals"
    BY <1>1, <1>4, <2>2 DEF HistInv
  <2>3. CASE d # c /\ turn[c] = "fundamentals"
    <3>1. pc[d] \notin Working
      BY <1>4, <2>3, WhoAsks
    <3> QED BY <1>1, <2>3, <3>1 DEF OwnData, Working
  <2> QED BY <2>1, <2>2, <2>3
<1>5. \A d \in Ctxs : turn'[d] = "fundamentals" =>
         OwnData(hist[d], pc[d], asked["fundamentals"], tooled["fundamentals"])'
  BY <1>4 DEF OwnData, SecondCall
<1>6. \A d \in Ctxs : Acceptable(hist[d], pc[d])'
  BY <1>2
<1> QED BY <1>1, <1>3, <1>5, <1>6 DEF HistInv

LEMMA HistoryOf ==
    ASSUME FlowInv, HistInv, NEW c \in Ctxs
    PROVE  /\ hist[c] \in Seq(Messages) /\ Lasting(hist[c]) /\ hist[c] # <<>>
           /\ Len(hist[c]) \in DOMAIN hist[c] /\ Acceptable(hist[c], pc[c])
           /\ asked["fundamentals"] \in Nat /\ tooled["fundamentals"] \in Nat
<1>1. hist[c] \in Seq(Messages) /\ Lasting(hist[c]) /\ Acceptable(hist[c], pc[c])
  BY DEF HistInv, Acceptable
<1>2. hist[c] # <<>>
  BY <1>1 DEF Lasting
<1>3. Len(hist[c]) \in DOMAIN hist[c]
  <2>1. Len(hist[c]) \in Nat /\ Len(hist[c]) # 0 /\ DOMAIN hist[c] = 1 .. Len(hist[c])
    BY <1>1, <1>2, EmptySeq, LenProperties
  <2> QED BY <2>1
<1>4. asked["fundamentals"] \in Nat /\ tooled["fundamentals"] \in Nat
  BY DEF FlowInv, GraphTyped, HistInv, Analysts
<1> QED BY <1>1, <1>2, <1>3, <1>4

LEMMA PrepareHistory ==
    ASSUME FlowInv, HistInv, GraphAssumption, NEW c \in Ctxs, Prepare(c)
    PROVE  HistInv'
<1>1. /\ pc[c] = "prepare" /\ pc' = [pc EXCEPT ![c] = "ask"]
      /\ hist' = [hist EXCEPT ![c] = Sanitize(hist[c])]
      /\ UNCHANGED <<config, turn, asked, tooled>>
  BY DEF Prepare, Move, histories
<1>2. PICK h : h = hist[c]
  OBVIOUS
<1>3. PICK s : s = Sanitize(h)
  OBVIOUS
<1>4. h \in Seq(Messages) /\ Lasting(h) /\ Answered(h)
  BY <1>1, <1>2, HistoryOf DEF Acceptable
<1>5. /\ s \in Seq(Messages) /\ Paired(s) /\ Answered(s) /\ Lasting(s)
      /\ NoCalls(h) => NoCalls(s) /\ NoTools(s)
      /\ Paired(h) => s = h
  BY <1>3, <1>4, Sanitized
<1>6. Acceptable(s, "ask")
  BY <1>5 DEF Acceptable
<1>7. turn[c] = "fundamentals" =>
         OwnData(s, "ask", asked["fundamentals"], tooled["fundamentals"])
  <2>1. SUFFICES ASSUME turn[c] = "fundamentals"
                 PROVE  OwnData(s, "ask", asked["fundamentals"], tooled["fundamentals"])
    OBVIOUS
  <2>2. OwnData(h, "prepare", asked["fundamentals"], tooled["fundamentals"])
    BY <1>1, <1>2, <2>1 DEF HistInv
  <2> QED BY <1>5, <2>2 DEF OwnData
<1>8. tooled' \in [Analysts -> Nat] /\ pc[c] \in Working
  BY <1>1 DEF HistInv, Working
<1>9. hist' = [hist EXCEPT ![c] = s]
  BY <1>1, <1>2, <1>3
<1> QED BY <1>1, <1>6, <1>7, <1>8, <1>9, HistoryMoves

LEMMA RouteHistory ==
    ASSUME FlowInv, HistInv, GraphAssumption, NEW c \in Ctxs, Route(c)
    PROVE  HistInv'
<1>1. PICK to \in {"tools", "clear"} :
         /\ pc[c] = "route" /\ pc' = [pc EXCEPT ![c] = to]
         /\ UNCHANGED <<config, turn, hist, asked, tooled>>
         /\ to = "tools" => Last(hist[c]) = "call"
  BY DEF Route, Move, histories
<1>2. PICK h : h = hist[c]
  OBVIOUS
<1>3. /\ h \in Seq(Messages) /\ Lasting(h) /\ OpenEnded(h)
      /\ to = "tools" => h[Len(h)] = "call"
  BY <1>1, <1>2, HistoryOf DEF Acceptable, Last
<1>4. Acceptable(h, to)
  BY <1>1, <1>3 DEF Acceptable
<1>5. turn[c] = "fundamentals" => OwnData(h, to, asked["fundamentals"], tooled["fundamentals"])
  <2>1. SUFFICES ASSUME turn[c] = "fundamentals"
                 PROVE  OwnData(h, to, asked["fundamentals"], tooled["fundamentals"])
    OBVIOUS
  <2>2. OwnData(h, "route", asked["fundamentals"], tooled["fundamentals"])
    BY <1>1, <1>2, <2>1 DEF HistInv
  <2> QED BY <1>1, <1>3, <2>2 DEF OwnData
<1>6. tooled' \in [Analysts -> Nat] /\ pc[c] \in Working
  BY <1>1 DEF HistInv, Working
<1>7. hist' = [hist EXCEPT ![c] = h]
  BY <1>1, <1>2 DEF HistInv
<1> QED BY <1>1, <1>4, <1>5, <1>6, <1>7, HistoryMoves

LEMMA ToolsHistory ==
    ASSUME FlowInv, HistInv, GraphAssumption, NEW c \in Ctxs, RunTools(c)
    PROVE  HistInv'
<1>1. /\ pc[c] = "tools" /\ pc' = [pc EXCEPT ![c] = "prepare"]
      /\ hist' = [hist EXCEPT ![c] = Append(hist[c], "tool")]
      /\ tooled' = [tooled EXCEPT ![turn[c]] = @ + 1]
      /\ UNCHANGED <<config, turn, asked>>
  BY DEF RunTools, Move
<1>2. PICK h : h = hist[c]
  OBVIOUS
<1>3. PICK s : s = Append(h, "tool")
  OBVIOUS
<1>4. h \in Seq(Messages) /\ Lasting(h) /\ OpenEnded(h) /\ h # <<>> /\ h[Len(h)] = "call"
  BY <1>1, <1>2, HistoryOf DEF Acceptable
<1>5. "tool" \in Messages
  BY DEF Messages
<1>6. /\ s \in Seq(Messages) /\ Answered(s) /\ Lasting(s)
      /\ NoTools(h) => OneTool(s)
      /\ Paired(h) => Paired(s)
  BY <1>3, <1>4, <1>5, Appended
<1>7. Acceptable(s, "prepare")
  BY <1>6 DEF Acceptable
<1>8. tooled \in [Analysts -> Nat] /\ turn[c] \in Analysts /\ tooled' \in [Analysts -> Nat]
  BY <1>1 DEF HistInv, FlowInv, GraphTyped
<1>9. turn[c] # "fundamentals" => tooled'["fundamentals"] = tooled["fundamentals"]
  BY <1>1, <1>8
<1>10. turn[c] = "fundamentals" =>
          OwnData(s, "prepare", asked'["fundamentals"], tooled'["fundamentals"])
          /\ asked'["fundamentals"] \in {1, 2}
  <2>1. SUFFICES ASSUME turn[c] = "fundamentals"
                 PROVE  OwnData(s, "prepare", asked'["fundamentals"], tooled'["fundamentals"])
                        /\ asked'["fundamentals"] \in {1, 2}
    OBVIOUS
  <2>2. OwnData(h, "tools", asked["fundamentals"], tooled["fundamentals"])
    BY <1>1, <1>2, <2>1 DEF HistInv
  <2>3. asked["fundamentals"] = 1 /\ tooled["fundamentals"] = 0 /\ NoTools(h) /\ ~ config.google
    BY <2>2 DEF OwnData
  <2>4. asked'["fundamentals"] = 1 /\ tooled'["fundamentals"] = 1
    BY <1>1, <1>8, <2>1, <2>3
  <2>5. Paired(h)
    BY <2>3 DEF NoTools, Paired
  <2>6. SecondCall(asked'["fundamentals"], tooled'["fundamentals"])
    BY <2>3, <2>4 DEF SecondCall
  <2> QED BY <1>6, <2>3, <2>4, <2>5, <2>6 DEF OwnData
<1>11. pc[c] \in Working /\ hist' = [hist EXCEPT ![c] = s]
  BY <1>1, <1>2, <1>3 DEF Working
<1> QED BY <1>1, <1>7, <1>8, <1>9, <1>10, <1>11, HistoryMoves

LEMMA ClearHistory ==
    ASSUME FlowInv, HistInv, GraphAssumption, NEW c \in Ctxs, ClearMessages(c) \/ Raise(c)
    PROVE  HistInv'
<1>1. CASE ClearMessages(c)
  <2>1. /\ pc[c] = "clear" /\ pc' = [pc EXCEPT ![c] = "end"]
        /\ hist' = [hist EXCEPT ![c] = Cleared(hist[c])]
        /\ UNCHANGED <<config, turn, asked, tooled>>
    BY <1>1 DEF ClearMessages, Move, histories
  <2>2. Acceptable(Cleared(hist[c]), "end")
    BY HistoryOf, ClearedIs DEF Acceptable
  <2>3. OwnData(Cleared(hist[c]), "end", asked["fundamentals"], tooled["fundamentals"])
    BY DEF OwnData
  <2>4. tooled' \in [Analysts -> Nat] /\ pc[c] \in Working
    BY <2>1 DEF HistInv, Working
  <2> QED BY <2>1, <2>2, <2>3, <2>4, HistoryMoves
<1>2. CASE Raise(c)
  <2>1. /\ pc[c] \in Working /\ pc' = [pc EXCEPT ![c] = "raised"]
        /\ UNCHANGED <<config, turn, hist, asked, tooled>>
    BY <1>2 DEF Raise, Move, histories, Working
  <2>2. Acceptable(hist[c], "raised")
    BY HistoryOf DEF Acceptable
  <2>3. OwnData(hist[c], "raised", asked["fundamentals"], tooled["fundamentals"])
    BY DEF OwnData
  <2>4. tooled' \in [Analysts -> Nat] /\ hist' = [hist EXCEPT ![c] = hist[c]]
    BY <2>1 DEF HistInv
  <2> QED BY <2>1, <2>2, <2>3, <2>4, HistoryMoves
<1> QED BY <1>1, <1>2

\* What the node of the fundamentals analyst answers, before and after its data.
LEMMA FundamentalsAnswers ==
    ASSUME NEW h, NEW u \in Updates("fundamentals", h)
    PROVE  /\ config.google => u.messages = <<>>
           /\ ~ config.google /\ HasTool(h) => u.messages = <<"ai">>
           /\ ~ config.google => u.messages \in {<<>>, <<"ai">>, <<"call">>}
<1>1. u \in FundamentalsUpdates(h, count["fundamentals"])
  BY DEF Updates
<1>2. CASE config.google
  BY <1>1, <1>2 DEF FundamentalsUpdates, Update
<1>3. CASE ~ config.google /\ HasTool(h)
  BY <1>1, <1>3 DEF FundamentalsUpdates, Update
<1>4. CASE ~ config.google /\ ~ HasTool(h)
  BY <1>1, <1>4 DEF FundamentalsUpdates, Update
<1> QED BY <1>2, <1>3, <1>4

Answers == {<<>>, <<"ai">>, <<"plain">>, <<"call">>, <<"call", "tool", "ai">>}

LEMMA NodeAnswers ==
    ASSUME NEW a \in Analysts, NEW h, NEW u \in Updates(a, h)
    PROVE  u.messages \in Answers
<1>1. CASE a = "market"
  <2>1. u \in MarketUpdates(h, count[a])
    BY <1>1 DEF Updates
  <2> QED BY <2>1 DEF MarketUpdates, Update, Answers
<1>2. CASE a = "social"
  <2>1. u \in SocialUpdates(h, count[a])
    BY <1>2 DEF Updates
  <2> QED BY <2>1 DEF SocialUpdates, Update, Answers
<1>3. CASE a = "news"
  <2>1. u \in NewsUpdates(h, count[a])
    BY <1>3 DEF Updates
  <2> QED BY <2>1 DEF NewsUpdates, Update, Answers
<1>4. CASE a = "fundamentals"
  BY <1>4, FundamentalsAnswers DEF Answers
<1> QED BY <1>1, <1>2, <1>3, <1>4 DEF Analysts

LEMMA Answering ==
    ASSUME NEW h \in Seq(Messages), Paired(h), Answered(h), Lasting(h), NEW ms \in Answers
    PROVE  h \o ms \in Seq(Messages) /\ OpenEnded(h \o ms) /\ Lasting(h \o ms)
<1>1. /\ "ai" \in Messages /\ "plain" \in Messages /\ "call" \in Messages /\ "tool" \in Messages
      /\ "call" # "tool" /\ "ai" # "tool" /\ "ai" # "call" /\ "plain" # "tool" /\ "plain" # "call"
  BY DEF Messages
<1>2. CASE ms = <<>>
  <2>1. h \o ms = h
    BY <1>2, ConcatEmptySeq
  <2> QED BY <2>1 DEF Answered, OpenEnded
<1>3. ASSUME NEW m \in {"ai", "plain", "call"}, ms = <<m>>
      PROVE  h \o ms \in Seq(Messages) /\ OpenEnded(h \o ms) /\ Lasting(h \o ms)
  <2>1. m \in Messages /\ h \o ms = Append(h, m)
    BY <1>1, <1>3, AppendIsConcat
  <2> QED BY <2>1, Appended
<1>4. CASE ms = <<"call", "tool", "ai">>
  <2>1. PICK g : g = Append(h, "call")
    OBVIOUS
  <2>2. PICK k : k = Append(g, "tool")
    OBVIOUS
  <2>3. g \in Seq(Messages) /\ OpenEnded(g) /\ Lasting(g)
    BY <1>1, <2>1, Appended
  <2>4. k \in Seq(Messages) /\ Answered(k) /\ Lasting(k)
    BY <1>1, <2>2, <2>3, Appended
  <2>5. h \o ms = Append(k, "ai")
    <3>1. h \o ms = (h \o <<"call", "tool">>) \o <<"ai">>
      <4>1. ms = <<"call", "tool">> \o <<"ai">>
        BY <1>4
      <4>2. <<"call", "tool">> \in Seq(Messages) /\ <<"ai">> \in Seq(Messages)
        BY <1>1
      <4> QED BY <4>1, <4>2, ConcatAssociative
    <3>2. h \o <<"call", "tool">> = (h \o <<"call">>) \o <<"tool">>
      <4>1. <<"call", "tool">> = <<"call">> \o <<"tool">>
        OBVIOUS
      <4>2. <<"call">> \in Seq(Messages) /\ <<"tool">> \in Seq(Messages)
        BY <1>1
      <4> QED BY <4>1, <4>2, ConcatAssociative
    <3>3. g = h \o <<"call">> /\ k = g \o <<"tool">> /\ Append(k, "ai") = k \o <<"ai">>
      BY <1>1, <2>1, <2>2, <2>3, <2>4, AppendIsConcat
    <3> QED BY <3>1, <3>2, <3>3
  <2> QED BY <1>1, <2>4, <2>5, Appended
<1> QED BY <1>2, <1>3, <1>4 DEF Answers

LEMMA AskHistory ==
    ASSUME FlowInv, HistInv, GraphAssumption, NEW c \in Ctxs, Ask(c)
    PROVE  HistInv'
<1>1. PICK a \in Analysts : a = turn[c]
  BY DEF FlowInv, GraphTyped
<1>2. PICK u \in Updates(a, hist[c]) :
         /\ pc[c] = "ask" /\ pc' = [pc EXCEPT ![c] = "route"]
         /\ hist' = [hist EXCEPT ![c] = hist[c] \o u.messages]
         /\ asked' = [asked EXCEPT ![a] = @ + 1]
         /\ UNCHANGED <<config, turn, tooled>>
  BY <1>1 DEF Ask, Move
<1>3. PICK h : h = hist[c]
  OBVIOUS
<1>4. PICK ms : ms = u.messages
  OBVIOUS
<1>5. h \in Seq(Messages) /\ Lasting(h) /\ Paired(h) /\ Answered(h) /\ Len(h) \in DOMAIN h
  BY <1>2, <1>3, HistoryOf DEF Acceptable
<1>6. ms \in Answers
  BY <1>2, <1>4, NodeAnswers
<1>7. Acceptable(h \o ms, "route")
  BY <1>5, <1>6, Answering DEF Acceptable
<1>8. asked \in [Analysts -> Nat] /\ tooled' \in [Analysts -> Nat]
  BY <1>2 DEF HistInv, FlowInv, GraphTyped
<1>9. a # "fundamentals" => asked'["fundamentals"] = asked["fundamentals"]
  BY <1>2, <1>8 DEF Analysts
<1>10. a = "fundamentals" =>
          OwnData(h \o ms, "route", asked'["fundamentals"], tooled["fundamentals"])
          /\ asked'["fundamentals"] \in {1, 2}
  <2>1. SUFFICES ASSUME a = "fundamentals"
                 PROVE  OwnData(h \o ms, "route", asked'["fundamentals"], tooled["fundamentals"])
                        /\ asked'["fundamentals"] \in {1, 2}
    OBVIOUS
  <2>2. PICK n \in Nat : n = asked["fundamentals"] /\ asked'["fundamentals"] = n + 1
    BY <1>2, <1>8, <2>1 DEF Analysts
  <2>3. PICK t : t = tooled["fundamentals"]
    OBVIOUS
  <2>4. OwnData(h, "ask", n, t)
    BY <1>1, <1>2, <1>3, <2>1, <2>2, <2>3 DEF HistInv
  <2>5. "ai" \in Messages /\ "call" \in Messages /\ "ai" # "tool" /\ "call" # "tool" /\ "ai" # "call"
    BY DEF Messages
  <2>6. CASE FirstCall(n, t) /\ NoCalls(h) /\ NoTools(h)
    <3>1. n + 1 = 1 /\ t = 0
      BY <2>6 DEF FirstCall
    <3>2. CASE config.google
      <4>1. h \o ms = h
        BY <1>2, <1>4, <1>5, <2>1, <3>2, FundamentalsAnswers, ConcatEmptySeq
      <4>2. h[Len(h)] # "call"
        BY <1>5, <2>6 DEF NoCalls
      <4> QED BY <2>2, <2>3, <2>6, <3>1, <4>1, <4>2 DEF OwnData
    <3>3. CASE ~ config.google
      <4>1. ms \in {<<>>, <<"ai">>, <<"call">>}
        BY <1>2, <1>4, <2>1, <3>3, FundamentalsAnswers
      <4>2. NoTools(h \o ms)
        <5>1. CASE ms = <<>>
          BY <1>5, <2>6, <5>1, ConcatEmptySeq
        <5>2. CASE ms = <<"ai">>
          BY <1>5, <2>5, <2>6, <5>2, AppendIsConcat, Appended
        <5>3. CASE ms = <<"call">>
          BY <1>5, <2>5, <2>6, <5>3, AppendIsConcat, Appended
        <5> QED BY <4>1, <5>1, <5>2, <5>3
      <4> QED BY <2>2, <2>3, <3>1, <3>3, <4>2 DEF OwnData
    <3> QED BY <3>2, <3>3
  <2>7. CASE SecondCall(n, t) /\ OneTool(h)
    <3>1. n + 1 = 2 /\ t = 1 /\ ~ config.google
      BY <2>7 DEF SecondCall
    <3>2. HasTool(h)
      <4>1. PICK j \in DOMAIN h : {i \in DOMAIN h : h[i] = "tool"} = {j}
        BY <2>7 DEF OneTool
      <4>2. h[j] = "tool" /\ j \in 1 .. Len(h)
        BY <1>5, <4>1, LenProperties
      <4> QED BY <4>2 DEF HasTool, Contains
    <3>3. ms = <<"ai">>
      BY <1>2, <1>3, <1>4, <2>1, <3>1, <3>2, FundamentalsAnswers
    <3>4. h \o ms = Append(h, "ai")
      BY <1>5, <2>5, <3>3, AppendIsConcat
    <3>5. (h \o ms)[Len(h \o ms)] # "call"
      BY <1>5, <2>5, <3>4, Appended
    <3> QED BY <2>2, <2>3, <3>1, <3>5 DEF OwnData
  <2> QED BY <2>4, <2>6, <2>7 DEF OwnData
<1>11. pc[c] \in Working /\ hist' = [hist EXCEPT ![c] = h \o ms]
  BY <1>2, <1>3, <1>4 DEF Working
<1> QED BY <1>1, <1>2, <1>7, <1>8, <1>9, <1>10, <1>11, HistoryMoves

\* Steps that touch no history, and move no context or one that does not work.
LEMMA OtherHistory ==
    ASSUME FlowInv, HistInv, UNCHANGED <<config, pc, turn, hist, asked, tooled>>
    PROVE  HistInv'
BY DEF HistInv, OwnData, SecondCall

LEMMA BeginHistory ==
    ASSUME FlowInv, HistInv, GraphAssumption, StartGraph
    PROVE  HistInv'
<1>1. /\ stage = "new" /\ pc' = [c \in Ctxs |-> IF c \in Team THEN "prepare" ELSE "off"]
      /\ UNCHANGED <<config, turn, hist, asked, tooled>>
  BY DEF StartGraph, Team, histories
<1>2. \A c \in Ctxs : pc[c] = "off" /\ NoCalls(hist[c])
  BY <1>1 DEF FlowInv, Phased, HistInv, Acceptable
<1>3. asked["fundamentals"] = 0 /\ tooled["fundamentals"] = 0
  BY <1>1 DEF FlowInv, Once, HistInv, Analysts
<1>4. \A c \in Ctxs : pc'[c] \in {"prepare", "off"}
  BY <1>1
<1>5. \A c \in Ctxs : Acceptable(hist[c], pc'[c])
  <2>1. \A c \in Ctxs : Answered(hist[c])
    BY <1>2 DEF NoCalls, Answered
  <2> QED BY <1>2, <1>4, <2>1 DEF HistInv, Acceptable
<1>6. FirstCall(asked["fundamentals"], tooled["fundamentals"])
  BY <1>3 DEF FirstCall
<1>7. \A c \in Ctxs : OwnData(hist[c], pc'[c], asked["fundamentals"], tooled["fundamentals"])
  BY <1>2, <1>4, <1>6 DEF OwnData
<1> QED BY <1>1, <1>5, <1>7 DEF HistInv, OwnData, SecondCall

LEMMA NextHistory ==
    ASSUME FlowInv, HistInv, GraphAssumption, StartAnalyst
    PROVE  HistInv'
<1>1. /\ pc[Main] \in {"off", "end"} /\ todo # <<>>
      /\ turn' = [turn EXCEPT ![Main] = Head(todo)] /\ pc' = [pc EXCEPT ![Main] = "prepare"]
      /\ UNCHANGED <<config, hist, asked, tooled>>
  BY DEF StartAnalyst, histories
<1>2. Main \in Ctxs /\ todo \in Seq(Analysts) /\ pc \in [Ctxs -> ContextStages]
      /\ turn \in [Ctxs -> Analysts]
  BY DEF FlowInv, GraphTyped, Ctxs
<1>3. Head(todo) = todo[1] /\ 1 \in 1 .. Len(todo)
  <2>1. Len(todo) \in Nat /\ Len(todo) # 0
    BY <1>1, <1>2, EmptySeq, LenProperties
  <2> QED BY <1>1, <1>2, <2>1
<1>4. Head(todo) = "fundamentals" => asked["fundamentals"] = 0 /\ tooled["fundamentals"] = 0
  BY <1>3 DEF FlowInv, Once, HistInv
<1>5. NoCalls(hist[Main]) /\ Answered(hist[Main])
  <2>1. NoCalls(hist[Main])
    BY <1>1, <1>2 DEF HistInv, Acceptable
  <2> QED BY <2>1 DEF NoCalls, Answered
<1>6. /\ pc'[Main] = "prepare" /\ turn'[Main] = Head(todo)
      /\ \A c \in Ctxs \ {Main} : pc'[c] = pc[c] /\ turn'[c] = turn[c]
  BY <1>1, <1>2
<1>7. \A c \in Ctxs : Acceptable(hist[c], pc'[c])
  BY <1>5, <1>6 DEF HistInv, Acceptable
<1>8. ASSUME NEW c \in Ctxs, turn'[c] = "fundamentals"
      PROVE  OwnData(hist[c], pc'[c], asked["fundamentals"], tooled["fundamentals"])
  <2>1. CASE c = Main
    <3>1. FirstCall(asked["fundamentals"], tooled["fundamentals"])
      BY <1>4, <1>6, <1>8, <2>1 DEF FirstCall
    <3> QED BY <1>5, <1>6, <2>1, <3>1 DEF OwnData
  <2>2. CASE c # Main
    BY <1>6, <1>8, <2>2 DEF HistInv
  <2> QED BY <2>1, <2>2
<1>9. \A c \in Ctxs : turn'[c] = "fundamentals" =>
         OwnData(hist[c], pc[c], asked["fundamentals"], tooled["fundamentals"])'
  BY <1>1, <1>8 DEF OwnData, SecondCall
<1> QED BY <1>1, <1>7, <1>9 DEF HistInv

LEMMA TalkHistory ==
    ASSUME FlowInv, HistInv, GraphAssumption, Debate \/ Discuss \/ Decide
    PROVE  HistInv'
<1>1. /\ hist' = [hist EXCEPT ![Main] = Sanitize(hist[Main])]
      /\ UNCHANGED <<config, pc, turn, asked, tooled>>
      /\ stage \notin {"analysts", "failed"}
  BY DEF Debate, Discuss, Speak, Decide, histories, Judged
<1>2. Main \in Ctxs /\ pc[Main] \notin Working
  BY <1>1 DEF Ctxs, FlowInv, Phased
<1>3. PICK h : h = hist[Main]
  OBVIOUS
<1>4. PICK s : s = Sanitize(h)
  OBVIOUS
<1>5. h \in Seq(Messages) /\ Lasting(h) /\ Acceptable(h, pc[Main])
  BY <1>2, <1>3, HistoryOf
<1>6. s \in Seq(Messages) /\ Lasting(s) /\ (NoCalls(h) => NoCalls(s))
  BY <1>4, <1>5, Sanitized
<1>7. Acceptable(s, pc[Main])
  BY <1>2, <1>5, <1>6 DEF Acceptable, Working
<1>8. /\ hist'[Main] = s /\ \A c \in Ctxs \ {Main} : hist'[c] = hist[c]
      /\ hist' = [c \in Ctxs |-> hist'[c]]
  BY <1>1, <1>2, <1>3, <1>4 DEF HistInv
<1>9. \A c \in Ctxs : Acceptable(hist'[c], pc[c])
  BY <1>7, <1>8 DEF HistInv
<1>10. ASSUME NEW c \in Ctxs, turn[c] = "fundamentals"
       PROVE  OwnData(hist'[c], pc[c], asked["fundamentals"], tooled["fundamentals"])
  <2>1. CASE c = Main
    BY <1>2, <2>1 DEF OwnData, Working
  <2>2. CASE c # Main
    BY <1>8, <1>10, <2>2 DEF HistInv
  <2> QED BY <2>1, <2>2
<1>11. \A c \in Ctxs : turn'[c] = "fundamentals" =>
          OwnData(hist[c], pc[c], asked["fundamentals"], tooled["fundamentals"])'
  BY <1>1, <1>10 DEF OwnData, SecondCall
<1> QED BY <1>1, <1>8, <1>9, <1>11 DEF HistInv

LEMMA HistoryStart ==
    ASSUME GraphInit
    PROVE  HistInv
<1>1. /\ pc = [c \in Ctxs |-> "off"] /\ hist = [c \in Ctxs |-> <<"human">>]
      /\ asked = [a \in Analysts |-> 0] /\ tooled = [a \in Analysts |-> 0]
  BY DEF GraphInit
<1>2. PICK h : h = <<"human">>
  OBVIOUS
<1>3. h \in Seq(Messages) /\ DOMAIN h = {1} /\ h[1] = "human"
  BY <1>2 DEF Messages
<1>4. Acceptable(h, "off")
  BY <1>3 DEF Acceptable, Lasting, NoCalls
<1>5. \A c \in Ctxs : hist[c] = h /\ pc[c] = "off"
  BY <1>1, <1>2
<1>6. asked["fundamentals"] = 0 /\ tooled["fundamentals"] = 0
  BY <1>1 DEF Analysts
<1> QED BY <1>1, <1>4, <1>5, <1>6 DEF HistInv, OwnData

LEMMA HistoryStep ==
    ASSUME FlowInv, HistInv, GraphAssumption, [GraphNext]_graphVars
    PROVE  HistInv'
<1>1. CASE UNCHANGED graphVars
  BY <1>1, OtherHistory DEF graphVars, ctxVars, histories
<1>2. CASE Join \/ StartDebate \/ RaiseLate
  BY <1>2, OtherHistory DEF Join, StartDebate, RaiseLate, ctxVars, histories
<1>3. CASE GraphNext
  BY <1>2, <1>3, PrepareHistory, AskHistory, RouteHistory, ToolsHistory, ClearHistory,
     BeginHistory, NextHistory, TalkHistory DEF GraphNext, Analyse, Run
<1> QED BY <1>1, <1>3

LEMMA HistoryHolds == GraphSpec => [](FlowInv /\ HistInv)
<1>1. GraphInit => HistInv
  BY HistoryStart
<1>2. FlowInv /\ HistInv /\ [GraphNext]_graphVars => HistInv'
  BY HistoryStep, GraphAssumption
<1> QED BY <1>1, <1>2, FlowHolds, PTL DEF GraphSpec

\* Whatever the models answer, and whichever way the analysts ran: at every call
\* of a model each tool message of the history answers a call and each call is
\* answered, and the fundamentals node sees no other tool messages than its own.
THEOREM HistoriesAreSound == GraphSpec => []HistoriesSound
<1>1. FlowInv /\ HistInv => HistoriesSound
  <2>1. SUFFICES ASSUME FlowInv, HistInv PROVE HistoriesSound
    OBVIOUS
  <2>2. ASSUME NEW c \in Ctxs, pc[c] = "ask"
        PROVE  WellFormed(hist[c])
    <3>1. Paired(hist[c]) /\ Answered(hist[c])
      BY <2>1, <2>2 DEF HistInv, Acceptable
    <3> QED BY <3>1 DEF Paired, Answered, WellFormed
  <2>3. ASSUME NEW c \in Ctxs, pc[c] = "ask", turn[c] = "fundamentals"
        PROVE  ToolCount(hist[c]) = tooled["fundamentals"]
    <3>1. PICK h : h = hist[c]
      OBVIOUS
    <3>2. PICK t : t = tooled["fundamentals"]
      OBVIOUS
    <3>3. PICK T : T = {i \in DOMAIN h : h[i] = "tool"}
      OBVIOUS
    <3>4. OwnData(h, "ask", asked["fundamentals"], t)
      BY <2>1, <2>3, <3>1, <3>2 DEF HistInv
    <3>5. CASE t = 0 /\ NoTools(h)
      <4>1. T = {}
        BY <3>3, <3>5 DEF NoTools
      <4> QED BY <3>1, <3>2, <3>3, <3>5, <4>1, FS_EmptySet DEF ToolCount
    <3>6. CASE t = 1 /\ OneTool(h)
      <4>1. PICK j : T = {j}
        BY <3>3, <3>6 DEF OneTool
      <4> QED BY <3>1, <3>2, <3>3, <3>6, <4>1, FS_Singleton DEF ToolCount
    <3> QED BY <3>4, <3>5, <3>6 DEF OwnData, FirstCall, SecondCall
  <2> QED BY <2>2, <2>3 DEF HistoriesSound, HistoryWellFormed, OwnResultsOnly
<1> QED BY <1>1, HistoryHolds, PTL

\* The configured limits decide how often each agent is called: no analyst more
\* often than its limit, once at least, and fundamentals at most twice; and both
\* sides of a discussion the same number of times.
THEOREM RoundsAreBounded == GraphSpec => []RoundsBounded
<1>1. FlowInv /\ HistInv => asked["fundamentals"] <= 2
  BY DEF HistInv
<1>2. ASSUME asked["fundamentals"] <= 2,
             \A a \in Analysts \ {"fundamentals"} : asked[a] <= Max({1, config.maxCalls[a]})
      PROVE  CallsBounded
  BY <1>2 DEF CallsBounded
<1> QED BY <1>1, <1>2, HistoryHolds, CallsAreLimited, DebatesAreFair, PTL DEF RoundsBounded

-----------------------------------------------------------------------------
\* The rest of the graph's types: what the proofs above had no need of.
RestInv ==
    /\ Len(todo) <= 4
    /\ count \in [Analysts -> Nat]
    /\ last \in Debaters \cup RiskTeam \cup {""}
    /\ attempt \in 0 .. config.retries

LEMMA ConfigLimits ==
    ASSUME GraphAssumption, config \in Configs
    PROVE  Len(config.order) <= 4 /\ config.retries \in Nat
<1>1. config \in ConfigType
  BY DEF GraphAssumption
<1>2. config.order \in BoundedSeq(Analysts, 4) /\ config.retries \in Nat
  BY <1>1 DEF ConfigType
<1>3. PICK m \in 0 .. 4 : config.order \in [1 .. m -> Analysts]
  BY <1>2 DEF BoundedSeq, SeqOf
<1>4. Len(config.order) = m
  BY <1>3, IsASeq, LenProperties
<1> QED BY <1>2, <1>3, <1>4

\* The set of updates of every node keeps the counter a number.
LEMMA CountIs ==
    ASSUME NEW a \in Analysts, NEW h \in Seq(Messages), count[a] \in Nat,
           NEW u \in Updates(a, h)
    PROVE  u.count \in Nat
<1>1. CASE a # "fundamentals"
  BY <1>1, UpdateIs
<1>2. CASE a = "fundamentals"
  <2>1. PICK k \in Nat : k = ToolCount(h)
    <3>1. PICK n \in Nat : n = Len(h) /\ DOMAIN h = 1 .. n
      BY LenProperties
    <3>2. {i \in DOMAIN h : h[i] = "tool"} \subseteq 1 .. n
      BY <3>1
    <3>3. IsFiniteSet({i \in DOMAIN h : h[i] = "tool"})
      BY <3>2, FS_Interval, FS_Subset
    <3> QED BY <3>3, FS_CardinalityType DEF ToolCount
  <2>2. PICK n \in Nat : n = count[a]
    OBVIOUS
  <2>3. PICK seen : seen = Max({n, k})
    OBVIOUS
  <2>4. seen \in Nat
    <3>1. \E x \in {n, k} : \A y \in {n, k} : x >= y
      <4>1. n >= k \/ k >= n
        OBVIOUS
      <4> QED BY <4>1
    <3>2. Max({n, k}) \in {n, k}
      BY <3>1 DEF Max
    <3> QED BY <2>3, <3>2
  <2>5. u \in FundamentalsUpdates(h, n)
    BY <1>2, <2>2 DEF Updates
  <2>6. u.count \in {n, seen, 0}
    <3>1. CASE config.google
      BY <2>5, <3>1 DEF FundamentalsUpdates, Update
    <3>2. CASE ~ config.google /\ HasTool(h)
      <4>1. PICK r \in Reports : u = Update(<<"ai">>, r, Max({n, ToolCount(h)}))
        BY <2>5, <3>2, Zenon DEF FundamentalsUpdates
      <4>2. u.count = Max({n, ToolCount(h)})
        BY <4>1 DEF Update
      <4> QED BY <2>1, <2>3, <4>2
    <3>3. CASE ~ config.google /\ ~ HasTool(h)
      BY <2>1, <2>3, <2>5, <3>3 DEF FundamentalsUpdates, Update
    <3> QED BY <3>1, <3>2, <3>3
  <2> QED BY <2>4, <2>6
<1> QED BY <1>1, <1>2

\* A step that calls no node, ends no speech and takes no analyst.
LEMMA RestKept ==
    ASSUME RestInv, UNCHANGED <<config, count>>, todo' = todo \/ Len(todo') <= 4,
           last' = last \/ last' \in Debaters \cup RiskTeam \cup {""},
           attempt' = attempt \/ attempt' \in 0 .. config.retries
    PROVE  RestInv'
BY DEF RestInv

LEMMA RestStep ==
    ASSUME RestInv, FlowInv, HistInv, TalkInv, GraphAssumption, [GraphNext]_graphVars
    PROVE  RestInv'
<1>1. CASE UNCHANGED graphVars
  BY <1>1, RestKept DEF graphVars, runVars, ctxVars, talkVars
<1>2. ASSUME NEW c \in Ctxs, Prepare(c) \/ Route(c) \/ RunTools(c) \/ ClearMessages(c) \/ Raise(c)
      PROVE  RestInv'
  <2>1. UNCHANGED <<config, count, todo, last, attempt>>
    BY <1>2 DEF Prepare, Route, RunTools, ClearMessages, Raise, Move, runVars, talkVars
  <2> QED BY <2>1, RestKept
<1>3. ASSUME NEW c \in Ctxs, Ask(c)
      PROVE  RestInv'
  <2>1. PICK a \in Analysts : a = turn[c]
    BY DEF FlowInv, GraphTyped
  <2>2. PICK u \in Updates(a, hist[c]) : count' = [count EXCEPT ![a] = u.count]
    BY <1>3, <2>1 DEF Ask
  <2>3. UNCHANGED <<config, todo, last, attempt>>
    BY <1>3 DEF Ask, Move, runVars, talkVars
  <2>4. hist[c] \in Seq(Messages) /\ count \in [Analysts -> Nat]
    BY HistoryOf DEF RestInv
  <2>5. u.count \in Nat
    BY <2>2, <2>4, CountIs
  <2>6. count' \in [Analysts -> Nat]
    BY <2>2, <2>4, <2>5
  <2> QED BY <2>3, <2>6 DEF RestInv
<1>4. CASE StartGraph
  <2>1. /\ UNCHANGED <<config, count, last, attempt>>
        /\ todo' = IF FansOut(config)
                   THEN SubSeq(config.order, config.workers + 1, Len(config.order))
                   ELSE config.order
    BY <1>4 DEF StartGraph, talkVars
  <2>2. PICK o : o = config.order
    OBVIOUS
  <2>3. PICK n \in Nat : n = Len(o) /\ n <= 4
    BY <2>2, ConfigIs, ConfigLimits DEF FlowInv, GraphTyped
  <2>4. PICK w \in Nat \ {0} : w = config.workers
    BY ConfigIs DEF FlowInv, GraphTyped
  <2>5. Len(SubSeq(o, w + 1, n)) <= 4
    <3>1. \A i \in 1 .. n : o[i] \in Analysts
      BY <2>2, <2>3, ConfigIs, ElementOfSeq DEF FlowInv, GraphTyped
    <3>2. w + 1 \in Int /\ n \in Int /\ \A i \in w + 1 .. n : o[i] \in Analysts
      BY <3>1
    <3>3. Len(SubSeq(o, w + 1, n)) = IF w + 1 <= n THEN n - (w + 1) + 1 ELSE 0
      BY <3>2, SubSeqProperties
    <3> QED BY <2>3, <3>3
  <2>6. Len(todo') <= 4
    BY <2>1, <2>2, <2>3, <2>4, <2>5
  <2> QED BY <2>1, <2>6, RestKept
<1>5. CASE Join \/ StartDebate \/ RaiseLate
  BY <1>5, RestKept DEF Join, StartDebate, RaiseLate, ctxVars, talkVars
<1>6. CASE StartAnalyst
  <2>1. todo # <<>> /\ todo' = Tail(todo) /\ UNCHANGED <<config, count, last, attempt>>
    BY <1>6 DEF StartAnalyst, talkVars
  <2>2. PICK t \in Seq(Analysts) : t = todo
    BY DEF FlowInv, GraphTyped
  <2>3. Len(t) \in Nat /\ Len(Tail(t)) = Len(t) - 1
    BY <2>1, <2>2, HeadTailProperties, LenProperties
  <2>4. Len(t) <= 4
    BY <2>2 DEF RestInv
  <2>5. Len(todo') <= 4
    BY <2>1, <2>2, <2>3, <2>4
  <2> QED BY <2>1, <2>5, RestKept
<1>7. CASE Debate \/ Discuss
  <2>1. NextDebater \in Debaters /\ NextInRisk \in RiskTeam
    BY DEF NextDebater, NextInRisk, Debaters, RiskTeam
  <2>2. /\ UNCHANGED <<config, count, todo, attempt>>
        /\ last' \in Debaters \cup RiskTeam \cup {""}
    BY <1>7, <2>1 DEF Debate, Discuss, Speak
  <2> QED BY <2>2, RestKept
<1>8. CASE Decide
  <2>1. /\ UNCHANGED <<config, count, todo, last>>
        /\ attempt' = 0 \/ (attempt < config.retries /\ attempt' = attempt + 1)
    BY <1>8 DEF Decide, MayRetry
  <2>2. config.retries \in Nat /\ attempt \in 0 .. config.retries
    BY ConfigLimits DEF FlowInv, GraphTyped, RestInv
  <2>3. attempt' \in 0 .. config.retries
    BY <2>1, <2>2
  <2> QED BY <2>1, <2>3, RestKept
<1> QED BY <1>1, <1>2, <1>3, <1>4, <1>5, <1>6, <1>7, <1>8 DEF GraphNext, Analyse, Run

LEMMA RestStart ==
    ASSUME GraphAssumption, GraphInit
    PROVE  RestInv
<1>1. config \in Configs /\ todo = <<>> /\ count = [a \in Analysts |-> 0] /\ last = "" /\ attempt = 0
  BY DEF GraphInit
<1>2. 0 \in 0 .. config.retries
  <2>1. PICK n \in Nat : n = config.retries
    BY <1>1, ConfigLimits
  <2> QED BY <2>1
<1>3. Len(todo) = 0 /\ count \in [Analysts -> Nat]
  BY <1>1
<1>4. Len(todo) <= 4
  BY <1>3
<1>5. attempt \in 0 .. config.retries /\ last \in Debaters \cup RiskTeam \cup {""}
  BY <1>1, <1>2
<1> QED BY <1>3, <1>4, <1>5 DEF RestInv

LEMMA GraphTypeFollows ==
    ASSUME FlowInv, HistInv, TalkInv, RestInv
    PROVE  GraphTypeOK
<1>1. /\ config \in Configs /\ stage \in Stages /\ turn \in [Ctxs -> Analysts]
      /\ pc \in [Ctxs -> {"off", "prepare", "ask", "route", "tools", "clear", "end", "raised"}]
      /\ reports \in [Ctxs -> [Analysts -> Reports]] /\ produced \in [Analysts -> Reports]
      /\ asked \in [Analysts -> Nat]
  BY DEF FlowInv, GraphTyped, ContextStages
<1>2. todo \in BoundedSeq(Analysts, 4)
  <2>1. todo \in Seq(Analysts) /\ Len(todo) <= 4
    BY DEF FlowInv, GraphTyped, RestInv
  <2>2. PICK n \in Nat : n = Len(todo) /\ n <= 4
    BY <2>1, LenProperties
  <2>3. DOMAIN todo = 1 .. n /\ todo = [i \in 1 .. n |-> todo[i]]
    BY <2>1, <2>2, LenProperties
  <2>4. \A i \in 1 .. n : todo[i] \in Analysts
    BY <2>1, <2>2, ElementOfSeq
  <2>5. n \in 0 .. 4
    BY <2>2
  <2>6. todo \in [1 .. n -> Analysts]
    BY <2>3, <2>4, Zenon
  <2> QED BY <2>5, <2>6 DEF BoundedSeq, SeqOf
<1>3. ASSUME NEW c \in Ctxs
      PROVE  Range(hist[c]) \subseteq Messages
  <2>1. hist[c] \in Seq(Messages)
    BY HistoryOf
  <2>2. \A i \in DOMAIN hist[c] : hist[c][i] \in Messages
    BY <2>1, LenProperties, ElementOfSeq
  <2> QED BY <2>2 DEF Range
<1> QED BY <1>1, <1>2, <1>3 DEF GraphTypeOK, RestInv, TalkInv, HistInv

LEMMA GraphHolds ==
    GraphInit /\ [][GraphNext]_graphVars => [](FlowInv /\ HistInv /\ TalkInv /\ RestInv)
<1>1. GraphInit => FlowInv /\ HistInv /\ TalkInv /\ RestInv
  BY FlowStart, HistoryStart, TalkStart, RestStart, GraphAssumption
<1>2. FlowInv /\ HistInv /\ TalkInv /\ RestInv /\ [GraphNext]_graphVars
        => FlowInv' /\ HistInv' /\ TalkInv' /\ RestInv'
  BY FlowStep, HistoryStep, TalkStep, RestStep, GraphAssumption
<1> QED BY <1>1, <1>2, PTL

\* Every variable of a run stays in its domain: at most four analysts wait, the
\* tool call counters are numbers whatever the nodes return, and a judged node
\* has no more retries than configured (run, conditional_logic.py).
THEOREM GraphTypeCorrect == GraphSpec => []GraphTypeOK
<1>1. FlowInv /\ HistInv /\ TalkInv /\ RestInv => GraphTypeOK
  BY GraphTypeFollows
<1> QED BY <1>1, GraphHolds, PTL DEF GraphSpec

-----------------------------------------------------------------------------
\* A run ends: a bound on the steps it has left, which every step lowers, and
\* somebody to take the next one.

\* What the calls and the speeches are limited to.
CallsLeft(a) == (IF a = "fundamentals" THEN 2 ELSE Allowed(a)) - asked[a]
CallsToCome == CallsLeft("market") + CallsLeft("social") + CallsLeft("news")
                 + CallsLeft("fundamentals")
SpeechesToCome ==
    (IF config.rounds = 0 THEN 1 ELSE 2 * config.rounds) - DebateTurns
      + (IF config.riskRounds = 0 THEN 1 ELSE 3 * config.riskRounds) - RiskTurns

\* The steps a context takes for a call, after it has asked and before.
Ahead(p) == CASE p = "route" -> 4 [] p = "tools" -> 3 [] p = "prepare" -> 2
              [] p \in {"ask", "clear"} -> 1 [] OTHER -> 0
ContextSteps == Ahead(pc["market"]) + Ahead(pc["social"]) + Ahead(pc["news"])
                  + Ahead(pc["fundamentals"]) + Ahead(pc[Main])

\* The stages to come (that of "new" stands for the threads and the list of
\* analysts that begin with it), and the judged nodes among them.
StagesToCome == [s \in Stages |->
    CASE s = "new" -> 40 [] s = "fanout" -> 7 [] s = "analysts" -> 6 [] s = "debate" -> 5
      [] s = "Research Manager" -> 4 [] s = "Trader" -> 3 [] s = "risk" -> 2
      [] s = "Risk Judge" -> 1 [] OTHER -> 0]
JudgedToCome == [s \in Stages |->
    CASE s \in Early \cup {"debate", "Research Manager"} -> 3 [] s = "Trader" -> 2
      [] s \in {"risk", "Risk Judge"} -> 1 [] OTHER -> 0]
TriesToCome == (config.retries + 1) * JudgedToCome[stage] + config.retries - attempt

StepsLeft == 4 * CallsToCome + ContextSteps + 3 * Len(todo) + SpeechesToCome
               + StagesToCome[stage] + TriesToCome

\* Whoever is to go on: a context at work, or run() itself at a guard that holds.
RunGoesOn ==
    stage \notin {"new", "done", "failed"} =>
        \/ \E c \in Ctxs : pc[c] \in Working
        \/ stage = "fanout" /\ AllEnded
        \/ stage = "analysts" /\ pc[Main] \in {"off", "end"}
        \/ stage \in {"debate", "risk"} \cup Judged

LEMMA AheadIs ==
    ASSUME NEW p
    PROVE  Ahead(p) \in 0 .. 4
BY DEF Ahead

LEMMA JudgedRanks ==
    /\ \A s \in Stages : JudgedToCome[s] \in 0 .. 3
    /\ JudgedToCome["new"] = 3 /\ JudgedToCome["fanout"] = 3 /\ JudgedToCome["analysts"] = 3
    /\ JudgedToCome["debate"] = 3 /\ JudgedToCome["Research Manager"] = 3
    /\ JudgedToCome["Trader"] = 2 /\ JudgedToCome["risk"] = 1
    /\ JudgedToCome["Risk Judge"] = 1
    /\ JudgedToCome["done"] = 0 /\ JudgedToCome["failed"] = 0
BY DEF JudgedToCome, Early, Stages, Judged

LEMMA StageRanks ==
    /\ \A s \in Stages : StagesToCome[s] \in Nat
    /\ \A s \in Stages \ {"done", "failed"} : StagesToCome[s] > 0
    /\ StagesToCome["new"] = 40 /\ StagesToCome["fanout"] = 7 /\ StagesToCome["analysts"] = 6
    /\ StagesToCome["debate"] = 5 /\ StagesToCome["Research Manager"] = 4
    /\ StagesToCome["Trader"] = 3 /\ StagesToCome["risk"] = 2
    /\ StagesToCome["Risk Judge"] = 1
    /\ StagesToCome["done"] = 0 /\ StagesToCome["failed"] = 0
<1>1. /\ StagesToCome["new"] = 40 /\ StagesToCome["fanout"] = 7
      /\ StagesToCome["analysts"] = 6 /\ StagesToCome["debate"] = 5
  BY DEF StagesToCome, Stages, Judged
<1>2. /\ StagesToCome["Research Manager"] = 4 /\ StagesToCome["Trader"] = 3
      /\ StagesToCome["risk"] = 2 /\ StagesToCome["Risk Judge"] = 1
  BY DEF StagesToCome, Stages, Judged
<1>3. StagesToCome["done"] = 0 /\ StagesToCome["failed"] = 0
  BY DEF StagesToCome, Stages, Judged
<1>4. \A s \in Stages : s \in {"new", "fanout", "analysts", "debate", "Research Manager", "Trader",
                               "risk", "Risk Judge", "done", "failed"}
  BY DEF Stages, Judged
<1>5. \A s \in Stages : StagesToCome[s] \in Nat
  BY DEF StagesToCome
<1>6. \A s \in Stages \ {"done", "failed"} : StagesToCome[s] > 0
  <2>1. 40 > 0 /\ 7 > 0 /\ 6 > 0 /\ 5 > 0 /\ 4 > 0 /\ 3 > 0 /\ 2 > 0 /\ 1 > 0
    OBVIOUS
  <2>2. SUFFICES ASSUME NEW s \in Stages, s # "done", s # "failed"
                 PROVE  StagesToCome[s] > 0
    OBVIOUS
  <2>3. \/ s = "new" \/ s = "fanout" \/ s = "analysts" \/ s = "debate"
        \/ s = "Research Manager" \/ s = "Trader" \/ s = "risk" \/ s = "Risk Judge"
    BY <1>4, <2>2
  <2> QED BY <1>1, <1>2, <2>1, <2>3, Zenon
<1> QED BY <1>1, <1>2, <1>3, <1>5, <1>6

\* One context moves.
LEMMA ContextCost ==
    ASSUME GraphAssumption, pc \in [Ctxs -> ContextStages], NEW c \in Ctxs, NEW to,
           pc' = [pc EXCEPT ![c] = to]
    PROVE  ContextSteps' = ContextSteps - Ahead(pc[c]) + Ahead(to)
<1>1. Main \notin {"market", "social", "news", "fundamentals"}
  BY DEF GraphAssumption, Analysts
<1>2. \A d \in Ctxs : pc'[d] = IF d = c THEN to ELSE pc[d]
  OBVIOUS
<1>3. Ctxs = {"market", "social", "news", "fundamentals", Main}
  BY DEF Ctxs, Analysts
<1>4. \A p : Ahead(p) \in 0 .. 4
  BY AheadIs
<1>5. CASE c = "market"
  <2>1. /\ pc'["market"] = to /\ pc'["social"] = pc["social"] /\ pc'["news"] = pc["news"]
        /\ pc'["fundamentals"] = pc["fundamentals"] /\ pc'[Main] = pc[Main]
    BY <1>1, <1>2, <1>3, <1>5
  <2> QED BY <1>4, <1>5, <2>1 DEF ContextSteps
<1>6. CASE c = "social"
  <2>1. /\ pc'["market"] = pc["market"] /\ pc'["social"] = to /\ pc'["news"] = pc["news"]
        /\ pc'["fundamentals"] = pc["fundamentals"] /\ pc'[Main] = pc[Main]
    BY <1>1, <1>2, <1>3, <1>6
  <2> QED BY <1>4, <1>6, <2>1 DEF ContextSteps
<1>7. CASE c = "news"
  <2>1. /\ pc'["market"] = pc["market"] /\ pc'["social"] = pc["social"] /\ pc'["news"] = to
        /\ pc'["fundamentals"] = pc["fundamentals"] /\ pc'[Main] = pc[Main]
    BY <1>1, <1>2, <1>3, <1>7
  <2> QED BY <1>4, <1>7, <2>1 DEF ContextSteps
<1>8. CASE c = "fundamentals"
  <2>1. /\ pc'["market"] = pc["market"] /\ pc'["social"] = pc["social"]
        /\ pc'["news"] = pc["news"] /\ pc'["fundamentals"] = to /\ pc'[Main] = pc[Main]
    BY <1>1, <1>2, <1>3, <1>8
  <2> QED BY <1>4, <1>8, <2>1 DEF ContextSteps
<1>9. CASE c = Main
  <2>1. /\ pc'["market"] = pc["market"] /\ pc'["social"] = pc["social"]
        /\ pc'["news"] = pc["news"] /\ pc'["fundamentals"] = pc["fundamentals"]
        /\ pc'[Main] = to
    BY <1>1, <1>2, <1>3, <1>9
  <2> QED BY <1>4, <1>9, <2>1 DEF ContextSteps
<1> QED BY <1>3, <1>5, <1>6, <1>7, <1>8, <1>9

\* One analyst is called.
LEMMA CallCost ==
    ASSUME GraphAssumption, config \in Configs, asked \in [Analysts -> Nat], UNCHANGED config,
           NEW a \in Analysts, asked' = [asked EXCEPT ![a] = @ + 1]
    PROVE  CallsToCome' = CallsToCome - 1
<1>1. \A b \in Analysts : asked'[b] = IF b = a THEN asked[b] + 1 ELSE asked[b]
  OBVIOUS
<1>2. \A b \in Analysts : Allowed(b) \in Int /\ Allowed(b)' = Allowed(b) /\ asked[b] \in Int
  <2>1. config.maxCalls \in [Analysts -> Nat]
    BY ConfigIs
  <2> QED BY <2>1 DEF Allowed
<1>3. \A b \in Analysts : CallsLeft(b) \in Int
  BY <1>2 DEF CallsLeft
<1>4. \A b \in Analysts : CallsLeft(b)' = IF b = a THEN CallsLeft(b) - 1 ELSE CallsLeft(b)
  BY <1>1, <1>2 DEF CallsLeft
<1>5. Analysts = {"market", "social", "news", "fundamentals"}
  BY DEF Analysts
<1> HIDE DEF CallsLeft
<1>6. CASE a = "market"
  BY <1>3, <1>4, <1>5, <1>6 DEF CallsToCome
<1>7. CASE a = "social"
  BY <1>3, <1>4, <1>5, <1>7 DEF CallsToCome
<1>8. CASE a = "news"
  BY <1>3, <1>4, <1>5, <1>8 DEF CallsToCome
<1>9. CASE a = "fundamentals"
  BY <1>3, <1>4, <1>5, <1>9 DEF CallsToCome
<1> QED BY <1>5, <1>6, <1>7, <1>8, <1>9

\* The parts of the sum.
LEMMA PartsCounted ==
    ASSUME GraphAssumption, FlowInv, TalkInv, RestInv
    PROVE  /\ CallsToCome \in Int /\ SpeechesToCome \in Int
           /\ ContextSteps \in Nat /\ Len(todo) \in Nat
           /\ StagesToCome[stage] \in Nat
           /\ TriesToCome \in Nat
<1>1. config \in Configs /\ stage \in Stages /\ asked \in [Analysts -> Nat] /\ spoken \in [Debaters \cup RiskTeam -> Nat]
  BY DEF FlowInv, GraphTyped, TalkInv
<1>2. CallsToCome \in Int
  <2>1. \A b \in Analysts : Allowed(b) \in Int /\ asked[b] \in Int
    <3>1. config.maxCalls \in [Analysts -> Nat]
      BY <1>1, ConfigIs
    <3> QED BY <1>1, <3>1 DEF Allowed
  <2>2. \A b \in Analysts : CallsLeft(b) \in Int
    BY <2>1 DEF CallsLeft
  <2> QED BY <2>2 DEF CallsToCome, Analysts
<1>3. SpeechesToCome \in Int
  <2>1. config.rounds \in Nat /\ config.riskRounds \in Nat
    BY <1>1, ConfigIs
  <2>2. DebateTurns \in Nat /\ RiskTurns \in Nat
    BY <1>1 DEF DebateTurns, RiskTurns, Debaters, RiskTeam
  <2> QED BY <2>1, <2>2 DEF SpeechesToCome
<1>4. ContextSteps \in Nat
  <2>1. \A p : Ahead(p) \in 0 .. 4
    BY AheadIs
  <2> QED BY <2>1 DEF ContextSteps
<1>5. Len(todo) \in Nat
  BY LenProperties DEF FlowInv, GraphTyped
<1>6. StagesToCome[stage] \in Nat
  BY <1>1, StageRanks
<1>7. TriesToCome \in Nat
  <2>1. config.retries \in Nat /\ attempt \in 0 .. config.retries
    BY <1>1, ConfigLimits DEF RestInv
  <2>2. PICK k \in 0 .. 3 : k = JudgedToCome[stage]
    BY <1>1, JudgedRanks
  <2>3. k \in Nat
    OBVIOUS
  <2>4. PICK r \in Nat : r = config.retries
    BY <2>1
  <2>5. PICK used \in 0 .. r : used = attempt
    BY <2>1, <2>4
  <2>6. TriesToCome = (r + 1) * k + r - used
    BY <2>2, <2>4, <2>5 DEF TriesToCome
  <2>7. (r + 1) * k \in Nat
    BY <2>3
  <2> QED BY <2>6, <2>7
<1> QED BY <1>2, <1>3, <1>4, <1>5, <1>6, <1>7

\* What a step leaves alone keeps its part of the sum.
LEMMA PartsStay ==
    /\ UNCHANGED <<config, asked>> => CallsToCome' = CallsToCome
    /\ UNCHANGED <<config, spoken>> => SpeechesToCome' = SpeechesToCome
    /\ UNCHANGED pc => ContextSteps' = ContextSteps
    /\ UNCHANGED <<config, stage, attempt>> => TriesToCome' = TriesToCome
BY DEF CallsToCome, CallsLeft, Allowed, SpeechesToCome, DebateTurns, RiskTurns, ContextSteps,
       TriesToCome

\* A run that fails has no more stages to come.
LEMMA FailureCosts ==
    ASSUME GraphAssumption, config \in Configs, attempt \in 0 .. config.retries,
           stage \in Stages, UNCHANGED <<config, attempt>>, stage' = "failed"
    PROVE  StagesToCome[stage'] = 0 /\ TriesToCome' <= TriesToCome
<1>1. PICK r \in Nat : r = config.retries
  BY ConfigLimits
<1>2. PICK k \in 0 .. 3 : k = JudgedToCome[stage]
  BY JudgedRanks
<1>3. StagesToCome[stage'] = 0 /\ JudgedToCome[stage'] = 0
  BY StageRanks, JudgedRanks
<1>4. TriesToCome = (r + 1) * k + r - attempt
  BY <1>1, <1>2 DEF TriesToCome
<1>5. TriesToCome' = (r + 1) * 0 + r - attempt
  BY <1>1, <1>3 DEF TriesToCome
<1>6. (r + 1) * k \in Nat /\ (r + 1) * 0 = 0 /\ attempt \in Int
  BY <1>1
<1> QED BY <1>3, <1>4, <1>5, <1>6

\* The sum falls when its parts together do.
Change(calls, steps, list, talks, stages, tries) ==
    4 * calls + steps + 3 * list + talks + stages + tries

Shift(calls, steps, list, talks, stages, tries) ==
    /\ CallsToCome' = CallsToCome + calls /\ ContextSteps' = ContextSteps + steps
    /\ Len(todo') = Len(todo) + list /\ SpeechesToCome' = SpeechesToCome + talks
    /\ StagesToCome[stage'] = StagesToCome[stage] + stages
    /\ TriesToCome' = TriesToCome + tries

LEMMA SumFalls ==
    ASSUME GraphAssumption, FlowInv, TalkInv, RestInv,
           NEW calls \in Int, NEW steps \in Int, NEW list \in Int, NEW talks \in Int,
           NEW stages \in Int, NEW tries \in Int,
           Shift(calls, steps, list, talks, stages, tries),
           Change(calls, steps, list, talks, stages, tries) < 0
    PROVE  StepsLeft' < StepsLeft
<1>1. /\ CallsToCome \in Int /\ SpeechesToCome \in Int /\ ContextSteps \in Int
      /\ Len(todo) \in Int /\ StagesToCome[stage] \in Int /\ TriesToCome \in Int
  BY PartsCounted
<1>2. StepsLeft = 4 * CallsToCome + ContextSteps + 3 * Len(todo) + SpeechesToCome
                    + StagesToCome[stage] + TriesToCome
  BY DEF StepsLeft
<1>3. StepsLeft' = 4 * (CallsToCome + calls) + (ContextSteps + steps) + 3 * (Len(todo) + list)
                     + (SpeechesToCome + talks) + (StagesToCome[stage] + stages)
                     + (TriesToCome + tries)
  BY DEF StepsLeft, Shift
<1> QED BY <1>1, <1>2, <1>3 DEF Change

\* The stages and the tries left of a run that fails.
LEMMA FailureFalls ==
    ASSUME GraphAssumption, FlowInv, TalkInv, RestInv, UNCHANGED <<config, attempt>>,
           stage' = stage \/ stage' = "failed"
    PROVE  /\ \E stages \in Int : stages <= 0 /\ StagesToCome[stage'] = StagesToCome[stage] + stages
           /\ \E tries \in Int : tries <= 0 /\ TriesToCome' = TriesToCome + tries
<1>1. config \in Configs /\ attempt \in 0 .. config.retries /\ stage \in Stages
  BY DEF FlowInv, GraphTyped, RestInv
<1>2. StagesToCome[stage] \in Nat /\ TriesToCome \in Nat
  BY PartsCounted
<1>3. CASE stage' = stage
  <2>1. StagesToCome[stage'] = StagesToCome[stage] + 0 /\ TriesToCome' = TriesToCome + 0
    BY <1>2, <1>3, PartsStay
  <2> QED BY <2>1
<1>4. CASE stage' = "failed"
  <2>1. StagesToCome[stage'] = 0 /\ TriesToCome' <= TriesToCome
    BY <1>1, <1>4, FailureCosts
  <2>2. TriesToCome' \in Int
    <3>1. JudgedToCome[stage'] = 0 /\ config.retries \in Nat
      BY <1>1, <1>4, ConfigLimits, JudgedRanks
    <3> QED BY <1>1, <3>1 DEF TriesToCome
  <2>3. PICK stages \in Nat : stages = StagesToCome[stage]
    BY <1>2
  <2>4. StagesToCome[stage'] = StagesToCome[stage] + (-stages) /\ -stages \in Int /\ -stages <= 0
    BY <2>1, <2>3
  <2>5. PICK before \in Int : before = TriesToCome
    BY <1>2
  <2>6. PICK after \in Int : after = TriesToCome'
    BY <2>2
  <2>7. PICK tries \in Int : tries = after - before
    OBVIOUS
  <2>8. after <= before
    BY <2>1, <2>5, <2>6
  <2>9. tries <= 0 /\ after = before + tries
    BY <2>7, <2>8
  <2>10. TriesToCome' = TriesToCome + tries
    BY <2>5, <2>6, <2>9
  <2> QED BY <2>4, <2>9, <2>10
<1> QED BY <1>3, <1>4

LEMMA ContextFalls ==
    ASSUME GraphAssumption, FlowInv, TalkInv, RestInv, NEW c \in Ctxs, NEW to,
           pc' = [pc EXCEPT ![c] = to], Ahead(to) < Ahead(pc[c]),
           UNCHANGED <<config, todo, asked, spoken, attempt>>,
           stage' = stage \/ stage' = "failed"
    PROVE  StepsLeft' < StepsLeft
<1>1. config \in Configs /\ pc \in [Ctxs -> ContextStages] /\ attempt \in 0 .. config.retries
  BY DEF FlowInv, GraphTyped, RestInv
<1>2. ContextSteps' = ContextSteps - Ahead(pc[c]) + Ahead(to)
  BY <1>1, ContextCost
<1>3. PICK steps \in Int : steps = Ahead(to) - Ahead(pc[c])
  BY AheadIs
<1>4. steps < 0 /\ ContextSteps' = ContextSteps + steps
  <2>1. PICK from \in Int : from = Ahead(pc[c])
    BY AheadIs
  <2>2. PICK now \in Int : now = Ahead(to)
    BY AheadIs
  <2>3. steps = now - from /\ now < from /\ ContextSteps' = ContextSteps - from + now
    BY <1>2, <1>3, <2>1, <2>2
  <2>4. ContextSteps \in Int
    BY PartsCounted
  <2> QED BY <2>3, <2>4
<1>5. PICK stages \in Int : stages <= 0 /\ StagesToCome[stage'] = StagesToCome[stage] + stages
  BY FailureFalls
<1>6. PICK tries \in Int : tries <= 0 /\ TriesToCome' = TriesToCome + tries
  BY FailureFalls
<1>7. /\ CallsToCome' = CallsToCome + 0 /\ SpeechesToCome' = SpeechesToCome + 0
      /\ Len(todo') = Len(todo) + 0
  BY PartsStay, PartsCounted
<1>8. Change(0, steps, 0, 0, stages, tries) < 0
  BY <1>4, <1>5, <1>6 DEF Change
<1>9. /\ ContextSteps' = ContextSteps + steps
      /\ StagesToCome[stage'] = StagesToCome[stage] + stages
      /\ TriesToCome' = TriesToCome + tries
  BY <1>4, <1>5, <1>6
<1>10. Shift(0, steps, 0, 0, stages, tries)
  BY <1>7, <1>9 DEF Shift
<1> QED BY <1>8, <1>10, SumFalls

LEMMA AnalystFalls ==
    ASSUME GraphAssumption, FlowInv, TalkInv, RestInv, NEW c \in Ctxs, Analyse(c) \/ Raise(c)
    PROVE  StepsLeft' < StepsLeft
<1>1. /\ config \in Configs /\ pc \in [Ctxs -> ContextStages] /\ asked \in [Analysts -> Nat]
      /\ turn[c] \in Analysts
  BY DEF FlowInv, GraphTyped
<1>2. /\ Ahead("route") = 4 /\ Ahead("tools") = 3 /\ Ahead("prepare") = 2 /\ Ahead("ask") = 1
      /\ Ahead("clear") = 1 /\ Ahead("end") = 0 /\ Ahead("raised") = 0
  BY DEF Ahead
<1>3. CASE Prepare(c)
  <2>1. /\ pc[c] = "prepare" /\ pc' = [pc EXCEPT ![c] = "ask"]
        /\ UNCHANGED <<config, stage, todo, asked, spoken, attempt>>
    BY <1>3 DEF Prepare, Move, runVars, histories, talkVars
  <2>2. Ahead("ask") < Ahead(pc[c])
    BY <1>2, <2>1
  <2> QED BY <2>1, <2>2, ContextFalls
<1>4. CASE Ask(c)
  <2>1. /\ pc[c] = "ask" /\ pc' = [pc EXCEPT ![c] = "route"]
        /\ asked' = [asked EXCEPT ![turn[c]] = @ + 1]
        /\ UNCHANGED <<config, stage, todo, spoken, attempt>>
    BY <1>4 DEF Ask, Move, runVars, talkVars
  <2>2. ContextSteps' = ContextSteps + 3
    <3>1. ContextSteps' = ContextSteps - Ahead(pc[c]) + Ahead("route")
      BY <1>1, <2>1, ContextCost
    <3> QED BY <1>2, <2>1, <3>1, PartsCounted
  <2>3. CallsToCome' = CallsToCome - 1
    BY <1>1, <2>1, CallCost
  <2>4. /\ SpeechesToCome' = SpeechesToCome + 0 /\ TriesToCome' = TriesToCome + 0
        /\ Len(todo') = Len(todo) + 0 /\ StagesToCome[stage'] = StagesToCome[stage] + 0
    BY <2>1, PartsStay, PartsCounted
  <2>5. CallsToCome' = CallsToCome + (-1)
    BY <2>3, PartsCounted
  <2>6. Change(-1, 3, 0, 0, 0, 0) < 0 /\ -1 \in Int
    BY DEF Change
  <2>7. Shift(-1, 3, 0, 0, 0, 0)
    BY <2>2, <2>4, <2>5 DEF Shift
  <2> QED BY <2>6, <2>7, SumFalls
<1>5. CASE Route(c)
  <2>1. PICK to \in {"tools", "clear"} : pc' = [pc EXCEPT ![c] = to]
    BY <1>5 DEF Route, Move
  <2>2. pc[c] = "route" /\ UNCHANGED <<config, stage, todo, asked, spoken, attempt>>
    BY <1>5 DEF Route, Move, runVars, histories, talkVars
  <2>3. Ahead(to) < Ahead(pc[c])
    BY <1>2, <2>1, <2>2
  <2> QED BY <2>1, <2>2, <2>3, ContextFalls
<1>6. CASE RunTools(c)
  <2>1. /\ pc[c] = "tools" /\ pc' = [pc EXCEPT ![c] = "prepare"]
        /\ UNCHANGED <<config, stage, todo, asked, spoken, attempt>>
    BY <1>6 DEF RunTools, Move, runVars, talkVars
  <2>2. Ahead("prepare") < Ahead(pc[c])
    BY <1>2, <2>1
  <2> QED BY <2>1, <2>2, ContextFalls
<1>7. CASE ClearMessages(c)
  <2>1. /\ pc[c] = "clear" /\ pc' = [pc EXCEPT ![c] = "end"]
        /\ UNCHANGED <<config, stage, todo, asked, spoken, attempt>>
    BY <1>7 DEF ClearMessages, Move, runVars, histories, talkVars
  <2>2. Ahead("end") < Ahead(pc[c])
    BY <1>2, <2>1
  <2> QED BY <2>1, <2>2, ContextFalls
<1>8. CASE Raise(c)
  <2>1. PICK from \in {"prepare", "ask", "tools"} : Move(c, from, "raised")
    BY <1>8 DEF Raise
  <2>2. Ahead("raised") < Ahead(pc[c])
    BY <1>2, <2>1 DEF Move
  <2>3. stage' = stage \/ stage' = "failed"
    BY <1>8 DEF Raise
  <2>4. pc' = [pc EXCEPT ![c] = "raised"] /\ UNCHANGED <<config, todo, asked, spoken, attempt>>
    BY <1>8, <2>1 DEF Raise, Move, histories, talkVars
  <2> QED BY <2>2, <2>3, <2>4, ContextFalls
<1> QED BY <1>3, <1>4, <1>5, <1>6, <1>7, <1>8 DEF Analyse

\* run() between two stages that judge nothing.
LEMMA StageFalls ==
    ASSUME GraphAssumption, FlowInv, TalkInv, RestInv,
           UNCHANGED <<config, todo, pc, asked, spoken, attempt>>,
           \/ stage = "fanout" /\ stage' = "analysts"
           \/ stage = "analysts" /\ stage' = "debate"
           \/ stage # "done" /\ stage # "failed" /\ stage' = "failed"
    PROVE  StepsLeft' < StepsLeft
<1>1. config \in Configs /\ attempt \in 0 .. config.retries /\ stage \in Stages
  BY DEF FlowInv, GraphTyped, RestInv
<1>2. /\ CallsToCome' = CallsToCome + 0 /\ SpeechesToCome' = SpeechesToCome + 0
      /\ Len(todo') = Len(todo) + 0 /\ ContextSteps' = ContextSteps + 0
  BY PartsStay, PartsCounted
<1>3. CASE stage' = "failed"
  <2>1. PICK tries \in Int : tries <= 0 /\ TriesToCome' = TriesToCome + tries
    BY <1>3, FailureFalls
  <2>2. PICK now \in Nat : now = StagesToCome[stage]
    BY PartsCounted
  <2>3. now > 0 /\ StagesToCome[stage'] = 0
    <3>1. stage \in Stages \ {"done", "failed"}
      BY <1>1, <1>3
    <3>2. StagesToCome[stage] > 0
      BY <3>1, StageRanks
    <3>3. StagesToCome[stage'] = 0
      BY <1>3, StageRanks
    <3> QED BY <2>2, <3>2, <3>3
  <2>4. StagesToCome[stage'] = StagesToCome[stage] + (-now) /\ -now \in Int
    BY <2>2, <2>3
  <2>5. Change(0, 0, 0, 0, -now, tries) < 0
    BY <2>1, <2>2, <2>3 DEF Change
  <2>6. TriesToCome' = TriesToCome + tries
    BY <2>1
  <2>7. StagesToCome[stage'] = StagesToCome[stage] + (-now)
    BY <2>4
  <2>8. -now \in Int
    OBVIOUS
  <2>9. Shift(0, 0, 0, 0, -now, tries)
    BY <1>2, <2>6, <2>7 DEF Shift
  <2> QED BY <2>5, <2>8, <2>9, SumFalls
<1>4. CASE stage' # "failed"
  <2>1. JudgedToCome[stage'] = 3 /\ JudgedToCome[stage] = 3
    BY <1>4, JudgedRanks
  <2>2. TriesToCome' = TriesToCome + 0
    BY <2>1, PartsCounted DEF TriesToCome
  <2>3. StagesToCome[stage'] = StagesToCome[stage] + (-1)
    <3>1. CASE stage = "fanout" /\ stage' = "analysts"
      <4>1. StagesToCome[stage] = 7
        BY <3>1, StageRanks, Zenon
      <4>2. StagesToCome[stage'] = 6
        BY <3>1, StageRanks, Zenon
      <4> QED BY <4>1, <4>2
    <3>2. CASE stage = "analysts" /\ stage' = "debate"
      <4>1. StagesToCome[stage] = 6
        BY <3>2, StageRanks, Zenon
      <4>2. StagesToCome[stage'] = 5
        BY <3>2, StageRanks, Zenon
      <4> QED BY <4>1, <4>2
    <3> QED BY <1>4, <3>1, <3>2
  <2>4. Change(0, 0, 0, 0, -1, 0) < 0 /\ -1 \in Int
    BY DEF Change
  <2>5. Shift(0, 0, 0, 0, -1, 0)
    BY <1>2, <2>2, <2>3 DEF Shift
  <2> QED BY <2>4, <2>5, SumFalls
<1> QED BY <1>3, <1>4

\* Nobody is at work before run() begins, and each thread makes two steps to its
\* first call.
LEMMA StartFalls ==
    ASSUME GraphAssumption, FlowInv, TalkInv, RestInv, StartGraph
    PROVE  StepsLeft' < StepsLeft
<1>1. /\ config \in Configs /\ pc \in [Ctxs -> ContextStages] /\ stage = "new"
      /\ \A c \in Ctxs : pc[c] = "off"
  BY DEF FlowInv, GraphTyped, Phased, StartGraph
<1>2. UNCHANGED <<config, asked, spoken, attempt>>
  BY DEF StartGraph, talkVars, histories
<1>3. ContextSteps = 0
  <2>1. Ahead("off") = 0
    BY DEF Ahead
  <2>2. /\ pc["market"] = "off" /\ pc["social"] = "off" /\ pc["news"] = "off"
        /\ pc["fundamentals"] = "off" /\ pc[Main] = "off"
    BY <1>1 DEF Ctxs, Analysts
  <2> QED BY <2>1, <2>2 DEF ContextSteps
<1>4. ContextSteps' \in 0 .. 10
  <2>1. \A c \in Ctxs : pc'[c] \in {"prepare", "off"}
    BY DEF StartGraph
  <2>2. Ahead("off") = 0 /\ Ahead("prepare") = 2
    BY DEF Ahead
  <2>3. \A c \in Ctxs : Ahead(pc'[c]) \in 0 .. 2
    BY <2>1, <2>2
  <2> QED BY <2>3 DEF ContextSteps, Ctxs, Analysts
<1>5. Len(todo') \in 0 .. 4
  <2>1. PICK n \in 0 .. 4 : n = Len(config.order)
    <3>1. Len(config.order) \in Nat
      BY <1>1, ConfigIs
    <3>2. Len(config.order) <= 4
      BY <1>1, ConfigLimits
    <3> DEFINE length == Len(config.order)
    <3>3. length \in Nat /\ length <= 4
      BY <3>1, <3>2
    <3> HIDE DEF length
    <3>4. length \in 0 .. 4
      BY <3>3
    <3>5. \E n \in 0 .. 4 : n = length
      BY <3>4
    <3> QED BY <3>5 DEF length
  <2>2. PICK w \in Nat \ {0} : w = config.workers
    BY <1>1, ConfigIs
  <2>3. config.order \in Seq(Analysts)
    BY <1>1, ConfigIs
  <2>4. CASE FansOut(config)
    <3>1. todo' = SubSeq(config.order, w + 1, n)
      BY <2>1, <2>2, <2>4 DEF StartGraph
    <3>2. CASE w + 1 <= n
      <4>1. w + 1 \in 1 .. n + 1 /\ n \in Nat
        BY <2>1, <2>2, <3>2
      <4>2. Len(todo') = IF w + 1 <= n THEN n - (w + 1) + 1 ELSE 0
        BY <2>1, <2>3, <3>1, <4>1, SubSeqProperties
      <4>3. Len(todo') = n - w
        BY <3>2, <4>2
      <4> QED BY <3>2, <4>3
    <3>3. CASE w + 1 > n
      BY <2>1, <2>2, <2>3, <3>1, <3>3, SubSeqProperties, EmptySeq
    <3> QED BY <2>1, <2>2, <3>2, <3>3
  <2>5. CASE ~ FansOut(config)
    <3>1. todo' = config.order
      BY <2>5 DEF StartGraph
    <3>2. Len(todo') = n
      BY <2>1, <3>1
    <3> QED BY <3>2
  <2> QED BY <2>4, <2>5
<1>6. stage' \in {"fanout", "analysts"}
  BY DEF StartGraph
<1>7. PICK stages \in Int : stages <= -33 /\ StagesToCome[stage'] = StagesToCome[stage] + stages
  <2>1. CASE stage' = "fanout"
    <3>1. StagesToCome[stage'] = StagesToCome[stage] + (-33)
      <4>1. StagesToCome[stage] = 40
        BY <1>1, <2>1, StageRanks, Zenon
      <4>2. StagesToCome[stage'] = 7
        BY <1>1, <2>1, StageRanks, Zenon
      <4> QED BY <4>1, <4>2
    <3> QED BY <3>1
  <2>2. CASE stage' = "analysts"
    <3>1. StagesToCome[stage'] = StagesToCome[stage] + (-34)
      <4>1. StagesToCome[stage] = 40
        BY <1>1, <2>2, StageRanks, Zenon
      <4>2. StagesToCome[stage'] = 6
        BY <1>1, <2>2, StageRanks, Zenon
      <4> QED BY <4>1, <4>2
    <3> QED BY <3>1
  <2> QED BY <1>6, <2>1, <2>2
<1>8. JudgedToCome[stage'] = JudgedToCome[stage]
  BY <1>1, <1>6, JudgedRanks
<1>9. TriesToCome' = TriesToCome + 0 /\ CallsToCome' = CallsToCome + 0
      /\ SpeechesToCome' = SpeechesToCome + 0
  <2>1. TriesToCome' = TriesToCome
    BY <1>2, <1>8 DEF TriesToCome
  <2> QED BY <1>2, <2>1, PartsStay, PartsCounted
<1>10. PICK steps \in Int : steps <= 10 /\ ContextSteps' = ContextSteps + steps
  BY <1>3, <1>4
<1>11. PICK list \in Int : list <= 4 /\ Len(todo') = Len(todo) + list
  <2>1. PICK old \in Nat : old = Len(todo)
    BY PartsCounted
  <2>2. PICK new \in 0 .. 4 : new = Len(todo')
    BY <1>5
  <2>3. new - old \in Int /\ new - old <= 4 /\ new = old + (new - old)
    BY <2>1, <2>2
  <2> QED BY <2>1, <2>2, <2>3
<1>12. Shift(0, steps, list, 0, stages, 0)
  <2>1. ContextSteps' = ContextSteps + steps /\ Len(todo') = Len(todo) + list
        /\ StagesToCome[stage'] = StagesToCome[stage] + stages
    BY <1>7, <1>10, <1>11
  <2> QED BY <1>9, <2>1 DEF Shift
<1>13. Change(0, steps, list, 0, stages, 0) < 0
  BY <1>7, <1>10, <1>11 DEF Change
<1> QED BY <1>12, <1>13, SumFalls

LEMMA AnalystStarts ==
    ASSUME GraphAssumption, FlowInv, TalkInv, RestInv, StartAnalyst
    PROVE  StepsLeft' < StepsLeft
<1>1. /\ pc \in [Ctxs -> ContextStages] /\ todo \in Seq(Analysts)
  BY DEF FlowInv, GraphTyped
<1>2. /\ pc[Main] \in {"off", "end"} /\ todo # <<>> /\ todo' = Tail(todo)
      /\ pc' = [pc EXCEPT ![Main] = "prepare"]
      /\ UNCHANGED <<config, asked, spoken, attempt, stage>>
  BY DEF StartAnalyst, talkVars, histories
<1>3. ContextSteps' = ContextSteps + 2
  <2>1. Ahead("off") = 0 /\ Ahead("end") = 0 /\ Ahead("prepare") = 2
    BY DEF Ahead
  <2>2. Main \in Ctxs
    BY DEF Ctxs
  <2>3. ContextSteps' = ContextSteps - Ahead(pc[Main]) + Ahead("prepare")
    BY <1>1, <1>2, <2>2, ContextCost
  <2>4. Ahead(pc[Main]) = 0
    BY <1>2, <2>1
  <2> QED BY <2>1, <2>3, <2>4, PartsCounted
<1>4. Len(todo') = Len(todo) + (-1)
  BY <1>1, <1>2, HeadTailProperties, PartsCounted
<1>5. /\ TriesToCome' = TriesToCome + 0 /\ CallsToCome' = CallsToCome + 0
      /\ SpeechesToCome' = SpeechesToCome + 0
      /\ StagesToCome[stage'] = StagesToCome[stage] + 0
  BY <1>2, PartsStay, PartsCounted
<1>6. Shift(0, 2, -1, 0, 0, 0)
  BY <1>3, <1>4, <1>5 DEF Shift
<1>7. Change(0, 2, -1, 0, 0, 0) < 0 /\ -1 \in Int
  BY DEF Change
<1> QED BY <1>6, <1>7, SumFalls

\* A speech is one less to come, and never opens a stage that was behind.
LEMMA SpeechFalls ==
    ASSUME GraphAssumption, FlowInv, TalkInv, RestInv, Debate \/ Discuss
    PROVE  StepsLeft' < StepsLeft
<1>1. config \in Configs /\ spoken \in [Debaters \cup RiskTeam -> Nat]
  BY DEF TalkInv
<1>2. UNCHANGED <<config, pc, todo, asked, attempt>>
  BY DEF Debate, Discuss, Speak, histories
<1>3. PICK s \in Debaters \cup RiskTeam : spoken' = [spoken EXCEPT ![s] = @ + 1]
  BY DEF Debate, Discuss, Speak, NextDebater, NextInRisk, Debaters, RiskTeam
<1>4. SpeechesToCome' = SpeechesToCome + (-1)
  <2>1. config.rounds \in Nat /\ config.riskRounds \in Nat
    BY <1>1, ConfigIs
  <2>2. PICK first \in Int : first = IF config.rounds = 0 THEN 1 ELSE 2 * config.rounds
    BY <2>1
  <2>3. PICK next \in Int : next = IF config.riskRounds = 0 THEN 1 ELSE 3 * config.riskRounds
    BY <2>1
  <2>4. SpeechesToCome = first - DebateTurns + next - RiskTurns
    BY <2>2, <2>3 DEF SpeechesToCome
  <2>5. SpeechesToCome' = first - DebateTurns' + next - RiskTurns'
    BY <1>2, <2>2, <2>3 DEF SpeechesToCome
  <2>6. DebateTurns \in Int /\ RiskTurns \in Int /\ DebateTurns' \in Int /\ RiskTurns' \in Int
        /\ DebateTurns' + RiskTurns' = DebateTurns + RiskTurns + 1
    <3>1. \A t \in Debaters \cup RiskTeam :
             spoken[t] \in Nat /\ spoken'[t] = IF t = s THEN spoken[t] + 1 ELSE spoken[t]
      BY <1>1, <1>3
    <3>2. /\ spoken["Bull"] \in Nat /\ spoken["Bear"] \in Nat /\ spoken["Risky"] \in Nat
          /\ spoken["Safe"] \in Nat /\ spoken["Neutral"] \in Nat
      BY <3>1 DEF Debaters, RiskTeam
    <3>3. ASSUME s = "Bull"
          PROVE  DebateTurns' \in Int /\ RiskTurns' \in Int
                 /\ DebateTurns' + RiskTurns' = DebateTurns + RiskTurns + 1
      <4>1. /\ spoken'["Bull"] = spoken["Bull"] + 1 /\ spoken'["Bear"] = spoken["Bear"]
            /\ spoken'["Risky"] = spoken["Risky"] /\ spoken'["Safe"] = spoken["Safe"]
            /\ spoken'["Neutral"] = spoken["Neutral"]
        BY <3>1, <3>3 DEF Debaters, RiskTeam
      <4> QED BY <3>2, <4>1 DEF DebateTurns, RiskTurns
    <3>4. ASSUME s = "Bear"
          PROVE  DebateTurns' \in Int /\ RiskTurns' \in Int
                 /\ DebateTurns' + RiskTurns' = DebateTurns + RiskTurns + 1
      <4>1. /\ spoken'["Bull"] = spoken["Bull"] /\ spoken'["Bear"] = spoken["Bear"] + 1
            /\ spoken'["Risky"] = spoken["Risky"] /\ spoken'["Safe"] = spoken["Safe"]
            /\ spoken'["Neutral"] = spoken["Neutral"]
        BY <3>1, <3>4 DEF Debaters, RiskTeam
      <4> QED BY <3>2, <4>1 DEF DebateTurns, RiskTurns
    <3>5. ASSUME s = "Risky"
          PROVE  DebateTurns' \in Int /\ RiskTurns' \in Int
                 /\ DebateTurns' + RiskTurns' = DebateTurns + RiskTurns + 1
      <4>1. /\ spoken'["Bull"] = spoken["Bull"] /\ spoken'["Bear"] = spoken["Bear"]
            /\ spoken'["Risky"] = spoken["Risky"] + 1 /\ spoken'["Safe"] = spoken["Safe"]
            /\ spoken'["Neutral"] = spoken["Neutral"]
        BY <3>1, <3>5 DEF Debaters, RiskTeam
      <4> QED BY <3>2, <4>1 DEF DebateTurns, RiskTurns
    <3>6. ASSUME s = "Safe"
          PROVE  DebateTurns' \in Int /\ RiskTurns' \in Int
                 /\ DebateTurns' + RiskTurns' = DebateTurns + RiskTurns + 1
      <4>1. /\ spoken'["Bull"] = spoken["Bull"] /\ spoken'["Bear"] = spoken["Bear"]
            /\ spoken'["Risky"] = spoken["Risky"] /\ spoken'["Safe"] = spoken["Safe"] + 1
            /\ spoken'["Neutral"] = spoken["Neutral"]
        BY <3>1, <3>6 DEF Debaters, RiskTeam
      <4> QED BY <3>2, <4>1 DEF DebateTurns, RiskTurns
    <3>7. ASSUME s = "Neutral"
          PROVE  DebateTurns' \in Int /\ RiskTurns' \in Int
                 /\ DebateTurns' + RiskTurns' = DebateTurns + RiskTurns + 1
      <4>1. /\ spoken'["Bull"] = spoken["Bull"] /\ spoken'["Bear"] = spoken["Bear"]
            /\ spoken'["Risky"] = spoken["Risky"] /\ spoken'["Safe"] = spoken["Safe"]
            /\ spoken'["Neutral"] = spoken["Neutral"] + 1
        BY <3>1, <3>7 DEF Debaters, RiskTeam
      <4> QED BY <3>2, <4>1 DEF DebateTurns, RiskTurns
    <3>8. s \in {"Bull", "Bear", "Risky", "Safe", "Neutral"}
      BY <1>3 DEF Debaters, RiskTeam
    <3>9. DebateTurns' \in Int /\ RiskTurns' \in Int
          /\ DebateTurns' + RiskTurns' = DebateTurns + RiskTurns + 1
      BY <3>3, <3>4, <3>5, <3>6, <3>7, <3>8, Zenon
    <3>10. DebateTurns \in Int /\ RiskTurns \in Int
      BY <3>2 DEF DebateTurns, RiskTurns
    <3> QED BY <3>9, <3>10, Zenon
  <2>7. PICK d \in Int, e \in Int : d = DebateTurns /\ e = RiskTurns
    BY <2>6
  <2>8. PICK f \in Int, g \in Int : f = DebateTurns' /\ g = RiskTurns'
    BY <2>6
  <2>9. f + g = d + e + 1
    BY <2>6, <2>7, <2>8
  <2>10. SpeechesToCome = first - d + next - e
    BY <2>4, <2>7
  <2>11. SpeechesToCome' = first - f + next - g
    BY <2>5, <2>8
  <2> QED BY <2>9, <2>10, <2>11
<1>5. /\ CallsToCome' = CallsToCome + 0 /\ ContextSteps' = ContextSteps + 0
      /\ Len(todo') = Len(todo) + 0
  BY <1>2, PartsStay, PartsCounted
<1>6. \/ stage = "debate" /\ stage' \in {"debate", "Research Manager"}
      \/ stage = "risk" /\ stage' \in {"risk", "Risk Judge"}
  BY DEF Debate, Discuss, Speak
<1>7. TriesToCome' = TriesToCome + 0
  <2>1. JudgedToCome[stage'] = JudgedToCome[stage]
    BY <1>6, JudgedRanks
  <2>2. TriesToCome' = TriesToCome
    BY <1>2, <2>1 DEF TriesToCome
  <2> QED BY <2>2, PartsCounted
<1>8. PICK stages \in {0, -1} : StagesToCome[stage'] = StagesToCome[stage] + stages
  <2>1. StagesToCome[stage'] = StagesToCome[stage] + 0
        \/ StagesToCome[stage'] = StagesToCome[stage] + (-1)
    <3>1. CASE stage = "debate" /\ stage' = "Research Manager"
      <4>1. StagesToCome[stage] = 5
        BY <3>1, StageRanks, Zenon
      <4>2. StagesToCome[stage'] = 4
        BY <3>1, StageRanks, Zenon
      <4> QED BY <4>1, <4>2
    <3>2. CASE stage = "risk" /\ stage' = "Risk Judge"
      <4>1. StagesToCome[stage] = 2
        BY <3>2, StageRanks, Zenon
      <4>2. StagesToCome[stage'] = 1
        BY <3>2, StageRanks, Zenon
      <4> QED BY <4>1, <4>2
    <3>3. CASE stage' = stage
      BY <3>3, PartsCounted
    <3> QED BY <1>6, <3>1, <3>2, <3>3
  <2> QED BY <2>1
<1>9. Shift(0, 0, 0, -1, stages, 0)
  BY <1>4, <1>5, <1>7, <1>8 DEF Shift
<1>10. Change(0, 0, 0, -1, stages, 0) < 0 /\ -1 \in Int /\ stages \in Int
  BY <1>8 DEF Change
<1> QED BY <1>9, <1>10, SumFalls

\* A rejected attempt uses up one; an accepted one, the node with all of its own.
LEMMA DecisionFalls ==
    ASSUME GraphAssumption, FlowInv, TalkInv, RestInv, Decide
    PROVE  StepsLeft' < StepsLeft
<1>1. PICK r \in Nat : r = config.retries
  BY ConfigLimits DEF FlowInv, GraphTyped
<1>2. PICK k \in 0 .. r : k = attempt
  BY <1>1 DEF RestInv
<1>3. UNCHANGED <<config, pc, todo, asked, spoken>>
  BY DEF Decide, histories
<1>4. /\ CallsToCome' = CallsToCome + 0 /\ ContextSteps' = ContextSteps + 0
      /\ Len(todo') = Len(todo) + 0 /\ SpeechesToCome' = SpeechesToCome + 0
  BY <1>3, PartsStay, PartsCounted
<1>5. CASE attempt' = attempt + 1 /\ stage' = stage
  <2>1. TriesToCome' = (r + 1) * JudgedToCome[stage] + r - (k + 1)
    BY <1>1, <1>2, <1>3, <1>5 DEF TriesToCome
  <2>2. TriesToCome = (r + 1) * JudgedToCome[stage] + r - k
    BY <1>1, <1>2 DEF TriesToCome
  <2>3. PICK j \in Int : j = (r + 1) * JudgedToCome[stage]
    <3>1. PICK i \in 0 .. 3 : i = JudgedToCome[stage]
      BY JudgedRanks DEF FlowInv, GraphTyped
    <3>2. (r + 1) * i \in Int
      BY <3>1
    <3> QED BY <3>1, <3>2
  <2>4. TriesToCome' = TriesToCome + (-1)
    BY <2>1, <2>2, <2>3
  <2>5. StagesToCome[stage'] = StagesToCome[stage] + 0
    BY <1>5, PartsCounted
  <2>6. Shift(0, 0, 0, 0, 0, -1)
    BY <1>4, <2>4, <2>5 DEF Shift
  <2>7. Change(0, 0, 0, 0, 0, -1) < 0 /\ -1 \in Int
    BY DEF Change
  <2> QED BY <2>6, <2>7, SumFalls
<1>6. CASE attempt' = 0 /\ stage' = AfterJudged[stage]
  <2>1. \/ stage = "Research Manager" /\ stage' = "Trader"
        \/ stage = "Trader" /\ stage' = "risk"
        \/ stage = "Risk Judge" /\ stage' = "done"
    BY <1>6 DEF Decide, Judged, AfterJudged
  <2>2. StagesToCome[stage'] = StagesToCome[stage] + (-1)
    <3>1. CASE stage = "Research Manager" /\ stage' = "Trader"
      <4>1. StagesToCome[stage] = 4
        BY <3>1, StageRanks, Zenon
      <4>2. StagesToCome[stage'] = 3
        BY <3>1, StageRanks, Zenon
      <4> QED BY <4>1, <4>2
    <3>2. CASE stage = "Trader" /\ stage' = "risk"
      <4>1. StagesToCome[stage] = 3
        BY <3>2, StageRanks, Zenon
      <4>2. StagesToCome[stage'] = 2
        BY <3>2, StageRanks, Zenon
      <4> QED BY <4>1, <4>2
    <3>3. CASE stage = "Risk Judge" /\ stage' = "done"
      <4>1. StagesToCome[stage] = 1
        BY <3>3, StageRanks, Zenon
      <4>2. StagesToCome[stage'] = 0
        BY <3>3, StageRanks, Zenon
      <4> QED BY <4>1, <4>2
    <3> QED BY <2>1, <3>1, <3>2, <3>3
  <2>3. PICK j \in 0 .. 2 : JudgedToCome[stage'] = j /\ JudgedToCome[stage] = j + 1
    <3>1. CASE stage = "Research Manager" /\ stage' = "Trader"
      <4>1. JudgedToCome[stage] = 3
        BY <3>1, JudgedRanks, Zenon
      <4>2. JudgedToCome[stage'] = 2
        BY <3>1, JudgedRanks, Zenon
      <4> QED BY <4>1, <4>2
    <3>2. CASE stage = "Trader" /\ stage' = "risk"
      <4>1. JudgedToCome[stage] = 2
        BY <3>2, JudgedRanks, Zenon
      <4>2. JudgedToCome[stage'] = 1
        BY <3>2, JudgedRanks, Zenon
      <4> QED BY <4>1, <4>2
    <3>3. CASE stage = "Risk Judge" /\ stage' = "done"
      <4>1. JudgedToCome[stage] = 1
        BY <3>3, JudgedRanks, Zenon
      <4>2. JudgedToCome[stage'] = 0
        BY <3>3, JudgedRanks, Zenon
      <4> QED BY <4>1, <4>2
    <3> QED BY <2>1, <3>1, <3>2, <3>3
  <2>4. TriesToCome' = (r + 1) * j + r - 0
    BY <1>1, <1>3, <1>6, <2>3 DEF TriesToCome
  <2>5. TriesToCome = (r + 1) * (j + 1) + r - k
    BY <1>1, <1>2, <2>3 DEF TriesToCome
  <2>6. PICK p \in Int : p = (r + 1) * j
    OBVIOUS
  <2>7. (r + 1) * (j + 1) = p + r + 1
    BY <2>6
  <2>8. TriesToCome' = TriesToCome + (k - r - 1)
    BY <2>4, <2>5, <2>6, <2>7
  <2>9. PICK tries \in Int : tries = k - r - 1 /\ tries < 0
    OBVIOUS
  <2>10. Shift(0, 0, 0, 0, -1, tries)
    BY <1>4, <2>2, <2>8, <2>9 DEF Shift
  <2>11. Change(0, 0, 0, 0, -1, tries) < 0 /\ -1 \in Int
    BY <2>9 DEF Change
  <2> QED BY <2>10, <2>11, SumFalls
<1> QED BY <1>5, <1>6 DEF Decide

\* However the models answer, every step of a run is one of the steps left.
LEMMA StepFalls ==
    ASSUME GraphAssumption, FlowInv, TalkInv, RestInv, GraphNext
    PROVE  StepsLeft' < StepsLeft
<1>1. CASE \E c \in Ctxs : Analyse(c) \/ Raise(c)
  BY <1>1, AnalystFalls
<1>2. CASE StartGraph
  BY <1>2, StartFalls
<1>3. CASE Join
  <2>1. /\ stage = "fanout" /\ stage' \in {"analysts", "failed"}
        /\ UNCHANGED <<config, todo, pc, asked, spoken, attempt>>
    BY <1>3 DEF Join, talkVars, histories
  <2> QED BY <2>1, StageFalls
<1>4. CASE StartAnalyst
  BY <1>4, AnalystStarts
<1>5. CASE StartDebate
  <2>1. /\ stage = "analysts" /\ stage' = "debate"
        /\ UNCHANGED <<config, todo, pc, asked, spoken, attempt>>
    BY <1>5 DEF StartDebate, ctxVars, talkVars, histories
  <2> QED BY <2>1, StageFalls
<1>6. CASE Debate \/ Discuss
  BY <1>6, SpeechFalls
<1>7. CASE Decide
  BY <1>7, DecisionFalls
<1>8. CASE RaiseLate
  <2>1. /\ stage # "done" /\ stage # "failed" /\ stage' = "failed"
        /\ UNCHANGED <<config, todo, pc, asked, spoken, attempt>>
    BY <1>8 DEF RaiseLate, ctxVars, talkVars, histories, Judged
  <2> QED BY <2>1, StageFalls
<1> QED BY <1>1, <1>2, <1>3, <1>4, <1>5, <1>6, <1>7, <1>8 DEF GraphNext, Run

\* The speeches of either discussion, wherever the run failed.
TurnsAllowed == /\ DebateTurns <= IF config.rounds = 0 THEN 1 ELSE 2 * config.rounds
                /\ RiskTurns <= IF config.riskRounds = 0 THEN 1 ELSE 3 * config.riskRounds

\* A thread of the fan-out has begun, and run() does not outlive an exception.
Unstuck ==
    /\ stage = "fanout" => \A a \in Team : pc[a] # "off"
    /\ pc[Main] = "raised" => stage = "failed"

LEMMA TurnsStart ==
    ASSUME GraphAssumption, GraphInit
    PROVE  TurnsAllowed
<1>1. DebateTurns = 0 /\ RiskTurns = 0
  <2>1. \A s \in Debaters \cup RiskTeam : spoken[s] = 0
    BY DEF GraphInit
  <2>2. /\ spoken["Bull"] = 0 /\ spoken["Bear"] = 0 /\ spoken["Risky"] = 0
        /\ spoken["Safe"] = 0 /\ spoken["Neutral"] = 0
    BY <2>1 DEF Debaters, RiskTeam
  <2> QED BY <2>2 DEF DebateTurns, RiskTurns
<1>2. config.rounds \in Nat /\ config.riskRounds \in Nat
  BY ConfigIs DEF GraphInit
<1> QED BY <1>1, <1>2 DEF TurnsAllowed

LEMMA TurnsStep ==
    ASSUME GraphAssumption, FlowInv, TalkInv, TalkInv', TurnsAllowed, [GraphNext]_graphVars
    PROVE  TurnsAllowed'
<1>1. config \in Configs /\ UNCHANGED config
  BY DEF FlowInv, GraphTyped, GraphNext, Analyse, Raise, Prepare, Ask, Route, RunTools,
         ClearMessages, Move, StartGraph, Run, Join, StartAnalyst, StartDebate, Debate,
         Discuss, Speak, Decide, RaiseLate, graphVars
<1>2. PICK n \in Nat : n = config.rounds
  BY <1>1, ConfigIs
<1>3. PICK m \in Nat : m = config.riskRounds
  BY <1>1, ConfigIs
<1>4. spoken' \in [Debaters \cup RiskTeam -> Nat]
  BY DEF TalkInv
<1>5. CASE UNCHANGED spoken
  <2>1. DebateTurns' = DebateTurns /\ RiskTurns' = RiskTurns
    BY <1>5 DEF DebateTurns, RiskTurns
  <2> QED BY <1>1, <2>1 DEF TurnsAllowed
<1>6. CASE Debate
  <2>1. stage' \in {"debate", "Research Manager"} /\ (stage' = "debate" => last' # "")
    BY <1>6 DEF Debate, Speak, NextDebater
  <2>2. RiskTurns' = 0
    <3>1. \A s \in RiskTeam : spoken'[s] = 0
      BY <2>1 DEF TalkInv, Unspoken
    <3>2. spoken'["Risky"] = 0 /\ spoken'["Safe"] = 0 /\ spoken'["Neutral"] = 0
      BY <3>1 DEF RiskTeam
    <3> QED BY <3>2 DEF RiskTurns
  <2>3. CASE stage' = "debate"
    <3>1. DebateTurns' < 2 * n
      BY <1>1, <1>2, <2>1, <2>3 DEF TalkInv
    <3>2. DebateTurns' \in Nat
      BY <1>4 DEF DebateTurns, Debaters, RiskTeam
    <3> QED BY <1>1, <1>2, <1>3, <2>2, <3>1, <3>2 DEF TurnsAllowed
  <2>4. CASE stage' = "Research Manager"
    <3>1. \A s \in Debaters : spoken'[s] = IF n = 0 /\ s = "Bull" THEN 1 ELSE n
      BY <1>1, <1>2, <2>4 DEF TalkInv, Fair, Judged
    <3>2. spoken'["Bull"] = (IF n = 0 THEN 1 ELSE n) /\ spoken'["Bear"] = n
      BY <3>1 DEF Debaters
    <3>3. DebateTurns' = IF n = 0 THEN 1 ELSE 2 * n
      BY <3>2 DEF DebateTurns
    <3> QED BY <1>1, <1>2, <1>3, <2>2, <3>3 DEF TurnsAllowed
  <2> QED BY <2>1, <2>3, <2>4
<1>7. CASE Discuss
  <2>1. stage' \in {"risk", "Risk Judge"} /\ (stage' = "risk" => last' # "")
    BY <1>7 DEF Discuss, Speak, NextInRisk
  <2>2. DebateTurns' = IF n = 0 THEN 1 ELSE 2 * n
    <3>1. \A s \in Debaters : spoken'[s] = IF n = 0 /\ s = "Bull" THEN 1 ELSE n
      BY <1>1, <1>2, <2>1 DEF TalkInv, Fair, Judged
    <3>2. spoken'["Bull"] = (IF n = 0 THEN 1 ELSE n) /\ spoken'["Bear"] = n
      BY <3>1 DEF Debaters
    <3> QED BY <3>2 DEF DebateTurns
  <2>3. CASE stage' = "risk"
    <3>1. RiskTurns' < 3 * m
      BY <1>1, <1>3, <2>1, <2>3 DEF TalkInv
    <3>2. RiskTurns' \in Nat
      BY <1>4 DEF RiskTurns, Debaters, RiskTeam
    <3> QED BY <1>1, <1>2, <1>3, <2>2, <3>1, <3>2 DEF TurnsAllowed
  <2>4. CASE stage' = "Risk Judge"
    <3>1. \A s \in RiskTeam : spoken'[s] = IF m = 0 /\ s = "Risky" THEN 1 ELSE m
      BY <1>1, <1>3, <2>4 DEF TalkInv, Fair
    <3>2. /\ spoken'["Risky"] = (IF m = 0 THEN 1 ELSE m) /\ spoken'["Safe"] = m
          /\ spoken'["Neutral"] = m
      BY <3>1 DEF RiskTeam
    <3>3. RiskTurns' = IF m = 0 THEN 1 ELSE 3 * m
      BY <3>2 DEF RiskTurns
    <3> QED BY <1>1, <1>2, <1>3, <2>2, <3>3 DEF TurnsAllowed
  <2> QED BY <2>1, <2>3, <2>4
<1>8. UNCHANGED spoken \/ Debate \/ Discuss
  BY DEF GraphNext, Analyse, Raise, Prepare, Ask, Route, RunTools, ClearMessages, Move,
         StartGraph, Run, Join, StartAnalyst, StartDebate, Decide, RaiseLate, graphVars, talkVars
<1> QED BY <1>5, <1>6, <1>7, <1>8

LEMMA UnstuckStep ==
    ASSUME GraphAssumption, FlowInv, Unstuck, [GraphNext]_graphVars
    PROVE  Unstuck'
<1>1. /\ config \in Configs /\ pc \in [Ctxs -> ContextStages] /\ Team \subseteq Analysts
      /\ Main \notin Team /\ Main \in Ctxs /\ Team \subseteq Ctxs
  BY ConfigIs, TeamIs DEF FlowInv, GraphTyped, Ctxs, GraphAssumption
<1>2. UNCHANGED config => Team' = Team
  BY DEF Team
<1>3. CASE UNCHANGED graphVars
  BY <1>2, <1>3 DEF Unstuck, graphVars, runVars, ctxVars
<1>4. ASSUME NEW c \in Ctxs, Analyse(c)
      PROVE  Unstuck'
  <2>1. PICK to \in ContextStages \ {"off", "raised"} : pc' = [pc EXCEPT ![c] = to]
    BY <1>4 DEF Analyse, Prepare, Ask, Route, RunTools, ClearMessages, Move, ContextStages
  <2>2. UNCHANGED <<config, stage>>
    BY <1>4 DEF Analyse, Prepare, Ask, Route, RunTools, ClearMessages, Move, runVars
  <2> QED BY <1>1, <1>2, <2>1, <2>2 DEF Unstuck
<1>5. ASSUME NEW c \in Ctxs, Raise(c)
      PROVE  Unstuck'
  <2>1. pc' = [pc EXCEPT ![c] = "raised"] /\ UNCHANGED config
    BY <1>5 DEF Raise, Move
  <2>2. stage' = IF c = Main THEN "failed" ELSE stage
    BY <1>5 DEF Raise
  <2> QED BY <1>1, <1>2, <2>1, <2>2 DEF Unstuck
<1>6. CASE StartGraph
  <2>1. pc' = [c \in Ctxs |-> IF c \in Team THEN "prepare" ELSE "off"] /\ UNCHANGED config
    BY <1>6 DEF StartGraph, Team
  <2> QED BY <1>1, <1>2, <2>1 DEF Unstuck
<1>7. CASE StartAnalyst
  <2>1. /\ stage = "analysts" /\ stage' = stage /\ UNCHANGED config
        /\ pc' = [pc EXCEPT ![Main] = "prepare"]
    BY <1>7 DEF StartAnalyst
  <2> QED BY <1>1, <2>1 DEF Unstuck
<1>8. CASE Join \/ StartDebate \/ Debate \/ Discuss \/ Decide \/ RaiseLate
  <2>1. /\ UNCHANGED <<config, pc>> /\ stage # "failed" /\ stage' # "fanout"
    BY <1>8 DEF Join, StartDebate, Debate, Discuss, Speak, Decide, RaiseLate, ctxVars, Judged,
                AfterJudged
  <2> QED BY <1>1, <2>1 DEF Unstuck
<1> QED BY <1>3, <1>4, <1>5, <1>6, <1>7, <1>8 DEF GraphNext, Run

LEMMA WaysOnHold ==
    GraphSpec => [](FlowInv /\ HistInv /\ TalkInv /\ RestInv /\ TurnsAllowed /\ Unstuck)
<1>1. GraphInit => FlowInv /\ HistInv /\ TalkInv /\ RestInv
  BY FlowStart, HistoryStart, TalkStart, RestStart, GraphAssumption
<1>2. GraphInit => TurnsAllowed /\ Unstuck
  <2>1. GraphInit => Unstuck
    BY DEF GraphInit, Unstuck, Ctxs
  <2> QED BY <2>1, TurnsStart, GraphAssumption
<1>3. FlowInv /\ HistInv /\ TalkInv /\ RestInv /\ [GraphNext]_graphVars
        => FlowInv' /\ HistInv' /\ TalkInv' /\ RestInv'
  BY FlowStep, HistoryStep, TalkStep, RestStep, GraphAssumption
<1>4. FlowInv /\ TalkInv /\ TalkInv' /\ TurnsAllowed /\ Unstuck /\ [GraphNext]_graphVars
        => TurnsAllowed' /\ Unstuck'
  BY TurnsStep, UnstuckStep, GraphAssumption
<1> QED BY <1>1, <1>2, <1>3, <1>4, PTL DEF GraphSpec

LEMMA StepsCounted ==
    ASSUME GraphAssumption, FlowInv, HistInv, TalkInv, RestInv, TurnsAllowed
    PROVE  StepsLeft \in Nat
<1>1. config \in Configs /\ asked \in [Analysts -> Nat] /\ spoken \in [Debaters \cup RiskTeam -> Nat]
  BY DEF FlowInv, GraphTyped, TalkInv
<1>2. CallsToCome \in Nat
  <2>1. \A b \in Analysts : Allowed(b) \in Int /\ asked[b] \in Int
    <3>1. config.maxCalls \in [Analysts -> Nat]
      BY <1>1, ConfigIs
    <3> QED BY <1>1, <3>1 DEF Allowed
  <2>2. \A b \in Analysts \ {"fundamentals"} : CallsLeft(b) \in Nat
    <3>1. \A b \in Analysts \ {"fundamentals"} : asked[b] <= Allowed(b)
      BY DEF FlowInv, Limited
    <3>2. SUFFICES ASSUME NEW b \in Analysts \ {"fundamentals"}
                   PROVE  CallsLeft(b) \in Nat
      OBVIOUS
    <3>3. CallsLeft(b) = Allowed(b) - asked[b]
      BY DEF CallsLeft
    <3> QED BY <2>1, <3>1, <3>3
  <2>3. CallsLeft("fundamentals") \in Nat
    <3>1. CallsLeft("fundamentals") = 2 - asked["fundamentals"]
      BY DEF CallsLeft
    <3>2. asked["fundamentals"] \in Nat /\ asked["fundamentals"] <= 2
      BY <1>1 DEF HistInv, Analysts
    <3> QED BY <3>1, <3>2
  <2>4. CallsLeft("market") \in Nat /\ CallsLeft("social") \in Nat /\ CallsLeft("news") \in Nat
    BY <2>2 DEF Analysts
  <2> QED BY <2>3, <2>4 DEF CallsToCome
<1>3. SpeechesToCome \in Nat
  <2>1. config.rounds \in Nat /\ config.riskRounds \in Nat
    BY <1>1, ConfigIs
  <2>2. PICK first \in Int : first = IF config.rounds = 0 THEN 1 ELSE 2 * config.rounds
    BY <2>1
  <2>3. PICK next \in Int : next = IF config.riskRounds = 0 THEN 1 ELSE 3 * config.riskRounds
    BY <2>1
  <2>4. SpeechesToCome = first - DebateTurns + next - RiskTurns
    BY <2>2, <2>3 DEF SpeechesToCome
  <2>5. DebateTurns <= first /\ RiskTurns <= next
    BY <2>2, <2>3 DEF TurnsAllowed
  <2>6. DebateTurns \in Nat /\ RiskTurns \in Nat
    BY <1>1 DEF DebateTurns, RiskTurns, Debaters, RiskTeam
  <2> QED BY <2>4, <2>5, <2>6
<1>4. /\ ContextSteps \in Nat /\ Len(todo) \in Nat /\ StagesToCome[stage] \in Nat
      /\ TriesToCome \in Nat
  BY PartsCounted
<1> QED BY <1>2, <1>3, <1>4 DEF StepsLeft

\* Whatever the models answer and whichever nodes raise: a run has a number of
\* steps left, and each step leaves fewer, so no tool loop, debate or retry goes
\* on for ever, with or without fairness (run, conditional_logic.py).
THEOREM StepsRunOut == GraphSpec => [](StepsLeft \in Nat) /\ [][StepsLeft' < StepsLeft]_graphVars
<1>1. FlowInv /\ HistInv /\ TalkInv /\ RestInv /\ TurnsAllowed => StepsLeft \in Nat
  BY StepsCounted, GraphAssumption
<1>2. FlowInv /\ TalkInv /\ RestInv /\ [GraphNext]_graphVars => [StepsLeft' < StepsLeft]_graphVars
  BY StepFalls, GraphAssumption
<1> QED BY <1>1, <1>2, WaysOnHold, PTL DEF GraphSpec

\* A run that has begun and not ended always has somebody to go on with it: the
\* join waits for no thread that has ended, an exception in one included, and no
\* analyst run() takes itself is left behind (run, _run_parallel_analysts).
THEOREM RunsGoOn == GraphSpec => []RunGoesOn
<1>1. FlowInv /\ Unstuck => RunGoesOn
  <2>1. SUFFICES ASSUME FlowInv, Unstuck, stage \notin {"new", "done", "failed"},
                        \A c \in Ctxs : pc[c] \notin Working
                 PROVE  \/ stage = "fanout" /\ AllEnded
                        \/ stage = "analysts" /\ pc[Main] \in {"off", "end"}
                        \/ stage \in {"debate", "risk"} \cup Judged
    BY DEF RunGoesOn
  <2>2. /\ config \in Configs /\ stage \in Stages /\ \A c \in Ctxs : pc[c] \in ContextStages
        /\ Main \in Ctxs
    BY <2>1 DEF FlowInv, GraphTyped, Ctxs
  <2>3. CASE stage = "fanout"
    <3>1. Team \subseteq Ctxs
      BY <2>2, TeamIs, GraphAssumption DEF Ctxs
    <3>2. \A a \in Team : pc[a] \in {"end", "raised"}
      BY <2>1, <2>2, <2>3, <3>1 DEF Unstuck, Working, ContextStages
    <3> QED BY <2>3, <3>2 DEF AllEnded, Team
  <2>4. CASE stage = "analysts"
    BY <2>1, <2>2, <2>4 DEF Unstuck, Working, ContextStages
  <2> QED BY <2>1, <2>2, <2>3, <2>4 DEF Stages
<1> QED BY <1>1, WaysOnHold, PTL

-----------------------------------------------------------------------------
\* One analysis as it is model-checked: the part at work takes its steps, the
\* others stutter.

LEMMA PartsWork ==
    ASSUME [AnalysisNext]_analysisVars
    PROVE  [SessionNext]_sessionVars /\ [GraphNext]_graphVars /\ [StatusNext]_statusVars
<1>1. CASE AnalysisNext
  BY <1>1, Zenon DEF AnalysisNext
<1>2. CASE UNCHANGED analysisVars
  BY <1>2 DEF analysisVars
<1> QED BY <1>1, <1>2

\* Every behaviour of the composition is, seen by the session, the graph or the
\* status, one of theirs: what is proved of each is true of what TLC explores.
THEOREM AnalysisCompose ==
    AnalysisSpec =>
        SessionSpec /\ GraphSpec /\ StatusSpec
<1>1. AnalysisInit => SessionInit /\ GraphInit /\ StatusInit
  BY DEF AnalysisInit
<1>2. [AnalysisNext]_analysisVars
        => [SessionNext]_sessionVars /\ [GraphNext]_graphVars /\ [StatusNext]_statusVars
  BY PartsWork
<1> QED BY <1>1, <1>2, PTL DEF AnalysisSpec, SessionSpec, GraphSpec, StatusSpec

\* Every variable of the session, the graph and the status stays in its domain,
\* for any configuration, any run and any faults.
THEOREM AnalysisTypeCorrect == AnalysisSpec => []AnalysisTypeOK
BY AnalysisCompose, SessionTypeCorrect, GraphTypeCorrect, StatusTypeCorrect, PTL
   DEF AnalysisTypeOK

\* What the session's log, the graph's reports, calls and discussions, and the
\* two copies of the status promise holds of the composition.
THEOREM AnalysisIsSafe ==
    AnalysisSpec => /\ [](/\ EventsInOrder /\ NoEventBelowCheckpoint /\ RecoveredWhole
                          /\ HistoriesSound /\ RoundsBounded /\ ReportsDelivered
                          /\ DebatesBalanced
                          /\ CompletedIsSaved /\ AgreeAtRest /\ DeletedIsGone)
                    /\ NotRunningAgain
BY AnalysisCompose, SessionInOrder, CheckpointComplete, RecoveryWhole, HistoriesAreSound,
   RoundsAreBounded, ReportsAreDelivered, DebatesAreFair, CompletionIsSaved, CopiesAgree,
   DeletionIsFinal, FinalStaysFinal, PTL
=============================================================================
