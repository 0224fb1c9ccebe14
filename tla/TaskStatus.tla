----------------------------- MODULE TaskStatus -----------------------------
(***************************************************************************)
(* The status of analysis tasks run by the API process itself:             *)
(* SimpleAnalysisService (app/services/simple_analysis_service.py) with    *)
(* MemoryStateManager, and the requests of app/routers/analysis.py that    *)
(* mark a task failed, delete it or clean up zombies.                      *)
(*                                                                         *)
(* A task's status is kept twice: in memory, behind a lock, so one write   *)
(* is one step, and in Mongo's analysis_tasks, written by a later step.    *)
(* The finished report goes to analysis_reports and is linked from the     *)
(* task's document; readers find it through that link only, for a report   *)
(* carries no user_id.  Runs share one pool of threads.  Nothing guards a  *)
(* final status: every write overwrites what is there.                     *)
(*                                                                         *)
(* Progress numbers, messages, the Redis tracker and the notifications are *)
(* left out.                                                               *)
(***************************************************************************)
EXTENDS Naturals, Sequences, FiniteSets

CONSTANTS
    Tasks,
    PoolSize,       \* max_workers of the service's thread pool
    MaxErrors,      \* bound: Mongo calls that raise
    MaxRestarts,    \* bound: restarts of the process
    MaxRequests     \* bound: mark-failed, delete and clean-up requests

ASSUME TaskStatusAssumption ==
    /\ PoolSize \in Nat \ {0}
    /\ MaxErrors \in Nat /\ MaxRestarts \in Nat /\ MaxRequests \in Nat

VARIABLES
    at,             \* per task: the stage its run stands at
    memory,         \* MemoryStateManager._tasks: the status of each task
    mongo,          \* analysis_tasks: the status of each task
    savedReports,   \* tasks with a document in analysis_reports
    linked,         \* tasks whose document names their report
    requested,      \* per task: the request in progress on it
    errors, restarts, requests,
    unsaved,        \* history: tasks a Mongo call failed for
    raced,          \* history: tasks a request met while their run went on
    deleted         \* history: accepted tasks whose deletion was answered

history == <<unsaved, raced, deleted>>
statusVars == <<at, memory, mongo, savedReports, linked, requested, errors, restarts,
                requests, history>>

Final == {"completed", "failed"}

\* Mutant: the task is reported complete before its report is saved.
Stages_CompleteFirst ==
    <<"create", "insert", "validate", "start", "startMongo", "prepare", "prepareMongo",
      "pool", "thread", "complete", "completeMongo", "report", "link", "ended">>

\* Mutant: the task is linked to a report that is saved afterwards.
Stages_LinkFirst ==
    <<"create", "insert", "validate", "start", "startMongo", "prepare", "prepareMongo",
      "pool", "thread", "link", "report", "complete", "completeMongo", "ended">>

\* The stages of a run, in the order of the code.
TaskStages ==
    <<"create", "insert", "validate", "start", "startMongo", "prepare", "prepareMongo",
      "pool", "thread", "report", "link", "complete", "completeMongo", "ended">>

Over == {"ended", "lost"}

StageNames == {TaskStages[i] : i \in DOMAIN TaskStages} \cup {"fail", "failMongo", "lost"}

StatusTypeOK ==
    /\ at \in [Tasks -> StageNames]
    /\ memory \in [Tasks -> {"none", "pending", "running"} \cup Final]
    /\ mongo \in [Tasks -> {"none", "pending", "processing"} \cup Final]
    /\ linked \subseteq savedReports /\ savedReports \subseteq Tasks
    /\ requested \in [Tasks -> {"nothing", "mark", "delete"}]
    /\ errors \in 0 .. MaxErrors /\ restarts \in 0 .. MaxRestarts /\ requests \in 0 .. MaxRequests
    /\ unsaved \subseteq Tasks /\ raced \subseteq Tasks /\ deleted \subseteq Tasks

StatusInit ==
    /\ at = [t \in Tasks |-> "create"]
    /\ memory = [t \in Tasks |-> "none"] /\ mongo = [t \in Tasks |-> "none"]
    /\ savedReports = {} /\ linked = {}
    /\ requested = [t \in Tasks |-> "nothing"]
    /\ errors = 0 /\ restarts = 0 /\ requests = 0
    /\ unsaved = {} /\ raced = {} /\ deleted = {}

-----------------------------------------------------------------------------
(* Writes.  A write to Mongo may raise; the code logs that and goes on.    *)

NextStage(stage) == TaskStages[1 + CHOOSE i \in DOMAIN TaskStages : TaskStages[i] = stage]

Goto(t, stage) == at' = [at EXCEPT ![t] = stage]

\* Mutant: a final status in memory is never overwritten.
Known_NotFinal(status) == status \notin {"none"} \cup Final

\* update_task_status finds the task; it does not look at its status.
Known(status) == status # "none"

SetMemory(t, status) == memory' = [memory EXCEPT ![t] = IF Known(@) THEN status ELSE @]

\* Mutant: update_one with upsert.
Matched_Upsert(status) == status = status

\* update_one without upsert writes nothing when no document matches.
Matched(status) == status # "none"

MongoAnswers ==
    UNCHANGED <<errors, unsaved>>

MongoRaises(t) ==
    /\ errors < MaxErrors
    /\ errors' = errors + 1
    /\ unsaved' = unsaved \cup {t}

SetMongo(t, status) ==
    \/ /\ mongo' = [mongo EXCEPT ![t] = IF Matched(@) THEN status ELSE @]
       /\ MongoAnswers
    \/ UNCHANGED mongo /\ MongoRaises(t)

-----------------------------------------------------------------------------
(* A run: create_analysis_task, then execute_analysis_background.          *)

\* The memory half of create_analysis_task.
Create(t) ==
    /\ at[t] = "create"
    /\ memory' = [memory EXCEPT ![t] = "pending"]
    /\ Goto(t, NextStage("create"))
    /\ UNCHANGED <<mongo, savedReports, linked, requested, errors, restarts, requests,
                   history>>

\* Its Mongo half, an upsert that only inserts; the request is answered even
\* if it fails, and the run is scheduled.
Insert(t) ==
    /\ at[t] = "insert"
    /\ \/ mongo' = [mongo EXCEPT ![t] = IF @ = "none" THEN "pending" ELSE @] /\ MongoAnswers
       \/ UNCHANGED mongo /\ MongoRaises(t)
    /\ Goto(t, NextStage("insert"))
    /\ UNCHANGED <<memory, savedReports, linked, requested, restarts, requests, raced,
                   deleted>>

\* The stock is checked and the tracker set up: the run goes on, or it ends
\* as failed, whether the stock is refused or something raised.
Validate(t) ==
    /\ at[t] = "validate"
    /\ \E stage \in {NextStage("validate"), "fail"} : Goto(t, stage)
    /\ UNCHANGED <<memory, mongo, savedReports, linked, requested, errors, restarts,
                   requests, history>>

WriteMemory(t, status, stage) ==
    /\ SetMemory(t, status)
    /\ Goto(t, stage)
    /\ UNCHANGED <<mongo, savedReports, linked, requested, errors, restarts, requests,
                   history>>

WriteMongo(t, status, stage) ==
    /\ SetMongo(t, status)
    /\ Goto(t, stage)
    /\ UNCHANGED <<memory, savedReports, linked, requested, restarts, requests, raced,
                   deleted>>

\* The two "running" updates before the run enters the pool.
StartMemory(t) == at[t] \in {"start", "prepare"} /\ WriteMemory(t, "running", NextStage(at[t]))
StartMongo(t) ==
    at[t] \in {"startMongo", "prepareMongo"} /\ WriteMongo(t, "processing", NextStage(at[t]))

\* Mutant: a run that failed keeps its thread.
InPool_Leak == {t \in Tasks : at[t] = "thread" \/ (at[t] = "ended" /\ memory[t] = "failed")}

InPool == {t \in Tasks : at[t] = "thread"}

\* run_in_executor: a thread of the pool takes the run.
EnterPool(t) ==
    /\ at[t] = "pool"
    /\ Cardinality(InPool) < PoolSize
    /\ Goto(t, NextStage("pool"))
    /\ UNCHANGED <<memory, mongo, savedReports, linked, requested, errors, restarts,
                   requests, history>>

\* Mutant: the run does not wait for its thread.
Reporting_Unawaited(t) ==
    at[t] \in {"thread", "report", "link", "complete", "completeMongo", "ended"}

Reporting(t) == at[t] = "thread"

\* update_progress_sync and graph_progress_callback, in the thread: "running"
\* goes to memory; Mongo gets the progress and no status.
Progress(t) ==
    /\ Reporting(t)
    /\ SetMemory(t, "running")
    /\ UNCHANGED <<at, mongo, savedReports, linked, requested, errors, restarts,
                   requests, history>>

\* _run_analysis_sync returns its result, or raises.
LeavePool(t) ==
    /\ at[t] = "thread"
    /\ \E stage \in {NextStage("thread"), "fail"} : Goto(t, stage)
    /\ UNCHANGED <<memory, mongo, savedReports, linked, requested, errors, restarts,
                   requests, history>>

\* _save_analysis_result_web_style: the report, then the link to it.  When
\* either call raises, a result without a link is stored instead.
SaveReport(t) ==
    /\ at[t] = "report"
    /\ \/ savedReports' = savedReports \cup {t} /\ Goto(t, NextStage("report")) /\ MongoAnswers
       \/ UNCHANGED savedReports /\ Goto(t, NextStage("link")) /\ MongoRaises(t)
    /\ UNCHANGED <<memory, mongo, linked, requested, restarts, requests, raced, deleted>>

LinkReport(t) ==
    /\ at[t] = "link"
    /\ \/ linked' = (IF Matched(mongo[t]) THEN linked \cup {t} ELSE linked) /\ MongoAnswers
       \/ UNCHANGED linked /\ MongoRaises(t)
    /\ Goto(t, NextStage("link"))
    /\ UNCHANGED <<memory, mongo, savedReports, requested, restarts, requests, raced,
                   deleted>>

CompleteMemory(t) == at[t] = "complete" /\ WriteMemory(t, "completed", NextStage("complete"))
CompleteMongo(t) ==
    at[t] = "completeMongo" /\ WriteMongo(t, "completed", NextStage("completeMongo"))

FailMemory(t) == at[t] = "fail" /\ WriteMemory(t, "failed", "failMongo")
FailMongo(t) == at[t] = "failMongo" /\ WriteMongo(t, "failed", "ended")

-----------------------------------------------------------------------------
(* Requests on a task, which a client knows once it is in memory.          *)

Running(t) == at[t] \notin Over

\* mark_task_as_failed and delete_task: memory first, then Mongo.
Request(t, what, status) ==
    /\ requested[t] = "nothing" /\ at[t] # "create"
    /\ requests < MaxRequests
    /\ requests' = requests + 1
    /\ requested' = [requested EXCEPT ![t] = what]
    /\ raced' = IF Running(t) THEN raced \cup {t} ELSE raced
    /\ memory' = [memory EXCEPT ![t] = status]
    /\ UNCHANGED <<at, mongo, savedReports, linked, errors, restarts, unsaved, deleted>>

MarkMemory(t) == Request(t, "mark", IF Known(memory[t]) THEN "failed" ELSE memory[t])
DeleteMemory(t) == Request(t, "delete", "none")

\* A Mongo error here is answered with status 500.
MarkMongo(t) ==
    /\ requested[t] = "mark"
    /\ SetMongo(t, "failed")
    /\ requested' = [requested EXCEPT ![t] = "nothing"]
    /\ UNCHANGED <<at, memory, savedReports, linked, restarts, requests, raced, deleted>>

DeleteMongo(t) ==
    /\ requested[t] = "delete"
    /\ \/ /\ mongo' = [mongo EXCEPT ![t] = "none"]
          /\ linked' = linked \ {t}
          /\ deleted' = IF at[t] = "insert" THEN deleted ELSE deleted \cup {t}
          /\ MongoAnswers
       \/ UNCHANGED <<mongo, linked, deleted>> /\ MongoRaises(t)
    /\ requested' = [requested EXCEPT ![t] = "nothing"]
    /\ UNCHANGED <<at, memory, savedReports, restarts, requests, raced>>

\* cleanup_zombie_tasks of the service fails the tasks in memory that are
\* older than max_running_hours; any of them may be.  Its Mongo half raises on
\* every call and is answered as a failure: the filter puts started_at, no
\* operator, beside $lt, and the server refuses it.
Cleanup ==
    \E zombies \in SUBSET {t \in Tasks : memory[t] \in {"pending", "running"}} :
        /\ requests < MaxRequests /\ zombies # {}
        /\ requests' = requests + 1
        /\ memory' = [t \in Tasks |-> IF t \in zombies THEN "failed" ELSE memory[t]]
        /\ raced' = raced \cup zombies
        /\ UNCHANGED <<at, mongo, savedReports, linked, requested, errors, restarts,
                       unsaved, deleted>>

\* The process stops and starts again: memory, runs and requests are gone,
\* and nothing takes up what Mongo still shows as pending or processing.
Restart ==
    /\ restarts < MaxRestarts
    /\ restarts' = restarts + 1
    /\ memory' = [t \in Tasks |-> "none"]
    /\ at' = [t \in Tasks |-> IF at[t] \in {"create", "ended"} THEN at[t] ELSE "lost"]
    /\ requested' = [t \in Tasks |-> "nothing"]
    /\ UNCHANGED <<mongo, savedReports, linked, errors, requests, history>>

-----------------------------------------------------------------------------
RunTask(t) ==
    \/ Insert(t) \/ Validate(t) \/ StartMemory(t) \/ StartMongo(t) \/ EnterPool(t)
    \/ LeavePool(t) \/ SaveReport(t) \/ LinkReport(t) \/ CompleteMemory(t)
    \/ CompleteMongo(t) \/ FailMemory(t) \/ FailMongo(t)

StatusNext ==
    \/ \E t \in Tasks :
        \/ Create(t) \/ RunTask(t) \/ Progress(t)
        \/ MarkMemory(t) \/ MarkMongo(t) \/ DeleteMemory(t) \/ DeleteMongo(t)
    \/ Cleanup \/ Restart

StatusSpec == StatusInit /\ [][StatusNext]_statusVars

\* The event loop takes up every coroutine that can go on, the pool starts
\* what is queued, and an analysis returns or raises.
StatusFairness == \A t \in Tasks : WF_statusVars(RunTask(t))

StatusFairSpec == StatusSpec /\ StatusFairness

-----------------------------------------------------------------------------
\* A task that memory or Mongo calls completed has its report saved and
\* linked, so a client that saw "completed" finds the result even after a
\* restart, whatever requests met the run; unless a Mongo call failed for it.
CompletedIsSaved ==
    \A t \in Tasks \ unsaved :
        memory[t] = "completed" \/ mongo[t] = "completed" => t \in linked

\* Once a task's run is over and no request is in progress on it, memory and
\* Mongo agree on how it ended, marked as failed afterwards or not; unless a
\* Mongo call failed for it or a request met the run while it went on.
AgreeAtRest ==
    \A t \in Tasks \ (unsaved \cup raced) :
        at[t] = "ended" /\ requested[t] = "nothing" /\ memory[t] # "none"
            => memory[t] \in Final /\ mongo[t] = memory[t]

\* A final status never turns back to running, whatever the thread, the run
\* and the requests do and in whatever order; except where mark-failed,
\* delete or the clean-up met a run that was still going on.
NotRunningAgain ==
    [][\A t \in Tasks \ raced : memory[t] \in Final => memory'[t] # "running"]_statusVars

\* A task whose deletion was answered does not come back, not in memory and
\* not in Mongo, although its run goes on writing.
DeletedIsGone ==
    \A t \in deleted : memory[t] = "none" /\ mongo[t] = "none"

\* Every run comes to its end, or the process is restarted under it.
RunEnds ==
    \A t \in Tasks : at[t] = "insert" ~> at[t] \in Over
=============================================================================
