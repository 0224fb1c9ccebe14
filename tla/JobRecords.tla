----------------------------- MODULE JobRecords -----------------------------
(***************************************************************************)
(* The execution records of one scheduled job: SchedulerService and        *)
(* update_job_progress (app/services/scheduler_service.py) with the        *)
(* progress helpers of app/worker/tushare_sync_service.py.                 *)
(*                                                                         *)
(* A run is started by the scheduler, one instance at a time.  What its    *)
(* record says is written by others: a manual trigger inserts a running    *)
(* record, the run may report progress, a listener started when the run    *)
(* ends looks for a running record to close and otherwise inserts one, a   *)
(* check closes what has been running too long, and requests cancel, fail  *)
(* or delete a record.  None of them knows which run a record belongs to.  *)
(* The listeners and the check exist once a scheduler endpoint has been    *)
(* called since the process started.                                       *)
(*                                                                         *)
(* Time is the age of a record, in ticks, up to one past Overdue.          *)
(* Arguments, messages and the history of operations are left out.         *)
(***************************************************************************)
EXTENDS Naturals, Sequences, FiniteSets, FiniteSetsExt

CONSTANTS
    JobKinds,          \* of the job: how it reports its progress
    Batches,        \* batches of one run
    Recent,         \* age up to which a listener takes a running record (5 min)
    Overdue,        \* age past which the check closes one (30 min)
    MaxRuns,        \* bound: runs started or missed
    MaxEvents       \* bound: triggers, requests, restarts, failing listeners

ASSUME JobsAssumption ==
    /\ JobKinds \subseteq {"silent", "polls", "reports"}
    /\ Batches \in Nat \ {0} /\ Recent \in Nat /\ Overdue \in Nat /\ Recent < Overdue
    /\ MaxRuns \in Nat /\ MaxEvents \in Nat

VARIABLES
    kind,           \* the kind of this job
    records,        \* scheduler_executions, oldest first
    service,        \* the SchedulerService of this process exists
    paused, due,    \* the job is paused; a manual trigger set it to run now
    current,            \* the run in progress: number, stage, batches left
    nextRun,
    listeners,      \* per run: the task that records its end
    unrecorded,     \* manual triggers that have yet to insert their record
    order,          \* the request between its read and its write
    closing,        \* what the check has found and not yet closed
    eventCount,         \* of those MaxEvents bounds
    outcome,        \* history: per run, how it ended
    stoppedBy,      \* history: per run, the record whose flag stopped it, or 0
    orderly         \* history: no two of the above have overlapped, see below

jobRun == <<current, nextRun, outcome, stoppedBy>>
jobVars == <<kind, records, service, paused, due, jobRun, listeners, unrecorded,
             order, closing, eventCount, orderly>>

RunIds == 1 .. MaxRuns
RunVerdicts == {"success", "failed", "missed"}
NoRun == [n |-> 0, at |-> "idle", left |-> 0]
NoListener == [at |-> "none", status |-> "missed", target |-> 0]
NoOrder == [what |-> "none", target |-> 0]

\* of is no field of the document: the run a trigger meant its record for.
Record(status, of) == [status |-> status, cancel |-> FALSE, age |-> 0, of |-> of]

JobsTypeOK ==
    /\ kind \in JobKinds /\ {service, paused, due, orderly} \subseteq BOOLEAN
    /\ \A i \in DOMAIN records :
          records[i] \in [status : RunVerdicts \cup {"running", "deleted"}, cancel : BOOLEAN,
                          age : 0 .. Overdue + 1, of : 0 .. MaxRuns + 1]
    /\ current \in [n : 0 .. MaxRuns, at : {"idle", "start", "check", "batch", "report"},
                    left : 0 .. Batches]
    /\ current.at = "idle" <=> current.left = 0
    /\ nextRun \in 1 .. MaxRuns + 1 /\ unrecorded \in 0 .. MaxEvents
    /\ \A n \in RunIds :
          /\ listeners[n].at \in {"none", "find", "update", "insert"}
          /\ listeners[n].at = "update" => listeners[n].target \in DOMAIN records
    /\ order.target \in {0} \cup DOMAIN records
    /\ closing \subseteq DOMAIN records
    /\ outcome \in [RunIds -> RunVerdicts \cup {"none", "lost"}]
    /\ stoppedBy \in [RunIds -> {0} \cup DOMAIN records]

JobsInit ==
    /\ kind \in JobKinds /\ records = <<>>
    /\ service = FALSE /\ paused = FALSE /\ due = FALSE
    /\ current = NoRun /\ nextRun = 1
    /\ listeners = [n \in RunIds |-> NoListener]
    /\ unrecorded = 0 /\ order = NoOrder /\ closing = {}
    /\ eventCount = 0
    /\ outcome = [n \in RunIds |-> "none"] /\ stoppedBy = [n \in RunIds |-> 0]
    /\ orderly = TRUE

-----------------------------------------------------------------------------
\* The queries of the collection; timestamps grow with insertion.

With(statuses) == {i \in DOMAIN records : records[i].status \in statuses}

\* find_one(..., sort=[("timestamp", -1)]) among the records in S; 0 for none.
Newest(S) == IF S = {} THEN 0 ELSE Max(S)

Recorded(i, status) == records' = [records EXCEPT ![i].status = status]
Inserted(status, of) == records' = Append(records, Record(status, of))

Event == eventCount < MaxEvents /\ eventCount' = eventCount + 1

Quiet == \A n \in RunIds : listeners[n].at = "none"

-----------------------------------------------------------------------------
\* The scheduler and the run.

\* A scheduler endpoint is called: get_scheduler_service builds the service.
OpenService ==
    /\ ~ service /\ service' = TRUE
    /\ UNCHANGED <<kind, records, paused, due, jobRun, listeners, unrecorded, order, closing,
                   eventCount, orderly>>

\* The next run time has come: it was set by a trigger or by the schedule.  The
\* history is orderly no more if a listener is still at work, or if the run is
\* dropped because one is in progress (max_instances).
Fire ==
    /\ nextRun \in RunIds /\ (due \/ ~ paused)
    /\ due' = FALSE
    /\ \/ /\ current = NoRun
          /\ current' = [n |-> nextRun, at |-> "start", left |-> Batches]
          /\ nextRun' = nextRun + 1
          /\ orderly' = (orderly /\ Quiet)
       \/ /\ current # NoRun /\ due
          /\ orderly' = FALSE
          /\ UNCHANGED <<current, nextRun>>
    /\ UNCHANGED <<kind, records, service, paused, outcome, stoppedBy, listeners, unrecorded,
                   order, closing, eventCount>>

\* _on_job_missed: the scheduler comes to the job too late and skips the run.
Misfire ==
    /\ nextRun \in RunIds /\ (due \/ ~ paused)
    /\ due' = FALSE /\ nextRun' = nextRun + 1
    /\ outcome' = [outcome EXCEPT ![nextRun] = "missed"]
    /\ listeners' = IF service THEN [listeners EXCEPT ![nextRun].at = "insert"] ELSE listeners
    /\ orderly' = (orderly /\ service /\ ~ due)
    /\ UNCHANGED <<kind, records, service, paused, current, stoppedBy, unrecorded, order, closing,
                   eventCount>>

\* The run ends; _on_job_executed or _on_job_error starts a task to record it.
End(verdict) ==
    /\ current' = NoRun
    /\ outcome' = [outcome EXCEPT ![current.n] = verdict]
    /\ listeners' = IF service
                    THEN [listeners EXCEPT ![current.n] =
                             [at |-> "find", status |-> verdict, target |-> 0]]
                    ELSE listeners
    /\ orderly' = (orderly /\ service /\ unrecorded = 0 /\ Quiet)

Goes(stage) == current' = [current EXCEPT !.at = stage] /\ UNCHANGED <<outcome,
                                                                       listeners,
                                                                       orderly>>

runUnchanged == <<kind, service, paused, due, nextRun, unrecorded, order, closing, eventCount>>

\* The sync service is initialised, which may raise.  Without a list of stocks
\* the run returns at once.
Begin ==
    /\ current.at = "start"
    /\ \/ Goes(IF kind = "polls" THEN "check" ELSE "batch")
       \/ End("failed") \/ End("success")
    /\ UNCHANGED <<runUnchanged, records, stoppedBy>>

\* A flag on the newest running record ends the run, which then counts as a
\* success: sync_stock_basic_info returns its statistics in either case.
Stopped(i) ==
    /\ End("success")
    /\ stoppedBy' = [stoppedBy EXCEPT ![current.n] = i]

\* _should_stop, before a batch.
Check ==
    LET i == Newest(With({"running"})) IN
    /\ current.at = "check"
    /\ IF i # 0 /\ records[i].cancel
       THEN Stopped(i)
       ELSE Goes("batch") /\ UNCHANGED stoppedBy
    /\ UNCHANGED <<runUnchanged, records>>

LastBatch == current.left = 1

NextBatch ==
    IF LastBatch
    THEN End("success")
    ELSE /\ current' = [current EXCEPT !.left = @ - 1,
                                       !.at = IF kind = "polls" THEN "check" ELSE "batch"]
         /\ UNCHANGED <<outcome, listeners, orderly>>

\* One batch; only a job that polls reports after each.  An exception ends the
\* run in a normal return.
Batch ==
    /\ current.at = "batch"
    /\ \/ kind # "polls" /\ NextBatch
       \/ kind # "silent" /\ Goes("report")
       \/ End("success")
    /\ UNCHANGED <<runUnchanged, records, stoppedBy>>

\* _update_progress: the flag of the newest running record raises.
PollProgress ==
    LET i == Newest(With({"running"})) IN
    /\ current.at = "report" /\ kind = "polls"
    /\ IF i # 0 /\ records[i].cancel
       THEN Stopped(i)
       ELSE NextBatch /\ UNCHANGED stoppedBy
    /\ UNCHANGED <<runUnchanged, records>>

\* update_job_progress: the newest record is running again, whatever it said,
\* or is inserted; a flag raises inside the function's own try and is ignored.
Report ==
    LET i == Newest(With({"running", "success", "failed"})) IN
    /\ current.at = "report" /\ kind = "reports"
    /\ IF i = 0 THEN Inserted("running", 0)
       ELSE IF records[i].cancel THEN UNCHANGED records
       ELSE Recorded(i, "running")
    /\ NextBatch
    /\ UNCHANGED <<runUnchanged, stoppedBy>>

RunStep == Begin \/ Check \/ Batch \/ PollProgress \/ Report

-----------------------------------------------------------------------------
\* The tasks of the listeners: _record_job_execution.

\* Mutant: the running record is not looked for.
Candidates_None == {}

Candidates == {i \in With({"running"}) : records[i].age <= Recent}

Find(n) ==
    /\ listeners[n].at = "find"
    /\ listeners' = [listeners EXCEPT ![n].at = IF Candidates = {} THEN "insert" ELSE "update",
                                      ![n].target = Newest(Candidates)]
    /\ UNCHANGED <<kind, records, service, paused, due, jobRun, unrecorded, order, closing,
                   eventCount, orderly>>

WriteEnd(n) ==
    /\ \/ /\ listeners[n].at = "update"
          /\ IF records[listeners[n].target].status = "deleted"
             THEN UNCHANGED records
             ELSE Recorded(listeners[n].target, listeners[n].status)
       \/ /\ listeners[n].at = "insert"
          /\ Inserted(listeners[n].status, 0)
    /\ listeners' = [listeners EXCEPT ![n] = NoListener]
    /\ UNCHANGED <<kind, service, paused, due, jobRun, unrecorded, order, closing,
                   eventCount, orderly>>

\* A call of the task raises, and the task swallows it.
LoseRecord(n) ==
    /\ listeners[n].at # "none" /\ Event
    /\ listeners' = [listeners EXCEPT ![n] = NoListener]
    /\ orderly' = FALSE
    /\ UNCHANGED <<kind, records, service, paused, due, jobRun, unrecorded, order,
                   closing>>

-----------------------------------------------------------------------------
\* Requests.

\* trigger_job up to its first await: the job is to run now, paused or not.
TriggerJob ==
    /\ service /\ Event /\ nextRun \in RunIds
    /\ due' = TRUE /\ paused' = FALSE
    /\ unrecorded' = unrecorded + 1
    /\ orderly' = (orderly /\ ~ due /\ current = NoRun /\ unrecorded = 0 /\ Quiet)
    /\ UNCHANGED <<kind, records, service, jobRun, listeners, order, closing>>

\* ... and its insertion of the running record, by when the run may be over.
TriggerRecord ==
    /\ unrecorded > 0
    /\ unrecorded' = unrecorded - 1
    /\ Inserted("running", IF current = NoRun THEN nextRun ELSE current.n)
    /\ UNCHANGED <<kind, service, paused, due, jobRun, listeners, order, closing,
                   eventCount, orderly>>

\* pause_job clears the next run time, a trigger's too; resume_job undoes it.
PauseJob ==
    /\ service /\ Event
    /\ paused' = ~ paused /\ due' = (due /\ paused)
    /\ orderly' = (orderly /\ ~ due)
    /\ UNCHANGED <<kind, records, service, jobRun, listeners, unrecorded, order, closing>>

\* cancel_job_execution, mark_execution_as_failed and delete_execution read a
\* record, check it, and write by its id later.
ReadRecord(i, what) ==
    /\ service /\ order = NoOrder /\ Event
    /\ i \in DOMAIN records /\ records[i].status # "deleted"
    /\ what = "cancel" => records[i].status = "running"
    /\ what = "delete" => records[i].status # "running"
    /\ order' = [what |-> what, target |-> i]
    /\ UNCHANGED <<kind, records, service, paused, due, jobRun, listeners, unrecorded,
                   closing, orderly>>

WriteRecord ==
    LET i == order.target IN
    /\ order # NoOrder /\ order' = NoOrder
    /\ IF records[i].status = "deleted" THEN UNCHANGED records
       ELSE CASE order.what = "cancel" -> records' = [records EXCEPT ![i].cancel = TRUE]
              [] order.what = "mark"   -> Recorded(i, "failed")
              [] order.what = "delete" -> Recorded(i, "deleted")
    /\ orderly' = (orderly /\ order.what = "cancel")
    /\ UNCHANGED <<kind, service, paused, due, jobRun, listeners, unrecorded, closing,
                   eventCount>>

-----------------------------------------------------------------------------
\* _check_zombie_tasks, every five minutes.

\* Mutant: only records that a listener might still take are found.
IsZombie_Recent(i) == records[i].age = Recent

IsZombie(i) == records[i].age > Overdue

ZombieFind ==
    /\ service /\ closing = {}
    /\ closing' = {i \in With({"running"}) : IsZombie(i)}
    /\ UNCHANGED <<kind, records, service, paused, due, jobRun, listeners, unrecorded, order,
                   eventCount, orderly>>

\* Closed by its id alone, whatever it says by now.
ZombieClose(i) ==
    /\ i \in closing /\ closing' = closing \ {i}
    /\ IF records[i].status = "deleted" THEN UNCHANGED records ELSE Recorded(i, "failed")
    /\ orderly' = FALSE
    /\ UNCHANGED <<kind, service, paused, due, jobRun, listeners, unrecorded, order,
                   eventCount>>

\* The process restarts: runs, tasks and requests are gone, the records stay.
JobsRestart ==
    /\ Event
    /\ service' = FALSE /\ due' = FALSE /\ current' = NoRun
    /\ outcome' = IF current = NoRun THEN outcome ELSE [outcome EXCEPT ![current.n] = "lost"]
    /\ listeners' = [n \in RunIds |-> NoListener]
    /\ unrecorded' = 0 /\ order' = NoOrder /\ closing' = {}
    /\ orderly' = FALSE
    /\ UNCHANGED <<kind, records, paused, nextRun, stoppedBy>>

\* Time passes; a record that runs past Recent is out of its listener's reach.
JobsTick ==
    /\ records' = [i \in DOMAIN records |->
                     [records[i] EXCEPT !.age = IF @ > Overdue THEN @ ELSE @ + 1]]
    /\ orderly' = (orderly /\ \A i \in With({"running"}) : records[i].age < Recent)
    /\ UNCHANGED <<kind, service, paused, due, jobRun, listeners, unrecorded, order,
                   closing, eventCount>>

JobsNext ==
    \/ OpenService \/ Fire \/ Misfire \/ RunStep
    \/ \E n \in RunIds : Find(n) \/ WriteEnd(n) \/ LoseRecord(n)
    \/ TriggerJob \/ TriggerRecord \/ PauseJob
    \/ \E i \in DOMAIN records, what \in {"cancel", "mark", "delete"} : ReadRecord(i, what)
    \/ WriteRecord
    \/ ZombieFind \/ \E i \in closing : ZombieClose(i)
    \/ JobsRestart \/ JobsTick

\* Time passes and the check's job comes round; nothing is asked of the runs,
\* which may hang, of the listeners or of the users.
JobsFairness ==
    /\ WF_jobVars(JobsTick) /\ WF_jobVars(ZombieFind)
    /\ WF_jobVars(\E i \in closing : ZombieClose(i))

JobsSpec == JobsInit /\ [][JobsNext]_jobVars /\ JobsFairness

-----------------------------------------------------------------------------
AtRest ==
    /\ current = NoRun /\ ~ due /\ unrecorded = 0 /\ Quiet /\ order = NoOrder /\ closing = {}

\* As long as runs, triggers and listeners do not overlap, no record grows
\* older than a listener looks back and nothing fails, every run has left one
\* record with its verdict and no record is left running: a listener neither
\* closes another run's record nor adds a second (_record_job_execution looks
\* for "the" running record, and an automatic run has none).
OneRecordPerRun ==
    orderly /\ kind # "reports" /\ AtRest =>
        /\ With({"running"}) = {}
        /\ \A v \in RunVerdicts :
              Cardinality(With({v})) = Cardinality({n \in RunIds : outcome[n] = v})

\* Under the same conditions a cancellation stops no other run than the one its
\* record was inserted for: the flag stays on the record, and the next run
\* reads the newest running record (_should_stop, _update_progress).
CancelHitsItsRun ==
    orderly => \A n \in RunIds : stoppedBy[n] # 0 => records[stoppedBy[n]].of = n

\* A job's records are those of its runs, and a record's cancellation is its
\* run's, unless runs, triggers and listeners have overlapped.
RecordsMatchRuns == OneRecordPerRun /\ CancelHitsItsRun

\* Whatever is hung, lost, overtaken or reopened by a progress report, no record
\* runs for ever in a process whose scheduler service exists for good: the check
\* closes it (_check_zombie_tasks).
NothingRunsForever ==
    <>[]service =>
        \A i \in 1 .. MaxRuns + MaxEvents + MaxRuns * Batches :
            []<>(i \in DOMAIN records => records[i].status # "running")
=============================================================================
