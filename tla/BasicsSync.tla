------------------------------ MODULE BasicsSync ------------------------------
(***************************************************************************)
(* The full synchronisation of the stock list: MultiSourceBasicsSyncService*)
(* (app/services/multi_source_basics_sync_service.py).  BasicsSyncService  *)
(* (app/services/basics_sync_service.py) has the same shape.               *)
(*                                                                         *)
(* A process has two instances: the one main.py starts once, at boot, and  *)
(* the one the router shares between its requests (the job main.py also    *)
(* schedules is a lambda: its coroutine is never awaited, so it is no      *)
(* caller).  Each has its own flag and last status; both write the same    *)
(* status document and the same stocks.  A step is the code between two    *)
(* awaits.                                                                 *)
(*                                                                         *)
(* The stocks are batches, the providers an outcome; counts other than the *)
(* errors are left out.                                                    *)
(***************************************************************************)
EXTENDS Naturals, FiniteSets

CONSTANTS
    Calls,          \* calls of run_full_sync in progress
    SyncBatches,    \* batches of one list
    MaxTries,       \* max_retries of a bulk write
    MaxStarts,      \* bound: calls
    MaxRaises       \* bound: calls to Mongo that raise, cache deletions, restarts

ASSUME SyncAssumption ==
    /\ SyncBatches \in Nat \ {0} /\ MaxTries \in Nat \ {0}
    /\ MaxStarts \in Nat /\ MaxRaises \in Nat

VARIABLES
    running,        \* per instance: _running
    lastStatus,     \* per instance: the status in _last_status
    statusDoc,      \* the status in sync_status
    booted,         \* the instance of main.py has been called
    call,           \* per call: see Resting
    clearing,       \* a cache deletion is between its two effects
    starts, raises, \* of those MaxStarts and MaxRaises bound
    stored,         \* history: per call, the batches it has written
    unguarded,      \* history: instances forced or cleared during a call
    cut             \* history: per instance, an announcement raised; and "doc",
                    \* a status was lost: by a write that raised or a restart

syncVars == <<running, lastStatus, statusDoc, booted, call, clearing, starts, raises,
              stored, unguarded, cut>>

Instances == {"boot", "router"}
Ends == {"success", "success_with_errors", "failed"}
Resting == [at |-> "idle", inst |-> "router", left |-> 0, tries |-> 0, errors |-> 0,
            says |-> "none"]

SyncInit ==
    /\ running = [i \in Instances |-> FALSE]
    /\ lastStatus = [i \in Instances |-> "none"] /\ statusDoc = "none"
    /\ booted = FALSE /\ call = [c \in Calls |-> Resting] /\ clearing = FALSE
    /\ starts = 0 /\ raises = 0
    /\ stored = [c \in Calls |-> {}] /\ unguarded = {} /\ cut = {}

-----------------------------------------------------------------------------
\* Past the flag and not yet in the finally.
Works(c) == call[c].at \in {"announce", "fetch", "write", "report", "fail", "release"}

WorkersOf(i) == {c \in Calls : Works(c) /\ call[c].inst = i}

\* Mutant: the lock is held for the whole run, and its end wants it again.
LockFreeAt_WholeRun(i) == \A c \in Calls : call[c].inst = i => call[c].at = "idle"

\* The instance's lock is held across an await only by a call that was turned
\* away and reads the status.
LockFreeAt(i) == \A c \in Calls : ~ (call[c].at = "skip" /\ call[c].inst = i)

SyncAt(c, stage) == call' = [call EXCEPT ![c].at = stage]

\* _persist_status: the document, then the instance's copy of it.
Persist(i, status) ==
    /\ statusDoc' = status
    /\ lastStatus' = [lastStatus EXCEPT ![i] = status]

SyncRaise == raises < MaxRaises /\ raises' = raises + 1

-----------------------------------------------------------------------------
\* Mutant: the flag is looked at by forced calls only.
TurnedAway_Never(i, force) == running[i] /\ force /\ ~ force

TurnedAway(i, force) == running[i] /\ ~ force

\* A call is turned away, or sets the flag.  What it is told if turned away is
\* the last status the instance has written, or else the document's.
StartSync(c, i, force) ==
    /\ call[c].at = "idle" /\ starts < MaxStarts /\ LockFreeAt(i)
    /\ i = "boot" => ~ booted /\ ~ force
    /\ starts' = starts + 1
    /\ booted' = (booted \/ i = "boot")
    /\ IF TurnedAway(i, force)
       THEN /\ \/ lastStatus[i] # "none" /\ UNCHANGED call
               \/ lastStatus[i] = "none"
                  /\ call' = [call EXCEPT ![c] = [Resting EXCEPT !.inst = i, !.at = "skip"]]
            /\ UNCHANGED <<running, stored, unguarded>>
       ELSE /\ running' = [running EXCEPT ![i] = TRUE]
            /\ call' = [call EXCEPT ![c] = [Resting EXCEPT !.inst = i, !.at = "announce"]]
            /\ stored' = [stored EXCEPT ![c] = {}]
            /\ unguarded' = IF force /\ WorkersOf(i) # {} THEN unguarded \cup {i} ELSE unguarded
    /\ UNCHANGED <<lastStatus, statusDoc, clearing, raises, cut>>

\* The read of the status ends, or raises, and the lock is released.
SkipRead(c) ==
    /\ call[c].at = "skip"
    /\ call' = [call EXCEPT ![c] = Resting]
    /\ UNCHANGED <<running, lastStatus, statusDoc, booted, clearing, starts, raises,
                   stored, unguarded, cut>>

\* The status "running" is written before the try.
Announce(c) ==
    /\ call[c].at = "announce"
    /\ Persist(call[c].inst, "running")
    /\ SyncAt(c, "fetch")
    /\ UNCHANGED <<running, booted, clearing, starts, raises, stored, unguarded, cut>>

\* ... so that when it raises nothing resets the flag.
AnnounceRaises(c) ==
    /\ call[c].at = "announce" /\ SyncRaise
    /\ call' = [call EXCEPT ![c] = Resting]
    /\ cut' = cut \cup {call[c].inst, "doc"}
    /\ UNCHANGED <<running, lastStatus, statusDoc, booted, clearing, starts, stored,
                   unguarded>>

\* The list, the last trade date and the daily data come from the first
\* provider that has them; without a list the run fails.
FetchList(c) ==
    /\ call[c].at = "fetch"
    /\ \/ call' = [call EXCEPT ![c].at = "write", ![c].left = SyncBatches]
       \/ SyncAt(c, "fail")
    /\ UNCHANGED <<running, lastStatus, statusDoc, booted, clearing, starts, raises,
                   stored, unguarded, cut>>

\* After a batch, written or given up.
BatchDone(c, failed) ==
    call' = [call EXCEPT ![c].left = @ - 1, ![c].tries = 0, ![c].errors = @ + failed,
                         ![c].at = IF call[c].left = 1 THEN "report" ELSE "write"]

GivenUp == 1

TryAgain(c) == call[c].tries + 1 < MaxTries

\* One try of _execute_bulk_write_with_retry: it succeeds, or raises or times
\* out, with or without the batch written; only a timeout is tried again.
WriteBatch(c) ==
    LET written == [stored EXCEPT ![c] = @ \cup {call[c].left}] IN
    /\ call[c].at = "write"
    /\ \/ stored' = written /\ BatchDone(c, 0)
       \/ stored' \in {stored, written} /\ BatchDone(c, GivenUp)
       \/ /\ stored' \in {stored, written} /\ TryAgain(c)
          /\ call' = [call EXCEPT ![c].tries = @ + 1]
    /\ UNCHANGED <<running, lastStatus, statusDoc, booted, clearing, starts, raises,
                   unguarded, cut>>

SyncVerdict(c) == IF call[c].errors = 0 THEN "success" ELSE "success_with_errors"

ReportEnd(c) ==
    /\ call[c].at = "report"
    /\ Persist(call[c].inst, SyncVerdict(c))
    /\ call' = [call EXCEPT ![c].at = "release", ![c].says = SyncVerdict(c)]
    /\ UNCHANGED <<running, booted, clearing, starts, raises, stored, unguarded, cut>>

\* A report that raises makes the run a failed one.
ReportRaises(c) ==
    /\ call[c].at = "report" /\ SyncRaise /\ SyncAt(c, "fail")
    /\ UNCHANGED <<running, lastStatus, statusDoc, booted, clearing, starts, stored,
                   unguarded, cut>>

\* Mutant: a failed run returns without writing its status.
ReportFailure_Unwritten(c) ==
    /\ call[c].at = "fail"
    /\ call' = [call EXCEPT ![c].at = "release", ![c].says = "failed"]
    /\ UNCHANGED <<running, lastStatus, statusDoc, booted, clearing, starts, raises,
                   stored, unguarded, cut>>

ReportFailure(c) ==
    /\ call[c].at = "fail"
    /\ Persist(call[c].inst, "failed")
    /\ call' = [call EXCEPT ![c].at = "release", ![c].says = "failed"]
    /\ UNCHANGED <<running, booted, clearing, starts, raises, stored, unguarded, cut>>

\* The finally still runs when the except clause raises.
FailureRaises(c) ==
    /\ call[c].at = "fail" /\ SyncRaise /\ SyncAt(c, "release")
    /\ cut' = cut \cup {"doc"}
    /\ UNCHANGED <<running, lastStatus, statusDoc, booted, clearing, starts, stored,
                   unguarded>>

\* The finally resets the flag, whoever else is at work.
ReleaseFlag(c) ==
    /\ call[c].at = "release" /\ LockFreeAt(call[c].inst)
    /\ running' = [running EXCEPT ![call[c].inst] = FALSE]
    /\ call' = [call EXCEPT ![c] = Resting]
    /\ UNCHANGED <<lastStatus, statusDoc, booted, clearing, starts, raises, stored,
                   unguarded, cut>>

\* DELETE /cache: the document is deleted ...
DeleteStatus ==
    /\ ~ clearing /\ SyncRaise
    /\ clearing' = TRUE /\ statusDoc' = "none"
    /\ UNCHANGED <<running, lastStatus, booted, call, starts, stored, unguarded, cut>>

\* ... and then the router's flag is reset without its lock; a deletion that
\* raises leaves both.
ClearCache ==
    /\ clearing /\ clearing' = FALSE
    /\ running' = [running EXCEPT !["router"] = FALSE]
    /\ unguarded' = IF WorkersOf("router") = {} THEN unguarded ELSE unguarded \cup {"router"}
    /\ cut' = cut \ {"router"}
    /\ UNCHANGED <<lastStatus, statusDoc, booted, call, starts, raises, stored>>

\* The process restarts; only the document stays.
SyncRestart ==
    /\ SyncRaise
    /\ running' = [i \in Instances |-> FALSE]
    /\ lastStatus' = [i \in Instances |-> "none"]
    /\ booted' = FALSE /\ call' = [c \in Calls |-> Resting] /\ clearing' = FALSE
    /\ unguarded' = {} /\ cut' = {"doc"}
    /\ UNCHANGED <<statusDoc, starts, stored>>

SyncStep(c) ==
    \/ SkipRead(c) \/ Announce(c) \/ FetchList(c) \/ WriteBatch(c)
    \/ ReportEnd(c) \/ ReportFailure(c) \/ ReleaseFlag(c)

SyncNext ==
    \/ \E c \in Calls :
          \/ \E i \in Instances, force \in BOOLEAN : StartSync(c, i, force)
          \/ SyncStep(c)
          \/ AnnounceRaises(c) \/ ReportRaises(c) \/ FailureRaises(c)
    \/ DeleteStatus \/ ClearCache \/ SyncRestart

\* Every await of a call comes back: a batch that times out is a try of its own.
SyncFairness == \A c \in Calls : WF_syncVars(SyncStep(c))

SyncSpec == SyncInit /\ [][SyncNext]_syncVars /\ SyncFairness

-----------------------------------------------------------------------------
\* Every variable stays in its domain, and a call that does not work holds no
\* trace of an earlier one.
SyncTypeOK ==
    /\ running \in [Instances -> BOOLEAN] /\ {booted, clearing} \subseteq BOOLEAN
    /\ lastStatus \in [Instances -> Ends \cup {"none", "running"}]
    /\ statusDoc \in Ends \cup {"none", "running"}
    /\ \A c \in Calls :
          /\ call[c].at \in {"idle", "skip", "announce", "fetch", "write", "report", "fail",
                            "release"}
          /\ call[c].tries \in 0 .. MaxTries - 1 /\ call[c].errors \in 0 .. SyncBatches
          /\ call[c].left \in 0 .. SyncBatches /\ (call[c].at = "write" <=> call[c].left # 0)
          /\ call[c].at = "idle" <=> call[c] = Resting
          /\ stored[c] \subseteq 1 .. SyncBatches

\* Unless it was forced or its flag was cleared in mid-run, an instance runs one
\* synchronisation at a time, and its flag is set exactly while it does, or for
\* good after the first write of a run has raised: that write comes between the
\* flag and the try (run_full_sync).
FlagMeansRunning ==
    \A i \in Instances : i \notin unguarded =>
        /\ Cardinality(WorkersOf(i)) <= 1
        /\ WorkersOf(i) # {} => running[i]
        /\ running[i] /\ WorkersOf(i) = {} => i \in cut

\* When nothing runs, the status document does not say "running", however the
\* instances' runs interleave: the last of them has written its end, unless
\* that write raised or the process stopped in between.
StatusSettles ==
    (\A c \in Calls : ~ Works(c)) /\ "doc" \notin cut => statusDoc # "running"

\* A run that says "success" has written every batch, through whatever timeouts
\* and retries (_execute_bulk_write_with_retry).
SuccessIsComplete ==
    \A c \in Calls : call[c].says = "success" => stored[c] = 1 .. SyncBatches

\* What the status says is so: "running" while a run is, "success" when all is
\* written.
StatusTells == StatusSettles /\ SuccessIsComplete

\* Every call ends: tries are bounded, and no call keeps the lock.
SyncEnds == \A c \in Calls : call[c].at # "idle" ~> call[c].at = "idle"
=============================================================================
