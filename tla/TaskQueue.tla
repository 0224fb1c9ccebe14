----------------------------- MODULE TaskQueue -----------------------------
(***************************************************************************)
(* The analysis task queue: QueueService (app/services/queue_service.py),  *)
(* its Redis helpers (app/services/queue/helpers.py), the API handlers     *)
(* that enqueue and cancel, and the worker process that consumes the queue *)
(* (app/worker/analysis_worker.py).                                        *)
(*                                                                         *)
(* Every method of QueueService is a sequence of separate awaited Redis    *)
(* commands, with no MULTI, no script and no lock, so each command is one  *)
(* step here and any two callers interleave between their commands.  Reads *)
(* of hash fields that no command ever changes (id, user, params) take no  *)
(* step of their own.  A worker process is one asyncio event loop that     *)
(* runs three coroutines: the work loop, the lease renewal of the current  *)
(* task, and the cleanup of expired leases.                                *)
(***************************************************************************)
EXTENDS Integers, Sequences, FiniteSets

CONSTANTS
    Tasks,          \* the task ids (uuids) that may ever be created
    Users,
    owner,          \* owner[t]: the "user" field of the task hash
    Batches,        \* batch ids
    NoBatch,
    batch,          \* batch[t]: the batch t is submitted in, or NoBatch
    follows,        \* follows[t]: the task submitted just before t in its
                    \* batch, NoTask for the first one
    Workers,        \* worker ids, one per process
    NoTask,
    UserLimit,      \* user_concurrent_limit
    GlobalLimit,    \* global_concurrent_limit
    VT,             \* visibility_timeout, in seconds
    TPS,            \* ticks per second of the modelled clock
    Cleaners,       \* bound: workers whose cleanup interval elapses
    Renewers,       \* bound: workers whose renewal interval elapses
    Stoppable,      \* bound: workers that may get SIGINT/SIGTERM
    Cancellable,    \* bound: tasks whose owner may cancel them, once
    MaxPasses,      \* bound on cleanup passes that find a due lease
    MaxCrashes,     \* bound on worker processes killed
    MaxErrors       \* bound on Redis commands that raise

ASSUME QueueAssumption ==
    /\ owner \in [Tasks -> Users]
    /\ batch \in [Tasks -> Batches \cup {NoBatch}]
    /\ follows \in [Tasks -> Tasks \cup {NoTask}]
    /\ NoTask \notin Tasks /\ NoBatch \notin Batches
    /\ UserLimit \in Nat \ {0} /\ GlobalLimit \in Nat \ {0}
    /\ VT \in Nat \ {0} /\ TPS \in Nat \ {0}
    /\ Cleaners \subseteq Workers /\ Renewers \subseteq Workers
    /\ Stoppable \subseteq Workers /\ Cancellable \subseteq Tasks
    /\ MaxPasses \in Nat /\ MaxCrashes \in Nat /\ MaxErrors \in Nat

\* A task is preceded by one of its own batch, and there are finitely many
\* worker processes.
ASSUME DeploymentAssumption ==
    /\ \A t \in Tasks : follows[t] # NoTask => batch[follows[t]] = batch[t]
    /\ IsFiniteSet(Workers)

VARIABLES
    \* ---- Redis ----
    ready,          \* qa:ready; LPUSH appends at the end, RPOP takes the head
    status,         \* status field of qa:task:<t>, "none" when no such hash
    userProc,       \* qa:user_processing:<u>
    processing,     \* qa:processing
    completed,      \* qa:completed
    failed,         \* qa:failed
    lease,          \* qa:visibility:<t>, for the tasks that have the key
    opened,         \* batches whose qa:batch:<b> hash exists
    members,        \* qa:batch_tasks:<b>
    \* ---- API processes ----
    epc,            \* where the enqueue of task t stands
    xpc,            \* where the cancel of task t stands
    \* ---- worker processes ----
    running,        \* self.running
    wpc,            \* control point of the work loop
    wtask,          \* the task id the work loop has in its hands
    ok,             \* the local "success" of _process_task
    rpc,            \* control point of _lease_renewal_loop
    cpc,            \* control point of _cleanup_loop
    scan,           \* lease keys cleanup_expired_tasks has still to read
    expired,        \* expired_tasks collected and not yet handled
    \* ---- environment ----
    phase,          \* the clock's tick within the current second
    passes, crashes, errors,
    \* ---- history, read by no guard ----
    requeued,       \* tasks _handle_expired_task ever pushed
    dropped,        \* tasks a crash or an error took out of a worker's hands
    withdrawn       \* tasks a cancel ever removed from the ready list

redis     == <<ready, status, userProc, processing, completed, failed, lease>>
batchVars == <<opened, members>>
apiVars   == <<epc, xpc>>
workVars  == <<wpc, wtask, ok>>
cleanVars == <<cpc, scan, expired>>
envVars   == <<running, phase, passes, crashes, errors>>
history   == <<requeued, dropped, withdrawn>>
vars == <<redis, batchVars, apiVars, workVars, rpc, cleanVars, envVars,
          history>>

DequeuePCs == {"check", "putBack", "markUser", "markGlobal", "lease",
               "expire", "setStatus"}
RunPCs     == {"start", "run", "blocked", "finish"}
AckPCs     == {"ackUser", "ackGlobal", "ackLease", "ackStatus", "ackSet"}
HoldPCs    == DequeuePCs \cup RunPCs \cup AckPCs
HandlePCs  == {"unUser", "unGlobal", "delLease", "push", "setStatus"}

\* A Redis key without expiry: TTL answers -1.
NoTTL == -1
Leases == [worker : Workers,
           due    : 0..((VT + 1) * TPS),   \* ticks until int(now) > timeout_at
           ttl    : {NoTTL} \cup 1..(VT * TPS)]

RedisTypeOK ==
    /\ ready \in Seq(Tasks)
    /\ status \in [Tasks -> {"none", "queued", "processing", "completed",
                             "failed", "cancelled"}]
    /\ userProc \in [Users -> SUBSET Tasks]
    /\ processing \subseteq Tasks
    /\ completed \subseteq Tasks /\ failed \subseteq Tasks
    /\ DOMAIN lease \subseteq Tasks /\ lease \in [DOMAIN lease -> Leases]

ApiTypeOK ==
    /\ opened \subseteq Batches /\ members \in [Batches -> SUBSET Tasks]
    /\ epc \in [Tasks -> {"new", "global", "save", "push", "tag", "in",
                          "untagged", "rejected", "error"}]
    /\ \A t \in Tasks : epc[t] = "tag" => batch[t] # NoBatch
    /\ xpc \in [Tasks -> {"idle", "unUser", "unGlobal", "delLease", "lrem",
                          "set", "done"}]

WorkerTypeOK ==
    /\ wpc \in [Workers -> HoldPCs \cup {"idle", "stopped", "dead"}]
    /\ wtask \in [Workers -> Tasks \cup {NoTask}]
    /\ \A w \in Workers : wtask[w] = NoTask <=> wpc[w] \notin HoldPCs
    /\ ok \in [Workers -> BOOLEAN]
    /\ rpc \in [Workers -> {"off", "sleep", "set", "ttl"}]
    /\ \A w \in Workers : rpc[w] # "off" => wpc[w] \in {"run", "blocked", "finish"}

CleanupTypeOK ==
    /\ cpc \in [Workers -> {"sleep", "read"} \cup HandlePCs]
    /\ scan \in [Workers -> SUBSET Tasks]
    /\ expired \in [Workers -> Seq(Tasks)]
    /\ \A w \in Workers : cpc[w] \in HandlePCs => expired[w] # <<>>

EnvTypeOK ==
    /\ running \in [Workers -> BOOLEAN]
    /\ phase \in 0..(TPS - 1)
    /\ passes \in 0..MaxPasses /\ crashes \in 0..MaxCrashes
    /\ errors \in 0..MaxErrors
    /\ requeued \subseteq Tasks /\ dropped \subseteq Tasks
    /\ withdrawn \subseteq Tasks

TypeOK == /\ RedisTypeOK /\ ApiTypeOK /\ WorkerTypeOK /\ CleanupTypeOK
          /\ EnvTypeOK

Init ==
    /\ ready = <<>>
    /\ status = [t \in Tasks |-> "none"]
    /\ userProc = [u \in Users |-> {}]
    /\ processing = {} /\ completed = {} /\ failed = {}
    /\ lease = [t \in {} |-> 0]
    /\ opened = {} /\ members = [b \in Batches |-> {}]
    /\ epc = [t \in Tasks |-> "new"] /\ xpc = [t \in Tasks |-> "idle"]
    /\ running = [w \in Workers |-> TRUE]
    /\ wpc = [w \in Workers |-> "idle"]
    /\ wtask = [w \in Workers |-> NoTask]
    /\ ok = [w \in Workers |-> FALSE]
    /\ rpc = [w \in Workers |-> "off"]
    /\ cpc = [w \in Workers |-> "sleep"]
    /\ scan = [w \in Workers |-> {}] /\ expired = [w \in Workers |-> <<>>]
    /\ phase = 0 /\ passes = 0 /\ crashes = 0 /\ errors = 0
    /\ requeued = {} /\ dropped = {} /\ withdrawn = {}
-----------------------------------------------------------------------------
\* The Redis commands the queue uses; each leaves the other keys alone.

NoCommand == UNCHANGED redis

LPush(t) ==
    /\ ready' = Append(ready, t)
    /\ UNCHANGED <<status, userProc, processing, completed, failed, lease>>

\* Mutant: the head is read and left in the list.
RPop_Peek == ready # <<>> /\ UNCHANGED redis

RPop ==
    /\ ready # <<>>
    /\ ready' = Tail(ready)
    /\ UNCHANGED <<status, userProc, processing, completed, failed, lease>>

\* LREM key 0 t: the elements other than t stay, in their order.
LRem(t) ==
    LET kept == {i \in 1..Len(ready) : ready[i] # t}
    IN  /\ \E f \in [1..Cardinality(kept) -> kept] :
              /\ \A i, j \in DOMAIN f : i < j => f[i] < f[j]
              /\ \A k \in kept : \E i \in DOMAIN f : f[i] = k
              /\ ready' = [i \in DOMAIN f |-> ready[f[i]]]
        /\ UNCHANGED <<status, userProc, processing, completed, failed, lease>>

HSetStatus(t, s) ==
    /\ status' = [status EXCEPT ![t] = s]
    /\ UNCHANGED <<ready, userProc, processing, completed, failed, lease>>

SAddUser(t) ==
    /\ userProc' = [userProc EXCEPT ![owner[t]] = @ \cup {t}]
    /\ UNCHANGED <<ready, status, processing, completed, failed, lease>>

SRemUser(t) ==
    /\ userProc' = [userProc EXCEPT ![owner[t]] = @ \ {t}]
    /\ UNCHANGED <<ready, status, processing, completed, failed, lease>>

SAddProcessing(t) ==
    /\ processing' = processing \cup {t}
    /\ UNCHANGED <<ready, status, userProc, completed, failed, lease>>

SRemProcessing(t) ==
    /\ processing' = processing \ {t}
    /\ UNCHANGED <<ready, status, userProc, completed, failed, lease>>

SAddDone(t, success) ==
    /\ completed' = IF success THEN completed \cup {t} ELSE completed
    /\ failed' = IF success THEN failed ELSE failed \cup {t}
    /\ UNCHANGED <<ready, status, userProc, processing, lease>>

\* HSET of the whole lease record, timeout_at = int(time.time()) + VT.  HSET
\* keeps the expiry of an existing key and gives a new key none.
HSetLease(t, w) ==
    /\ lease' = [x \in DOMAIN lease \cup {t} |->
                    IF x # t THEN lease[x]
                    ELSE [worker |-> w,
                          due    |-> (VT + 1) * TPS - phase,
                          ttl    |-> IF t \in DOMAIN lease THEN lease[t].ttl
                                     ELSE NoTTL]]
    /\ UNCHANGED <<ready, status, userProc, processing, completed, failed>>

\* EXPIRE key VT, which does nothing when the key is gone.
ExpireLease(t) ==
    /\ lease' = [x \in DOMAIN lease |->
                    IF x # t THEN lease[x]
                    ELSE [lease[x] EXCEPT !.ttl = VT * TPS]]
    /\ UNCHANGED <<ready, status, userProc, processing, completed, failed>>

DelLease(t) ==
    /\ lease' = [x \in DOMAIN lease \ {t} |-> lease[x]]
    /\ UNCHANGED <<ready, status, userProc, processing, completed, failed>>

\* SCARD < limit
UnderUserLimit(t) == Cardinality(userProc[owner[t]]) < UserLimit
UnderGlobalLimit  == Cardinality(processing) < GlobalLimit

\* int(now) > timeout_at
LeaseDue(t) == t \in DOMAIN lease /\ lease[t].due = 0
-----------------------------------------------------------------------------
\* enqueue_task, called by POST /analyze and by create_batch.

\* create_batch saves the batch hash, then enqueues its symbols one by one and
\* gives up at the first enqueue_task that raises.
OpenBatch(b) ==
    /\ b \notin opened
    /\ opened' = opened \cup {b}
    /\ NoCommand
    /\ UNCHANGED <<members, apiVars, workVars, rpc, cleanVars, envVars, history>>

\* Mutant: the batch goes on after a task that was refused.
MayStart_PastFailure(t) ==
    \/ batch[t] = NoBatch
    \/ /\ batch[t] \in opened
       /\ follows[t] # NoTask => epc[follows[t]] \in {"in", "rejected", "error"}

MayStart(t) ==
    \/ batch[t] = NoBatch
    \/ /\ batch[t] \in opened
       /\ follows[t] # NoTask => epc[follows[t]] = "in"

Enqueue(t, from, to) ==
    /\ epc[t] = from
    /\ epc' = [epc EXCEPT ![t] = to]
    /\ UNCHANGED <<opened, xpc, workVars, rpc, cleanVars, envVars, history>>

CheckUser(t) ==
    /\ MayStart(t)
    /\ Enqueue(t, "new", IF UnderUserLimit(t) THEN "global" ELSE "rejected")
    /\ NoCommand /\ UNCHANGED members

CheckGlobal(t) ==
    /\ Enqueue(t, "global", IF UnderGlobalLimit THEN "save" ELSE "rejected")
    /\ NoCommand /\ UNCHANGED members

SaveTask(t) ==
    /\ Enqueue(t, "save", "push")
    /\ HSetStatus(t, "queued") /\ UNCHANGED members

PushTask(t) ==
    /\ Enqueue(t, "push", IF batch[t] = NoBatch THEN "in" ELSE "tag")
    /\ LPush(t) /\ UNCHANGED members

TagTask(t) ==
    /\ Enqueue(t, "tag", "in")
    /\ members' = [members EXCEPT ![batch[t]] = @ \cup {t}]
    /\ NoCommand

Submit(t) == CheckUser(t) \/ CheckGlobal(t) \/ SaveTask(t) \/ PushTask(t)
                 \/ TagTask(t)

UseError == /\ errors < MaxErrors
            /\ errors' = errors + 1
            /\ UNCHANGED <<running, phase, passes, crashes>>

\* A Redis command of enqueue_task raises: the request answers 400 and what the
\* earlier commands wrote stays.
SubmitError(t) ==
    /\ UseError
    /\ epc[t] \in {"global", "save", "push", "tag"}
    /\ epc' = [epc EXCEPT ![t] = IF @ = "tag" THEN "untagged" ELSE "error"]
    /\ NoCommand
    /\ UNCHANGED <<batchVars, xpc, workVars, rpc, cleanVars, history>>

\* The task id has reached qa:ready.
Pushed(t) == epc[t] \in {"tag", "in", "untagged"}
-----------------------------------------------------------------------------
\* cancel_task, called by POST /tasks/{id}/cancel once the client knows the id.

Cancel(t, from, to) ==
    /\ xpc[t] = from
    /\ xpc' = [xpc EXCEPT ![t] = to]
    /\ UNCHANGED <<batchVars, epc, workVars, rpc, cleanVars, envVars>>

\* The status read here decides which commands follow.
CancelRead(t) ==
    /\ t \in Cancellable /\ epc[t] = "in"
    /\ Cancel(t, "idle", CASE status[t] = "processing" -> "unUser"
                           [] status[t] = "queued"     -> "lrem"
                           [] OTHER                    -> "set")
    /\ NoCommand /\ UNCHANGED history

CancelUnmarkUser(t) ==
    Cancel(t, "unUser", "unGlobal") /\ SRemUser(t) /\ UNCHANGED history

CancelUnmarkGlobal(t) ==
    Cancel(t, "unGlobal", "delLease") /\ SRemProcessing(t) /\ UNCHANGED history

CancelClearLease(t) ==
    Cancel(t, "delLease", "set") /\ DelLease(t) /\ UNCHANGED history

InReady(t) == \E i \in 1..Len(ready) : ready[i] = t

CancelRemove(t) ==
    /\ Cancel(t, "lrem", "set")
    /\ LRem(t)
    /\ withdrawn' = IF InReady(t) THEN withdrawn \cup {t} ELSE withdrawn
    /\ UNCHANGED <<requeued, dropped>>

CancelSetStatus(t) ==
    Cancel(t, "set", "done") /\ HSetStatus(t, "cancelled") /\ UNCHANGED history

CancelStep(t) == CancelUnmarkUser(t) \/ CancelUnmarkGlobal(t)
                     \/ CancelClearLease(t) \/ CancelRemove(t)
                     \/ CancelSetStatus(t)

\* cancel_task swallows the exception and answers False.
CancelError(t) ==
    /\ UseError
    /\ xpc[t] \notin {"idle", "done"}
    /\ xpc' = [xpc EXCEPT ![t] = "done"]
    /\ NoCommand
    /\ UNCHANGED <<batchVars, epc, workVars, rpc, cleanVars, history>>
-----------------------------------------------------------------------------
\* The work loop: dequeue_task, _process_task, ack_task.

Work(w, from, to) ==
    /\ wpc[w] = from
    /\ wpc' = [wpc EXCEPT ![w] = to]
    /\ UNCHANGED <<batchVars, apiVars, cleanVars, envVars>>

KeepTask(w) == UNCHANGED <<wtask, ok, rpc, history>>

Release(w) == /\ wtask' = [wtask EXCEPT ![w] = NoTask]
              /\ ok' = [ok EXCEPT ![w] = FALSE]

\* RPOP hands the oldest id over; from here on only this process knows of it.
Pop(w) ==
    /\ running[w]
    /\ Work(w, "idle", "check")
    /\ RPop
    /\ wtask' = [wtask EXCEPT ![w] = Head(ready)]
    /\ UNCHANGED <<ok, rpc, history>>

\* Mutant: dequeue_task trusts the check enqueue_task made.
Recheck_Skipped(w) ==
    Work(w, "check", "markUser") /\ NoCommand /\ KeepTask(w)

\* Only the user limit is checked again.
Recheck(w) ==
    /\ Work(w, "check", IF UnderUserLimit(wtask[w]) THEN "markUser" ELSE "putBack")
    /\ NoCommand /\ KeepTask(w)

\* Mutant: a task over the limit is dropped instead of put back.
PutBack_Forgotten(w) ==
    /\ Work(w, "putBack", "idle")
    /\ NoCommand
    /\ Release(w) /\ UNCHANGED <<rpc, history>>

PutBack(w) ==
    /\ Work(w, "putBack", "idle")
    /\ LPush(wtask[w])
    /\ Release(w) /\ UNCHANGED <<rpc, history>>

MarkUser(w) ==
    Work(w, "markUser", "markGlobal") /\ SAddUser(wtask[w]) /\ KeepTask(w)

MarkGlobal(w) ==
    Work(w, "markGlobal", "lease") /\ SAddProcessing(wtask[w]) /\ KeepTask(w)

TakeLease(w) ==
    Work(w, "lease", "expire") /\ HSetLease(wtask[w], w) /\ KeepTask(w)

BoundLease(w) ==
    Work(w, "expire", "setStatus") /\ ExpireLease(wtask[w]) /\ KeepTask(w)

SetProcessing(w) ==
    /\ Work(w, "setStatus", "start")
    /\ HSetStatus(wtask[w], "processing") /\ KeepTask(w)

\* _process_task parses the parameters, which may raise, before it creates the
\* renewal coroutine.
Begin(w) ==
    /\ \/ Work(w, "start", "run") /\ rpc' = [rpc EXCEPT ![w] = "sleep"]
       \/ Work(w, "start", "ackUser") /\ UNCHANGED rpc
    /\ NoCommand /\ UNCHANGED <<wtask, ok, history>>

\* execute_analysis_task calls trading_graph.propagate without an await: the
\* whole event loop stands still until it returns.
Propagate(w) ==
    Work(w, "run", "blocked") /\ NoCommand /\ KeepTask(w)

\* execute_analysis_task returns or raises, before or after propagate.
Execute(w) ==
    /\ \/ Work(w, "blocked", "finish") /\ \E b \in BOOLEAN : ok' = [ok EXCEPT ![w] = b]
       \/ Work(w, "run", "finish") /\ UNCHANGED ok
    /\ NoCommand /\ UNCHANGED <<wtask, rpc, history>>

\* lease_task.cancel(), wherever the renewal coroutine stands.
CancelRenewal(w) ==
    /\ Work(w, "finish", "ackUser")
    /\ rpc' = [rpc EXCEPT ![w] = "off"]
    /\ NoCommand /\ UNCHANGED <<wtask, ok, history>>

AckUnmarkUser(w) ==
    Work(w, "ackUser", "ackGlobal") /\ SRemUser(wtask[w]) /\ KeepTask(w)

\* Mutant: the global set is not cleaned.
AckUnmarkGlobal_Skipped(w) ==
    Work(w, "ackGlobal", "ackLease") /\ NoCommand /\ KeepTask(w)

AckUnmarkGlobal(w) ==
    Work(w, "ackGlobal", "ackLease") /\ SRemProcessing(wtask[w]) /\ KeepTask(w)

\* Mutant: the lease is left to expire.
AckClearLease_Skipped(w) ==
    Work(w, "ackLease", "ackStatus") /\ NoCommand /\ KeepTask(w)

AckClearLease(w) ==
    Work(w, "ackLease", "ackStatus") /\ DelLease(wtask[w]) /\ KeepTask(w)

AckStatus(w) ==
    /\ Work(w, "ackStatus", "ackSet")
    /\ HSetStatus(wtask[w], IF ok[w] THEN "completed" ELSE "failed")
    /\ KeepTask(w)

\* Mutant: the task is recorded in neither result set.
AckDone_Unrecorded(w) ==
    /\ Work(w, "ackSet", "idle")
    /\ NoCommand
    /\ Release(w) /\ UNCHANGED <<rpc, history>>

AckDone(w) ==
    /\ Work(w, "ackSet", "idle")
    /\ SAddDone(wtask[w], ok[w])
    /\ Release(w) /\ UNCHANGED <<rpc, history>>

WorkLoop(w) ==
    \/ Pop(w) \/ Recheck(w) \/ PutBack(w) \/ MarkUser(w) \/ MarkGlobal(w)
    \/ TakeLease(w) \/ BoundLease(w) \/ SetProcessing(w) \/ Begin(w)
    \/ Propagate(w) \/ Execute(w) \/ CancelRenewal(w) \/ AckUnmarkUser(w)
    \/ AckUnmarkGlobal(w) \/ AckClearLease(w) \/ AckStatus(w) \/ AckDone(w)

Drop(w) == /\ dropped' = dropped \cup ({wtask[w]} \ {NoTask})
           /\ UNCHANGED <<requeued, withdrawn>>

\* dequeue_task answers None and ack_task False when a command raises; either
\* way the loop goes on without the task it had popped.
WorkError(w) ==
    /\ UseError
    /\ wpc[w] \in DequeuePCs \cup AckPCs
    /\ wpc' = [wpc EXCEPT ![w] = "idle"]
    /\ Release(w) /\ Drop(w)
    /\ NoCommand
    /\ UNCHANGED <<batchVars, apiVars, rpc, cleanVars>>
-----------------------------------------------------------------------------
\* _lease_renewal_loop and renew_visibility_timeout.

\* The coroutines of w can run: the loop is not inside propagate, and the
\* process lives.
LoopFree(w) == wpc[w] \notin {"blocked", "stopped", "dead"}

Renewal(w, from, to) ==
    /\ LoopFree(w)
    /\ rpc[w] = from
    /\ rpc' = [rpc EXCEPT ![w] = to]
    /\ UNCHANGED <<batchVars, apiVars, workVars, cleanVars, envVars, history>>

\* After its sleep: stop if the worker is stopping, else read the lease and go
\* on only if it is there and names this worker.
RenewRead(w) ==
    /\ w \in Renewers
    /\ LET t == wtask[w]
           mine == t \in DOMAIN lease /\ lease[t].worker = w
       IN  Renewal(w, "sleep", IF running[w] /\ mine THEN "set" ELSE "off")
    /\ NoCommand

RenewSet(w)    == Renewal(w, "set", "ttl") /\ HSetLease(wtask[w], w)
RenewExpire(w) == Renewal(w, "ttl", "sleep") /\ ExpireLease(wtask[w])

RenewalLoop(w) == RenewRead(w) \/ RenewSet(w) \/ RenewExpire(w)

\* The loop logs the exception and sleeps again.
RenewError(w) ==
    /\ UseError
    /\ LoopFree(w) /\ rpc[w] \in {"set", "ttl"}
    /\ rpc' = [rpc EXCEPT ![w] = "sleep"]
    /\ NoCommand
    /\ UNCHANGED <<batchVars, apiVars, workVars, cleanVars, history>>
-----------------------------------------------------------------------------
\* _cleanup_loop: cleanup_expired_tasks and _handle_expired_task.

Cleanup(w, from, to) ==
    /\ LoopFree(w)
    /\ cpc[w] = from
    /\ cpc' = [cpc EXCEPT ![w] = to]
    /\ UNCHANGED <<batchVars, apiVars, workVars, rpc, running, phase, crashes,
                   errors>>

\* KEYS, then one reading of the clock for the whole pass.  Only a lease that
\* is due at that reading can be collected below.
Scan(w) ==
    /\ w \in Cleaners
    /\ Cleanup(w, "sleep", "read")
    /\ scan' = [scan EXCEPT ![w] = {t \in Tasks : LeaseDue(t)}]
    /\ scan'[w] # {}
    /\ passes < MaxPasses /\ passes' = passes + 1
    /\ NoCommand /\ UNCHANGED <<expired, history>>

\* HGETALL of one key: it may have gone, or have been renewed, since.
ReadLease(w) ==
    \E t \in scan[w] :
      /\ scan' = [scan EXCEPT ![w] = @ \ {t}]
      /\ expired' = [expired EXCEPT ![w] = IF LeaseDue(t) THEN Append(@, t) ELSE @]
      /\ Cleanup(w, "read", IF scan[w] # {t} THEN "read"
                            ELSE IF expired'[w] = <<>> THEN "sleep" ELSE "unUser")
      /\ NoCommand /\ UNCHANGED <<passes, history>>

\* Nothing is read again before a collected task is handled.
HandleUnmarkUser(w) ==
    /\ Cleanup(w, "unUser", "unGlobal")
    /\ SRemUser(Head(expired[w]))
    /\ UNCHANGED <<passes, scan, expired, history>>

HandleUnmarkGlobal(w) ==
    /\ Cleanup(w, "unGlobal", "delLease")
    /\ SRemProcessing(Head(expired[w]))
    /\ UNCHANGED <<passes, scan, expired, history>>

HandleClearLease(w) ==
    /\ Cleanup(w, "delLease", "push")
    /\ DelLease(Head(expired[w]))
    /\ UNCHANGED <<passes, scan, expired, history>>

HandlePush(w) ==
    /\ Cleanup(w, "push", "setStatus")
    /\ LPush(Head(expired[w]))
    /\ requeued' = requeued \cup {Head(expired[w])}
    /\ UNCHANGED <<passes, scan, expired, dropped, withdrawn>>

NextExpired(w) ==
    expired' = [expired EXCEPT ![w] = Tail(@)]

\* Mutant: off by one, the loop handles an entry past the last.
AfterHandled_OneMore(w) == IF expired[w] = <<>> THEN "sleep" ELSE "unUser"

AfterHandled(w) == IF Len(expired[w]) = 1 THEN "sleep" ELSE "unUser"

HandleSetStatus(w) ==
    /\ Cleanup(w, "setStatus", AfterHandled(w))
    /\ HSetStatus(Head(expired[w]), "queued")
    /\ NextExpired(w)
    /\ UNCHANGED <<passes, scan, history>>

CleanupLoop(w) ==
    \/ Scan(w) \/ ReadLease(w) \/ HandleUnmarkUser(w) \/ HandleUnmarkGlobal(w)
    \/ HandleClearLease(w) \/ HandlePush(w) \/ HandleSetStatus(w)

\* An exception while reading the leases ends the pass; one inside
\* _handle_expired_task only skips to the next expired task.
CleanupError(w) ==
    /\ UseError
    /\ LoopFree(w)
    /\ \/ /\ cpc[w] = "read"
          /\ cpc' = [cpc EXCEPT ![w] = "sleep"]
          /\ scan' = [scan EXCEPT ![w] = {}]
          /\ expired' = [expired EXCEPT ![w] = <<>>]
       \/ /\ cpc[w] \in HandlePCs
          /\ cpc' = [cpc EXCEPT ![w] = AfterHandled(w)]
          /\ NextExpired(w)
          /\ UNCHANGED scan
    /\ NoCommand
    /\ UNCHANGED <<batchVars, apiVars, workVars, rpc, history>>
-----------------------------------------------------------------------------
\* The process and its environment.

\* SIGINT or SIGTERM: _signal_handler only clears the flag.
Signal(w) ==
    /\ w \in Stoppable
    /\ running[w] /\ wpc[w] \notin {"stopped", "dead"}
    /\ running' = [running EXCEPT ![w] = FALSE]
    /\ NoCommand
    /\ UNCHANGED <<batchVars, apiVars, workVars, rpc, cleanVars, phase, passes,
                   crashes, errors, history>>

EndCleanup(w) == /\ cpc' = [cpc EXCEPT ![w] = "sleep"]
                 /\ scan' = [scan EXCEPT ![w] = {}]
                 /\ expired' = [expired EXCEPT ![w] = <<>>]

\* start() cancels cleanup_task, wherever it stands, when the work loop ends.
Exit(w) ==
    /\ ~running[w]
    /\ wpc[w] = "idle"
    /\ wpc' = [wpc EXCEPT ![w] = "stopped"]
    /\ EndCleanup(w)
    /\ NoCommand
    /\ UNCHANGED <<batchVars, apiVars, wtask, ok, rpc, envVars, history>>

\* The process is killed; what it had only in memory is gone.  A restarted
\* worker has a new random id, so it is another member of Workers.
Crash(w) ==
    /\ wpc[w] \notin {"stopped", "dead"}
    /\ crashes < MaxCrashes
    /\ crashes' = crashes + 1
    /\ wpc' = [wpc EXCEPT ![w] = "dead"]
    /\ rpc' = [rpc EXCEPT ![w] = "off"]
    /\ Release(w) /\ Drop(w) /\ EndCleanup(w)
    /\ NoCommand
    /\ UNCHANGED <<batchVars, apiVars, running, phase, passes,
                   errors>>

\* One tick of time; Redis deletes the keys whose expiry is reached.
Aged(l) == [l EXCEPT !.due = IF @ = 0 THEN 0 ELSE @ - 1,
                     !.ttl = IF @ = NoTTL THEN NoTTL ELSE @ - 1]

Tick ==
    /\ phase' = IF phase = TPS - 1 THEN 0 ELSE phase + 1
    /\ lease' = [t \in {x \in DOMAIN lease : lease[x].ttl # 1} |-> Aged(lease[t])]
    /\ UNCHANGED <<ready, status, userProc, processing, completed, failed>>
    /\ UNCHANGED <<batchVars, apiVars, workVars, rpc, cleanVars, running, passes,
                   crashes, errors, history>>
-----------------------------------------------------------------------------
Next ==
    \/ \E b \in Batches : OpenBatch(b)
    \/ \E t \in Tasks : \/ Submit(t) \/ SubmitError(t)
                        \/ CancelRead(t) \/ CancelStep(t) \/ CancelError(t)
    \/ \E w \in Workers : \/ WorkLoop(w) \/ WorkError(w)
                          \/ RenewalLoop(w) \/ RenewError(w)
                          \/ CleanupLoop(w) \/ CleanupError(w)
                          \/ Signal(w) \/ Exit(w) \/ Crash(w)
    \/ Tick

Spec == Init /\ [][Next]_vars

\* The event loops schedule every coroutine that can run, propagate returns or
\* raises, a request once begun is served, and time passes.  Nothing forces a
\* client to cancel, a process to be killed, or a command to raise.
Fairness ==
    /\ \A b \in Batches : WF_vars(OpenBatch(b))
    /\ \A t \in Tasks : WF_vars(Submit(t)) /\ WF_vars(CancelStep(t))
    /\ \A w \in Workers : /\ WF_vars(WorkLoop(w)) /\ WF_vars(RenewalLoop(w))
                          /\ WF_vars(CleanupLoop(w)) /\ WF_vars(Exit(w))
    /\ WF_vars(Tick)

FairSpec == Spec /\ Fairness
-----------------------------------------------------------------------------
\* Safety.  As long as the expiry path has not pushed a task a second time ...

Held(t) == \E w \in Workers : wtask[w] = t

\* ... it is never delivered twice: its id is at most once in the ready list, in
\* the hands of at most one worker, never in both, and once it is finished,
\* withdrawn by a cancel, or lost by a worker, no worker gets it any more
\* (dequeue_task, its put-back, ack_task and cancel_task never duplicate an id).
DeliveredAtMostOnce ==
    \A t \in Tasks \ requeued :
        /\ \A i, j \in 1..Len(ready) : ready[i] = t /\ ready[j] = t => i = j
        /\ \A v, w \in Workers : wtask[v] = t /\ wtask[w] = t => v = w
        /\ ~(InReady(t) /\ Held(t))
        /\ t \in completed \cup failed \cup withdrawn \cup dropped
              => ~InReady(t) /\ ~Held(t)
        /\ t \notin completed \cap failed

\* A task that reached the ready list is never silently lost: without a crash or
\* an error it is in the ready list, with a worker, finished, or was withdrawn,
\* whatever cancels, renewals and cleanups run beside it.
NoSilentLoss ==
    \A t \in Tasks \ dropped :
        Pushed(t) => InReady(t) \/ Held(t) \/ t \in completed \cup failed \cup withdrawn

\* A concurrency slot (qa:processing, qa:user_processing) is only ever occupied
\* by a task some worker has in its hands, unless a crash or an error dropped
\* it: ack, cancel, cleanup and dequeue together leak no slot.
SlotsBacked ==
    \A t \in Tasks \ dropped :
        t \in processing \cup userProc[owner[t]] => Held(t)

\* A lease key names a worker that still has the task, unless it was dropped: no
\* late renewal leaves a lease behind after the acknowledgement.
LeaseNamesHolder ==
    \A t \in DOMAIN lease : wtask[lease[t].worker] = t \/ t \in dropped

\* The check of dequeue_task and the SADD it guards are separate commands, so the
\* user limit can be exceeded, but by no more than one task per other worker:
\* workers between the two commands are counted with the slots in use.
UserOvershootBounded ==
    \A u \in Users :
        Cardinality(userProc[u])
          + Cardinality({w \in Workers : wpc[w] = "markUser" /\ owner[wtask[w]] = u})
            <= UserLimit - 1 + Cardinality(Workers)

\* The tasks of a batch that exist are a prefix of its symbol list, and all but
\* the last of them are in the ready list's history and in qa:batch_tasks: a
\* rejection or an error in the middle never leaves a gap (create_batch).
BatchIsPrefix ==
    \A t \in Tasks :
        batch[t] # NoBatch /\ epc[t] # "new" /\ follows[t] # NoTask
          => Pushed(follows[t]) /\ follows[t] \in members[batch[follows[t]]]

\* What the invariants above need to be inductive.

\* Only ids that reached the ready list are ever in a worker's hands, leased, or
\* collected by a cleanup.
OnlyPushed ==
    /\ \A t \in Tasks : ~Pushed(t) =>
          /\ ~InReady(t) /\ ~Held(t)
          /\ t \notin completed \cup failed \cup requeued \cup dropped \cup withdrawn
    /\ \A t \in DOMAIN lease : Pushed(t)
    /\ \A w \in Workers : \A t \in scan[w] : Pushed(t)
    /\ \A w \in Workers : \A i \in 1..Len(expired[w]) : Pushed(expired[w][i])

\* Slots and leases belong to a worker at a point of dequeue_task, _process_task
\* or ack_task that will release them: between its own SADD and its own SREM, its
\* own HSET and its own DELETE.
UserMarkedPCs == {"markGlobal", "lease", "expire", "setStatus", "ackUser"} \cup RunPCs
MarkedPCs     == {"lease", "expire", "setStatus", "ackUser", "ackGlobal"} \cup RunPCs
LeasedPCs     == {"expire", "setStatus", "ackUser", "ackGlobal", "ackLease"} \cup RunPCs

SlotsMarked ==
    \A t \in Tasks \ dropped :
        /\ t \in userProc[owner[t]] =>
              \E w \in Workers : wtask[w] = t /\ wpc[w] \in UserMarkedPCs
        /\ t \in processing =>
              \E w \in Workers : wtask[w] = t /\ wpc[w] \in MarkedPCs

LeaseHeld ==
    \A t \in DOMAIN lease \ dropped :
        wtask[lease[t].worker] = t /\ wpc[lease[t].worker] \in LeasedPCs

\* Liveness: a task in the queue is eventually finished, or withdrawn by its
\* owner, whatever expires and is pushed again on the way (no crash, no error).
EveryTaskFinishes ==
    \A t \in Tasks :
        Pushed(t) ~> t \in completed \cup failed \cup withdrawn
============================================================================
