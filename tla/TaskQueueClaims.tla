-------------------------- MODULE TaskQueueClaims --------------------------
(***************************************************************************)
(* The refinement of TaskLedger by TaskQueue, and what comments and        *)
(* messages of the repository say of the queue that the code does not do.  *)
(***************************************************************************)
EXTENDS TaskQueue

Ended(t) == t \in completed \cup failed \cup withdrawn \cup dropped

\* No place in the ledger: the id is in two hands at once, alive after its end,
\* or nowhere, and the expiry path has not touched it.
Astray(t) ==
    /\ Pushed(t) /\ t \notin requeued
    /\ \/ Held(t) /\ InReady(t)
       \/ \E v, w \in Workers : v # w /\ wtask[v] = t /\ wtask[w] = t
       \/ Ended(t) <=> InReady(t) \/ Held(t)

\* Where the id of t is, as TaskLedger sees it.
PlaceOf(t) ==
    CASE ~Pushed(t)                    -> "unsent"
      [] Pushed(t) /\ t \in requeued   -> "repeated"
      [] OTHER -> IF t \in withdrawn THEN "withdrawn"
                  ELSE IF t \in dropped THEN "lost"
                  ELSE IF t \in completed \cup failed THEN "finished"
                  ELSE IF Held(t) THEN "held"
                  ELSE "waiting"

taskPlace == [t \in Tasks |-> IF Astray(t) THEN "astray" ELSE PlaceOf(t)]

Ledger == INSTANCE TaskLedger WITH place <- taskPlace

\* The queue implements the ledger: outside the expiry path every step of every
\* actor moves at most one task along its life, and nothing is delivered twice
\* or revived (queue_service.py, analysis_worker.py).
LedgerSpec == Ledger!Spec
-----------------------------------------------------------------------------
\* "Check the concurrency limit again (against the race)" in dequeue_task: the
\* user's slots never exceed the limit.
UserLimitRespected == \A u \in Users : Cardinality(userProc[u]) <= UserLimit

\* The cancel endpoint answers "the task has been cancelled": from then on the
\* task record keeps that status.
CancelledStaysCancelled ==
    [][\A t \in Tasks : xpc[t] = "done" /\ status[t] = "cancelled"
                          => status'[t] = "cancelled"]_vars

\* cleanup_expired_tasks puts tasks whose lease has timed out back in the queue:
\* a task that died with its worker, its lease still there and another worker
\* ready to clean up, does not stay "processing".
CleanerReady == passes < MaxPasses /\ \E w \in Cleaners : LoopFree(w) /\ cpc[w] = "sleep"

CrashedTaskComesBack ==
    \A t \in Tasks :
        status[t] = "processing" /\ ~Held(t) /\ t \in DOMAIN lease /\ CleanerReady
          ~> status[t] # "processing" \/ Held(t)
=============================================================================
