# QuantScope in TLA+

This directory holds a formal model of the parts of QuantScope whose correctness
depends on order: the Redis task queue and its workers, the multi-agent analysis
graph, the durable analysis sessions, the status of tasks run by the API process,
the paper trading account, and the services around them (rate limiter, job records,
synchronisation, configuration, notifications, data sources, foreign quotes). Every
action is translated from the code under `src/`; `PROJECT.json` names, for each
definition, the lines it stands for.

| Module | What it is | Checked by | Proof |
|---|---|---|---|
| `TaskQueue` | queue, workers, leases, cancel, batches | `queue_expiry`, `queue_batch`, `queue_liveness` | all but liveness |
| `TaskLedger` | what the queue promises about one task | property of `queue_expiry` | refinement |
| `TaskQueueClaims` | the refinement mapping, and what the repository says of the queue | `queue_user_limit`, `queue_cancelled`, `queue_crash` (violated) | |
| `TaskQueueProofs` | theorems about `TaskQueue`, refinement of `TaskLedger` included | | eight theorems |
| `AnalysisGraph` | one analysis run, `AgentScopeRunner.run` | `analysis`, `liveness` | safety, and that steps run out |
| `TaskStatus` | task status in memory and in Mongo | `analysis`, `liveness` | all but liveness |
| `AnalysisProofs` | theorems about `TaskStatus`, `AnalysisGraph` and `MCAnalysis` | | 16 theorems |
| `SessionStore` | events, checkpoints and summary of a session | `analysis`, `liveness` | all but liveness |
| `SessionStoreProofs` | theorems about `SessionStore` | | seven theorems |
| `RateLimiter` | the sliding window before the providers | `services`, `liveness` | all but liveness |
| `BasicsSync` | the synchronisation of the stock list | `services`, `liveness` | types, safety, a bound on the steps of a call |
| `JobRecords` | the execution records of a scheduled job | `services`, `liveness` | types and safety |
| `FlowProofs` | theorems about `RateLimiter`, `BasicsSync` and `JobRecords` | | nine theorems |
| `PaperTrading` | orders and resets of one user | `services`, `paper_tplus1` (violated) | types and safety |
| `ForeignQuotes` | shared requests for foreign quotes | `services`, `quote_dedup` (violated) | types and safety |
| `DataSources` | the source in force and its fallbacks | `services` | types and safety |
| `MarketProofs` | theorems about `PaperTrading`, `ForeignQuotes` and `DataSources` | | nine theorems |
| `ConfigStore` | versions of the system configuration | `services`, `config_default` (violated) | types and safety |
| `Notifications` | creation, push and pruning of notifications | `services` | types and safety |
| `StoreProofs` | theorems about `ConfigStore` and `Notifications` | | six theorems |
| `ServicesProofs` | theorems about `MCServices`, the services together | | three theorems |
| `FoldLemmas` | induction over numbers and what folds compute | | lemmas |
| `MC*` | small instances for TLC | | |

To check: `tlc -config MCTaskQueue_expiry.cfg MCTaskQueue`, and so on for each
`.cfg`; `tlapm` on `FoldLemmas.tla` and on each of the seven `*Proofs.tla` for the proofs.

`MCServices`, `MCAnalysis` and `MCLiveness` put several modules into one run. The parts
share no state, so a variable `part` picks the one that works in a behaviour, and the
others keep their initial values: the run checks each part by itself and no interleaving
of parts, which would add states and no behaviour. `ServicesCompose` and `AnalysisCompose`
prove that each part behaves there as in its own module. In `MCLiveness` the parts at rest
have no step that fairness asks for. The modules are therefore named apart
(`SessionInit`, `GraphInit`, `JobsTypeOK` and so on), and a reader can give any of them a
`.cfg` of its own.

## 1. Inventory

The program is a FastAPI service with MongoDB and Redis, a separate worker process
for queued analyses, and a library (`tradingagents`) that runs one analysis as a
graph of language-model agents. `PROJECT.json` lists every component and whether it
is modelled; the ones with behaviour worth checking are these.

**Task queue** (`app/services/queue_service.py`, `queue/helpers.py`, `queue/keys.py`).
State, all in Redis: the ready list, a hash per task, the sets of tasks in process
per user and globally, the completed and failed sets, a lease key per task with an
expiry, and a hash and set per batch. Operations: enqueue one, enqueue a batch,
dequeue, acknowledge, cancel, renew a lease, handle expired leases. Each is a series
of awaited commands without transaction, script or lock. Hard: every pair of them
interleaves; a command can fail half-way; keys expire by themselves. Correct when no
task is lost or in two places, slots and leases belong to a worker that holds the
task, limits are respected, and each task ends.

**Analysis worker** (`app/worker/analysis_worker.py`). One event loop per process:
work loop, lease renewal of the current task, clean-up of expired leases, heartbeat.
It talks to the queue only. Hard: SIGTERM and kill at any await, a renewal racing the
acknowledgement, and a synchronous analysis that blocks the loop
(`analysis_service.py:825`), renewal included.

**Analysis graph** (`tradingagents/graph`, `tradingagents/agents`). State: a dict
with messages, reports, debate histories and counters, copied for each analyst thread
and merged afterwards. Hard: bounded loops through counters kept in that dict, message
histories that must stay acceptable to the provider, the merge. Correct when the
debate gets every analyst's report, and every run ends.

**Sessions** (`app/services/sessions`, written by the runner, the capability executor
and the services). State: a counter, events, checkpoints and a summary in Mongo, each
written by its own call from several threads; a recovery reads them. Correct when
event numbers are unique, the verdict comes last and once, and a recovery sees
everything after its checkpoint.

**In-process analysis** (`simple_analysis_service.py`, `memory_state_manager.py`,
`routers/analysis.py`). A task's status is kept in a dict behind a lock and in Mongo;
the analysis runs in a pool of three threads. Mark-failed, delete and the zombie
clean-up act at any moment. Correct when memory and Mongo agree, "completed" implies
a result, and a final status stays final.

**Paper trading** (`routers/paper.py`). Accounts, positions, orders and trades, one
Mongo write each; checks use what was read before. Commission and T+1 come from a rules
document that a script inserts. Correct when the books balance, no buy overdraws an account
and T+1 is kept where there are rules.

**Rate limiter** (`app/core/rate_limiter.py`). The times of the latest calls behind an
asyncio lock that is held across a sleep. Correct when no window holds too many calls
and nobody waits for ever, cancelled callers included.

**Job scheduler** (`scheduler_service.py`, the progress helpers of
`worker/tushare_sync_service.py`). One document per run of a job in
`scheduler_executions`, written by triggers, listeners, progress reports, a zombie check and
requests, none of which knows which run a document belongs to. Correct when each run has
one record with its verdict and a cancellation stops the run it was meant for.

**Synchronisation of the basics** (`multi_source_basics_sync_service.py`). A flag and a lock
per service instance, a status document they share, batches written with retries. Correct
when an instance runs once at a time, the flag and the document say what is so, and
"success" means that everything was written.

**Configuration** (`config_service.py`, `routers/config.py`). Every edit inserts a new active
version of the whole document. Correct when one version is active and holds what was saved.

**Notifications** (`notifications_service.py`, `routers/websocket_notifications.py`). Stored,
pushed to the connections of the user, pruned by age and number. Correct when the newest
are kept and open connections get what is published.

**Data sources** (`dataflows/data_source_manager.py`, `foreign_stock_service.py`). A shared
manager with a current source and ordered fallbacks, used by several threads; request
deduplication by locks. Correct when a request fails only if no source has the data, a
temporary swap is undone, and one stock is asked for once at a time.

The rest (users, screening, user interfaces, caches) keeps no state whose order matters.

Interaction: the API enqueues into the queue or runs an analysis in process; the
worker dequeues and runs it; both run the graph; the graph writes the session. The
queue knows nothing of the graph but that it returns or raises, which is how
`TaskQueue` models it (steps `run`, `blocked`, `finish`); `AnalysisGraph` shows that it
does. `SessionStore` models the same run again, reduced to its writes.

## 2. The plan

Order of work, most important first: (1) queue and worker, their theorems; (2) graph;
(3) sessions; (4) paper trading; (5) task status; (6) rate limiter and its theorems;
(7) job records; (8) synchronisation, configuration, notifications, sources, quotes. These
exist. Section 9 lists what is left. Modules are written to be proved about: constants with
named assumptions, one action per step, no recursive operator.

## 3. TaskQueue

One step per Redis command. `epc[t]` and `xpc[t]` say where the enqueue and the cancel of
task `t` stand, `wpc[w]`, `rpc[w]` and `cpc[w]` where the three loops of worker `w` stand,
under the names of the commands. A command that raises is modelled as raised before its
effect, and the handler's reaction as in the code.

| Action | Code |
|---|---|
| `OpenBatch`, `Submit`, `SubmitError` | `create_batch`, `enqueue_task` |
| `CancelRead`, `CancelStep`, `CancelError` | `cancel_task` |
| `WorkLoop` (dequeue, run, ack), `WorkError` | `dequeue_task`, `_process_task`, `ack_task` |
| `RenewalLoop`, `RenewError` | `_lease_renewal_loop`, `renew_visibility_timeout` |
| `CleanupLoop`, `CleanupError` | `cleanup_expired_tasks`, `_handle_expired_task` |
| `Signal`, `Exit`, `Crash` | `_signal_handler`, the end of `start()`, kill |
| `Tick` | time: leases become due, Redis deletes expired keys |

The lease holds `due`, the ticks until `int(now) > timeout_at`, and `ttl`, the ticks
until Redis deletes the key. `TPS` ticks make a second, because the code compares whole
seconds. Left out: worker ids and timestamps in task hashes, the heartbeat, the branch of
`dequeue_task` for a missing hash (never deleted, so unreachable).

History variables are read by no guard: `requeued` (tasks the expiry path pushed),
`dropped` (tasks a crash or an error took from a worker), `withdrawn` (cancelled in time).

### Runs

| Run | Question and bounds |
|---|---|
| `queue_expiry` | One task, two workers that both clean up, two passes, one renews, one command may fail. Two cleaners are what it takes to push a task twice, a second pass to handle the result. `SlotsBacked`, `LeaseNamesHolder`, and that the queue implements `TaskLedger`. |
| `queue_batch` | A batch of three whose last task may be cancelled, two workers, a crash and an error: `BatchIsPrefix`, `UserOvershootBounded`, `DeliveredAtMostOnce`, `NoSilentLoss`. An error leaks a slot, and two more tasks are what it takes to pass the bound beside it. No worker here cleans up, renews or is stopped, so they are interchangeable (`WorkerSymmetry`). |
| `queue_liveness` | Two tasks of one user, one of which may be cancelled, one slot, two workers, one of which may be stopped: `EveryTaskFinishes`. |
| `queue_user_limit` | Violation: two workers pass the re-check together. |
| `queue_cancelled` | Violation: an acknowledgement overwrites "cancelled". |
| `queue_crash` | Violation: the lease of a dead worker is deleted before it is due. |

What passes is qualified. A task counts for `DeliveredAtMostOnce` as long as the expiry
path has not pushed it again (`requeued`); delivery after that is at least once, which
`TaskLedger` writes down as `Repeat`. `NoSilentLoss`, `SlotsBacked` and `LeaseNamesHolder`
except what a crash or an error dropped: the code has no recovery for it.
`UserOvershootBounded` bounds what `UserLimitRespected` shows to be exceeded: by at most
one task per other worker.

Fairness (`queue_liveness`, `queue_crash`): weak fairness of every coroutine of every
live worker, of a request once begun, and of time; asyncio runs each ready coroutine, and
`propagate` returns or raises. Nothing forces a cancel, a kill or an error. `Tasks` that
are put back go to the tail of a list served in order, so weak fairness suffices.

## 4. AnalysisGraph

`Configs` is a set of configurations: the analysts and their order, parallel or not, the
thread limit, Google or not, tool-call limits, rounds and retries. Each context (the run
itself, or an analyst's thread) has its message history, reports and counters. `Ask` is a
node call and takes any answer the node can produce from what a model may answer; `Route`
is `conditional_logic.py`; `RunTools`, `ClearMessages`, `Join`, `Debate`, `Discuss` and
`Decide` are the rest of `run()`. A report is absent, short or long, since the routing asks
no more (more than 100 characters). One tool call per message is an assumption of the model.

The run `analysis` covers seven configurations: four analysts in sequence and three in two
threads (so one waits and runs afterwards), with and without the Google handler, zero
rounds and zero tool calls, and two rounds with a retry. It checks that histories are
always acceptable (`HistoryWellFormed`) and that the fundamentals node sees only its own
tool results (`OwnResultsOnly`), together `HistoriesSound`; that tool calls and debates keep
to their rounds (`CallsBounded`, `DebatesBalanced`, together `RoundsBounded`); and
`ReportsDelivered`. The run `liveness` checks for two of them that every run ends
(`Terminates`), under weak fairness of run() and of each thread: model clients have
timeouts, so a call returns or raises.

## 5. SessionStore

Writers are the run and its analyst threads; `pending[w]` is the list of writes the node in
progress still makes. An append is three steps (`Number`, `InsertEvent`, `Publish`), a
checkpoint two and an event, and a failing Mongo call (`Fault`) raises where the code lets
it and is swallowed where the code swallows it. `ReadSession`, `ReadCheckpoint` and
`ReadEvents` are a recovery.

The run `analysis` has six scenarios (`SmallRuns`): two threads with an error, two threads
with a recovery, one thread (`parallel_analyst_max_workers` 1) with both, and runs without threads with tools, retries, an error, a clock tick and a
recovery. `NoEventBelowCheckpoint` is stated for the checkpoints of run(). The checkpoints
of parallel analysts do not have it: the number an analyst records can be above one that a
slower thread has not stored yet (`agentscope_runner.py:373`). `RecoveredWhole` is stated
for recoveries that find the session ended and allows any checkpoint of the newest second,
because `created_at` has that resolution. `SessionEnds` assumes weak fairness of each
thread and of the run. A crash of the process is a prefix of a behaviour here: nothing in
the code resumes a session, so safety is unaffected and the session stays "running".

## 6. TaskStatus

`at[t]` walks through `TaskStages`, the order of `create_analysis_task` and
`execute_analysis_background`; each write to memory or to Mongo is a step. `Progress` is
what the thread writes. `MarkMemory`/`MarkMongo` and `DeleteMemory`/`DeleteMongo` are the
two halves of those requests; `Cleanup` is the zombie clean-up, whose Mongo half never
takes effect because its filter is malformed (`simple_analysis_service.py:2582`); `Restart`
empties memory.

The run `analysis`: two tasks and one thread, so that one task waits for the pool; one failing
Mongo call, one restart, two requests. `CompletedIsSaved` says that who saw "completed"
finds the result, after a restart too: readers need the link in the task's document, for
`analysis_reports` has no `user_id`. When the link raises, the code stores a bare result in its
place, which links nothing (`simple_analysis_service.py:3001`); the task is then `unsaved` and
excepted. `AgreeAtRest` and `NotRunningAgain` except tasks that a
request met while they ran (`raced`): there a final status is overwritten, and memory and
Mongo can disagree for good. `DeletedIsGone` covers deletions sent after the creation was
answered. `RunEnds` assumes that the event loop, the pool and the analysis itself go on.

## 7. PaperTrading

Each await of `place_order` and `reset_account` is a step; `at[r]` names the await request
`r` stands at and `mine[r]` holds what it read. Accounts and positions are lists, since no
index forbids duplicates and a query finds the oldest. One stock of one market, the least
commission, no average cost or profit. The day changes only between requests.

The commission and T+1 come from `paper_market_rules`. No initialisation of the deployment
fills it: `scripts/init_paper_trading_market_rules.py` is run by hand. `rules` says whether
the document is there, from the start or not, and `InsertRules` and `DeleteRules` are that
script at any moment, between the two reads of one order too (`FindRules`, `CheckRules`).
Without the document nothing is charged and T+1 is not applied (`paper.py:174`): a buy, then a
sale of the same shares on the same day succeed, with no overlap at all. What the model says
of T+1 is therefore said of days that have the rules from their beginning (`ruledAllDay`).

The run `services` sends three orders, two at a time, with one failing call and one change of
day, on a T+1 and a T+0 market, the rules there or not and coming and going. A share costs 1, the commission is 2 and the initial
cash 3, so one share can be bought and no second one while there are rules, and a sale costs
more than it earns: buy, sell and reset around a change of day, refusals and accounts in the
red all occur.

A sale may cost more than it earns in the code as well: any positive quantity is accepted
(`lot_size` is not looked at), the script sets a minimum commission of 5 yuan, and
`paper.py:468` adds the difference to the cash whatever its sign. A sale can thus put an almost
empty account into the red. `OverdrawnBySalesOnly` says that nothing else can: however
requests interleave, fail and change the rules, an account is in the red by no more than its
sales lost (`losses`), so no buy spends what is not there, although each sets the cash to a
balance it read before. `BooksKept` (`BooksBalance` and `SalesCoveredByOpening`) holds for
requests that neither overlap nor fail; overlapping ones lose updates, because cash and
quantity are set to values computed from an earlier read, and no property is claimed of
those. `paper_tplus1` shows one consequence against a comment of the code: with the rules
there all day, a share bought today is sold today.

## 8. The services

Bounds of `services` and `liveness`; each is what the interesting case takes. One part is at
work in a behaviour of `services`, so its parts name their two requests, calls, threads,
clients or sockets with the same two values, which no definition tells apart; the symmetry
`RequestSymmetry` exchanges them. `liveness` uses no symmetry.

**RateLimiter.** A step is the code between two awaits. `ticket` is the order of the waiters
of `self.lock`, which asyncio serves in turn. Three callers, two permits per window, five
arrivals: a sleeper, a waiter behind it, and a third caller that comes or is cancelled.
`WindowRespected` is about all permits ever given. `liveness` (`CallersServed`) needs one
permit per window and four arrivals: a cancelled waiter, and one that comes after it. Fair:
the loop resumes ready callers; time passes while somebody sleeps. No caller is obliged to
ask.

**JobRecords.** `Begin`, `Check`, `Batch`, `PollProgress` and `Report` are a run; `Find` and
`WriteEnd` the listener task that records its end; `TriggerJob` and `TriggerRecord` the two
halves of a manual trigger. A run that finds no list of stocks, or whose `except` swallows an
error, returns early and counts as a success; only one that cannot connect fails. `orderly` says that nothing has overlapped so far, no record
grew too old and nothing failed; under it `RecordsMatchRuns` holds (`OneRecordPerRun` and
`CancelHitsItsRun`).
Outside it they do not, which is what the listeners' lookup of "the" running record
amounts to: a manual run longer than five minutes leaves its record running beside a second
one. `NothingRunsForever` holds always and without fairness of the runs, thanks to the zombie
check alone. Two runs and two events let a run, a trigger and a request overlap; one batch
has a poll on each side.

**BasicsSync.** A call is `skip` ... `release`; the two service instances share the document
`statusDoc`. Two calls in progress, three in all, two batches, two tries, and one raise, cache
deletion or restart. `FlagMeansRunning` excepts what `force` and the deletion of the cache
allow (`unguarded`), and names the one way a flag stays set for good: the first status write
raises (`cut`). `SyncEnds` assumes that a call that is not waiting goes on.

**ConfigStore.** A document is the set of edits it reflects. `Deactivate`, `InsertDoc`, `Confirm`
are the three calls of a save; `WriteInPlace` is the priority update. Two requests, three in
all, one raise: enough for two saves that overlap and a third after them. `EditsKept` excepts
what overlapped (`raced`): edits are lost there, as each saves the whole document it read.

**Notifications.** Two creations, quota three, five notifications: two overlapping creations
that both count two too many and delete four in all, which is exactly what `LossBounded`,
a part of `QuotaKept`, allows. Two connections, one mishap.

**DataSources.** Two threads, two requests: only `currentSource` survives a request, so a third
adds nothing. Each of the four sources has data, none or raises, an unavailable one too:
`get_stock_data` calls the current source without asking whether it is available. Tushare is
the unavailable one here, and `get_china_stock_data_tushare` swaps it in all the same. Of the
two fallback orders one names a source twice, as `_get_data_source_priority_order` returns it
when two configured sources have one type: `FallbackSound` bounds the calls of the other
sources only. `SourceKept` excepts swaps that overlap (`clashed`): of two, the second saves
what the first has swapped in and can leave it in force for good. The swap of
`_try_fallback_stock_info` (lines 1606-1609) has no `finally`; what it does in between does
not raise.

**ForeignQuotes.** Three requests for two stocks with one ageing of a cached quote, with a
service that is shared (as the tests do) or built per request (as the routers do). Requests
for basic information and candlesticks take no lock and have cache entries of their own, which
are not followed: each may be served from them or not.

## What is proved

Every theorem is about the specification of a module, so about any values of its constants
that satisfy the module's assumption: any number of tasks, workers, threads, requests or
notifications, any limits, and any bound on crashes, errors and retries. Each proof has the
same plan: an inductive invariant, a lemma per action (or per group of actions that disturb
the same conjuncts), and the temporal step at the end. TLC checked each invariant on the
runs' instances before it was proved.

The assumptions are types and finiteness, but for these: the sources found available differ
(`SourcesAssumption`; `_check_available_sources` appends each once); a task of a batch follows
one of the same batch (`DeploymentAssumption`); a job's record is looked for no later than it
counts as overdue (`JobsAssumption`: 5 and 30 minutes in the code); and a run with threads runs
nodes (`SessionAssumption`; each thread calls its analyst's node).

Three attempts failed because the model or its assumptions said something else than the code,
and changed it: two sales that overlap on a T+0 market leave `available_qty` below zero, so it
is an integer (`paper.py:440`); what is left of the notifications is bounded by how many there
are only if the quota is (`NotesAssumption`); and a thread that runs no node would be at its
end before its first write (`SessionAssumption`).

**The queue** (`TaskQueueProofs`).

* `TypeCorrect`: the parts of `TypeOK` that are not plain typing (a worker holds a task
  exactly at the control points in between, a renewal runs only beside a task) make it
  inductive.
* `NothingLost`: `NoSilentLoss`. Each step either leaves every id in its place (`Still`), or
  moves one id; `StepKinds` sorts the steps, and lemmas on the ready list (`PopReady`,
  `PushReady`, `RemReady`) say what it contains afterwards.
* `NoDoubleDelivery`: `DeliveredAtMostOnce`. By itself it is not inductive: an id could be
  pushed or collected before it was ever enqueued. `OnlyPushed` excludes that.
* `ImplementsLedger`: `Spec => LedgerSpec`. Under the mapping `taskPlace` every step moves
  one task along its life in `TaskLedger`, or none; `NoneAstray` shows that "astray" is never
  reached, `LedgerStep` maps the steps.
* `SlotsAreBacked` and `LeasesNameHolders`. That somebody holds the task does not say that
  the holder will release the slot; `SlotsMarked` and `LeaseHeld` add where the holder stands:
  after its own SADD or HSET and before its own SREM or DELETE.
* `OvershootIsBounded`: counting the workers between check and SADD makes the bound
  inductive, since the SADD moves one from one term to the other, and the check raises a term
  only while the other is below the limit.
* `BatchesArePrefixes`, from `BatchChained`: a task that is in the queue stays in its batch's
  set, and its successor starts only then.

**The analysis** (`AnalysisProofs`).

* `StatusTypeCorrect`, `CompletionIsSaved`, `CopiesAgree`, `DeletionIsFinal` and the action
  property `FinalStaysFinal` of `TaskStatus`, from one invariant about one task: `Sound`
  whatever happens, `Saved` while no Mongo call failed for it, `Followed` while no request met
  its run, and `Agreed`, which follows from the two before it at the end. The exceptions a
  property makes are thus the hypotheses of one part each.
* `ReportsAreDelivered`: `ReportsDelivered`, from `FlowInv`: which contexts work at which
  stage (`Phased`), each analyst runs in one context only (`Once`), and where its last report
  is until the merge (`Carried`).
* `RoundsAreBounded`: `RoundsBounded`. `Limited`, also in `FlowInv`, says that whoever is to
  be asked once more has a call left; `TalkInv` says how far a discussion is by its last
  speaker, so that a judge finds both sides, or all three, at the configured number of turns.
* `HistoriesAreSound`: `HistoriesSound`, from `HistInv`: what a history must be where its
  context stands (`Acceptable`), and what of it the fundamentals node may have seen
  (`OwnData`). That sanitising and clearing make any history acceptable are lemmas about folds
  over sequences.
* `GraphTypeCorrect`: `GraphTypeOK`, from the invariants above and `RestInv`. The tool call
  counters are numbers because every update of every node keeps them so (`CountIs`).
* `StepsRunOut`: a variant. `StepsLeft` adds up the calls, speeches, stages and tries still to
  come, weighted so that what one of them opens costs less than it; it is a natural number in
  every state, and every step, one that raises included, lowers it. No behaviour takes infinitely
  many steps, then, fair or not: no tool loop, debate or retry goes on for ever.
* `RunsGoOn`: a run that has begun and not ended has a context at work, or `run()` stands at a
  guard that holds; the join never waits for a thread that is not there. Of `Terminates`, which
  TLC checks, these two are all but one thing: that a guard that holds is an action ENABLED, which
  weak fairness then takes.
* `AnalysisCompose`, `AnalysisTypeCorrect`, `AnalysisIsSafe`: what the run `analysis` explores
  is, seen by each part, a behaviour of that part, so everything proved of them is true of it.

**The sessions** (`SessionStoreProofs`): `SessionInOrder` (`EventsInOrder`),
`CheckpointComplete` (`NoEventBelowCheckpoint`), `RecoveryWhole` (`RecoveredWhole`) and
`SessionTypeCorrect`, from one invariant. `Staged` says who writes when; `Numbering` that a number given is in one writer's
hands; `Accounted` that every number is stored, lost or in those hands, and below a checkpoint
of `run()` only stored or lost; `Worded` what a closing has still to write; `VerdictsLast` that a
verdict is the last word; `Recovering` that what a reader has read of an ended session stays so.
`SessionRunsOut` is a variant, per writer: `WorkLeft` adds up the calls of the writes it has in
hand, the nodes it may still run and the stages of `run()`; no step adds to it, and every one but
the clock's and a reader's takes from somebody's. `SessionGoesOn` (`NeverStuck`): a session begun
and not ended has a writer whose next call can be made, or stands at a guard that holds.
`SessionEndsWhole` (`EndsWhole`): when it is over and no Mongo call raised, it has a final status
and a verdict. Of `SessionEnds` these leave only that a guard that holds is an action ENABLED.

**Limits, synchronisation and jobs** (`FlowProofs`).

* `LimiterTypeCorrect` and `LimiterRespectsWindow`: what is in `calls` is the end of the
  history `granted`, what was dropped from it has left the window, and while one caller sleeps
  nobody else holds the lock, so its oldest entry is the one the sleeper waits for.
* `LimiterKeepsTurns`: tickets are numbers that were given, each once (`TicketsInv`), so while a
  caller waits nobody comes in ahead of it and only the sleeper or a caller ahead of it is served
  (`TurnsKept`); and while anybody waits, one sleeps, for a window and a tick at most, or the lock
  is free and has a first waiter (`LockMoves`). Of `CallersServed` that leaves the fairness.
* `FlagIsTrue`: `FlagInv` says without counting that two calls at work on a guarded instance
  are one; only then does the reset in the `finally` leave nobody at work. `StatusIsTrue`:
  `Writings` says what a run has written by where it is, and `Announced` that a status
  "running" has a call that will still write its end.
* `JobsAreRecorded`: `RecordsMatchRuns`, while nothing overlaps. `OrderlyInv` ties the one
  running record to the run that is due, in progress or about to be closed (`RunningFollows`),
  and counts, verdict by verdict, the records and the runs told of (`RecordsCount`). A job
  that reports its progress needs a different argument: no flag ever stops it (`Unstopped`).
* `SyncCallsEnd`: the variant `StepsOf` counts the steps a call has left, a batch standing for
  all the tries it can take, and every step of a call lowers it (`CallsRunDown`). Of `SyncEnds`
  that leaves to TLC that a call which is not waiting can go on, and does.
* `SyncTypeCorrect` and `JobsTypeCorrect`. No proof here uses fairness: the lemmas `FlagLasts`,
  `StatusLasts` and `RecordsLast` say the same without it, which is what the composition needs.

**Trading and market data** (`MarketProofs`).

* `OnlySalesOverdraw`: `OverdrawnBySalesOnly`. Cash is never read twice, so an order debits a
  balance that may be stale; but it compares the cost with that same memory, so what it sets
  is a natural number, and the sales that follow take no more from it than they add to `losses`.
* `BooksAreKept`: `BooksKept`, for requests that neither overlap nor fail, whenever the rules
  come and go; its half about T+1 for days that have them all along. `StageHolds` says
  how the books stand while the one request waits: each step moves one of cash, position and
  orders, and the trade, inserted last, squares them. Cash and holding are sums over the
  trades, which `FoldLemmas` describes place by place.
* `RequestsShareFetches`, from `OneFetchPerLock` and `CoveredServed`: whoever waits for a lock
  while its holder fetches is, when the holder leaves, good with what is cached, until it ages.
* `PaperTypeCorrect`, `QuotesTypeCorrect` and `SourcesTypeCorrect`. Of an account: no two
  positions share an `_id`, so what a request credits is the position it read, or none.
* `ChosenSourceKept` and `FallbacksAreSound` (`SourceKept`, `FallbackSound`). `OneSwap`: what the
  one swap has saved is the source chosen. `FoundOut`: which sources a request knows not to
  have the stock, by its stage. `CallsInv`: the calls of a source, made and still queued.

**What is stored for users** (`StoreProofs`).

* `ActiveIsSettled` and `EditsAreKept`. `Counted`: a request between its two calls counts as
  the document it switched off. `Reflected`: what is promised is in the active document and in
  what a priority update will make of it.
* `ConnectionsAreServed`: what a publication has still to do is at least what it owes
  (`Publishing`), whatever is listed and dropped meanwhile (`Listing`).
* `QuotaIsKept`: `QuotaKept`, three invariants for its three parts. `InTurn`, for creations that
  follow one another: what is stored is an interval, cut where expiry and quota say. `Overshot`,
  for any overlap: some creations `base` that have inserted theirs cover what is beyond the
  quota, and for each that prunes, those that inserted since it counted (`since`) cover what
  is beyond when it has deleted; who counted later has fewer of them, so a deletion can take
  over the set of the one that deletes. `LossHolds`, for what is left: a pruning yet to come may
  take as many as there are creations, or one of them just what it counted too many (`Debts`).
  Either what is stored and those debts still make the quota (`Enough`), or little is lost at
  all (`Small`); a creation that inserts late is what may leave the first for the second.

* `ConfigTypeCorrect` and `NotesTypeCorrect`.

**The services together** (`ServicesProofs`): `ServicesCompose`, that each service behaves in the
run `services` as in its own module; hence `ServicesTypeCorrect` (`ServicesTypeOK`) and
`ServicesAreSafe`, every safety property of that run.

`FoldLemmas` holds what several of these need: a nonempty set of naturals has a least element
(from the library's well-founded relations), so a set of naturals that is closed under successor
is all of them, which is induction stated of a set instead of an operator; and what a fold over
the places of a sequence is, place after place.

Model-checked only: the seven properties of the runs `queue_liveness` and `liveness`, which need
fairness and ENABLED. Every invariant and action property of a passing run, and the refinement,
is a theorem. The six violated properties are no theorems, of course: TLC shows a behaviour.

## Disagreements shown by a run

`PROJECT.json` lists six findings: the user limit, the overwritten cancellation, the lease
that expires as it becomes due, T+1 under two orders in flight, the default configuration
stored over one being saved, and the deduplication of quotes that no two requests share.

## Noticed while modelling, shown by no run

* `dequeue_task` re-checks the user's limit only; the global limit is checked at enqueue.
* In the worker, `propagate` runs in the event loop's thread, where `asyncio.run`
  (`agentscope_runner.py:572`) refuses to start: two or more parallel analysts fail there.
* `analysis_service._update_session_summary` passes a dict without `session_id`; the
  KeyError is swallowed, so worker sessions get no status. In worker mode the asynchronous
  append numbers events from Redis, the graph from Mongo.
* `AnalysisService.cancel_task` calls `queue_service.remove_task`, which does not exist.
* `risk_manager.py:20,22` uses the news report as the fundamentals report and
  `investment_plan` as the trader's plan.
* Progress steps back from 20 to 7 and from 93 to 90 (`simple_analysis_service.py:1105`,
  `1367`, `1802`), and the step "生成报告" is never reported.
* A degraded session (`requires_review`) is stored as completed.
* After a restart, tasks that Mongo shows as pending or processing stay so, since the
  clean-up changes memory only.
* Two analyses of one stock saved in the same second share `analysis_id`, by which readers
  fetch the report.
* `available_qty` of a CN position is not raised the next day; the day is the UTC date.
* `update_job_progress` reopens the last record of a job whatever its status, and its own
  `except Exception` catches `TaskCancelledException`; so no such job can be cancelled.
* `main.py:318` and `327` schedule a lambda whose coroutine is never awaited, so the
  synchronisation of the basics runs at boot and on request only.
* The arguments a manual trigger sets for its run stay with the job for later runs; pausing a
  job cancels a trigger that is due.
* The Mongo half of the zombie clean-up of tasks has a filter the server refuses
  (`simple_analysis_service.py:2582`).
* `get_financial_data` of the Tushare provider makes five calls for one permit of the limiter,
  and the permission probe makes one without.
* The notification endpoint registers every connection under "admin".
* `get_stock_dataframe` does not fall back when the current source raises; the fallback drops
  `period`, as does the key of the cache; `_try_fallback_sources` runs twice when MongoDB is the
  source in force. `available_sources` is searched for a string among enum members, so a
  source that is switched off is never removed. `_get_tushare_stock_info` is not defined.

## 9. What is left

1. Proofs: variants for the jobs, the tasks and the queue, as `StepsLeft` is for `Terminates`.
2. Sessions of the worker mode: two counters for one session, summary cached in Redis.
3. `AnalysisService.submit_batch` over `TaskQueue`: Mongo and queue halves of a batch.
4. The quotes ingestion, and a job's records composed with what the job does.

Not modelled, and not planned: what the providers return, their parsing and field mapping,
mail, users and screening (single-document updates), progress display, the user interfaces.
