---------------------------- MODULE SessionStore ----------------------------
(***************************************************************************)
(* The durable session of one analysis run by the analysis service:        *)
(* app/services/sessions/{event_store,checkpoint_store,runtime,recovery}   *)
(* and the places that write to it, run() and its analyst threads          *)
(* (agentscope_runner.py), the capability executor and                     *)
(* simple_analysis_service.py.  Each Mongo call is a step of its own: an   *)
(* append numbers the event, inserts it and publishes the number in the    *)
(* summary; a checkpoint is inserted, then named in the summary, then      *)
(* recorded as an event.  A recovery reads the three collections one after *)
(* the other.                                                              *)
(*                                                                         *)
(* An event keeps its number and type, a checkpoint its author, the number *)
(* its state_summary records and the second of created_at.                 *)
(***************************************************************************)
EXTENDS Integers, FiniteSets, SequencesExt

CONSTANTS
    MainThread,     \* the thread of run_analysis_sync
    AnalystThreads, \* the threads a fan-out can have
    Runs            \* the runs to consider, each with its bounds

Writers == {MainThread} \cup AnalystThreads

RunType ==
    [threads    : SUBSET AnalystThreads,  \* the analysts that fan out
     skill      : BOOLEAN,          \* a skill was selected
     nodes      : Nat,              \* bound: nodes a writer runs
     errors     : Nat,              \* bound: Mongo calls that raise
     seconds    : Nat,              \* bound: seconds the clock passes
     recoveries : 0..1]             \* bound: recovery requests

\* run() fans out to a thread for each of two analysts or more, as far as
\* parallel_analyst_max_workers allows, one included; every thread runs a node.
ASSUME SessionAssumption ==
    /\ MainThread \notin AnalystThreads
    /\ Runs \subseteq RunType
    /\ \A r \in Runs : r.threads # {} => r.nodes > 0

Failures == {"failed", "needs_regeneration"}
Terminal == {"completed", "completed_with_warnings"} \cup Failures
Verdicts == {"session_completed", "session_failed"}
Saving   == {"checkpoint", "session_checkpointed"}
NodeOps  == {"node_started", "judge_evaluated", "node_completed"}
ToolOps  == {"tool_call_requested", "tool_call_completed", "tool_call_blocked"}
Kinds    == NodeOps \cup ToolOps \cup Verdicts \cup
            {"session_started", "skill_selected", "session_checkpointed",
             "quality_gate_evaluated"}
Ops      == Kinds \cup {"open", "close", "reply", "checkpoint"}

VARIABLES
    counter,        \* the session's document in _runtime_counters
    events,         \* analysis_session_events
    checkpoints,    \* analysis_session_checkpoints
    summary,        \* analysis_sessions: status, last_event_seq, checkpoint
    run,            \* the run, one of Runs
    verdict,        \* the status the run will close with
    phase,          \* "new", "opening", "fanout", "nodes", "closing", "done"
    act,            \* per writer: "idle", "busy", "ended", "raised"
    pending,        \* per writer: the writes it has still to do
    step,           \* per writer: how far the first of them is
    held,           \* per writer: the number it was given last
    stamp,          \* per writer: created_at of its next checkpoint
    nodes,          \* per writer: nodes it has run
    second, mongoErrors, \* the clock, and the Mongo calls that have raised
    lost,           \* history: numbers given to events that were not inserted
    reading, view   \* a recovery request: how far it is, what it has read

store    == <<counter, events, checkpoints, summary>>
control  == <<run, verdict, phase, act, nodes>>
progress == <<pending, step, held, stamp>>
bounds   == <<second, mongoErrors, lost>>
reader   == <<reading, view>>
sessionVars == <<store, control, progress, bounds, reader>>

NoCheckpoint == [by |-> MainThread, after |-> 0, second |-> 0]

SessionTypeOK ==
    /\ counter \in Nat
    /\ \A e \in events : e.seq \in 1..counter /\ e.kind \in Kinds
    /\ \A c \in checkpoints : /\ c.by \in Writers /\ c.after \in 1..counter
                              /\ c.second \in 0..second
    /\ summary.status \in Terminal \cup {"", "running"}
    /\ summary.last \in 0..counter /\ summary.checkpoint \in 0..counter
    /\ run \in Runs /\ verdict \in Terminal
    /\ phase \in {"new", "opening", "fanout", "nodes", "closing", "done"}
    /\ act \in [Writers -> {"idle", "busy", "ended", "raised"}]
    /\ \A w \in Writers : pending[w] \in Seq(Ops)
    /\ step \in [Writers -> {"ready", "numbered", "stored"}]
    /\ held \in [Writers -> 0..counter] /\ stamp \in [Writers -> 0..second]
    /\ nodes \in [Writers -> 0..run.nodes]
    /\ second \in 0..run.seconds /\ mongoErrors \in 0..run.errors
    /\ lost \subseteq 1..counter
    /\ reading \in 0..3

\* start_session_sync.
Opening == <<"open", "session_started">> \o
           (IF run.skill THEN <<"skill_selected">> ELSE <<>>)

\* run_agent.  The node replies; a judged one (only run() has them) is then
\* evaluated and may have to reply a second time.
Replies == {<<"reply">>, <<"reply", "judge_evaluated">>,
            <<"reply", "judge_evaluated", "reply", "judge_evaluated">>}
Node(replies) == <<"node_started">> \o replies \o
                 <<"node_completed", "checkpoint", "session_checkpointed">>

\* execute_local: a tool that runs, one that fails, one that is not allowed.
ToolCalls == {<<"tool_call_requested", "tool_call_completed">>,
              <<"tool_call_requested", "tool_call_blocked">>,
              <<"tool_call_blocked">>}

SessionInit ==
    /\ counter = 0 /\ events = {} /\ checkpoints = {}
    /\ summary = [status |-> "", last |-> 0, checkpoint |-> 0]
    /\ run \in Runs /\ verdict = "completed"
    /\ phase = "new"
    /\ act = [w \in Writers |-> "idle"] /\ pending = [w \in Writers |-> <<>>]
    /\ step = [w \in Writers |-> "ready"]
    /\ held = [w \in Writers |-> 0] /\ stamp = [w \in Writers |-> 0]
    /\ nodes = [w \in Writers |-> 0]
    /\ second = 0 /\ mongoErrors = 0 /\ lost = {}
    /\ reading = 0
    /\ view = [status |-> "", checkpoint |-> NoCheckpoint, seqs |-> {}]
-----------------------------------------------------------------------------
\* The writes.

\* Mutant: the number is read from the summary, not taken from the counter.
Given_Read == summary.last + 1

\* find_one_and_update with $inc: the number is read and advanced at once.
Given == counter + 1

At(w, s) == act[w] = "busy" /\ pending[w] # <<>> /\ step[w] = s

\* The write of w is done: on to its next one.
Done(w) ==
    /\ pending' = [pending EXCEPT ![w] = Tail(@)]
    /\ step' = [step EXCEPT ![w] = "ready"]

\* append_event_sync, first call: the event is given its number.
Number(w) ==
    /\ At(w, "ready") /\ Head(pending[w]) \in Kinds
    /\ counter' = counter + 1
    /\ held' = [held EXCEPT ![w] = Given]
    /\ step' = [step EXCEPT ![w] = "numbered"]
    /\ UNCHANGED <<events, checkpoints, summary, pending, stamp, control, bounds, reader>>

\* append_event_sync, second call: it is inserted.
InsertEvent(w) ==
    /\ At(w, "numbered") /\ Head(pending[w]) \in Kinds
    /\ events' = events \cup {[seq |-> held[w], kind |-> Head(pending[w])]}
    /\ step' = [step EXCEPT ![w] = "stored"]
    /\ UNCHANGED <<counter, checkpoints, summary, pending, held, stamp, control,
                   bounds, reader>>

\* append_event_sync, third call: its number becomes last_event_seq.  After
\* "node_completed" the caller stamps the checkpoint it is about to save.
Publish(w) ==
    /\ At(w, "stored") /\ Head(pending[w]) \in Kinds
    /\ summary' = [summary EXCEPT !.last = held[w]]
    /\ stamp' = IF Head(pending[w]) = "node_completed"
                THEN [stamp EXCEPT ![w] = second] ELSE stamp
    /\ Done(w)
    /\ UNCHANGED <<counter, events, checkpoints, held, control, bounds, reader>>

\* The node answers: a language model's or a tool's time, no write.
Reply(w) ==
    /\ At(w, "ready") /\ Head(pending[w]) = "reply"
    /\ Done(w)
    /\ UNCHANGED <<store, held, stamp, control, bounds, reader>>

\* save_checkpoint_sync, first call.  state_summary.last_event_seq is the
\* number of the "node_completed" just appended.
SaveCheckpoint(w) ==
    /\ At(w, "ready") /\ Head(pending[w]) = "checkpoint"
    /\ checkpoints' = checkpoints \cup
           {[by |-> w, after |-> held[w], second |-> stamp[w]]}
    /\ step' = [step EXCEPT ![w] = "stored"]
    /\ UNCHANGED <<counter, events, summary, pending, held, stamp, control, bounds,
                   reader>>

\* save_checkpoint_sync, second call: latest_checkpoint_id.
NameCheckpoint(w) ==
    /\ At(w, "stored") /\ Head(pending[w]) = "checkpoint"
    /\ summary' = [summary EXCEPT !.checkpoint = held[w]]
    /\ Done(w)
    /\ UNCHANGED <<counter, events, checkpoints, held, stamp, control, bounds, reader>>

\* start_session_sync upserts the whole summary.
Open ==
    /\ At(MainThread, "ready") /\ Head(pending[MainThread]) = "open"
    /\ summary' = [status |-> "running", last |-> 0, checkpoint |-> 0]
    /\ Done(MainThread)
    /\ UNCHANGED <<counter, events, checkpoints, held, stamp, control, bounds, reader>>

\* complete_session_sync sets the status before it appends the last event.
Close ==
    /\ At(MainThread, "ready") /\ Head(pending[MainThread]) = "close"
    /\ summary' = [summary EXCEPT !.status = verdict]
    /\ Done(MainThread)
    /\ UNCHANGED <<counter, events, checkpoints, held, stamp, control, bounds, reader>>
-----------------------------------------------------------------------------
\* The run.

\* _resolve_completion_event_type.
Verdict(status) == IF status \in Failures THEN "session_failed" ELSE "session_completed"

\* The service closes the session with a status.
Closing(status, before) ==
    /\ phase' = "closing" /\ verdict' = status
    /\ pending' = [pending EXCEPT ![MainThread] = before \o <<"close", Verdict(status)>>]
    /\ step' = [step EXCEPT ![MainThread] = "ready"]

\* run_analysis_sync begins, with the session.
StartService ==
    /\ phase = "new" /\ phase' = "opening"
    /\ act' = [act EXCEPT ![MainThread] = "busy"]
    /\ pending' = [pending EXCEPT ![MainThread] = Opening]
    /\ UNCHANGED <<store, run, verdict, nodes, step, held, stamp, bounds, reader>>

\* The session is open (or could not be opened): the runner starts.
StartRun ==
    /\ phase = "opening" /\ pending[MainThread] = <<>>
    /\ phase' = IF run.threads = {} THEN "nodes" ELSE "fanout"
    /\ act' = [w \in Writers |-> IF w \in run.threads THEN "busy" ELSE act[w]]
    /\ pending' = [w \in Writers |-> IF w \in run.threads THEN Node(<<"reply">>) ELSE <<>>]
    /\ nodes' = [w \in Writers |-> IF w \in run.threads THEN 1 ELSE 0]
    /\ UNCHANGED <<store, run, verdict, step, held, stamp, bounds, reader>>

\* Whether w may go on to another node: a thread always, run() in its stage.
InNodes(w) == act[w] = "busy" /\ pending[w] = <<>> /\ (w = MainThread => phase = "nodes")

\* The next node: an analyst's after a tool call, or run()'s next one.
Continue(w) ==
    /\ InNodes(w) /\ nodes[w] < run.nodes
    /\ \/ \E tools \in ToolCalls : pending' = [pending EXCEPT ![w] = tools \o Node(<<"reply">>)]
       \/ w = MainThread /\ \E replies \in Replies : pending' = [pending EXCEPT ![w] = Node(replies)]
    /\ nodes' = [nodes EXCEPT ![w] = @ + 1]
    /\ UNCHANGED <<store, run, verdict, phase, act, step, held, stamp, bounds, reader>>

\* An analyst's thread returns.
EndAnalyst(a) ==
    /\ InNodes(a)
    /\ act' = [act EXCEPT ![a] = "ended"]
    /\ held' = [held EXCEPT ![a] = 0] /\ stamp' = [stamp EXCEPT ![a] = 0]
    /\ UNCHANGED <<store, run, verdict, phase, nodes, pending, step, bounds, reader>>

\* Mutants: run() goes on as soon as one thread is done; a thread that raised
\* is waited for.
Joined_First == \E a \in AnalystThreads : act[a] \in {"ended", "raised"}
Joined_Ended == \A a \in AnalystThreads : act[a] \in {"idle", "ended"}

\* asyncio.run returns when every thread has: shutting its executor down
\* waits for those still running after one has raised.
Joined == \A a \in AnalystThreads : act[a] # "busy"

\* The fan-out is over; if a thread raised, the run fails.
JoinThreads ==
    /\ phase = "fanout" /\ Joined
    /\ IF \E a \in AnalystThreads : act[a] = "raised"
       THEN Closing("failed", <<>>)
       ELSE phase' = "nodes" /\ UNCHANGED <<verdict, pending, step>>
    /\ UNCHANGED <<store, run, act, nodes, held, stamp, bounds, reader>>

\* The graph is done: the quality gates of the skill give the status.
FinishRun ==
    /\ phase = "nodes" /\ pending[MainThread] = <<>>
    /\ \E status \in Terminal \ {"failed"} :
         /\ ~run.skill => status = "completed"
         /\ Closing(status, IF run.skill THEN <<"quality_gate_evaluated">> ELSE <<>>)
    /\ UNCHANGED <<store, run, act, nodes, held, stamp, bounds, reader>>

\* The service returns.
EndRun ==
    /\ phase = "closing" /\ pending[MainThread] = <<>>
    /\ phase' = "done" /\ act' = [act EXCEPT ![MainThread] = "ended"]
    /\ UNCHANGED <<store, run, verdict, nodes, progress, bounds, reader>>

\* w leaves what it does with an exception: a thread ends, the run fails.
Abandon(w) ==
    IF w = MainThread
    THEN Closing("failed", <<>>) /\ UNCHANGED act
    ELSE /\ act' = [act EXCEPT ![w] = "raised"]
         /\ pending' = [pending EXCEPT ![w] = <<>>]
         /\ step' = [step EXCEPT ![w] = "ready"]
         /\ UNCHANGED <<phase, verdict>>

\* A node raises, or the service does before the session is opened, when it
\* configures the graph and when it builds the result.
NodeRaises(w) ==
    /\ act[w] = "busy" /\ step[w] = "ready"
    /\ \/ pending[w] # <<>> /\ Head(pending[w]) \in {"open", "reply"}
       \/ w = MainThread /\ phase \in {"opening", "nodes"} /\ pending[w] = <<>>
    /\ Abandon(w)
    /\ UNCHANGED <<store, run, nodes, held, stamp, bounds, reader>>

\* Writes whose exception the caller does not catch.
Uncaught == NodeOps \cup ToolOps

\* What a caller that catches the exception goes on with.  A checkpoint is
\* the end of its node; an opening or a closing is abandoned whole.
Rest(w) == IF Head(pending[w]) = "quality_gate_evaluated" THEN Tail(pending[w]) ELSE <<>>

\* A Mongo call raises.
Fault(w) ==
    /\ act[w] = "busy" /\ pending[w] # <<>> /\ Head(pending[w]) # "reply"
    /\ mongoErrors < run.errors
    /\ mongoErrors' = mongoErrors + 1
    /\ lost' = IF step[w] = "numbered" THEN lost \cup {held[w]} ELSE lost
    /\ IF Head(pending[w]) \in Uncaught
       THEN Abandon(w)
       ELSE /\ pending' = [pending EXCEPT ![w] = Rest(w)]
            /\ step' = [step EXCEPT ![w] = "ready"]
            /\ UNCHANGED <<act, phase, verdict>>
    /\ UNCHANGED <<store, run, nodes, held, stamp, second, reader>>

Tick ==
    /\ second < run.seconds
    /\ second' = second + 1
    /\ UNCHANGED <<store, control, progress, mongoErrors, lost, reader>>
-----------------------------------------------------------------------------
\* get_recovery_payload.

\* Mutant: the session is read after its events.
ReadOrder_Last == <<"checkpoint", "events", "session">>

ReadOrder == <<"session", "checkpoint", "events">>

Reads(what) == /\ reading < Len(ReadOrder) * run.recoveries /\ ReadOrder[reading + 1] = what
               /\ reading' = reading + 1

ReadSession ==
    /\ Reads("session")
    /\ view' = [view EXCEPT !.status = summary.status]
    /\ UNCHANGED <<store, control, progress, bounds>>

\* get_latest_checkpoint: one with the greatest created_at.
Latest == {c \in checkpoints : \A d \in checkpoints : d.second <= c.second}

ReadCheckpoint ==
    /\ Reads("checkpoint")
    /\ \E c \in IF checkpoints = {} THEN {NoCheckpoint} ELSE Latest :
         view' = [view EXCEPT !.checkpoint = c]
    /\ UNCHANGED <<store, control, progress, bounds>>

\* get_events with after_seq.
ReadEvents ==
    /\ Reads("events")
    /\ view' = [view EXCEPT !.seqs =
                  {e.seq : e \in {f \in events : f.seq > view.checkpoint.after}}]
    /\ UNCHANGED <<store, control, progress, bounds>>
-----------------------------------------------------------------------------
Write(w) == \/ Number(w) \/ InsertEvent(w) \/ Publish(w)
            \/ Reply(w) \/ SaveCheckpoint(w) \/ NameCheckpoint(w)

SessionNext ==
    \/ StartService \/ Open \/ Close \/ StartRun \/ JoinThreads \/ FinishRun
    \/ EndRun \/ Tick
    \/ \E w \in Writers : Write(w) \/ Continue(w) \/ NodeRaises(w) \/ Fault(w)
    \/ \E a \in AnalystThreads : EndAnalyst(a)
    \/ ReadSession \/ ReadCheckpoint \/ ReadEvents

SessionSpec == SessionInit /\ [][SessionNext]_sessionVars

\* A thread that runs goes on; the run follows its threads.
SessionFairness ==
    /\ WF_sessionVars(Open \/ Close \/ StartRun \/ JoinThreads \/ FinishRun \/ EndRun)
    /\ \A w \in Writers : WF_sessionVars(Write(w) \/ (w # MainThread /\ EndAnalyst(w)))

SessionFairSpec == SessionSpec /\ SessionFairness
-----------------------------------------------------------------------------
\* Properties.

IsVerdict(e) == e.kind \in Verdicts

\* Two events of a session never have the same number, however the threads
\* interleave: append_event_sync takes it from the counter in one call.
SeqUnique == \A e, f \in events : e.seq = f.seq => e = f

\* The verdict is the last word: no event has a later number, no thread is
\* still writing, and once it is published last_event_seq is its number.
VerdictLast ==
    \A v \in {e \in events : IsVerdict(e)} :
        /\ v.seq = counter
        /\ \A a \in AnalystThreads : act[a] # "busy"
        /\ phase = "done" /\ mongoErrors = 0 => summary.last = v.seq

\* A session has at most one verdict, and its status is the one the verdict
\* was written for: a write that fails while it closes does not close it a
\* second time.
OneVerdict ==
    \A v \in {e \in events : IsVerdict(e)} :
        /\ \A e \in events : IsVerdict(e) => e = v
        /\ v.kind = "session_failed" <=> summary.status \in Failures

\* The events of a session are in order: numbers are unique, and one verdict
\* comes last.
EventsInOrder == SeqUnique /\ VerdictLast /\ OneVerdict

\* When run() saves a checkpoint, every event up to its last_event_seq is in
\* the store or was lost by a call that raised: no slower thread inserts one
\* below it later, where a recovery from this checkpoint would not see it.
NoEventBelowCheckpoint ==
    \A c \in checkpoints : c.by = MainThread =>
        1..c.after \subseteq {e.seq : e \in events} \cup lost

\* A recovery that finds the session ended has read the newest checkpoint and
\* every event after it but the verdict, which is written after the status.
RecoveredWhole ==
    reading = Len(ReadOrder) /\ view.status \in Terminal =>
        /\ \A c \in checkpoints : c.second <= view.checkpoint.second
        /\ \A e \in events : e.seq > view.checkpoint.after /\ ~IsVerdict(e)
                              => e.seq \in view.seqs

\* Every run that begins ends, and if no Mongo call raised it leaves the
\* session with a status and a verdict.
SessionEnds ==
    phase # "new" ~> /\ phase = "done"
                     /\ mongoErrors = 0 => /\ summary.status \in Terminal
                                           /\ \E e \in events : IsVerdict(e)
=============================================================================
