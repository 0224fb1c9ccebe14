--------------------------- MODULE AnalysisGraph ---------------------------
(***************************************************************************)
(* One analysis run: AgentScopeRunner.run                                  *)
(* (tradingagents/graph/agentscope_runner.py), the routing of              *)
(* conditional_logic.py, and the nodes it calls.  Analysts run in threads  *)
(* (a fan-out over dict copies of the state, merged at the end) or one     *)
(* after another on the shared state; the debate, the trader, the risk     *)
(* discussion and the judge's retries follow.                              *)
(*                                                                         *)
(* What a language model answers is chosen freely.  A report is only       *)
(* absent, short (100 characters or fewer) or long, and a message only     *)
(* what the routing and the sanitizer tell apart: "call" and "ai" are      *)
(* model results with and without tool calls, which carry an id; "human",  *)
(* "tool" and "plain" (an AIMessage the news node builds itself) carry     *)
(* none.  A model result makes one tool call at a time.                    *)
(***************************************************************************)
EXTENDS Integers, FiniteSets, SequencesExt

CONSTANTS
    Configs,        \* the configurations and skill policies of a run
    Main            \* the context of run() itself; the others are threads

Analysts  == {"market", "social", "news", "fundamentals"}
Ctxs      == Analysts \cup {Main}
Debaters  == {"Bull", "Bear"}
RiskTeam  == {"Risky", "Safe", "Neutral"}
Judged    == {"Research Manager", "Trader", "Risk Judge"}
Stages    == {"new", "analysts", "fanout", "debate", "risk", "done", "failed"} \cup Judged
Messages  == {"human", "call", "ai", "plain", "tool"}
Reports   == {"none", "short", "long"}

ConfigType ==
    [order      : {s \in BoundedSeq(Analysts, 4) : IsInjective(s)},
     parallel   : BOOLEAN,              \* parallel_analyst_pipeline_enabled
     workers    : Nat \ {0},            \* parallel_analyst_max_workers
     google     : BOOLEAN,              \* GoogleToolCallHandler.is_google_model
     maxCalls   : [Analysts -> Nat],    \* _get_skill_max_tool_calls
     rounds     : Nat,                  \* max_debate_rounds
     riskRounds : Nat,                  \* max_risk_discuss_rounds
     retries    : Nat]                  \* llm_judge_max_retries

ASSUME GraphAssumption == Configs \subseteq ConfigType /\ Main \notin Analysts

VARIABLES
    config,         \* the configuration of this run
    stage,          \* how far run() has come
    todo,           \* analysts run() has still to run on its own state
    pc,             \* per context: "off", "prepare", "ask", "route", "tools",
                    \* "clear", "end" or "raised"
    turn,           \* per context: the analyst it runs
    hist,           \* per context: state["messages"]
    reports,        \* per context: the four report keys of its state
    count,          \* the <analyst>_tool_call_count keys, each owned by the
                    \* context that runs the analyst
    spoken,         \* speeches per debater; their sums are the two "count"s
    last,           \* the last speaker of the current discussion
    attempt,        \* attempt number of a judged node
    asked, tooled,  \* history: node calls and tool rounds per analyst
    produced        \* history: the last report each analyst returned

runVars   == <<stage, todo>>
ctxVars   == <<pc, turn, hist, reports, count>>
talkVars  == <<spoken, last, attempt>>
histories == <<asked, tooled, produced>>
graphVars == <<config, runVars, ctxVars, talkVars, histories>>

GraphTypeOK ==
    /\ config \in Configs
    /\ stage \in Stages
    /\ todo \in BoundedSeq(Analysts, 4)
    /\ pc \in [Ctxs -> {"off", "prepare", "ask", "route", "tools", "clear",
                        "end", "raised"}]
    /\ turn \in [Ctxs -> Analysts]
    /\ \A c \in Ctxs : Range(hist[c]) \subseteq Messages
    /\ reports \in [Ctxs -> [Analysts -> Reports]]
    /\ count \in [Analysts -> Nat]
    /\ spoken \in [Debaters \cup RiskTeam -> Nat]
    /\ last \in Debaters \cup RiskTeam \cup {""}
    /\ attempt \in 0..config.retries
    /\ asked \in [Analysts -> Nat] /\ tooled \in [Analysts -> Nat]
    /\ produced \in [Analysts -> Reports]

\* create_initial_state; the fan-out needs two analysts or more.
FansOut(cfg) == cfg.parallel /\ Len(cfg.order) > 1
Threads(cfg) == IF FansOut(cfg)
                THEN {cfg.order[i] : i \in 1..Min({cfg.workers, Len(cfg.order)})}
                ELSE {}

GraphInit ==
    /\ config \in Configs
    /\ stage = "new" /\ todo = <<>>
    /\ pc = [c \in Ctxs |-> "off"]
    /\ turn = [c \in Ctxs |-> IF c = Main THEN "market" ELSE c]
    /\ hist = [c \in Ctxs |-> <<"human">>]
    /\ reports = [c \in Ctxs |-> [a \in Analysts |-> "none"]]
    /\ count = [a \in Analysts |-> 0]
    /\ spoken = [s \in Debaters \cup RiskTeam |-> 0]
    /\ last = "" /\ attempt = 0
    /\ asked = [a \in Analysts |-> 0] /\ tooled = [a \in Analysts |-> 0]
    /\ produced = [a \in Analysts |-> "none"]
-----------------------------------------------------------------------------
\* Message histories.

\* Mutant: histories go to the model as they are.
Sanitize_Off(h) == h

\* _sanitize_message_history: a tool message stays only as the answer to the
\* call just before it.
Sanitize(h) ==
    FoldLeft(LAMBDA kept, m :
                IF m = "tool" /\ (kept = <<>> \/ Last(kept) # "call")
                THEN kept ELSE Append(kept, m),
             <<>>, h)

\* Msg Clear: RemoveMessage removes by id, and messages without one stay.
Cleared(h) ==
    FoldLeft(LAMBDA kept, m : IF m \in {"call", "ai"} THEN kept ELSE Append(kept, m),
             <<>>, h) \o <<"human">>

HasTool(h) == Contains(h, "tool")
ToolCount(h) == Cardinality({i \in DOMAIN h : h[i] = "tool"})
-----------------------------------------------------------------------------
\* The analyst nodes.  Each is the set of updates it can return to a context
\* whose history is h: new messages, the report ("kept": the key is not in the
\* update) and the tool call count.

Update(ms, r, n) == [messages |-> ms, report |-> r, count |-> n]

\* A Google model's result goes back as it is, with the handler's report.
MarketUpdates(h, n) ==
    {Update(<<"ai">>, r, n + 1) : r \in Reports}
      \cup IF config.google
           THEN {Update(<<"call">>, r, n + 1) : r \in Reports}
           ELSE \* the tools are run in the node; a failure leaves the call
                {Update(<<"call", "tool", "ai">>, r, n + 1) : r \in Reports}
                  \cup {Update(<<"call">>, r, n + 1) : r \in {"short", "long"}}

\* Mutant: the tool call counter is not advanced.
SocialUpdates_NoCount(h, n) ==
    {Update(<<"ai">>, r, n) : r \in Reports}
      \cup {Update(<<"call">>, r, n) : r \in IF config.google THEN Reports ELSE {"none"}}

SocialUpdates(h, n) ==
    {Update(<<"ai">>, r, n + 1) : r \in Reports}
      \cup {Update(<<"call">>, r, n + 1) : r \in IF config.google THEN Reports ELSE {"none"}}

\* Always a message of its own, without calls.
NewsUpdates(h, n) == {Update(<<"plain">>, r, n + 1) : r \in Reports}

\* A tool message in the history means the data is there: a further call is
\* answered by a forced report.  Without one, the first call is let through, a
\* long answer is the report, and a short one is replaced by a forced report.
FundamentalsUpdates(h, n) ==
    LET seen == Max({n, ToolCount(h)})
    IN  IF config.google THEN {Update(<<>>, r, n) : r \in Reports}
        ELSE IF HasTool(h)
        THEN {Update(<<"ai">>, r, seen) : r \in Reports}
        ELSE {Update(<<"call">>, "kept", seen), Update(<<"ai">>, "long", 0)}
               \cup {Update(<<>>, r, 0) : r \in Reports}

Updates(a, h) ==
    CASE a = "market"       -> MarketUpdates(h, count[a])
      [] a = "social"       -> SocialUpdates(h, count[a])
      [] a = "news"         -> NewsUpdates(h, count[a])
      [] a = "fundamentals" -> FundamentalsUpdates(h, count[a])
-----------------------------------------------------------------------------
\* One context running one analyst: run_agent, the routing, the tool node and
\* Msg Clear.

Move(c, from, to) ==
    /\ pc[c] = from
    /\ pc' = [pc EXCEPT ![c] = to]
    /\ UNCHANGED <<config, turn, talkVars>>

\* run_agent sanitizes the history before every node call.
Prepare(c) ==
    /\ Move(c, "prepare", "ask")
    /\ hist' = [hist EXCEPT ![c] = Sanitize(@)]
    /\ UNCHANGED <<runVars, reports, count, histories>>

Ask(c) ==
    LET a == turn[c] IN
    \E u \in Updates(a, hist[c]) :
      LET r == IF u.report = "kept" THEN reports[c][a] ELSE u.report IN
      /\ Move(c, "ask", "route")
      /\ hist' = [hist EXCEPT ![c] = @ \o u.messages]
      /\ reports' = [reports EXCEPT ![c][a] = r]
      /\ count' = [count EXCEPT ![a] = u.count]
      /\ asked' = [asked EXCEPT ![a] = @ + 1]
      /\ produced' = [produced EXCEPT ![a] = r]
      /\ UNCHANGED <<runVars, tooled>>

\* should_continue_<analyst>; fundamentals looks at its limit only when there
\* is a call to run.
OverLimit(a) == count[a] >= config.maxCalls[a]

Route(c) ==
    LET a == turn[c]
        more == /\ Last(hist[c]) = "call"
                /\ reports[c][a] # "long"
                /\ ~OverLimit(a)
    IN  /\ Move(c, "route", IF more THEN "tools" ELSE "clear")
        /\ UNCHANGED <<runVars, hist, reports, count, histories>>

\* _execute_tool_calls answers every call, with an error text if need be.
RunTools(c) ==
    /\ Move(c, "tools", "prepare")
    /\ hist' = [hist EXCEPT ![c] = Append(@, "tool")]
    /\ tooled' = [tooled EXCEPT ![turn[c]] = @ + 1]
    /\ UNCHANGED <<runVars, reports, count, asked, produced>>

ClearMessages(c) ==
    /\ Move(c, "clear", "end")
    /\ hist' = [hist EXCEPT ![c] = Cleared(@)]
    /\ UNCHANGED <<runVars, reports, count, histories>>

\* A model, or the session event store, raises; a thread's exception waits for
\* the fan-out to end, one in run() ends the run.
Raise(c) ==
    /\ \E from \in {"prepare", "ask", "tools"} : Move(c, from, "raised")
    /\ stage' = IF c = Main THEN "failed" ELSE stage
    /\ UNCHANGED <<todo, hist, reports, count, histories>>

Analyse(c) == Prepare(c) \/ Ask(c) \/ Route(c) \/ RunTools(c) \/ ClearMessages(c)
-----------------------------------------------------------------------------
\* run(): the order of the stages.

\* Mutant: the join waits for results only.
AllEnded_Well == \A a \in Threads(config) : pc[a] = "end"

AllEnded == \A a \in Threads(config) : pc[a] \in {"end", "raised"}

\* Mutant: an analyst that never called a tool is taken for absent.
Merged_Counted(a) ==
    IF a \in Threads(config) /\ reports[a][a] # "none" /\ tooled[a] > 0
    THEN reports[a][a] ELSE reports[Main][a]

\* _merge_parallel_analyst_state, after every thread of the fan-out has ended:
\* reports that are not empty, and the messages of before the fan-out.
Merged(a) ==
    IF a \in Threads(config) /\ reports[a][a] # "none"
    THEN reports[a][a] ELSE reports[Main][a]

\* run() begins, with its threads or by itself.
StartGraph ==
    /\ stage = "new"
    /\ stage' = IF FansOut(config) THEN "fanout" ELSE "analysts"
    /\ todo' = IF FansOut(config)
               THEN SubSeq(config.order, config.workers + 1, Len(config.order))
               ELSE config.order
    /\ pc' = [c \in Ctxs |-> IF c \in Threads(config) THEN "prepare" ELSE "off"]
    /\ UNCHANGED <<config, turn, hist, reports, count, talkVars, histories>>

Join ==
    /\ stage = "fanout" /\ AllEnded
    /\ IF \E a \in Threads(config) : pc[a] = "raised"
       THEN stage' = "failed" /\ UNCHANGED reports
       ELSE /\ stage' = "analysts"
            /\ reports' = [reports EXCEPT ![Main] = [a \in Analysts |-> Merged(a)]]
    /\ UNCHANGED <<config, todo, pc, turn, hist, count, talkVars, histories>>

StartAnalyst ==
    /\ stage = "analysts" /\ pc[Main] \in {"off", "end"} /\ todo # <<>>
    /\ turn' = [turn EXCEPT ![Main] = Head(todo)]
    /\ todo' = Tail(todo)
    /\ pc' = [pc EXCEPT ![Main] = "prepare"]
    /\ UNCHANGED <<config, stage, hist, reports, count, talkVars, histories>>

StartDebate ==
    /\ stage = "analysts" /\ pc[Main] \in {"off", "end"} /\ todo = <<>>
    /\ stage' = "debate"
    /\ UNCHANGED <<config, todo, ctxVars, talkVars, histories>>

\* The "count" of either discussion.
DebateTurns == spoken["Bull"] + spoken["Bear"]
RiskTurns   == spoken["Risky"] + spoken["Safe"] + spoken["Neutral"]

\* should_continue_debate and should_continue_risk_analysis, after a speech.
NextDebater == IF last = "Bull" THEN "Bear" ELSE "Bull"
NextInRisk  == CASE last = "Risky" -> "Safe" [] last = "Safe" -> "Neutral"
                 [] OTHER -> "Risky"

DebateOver(n) == n >= 2 * config.rounds
RiskOver(n)   == n >= 3 * config.riskRounds

\* run_agent of a debater: the node, then the routing on what it wrote.  The
\* first speaker runs before any limit is looked at.
Speak(from, s, over, to) ==
    /\ stage = from
    /\ hist' = [hist EXCEPT ![Main] = Sanitize(@)]
    /\ spoken' = [spoken EXCEPT ![s] = @ + 1]
    /\ stage' = IF over THEN to ELSE from
    /\ last' = IF over THEN "" ELSE s
    /\ UNCHANGED <<config, todo, pc, turn, reports, count, attempt, histories>>

Debate ==
    Speak("debate", NextDebater, DebateOver(DebateTurns + 1), "Research Manager")
Discuss ==
    Speak("risk", NextInRisk, RiskOver(RiskTurns + 1), "Risk Judge")

AfterJudged == [n \in Judged |->
    CASE n = "Research Manager" -> "Trader" [] n = "Trader" -> "risk"
      [] n = "Risk Judge" -> "done"]

MayRetry == attempt < config.retries

\* run_agent of a judged node: generated again while the judge rejects it and
\* attempts are left; the judge passes what it fails to evaluate.
Decide ==
    /\ stage \in Judged
    /\ hist' = [hist EXCEPT ![Main] = Sanitize(@)]
    /\ \/ /\ MayRetry
          /\ attempt' = attempt + 1 /\ UNCHANGED stage
       \/ /\ attempt' = 0 /\ stage' = AfterJudged[stage]
    /\ UNCHANGED <<config, todo, pc, turn, reports, count, spoken, last, histories>>

\* A node raises an exception that is not one of those it retries.
RaiseLate ==
    /\ stage \in {"debate", "risk"} \cup Judged
    /\ stage' = "failed"
    /\ UNCHANGED <<config, todo, ctxVars, talkVars, histories>>

Run == Join \/ StartAnalyst \/ StartDebate \/ Debate \/ Discuss \/ Decide

GraphNext == \/ \E c \in Ctxs : Analyse(c) \/ Raise(c)
             \/ StartGraph \/ Run \/ RaiseLate

GraphSpec == GraphInit /\ [][GraphNext]_graphVars

\* Threads and run() go on as long as they can: every model call returns or
\* raises (the clients have timeouts).
GraphFairness == WF_graphVars(Run) /\ \A c \in Ctxs : WF_graphVars(Analyse(c))

GraphFairSpec == GraphSpec /\ GraphFairness
-----------------------------------------------------------------------------
\* At every model call the history is one the model accepts: each tool message
\* answers a call, and each call is answered (a provider refuses anything else
\* with status 400, the reason for _sanitize_message_history).
WellFormed(h) ==
    \A i \in DOMAIN h :
        /\ h[i] = "tool" => i > 1 /\ h[i - 1] = "call"
        /\ h[i] = "call" => i < Len(h) /\ h[i + 1] = "tool"

HistoryWellFormed ==
    \A c \in Ctxs : pc[c] = "ask" => WellFormed(hist[c])

\* The fundamentals node takes any tool message for its own data, so none of
\* another analyst's may be left when it runs.
OwnResultsOnly ==
    \A c \in Ctxs : pc[c] = "ask" /\ turn[c] = "fundamentals"
        => ToolCount(hist[c]) = tooled["fundamentals"]

\* Whatever the models answer, a history stays acceptable to the provider, and
\* no analyst takes another's results for its own.
HistoriesSound == HistoryWellFormed /\ OwnResultsOnly

\* Whatever the models answer, an analyst is called at most as often as its limit
\* allows (once at least, and fundamentals twice: before and after its data).
CallsBounded ==
    \A a \in Analysts :
        asked[a] <= IF a = "fundamentals" THEN 2 ELSE Max({1, config.maxCalls[a]})

\* Whichever way the analysts ran, the debate starts with the last report of
\* each of them: the merge loses and mixes up none.
ReportsDelivered ==
    stage \notin {"new", "fanout", "analysts", "failed"} => reports[Main] = produced

\* Both sides of a debate had the same number of turns when its judge rules, as
\* many as configured (with zero rounds, the first speaker has still spoken).
Fair(team, first, rounds) ==
    \A s \in team : spoken[s] = IF rounds = 0 /\ s = first THEN 1 ELSE rounds

DebatesBalanced ==
    /\ stage \in Judged \cup {"risk", "done"} => Fair(Debaters, "Bull", config.rounds)
    /\ stage \in {"Risk Judge", "done"} => Fair(RiskTeam, "Risky", config.riskRounds)

\* The configured limits decide how often each agent is called, and who speaks.
RoundsBounded == CallsBounded /\ DebatesBalanced

\* A run that begins ends, with a decision or a failure: no tool loop, debate or
\* retry goes on for ever.
Terminates == stage # "new" ~> stage \in {"done", "failed"}
============================================================================
