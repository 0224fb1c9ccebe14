------------------------- MODULE SessionStoreProofs -------------------------
(***************************************************************************)
(* Theorems about SessionStore, for any analysts, runs and bounds: in what *)
(* order the events of a session are, what a checkpoint of run() stands    *)
(* for, and what a recovery reads.                                         *)
(***************************************************************************)
EXTENDS SessionStore, SequenceTheorems, TLAPS

\* What a run writes until it closes, and what is left of a closing.
Ordinary == Ops \ (Verdicts \cup {"close"})
Farewells(v) == {<<"quality_gate_evaluated", "close", v>>, <<"close", v>>, <<v>>, <<>>}
LastKind == Verdict(verdict)
Ended == summary.status \in Terminal

Statuses    == Terminal \cup {"", "running"}
Checkpoints == [by : Writers, after : Nat, second : Nat]

SessionTyped ==
    /\ counter \in Nat /\ mongoErrors \in Nat
    /\ run \in Runs
    /\ act \in [Writers -> {"idle", "busy", "ended", "raised"}]
    /\ pending \in [Writers -> Seq(Ops)]
    /\ step \in [Writers -> {"ready", "numbered", "stored"}]
    /\ held \in [Writers -> Nat]
    /\ \A e \in events : e.seq \in 1..counter
    /\ checkpoints \subseteq Checkpoints
    /\ summary \in [status : Statuses, last : Nat, checkpoint : Nat]
    /\ view \in [status : Statuses, checkpoint : Checkpoints, seqs : SUBSET Nat]
    /\ stamp \in [Writers -> Nat] /\ second \in Nat
    /\ verdict \in Terminal
    /\ phase \in {"new", "opening", "fanout", "nodes", "closing", "done"}
    /\ reading \in 0..3

\* Who writes when: analysts while they fan out, and run() while they do not.
Staged ==
    /\ \A w \in Writers : step[w] # "ready" => act[w] = "busy" /\ pending[w] # <<>>
    /\ \A a \in AnalystThreads : act[a] = "busy" => phase = "fanout"
    /\ act[MainThread] = "busy" <=> phase \notin {"new", "done"}
    /\ phase \in {"new", "fanout", "done"} => pending[MainThread] = <<>>

Numbered(w) == step[w] = "numbered"

\* A number that was given is not in the store before it is inserted, and no
\* other writer has it.
Numbering ==
    /\ \A w \in Writers : held[w] <= counter
    /\ \A w \in Writers : Numbered(w) => held[w] > 0 /\ \A e \in events : e.seq # held[w]
    /\ \A w, x \in Writers : Numbered(w) /\ Numbered(x) /\ held[w] = held[x] => w = x
    /\ SeqUnique

\* Every number that was given is in the store, was lost, or is about to be
\* inserted; below a checkpoint of run() none is about to be.
InStore(n) == n \in lost \/ \E e \in events : e.seq = n
Accounted ==
    /\ \A n \in 1..counter : InStore(n) \/ \E w \in Writers : Numbered(w) /\ held[w] = n
    /\ \A c \in checkpoints : c.by = MainThread =>
          c.after <= counter /\ \A n \in 1..c.after : InStore(n)

\* What the writers have still to write, and what the session's status says
\* of it.
Worded ==
    /\ \A w \in Writers : w # MainThread \/ phase # "closing" => pending[w] \in Seq(Ordinary)
    /\ phase = "closing" => /\ pending[MainThread] \in Farewells(LastKind)
                            /\ step[MainThread] # "ready" => held[MainThread] = counter
                            /\ pending[MainThread] = <<LastKind>> => summary.status = verdict
    /\ Ended => /\ phase \in {"closing", "done"} /\ summary.status = verdict
                /\ pending[MainThread] \in {<<>>, <<LastKind>>}

\* A verdict in the store is the last word of a session that has ended.
LastWord(v) ==
    /\ Ended /\ v.kind = LastKind /\ v.seq = counter
    /\ pending[MainThread] # <<>> => step[MainThread] = "stored"
    /\ mongoErrors = 0 /\ step[MainThread] = "ready" => summary.last = counter
VerdictsLast == \A v \in events : IsVerdict(v) => LastWord(v)

\* What a recovery has read of a session that had ended is still so.
Recovering ==
    view.status \in Terminal =>
        /\ Ended
        /\ reading >= 2 => \A c \in checkpoints : c.second <= view.checkpoint.second
        /\ reading = 3 => \A e \in events : e.seq > view.checkpoint.after /\ ~IsVerdict(e)
                              => e.seq \in view.seqs

SessionInv ==
    SessionTyped /\ Staged /\ Numbering /\ Accounted /\ Worded /\ VerdictsLast /\ Recovering
-----------------------------------------------------------------------------
\* The words of the writes.

LEMMA ConcatStarts ==
    ASSUME NEW S, NEW s \in Seq(S), NEW t \in Seq(S), s # <<>>
    PROVE  s \o t \in Seq(S) /\ s \o t # <<>> /\ Head(s \o t) = Head(s)
OBVIOUS

LEMMA OpeningIs == Opening \in Seq(Ordinary) /\ Opening # <<>> /\ Head(Opening)="open"
<1> DEFINE s == <<"open", "session_started">>
           t == IF run.skill THEN <<"skill_selected">> ELSE <<>>
<1>1. s \in Seq(Ordinary) /\ s # <<>> /\ Head(s) = "open"
  BY DEF Ordinary, Ops, Kinds, NodeOps, ToolOps, Verdicts
<1>2. t \in Seq(Ordinary)
  <2>1. "skill_selected" \in Ordinary
    BY DEF Ordinary, Ops, Kinds, NodeOps, ToolOps, Verdicts
  <2> QED BY <2>1
<1>3. Opening = s \o t
  BY DEF Opening
<1> HIDE DEF s, t
<1> QED BY <1>1, <1>2, <1>3, ConcatStarts

LEMMA NodeWords ==
  {"node_started", "reply", "judge_evaluated", "node_completed", "checkpoint",
   "session_checkpointed", "tool_call_requested", "tool_call_completed",
   "tool_call_blocked"} \subseteq Ordinary
BY DEF Ordinary, Ops, Kinds, NodeOps, ToolOps, Verdicts

LEMMA OneWord ==
    ASSUME NEW S, NEW a \in S 
    PROVE  <<a>> \in Seq(S) /\ <<a>> # <<>>
OBVIOUS

LEMMA TwoWords ==
    ASSUME NEW S, NEW a \in S, NEW b \in S 
    PROVE  <<a, b>> \in Seq(S) /\ <<a, b>> # <<>>
OBVIOUS

LEMMA FourWords ==
    ASSUME NEW S, NEW a \in S, NEW b \in S 
    PROVE  <<a, b, a, b>> \in Seq(S)
OBVIOUS

LEMMA NodeIs ==
    ASSUME NEW r \in Replies
    PROVE  Node(r) \in Seq(Ordinary) /\ Node(r) # <<>>
<1> DEFINE s == <<"node_started">>
           t == <<"node_completed", "checkpoint", "session_checkpointed">>
<1>1. s \in Seq(Ordinary) /\ s # <<>>
  BY NodeWords
<1>2. t \in Seq(Ordinary)
  BY NodeWords
<1>3. r \in Seq(Ordinary)
  BY NodeWords, OneWord, TwoWords, FourWords DEF Replies
<1>4. Node(r) = (s \o r) \o t
  BY DEF Node
<1> HIDE DEF s, t
<1>5. s \o r \in Seq(Ordinary) /\ s \o r # <<>>
  BY <1>1, <1>3, ConcatStarts
<1> QED BY <1>2, <1>4, <1>5, ConcatStarts

LEMMA ToolNodeIs ==
    ASSUME NEW r \in Replies, NEW t \in ToolCalls
    PROVE  t \o Node(r) \in Seq(Ordinary) /\ t \o Node(r) # <<>>
<1>1. t \in Seq(Ordinary) /\ t # <<>>
  BY NodeWords, OneWord, TwoWords DEF ToolCalls
<1> QED BY <1>1, NodeIs, ConcatStarts

LEMMA FarewellsGoOn ==
    ASSUME NEW v \in Verdicts, NEW s \in Farewells(v), s # <<>>
    PROVE  /\ Tail(s) \in Farewells(v)
           /\ \/ /\ Head(s) = "quality_gate_evaluated" /\ s # <<v>>
                 /\ Tail(s) \notin {<<>>, <<v>>}
              \/ Head(s) = "close" /\ s # <<v>> /\ Tail(s) = <<v>>
              \/ Head(s) = v /\ s = <<v>> /\ Tail(s) = <<>>
<1>1. CASE s = <<"quality_gate_evaluated", "close", v>>
  <2>1. Head(s) = "quality_gate_evaluated" /\ Tail(s) = <<"close", v>> /\ s # <<v>>
    BY <1>1
  <2>2. <<"close", v>> # <<>> /\ <<"close", v>> # <<v>>
    OBVIOUS
  <2> QED BY <2>1, <2>2 DEF Farewells
<1>2. CASE s = <<"close", v>>
  BY <1>2 DEF Farewells
<1>3. CASE s = <<v>>
  BY <1>3 DEF Farewells
<1> QED BY <1>1, <1>2, <1>3 DEF Farewells

LEMMA ClosingIs ==
    ASSUME NEW v \in Verdicts
    PROVE  /\ <<>> \o <<"close", v>> = <<"close", v>>
        /\ <<"quality_gate_evaluated">> \o <<"close", v>> = <<"quality_gate_evaluated", "close", v>>
        /\ <<"close", v>> # <<>>  /\ <<"close", v>> # <<v>>
        /\ <<"quality_gate_evaluated", "close", v>> # <<v>>
        /\ <<"quality_gate_evaluated", "close", v>> # <<>>
<1>1. <<>> \o <<"close", v>> = <<"close", v>>
  OBVIOUS
<1>2. <<"quality_gate_evaluated">> \o <<"close", v>> = <<"quality_gate_evaluated", "close", v>>
  <2> DEFINE S == {"quality_gate_evaluated", "close", v}
             s == <<"quality_gate_evaluated">>
             t == <<"close", v>>
             u == <<"quality_gate_evaluated", "close", v>>
  <2>1. s \in Seq(S) /\ t \in Seq(S) /\ Len(s) = 1 /\ Len(t) = 2 /\ s[1] = "quality_gate_evaluated"
        /\ t[1] = "close" /\ t[2] = v
    OBVIOUS
  <2>2. u \in Seq(S) /\ Len(u) = 3 /\ u[1] = "quality_gate_evaluated"
        /\ u[2] = "close" /\ u[3] = v
    OBVIOUS
  <2> HIDE DEF S, s, t, u
  <2>3. s \o t \in Seq(S) /\ Len(s \o t) = 3 /\ \A i \in 1..3 : (s \o t)[i] = IF i <= 1 THEN s[i] ELSE t[i-1]
    <3>1. Len(s \o t) = Len(s) + Len(t) /\ s \o t \in Seq(S)
          /\ \A i \in 1..Len(s) + Len(t) : (s \o t)[i] = IF i <= Len(s) THEN s[i] ELSE t[i - Len(s)]
      BY <2>1, ConcatProperties
    <3> QED BY <2>1, <3>1
  <2>4. \A i \in 1..3 : (s \o t)[i] = u[i]
    BY <2>1, <2>2, <2>3
  <2>5. s \o t = u
    BY <2>2, <2>3, <2>4
  <2> QED BY <2>5 DEF s, t, u
<1>3. <<"close", v>> # <<>>  /\ <<"close", v>> # <<v>>
  OBVIOUS
<1>4. <<"quality_gate_evaluated", "close", v>> # <<v>> /\ <<"quality_gate_evaluated", "close", v>> # <<>>
  OBVIOUS
<1> QED BY <1>1, <1>2, <1>3, <1>4
-----------------------------------------------------------------------------
\* What several kinds of step have in common.

LEMMA WritersAre ==
    /\ MainThread \in Writers /\ AnalystThreads \subseteq Writers
    /\ MainThread \notin AnalystThreads /\ AnalystThreads = Writers \ {MainThread}
BY SessionAssumption DEF Writers

LEMMA LastKindIs == LastKind \in Verdicts /\ LastKind \in Ops /\ Terminal \subseteq Statuses
BY DEF LastKind, Verdict, Verdicts, Ops, Kinds, Statuses

\* Whatever numbers nothing and inserts nothing keeps the numbers in order, if a
\* writer that gives its number up has lost it.
LEMMA NumbersStay ==
    ASSUME SessionInv, counter' = counter, events' = events, checkpoints' = checkpoints,
           lost \subseteq lost',
           \A w \in Writers : /\ Numbered(w)' => Numbered(w) /\ held'[w] = held[w]
                              /\ held'[w] <= counter
                              /\ Numbered(w) => held[w] \in lost' \/ Numbered(w)'
    PROVE  Numbering' /\ Accounted'
<1>1. Numbering'
  BY DEF SessionInv, Numbering, SeqUnique
<1>2. \A n \in Nat : InStore(n) => InStore(n)'
  BY DEF InStore
<1>3. ASSUME NEW n \in 1..counter'
      PROVE  InStore(n)' \/ \E w \in Writers : Numbered(w)' /\ held'[w] = n
  <2>1. CASE InStore(n)
    BY <1>2, <1>3, <2>1
  <2>2. CASE \E w \in Writers : Numbered(w) /\ held[w] = n
    <3>1. PICK w \in Writers : Numbered(w) /\ held[w] = n
      BY <2>2
    <3> QED BY <3>1 DEF InStore
  <2> QED BY <2>1, <2>2, <1>3 DEF SessionInv, Accounted
<1>4. ASSUME NEW c \in checkpoints, c.by = MainThread
      PROVE  c.after <= counter /\ \A n \in 1..c.after : InStore(n)'
  BY <1>2, <1>4 DEF SessionInv, Accounted
<1> QED BY <1>1, <1>3, <1>4 DEF Accounted

\* Until a closing begins there is no verdict, and no status for one.
LEMMA StillOpen ==
    ASSUME SessionInv, phase' \notin {"closing", "done"}, ~ Ended, ~ Ended', view' = view,
           \A w \in Writers : pending'[w] \in Seq(Ordinary),
           \A e \in events' : ~ IsVerdict(e)
    PROVE  Worded' /\ VerdictsLast' /\ Recovering'
BY DEF SessionInv, Worded, VerdictsLast, Recovering, Ended

\* A writer at work, and the first of its writes.
LEMMA AtWork ==
    ASSUME SessionInv, NEW w \in Writers, act[w] = "busy", pending[w] # <<>>
    PROVE  /\ w # MainThread => phase = "fanout"
           /\ w = MainThread => /\ phase \in {"opening", "nodes", "closing"}
                                /\ \A a \in AnalystThreads : act[a] # "busy" /\ step[a] = "ready"
           /\ Head(pending[w]) \in Ops /\ Tail(pending[w]) \in Seq(Ops)
           /\ phase # "closing" =>
                /\ Head(pending[w]) \in Ordinary /\ Tail(pending[w]) \in Seq(Ordinary)
                /\ \A x \in Writers : pending[x] \in Seq(Ordinary)
                /\ ~ Ended /\ \A e \in events : ~ IsVerdict(e)
           /\ phase = "closing" =>
                /\ w = MainThread /\ pending[w] \in Farewells(LastKind)
                /\ Tail(pending[w]) \in Farewells(LastKind)
                /\ \/ Head(pending[w]) = "quality_gate_evaluated" /\ ~ Ended
                      /\ Tail(pending[w]) \notin {<<>>, <<LastKind>>}
                   \/ Head(pending[w]) = "close" /\ Tail(pending[w]) = <<LastKind>> /\ ~ Ended
                   \/ /\ Head(pending[w]) = LastKind /\ Tail(pending[w]) = <<>>
                      /\ pending[w] = <<LastKind>> /\ Ended
<1>1. w # MainThread => w \in AnalystThreads
  BY WritersAre
<1>2. /\ w # MainThread => phase = "fanout"
      /\ w = MainThread => phase \in {"opening", "nodes", "closing"}
  BY <1>1, WritersAre DEF SessionInv, SessionTyped, Staged
<1>3. w = MainThread => \A a \in AnalystThreads : act[a] # "busy" /\ step[a] = "ready"
  BY <1>2, WritersAre DEF SessionInv, Staged
<1>4. pending[w] \in Seq(Ops)
  BY DEF SessionInv, SessionTyped
<1>5. Head(pending[w]) \in Ops /\ Tail(pending[w]) \in Seq(Ops)
  BY <1>4, HeadTailProperties
<1>6. ASSUME phase # "closing"
      PROVE  /\ Head(pending[w]) \in Ordinary /\ Tail(pending[w]) \in Seq(Ordinary)
             /\ \A x \in Writers : pending[x] \in Seq(Ordinary)
             /\ ~ Ended /\ \A e \in events : ~ IsVerdict(e)
  <2>1. \A x \in Writers : pending[x] \in Seq(Ordinary)
    BY <1>6 DEF SessionInv, Worded
  <2>2. ~ Ended
    BY <1>2, <1>6 DEF SessionInv, Worded
  <2>3. \A e \in events : ~ IsVerdict(e)
    BY <2>2 DEF SessionInv, VerdictsLast, LastWord
  <2> QED BY <2>1, <2>2, <2>3, HeadTailProperties
<1>7. ASSUME phase = "closing"
      PROVE  /\ w = MainThread /\ pending[w] \in Farewells(LastKind)
             /\ Tail(pending[w]) \in Farewells(LastKind)
             /\ \/ Head(pending[w]) = "quality_gate_evaluated" /\ ~ Ended
                   /\ Tail(pending[w]) \notin {<<>>, <<LastKind>>}
                \/ Head(pending[w]) = "close" /\ Tail(pending[w]) = <<LastKind>> /\ ~ Ended
                \/ /\ Head(pending[w]) = LastKind /\ Tail(pending[w]) = <<>>
                   /\ pending[w] = <<LastKind>> /\ Ended
  <2>1. w = MainThread /\ pending[w] \in Farewells(LastKind)
    BY <1>2, <1>7 DEF SessionInv, Worded
  <2>2. Ended => pending[w] \in {<<>>, <<LastKind>>}
    BY <2>1 DEF SessionInv, Worded
  <2>3. pending[w] = <<LastKind>> => Ended
    BY <1>7, <2>1 DEF SessionInv, SessionTyped, Worded, Ended
  <2> QED BY <2>1, <2>2, <2>3, LastKindIs, FarewellsGoOn
<1> QED BY <1>2, <1>3, <1>5, <1>6, <1>7
-----------------------------------------------------------------------------
\* The writes.

LEMMA OpenWrites ==
    ASSUME SessionInv, NEW w \in Writers, act[w] = "busy", pending[w] # <<>>,
           phase # "closing", UNCHANGED <<phase, view>>,
           pending' \in {pending, [pending EXCEPT ![w] = Tail(@)]},
           summary'.status \in {summary.status, "running"},
           events' \in {events, events \cup {[seq |-> held[w], kind |-> Head(pending[w])]}}
    PROVE  Worded' /\ VerdictsLast' /\ Recovering'
<1>1. phase' \notin {"closing", "done"}
  BY AtWork DEF SessionInv, Staged
<1>2. \A x \in Writers : pending'[x] \in Seq(Ordinary)
  BY AtWork DEF SessionInv, SessionTyped
<1>3. ~ Ended /\ ~ Ended'
  BY AtWork DEF Ended, Terminal, Failures
<1>4. \A e \in events' : ~ IsVerdict(e)
  BY AtWork DEF IsVerdict, Ordinary
<1> QED BY <1>1, <1>2, <1>3, <1>4, StillOpen

LEMMA NumberKeeps ==
    ASSUME NEW w \in Writers, SessionInv, Number(w)
    PROVE  SessionInv'
<1> USE DEF At, Number, Given, control, bounds, reader
<1>0. UNCHANGED <<events, checkpoints, summary, pending, phase, verdict, view, lost,
                  mongoErrors, reading>> /\ counter' = counter + 1
  OBVIOUS
<1>1. SessionTyped' /\ Staged'
  BY DEF SessionInv, SessionTyped, Staged
<1>2. \A x \in Writers : held[x] <= counter /\ held[x] \in Nat
  BY DEF SessionInv, SessionTyped, Numbering
<1>3. /\ Numbered(w)' /\ held'[w] = counter + 1 /\ ~ Numbered(w)
      /\ \A x \in Writers \ {w} : held'[x] = held[x] /\ (Numbered(x)' <=> Numbered(x))
  BY DEF SessionInv, SessionTyped, Numbered
<1>4. Numbering'
  BY <1>2, <1>3 DEF SessionInv, SessionTyped, Numbering, SeqUnique
<1>5. Accounted'
  <2>1. \A n : InStore(n)' <=> InStore(n)
    BY <1>0 DEF InStore
  <2>2. ASSUME NEW n \in 1..counter'
        PROVE  InStore(n) \/ \E x \in Writers : Numbered(x)' /\ held'[x] = n
    <3>1. CASE n = counter + 1
      BY <1>3, <3>1
    <3>2. CASE n \in 1..counter
      BY <1>3, <3>2 DEF SessionInv, Accounted
    <3> QED BY <1>0, <2>2, <3>1, <3>2 DEF SessionInv, SessionTyped
  <2>3. \A c \in checkpoints : c.by = MainThread =>
          c.after <= counter' /\ \A n \in 1..c.after : InStore(n)
    <3>1. \A c \in checkpoints : c.after \in Nat
      BY DEF SessionInv, SessionTyped, Checkpoints
    <3>2. \A c \in checkpoints : c.by = MainThread =>
            c.after <= counter /\ \A n \in 1..c.after : InStore(n)
      BY DEF SessionInv, Accounted
    <3>3. counter \in Nat /\ counter' = counter + 1
      BY <1>0 DEF SessionInv, SessionTyped
    <3> QED BY <3>1, <3>2, <3>3
  <2> QED BY <1>0, <2>1, <2>2, <2>3 DEF Accounted
<1>6. ASSUME phase # "closing"
      PROVE  Worded' /\ VerdictsLast' /\ Recovering'
  BY <1>0, <1>6, OpenWrites
<1>7. ASSUME phase = "closing"
      PROVE  Worded' /\ VerdictsLast' /\ Recovering'
  <2>1. w = MainThread /\ step[MainThread] = "ready"
    BY <1>7, AtWork
  <2>2. \A e \in events : ~ IsVerdict(e)
    BY <2>1 DEF SessionInv, VerdictsLast, LastWord
  <2>3. Worded'
    BY <1>0, <1>3, <1>7, <2>1 DEF SessionInv, Worded, Ended, LastKind
  <2> QED BY <1>0, <1>7, <2>2, <2>3 DEF SessionInv, VerdictsLast, Recovering, Ended
<1> QED BY <1>1, <1>4, <1>5, <1>6, <1>7 DEF SessionInv

LEMMA InsertEventKeeps ==
    ASSUME NEW w \in Writers, SessionInv, InsertEvent(w)
    PROVE  SessionInv'
<1> USE DEF At, InsertEvent, control, bounds, reader
<1>0. PICK new :
        /\ new = [seq |-> held[w], kind |-> Head(pending[w])] /\ events' = events \cup {new}
        /\ new.seq = held[w] /\ new.kind = Head(pending[w])
        /\ UNCHANGED <<counter, checkpoints, summary, pending, held, phase, verdict, view, lost,
                        mongoErrors, reading>>
  OBVIOUS
<1>1. held[w] \in 1..counter
  BY DEF SessionInv, SessionTyped, Numbering, Numbered
<1>2. SessionTyped' /\ Staged'
  BY <1>1 DEF SessionInv, SessionTyped, Staged
<1>3. /\ Numbered(w) /\ ~ Numbered(w)'
      /\ \A x \in Writers \ {w} : Numbered(x)' <=> Numbered(x)
  BY DEF SessionInv, SessionTyped, Numbered
<1>4. Numbering'
  <2>1. \A x \in Writers : Numbered(x)' => Numbered(x) /\ x # w
    BY <1>3
  <2>2. \A e \in events : e.seq # held[w]
    BY <1>3 DEF SessionInv, Numbering
  <2>3. \A x \in Writers : Numbered(x)' => \A e \in events' : e.seq # held[x]
    BY <1>0, <1>3, <2>1 DEF SessionInv, Numbering
  <2>4. SeqUnique'
    BY <1>0, <2>2 DEF SessionInv, Numbering, SeqUnique
  <2> QED BY <1>0, <2>1, <2>3, <2>4 DEF SessionInv, Numbering
<1>5. Accounted'
  <2>1. \A n : (InStore(n) => InStore(n)') /\ InStore(held[w])'
    BY <1>0 DEF InStore
  <2> QED BY <1>3, <2>1 DEF SessionInv, SessionTyped, Accounted
<1>6. ASSUME phase # "closing"
      PROVE  Worded' /\ VerdictsLast' /\ Recovering'
  BY <1>0, <1>6, OpenWrites
<1>7. ASSUME phase = "closing"
      PROVE  Worded' /\ VerdictsLast' /\ Recovering'
  <2>1. w = MainThread /\ held[w] = counter
    BY <1>7, AtWork DEF SessionInv, Worded
  <2>2. Worded'
    BY <1>7, <2>1, AtWork DEF SessionInv, SessionTyped, Worded, Ended, LastKind
  <2>3. \A e \in events : ~ IsVerdict(e)
    BY <2>1 DEF SessionInv, VerdictsLast, LastWord
  <2>4. Ended' <=> Ended
    BY DEF Ended
  <2>5. "quality_gate_evaluated" \notin Verdicts
    BY DEF Verdicts
  <2>6. step'[MainThread] = "stored"
    BY <2>1 DEF SessionInv, SessionTyped
  <2>7. ASSUME IsVerdict(new)
        PROVE  LastWord(new)'
    <3>1. Head(pending[w]) \notin {"quality_gate_evaluated", "close"}
      BY <1>0, <2>7 DEF IsVerdict, Verdicts
    <3>2. Head(pending[w]) = LastKind /\ Ended /\ LastKind' = LastKind
      BY <1>0, <1>7, <3>1, AtWork DEF LastKind
    <3> QED BY <1>0, <2>1, <2>4, <2>6, <3>2 DEF LastWord
  <2>8. VerdictsLast'
    <3>1. \A e : IsVerdict(e)' <=> IsVerdict(e)
      BY DEF IsVerdict
    <3> QED BY <1>0, <2>3, <2>7, <3>1 DEF VerdictsLast
  <2>9. Ended => IsVerdict(new)
    BY <1>0, <1>7, AtWork, LastKindIs DEF IsVerdict
  <2>10. Recovering'
    <3>1. \A e : IsVerdict(e)' <=> IsVerdict(e)
      BY DEF IsVerdict
    <3>2. view' = view /\ reading' = reading /\ checkpoints' = checkpoints
      BY <1>0
    <3>3. ASSUME view.status \in Terminal
          PROVE  /\ reading >= 2 => \A c \in checkpoints : c.second <= view.checkpoint.second
                 /\ reading = 3 => \A e \in events : e.seq > view.checkpoint.after /\ ~IsVerdict(e)
                                       => e.seq \in view.seqs
                 /\ Ended
      BY <3>3 DEF SessionInv, Recovering
    <3> HIDE DEF InsertEvent
    <3> QED BY <1>0, <2>4, <2>9, <3>1, <3>2, <3>3 DEF Recovering
  <2> QED BY <2>2, <2>8, <2>10
<1> QED BY <1>2, <1>4, <1>5, <1>6, <1>7 DEF SessionInv

LEMMA PublishKeeps ==
    ASSUME NEW w \in Writers, SessionInv, Publish(w)
    PROVE  SessionInv'
<1> USE DEF At, Publish, Done, control, bounds, reader
<1>1. /\ Tail(pending[w]) \in Seq(Ops) /\ pending' \in [Writers -> Seq(Ops)]
      /\ step' \in [Writers -> {"ready", "numbered", "stored"}] /\ stamp' \in [Writers -> Nat]
      /\ summary' \in [status : Statuses, last : Nat, checkpoint : Nat]
      /\ summary'.last = held[w] /\ summary'.status = summary.status
  BY AtWork DEF SessionInv, SessionTyped
<1>0. /\ UNCHANGED <<events, checkpoints, counter, held, phase, verdict, view, lost, mongoErrors,
                    reading>>
      /\ pending' = [pending EXCEPT ![w] = Tail(@)]
  OBVIOUS
<1>2. SessionTyped' /\ Staged'
  BY <1>1 DEF SessionInv, SessionTyped, Staged
<1>3. \A x \in Writers : Numbered(x)' <=> Numbered(x)
  BY DEF SessionInv, SessionTyped, Numbered
<1>4. Numbering' /\ Accounted'
  BY <1>3, NumbersStay DEF SessionInv, Numbering
<1>5. ASSUME phase # "closing"
      PROVE  Worded' /\ VerdictsLast' /\ Recovering'
  BY <1>0, <1>1, <1>5, OpenWrites
<1>6. ASSUME phase = "closing"
      PROVE  Worded' /\ VerdictsLast' /\ Recovering'
  <2>1. w = MainThread /\ held[w] = counter
    BY <1>6, AtWork DEF SessionInv, Worded
  <2>2. pending'[w] = Tail(pending[w]) /\ step'[w] = "ready"
    BY DEF SessionInv, SessionTyped
  <2>3. Ended' <=> Ended
    BY <1>1 DEF Ended
  <2>4. Head(pending[w]) # "close"
    BY DEF Kinds, NodeOps, ToolOps, Verdicts
  <2>5. Worded'
    BY <1>1, <1>6, <2>1, <2>2, <2>3, <2>4, AtWork DEF SessionInv, Worded, LastKind
  <2>6. VerdictsLast'
    <3>1. ASSUME NEW v \in events, IsVerdict(v)
          PROVE  LastWord(v)'
      <4>1. LastWord(v)
        BY <3>1 DEF SessionInv, VerdictsLast
      <4>2. Ended /\ Tail(pending[w]) = <<>>
        BY <1>6, <4>1, AtWork DEF LastWord
      <4>3. summary'.last = counter
        BY <1>1, <2>1
      <4> QED BY <1>0, <2>1, <2>2, <2>3, <4>1, <4>2, <4>3 DEF LastWord, LastKind
    <3> QED BY <1>0, <3>1 DEF VerdictsLast, IsVerdict
  <2> QED BY <2>3, <2>5, <2>6 DEF SessionInv, Recovering
<1> QED BY <1>2, <1>4, <1>5, <1>6 DEF SessionInv

LEMMA ReplyKeeps ==
    ASSUME NEW w \in Writers, SessionInv, Reply(w)
    PROVE  SessionInv'
<1> USE DEF At, Reply, Done, store, control, bounds, reader
<1>1. Tail(pending[w]) \in Seq(Ops) /\ pending' \in [Writers -> Seq(Ops)]
  BY AtWork DEF SessionInv, SessionTyped
<1>2. SessionTyped' /\ Staged'
  BY <1>1 DEF SessionInv, SessionTyped, Staged
<1>3. \A x \in Writers : Numbered(x)' <=> Numbered(x)
  BY DEF SessionInv, SessionTyped, Numbered
<1>4. Numbering' /\ Accounted'
  BY <1>3, NumbersStay DEF SessionInv, Numbering
<1>5. phase # "closing"
  BY AtWork, LastKindIs DEF Verdicts
<1> QED BY <1>2, <1>4, <1>5, OpenWrites DEF SessionInv

LEMMA SaveCheckpointKeeps ==
    ASSUME NEW w \in Writers, SessionInv, SaveCheckpoint(w)
    PROVE  SessionInv'
<1> USE DEF At, SaveCheckpoint, control, bounds, reader
<1> DEFINE new == [by |-> w, after |-> held[w], second |-> stamp[w]]
<1>1. checkpoints' = checkpoints \cup {new} /\ new \in Checkpoints
  BY DEF SessionInv, SessionTyped, Checkpoints
<1>2. SessionTyped' /\ Staged'
  BY <1>1 DEF SessionInv, SessionTyped, Staged
<1>3. \A x \in Writers : Numbered(x)' <=> Numbered(x)
  BY DEF SessionInv, SessionTyped, Numbered
<1>4. Numbering'
  BY <1>3 DEF SessionInv, Numbering, SeqUnique
<1>5. \A n : InStore(n)' <=> InStore(n)
  BY DEF InStore
<1>6. held[w] <= counter
  BY DEF SessionInv, Numbering
<1>7. w = MainThread => \A n \in 1..held[w] : InStore(n)
  <2>1. w = MainThread => \A x \in Writers : ~ Numbered(x)
    BY AtWork, WritersAre DEF Numbered
  <2> QED BY <1>6, <2>1 DEF SessionInv, SessionTyped, Accounted
<1>8. Accounted'
  BY <1>1, <1>3, <1>5, <1>6, <1>7 DEF SessionInv, Accounted
<1>9. phase # "closing"
  BY AtWork, LastKindIs DEF Verdicts
<1> QED BY <1>2, <1>4, <1>8, <1>9, OpenWrites DEF SessionInv

LEMMA NameCheckpointKeeps ==
    ASSUME NEW w \in Writers, SessionInv, NameCheckpoint(w)
    PROVE  SessionInv'
<1> USE DEF At, NameCheckpoint, Done, control, bounds, reader
<1>1. /\ Tail(pending[w]) \in Seq(Ops) /\ pending' \in [Writers -> Seq(Ops)]
      /\ summary' \in [status : Statuses, last : Nat, checkpoint : Nat]
      /\ summary'.status = summary.status
  BY AtWork DEF SessionInv, SessionTyped
<1>2. SessionTyped' /\ Staged'
  <2>1. SessionTyped'
    BY <1>1 DEF SessionInv, SessionTyped
  <2>2. pending'[MainThread] # pending[MainThread] => w = MainThread
    BY DEF SessionInv, SessionTyped
  <2>3. phase \notin {"new", "fanout", "done"} \/ w # MainThread
    BY AtWork
  <2> QED BY <2>1, <2>2, <2>3 DEF SessionInv, SessionTyped, Staged
<1>3. \A x \in Writers : Numbered(x)' <=> Numbered(x)
  BY DEF SessionInv, SessionTyped, Numbered
<1>4. Numbering' /\ Accounted'
  BY <1>3, NumbersStay DEF SessionInv, Numbering
<1>5. phase # "closing"
  BY AtWork, LastKindIs DEF Verdicts
<1> QED BY <1>1, <1>2, <1>4, <1>5, OpenWrites DEF SessionInv

LEMMA OpenKeeps ==
    ASSUME SessionInv, Open
    PROVE  SessionInv'
<1> USE DEF At, Open, Done, control, bounds, reader
<1>1. /\ Tail(pending[MainThread]) \in Seq(Ops) /\ pending' \in [Writers -> Seq(Ops)]
      /\ summary' \in [status : Statuses, last : Nat, checkpoint : Nat]
      /\ summary'.status = "running"
  BY AtWork, WritersAre DEF SessionInv, SessionTyped, Statuses
<1>2. SessionTyped' /\ Staged'
  BY <1>1, WritersAre DEF SessionInv, SessionTyped, Staged
<1>3. \A x \in Writers : Numbered(x)' <=> Numbered(x)
  BY DEF SessionInv, SessionTyped, Numbered
<1>4. Numbering' /\ Accounted'
  BY <1>3, NumbersStay DEF SessionInv, Numbering
<1>5. phase # "closing"
  BY AtWork, LastKindIs, WritersAre DEF Verdicts
<1> QED BY <1>1, <1>2, <1>4, <1>5, OpenWrites, WritersAre DEF SessionInv

LEMMA CloseKeeps ==
    ASSUME SessionInv, Close
    PROVE  SessionInv'
<1> USE DEF At, Close, Done, control, bounds, reader
<1> DEFINE w == MainThread
<1>1. /\ Tail(pending[w]) \in Seq(Ops) /\ pending' \in [Writers -> Seq(Ops)]
      /\ summary' \in [status : Statuses, last : Nat, checkpoint : Nat]
      /\ summary'.status = verdict /\ verdict \in Terminal
  BY AtWork, WritersAre, LastKindIs DEF SessionInv, SessionTyped
<1>2. SessionTyped' /\ Staged'
  BY <1>1, WritersAre DEF SessionInv, SessionTyped, Staged
<1>3. \A x \in Writers : Numbered(x)' <=> Numbered(x)
  BY DEF SessionInv, SessionTyped, Numbered
<1>4. Numbering' /\ Accounted'
  BY <1>3, NumbersStay DEF SessionInv, Numbering
<1>5. phase = "closing" /\ ~ Ended /\ Tail(pending[w]) = <<LastKind>>
  <2>1. "close" \notin Ordinary /\ LastKind # "close"
    BY LastKindIs DEF Ordinary, Verdicts
  <2> QED BY <2>1, AtWork, WritersAre
<1>6. pending'[w] = <<LastKind>> /\ step'[w] = "ready"
  BY <1>5, WritersAre DEF SessionInv, SessionTyped
<1>7. \A e \in events : ~ IsVerdict(e)
  BY <1>5 DEF SessionInv, VerdictsLast, LastWord
<1>8. Worded'
  <2>1. \A x \in Writers \ {w} : pending'[x] \in Seq(Ordinary)
    BY DEF SessionInv, SessionTyped, Worded
  <2>2. <<LastKind>> \in Farewells(LastKind)
    BY DEF Farewells
  <2> QED BY <1>1, <1>5, <1>6, <2>1, <2>2 DEF Worded, LastKind
<1>9. VerdictsLast' /\ Recovering'
  BY <1>5, <1>7 DEF SessionInv, VerdictsLast, Recovering
<1> QED BY <1>2, <1>4, <1>8, <1>9 DEF SessionInv
-----------------------------------------------------------------------------
\* The run.

LEMMA NotClosed ==
    ASSUME SessionInv, phase \notin {"closing", "done"}
    PROVE  /\ ~ Ended /\ \A e \in events : ~ IsVerdict(e)
           /\ \A w \in Writers : pending[w] \in Seq(Ordinary)
BY DEF SessionInv, Worded, VerdictsLast, LastWord

LEMMA OrdinaryAre == Seq(Ordinary) \subseteq Seq(Ops)
<1>1. Ordinary \subseteq Ops
  BY DEF Ordinary
<1> QED BY <1>1, SeqMonotonic

\* run() begins to close: from here on only a closing is left to write.
LEMMA ClosingBegins ==
    ASSUME SessionInv, phase \notin {"new", "closing", "done"}, UNCHANGED <<store, reader, held>>,
           \A a \in AnalystThreads : act[a] # "busy", act' = act,
           NEW status \in Terminal, NEW before \in {<<>>, <<"quality_gate_evaluated">>},
           Closing(status, before)
    PROVE  /\ pending' \in [Writers -> Seq(Ops)]
           /\ step' = [step EXCEPT ![MainThread] = "ready"]
           /\ verdict' \in Terminal /\ phase' = "closing"
           /\ Staged' /\ Worded' /\ VerdictsLast' /\ Recovering'
<1> DEFINE v == Verdict(status)
           rest == before \o <<"close", v>>
<1>1. v \in Verdicts /\ v \in Ops /\ LastKind' = v
  BY DEF Verdict, Verdicts, Ops, Kinds, LastKind, Closing
<1>2. rest \in Farewells(v) /\ rest # <<v>> /\ rest # <<>>
  BY <1>1, ClosingIs DEF Farewells
<1>3. rest \in Seq(Ops)
  <2>1. "close" \in Ops /\ "quality_gate_evaluated" \in Ops
    BY DEF Ops, Kinds
  <2>2. <<"close", v>> \in Seq(Ops) /\ before \in Seq(Ops)
    BY <1>1, <2>1, OneWord, TwoWords, EmptySeq
  <2> QED BY <2>2, ConcatProperties
<1>4. /\ pending' = [pending EXCEPT ![MainThread] = rest] /\ phase' = "closing"
      /\ verdict' = status /\ step' = [step EXCEPT ![MainThread] = "ready"]
  BY DEF Closing
<1> HIDE DEF rest, v
<1>5. /\ step'[MainThread] = "ready" /\ (\A a \in AnalystThreads : step'[a] = step[a])
      /\ pending' \in [Writers -> Seq(Ops)] /\ pending'[MainThread] = rest
      /\ \A a \in AnalystThreads : pending'[a] = pending[a]
  BY <1>3, <1>4, WritersAre DEF SessionInv, SessionTyped
<1>6. ~ Ended /\ ~ Ended' /\ \A e \in events' : ~ IsVerdict(e)
  BY NotClosed DEF store, Ended
<1>7. Staged'
  <2>1. \A w \in Writers : step'[w] = "ready"
    BY <1>5, WritersAre DEF SessionInv, Staged
  <2>2. act[MainThread] = "busy"
    BY DEF SessionInv, Staged
  <2> QED BY <1>2, <1>4, <1>5, <2>1, <2>2 DEF Staged
<1>8. Worded'
  <2>1. \A w \in Writers : w # MainThread => pending'[w] \in Seq(Ordinary)
    BY <1>5, NotClosed, WritersAre
  <2> QED BY <1>1, <1>2, <1>4, <1>5, <1>6, <2>1 DEF Worded
<1>9. VerdictsLast' /\ Recovering'
  BY <1>6 DEF VerdictsLast, SessionInv, Recovering, reader
<1> QED BY <1>4, <1>5, <1>7, <1>8, <1>9

LEMMA StartServiceKeeps ==
    ASSUME SessionInv, StartService
    PROVE  SessionInv'
<1> USE DEF StartService, store, bounds, reader
<1>1. /\ pending' = [pending EXCEPT ![MainThread] = Opening] /\ Opening \in Seq(Ops)
      /\ phase = "new" /\ phase' = "opening"
  BY OpeningIs, OrdinaryAre
<1>2. SessionTyped'
  BY <1>1, WritersAre DEF SessionInv, SessionTyped
<1>3. Staged'
  <2>1. \A w \in Writers : act[w] # "busy" /\ step[w] = "ready"
    BY WritersAre DEF SessionInv, Staged
  <2> QED BY <2>1, WritersAre DEF SessionInv, SessionTyped, Staged
<1>4. Numbering' /\ Accounted'
  BY NumbersStay DEF Numbered, SessionInv, Numbering
<1>5. \A w \in Writers : pending'[w] \in Seq(Ordinary)
  BY <1>1, OpeningIs, NotClosed DEF SessionInv, SessionTyped
<1>6. Worded' /\ VerdictsLast' /\ Recovering'
  BY <1>1, <1>5, NotClosed, StillOpen DEF Ended
<1> QED BY <1>2, <1>3, <1>4, <1>6 DEF SessionInv

LEMMA StartRunKeeps ==
    ASSUME SessionInv, StartRun
    PROVE  SessionInv'
<1> USE DEF StartRun, store, bounds, reader
<1>1. \A w \in Writers : step[w] = "ready"
  BY WritersAre DEF SessionInv, Staged
<1>2. run.threads \subseteq AnalystThreads
  BY SessionAssumption DEF SessionInv, SessionTyped, RunType
<1>3. Node(<<"reply">>) \in Seq(Ordinary) /\ <<>> \in Seq(Ordinary)
  BY NodeIs DEF Replies
<1>4. /\ \A w \in Writers : pending'[w] \in Seq(Ordinary)
      /\ pending' \in [Writers -> Seq(Ordinary)] /\ pending'[MainThread] = <<>>
  BY <1>2, <1>3, WritersAre
<1>5. SessionTyped'
  <2>1. pending' \in [Writers -> Seq(Ops)]
    BY <1>4, OrdinaryAre
  <2>2. act' \in [Writers -> {"idle", "busy", "ended", "raised"}]
    BY DEF SessionInv, SessionTyped
  <2>3. phase' \in {"fanout", "nodes"}
    OBVIOUS
  <2> QED BY <2>1, <2>2, <2>3 DEF SessionInv, SessionTyped
<1>6. Staged'
  <2>1. \A w \in Writers : act'[w] = IF w \in run.threads THEN "busy" ELSE act[w]
    OBVIOUS
  <2>2. \A a \in AnalystThreads : act[a] # "busy"
    BY DEF SessionInv, Staged
  <2>3. \A a \in AnalystThreads : act'[a] = "busy" => phase' = "fanout"
    BY <2>1, <2>2, WritersAre
  <2>4. act'[MainThread] = "busy"
    BY <1>2, <2>1, WritersAre DEF SessionInv, Staged
  <2> QED BY <1>1, <1>4, <2>3, <2>4 DEF Staged
<1>7. Numbering' /\ Accounted'
  BY NumbersStay DEF Numbered, SessionInv, Numbering
<1>8. Worded' /\ VerdictsLast' /\ Recovering'
  BY <1>4, NotClosed, StillOpen DEF Ended
<1> QED BY <1>5, <1>6, <1>7, <1>8 DEF SessionInv

LEMMA ContinueKeeps ==
    ASSUME NEW w \in Writers, SessionInv, Continue(w)
    PROVE  SessionInv'
<1> USE DEF Continue, InNodes, store, bounds, reader
<1>1. PICK rest \in Seq(Ordinary) : rest # <<>> /\ pending' = [pending EXCEPT ![w] = rest]
  BY NodeIs, ToolNodeIs DEF Replies
<1>2. phase \in {"fanout", "nodes"}
  BY WritersAre DEF SessionInv, Staged
<1>3. SessionTyped'
  BY <1>1, OrdinaryAre DEF SessionInv, SessionTyped
<1>4. Staged'
  BY <1>1, <1>2 DEF SessionInv, SessionTyped, Staged
<1>5. Numbering' /\ Accounted'
  BY NumbersStay DEF Numbered, SessionInv, Numbering
<1>6. \A x \in Writers : pending'[x] \in Seq(Ordinary)
  BY <1>1, <1>2, NotClosed DEF SessionInv, SessionTyped
<1>7. Worded' /\ VerdictsLast' /\ Recovering'
  BY <1>2, <1>6, NotClosed, StillOpen DEF Ended
<1> QED BY <1>3, <1>4, <1>5, <1>7 DEF SessionInv

LEMMA EndAnalystKeeps ==
    ASSUME NEW a \in AnalystThreads, SessionInv, EndAnalyst(a)
    PROVE  SessionInv'
<1> USE DEF EndAnalyst, InNodes, store, bounds, reader
<1>1. step[a] = "ready" /\ phase = "fanout"
  BY WritersAre DEF SessionInv, Staged
<1>2. SessionTyped'
  BY WritersAre DEF SessionInv, SessionTyped
<1>3. Staged'
  BY <1>1, WritersAre DEF SessionInv, SessionTyped, Staged
<1>4. Numbering' /\ Accounted'
  <2>1. \A w \in Writers : held'[w] = IF w = a THEN 0 ELSE held[w]
    BY DEF SessionInv, SessionTyped
  <2> QED BY <1>1, <2>1, NumbersStay DEF Numbered, SessionInv, SessionTyped, Numbering
<1>5. Worded' /\ VerdictsLast' /\ Recovering'
  BY <1>1, NotClosed, StillOpen DEF Ended
<1> QED BY <1>2, <1>3, <1>4, <1>5 DEF SessionInv

LEMMA JoinThreadsKeeps ==
    ASSUME SessionInv, JoinThreads
    PROVE  SessionInv'
<1> USE DEF JoinThreads, Joined, bounds, reader
<1>1. phase = "fanout" /\ (\A a \in AnalystThreads : act[a] # "busy") /\ step[MainThread] = "ready"
  BY WritersAre DEF SessionInv, Staged
<1>2. CASE \E a \in AnalystThreads : act[a] = "raised"
  <2>1. Closing("failed", <<>>) /\ "failed" \in Terminal
    BY <1>2 DEF Terminal, Failures
  <2>2. /\ pending' \in [Writers -> Seq(Ops)] /\ step' = [step EXCEPT ![MainThread] = "ready"]
        /\ verdict' \in Terminal /\ phase' = "closing" /\ Staged' /\ Worded' /\ VerdictsLast' /\ Recovering'
    BY <1>1, <2>1, ClosingBegins
  <2>3. SessionTyped'
    BY <2>2 DEF SessionInv, SessionTyped, store
  <2>4. Numbering' /\ Accounted'
    BY <1>1, <2>2, NumbersStay DEF Numbered, SessionInv, SessionTyped, Numbering, store
  <2> QED BY <2>2, <2>3, <2>4 DEF SessionInv
<1>3. CASE ~ \E a \in AnalystThreads : act[a] = "raised"
  <2>1. phase' = "nodes" /\ UNCHANGED <<verdict, pending, step, store, act, held>>
    BY <1>3
  <2>2. SessionTyped' /\ Staged'
    BY <1>1, <2>1 DEF SessionInv, SessionTyped, Staged, store
  <2>3. Numbering' /\ Accounted'
    BY <2>1, NumbersStay DEF Numbered, SessionInv, Numbering, store
  <2>4. Worded' /\ VerdictsLast' /\ Recovering'
    BY <1>1, <2>1, NotClosed, StillOpen DEF Ended, store
  <2> QED BY <2>2, <2>3, <2>4 DEF SessionInv
<1> QED BY <1>2, <1>3

LEMMA FinishRunKeeps ==
    ASSUME SessionInv, FinishRun
    PROVE  SessionInv'
<1> USE DEF FinishRun, bounds, reader
<1>1. phase = "nodes" /\ (\A a \in AnalystThreads : act[a] # "busy") /\ step[MainThread] = "ready"
  BY WritersAre DEF SessionInv, Staged
<1>2. PICK status \in Terminal, before \in {<<>>, <<"quality_gate_evaluated">>} :
        Closing(status, before)
  OBVIOUS
<1>3. /\ pending' \in [Writers -> Seq(Ops)] /\ step' = [step EXCEPT ![MainThread] = "ready"]
      /\ verdict' \in Terminal /\ phase' = "closing" /\ Staged' /\ Worded' /\ VerdictsLast' /\ Recovering'
  BY <1>1, <1>2, ClosingBegins
<1>4. SessionTyped'
  BY <1>3 DEF SessionInv, SessionTyped, store
<1>5. Numbering' /\ Accounted'
  BY <1>1, <1>3, NumbersStay DEF Numbered, SessionInv, SessionTyped, Numbering, store
<1> QED BY <1>3, <1>4, <1>5 DEF SessionInv

LEMMA EndRunKeeps ==
    ASSUME SessionInv, EndRun
    PROVE  SessionInv'
<1> USE DEF EndRun, store, progress, bounds, reader
<1>1. SessionTyped' /\ Staged'
  BY WritersAre DEF SessionInv, SessionTyped, Staged
<1>2. Numbering' /\ Accounted'
  BY NumbersStay DEF Numbered, SessionInv, Numbering
<1>3. (Ended' <=> Ended) /\ LastKind' = LastKind
  BY DEF Ended, LastKind
<1>4. Worded'
  <2>1. <<>> \in Seq(Ordinary)
    OBVIOUS
  <2> QED BY <1>3, <2>1 DEF SessionInv, Worded
<1>5. VerdictsLast' /\ Recovering'
  BY <1>3 DEF SessionInv, VerdictsLast, LastWord, Recovering
<1> QED BY <1>1, <1>2, <1>4, <1>5 DEF SessionInv

\* A writer gives up between two writes or in one: what it was about to insert
\* is lost.
LEMMA AbandonKeeps ==
    ASSUME SessionInv, NEW w \in Writers, act[w] = "busy", Abandon(w),
           phase \notin {"closing", "done"}, w = MainThread => phase # "fanout",
           UNCHANGED <<store, run, held, stamp, second, reader>>, mongoErrors' \in Nat,
           lost \subseteq lost', Numbered(w) => held[w] \in lost'
    PROVE  SessionInv'
<1> USE DEF reader
<1>1. CASE w = MainThread
  <2>1. Closing("failed", <<>>) /\ UNCHANGED act /\ "failed" \in Terminal
    BY <1>1 DEF Abandon, Terminal, Failures
  <2>2. phase # "new" /\ \A a \in AnalystThreads : act[a] # "busy"
    BY <1>1 DEF SessionInv, Staged
  <2>3. /\ pending' \in [Writers -> Seq(Ops)] /\ step' = [step EXCEPT ![w] = "ready"]
        /\ verdict' \in Terminal
        /\ phase' = "closing" /\ Staged' /\ Worded' /\ VerdictsLast' /\ Recovering'
    BY <1>1, <2>1, <2>2, ClosingBegins
  <2>4. SessionTyped'
    BY <2>1, <2>3 DEF SessionInv, SessionTyped, store
  <2>5. \A x \in Writers : Numbered(x)' => Numbered(x) /\ x # w
    BY <2>3 DEF SessionInv, SessionTyped, Numbered
  <2>6. \A x \in Writers : Numbered(x) => held[x] \in lost' \/ Numbered(x)'
    BY <2>3 DEF SessionInv, SessionTyped, Numbered
  <2>7. Numbering' /\ Accounted'
    BY <2>5, <2>6, NumbersStay DEF SessionInv, Numbering, store
  <2> QED BY <2>3, <2>4, <2>7 DEF SessionInv
<1>2. CASE w # MainThread
  <2>1. /\ act' = [act EXCEPT ![w] = "raised"] /\ pending' = [pending EXCEPT ![w] = <<>>]
        /\ step' = [step EXCEPT ![w] = "ready"] /\ UNCHANGED <<phase, verdict>>
    BY <1>2 DEF Abandon
  <2>2. SessionTyped' /\ Staged'
    BY <1>2, <2>1, WritersAre DEF SessionInv, SessionTyped, Staged, store
  <2>3. \A x \in Writers : Numbered(x)' => Numbered(x) /\ x # w
    BY <2>1 DEF SessionInv, SessionTyped, Numbered
  <2>4. \A x \in Writers : Numbered(x) => held[x] \in lost' \/ Numbered(x)'
    BY <2>1 DEF SessionInv, SessionTyped, Numbered
  <2>5. Numbering' /\ Accounted'
    BY <2>3, <2>4, NumbersStay DEF SessionInv, Numbering, store
  <2>6. \A x \in Writers : pending'[x] \in Seq(Ordinary)
    <3>1. <<>> \in Seq(Ordinary)
      OBVIOUS
    <3> QED BY <2>1, <3>1, NotClosed DEF SessionInv, SessionTyped
  <2>7. Worded' /\ VerdictsLast' /\ Recovering'
    BY <2>1, <2>6, NotClosed, StillOpen DEF Ended, store
  <2> QED BY <2>2, <2>5, <2>7 DEF SessionInv
<1> QED BY <1>1, <1>2

LEMMA NodeRaisesKeeps ==
    ASSUME NEW w \in Writers, SessionInv, NodeRaises(w)
    PROVE  SessionInv'
<1> USE DEF NodeRaises, bounds
<1>1. act[w] = "busy" /\ ~ Numbered(w)
  BY DEF Numbered
<1>2. phase \notin {"closing", "done"} /\ (w = MainThread => phase # "fanout")
  <2>1. CASE pending[w] # <<>> /\ Head(pending[w]) \in {"open", "reply"}
    <3>1. LastKind \notin {"open", "reply"}
      BY LastKindIs DEF Verdicts
    <3> QED BY <2>1, <3>1, <1>1, AtWork
  <2>2. CASE w = MainThread /\ phase \in {"opening", "nodes"} /\ pending[w] = <<>>
    BY <2>2
  <2> QED BY <2>1, <2>2
<1>3. mongoErrors' \in Nat /\ lost' = lost
  BY DEF SessionInv, SessionTyped
<1> QED BY <1>1, <1>2, <1>3, AbandonKeeps

LEMMA FaultKeeps ==
    ASSUME NEW w \in Writers, SessionInv, Fault(w)
    PROVE  SessionInv'
<1> USE DEF Fault
<1>1. /\ act[w] = "busy" /\ pending[w] # <<>> /\ mongoErrors' = mongoErrors + 1
      /\ mongoErrors' \in Nat /\ mongoErrors' > 0
      /\ lost \subseteq lost' /\ (Numbered(w) => held[w] \in lost')
      /\ UNCHANGED <<store, run, held, stamp, second, reader>>
  BY DEF SessionInv, SessionTyped, Numbered
<1>2. CASE Head(pending[w]) \in Uncaught
  <2>1. Head(pending[w]) \notin {"quality_gate_evaluated", "close", LastKind}
    BY <1>2, LastKindIs DEF Uncaught, NodeOps, ToolOps, Verdicts
  <2>2. phase \notin {"closing", "done"} /\ (w = MainThread => phase # "fanout")
    BY <1>1, <2>1, AtWork
  <2> QED BY <1>1, <1>2, <2>2, AbandonKeeps
<1>3. CASE Head(pending[w]) \notin Uncaught
  <2>1. /\ pending' = [pending EXCEPT ![w] = Rest(w)] /\ step' = [step EXCEPT ![w] = "ready"]
        /\ UNCHANGED <<act, phase, verdict>>
    BY <1>3
  <2>2. Rest(w) \in {<<>>, Tail(pending[w])} /\ Rest(w) \in Seq(Ops)
    <3>1. <<>> \in Seq(Ops)
      OBVIOUS
    <3> QED BY <1>1, <3>1, AtWork DEF Rest
  <2>3. SessionTyped' /\ Staged'
    BY <1>1, <2>1, <2>2 DEF SessionInv, SessionTyped, Staged, store, reader
  <2>4. \A x \in Writers : Numbered(x)' => Numbered(x) /\ x # w
    BY <2>1 DEF SessionInv, SessionTyped, Numbered
  <2>5. \A x \in Writers : Numbered(x) => held[x] \in lost' \/ Numbered(x)'
    BY <1>1, <2>1 DEF SessionInv, SessionTyped, Numbered
  <2>6. Numbering' /\ Accounted'
    BY <1>1, <2>4, <2>5, NumbersStay DEF SessionInv, Numbering, store
  <2>7. \A x \in Writers : pending'[x] = IF x = w THEN Rest(w) ELSE pending[x]
    BY <2>1 DEF SessionInv, SessionTyped
  <2>8. ASSUME phase # "closing"
        PROVE  Worded' /\ VerdictsLast' /\ Recovering'
    <3>1. \A x \in Writers : pending'[x] \in Seq(Ordinary)
      <4>1. <<>> \in Seq(Ordinary)
        OBVIOUS
      <4> QED BY <1>1, <2>2, <2>7, <2>8, <4>1, AtWork
    <3>2. phase' \notin {"closing", "done"}
      BY <1>1, <2>1, <2>8, AtWork
    <3> QED BY <1>1, <2>1, <2>8, <3>1, <3>2, AtWork, StillOpen DEF store, reader, Ended
  <2>9. ASSUME phase = "closing"
        PROVE  Worded' /\ VerdictsLast' /\ Recovering'
    <3>1. w = MainThread /\ Rest(w) \in Farewells(LastKind) /\ Rest(w) # <<LastKind>>
      <4>1. <<>> # <<LastKind>>
        OBVIOUS
      <4> QED BY <1>1, <2>2, <2>9, <4>1, LastKindIs, AtWork DEF Rest, Farewells, Verdicts
    <3>2. Ended => Rest(w) = <<>>
      BY <1>1, <2>9, LastKindIs, AtWork DEF Rest, Verdicts
    <3>3. /\ pending'[MainThread] = Rest(w) /\ step'[MainThread] = "ready"
          /\ \A x \in Writers \ {MainThread} : pending'[x] = pending[x]
      BY <2>1, <2>7, <3>1 DEF SessionInv, SessionTyped
    <3>4. (Ended' <=> Ended) /\ LastKind' = LastKind /\ summary' = summary /\ events' = events
          /\ counter' = counter
      BY <1>1, <2>1 DEF Ended, LastKind, store
    <3>5. Worded'
      BY <2>1, <2>9, <3>1, <3>2, <3>3, <3>4 DEF SessionInv, Worded
    <3>6. VerdictsLast'
      BY <1>1, <3>2, <3>3, <3>4 DEF SessionInv, VerdictsLast, LastWord
    <3>7. Recovering'
      BY <1>1, <3>4 DEF SessionInv, Recovering, store, reader
    <3> QED BY <3>5, <3>6, <3>7
  <2> QED BY <2>3, <2>6, <2>8, <2>9 DEF SessionInv
<1> QED BY <1>2, <1>3

LEMMA TickKeeps ==
    ASSUME SessionInv, Tick
    PROVE  SessionInv'
<1> USE DEF Tick, store, control, progress, reader
<1>1. SessionTyped' /\ Staged'
  BY DEF SessionInv, SessionTyped, Staged
<1>2. Numbering' /\ Accounted'
  BY NumbersStay DEF Numbered, SessionInv, Numbering
<1>3. (Ended' <=> Ended) /\ LastKind' = LastKind
  BY DEF Ended, LastKind
<1> QED BY <1>1, <1>2, <1>3 DEF SessionInv, Worded, VerdictsLast, LastWord, Recovering
-----------------------------------------------------------------------------
\* The recovery.

LEMMA ReadsKeep ==
    ASSUME SessionInv, ReadSession \/ ReadCheckpoint \/ ReadEvents
    PROVE  SessionInv'
<1>1. UNCHANGED <<store, control, progress, bounds>>
  BY DEF ReadSession, ReadCheckpoint, ReadEvents
<1>2. reading \in 0..2 /\ reading' = reading + 1
  <2>1. Len(ReadOrder) = 3
    BY DEF ReadOrder
  <2>2. run.recoveries \in 0..1
    BY SessionAssumption DEF SessionInv, SessionTyped, RunType
  <2> QED BY <2>1, <2>2 DEF ReadSession, ReadCheckpoint, ReadEvents, Reads, SessionInv, SessionTyped
<1>3. /\ ReadSession => reading = 0
      /\ ReadCheckpoint => reading = 1
      /\ ReadEvents => reading = 2
  BY <1>2 DEF ReadSession, ReadCheckpoint, ReadEvents, Reads, ReadOrder
<1>4. Staged'
  BY <1>1 DEF SessionInv, Staged, control, progress
<1>5. Numbering' /\ Accounted'
  BY <1>1, NumbersStay DEF Numbered, SessionInv, Numbering, store, progress, bounds
<1>6. (Ended' <=> Ended) /\ LastKind' = LastKind
  BY <1>1 DEF Ended, LastKind, store, control
<1>7. Worded' /\ VerdictsLast'
  BY <1>1, <1>6 DEF SessionInv, Worded, VerdictsLast, LastWord, store, control, progress, bounds
<1>8. view \in [status : Statuses, checkpoint : Checkpoints, seqs : SUBSET Nat]
      /\ summary.status \in Statuses
  BY DEF SessionInv, SessionTyped
<1>9. CASE ReadSession
  <2>1. view' = [view EXCEPT !.status = summary.status]
    BY <1>9 DEF ReadSession
  <2>2. view' \in [status : Statuses, checkpoint : Checkpoints, seqs : SUBSET Nat]
        /\ view'.status = summary.status
    BY <1>8, <2>1
  <2>3. Recovering'
    BY <1>2, <1>3, <1>6, <1>9, <2>2 DEF Recovering, Ended
  <2>4. SessionTyped'
    BY <1>1, <1>2, <2>2 DEF SessionInv, SessionTyped, store, control, progress, bounds
  <2> QED BY <1>4, <1>5, <1>7, <2>3, <2>4 DEF SessionInv
<1>10. CASE ReadCheckpoint
  <2>1. PICK c \in IF checkpoints = {} THEN {NoCheckpoint} ELSE Latest :
          view' = [view EXCEPT !.checkpoint = c]
    BY <1>10 DEF ReadCheckpoint
  <2>2. c \in Checkpoints /\ \A d \in checkpoints : d.second <= c.second
    BY WritersAre DEF Latest, NoCheckpoint, Checkpoints, SessionInv, SessionTyped
  <2>3. view' \in [status : Statuses, checkpoint : Checkpoints, seqs : SUBSET Nat]
        /\ view'.status = view.status /\ view'.checkpoint = c
    BY <1>8, <2>1, <2>2
  <2>4. Recovering'
    BY <1>1, <1>2, <1>3, <1>6, <1>10, <2>2, <2>3 DEF SessionInv, Recovering, store
  <2>5. SessionTyped'
    BY <1>1, <1>2, <2>3 DEF SessionInv, SessionTyped, store, control, progress, bounds
  <2> QED BY <1>4, <1>5, <1>7, <2>4, <2>5 DEF SessionInv
<1>11. CASE ReadEvents
  <2> DEFINE seqs == {e.seq : e \in {f \in events : f.seq > view.checkpoint.after}}
  <2>1. view' = [view EXCEPT !.seqs = seqs]
    BY <1>11 DEF ReadEvents
  <2>2. /\ seqs \subseteq Nat
        /\ \A e \in events : e.seq > view.checkpoint.after => e.seq \in seqs
    BY DEF SessionInv, SessionTyped
  <2> HIDE DEF seqs
  <2>3. view' \in [status : Statuses, checkpoint : Checkpoints, seqs : SUBSET Nat]
        /\ view'.status = view.status /\ view'.checkpoint = view.checkpoint /\ view'.seqs = seqs
    BY <1>8, <2>1, <2>2
  <2>4. Recovering'
    BY <1>1, <1>2, <1>3, <1>6, <1>11, <2>2, <2>3 DEF SessionInv, Recovering, store
  <2>5. SessionTyped'
    BY <1>1, <1>2, <2>3 DEF SessionInv, SessionTyped, store, control, progress, bounds
  <2> QED BY <1>4, <1>5, <1>7, <2>4, <2>5 DEF SessionInv
<1> QED BY <1>9, <1>10, <1>11
-----------------------------------------------------------------------------
LEMMA SessionInitInv == SessionInit => SessionInv
<1> SUFFICES ASSUME SessionInit PROVE SessionInv
  OBVIOUS
<1> USE DEF SessionInit
<1>1. SessionTyped
  <2>1. <<>> \in Seq(Ops)
    BY EmptySeq
  <2>2. "completed" \in Terminal /\ "" \in Statuses
    BY DEF Terminal, Statuses
  <2>3. NoCheckpoint \in Checkpoints
    BY WritersAre DEF NoCheckpoint, Checkpoints
  <2>4. /\ summary \in [status : Statuses, last : Nat, checkpoint : Nat]
        /\ view \in [status : Statuses, checkpoint : Checkpoints, seqs : SUBSET Nat]
    BY <2>2, <2>3
  <2>5. pending \in [Writers -> Seq(Ops)]
    BY <2>1
  <2>6. act \in [Writers -> {"idle", "busy", "ended", "raised"}]
        /\ step \in [Writers -> {"ready", "numbered", "stored"}]
        /\ held \in [Writers -> Nat] /\ stamp \in [Writers -> Nat]
    OBVIOUS
  <2>7. counter = 0 /\ second = 0 /\ mongoErrors = 0 /\ reading = 0 /\ events = {} /\ checkpoints = {}
        /\ phase = "new" /\ run \in Runs /\ verdict = "completed"
    OBVIOUS
  <2> HIDE DEF SessionInit
  <2>8. checkpoints \subseteq Checkpoints /\ \A e \in events : e.seq \in 1..counter
    BY <2>7
  <2>9. reading \in 0..3 /\ counter \in Nat /\ mongoErrors \in Nat /\ second \in Nat
    BY <2>7
  <2>11. verdict \in Terminal
    BY <2>2, <2>7
  <2>10. phase \in {"new", "opening", "fanout", "nodes", "closing", "done"}
    BY <2>7
  <2> QED BY <2>4, <2>5, <2>6, <2>7, <2>8, <2>9, <2>10, <2>11 DEF SessionTyped
<1>2. Staged
  BY WritersAre DEF Staged
<1>3. Numbering /\ Accounted
  <2>1. \A w \in Writers : ~ Numbered(w) /\ held[w] = 0
    BY DEF Numbered
  <2>2. counter = 0 /\ events = {} /\ checkpoints = {}
    OBVIOUS
  <2> HIDE DEF SessionInit
  <2> QED BY <2>1, <2>2 DEF Numbering, SeqUnique, Accounted
<1>4. Worded /\ VerdictsLast /\ Recovering
  <2>1. <<>> \in Seq(Ordinary) /\ "" \notin Terminal
    BY EmptySeq DEF Terminal, Failures
  <2> QED BY <2>1 DEF Worded, VerdictsLast, Recovering, Ended
<1> QED BY <1>1, <1>2, <1>3, <1>4 DEF SessionInv

LEMMA SessionStutters == SessionInv /\ UNCHANGED sessionVars => SessionInv'
BY DEF SessionInv, SessionTyped, Staged, Numbering, Numbered, SeqUnique, Accounted, InStore,
       Worded, Ended, LastKind, VerdictsLast, LastWord, IsVerdict, Recovering,
       sessionVars, store, control, progress, bounds, reader

LEMMA SessionNextInv == SessionInv /\ [SessionNext]_sessionVars => SessionInv'
<1> SUFFICES ASSUME SessionInv, [SessionNext]_sessionVars PROVE SessionInv'
  OBVIOUS
<1>1. CASE UNCHANGED sessionVars
  BY <1>1, SessionStutters
<1>2. CASE SessionNext
  BY <1>2, StartServiceKeeps, OpenKeeps, CloseKeeps, StartRunKeeps, JoinThreadsKeeps,
     FinishRunKeeps, EndRunKeeps, TickKeeps, NumberKeeps, InsertEventKeeps, PublishKeeps,
     ReplyKeeps, SaveCheckpointKeeps, NameCheckpointKeeps, ContinueKeeps, NodeRaisesKeeps,
     FaultKeeps, EndAnalystKeeps, ReadsKeep
  DEF SessionNext, Write
<1> QED BY <1>1, <1>2

LEMMA SessionInvHolds == SessionSpec => []SessionInv
BY SessionInitInv, SessionNextInv, PTL DEF SessionSpec

\* The events of a session are in order.  The number of an event is taken from
\* the counter and inserted once, so no two are equal; the verdict is inserted
\* by run() when no analyst is left to take another number, and only after the
\* status it is for; a closing that fails half way is not begun again.
THEOREM SessionInOrder == SessionSpec => []EventsInOrder
<1>1. SessionInv => EventsInOrder
  <2> SUFFICES ASSUME SessionInv PROVE SeqUnique /\ VerdictLast /\ OneVerdict
    BY DEF EventsInOrder
  <2>1. SeqUnique
    BY DEF SessionInv, Numbering
  <2>2. \A v \in events : IsVerdict(v) => LastWord(v)
    BY DEF SessionInv, VerdictsLast
  <2>3. VerdictLast
    <3> SUFFICES ASSUME NEW v \in events, IsVerdict(v)
                 PROVE  /\ v.seq = counter /\ \A a \in AnalystThreads : act[a] # "busy"
                        /\ phase = "done" /\ mongoErrors = 0 => summary.last = v.seq
      BY DEF VerdictLast
    <3>1. LastWord(v) /\ phase \in {"closing", "done"}
      BY <2>2 DEF LastWord, SessionInv, Worded
    <3>2. phase = "done" => step[MainThread] = "ready"
      BY WritersAre DEF SessionInv, Staged, SessionTyped
    <3> QED BY <3>1, <3>2 DEF LastWord, SessionInv, Staged
  <2>4. OneVerdict
    <3> SUFFICES ASSUME NEW v \in events, IsVerdict(v)
                 PROVE  /\ \A e \in events : IsVerdict(e) => e = v
                        /\ v.kind = "session_failed" <=> summary.status \in Failures
      BY DEF OneVerdict
    <3>1. \A e \in events : IsVerdict(e) => e = v
      BY <2>1, <2>2 DEF SeqUnique, LastWord
    <3>2. v.kind = Verdict(summary.status)
      BY <2>2 DEF LastWord, LastKind, SessionInv, Worded
    <3> QED BY <3>1, <3>2 DEF Verdict
  <2> QED BY <2>1, <2>3, <2>4
<1> QED BY <1>1, SessionInvHolds, PTL

\* No event comes in below a checkpoint of run(): when it saves one, every
\* number that was given is in the store or lost, for no analyst is at work.
THEOREM CheckpointComplete == SessionSpec => []NoEventBelowCheckpoint
<1>1. SessionInv => NoEventBelowCheckpoint
  BY DEF SessionInv, Accounted, InStore, NoEventBelowCheckpoint
<1> QED BY <1>1, SessionInvHolds, PTL

\* A recovery that reads a closed session has all of it but the verdict: nothing
\* else is written after the status.
THEOREM RecoveryWhole == SessionSpec => []RecoveredWhole
<1>1. SessionInv => RecoveredWhole
  <2>1. Len(ReadOrder) = 3
    BY DEF ReadOrder
  <2> QED BY <2>1 DEF SessionInv, Recovering, RecoveredWhole
<1> QED BY <1>1, SessionInvHolds, PTL

-----------------------------------------------------------------------------
\* The rest of the types: numbers, stamps and bounds, and that nobody saves a
\* checkpoint before an event of its own has a number.

Openings == {<<"open", "session_started">>, <<"open", "session_started", "skill_selected">>}
Middle   == Ordinary \ {"open", "quality_gate_evaluated"}

Phrased ==
    \A w \in Writers : w # MainThread \/ phase # "closing" =>
        pending[w] \in Openings \cup Seq(Middle)

Begun(w) ==
    /\ pending[w] # <<>> /\ Head(pending[w]) \in {"reply", "checkpoint"} => held[w] > 0
    /\ step[w] = "stored" => held[w] > 0

Ranged ==
    /\ \A e \in events : e.kind \in Kinds
    /\ \A c \in checkpoints : c.after > 0 /\ c.after <= counter /\ c.second <= second
    /\ summary.last <= counter /\ summary.checkpoint <= counter
    /\ \A w \in Writers : stamp[w] <= second
    /\ nodes \in [Writers -> Nat] /\ \A w \in Writers : nodes[w] <= run.nodes
    /\ second <= run.seconds /\ mongoErrors <= run.errors
    /\ lost \subseteq 1..counter

SessionRest == Phrased /\ (\A w \in Writers : Begun(w)) /\ Ranged

LEMMA RunIs ==
    ASSUME SessionInv
    PROVE  /\ run.nodes \in Nat /\ run.errors \in Nat /\ run.seconds \in Nat
           /\ run.recoveries \in 0..1 /\ run.threads \subseteq AnalystThreads
           /\ run.threads # {} => run.nodes > 0
<1>1. run \in Runs /\ run \in RunType
  BY SessionAssumption DEF SessionInv, SessionTyped
<1> QED BY <1>1, SessionAssumption DEF RunType

LEMMA OpeningWords ==
    ASSUME NEW s \in Openings
    PROVE  s # <<>> /\ Head(s) = "open" /\ Tail(s) \in Seq(Middle) /\ Head(Tail(s)) = "session_started"
<1>1. "session_started" \in Middle /\ "skill_selected" \in Middle
  BY DEF Middle, Ordinary, Ops, Kinds, NodeOps, ToolOps, Verdicts
<1>2. CASE s = <<"open", "session_started">>
  <2>1. s # <<>> /\ Head(s) = "open" /\ Tail(s) = <<"session_started">>
    BY <1>2
  <2>2. <<"session_started">> \in Seq(Middle) /\ Head(<<"session_started">>) = "session_started"
    BY <1>1
  <2> QED BY <2>1, <2>2, Zenon
<1>3. CASE s = <<"open", "session_started", "skill_selected">>
  <2>1. s # <<>> /\ Head(s) = "open" /\ Tail(s) = <<"session_started", "skill_selected">>
    BY <1>3
  <2>2. <<"session_started", "skill_selected">> \in Seq(Middle)
    BY <1>1, TwoWords
  <2>3. Head(<<"session_started", "skill_selected">>) = "session_started"
    OBVIOUS
  <2> QED BY <2>1, <2>2, <2>3, Zenon
<1> QED BY <1>2, <1>3 DEF Openings

LEMMA MiddleWords ==
    {"node_started", "reply", "judge_evaluated", "node_completed", "checkpoint",
     "session_checkpointed", "tool_call_requested", "tool_call_completed",
     "tool_call_blocked"} \subseteq Middle
BY DEF Middle, Ordinary, Ops, Kinds, NodeOps, ToolOps, Verdicts

LEMMA NodePhrase ==
    ASSUME NEW r \in Replies
    PROVE  Node(r) \in Seq(Middle) /\ Node(r) # <<>> /\ Head(Node(r)) = "node_started"
<1> DEFINE s == <<"node_started">>
           t == <<"node_completed", "checkpoint", "session_checkpointed">>
<1>1. s \in Seq(Middle) /\ s # <<>> /\ Head(s) = "node_started"
  BY MiddleWords
<1>2. t \in Seq(Middle)
  BY MiddleWords
<1>3. r \in Seq(Middle)
  BY MiddleWords, OneWord, TwoWords, FourWords DEF Replies
<1>4. Node(r) = (s \o r) \o t
  BY DEF Node
<1> HIDE DEF s, t
<1>5. s \o r \in Seq(Middle) /\ s \o r # <<>> /\ Head(s \o r) = "node_started"
  BY <1>1, <1>3, ConcatStarts
<1> QED BY <1>2, <1>4, <1>5, ConcatStarts

LEMMA ToolPhrase ==
    ASSUME NEW tools \in ToolCalls, NEW n \in Seq(Middle)
    PROVE  /\ tools \o n \in Seq(Middle) /\ tools \o n # <<>>
           /\ Head(tools \o n) \in {"tool_call_requested", "tool_call_blocked"}
<1>1. /\ tools \in Seq(Middle) /\ tools # <<>>
      /\ Head(tools) \in {"tool_call_requested", "tool_call_blocked"}
  <2>1. CASE tools = <<"tool_call_requested", "tool_call_completed">>
    BY <2>1, MiddleWords
  <2>2. CASE tools = <<"tool_call_requested", "tool_call_blocked">>
    BY <2>2, MiddleWords
  <2>3. CASE tools = <<"tool_call_blocked">>
    BY <2>3, MiddleWords
  <2> QED BY <2>1, <2>2, <2>3 DEF ToolCalls
<1> QED BY <1>1, ConcatStarts

LEMMA FarewellHeads ==
    ASSUME NEW v \in Verdicts, NEW s \in Farewells(v), s # <<>>
    PROVE  Head(s) \notin {"reply", "checkpoint"}
<1>1. v \notin {"reply", "checkpoint"}
  BY DEF Verdicts
<1> QED BY <1>1 DEF Farewells

\* A writer that goes on to its next write.
LEMMA GoesOn ==
    ASSUME SessionInv, SessionRest, NEW w \in Writers, act[w] = "busy", pending[w] # <<>>
    PROVE  /\ w # MainThread \/ phase # "closing" => Tail(pending[w]) \in Openings \cup Seq(Middle)
           /\ Head(pending[w]) \in {"close", "quality_gate_evaluated", "open"} =>
                 Tail(pending[w]) = <<>> \/ Head(Tail(pending[w])) \notin {"reply", "checkpoint"}
<1>1. CASE w = MainThread /\ phase = "closing"
  <2>1. Tail(pending[w]) \in Farewells(LastKind)
    BY <1>1, AtWork
  <2> QED BY <1>1, <2>1, LastKindIs, FarewellHeads
<1>2. CASE w # MainThread \/ phase # "closing"
  <2>1. pending[w] \in Openings \cup Seq(Middle)
    BY <1>2 DEF SessionRest, Phrased
  <2>2. CASE pending[w] \in Openings
    BY <2>2, OpeningWords
  <2>3. CASE pending[w] \in Seq(Middle)
    <3>1. Head(pending[w]) \in Middle /\ Tail(pending[w]) \in Seq(Middle)
      BY <2>3, HeadTailProperties
    <3>2. Head(pending[w]) \notin {"close", "quality_gate_evaluated", "open"}
      BY <3>1 DEF Middle, Ordinary
    <3> QED BY <3>1, <3>2
  <2> QED BY <2>1, <2>2, <2>3
<1> QED BY <1>1, <1>2

\* A step that leaves the numbers and bounds as they are, or gives a number.
LEMMA RangedStays ==
    ASSUME SessionInv, SessionRest,
           UNCHANGED <<events, checkpoints, summary, run, nodes, second, mongoErrors, lost>>,
           counter' \in {counter, counter + 1},
           \A w \in Writers : stamp'[w] = stamp[w] \/ stamp'[w] = second \/ stamp'[w] = 0
    PROVE  Ranged'
<1>1. counter \in Nat /\ second \in Nat /\ summary.last \in Nat /\ summary.checkpoint \in Nat
      /\ lost \subseteq 1..counter
  BY DEF SessionInv, SessionTyped, SessionRest, Ranged
<1>2. \A c \in checkpoints : c.after \in Nat
  BY DEF SessionInv, SessionTyped, Checkpoints
<1>3. lost' \subseteq 1..counter'
  BY <1>1
<1> QED BY <1>1, <1>2, <1>3 DEF SessionRest, Ranged

\* What only one writer does is said of the others already.
LEMMA OthersBegun ==
    ASSUME SessionRest, NEW w \in Writers, Begun(w)',
           \A x \in Writers \ {w} : /\ pending'[x] = pending[x] \/ pending'[x] = <<>>
                                    /\ held'[x] = held[x] /\ step'[x] = step[x]
    PROVE  \A x \in Writers : Begun(x)'
BY DEF SessionRest, Begun

LEMMA NumberRest ==
    ASSUME NEW w \in Writers, SessionInv, SessionRest, Number(w)
    PROVE  SessionRest'
<1>1. /\ UNCHANGED <<events, checkpoints, summary, run, nodes, second, mongoErrors, lost,
                     phase, pending, stamp>>
      /\ counter' = counter + 1 /\ held' = [held EXCEPT ![w] = counter + 1]
      /\ step' = [step EXCEPT ![w] = "numbered"]
  BY DEF Number, Given, control, bounds
<1>2. /\ held'[w] = counter + 1 /\ step'[w] = "numbered"
      /\ \A x \in Writers \ {w} : held'[x] = held[x] /\ step'[x] = step[x]
  BY <1>1 DEF SessionInv, SessionTyped
<1>3. counter + 1 > 0
  BY DEF SessionInv, SessionTyped
<1>4. Begun(w)'
  BY <1>2, <1>3 DEF Begun
<1>5. \A x \in Writers : Begun(x)'
  BY <1>1, <1>2, <1>4, OthersBegun
<1>6. Ranged'
  BY <1>1, RangedStays
<1> QED BY <1>1, <1>5, <1>6 DEF SessionRest, Phrased

LEMMA InsertEventRest ==
    ASSUME NEW w \in Writers, SessionInv, SessionRest, InsertEvent(w)
    PROVE  SessionRest'
<1>1. /\ UNCHANGED <<counter, checkpoints, summary, run, nodes, second, mongoErrors, lost,
                     phase, pending, stamp, held>>
      /\ step[w] = "numbered" /\ step' = [step EXCEPT ![w] = "stored"]
      /\ Head(pending[w]) \in Kinds
      /\ events' = events \cup {[seq |-> held[w], kind |-> Head(pending[w])]}
  BY DEF InsertEvent, At, control, bounds
<1>2. step'[w] = "stored" /\ \A x \in Writers \ {w} : step'[x] = step[x]
  BY <1>1 DEF SessionInv, SessionTyped
<1>3. held[w] > 0
  BY <1>1 DEF SessionInv, Numbering, Numbered
<1>4. Begun(w)'
  BY <1>1, <1>3 DEF Begun
<1>5. \A x \in Writers : Begun(x)'
  BY <1>1, <1>2, <1>4, OthersBegun
<1>6. Ranged'
  BY <1>1 DEF SessionRest, Ranged
<1> QED BY <1>1, <1>5, <1>6 DEF SessionRest, Phrased

\* The write of w is done.
LEMMA DoneRest ==
    ASSUME NEW w \in Writers, SessionInv, SessionRest, act[w] = "busy", pending[w] # <<>>,
           Done(w), UNCHANGED <<phase, held>>,
           Head(pending[w]) \in {"close", "quality_gate_evaluated", "open"} \/ held[w] > 0
    PROVE  Phrased' /\ \A x \in Writers : Begun(x)'
<1>1. /\ pending' = [pending EXCEPT ![w] = Tail(pending[w])]
      /\ step' = [step EXCEPT ![w] = "ready"]
  BY DEF Done
<1>2. /\ pending'[w] = Tail(pending[w]) /\ step'[w] = "ready"
      /\ \A x \in Writers \ {w} : pending'[x] = pending[x] /\ step'[x] = step[x]
  BY <1>1 DEF SessionInv, SessionTyped
<1>3. Phrased'
  BY <1>2, GoesOn DEF SessionRest, Phrased
<1>4. Begun(w)'
  BY <1>2, GoesOn DEF Begun
<1> QED BY <1>2, <1>3, <1>4, OthersBegun

LEMMA PublishRest ==
    ASSUME NEW w \in Writers, SessionInv, SessionRest, Publish(w)
    PROVE  SessionRest'
<1>1. /\ UNCHANGED <<counter, events, checkpoints, run, nodes, second, mongoErrors, lost,
                     phase, held>>
      /\ act[w] = "busy" /\ pending[w] # <<>> /\ step[w] = "stored" /\ Done(w)
      /\ summary' = [summary EXCEPT !.last = held[w]]
      /\ stamp' = IF Head(pending[w]) = "node_completed"
                  THEN [stamp EXCEPT ![w] = second] ELSE stamp
  BY DEF Publish, At, control, bounds
<1>2. held[w] > 0
  BY <1>1 DEF SessionRest, Begun
<1>3. Phrased' /\ \A x \in Writers : Begun(x)'
  BY <1>1, <1>2, DoneRest
<1>4. summary'.last = held[w] /\ summary'.checkpoint = summary.checkpoint /\ held[w] <= counter
  BY <1>1 DEF SessionInv, SessionTyped, Numbering
<1>5. \A x \in Writers : stamp'[x] <= second
  BY <1>1 DEF SessionInv, SessionTyped, SessionRest, Ranged
<1>6. Ranged'
  BY <1>1, <1>4, <1>5 DEF SessionRest, Ranged
<1> QED BY <1>3, <1>6 DEF SessionRest

LEMMA ReplyRest ==
    ASSUME NEW w \in Writers, SessionInv, SessionRest, Reply(w)
    PROVE  SessionRest'
<1>1. /\ UNCHANGED <<counter, events, checkpoints, summary, run, nodes, second, mongoErrors,
                     lost, phase, held, stamp>>
      /\ act[w] = "busy" /\ pending[w] # <<>> /\ Head(pending[w]) = "reply" /\ Done(w)
  BY DEF Reply, At, control, bounds, store
<1>2. held[w] > 0
  BY <1>1 DEF SessionRest, Begun
<1>3. Phrased' /\ \A x \in Writers : Begun(x)'
  BY <1>1, <1>2, DoneRest
<1>4. Ranged'
  BY <1>1, RangedStays
<1> QED BY <1>3, <1>4 DEF SessionRest

LEMMA SaveCheckpointRest ==
    ASSUME NEW w \in Writers, SessionInv, SessionRest, SaveCheckpoint(w)
    PROVE  SessionRest'
<1>1. /\ UNCHANGED <<counter, events, summary, run, nodes, second, mongoErrors, lost, phase,
                     held, stamp, pending>>
      /\ pending[w] # <<>> /\ Head(pending[w]) = "checkpoint"
      /\ step' = [step EXCEPT ![w] = "stored"]
      /\ checkpoints' = checkpoints \cup
             {[by |-> w, after |-> held[w], second |-> stamp[w]]}
  BY DEF SaveCheckpoint, At, control, bounds
<1>2. held[w] > 0
  BY <1>1 DEF SessionRest, Begun
<1>3. \A x \in Writers \ {w} : step'[x] = step[x]
  BY <1>1 DEF SessionInv, SessionTyped
<1>4. Begun(w)'
  BY <1>1, <1>2 DEF Begun
<1>5. \A x \in Writers : Begun(x)'
  BY <1>1, <1>3, <1>4, OthersBegun
<1>6. held[w] <= counter /\ stamp[w] <= second
  BY DEF SessionInv, Numbering, SessionRest, Ranged
<1>7. Ranged'
  BY <1>1, <1>2, <1>6 DEF SessionRest, Ranged
<1> QED BY <1>1, <1>5, <1>7 DEF SessionRest, Phrased

LEMMA NameCheckpointRest ==
    ASSUME NEW w \in Writers, SessionInv, SessionRest, NameCheckpoint(w)
    PROVE  SessionRest'
<1>1. /\ UNCHANGED <<counter, events, checkpoints, run, nodes, second, mongoErrors, lost,
                     phase, held, stamp>>
      /\ act[w] = "busy" /\ pending[w] # <<>> /\ step[w] = "stored" /\ Done(w)
      /\ summary' = [summary EXCEPT !.checkpoint = held[w]]
  BY DEF NameCheckpoint, At, control, bounds
<1>2. held[w] > 0
  BY <1>1 DEF SessionRest, Begun
<1>3. Phrased' /\ \A x \in Writers : Begun(x)'
  BY <1>1, <1>2, DoneRest
<1>4. summary'.checkpoint = held[w] /\ summary'.last = summary.last /\ held[w] <= counter
  BY <1>1 DEF SessionInv, SessionTyped, Numbering
<1>5. Ranged'
  BY <1>1, <1>4 DEF SessionRest, Ranged
<1> QED BY <1>3, <1>5 DEF SessionRest

LEMMA OpenCloseRest ==
    ASSUME SessionInv, SessionRest, Open \/ Close
    PROVE  SessionRest'
<1>1. /\ UNCHANGED <<counter, events, checkpoints, run, nodes, second, mongoErrors, lost,
                     phase, held, stamp>>
      /\ act[MainThread] = "busy" /\ pending[MainThread] # <<>> /\ Done(MainThread)
      /\ Head(pending[MainThread]) \in {"close", "quality_gate_evaluated", "open"}
  BY DEF Open, Close, At, control, bounds
<1>2. /\ summary'.last = 0 \/ summary'.last = summary.last
      /\ summary'.checkpoint = 0 \/ summary'.checkpoint = summary.checkpoint
  BY DEF Open, Close, SessionInv, SessionTyped
<1>3. MainThread \in Writers
  BY WritersAre
<1>4. Phrased' /\ \A x \in Writers : Begun(x)'
  BY <1>1, <1>3, DoneRest
<1>5. 0 <= counter
  BY DEF SessionInv, SessionTyped
<1>6. Ranged'
  BY <1>1, <1>2, <1>5 DEF SessionRest, Ranged
<1> QED BY <1>4, <1>6 DEF SessionRest

LEMMA ClosingRest ==
    ASSUME SessionInv, SessionRest, NEW status \in Terminal,
           NEW before \in {<<>>, <<"quality_gate_evaluated">>},
           Closing(status, before), held' = held
    PROVE  Phrased' /\ \A x \in Writers : Begun(x)'
<1>1. PICK rest : rest = before \o <<"close", Verdict(status)>>
  OBVIOUS
<1>2. /\ phase' = "closing" /\ pending' = [pending EXCEPT ![MainThread] = rest]
      /\ step' = [step EXCEPT ![MainThread] = "ready"]
  BY <1>1 DEF Closing
<1>3. rest \in Farewells(Verdict(status)) /\ rest # <<>> /\ Verdict(status) \in Verdicts
  <2>1. Verdict(status) \in Verdicts
    BY DEF Verdict, Verdicts
  <2> QED BY <1>1, <2>1, ClosingIs DEF Farewells
<1>4. Head(rest) \notin {"reply", "checkpoint"}
  BY <1>3, FarewellHeads
<1>5. MainThread \in Writers
  BY WritersAre
<1>6. /\ pending'[MainThread] = rest /\ step'[MainThread] = "ready"
      /\ \A x \in Writers \ {MainThread} : pending'[x] = pending[x] /\ step'[x] = step[x]
  BY <1>2, <1>5 DEF SessionInv, SessionTyped
<1>7. Begun(MainThread)'
  BY <1>4, <1>6 DEF Begun
<1>8. \A x \in Writers : Begun(x)'
  BY <1>5, <1>6, <1>7, OthersBegun
<1>9. Phrased'
  BY <1>2, <1>6 DEF SessionRest, Phrased
<1> QED BY <1>8, <1>9

LEMMA StartServiceRest ==
    ASSUME SessionInv, SessionRest, StartService
    PROVE  SessionRest'
<1>1. /\ UNCHANGED <<counter, events, checkpoints, summary, run, nodes, second, mongoErrors,
                     lost, held, stamp, step>>
      /\ phase = "new" /\ pending' = [pending EXCEPT ![MainThread] = Opening]
  BY DEF StartService, store, bounds
<1>2. Opening \in Openings
  <2>1. <<"open", "session_started">> \o <<>> = <<"open", "session_started">>
    OBVIOUS
  <2>2. <<"open", "session_started">> \o <<"skill_selected">>
          = <<"open", "session_started", "skill_selected">>
    <3> DEFINE S == {"open", "session_started", "skill_selected"}
               s == <<"open", "session_started">>
               t == <<"skill_selected">>
               u == <<"open", "session_started", "skill_selected">>
    <3>1. s \in Seq(S) /\ t \in Seq(S) /\ Len(s) = 2 /\ Len(t) = 1
          /\ s[1] = "open" /\ s[2] = "session_started" /\ t[1] = "skill_selected"
      OBVIOUS
    <3>2. u \in Seq(S) /\ Len(u) = 3 /\ u[1] = "open" /\ u[2] = "session_started"
          /\ u[3] = "skill_selected"
      OBVIOUS
    <3> HIDE DEF S, s, t, u
    <3>3. s \o t \in Seq(S) /\ Len(s \o t) = 3
          /\ \A i \in 1..3 : (s \o t)[i] = IF i <= 2 THEN s[i] ELSE t[i-2]
      <4>1. Len(s \o t) = Len(s) + Len(t) /\ s \o t \in Seq(S)
            /\ \A i \in 1..Len(s) + Len(t) : (s \o t)[i] = IF i <= Len(s) THEN s[i] ELSE t[i - Len(s)]
        BY <3>1, ConcatProperties
      <4> QED BY <3>1, <4>1
    <3>4. \A i \in 1..3 : (s \o t)[i] = u[i]
      BY <3>1, <3>2, <3>3
    <3>5. s \o t = u
      BY <3>2, <3>3, <3>4
    <3> QED BY <3>5 DEF s, t, u
  <2> QED BY <2>1, <2>2 DEF Opening, Openings
<1>3. MainThread \in Writers
  BY WritersAre
<1>4. /\ pending'[MainThread] = Opening
      /\ \A x \in Writers \ {MainThread} : pending'[x] = pending[x]
  BY <1>1, <1>3 DEF SessionInv, SessionTyped
<1>5. Phrased'
  BY <1>1, <1>2, <1>4 DEF SessionRest, Phrased
<1>6. Begun(MainThread)'
  BY <1>1, <1>2, <1>3, <1>4, OpeningWords DEF SessionRest, Begun
<1>7. \A x \in Writers : Begun(x)'
  BY <1>1, <1>3, <1>4, <1>6, OthersBegun
<1>8. Ranged'
  BY <1>1, RangedStays
<1> QED BY <1>5, <1>7, <1>8 DEF SessionRest

LEMMA StartRunRest ==
    ASSUME SessionInv, SessionRest, StartRun
    PROVE  SessionRest'
<1>1. /\ UNCHANGED <<counter, events, checkpoints, summary, run, second, mongoErrors,
                     lost, held, stamp, step>>
      /\ pending' = [w \in Writers |-> IF w \in run.threads THEN Node(<<"reply">>) ELSE <<>>]
      /\ nodes' = [w \in Writers |-> IF w \in run.threads THEN 1 ELSE 0]
  BY DEF StartRun, store, bounds
<1>2. /\ Node(<<"reply">>) \in Seq(Middle) /\ Node(<<"reply">>) # <<>>
      /\ Head(Node(<<"reply">>)) = "node_started"
  BY NodePhrase DEF Replies
<1>3. \A w \in Writers : pending'[w] \in {Node(<<"reply">>), <<>>}
  BY <1>1
<1>4. Phrased'
  <2>1. <<>> \in Seq(Middle)
    OBVIOUS
  <2> QED BY <1>2, <1>3, <2>1 DEF Phrased
<1>5. \A w \in Writers : Begun(w)'
  BY <1>1, <1>2, <1>3 DEF SessionRest, Begun
<1>6. nodes' \in [Writers -> Nat] /\ \A w \in Writers : nodes'[w] <= run.nodes
  <2>1. \A w \in Writers : w \in run.threads => 1 <= run.nodes
    BY RunIs
  <2>2. 0 <= run.nodes
    BY RunIs
  <2> QED BY <1>1, <2>1, <2>2
<1>7. Ranged'
  BY <1>1, <1>6 DEF SessionRest, Ranged
<1> QED BY <1>4, <1>5, <1>7 DEF SessionRest

LEMMA ContinueRest ==
    ASSUME NEW w \in Writers, SessionInv, SessionRest, Continue(w)
    PROVE  SessionRest'
<1>1. /\ UNCHANGED <<counter, events, checkpoints, summary, run, second, mongoErrors,
                     lost, held, stamp, step, phase>>
      /\ nodes[w] < run.nodes /\ nodes' = [nodes EXCEPT ![w] = @ + 1]
  BY DEF Continue, store, bounds
<1>2. PICK rest \in Seq(Middle) :
         /\ pending' = [pending EXCEPT ![w] = rest]
         /\ Head(rest) \notin {"reply", "checkpoint"}
  <2>1. CASE \E tools \in ToolCalls : pending' = [pending EXCEPT ![w] = tools \o Node(<<"reply">>)]
    <3>1. PICK tools \in ToolCalls : pending' = [pending EXCEPT ![w] = tools \o Node(<<"reply">>)]
      BY <2>1
    <3>2. Node(<<"reply">>) \in Seq(Middle)
      BY NodePhrase DEF Replies
    <3>3. /\ tools \o Node(<<"reply">>) \in Seq(Middle)
          /\ Head(tools \o Node(<<"reply">>)) \in {"tool_call_requested", "tool_call_blocked"}
      BY <3>2, ToolPhrase
    <3> QED BY <3>1, <3>3
  <2>2. CASE \E replies \in Replies : pending' = [pending EXCEPT ![w] = Node(replies)]
    BY <2>2, NodePhrase
  <2> QED BY <2>1, <2>2 DEF Continue
<1>3. pending'[w] = rest /\ \A x \in Writers \ {w} : pending'[x] = pending[x]
  BY <1>2 DEF SessionInv, SessionTyped
<1>4. Phrased'
  BY <1>1, <1>3 DEF SessionRest, Phrased
<1>5. Begun(w)'
  BY <1>1, <1>2, <1>3 DEF SessionRest, Begun
<1>6. \A x \in Writers : Begun(x)'
  BY <1>1, <1>3, <1>5, OthersBegun
<1>7. nodes' \in [Writers -> Nat] /\ \A x \in Writers : nodes'[x] <= run.nodes
  <2>1. nodes \in [Writers -> Nat] /\ \A x \in Writers : nodes[x] <= run.nodes
    BY DEF SessionRest, Ranged
  <2>2. PICK n \in Nat : n = run.nodes
    BY RunIs
  <2> QED BY <1>1, <2>1, <2>2
<1>8. Ranged'
  BY <1>1, <1>7 DEF SessionRest, Ranged
<1> QED BY <1>4, <1>6, <1>8 DEF SessionRest

LEMMA EndAnalystRest ==
    ASSUME NEW a \in AnalystThreads, SessionInv, SessionRest, EndAnalyst(a)
    PROVE  SessionRest'
<1>1. /\ UNCHANGED <<counter, events, checkpoints, summary, run, nodes, second, mongoErrors,
                     lost, step, phase, pending>>
      /\ pending[a] = <<>> /\ held' = [held EXCEPT ![a] = 0] /\ stamp' = [stamp EXCEPT ![a] = 0]
  BY DEF EndAnalyst, InNodes, store, bounds
<1>2. a \in Writers /\ step[a] = "ready"
  BY <1>1, WritersAre DEF SessionInv, Staged
<1>3. \A x \in Writers \ {a} : held'[x] = held[x]
  BY <1>1 DEF SessionInv, SessionTyped
<1>4. Begun(a)'
  BY <1>1, <1>2 DEF Begun
<1>5. \A x \in Writers : Begun(x)'
  BY <1>1, <1>2, <1>3, <1>4, OthersBegun
<1>6. \A x \in Writers : stamp'[x] = stamp[x] \/ stamp'[x] = 0
  BY <1>1 DEF SessionInv, SessionTyped
<1>7. Ranged'
  BY <1>1, <1>6, RangedStays
<1> QED BY <1>1, <1>5, <1>7 DEF SessionRest, Phrased

LEMMA JoinThreadsRest ==
    ASSUME SessionInv, SessionRest, JoinThreads \/ FinishRun
    PROVE  SessionRest'
<1>1. UNCHANGED <<counter, events, checkpoints, summary, run, nodes, second, mongoErrors,
                  lost, held, stamp>>
  BY DEF JoinThreads, FinishRun, store, bounds
<1>2. Ranged'
  BY <1>1, RangedStays
<1>3. \/ \E status \in Terminal, before \in {<<>>, <<"quality_gate_evaluated">>} :
            Closing(status, before)
      \/ phase = "fanout" /\ phase' = "nodes" /\ UNCHANGED <<pending, step>>
  <2>1. CASE JoinThreads
    <3>1. "failed" \in Terminal
      BY DEF Terminal, Failures
    <3> QED BY <2>1, <3>1 DEF JoinThreads
  <2>2. CASE FinishRun
    BY <2>2 DEF FinishRun
  <2> QED BY <2>1, <2>2
<1>4. CASE phase = "fanout" /\ phase' = "nodes" /\ UNCHANGED <<pending, step>>
  BY <1>1, <1>2, <1>4 DEF SessionRest, Phrased, Begun
<1> QED BY <1>1, <1>2, <1>3, <1>4, ClosingRest DEF SessionRest

LEMMA EndRunRest ==
    ASSUME SessionInv, SessionRest, EndRun
    PROVE  SessionRest'
<1>1. /\ UNCHANGED <<counter, events, checkpoints, summary, run, nodes, second, mongoErrors,
                     lost, pending, step, held, stamp>>
      /\ pending[MainThread] = <<>>
  BY DEF EndRun, store, bounds, progress
<1>2. Ranged'
  BY <1>1, RangedStays
<1>3. <<>> \in Seq(Middle)
  OBVIOUS
<1>4. \A w \in Writers : Begun(w)'
  BY <1>1 DEF SessionRest, Begun
<1>5. \A w \in Writers : pending'[w] \in Openings \cup Seq(Middle)
  BY <1>1, <1>3 DEF SessionRest, Phrased
<1> QED BY <1>2, <1>4, <1>5 DEF SessionRest, Phrased

LEMMA AbandonRest ==
    ASSUME SessionInv, SessionRest, NEW w \in Writers, Abandon(w), held' = held
    PROVE  Phrased' /\ \A x \in Writers : Begun(x)'
<1>1. CASE w = MainThread
  <2>1. Closing("failed", <<>>) /\ "failed" \in Terminal
    BY <1>1 DEF Abandon, Terminal, Failures
  <2> QED BY <2>1, ClosingRest
<1>2. CASE w # MainThread
  <2>1. /\ pending' = [pending EXCEPT ![w] = <<>>] /\ phase' = phase
        /\ step' = [step EXCEPT ![w] = "ready"]
    BY <1>2 DEF Abandon
  <2>2. /\ pending'[w] = <<>> /\ step'[w] = "ready"
        /\ \A x \in Writers \ {w} : pending'[x] = pending[x] /\ step'[x] = step[x]
    BY <2>1 DEF SessionInv, SessionTyped
  <2>3. Begun(w)'
    BY <2>2 DEF Begun
  <2>4. \A x \in Writers : Begun(x)'
    BY <2>2, <2>3, OthersBegun
  <2>5. <<>> \in Seq(Middle)
    OBVIOUS
  <2> QED BY <2>1, <2>2, <2>4, <2>5 DEF SessionRest, Phrased
<1> QED BY <1>1, <1>2

LEMMA NodeRaisesRest ==
    ASSUME NEW w \in Writers, SessionInv, SessionRest, NodeRaises(w)
    PROVE  SessionRest'
<1>1. /\ UNCHANGED <<counter, events, checkpoints, summary, run, nodes, second, mongoErrors,
                     lost, held, stamp>> /\ Abandon(w)
  BY DEF NodeRaises, store, bounds
<1> QED BY <1>1, AbandonRest, RangedStays DEF SessionRest

LEMMA FaultRest ==
    ASSUME NEW w \in Writers, SessionInv, SessionRest, Fault(w)
    PROVE  SessionRest'
<1>1. /\ UNCHANGED <<counter, events, checkpoints, summary, run, nodes, second, held, stamp>>
      /\ act[w] = "busy" /\ pending[w] # <<>>
      /\ mongoErrors < run.errors /\ mongoErrors' = mongoErrors + 1
      /\ lost' = IF step[w] = "numbered" THEN lost \cup {held[w]} ELSE lost
  BY DEF Fault, store
<1>2. Ranged'
  <2>1. mongoErrors' <= run.errors
    BY <1>1, RunIs DEF SessionInv, SessionTyped
  <2>2. step[w] = "numbered" => held[w] \in 1..counter
    BY DEF SessionInv, SessionTyped, Numbering, Numbered
  <2>3. lost' \subseteq 1..counter
    BY <1>1, <2>2 DEF SessionRest, Ranged
  <2> QED BY <1>1, <2>1, <2>3 DEF SessionRest, Ranged
<1>3. CASE Head(pending[w]) \in Uncaught
  <2>1. Abandon(w)
    BY <1>3 DEF Fault
  <2> QED BY <1>1, <1>2, <2>1, AbandonRest DEF SessionRest
<1>4. CASE Head(pending[w]) \notin Uncaught
  <2>1. /\ pending' = [pending EXCEPT ![w] = Rest(w)] /\ phase' = phase
        /\ step' = [step EXCEPT ![w] = "ready"]
    BY <1>4 DEF Fault
  <2>2. /\ pending'[w] = Rest(w) /\ step'[w] = "ready"
        /\ \A x \in Writers \ {w} : pending'[x] = pending[x] /\ step'[x] = step[x]
    BY <2>1 DEF SessionInv, SessionTyped
  <2>3. /\ Rest(w) # <<>> => Head(Rest(w)) \notin {"reply", "checkpoint"}
        /\ w # MainThread \/ phase # "closing" => Rest(w) \in Openings \cup Seq(Middle)
    <3>1. CASE Head(pending[w]) = "quality_gate_evaluated"
      BY <1>1, <3>1, GoesOn DEF Rest
    <3>2. CASE Head(pending[w]) # "quality_gate_evaluated"
      <4>1. Rest(w) = <<>> /\ <<>> \in Seq(Middle)
        BY <3>2 DEF Rest
      <4> QED BY <4>1
    <3> QED BY <3>1, <3>2
  <2>4. Begun(w)'
    BY <2>2, <2>3 DEF Begun
  <2>5. \A x \in Writers : Begun(x)'
    BY <1>1, <2>2, <2>4, OthersBegun
  <2> QED BY <1>2, <2>1, <2>2, <2>3, <2>5 DEF SessionRest, Phrased
<1> QED BY <1>3, <1>4

LEMMA TickRest ==
    ASSUME SessionInv, SessionRest, Tick \/ ReadSession \/ ReadCheckpoint \/ ReadEvents
                                    \/ UNCHANGED sessionVars
    PROVE  SessionRest'
<1>1. /\ UNCHANGED <<counter, events, checkpoints, summary, run, nodes, phase, mongoErrors,
                     lost, pending, step, held, stamp>>
      /\ second' = second \/ (second < run.seconds /\ second' = second + 1)
  BY DEF Tick, ReadSession, ReadCheckpoint, ReadEvents, sessionVars, store, control, progress, bounds
<1>2. second \in Nat /\ run.seconds \in Nat /\ \A c \in checkpoints : c.second \in Nat
  BY RunIs DEF SessionInv, SessionTyped, Checkpoints
<1>3. second' <= run.seconds /\ second <= second' /\ second' \in Nat
  BY <1>1, <1>2 DEF SessionRest, Ranged
<1>4. \A w \in Writers : stamp'[w] <= second'
  BY <1>1, <1>2, <1>3 DEF SessionInv, SessionTyped, SessionRest, Ranged
<1>5. \A c \in checkpoints : c.second <= second'
  BY <1>2, <1>3 DEF SessionRest, Ranged
<1>6. Ranged'
  BY <1>1, <1>3, <1>4, <1>5 DEF SessionRest, Ranged
<1> QED BY <1>1, <1>6 DEF SessionRest, Phrased, Begun

LEMMA SessionRestStep ==
    SessionInv /\ SessionRest /\ [SessionNext]_sessionVars => SessionRest'
<1>1. ASSUME SessionInv, SessionRest, [SessionNext]_sessionVars
      PROVE  SessionRest'
  BY <1>1, StartServiceRest, OpenCloseRest, StartRunRest, JoinThreadsRest, EndRunRest, TickRest,
     NumberRest, InsertEventRest, PublishRest, ReplyRest, SaveCheckpointRest, NameCheckpointRest,
     ContinueRest, NodeRaisesRest, FaultRest, EndAnalystRest
  DEF SessionNext, Write
<1> QED BY <1>1

LEMMA SessionRestStarts == SessionInit => SessionRest
<1> SUFFICES ASSUME SessionInit PROVE SessionRest
  OBVIOUS
<1>1. /\ counter = 0 /\ events = {} /\ checkpoints = {} /\ lost = {} /\ second = 0 /\ mongoErrors = 0
      /\ summary = [status |-> "", last |-> 0, checkpoint |-> 0] /\ run \in Runs
      /\ pending = [w \in Writers |-> <<>>] /\ step = [w \in Writers |-> "ready"]
      /\ stamp = [w \in Writers |-> 0] /\ nodes = [w \in Writers |-> 0]
  BY DEF SessionInit
<1>2. 0 <= run.nodes /\ 0 <= run.seconds /\ 0 <= run.errors
  BY SessionInitInv, RunIs
<1>3. nodes \in [Writers -> Nat] /\ \A w \in Writers : nodes[w] = 0 /\ stamp[w] = 0
  BY <1>1
<1>4. summary.last = 0 /\ summary.checkpoint = 0
  BY <1>1
<1>5. Ranged
  <2>1. counter = 0 /\ events = {} /\ checkpoints = {} /\ lost = {} /\ second = 0 /\ mongoErrors = 0
    BY <1>1
  <2> HIDE DEF SessionInit
  <2> QED BY <1>2, <1>3, <1>4, <2>1 DEF Ranged
<1>6. <<>> \in Seq(Middle)
  OBVIOUS
<1> QED BY <1>1, <1>5, <1>6 DEF SessionRest, Phrased, Begun

LEMMA SessionTypeFollows ==
    ASSUME SessionInv, SessionRest
    PROVE  SessionTypeOK
<1>1. /\ counter \in Nat /\ second \in Nat /\ mongoErrors \in Nat /\ run \in Runs
      /\ verdict \in Terminal /\ reading \in 0..3
      /\ phase \in {"new", "opening", "fanout", "nodes", "closing", "done"}
      /\ act \in [Writers -> {"idle", "busy", "ended", "raised"}]
      /\ step \in [Writers -> {"ready", "numbered", "stored"}]
      /\ \A w \in Writers : pending[w] \in Seq(Ops)
      /\ \A e \in events : e.seq \in 1..counter
  BY DEF SessionInv, SessionTyped
<1>2. \A e \in events : e.kind \in Kinds
  BY DEF SessionRest, Ranged
<1>3. summary.status \in Terminal \cup {"", "running"} /\ summary.last \in 0..counter
      /\ summary.checkpoint \in 0..counter
  <2>1. summary.status \in Statuses /\ summary.last \in Nat /\ summary.checkpoint \in Nat
    BY DEF SessionInv, SessionTyped
  <2>2. summary.last <= counter /\ summary.checkpoint <= counter
    BY DEF SessionRest, Ranged
  <2>3. summary.last \in 0..counter /\ summary.checkpoint \in 0..counter
    BY <1>1, <2>1, <2>2
  <2> QED BY <2>1, <2>3, Zenon DEF Statuses
<1>4. ASSUME NEW c \in checkpoints
      PROVE  c.by \in Writers /\ c.after \in 1..counter /\ c.second \in 0..second
  BY <1>1 DEF SessionInv, SessionTyped, Checkpoints, SessionRest, Ranged
<1>5. held \in [Writers -> 0..counter]
  BY <1>1 DEF SessionInv, SessionTyped, Numbering
<1>6. stamp \in [Writers -> 0..second]
  BY <1>1 DEF SessionInv, SessionTyped, SessionRest, Ranged
<1>7. nodes \in [Writers -> 0..run.nodes] /\ second \in 0..run.seconds
      /\ mongoErrors \in 0..run.errors /\ lost \subseteq 1..counter
  <2>1. run.nodes \in Nat /\ run.seconds \in Nat /\ run.errors \in Nat
    BY RunIs
  <2> QED BY <1>1, <2>1 DEF SessionRest, Ranged
<1> QED BY <1>1, <1>2, <1>3, <1>4, <1>5, <1>6, <1>7 DEF SessionTypeOK

LEMMA SessionRestHolds == SessionSpec => [](SessionInv /\ SessionRest)
BY SessionInitInv, SessionNextInv, SessionRestStarts, SessionRestStep, PTL DEF SessionSpec

\* Every variable of the session stays in its domain: last_event_seq and the
\* numbers of checkpoints are numbers that were given, and nobody saves a
\* checkpoint before an event of its node has its number.
THEOREM SessionTypeCorrect == SessionSpec => []SessionTypeOK
<1>1. SessionInv /\ SessionRest => SessionTypeOK
  BY SessionTypeFollows
<1> QED BY <1>1, SessionRestHolds, PTL
-----------------------------------------------------------------------------
\* A session goes on and comes to its end: a bound on the steps it has left, and
\* no state in which nobody can take one.

\* What a writer has still to do, as a number of steps.  A node that it has not
\* begun stands for more than the eight writes of three calls it may have, and
\* each stage of run() for more than what it hands its thread to write.
Passed == [s \in {"ready", "numbered", "stored"} |->
              CASE s = "ready" -> 0 [] s = "numbered" -> 1 [] OTHER -> 2]

StagesLeft == [p \in {"new", "opening", "fanout", "nodes", "closing", "done"} |->
                  CASE p = "new" -> 23 [] p = "opening" -> 13 [] p = "fanout" -> 12
                    [] p = "nodes" -> 11 [] p = "closing" -> 1 [] OTHER -> 0]

EndLeft(w) == IF w = MainThread THEN StagesLeft[phase] ELSE IF act[w] = "busy" THEN 1 ELSE 0

WritesLeft(w) == 3 * Len(pending[w]) - Passed[step[w]]

WorkLeft(w) == 25 * (run.nodes - nodes[w]) + WritesLeft(w) + EndLeft(w)

\* The first write of a writer has the calls it is in the middle of; only run()
\* opens a session, and no node runs before it is open.
Fits(w) ==
    /\ step[w] = "numbered" => Head(pending[w]) \in Kinds
    /\ step[w] = "stored" => Head(pending[w]) \in Kinds \cup {"checkpoint"}
    /\ w # MainThread => pending[w] \in Seq(Middle)

Paced ==
    /\ \A w \in Writers : Fits(w)
    /\ phase \in {"new", "opening"} => \A w \in Writers : nodes[w] = 0

\* No step adds to what a writer has to do, and every step but the clock's and
\* a reader's takes from what one of them has.
WorkRunsDown ==
    /\ \A w \in Writers : WorkLeft(w)' <= WorkLeft(w)
    /\ UNCHANGED <<second, reading>> => \E w \in Writers : WorkLeft(w)' < WorkLeft(w)

\* A writer whose next call can be made: the guards of Write, Open and Close.
CanWrite(w) ==
    /\ act[w] = "busy" /\ pending[w] # <<>>
    /\ \/ Head(pending[w]) \in Kinds
       \/ Head(pending[w]) = "checkpoint" /\ step[w] # "numbered"
       \/ Head(pending[w]) = "reply" /\ step[w] = "ready"
       \/ Head(pending[w]) \in {"open", "close"} /\ w = MainThread /\ step[w] = "ready"

\* A writer that has nothing to write can go on: the guards of StartRun,
\* JoinThreads, FinishRun, EndRun and EndAnalyst.
CanGoOn ==
    \/ phase \in {"opening", "nodes", "closing"} /\ pending[MainThread] = <<>>
    \/ phase = "fanout" /\ Joined
    \/ \E a \in AnalystThreads : InNodes(a)

NeverStuck == phase \notin {"new", "done"} => CanGoOn \/ \E w \in Writers : CanWrite(w)

LEMMA CountsAre ==
    /\ Passed["ready"] = 0 /\ Passed["numbered"] = 1 /\ Passed["stored"] = 2
    /\ StagesLeft["new"] = 23 /\ StagesLeft["opening"] = 13 /\ StagesLeft["fanout"] = 12
    /\ StagesLeft["nodes"] = 11 /\ StagesLeft["closing"] = 1 /\ StagesLeft["done"] = 0
BY DEF Passed, StagesLeft

LEMMA WritesCount ==
    ASSUME SessionInv, NEW w \in Writers
    PROVE  /\ WritesLeft(w) \in Nat
           /\ pending[w] # <<>> => WritesLeft(w) > 0
           /\ pending[w] = <<>> => WritesLeft(w) = 0
<1>1. pending[w] \in Seq(Ops) /\ step[w] \in {"ready", "numbered", "stored"}
  BY DEF SessionInv, SessionTyped
<1>2. Len(pending[w]) \in Nat /\ (pending[w] # <<>> => Len(pending[w]) > 0)
      /\ (pending[w] = <<>> => Len(pending[w]) = 0)
  BY <1>1, EmptySeq, LenProperties
<1>3. Passed[step[w]] \in 0..2
  BY <1>1, CountsAre
<1>4. pending[w] = <<>> => Passed[step[w]] = 0
  BY <1>1, CountsAre DEF SessionInv, Staged
<1> QED BY <1>2, <1>3, <1>4 DEF WritesLeft

LEMMA EndsCount ==
    ASSUME SessionInv, NEW w \in Writers
    PROVE  /\ EndLeft(w) \in Nat
           /\ w = MainThread => EndLeft(w) = StagesLeft[phase]
           /\ w # MainThread /\ act[w] = "busy" => EndLeft(w) = 1
           /\ w # MainThread /\ act[w] # "busy" => EndLeft(w) = 0
<1>1. phase \in {"new", "opening", "fanout", "nodes", "closing", "done"}
  BY DEF SessionInv, SessionTyped
<1>2. StagesLeft[phase] \in Nat
  BY <1>1, CountsAre
<1> QED BY <1>2 DEF EndLeft

LEMMA WorkCounts ==
    ASSUME SessionInv, SessionRest, NEW w \in Writers
    PROVE  /\ WorkLeft(w) \in Nat
           /\ 25 * (run.nodes - nodes[w]) \in Nat
<1>1. nodes[w] \in Nat /\ run.nodes \in Nat /\ nodes[w] <= run.nodes
  BY RunIs DEF SessionRest, Ranged
<1>2. PICK n \in Nat : n = run.nodes
  BY <1>1
<1>3. 25 * (run.nodes - nodes[w]) \in Nat
  BY <1>1, <1>2
<1> QED BY <1>3, WritesCount, EndsCount DEF WorkLeft

\* A step of one writer, which the others do not notice.
LEMMA OneFalls ==
    ASSUME SessionInv, SessionRest, NEW w \in Writers, WorkLeft(w)' < WorkLeft(w),
           WorkLeft(w)' \in Int,
           \A x \in Writers \ {w} : WorkLeft(x)' = WorkLeft(x)
    PROVE  WorkRunsDown
<1>1. \A x \in Writers : WorkLeft(x) \in Int
  BY WorkCounts
<1> QED BY <1>1 DEF WorkRunsDown

\* A writer that has less to write.
LEMMA WritesFall ==
    ASSUME SessionInv, SessionRest, SessionInv', NEW w \in Writers,
           UNCHANGED <<run, act, phase, nodes>>,
           \A x \in Writers \ {w} : pending'[x] = pending[x] /\ step'[x] = step[x],
           WritesLeft(w)' < WritesLeft(w)
    PROVE  WorkRunsDown
<1>1. \A x \in Writers : EndLeft(x)' = EndLeft(x)
  BY DEF EndLeft
<1>2. \A x \in Writers \ {w} : WorkLeft(x)' = WorkLeft(x)
  BY <1>1 DEF WorkLeft, WritesLeft
<1>3. WritesLeft(w) \in Nat
  BY WritesCount
<1>4. WritesLeft(w)' \in Int
  <2>1. pending'[w] \in Seq(Ops) /\ step'[w] \in {"ready", "numbered", "stored"}
    BY DEF SessionInv, SessionTyped
  <2>2. Len(pending'[w]) \in Nat /\ Passed[step'[w]] \in 0..2
    BY <2>1, LenProperties, CountsAre
  <2> QED BY <2>2 DEF WritesLeft
<1>5. 25 * (run.nodes - nodes[w]) \in Nat /\ EndLeft(w) \in Nat
  BY WorkCounts, EndsCount
<1>6. PICK k \in Nat, e \in Nat, p \in Nat, q \in Int :
         k = 25 * (run.nodes - nodes[w]) /\ e = EndLeft(w) /\ p = WritesLeft(w) /\ q = WritesLeft(w)'
  BY <1>3, <1>4, <1>5
<1>7. WorkLeft(w) = k + p + e
  BY <1>6 DEF WorkLeft
<1>8. WorkLeft(w)' = k + q + e
  BY <1>1, <1>6 DEF WorkLeft
<1>9. q < p
  BY <1>6
<1> QED BY <1>2, <1>7, <1>8, <1>9, OneFalls

LEMMA OthersFit ==
    ASSUME Paced, NEW w \in Writers, Fits(w)',
           \A x \in Writers \ {w} : /\ pending'[x] = pending[x]
                                    /\ step'[x] = step[x]
    PROVE  \A x \in Writers : Fits(x)'
BY DEF Paced, Fits

\* A call made: the write is further, or done.
LEMMA AdvanceFalls ==
    ASSUME SessionInv, SessionRest, Paced, SessionInv', NEW w \in Writers,
           UNCHANGED <<run, act, phase, nodes, pending>>,
           NEW s \in {"numbered", "stored"}, step' = [step EXCEPT ![w] = s],
           \/ Head(pending[w]) \in Kinds
           \/ s = "stored" /\ Head(pending[w]) = "checkpoint",
           step[w] = "ready" \/ (step[w] = "numbered" /\ s = "stored")
    PROVE  Paced' /\ WorkRunsDown
<1>1. step'[w] = s /\ \A x \in Writers \ {w} : step'[x] = step[x]
  BY DEF SessionInv, SessionTyped
<1>2. Fits(w)'
  BY <1>1 DEF Paced, Fits
<1>3. Paced'
  BY <1>1, <1>2, OthersFit DEF Paced
<1>4. Passed[step[w]] \in 0..2 /\ Passed[s] \in 0..2 /\ Passed[step[w]] < Passed[s]
  BY CountsAre
<1>5. Len(pending[w]) \in Nat
  BY LenProperties DEF SessionInv, SessionTyped
<1>6. WritesLeft(w) = 3 * Len(pending[w]) - Passed[step[w]]
      /\ WritesLeft(w)' = 3 * Len(pending[w]) - Passed[s]
  BY <1>1 DEF WritesLeft
<1>7. WritesLeft(w)' < WritesLeft(w)
  BY <1>4, <1>5, <1>6
<1> QED BY <1>1, <1>3, <1>7, WritesFall

LEMMA RestShorter ==
    ASSUME SessionInv, NEW w \in Writers, pending[w] # <<>>,
           NEW rest \in {<<>>, Tail(pending[w])}, pending'[w] = rest, step'[w] = "ready"
    PROVE  WritesLeft(w)' < WritesLeft(w)
<1>1. pending[w] \in Seq(Ops) /\ step[w] \in {"ready", "numbered", "stored"}
  BY DEF SessionInv, SessionTyped
<1>2. Len(pending[w]) \in Nat /\ Len(pending[w]) > 0 /\ Len(Tail(pending[w])) = Len(pending[w]) - 1
  BY <1>1, LenProperties, EmptySeq, HeadTailProperties
<1>3. Len(<<>>) = 0
  OBVIOUS
<1>4. Len(rest) \in Nat /\ Len(rest) <= Len(pending[w]) - 1
  BY <1>2, <1>3
<1>5. Passed[step[w]] \in 0..2 /\ Passed["ready"] = 0
  BY <1>1, CountsAre
<1>6. WritesLeft(w) = 3 * Len(pending[w]) - Passed[step[w]]
      /\ WritesLeft(w)' = 3 * Len(rest) - Passed["ready"]
  BY DEF WritesLeft
<1> QED BY <1>2, <1>4, <1>5, <1>6

\* A writer that goes on to what is left, or gives it up.
LEMMA RestFalls ==
    ASSUME SessionInv, SessionRest, Paced, SessionInv', NEW w \in Writers, pending[w] # <<>>,
           UNCHANGED <<run, act, phase, nodes>>,
           NEW rest \in {<<>>, Tail(pending[w])},
           pending' = [pending EXCEPT ![w] = rest], step' = [step EXCEPT ![w] = "ready"]
    PROVE  Paced' /\ WorkRunsDown
<1>1. /\ step'[w] = "ready" /\ pending'[w] = rest
      /\ \A x \in Writers \ {w} : step'[x] = step[x] /\ pending'[x] = pending[x]
  BY DEF SessionInv, SessionTyped
<1>2. w # MainThread => rest \in Seq(Middle)
  <2>1. <<>> \in Seq(Middle)
    OBVIOUS
  <2>2. w # MainThread => Tail(pending[w]) \in Seq(Middle)
    BY HeadTailProperties DEF Paced, Fits
  <2> QED BY <2>1, <2>2
<1>3. Fits(w)'
  BY <1>1, <1>2 DEF Fits
<1>4. Paced'
  BY <1>1, <1>3, OthersFit DEF Paced
<1>5. WritesLeft(w)' < WritesLeft(w)
  BY <1>1, RestShorter
<1> QED BY <1>1, <1>4, <1>5, WritesFall

LEMMA WritesFit ==
    ASSUME SessionInv, SessionRest, Paced, SessionInv', NEW w \in Writers, Write(w)
    PROVE  Paced' /\ WorkRunsDown
<1>1. UNCHANGED <<run, act, phase, nodes>> /\ pending[w] # <<>>
  BY DEF Write, Number, InsertEvent, Publish, Reply, SaveCheckpoint, NameCheckpoint, At, control
<1>2. CASE Number(w)
  BY <1>1, <1>2, AdvanceFalls DEF Number, At
<1>3. CASE InsertEvent(w)
  BY <1>1, <1>3, AdvanceFalls DEF InsertEvent, At
<1>4. CASE SaveCheckpoint(w)
  BY <1>1, <1>4, AdvanceFalls DEF SaveCheckpoint, At
<1>5. CASE Publish(w) \/ Reply(w) \/ NameCheckpoint(w)
  <2>1. Done(w)
    BY <1>5 DEF Publish, Reply, NameCheckpoint
  <2> QED BY <1>1, <2>1, RestFalls DEF Done
<1> QED BY <1>2, <1>3, <1>4, <1>5 DEF Write

LEMMA OpenCloseFit ==
    ASSUME SessionInv, SessionRest, Paced, SessionInv', Open \/ Close
    PROVE  Paced' /\ WorkRunsDown
<1>1. UNCHANGED <<run, act, phase, nodes>> /\ pending[MainThread] # <<>> /\ Done(MainThread)
  BY DEF Open, Close, At, control
<1> QED BY <1>1, RestFalls, WritersAre DEF Done

\* How much there is to write at a time.
LEMMA LengthAdds ==
    ASSUME NEW S, NEW s \in Seq(S), NEW t \in Seq(S)
    PROVE  s \o t \in Seq(S) /\ Len(s \o t) = Len(s) + Len(t)
BY ConcatProperties

LEMMA MiddleAdds ==
    \A s, t \in Seq(Middle) : s \o t \in Seq(Middle) /\ Len(s \o t) = Len(s) + Len(t)
BY LengthAdds

LEMMA OpeningLength == Len(Opening) \in 0..3
<1> DEFINE S == {"open", "session_started", "skill_selected"}
           s == <<"open", "session_started">>
           t == IF run.skill THEN <<"skill_selected">> ELSE <<>>
<1>1. s \in Seq(S) /\ Len(s) = 2
  OBVIOUS
<1>2. t \in Seq(S) /\ (Len(t) = 0 \/ Len(t) = 1)
  <2>1. <<>> \in Seq(S) /\ Len(<<>>) = 0 /\ <<"skill_selected">> \in Seq(S)
        /\ Len(<<"skill_selected">>) = 1
    OBVIOUS
  <2> HIDE DEF S
  <2> QED BY <2>1, Zenon
<1>3. Opening = s \o t
  BY DEF Opening
<1> HIDE DEF S, s, t
<1>4. Len(s \o t) = Len(s) + Len(t)
  BY <1>1, <1>2, LengthAdds
<1> QED BY <1>1, <1>2, <1>3, <1>4

LEMMA NodeLength ==
    ASSUME NEW r \in Replies
    PROVE  /\ Node(r) \in Seq(Middle) /\ Len(Node(r)) \in 0..8
           /\ r = <<"reply">> => Len(Node(r)) = 5
<1> DEFINE s == <<"node_started">>
           t == <<"node_completed", "checkpoint", "session_checkpointed">>
<1>1. s \in Seq(Middle) /\ Len(s) = 1
  BY MiddleWords
<1>2. t \in Seq(Middle) /\ Len(t) = 3
  BY MiddleWords
<1>3. r \in Seq(Middle)
  BY MiddleWords, OneWord, TwoWords, FourWords DEF Replies
<1>4. Len(r) \in 1..4 /\ (r = <<"reply">> => Len(r) = 1)
  BY DEF Replies
<1>5. Node(r) = (s \o r) \o t
  BY DEF Node
<1> HIDE DEF s, t
<1>6. s \o r \in Seq(Middle) /\ Len(s \o r) = 1 + Len(r)
  BY <1>1, <1>3, MiddleAdds
<1>7. Len((s \o r) \o t) = Len(s \o r) + 3
  BY <1>2, <1>6, MiddleAdds
<1>8. PICK n \in 1..4 : n = Len(r) /\ (r = <<"reply">> => n = 1)
  BY <1>4
<1>9. Len(Node(r)) = 1 + n + 3
  BY <1>5, <1>6, <1>7, <1>8
<1>10. PICK m \in Int : m = Len(Node(r)) /\ m = 1 + n + 3
  BY <1>9
<1>11. m \in 0..8 /\ (n = 1 => m = 5)
  BY <1>10
<1>12. Node(r) \in Seq(Middle)
  BY NodePhrase
<1>13. Len(Node(r)) \in 0..8
  BY <1>10, <1>11
<1>14. r = <<"reply">> => Len(Node(r)) = 5
  BY <1>8, <1>10, <1>11
<1> QED BY <1>12, <1>13, <1>14

LEMMA ToolLength ==
    ASSUME NEW tools \in ToolCalls
    PROVE  Len(tools \o Node(<<"reply">>)) \in 0..8
<1>1. tools \in Seq(Middle) /\ Len(tools) \in 1..2
  <2>1. tools \in Seq(Middle)
    BY MiddleWords, OneWord, TwoWords DEF ToolCalls
  <2>2. Len(tools) \in 1..2
    BY DEF ToolCalls
  <2> QED BY <2>1, <2>2
<1>2. Node(<<"reply">>) \in Seq(Middle) /\ Len(Node(<<"reply">>)) = 5
  BY NodeLength DEF Replies
<1> HIDE DEF Node, ToolCalls
<1>3. Len(tools \o Node(<<"reply">>)) = Len(tools) + Len(Node(<<"reply">>))
  BY <1>1, <1>2, MiddleAdds
<1>4. PICK n \in 1..2 : n = Len(tools)
  BY <1>1
<1>5. Len(tools \o Node(<<"reply">>)) = n + 5
  BY <1>2, <1>3, <1>4
<1> QED BY <1>5

LEMMA ClosingLength ==
    ASSUME NEW status \in Terminal, NEW before \in {<<>>, <<"quality_gate_evaluated">>}
    PROVE  Len(before \o <<"close", Verdict(status)>>) \in 0..3
<1>1. Verdict(status) \in Verdicts
  BY DEF Verdict, Verdicts
<1>2. PICK v \in Verdicts : v = Verdict(status)
  BY <1>1
<1>3. Len(<<"close", v>>) = 2 /\ Len(<<"quality_gate_evaluated", "close", v>>) = 3
  OBVIOUS
<1>4. before \o <<"close", v>> \in {<<"close", v>>, <<"quality_gate_evaluated", "close", v>>}
  BY ClosingIs
<1> QED BY <1>2, <1>3, <1>4

\* run() is a stage further.
LEMMA StageGoesOn ==
    ASSUME SessionInv, SessionRest, SessionInv', UNCHANGED <<run, nodes>>,
           \A x \in Writers \ {MainThread} :
               pending'[x] = pending[x] /\ step'[x] = step[x] /\ act'[x] = act[x],
           step'[MainThread] = "ready", NEW n \in Nat, Len(pending'[MainThread]) = n,
           NEW p \in Nat, NEW q \in Nat, StagesLeft[phase] = p, StagesLeft[phase'] = q,
           3 * n + q < p
    PROVE  WorkRunsDown
<1>1. MainThread \in Writers
  BY WritersAre
<1>2. \A x \in Writers \ {MainThread} : WorkLeft(x)' = WorkLeft(x)
  BY DEF WorkLeft, WritesLeft, EndLeft
<1>3. WritesLeft(MainThread)' = 3 * n
  BY CountsAre DEF WritesLeft
<1>4. EndLeft(MainThread) = p /\ EndLeft(MainThread)' = q
  BY DEF EndLeft
<1>5. PICK k \in Nat, l \in Nat :
         k = 25 * (run.nodes - nodes[MainThread]) /\ l = WritesLeft(MainThread)
  BY <1>1, WorkCounts, WritesCount
<1>6. WorkLeft(MainThread) = k + l + p
  BY <1>4, <1>5 DEF WorkLeft
<1>7. WorkLeft(MainThread)' = k + 3 * n + q
  BY <1>3, <1>4, <1>5 DEF WorkLeft
<1> QED BY <1>1, <1>2, <1>6, <1>7, OneFalls

LEMMA ClosingFalls ==
    ASSUME SessionInv, SessionRest, Paced, SessionInv', UNCHANGED <<run, nodes, act>>,
           phase \in {"opening", "fanout", "nodes"},
           NEW status \in Terminal, NEW before \in {<<>>, <<"quality_gate_evaluated">>},
           Closing(status, before)
    PROVE  Paced' /\ WorkRunsDown
<1>1. PICK rest : rest = before \o <<"close", Verdict(status)>>
  OBVIOUS
<1>2. PICK n \in 0..3 : n = Len(rest)
  BY <1>1, ClosingLength
<1>3. /\ phase' = "closing" /\ pending' = [pending EXCEPT ![MainThread] = rest]
      /\ step' = [step EXCEPT ![MainThread] = "ready"]
  BY <1>1 DEF Closing
<1>4. /\ pending'[MainThread] = rest /\ step'[MainThread] = "ready"
      /\ \A x \in Writers \ {MainThread} : pending'[x] = pending[x] /\ step'[x] = step[x]
  BY <1>3, WritersAre DEF SessionInv, SessionTyped
<1>5. Fits(MainThread)'
  BY <1>4 DEF Fits
<1>6. Paced'
  BY <1>3, <1>4, <1>5, WritersAre, OthersFit DEF Paced
<1>7. PICK p \in 11..13 : p = StagesLeft[phase]
  BY CountsAre
<1>8. StagesLeft[phase'] = 1
  BY <1>3, CountsAre
<1>9. 3 * n + 1 < p
  OBVIOUS
<1>10. n \in Nat /\ p \in Nat
  OBVIOUS
<1> QED BY <1>2, <1>4, <1>6, <1>7, <1>8, <1>9, <1>10, StageGoesOn

LEMMA StartServiceFits ==
    ASSUME SessionInv, SessionRest, Paced, SessionInv', StartService
    PROVE  Paced' /\ WorkRunsDown
<1>1. /\ UNCHANGED <<run, nodes, step>> /\ phase = "new" /\ phase' = "opening"
      /\ act' = [act EXCEPT ![MainThread] = "busy"]
      /\ pending' = [pending EXCEPT ![MainThread] = Opening]
  BY DEF StartService
<1>2. /\ pending'[MainThread] = Opening /\ step'[MainThread] = "ready"
      /\ \A x \in Writers \ {MainThread} :
             pending'[x] = pending[x] /\ step'[x] = step[x] /\ act'[x] = act[x]
  BY <1>1, WritersAre DEF SessionInv, SessionTyped, Staged
<1>3. Fits(MainThread)'
  BY <1>2 DEF Fits
<1>4. Paced'
  BY <1>1, <1>2, <1>3, WritersAre, OthersFit DEF Paced
<1>5. PICK n \in 0..3 : n = Len(Opening)
  BY OpeningLength
<1>6. StagesLeft[phase] = 23 /\ StagesLeft[phase'] = 13
  BY <1>1, CountsAre
<1>7. 3 * n + 13 < 23 /\ n \in Nat
  OBVIOUS
<1> QED BY <1>1, <1>2, <1>4, <1>5, <1>6, <1>7, StageGoesOn

LEMMA JoinThreadsFits ==
    ASSUME SessionInv, SessionRest, Paced, SessionInv', JoinThreads
    PROVE  Paced' /\ WorkRunsDown
<1>1. UNCHANGED <<run, nodes, act>> /\ phase = "fanout" /\ "failed" \in Terminal
  BY DEF JoinThreads, Terminal, Failures
<1>2. CASE Closing("failed", <<>>)
  BY <1>1, <1>2, ClosingFalls
<1>3. CASE phase' = "nodes" /\ UNCHANGED <<pending, step>>
  <2>1. Paced'
    BY <1>1, <1>3 DEF Paced, Fits
  <2>2. pending'[MainThread] = <<>> /\ step'[MainThread] = "ready"
    BY <1>1, <1>3, WritersAre DEF SessionInv, SessionTyped, Staged
  <2>3. Len(pending'[MainThread]) = 0
    BY <2>2
  <2>4. StagesLeft[phase] = 12 /\ StagesLeft[phase'] = 11
    BY <1>1, <1>3, CountsAre
  <2> QED BY <1>1, <1>3, <2>1, <2>2, <2>3, <2>4, StageGoesOn
<1> QED BY <1>2, <1>3 DEF JoinThreads

LEMMA FinishRunFits ==
    ASSUME SessionInv, SessionRest, Paced, SessionInv', FinishRun
    PROVE  Paced' /\ WorkRunsDown
<1>1. UNCHANGED <<run, nodes, act>> /\ phase = "nodes"
  BY DEF FinishRun
<1> QED BY <1>1, ClosingFalls DEF FinishRun

LEMMA EndRunFits ==
    ASSUME SessionInv, SessionRest, Paced, SessionInv', EndRun
    PROVE  Paced' /\ WorkRunsDown
<1>1. /\ UNCHANGED <<run, nodes, pending, step>> /\ phase = "closing" /\ phase' = "done"
      /\ act' = [act EXCEPT ![MainThread] = "ended"] /\ pending[MainThread] = <<>>
  BY DEF EndRun, progress
<1>2. /\ step'[MainThread] = "ready"
      /\ \A x \in Writers \ {MainThread} : act'[x] = act[x]
  BY <1>1, WritersAre DEF SessionInv, SessionTyped, Staged
<1>3. Paced'
  BY <1>1 DEF Paced, Fits
<1>4. Len(pending'[MainThread]) = 0
  BY <1>1
<1>5. StagesLeft[phase] = 1 /\ StagesLeft[phase'] = 0
  BY <1>1, CountsAre
<1> QED BY <1>1, <1>2, <1>3, <1>4, <1>5, StageGoesOn

LEMMA StartRunFits ==
    ASSUME SessionInv, SessionRest, Paced, SessionInv', StartRun
    PROVE  Paced' /\ WorkRunsDown
<1>1. /\ UNCHANGED <<run, step>> /\ phase = "opening" /\ pending[MainThread] = <<>>
      /\ phase' \in {"fanout", "nodes"}
      /\ act' = [w \in Writers |-> IF w \in run.threads THEN "busy" ELSE act[w]]
      /\ pending' = [w \in Writers |-> IF w \in run.threads THEN Node(<<"reply">>) ELSE <<>>]
      /\ nodes' = [w \in Writers |-> IF w \in run.threads THEN 1 ELSE 0]
  BY DEF StartRun
<1>2. /\ \A w \in Writers : nodes[w] = 0 /\ step[w] = "ready"
      /\ \A w \in Writers \ {MainThread} : act[w] # "busy"
  BY <1>1, WritersAre DEF Paced, SessionInv, Staged
<1>3. Node(<<"reply">>) \in Seq(Middle) /\ Len(Node(<<"reply">>)) = 5
  BY NodeLength DEF Replies
<1>4. Paced'
  <2>1. <<>> \in Seq(Middle)
    OBVIOUS
  <2>2. \A w \in Writers : pending'[w] \in Seq(Middle) /\ step'[w] = "ready"
    BY <1>1, <1>2, <1>3, <2>1
  <2> QED BY <1>1, <2>2 DEF Paced, Fits
<1>5. PICK N \in Nat : N = run.nodes /\ (run.threads # {} => N > 0)
  BY RunIs
<1>6. \A w \in Writers : WorkLeft(w) = 25 * N + WritesLeft(w) + EndLeft(w)
  <2>1. \A w \in Writers : 25 * (run.nodes - nodes[w]) = 25 * N
    BY <1>2, <1>5
  <2> QED BY <2>1 DEF WorkLeft
<1>7. ASSUME NEW w \in run.threads
      PROVE  WorkLeft(w)' < WorkLeft(w)
  <2>1. w \in Writers \ {MainThread}
    BY RunIs, WritersAre
  <2>2. /\ act'[w] = "busy" /\ nodes'[w] = 1 /\ step'[w] = "ready"
        /\ pending'[w] = Node(<<"reply">>)
    BY <1>1, <1>2, <2>1
  <2>3. WritesLeft(w)' = 15
    <3>1. Len(pending'[w]) = 5 /\ Passed[step'[w]] = 0
      BY <1>3, <2>2, CountsAre
    <3> QED BY <3>1 DEF WritesLeft
  <2>4. EndLeft(w)' = 1 /\ 25 * (run'.nodes - nodes'[w]) = 25 * (N - 1)
    BY <1>1, <1>5, <2>1, <2>2 DEF EndLeft
  <2>5. WorkLeft(w)' = 25 * (N - 1) + 15 + 1
    BY <2>3, <2>4 DEF WorkLeft
  <2>6. PICK l \in Nat, e \in Nat : l = WritesLeft(w) /\ e = EndLeft(w)
    BY <2>1, WritesCount, EndsCount
  <2>7. WorkLeft(w) = 25 * N + l + e
    BY <1>6, <2>1, <2>6
  <2> QED BY <2>5, <2>7
<1>8. ASSUME NEW w \in Writers, w \notin run.threads
      PROVE  /\ WorkLeft(w)' <= WorkLeft(w)
             /\ w = MainThread => WorkLeft(w)' < WorkLeft(w)
  <2>1. act'[w] = act[w] /\ nodes'[w] = 0 /\ step'[w] = "ready" /\ pending'[w] = <<>>
    BY <1>1, <1>2, <1>8
  <2>2. WritesLeft(w)' = 0
    <3>1. Len(<<>>) = 0
      OBVIOUS
    <3> QED BY <2>1, <3>1, CountsAre DEF WritesLeft
  <2>3. 25 * (run'.nodes - nodes'[w]) = 25 * N
    BY <1>1, <1>5, <2>1
  <2>4. PICK l \in Nat, e \in Nat : l = WritesLeft(w) /\ e = EndLeft(w)
    BY WritesCount, EndsCount
  <2>5. WorkLeft(w) = 25 * N + l + e
    BY <1>6, <2>4
  <2>6. CASE w = MainThread
    <3>1. e = 13
      BY <1>1, <2>4, <2>6, CountsAre, EndsCount
    <3>2. EndLeft(w)' \in 11..12
      BY <1>1, <2>6, CountsAre DEF EndLeft
    <3>3. WorkLeft(w)' = 25 * N + 0 + EndLeft(w)'
      BY <2>2, <2>3 DEF WorkLeft
    <3> QED BY <2>5, <3>1, <3>2, <3>3
  <2>7. CASE w # MainThread
    <3>1. EndLeft(w)' = e
      BY <2>1, <2>4, <2>7 DEF EndLeft
    <3>2. WorkLeft(w)' = 25 * N + 0 + e
      BY <2>2, <2>3, <3>1 DEF WorkLeft
    <3> QED BY <2>5, <2>7, <3>2
  <2> QED BY <2>6, <2>7
<1>9. MainThread \in Writers /\ MainThread \notin run.threads
  BY RunIs, WritersAre
<1>10. \A w \in Writers : WorkLeft(w)' <= WorkLeft(w)
  <2>1. ASSUME NEW w \in run.threads, w \in Writers
        PROVE  WorkLeft(w)' <= WorkLeft(w)
    <3>1. WorkLeft(w)' < WorkLeft(w)
      BY <1>7
    <3>2. WorkLeft(w) \in Int
      BY <2>1, WorkCounts
    <3>3. WorkLeft(w)' \in Int
      <4>1. Len(pending'[w]) = 5 /\ step'[w] = "ready" /\ act'[w] = "busy" /\ nodes'[w] = 1
        BY <1>1, <1>2, <1>3, <2>1
      <4>2. EndLeft(w)' \in Int
        BY <1>1, <4>1, CountsAre DEF EndLeft
      <4>3. run'.nodes \in Int
        BY <1>1, <1>5
      <4> QED BY <4>1, <4>2, <4>3, CountsAre DEF WorkLeft, WritesLeft
    <3> QED BY <3>1, <3>2, <3>3
  <2> QED BY <1>8, <2>1
<1> QED BY <1>4, <1>8, <1>9, <1>10 DEF WorkRunsDown

LEMMA ContinueFits ==
    ASSUME SessionInv, SessionRest, Paced, SessionInv', NEW w \in Writers, Continue(w)
    PROVE  Paced' /\ WorkRunsDown
<1>1. /\ UNCHANGED <<run, phase, act, step>> /\ act[w] = "busy" /\ pending[w] = <<>>
      /\ w = MainThread => phase = "nodes"
      /\ nodes[w] < run.nodes /\ nodes' = [nodes EXCEPT ![w] = @ + 1]
  BY DEF Continue, InNodes
<1>2. PICK rest \in Seq(Middle) : /\ pending' = [pending EXCEPT ![w] = rest]
                                  /\ Len(rest) \in 0..8
  <2>1. CASE \E tools \in ToolCalls : pending' = [pending EXCEPT ![w] = tools \o Node(<<"reply">>)]
    <3>1. PICK tools \in ToolCalls : pending' = [pending EXCEPT ![w] = tools \o Node(<<"reply">>)]
      BY <2>1
    <3>2. Node(<<"reply">>) \in Seq(Middle)
      BY NodePhrase DEF Replies
    <3>3. tools \o Node(<<"reply">>) \in Seq(Middle)
      BY <3>2, ToolPhrase
    <3>4. Len(tools \o Node(<<"reply">>)) \in 0..8
      BY ToolLength
    <3> QED BY <3>1, <3>3, <3>4
  <2>2. CASE \E replies \in Replies : pending' = [pending EXCEPT ![w] = Node(replies)]
    BY <2>2, NodeLength
  <2> QED BY <2>1, <2>2 DEF Continue
<1>3. /\ pending'[w] = rest /\ step[w] = "ready" /\ step' = step
      /\ \A x \in Writers \ {w} : pending'[x] = pending[x]
  BY <1>1, <1>2 DEF SessionInv, SessionTyped, Staged
<1>4. /\ nodes'[w] = nodes[w] + 1 /\ nodes[w] \in Nat
      /\ \A x \in Writers \ {w} : nodes'[x] = nodes[x]
  BY <1>1 DEF SessionRest, Ranged
<1>5. Paced'
  <2>1. Fits(w)'
    BY <1>3 DEF Fits
  <2>2. \A x \in Writers : Fits(x)'
    BY <1>3, <2>1, OthersFit
  <2>3. phase' \notin {"new", "opening"}
    BY <1>1, WritersAre DEF SessionInv, Staged
  <2> QED BY <2>2, <2>3 DEF Paced
<1>6. \A x \in Writers \ {w} : WorkLeft(x)' = WorkLeft(x)
  BY <1>1, <1>3, <1>4 DEF WorkLeft, WritesLeft, EndLeft
<1>7. PICK n \in 0..8 : n = Len(rest)
  BY <1>2
<1>8. PICK N \in Nat, k \in Nat, e \in Nat :
         N = run.nodes /\ k = nodes[w] /\ e = EndLeft(w)
  BY <1>4, RunIs, EndsCount
<1>9. WorkLeft(w) = 25 * (N - k) + 0 + e
  <2>1. WritesLeft(w) = 0
    BY <1>1, WritesCount
  <2> QED BY <1>8, <2>1 DEF WorkLeft
<1>10. WorkLeft(w)' = 25 * (N - (k + 1)) + 3 * n + e
  <2>1. WritesLeft(w)' = 3 * n
    BY <1>3, <1>7, CountsAre DEF WritesLeft
  <2>2. EndLeft(w)' = e
    BY <1>1, <1>8 DEF EndLeft
  <2>3. 25 * (run'.nodes - nodes'[w]) = 25 * (N - (k + 1))
    BY <1>1, <1>4, <1>8
  <2> QED BY <2>1, <2>2, <2>3 DEF WorkLeft
<1> QED BY <1>5, <1>6, <1>9, <1>10, OneFalls

\* A thread that returns or raises.
LEMMA ThreadEnds ==
    ASSUME SessionInv, SessionRest, Paced, SessionInv', NEW w \in Writers, w # MainThread,
           act[w] = "busy", act'[w] # "busy", UNCHANGED <<run, phase, nodes>>,
           pending'[w] = <<>>, step'[w] = "ready",
           \A x \in Writers \ {w} :
               pending'[x] = pending[x] /\ step'[x] = step[x] /\ act'[x] = act[x]
    PROVE  Paced' /\ WorkRunsDown
<1>1. Fits(w)'
  <2>1. <<>> \in Seq(Middle)
    OBVIOUS
  <2> QED BY <2>1 DEF Fits
<1>2. Paced'
  BY <1>1, OthersFit DEF Paced
<1>3. \A x \in Writers \ {w} : WorkLeft(x)' = WorkLeft(x)
  BY DEF WorkLeft, WritesLeft, EndLeft
<1>4. EndLeft(w) = 1 /\ EndLeft(w)' = 0
  BY EndsCount DEF EndLeft
<1>5. WritesLeft(w)' = 0
  <2>1. Len(<<>>) = 0
    OBVIOUS
  <2> QED BY <2>1, CountsAre DEF WritesLeft
<1>6. PICK k \in Nat, l \in Nat : k = 25 * (run.nodes - nodes[w]) /\ l = WritesLeft(w)
  BY WorkCounts, WritesCount
<1>7. WorkLeft(w) = k + l + 1
  BY <1>4, <1>6 DEF WorkLeft
<1>8. WorkLeft(w)' = k + 0 + 0
  BY <1>4, <1>5, <1>6 DEF WorkLeft
<1> QED BY <1>2, <1>3, <1>7, <1>8, OneFalls

LEMMA EndAnalystFits ==
    ASSUME SessionInv, SessionRest, Paced, SessionInv', NEW a \in AnalystThreads, EndAnalyst(a)
    PROVE  Paced' /\ WorkRunsDown
<1>1. /\ UNCHANGED <<run, phase, nodes, pending, step>> /\ act[a] = "busy" /\ pending[a] = <<>>
      /\ act' = [act EXCEPT ![a] = "ended"]
  BY DEF EndAnalyst, InNodes
<1>2. a \in Writers /\ a # MainThread
  BY WritersAre
<1>3. step[a] = "ready" /\ act'[a] = "ended" /\ \A x \in Writers \ {a} : act'[x] = act[x]
  BY <1>1, <1>2 DEF SessionInv, SessionTyped, Staged
<1> QED BY <1>1, <1>2, <1>3, ThreadEnds

LEMMA AbandonFits ==
    ASSUME SessionInv, SessionRest, Paced, SessionInv', NEW w \in Writers, act[w] = "busy",
           w = MainThread => phase \in {"opening", "nodes"},
           UNCHANGED <<run, nodes>>, Abandon(w)
    PROVE  Paced' /\ WorkRunsDown
<1>1. CASE w = MainThread
  <2>1. Closing("failed", <<>>) /\ UNCHANGED act /\ "failed" \in Terminal
    BY <1>1 DEF Abandon, Terminal, Failures
  <2> QED BY <1>1, <2>1, ClosingFalls
<1>2. CASE w # MainThread
  <2>1. /\ act' = [act EXCEPT ![w] = "raised"] /\ pending' = [pending EXCEPT ![w] = <<>>]
        /\ step' = [step EXCEPT ![w] = "ready"] /\ UNCHANGED phase
    BY <1>2 DEF Abandon
  <2>2. /\ act'[w] = "raised" /\ pending'[w] = <<>> /\ step'[w] = "ready"
        /\ \A x \in Writers \ {w} :
               pending'[x] = pending[x] /\ step'[x] = step[x] /\ act'[x] = act[x]
    BY <2>1 DEF SessionInv, SessionTyped
  <2> QED BY <1>2, <2>1, <2>2, ThreadEnds
<1> QED BY <1>1, <1>2

LEMMA NodeRaisesFits ==
    ASSUME SessionInv, SessionRest, Paced, SessionInv', NEW w \in Writers, NodeRaises(w)
    PROVE  Paced' /\ WorkRunsDown
<1>1. act[w] = "busy" /\ UNCHANGED <<run, nodes>> /\ Abandon(w)
  BY DEF NodeRaises
<1>2. w = MainThread => phase \in {"opening", "nodes"}
  <2>1. CASE pending[w] # <<>> /\ Head(pending[w]) \in {"open", "reply"}
    <3>1. LastKind \notin {"open", "reply"}
      BY LastKindIs DEF Verdicts
    <3> QED BY <1>1, <2>1, <3>1, AtWork
  <2>2. CASE w = MainThread /\ phase \in {"opening", "nodes"} /\ pending[w] = <<>>
    BY <2>2
  <2> QED BY <2>1, <2>2 DEF NodeRaises
<1> QED BY <1>1, <1>2, AbandonFits

LEMMA FaultFits ==
    ASSUME SessionInv, SessionRest, Paced, SessionInv', NEW w \in Writers, Fault(w)
    PROVE  Paced' /\ WorkRunsDown
<1>1. act[w] = "busy" /\ pending[w] # <<>> /\ UNCHANGED <<run, nodes>>
  BY DEF Fault
<1>2. CASE Head(pending[w]) \in Uncaught
  <2>1. Head(pending[w]) \notin {"quality_gate_evaluated", "close", LastKind}
    BY <1>2, LastKindIs DEF Uncaught, NodeOps, ToolOps, Verdicts
  <2>2. w = MainThread => phase \in {"opening", "nodes"}
    BY <1>1, <2>1, AtWork
  <2>3. Abandon(w)
    BY <1>2 DEF Fault
  <2> QED BY <1>1, <2>2, <2>3, AbandonFits
<1>3. CASE Head(pending[w]) \notin Uncaught
  <2>1. /\ pending' = [pending EXCEPT ![w] = Rest(w)] /\ step' = [step EXCEPT ![w] = "ready"]
        /\ UNCHANGED <<act, phase>>
    BY <1>3 DEF Fault
  <2>2. Rest(w) \in {<<>>, Tail(pending[w])}
    BY DEF Rest
  <2> QED BY <1>1, <2>1, <2>2, RestFalls
<1> QED BY <1>2, <1>3

\* The clock, a reader and a step of somebody else.
LEMMA TickFits ==
    ASSUME SessionInv, SessionRest, Paced, SessionInv',
           Tick \/ ReadSession \/ ReadCheckpoint \/ ReadEvents \/ UNCHANGED sessionVars
    PROVE  Paced' /\ (\A w \in Writers : WorkLeft(w)' <= WorkLeft(w))
           /\ (~ UNCHANGED sessionVars => ~ UNCHANGED <<second, reading>>)
<1>1. UNCHANGED <<run, phase, act, nodes, pending, step>>
  BY DEF Tick, ReadSession, ReadCheckpoint, ReadEvents, sessionVars, control, progress
<1>2. Paced'
  BY <1>1 DEF Paced, Fits
<1>3. \A w \in Writers : WorkLeft(w)' = WorkLeft(w)
  BY <1>1 DEF WorkLeft, WritesLeft, EndLeft
<1>4. \A w \in Writers : WorkLeft(w) \in Nat
  BY WorkCounts
<1>5. ~ UNCHANGED sessionVars => ~ UNCHANGED <<second, reading>>
  <2>1. second \in Nat /\ reading \in Nat
    BY DEF SessionInv, SessionTyped
  <2>2. CASE Tick
    BY <2>1, <2>2 DEF Tick
  <2>3. CASE ReadSession \/ ReadCheckpoint \/ ReadEvents
    BY <2>1, <2>3 DEF ReadSession, ReadCheckpoint, ReadEvents, Reads
  <2> QED BY <2>2, <2>3
<1> QED BY <1>2, <1>3, <1>4, <1>5

LEMMA PacedStep ==
    ASSUME SessionInv, SessionRest, Paced, SessionInv', [SessionNext]_sessionVars
    PROVE  Paced' /\ (UNCHANGED sessionVars \/ WorkRunsDown)
<1>1. CASE Tick \/ ReadSession \/ ReadCheckpoint \/ ReadEvents \/ UNCHANGED sessionVars
  BY <1>1, TickFits DEF WorkRunsDown
<1>2. ASSUME NEW w \in Writers, Write(w) \/ Continue(w) \/ NodeRaises(w) \/ Fault(w)
      PROVE  Paced' /\ WorkRunsDown
  BY <1>2, WritesFit, ContinueFits, NodeRaisesFits, FaultFits
<1>3. CASE Open \/ Close
  BY <1>3, OpenCloseFit
<1>4. CASE StartService \/ StartRun \/ JoinThreads \/ FinishRun \/ EndRun
  BY <1>4, StartServiceFits, StartRunFits, JoinThreadsFits, FinishRunFits, EndRunFits
<1>5. ASSUME NEW a \in AnalystThreads, EndAnalyst(a)
      PROVE  Paced' /\ WorkRunsDown
  BY <1>5, EndAnalystFits
<1> QED BY <1>1, <1>2, <1>3, <1>4, <1>5 DEF SessionNext

LEMMA PacedStarts == SessionInit => Paced
<1> SUFFICES ASSUME SessionInit PROVE Paced
  OBVIOUS
<1>1. \A w \in Writers : step[w] = "ready" /\ pending[w] = <<>> /\ nodes[w] = 0
  BY DEF SessionInit
<1>2. <<>> \in Seq(Middle)
  OBVIOUS
<1> QED BY <1>1, <1>2 DEF Paced, Fits

LEMMA StuckNowhere ==
    ASSUME SessionInv, Paced
    PROVE  NeverStuck
<1>1. ASSUME NEW w \in Writers, act[w] = "busy", pending[w] # <<>>
      PROVE  CanWrite(w)
  <2>1. Head(pending[w]) \in Ops /\ step[w] \in {"ready", "numbered", "stored"}
    BY <1>1, AtWork DEF SessionInv, SessionTyped
  <2>2. CASE Head(pending[w]) \in Kinds
    BY <1>1, <2>2 DEF CanWrite
  <2>3. CASE Head(pending[w]) \notin Kinds
    <3>1. /\ step[w] # "numbered"
          /\ step[w] = "stored" => Head(pending[w]) = "checkpoint"
          /\ Head(pending[w]) \in {"open", "close", "reply", "checkpoint"}
      BY <2>1, <2>3 DEF Paced, Fits, Ops
    <3>2. Head(pending[w]) \in {"open", "close"} => w = MainThread
      <4>1. w # MainThread => Head(pending[w]) \in Middle
        BY <1>1, HeadTailProperties DEF Paced, Fits
      <4> QED BY <4>1 DEF Middle, Ordinary
    <3>3. step[w] = "ready" \/ step[w] = "stored"
      BY <2>1, <3>1
    <3> QED BY <1>1, <3>1, <3>2, <3>3, Zenon DEF CanWrite
  <2> QED BY <2>2, <2>3
<1>2. CASE phase \in {"opening", "nodes", "closing"}
  <2>1. act[MainThread] = "busy" /\ MainThread \in Writers
    BY <1>2, WritersAre DEF SessionInv, Staged
  <2> QED BY <1>1, <1>2, <2>1 DEF NeverStuck, CanGoOn
<1>3. CASE phase = "fanout"
  <2>1. CASE Joined
    BY <1>3, <2>1 DEF NeverStuck, CanGoOn
  <2>2. CASE ~ Joined
    <3>1. PICK a \in AnalystThreads : act[a] = "busy"
      BY <2>2 DEF Joined
    <3>2. a \in Writers /\ a # MainThread
      BY WritersAre
    <3> QED BY <1>1, <3>1, <3>2 DEF NeverStuck, CanGoOn, InNodes
  <2> QED BY <2>1, <2>2
<1> QED BY <1>2, <1>3 DEF NeverStuck, SessionInv, SessionTyped

\* A session of finitely many threads takes a bounded number of steps besides the
\* clock's and a reader's, whatever raises and however the threads interleave:
\* what each writer still has to do is a natural number, no step adds to it, and
\* every one takes from what some writer has (append_event_sync,
\* save_checkpoint_sync, agentscope_runner.py).
THEOREM SessionRunsOut ==
    SessionSpec => /\ [](\A w \in Writers : WorkLeft(w) \in Nat)
                   /\ [][WorkRunsDown]_sessionVars
<1>1. SessionInv /\ SessionRest => \A w \in Writers : WorkLeft(w) \in Nat
  BY WorkCounts
<1>2. SessionInv /\ SessionRest /\ Paced /\ SessionInv' /\ [SessionNext]_sessionVars
        => Paced' /\ [WorkRunsDown]_sessionVars
  BY PacedStep
<1> QED BY <1>1, <1>2, PacedStarts, SessionRestHolds, PTL DEF SessionSpec

\* A session that was begun and has not ended has a writer whose next call can be
\* made, or a guard of the run that holds: the join waits for nobody who does
\* not write, and a call that raised leaves no write half done behind.
THEOREM SessionGoesOn == SessionSpec => []NeverStuck
<1>1. SessionInv /\ Paced => NeverStuck
  BY StuckNowhere
<1>2. SessionInv /\ SessionRest /\ Paced /\ SessionInv' /\ [SessionNext]_sessionVars => Paced'
  BY PacedStep
<1> QED BY <1>1, <1>2, PacedStarts, SessionRestHolds, PTL DEF SessionSpec
-----------------------------------------------------------------------------
\* What a session that has ended leaves.

\* A closing that is written, but for the number of its verdict in the summary,
\* has a verdict in the store, unless a Mongo call raised.
Spoken == \E e \in events : IsVerdict(e)
Written == \/ pending[MainThread] = <<>>
           \/ pending[MainThread] = <<LastKind>> /\ step[MainThread] = "stored"
Closed == mongoErrors = 0 /\ phase \in {"closing", "done"} /\ Written => Spoken

\* What SessionEnds says of a session that has ended.
EndsWhole ==
    phase = "done" /\ mongoErrors = 0 =>
        summary.status \in Terminal /\ \E e \in events : IsVerdict(e)

LEMMA ClosedAsBefore ==
    ASSUME Closed, UNCHANGED <<events, mongoErrors, pending, step, verdict>>,
           phase' = phase \/ phase' \notin {"closing", "done"} \/ phase = "closing"
    PROVE  Closed'
BY DEF Closed, Written, LastKind, Spoken, IsVerdict

\* A write of run() while it closes.
LEMMA WriteCloses ==
    ASSUME SessionInv, Closed, NEW w \in Writers, Write(w) \/ (w = MainThread /\ (Open \/ Close))
    PROVE  Closed'
<1>1. act[w] = "busy" /\ pending[w] # <<>> /\ UNCHANGED <<phase, verdict, mongoErrors>>
  BY DEF Write, Number, InsertEvent, Publish, Reply, SaveCheckpoint, NameCheckpoint, Open, Close,
         At, control, bounds
<1>2. CASE phase # "closing"
  <2>1. phase' \notin {"closing", "done"}
    BY <1>1, <1>2, AtWork
  <2> QED BY <2>1 DEF Closed
<1>3. CASE phase = "closing"
  <2>1. /\ w = MainThread /\ LastKind' = LastKind
        /\ \/ Head(pending[w]) = "quality_gate_evaluated"
              /\ Tail(pending[w]) \notin {<<>>, <<LastKind>>} /\ pending[w] # <<LastKind>>
           \/ Head(pending[w]) = "close" /\ pending[w] # <<LastKind>>
              /\ Tail(pending[w]) = <<LastKind>>
           \/ Head(pending[w]) = LastKind /\ Tail(pending[w]) = <<>> /\ pending[w] = <<LastKind>>
    <3>1. LastKind \notin {"quality_gate_evaluated", "close"}
      BY LastKindIs DEF Verdicts
    <3>2. Head(<<LastKind>>) = LastKind
      OBVIOUS
    <3> QED BY <1>1, <1>3, <3>1, <3>2, AtWork DEF LastKind
  <2>2. LastKind \notin {"open", "close", "reply", "checkpoint", "quality_gate_evaluated"}
        /\ LastKind \in Verdicts
    BY LastKindIs DEF Verdicts
  <2>3. CASE Number(w)
    <3>1. pending' = pending /\ step'[w] = "numbered"
      BY <2>3 DEF Number, SessionInv, SessionTyped
    <3> QED BY <1>1, <2>1, <3>1 DEF Closed, Written
  <2>4. CASE InsertEvent(w)
    <3>1. pending' = pending
          /\ events' = events \cup {[seq |-> held[w], kind |-> Head(pending[w])]}
      BY <2>4 DEF InsertEvent
    <3>2. CASE Head(pending[w]) = LastKind
      <4>1. [seq |-> held[w], kind |-> LastKind] \in events'
        BY <3>1, <3>2
      <4> QED BY <2>2, <4>1 DEF Closed, Spoken, IsVerdict
    <3>3. CASE Head(pending[w]) # LastKind
      BY <1>1, <2>1, <3>1, <3>3 DEF Closed, Written
    <3> QED BY <3>2, <3>3
  <2>5. CASE Publish(w)
    <3>1. /\ events' = events /\ step[w] = "stored" /\ Head(pending[w]) \in Kinds
          /\ pending'[w] = Tail(pending[w])
      BY <2>5 DEF Publish, At, Done, SessionInv, SessionTyped
    <3>2. CASE Head(pending[w]) = LastKind
      <4>1. mongoErrors = 0 => Spoken
        BY <1>3, <2>1, <2>2, <3>1, <3>2 DEF Closed, Written
      <4> QED BY <1>1, <3>1, <4>1 DEF Closed, Spoken, IsVerdict
    <3>3. CASE Head(pending[w]) # LastKind
      <4>1. Head(pending[w]) # "close"
        BY <3>1 DEF Kinds, NodeOps, ToolOps, Verdicts
      <4> QED BY <2>1, <3>1, <3>3, <4>1 DEF Closed, Written
    <3> QED BY <3>2, <3>3
  <2>6. CASE Reply(w) \/ SaveCheckpoint(w) \/ NameCheckpoint(w) \/ Open
    <3>1. Head(pending[w]) \in {"reply", "checkpoint", "open"}
      BY <2>1, <2>6 DEF Reply, SaveCheckpoint, NameCheckpoint, Open
    <3> QED BY <2>1, <2>2, <3>1
  <2>7. CASE Close
    <3>1. pending'[w] = Tail(pending[w]) /\ step'[w] = "ready" /\ Head(pending[w]) = "close"
      BY <2>1, <2>7 DEF Close, Done, SessionInv, SessionTyped
    <3>2. pending'[w] = <<LastKind>> /\ <<LastKind>> # <<>>
      BY <2>1, <2>2, <3>1
    <3> QED BY <2>1, <3>1, <3>2 DEF Closed, Written
  <2> QED BY <2>3, <2>4, <2>5, <2>6, <2>7 DEF Write
<1> QED BY <1>2, <1>3

LEMMA ClosingOpens ==
    ASSUME SessionInv, NEW status \in Terminal,
           NEW before \in {<<>>, <<"quality_gate_evaluated">>}, Closing(status, before)
    PROVE  Closed'
<1>1. Verdict(status) \in Verdicts /\ LastKind' = Verdict(status)
  BY DEF Verdict, Verdicts, LastKind, Closing
<1>2. PICK rest : rest = before \o <<"close", Verdict(status)>>
  OBVIOUS
<1>3. rest # <<>> /\ rest # <<Verdict(status)>>
  BY <1>1, <1>2, ClosingIs
<1>4. pending'[MainThread] = rest
  BY <1>2, WritersAre DEF Closing, SessionInv, SessionTyped
<1> QED BY <1>1, <1>3, <1>4 DEF Closed, Written

LEMMA RunCloses ==
    ASSUME SessionInv, Closed,
           StartService \/ StartRun \/ JoinThreads \/ FinishRun \/ EndRun
    PROVE  Closed'
<1>1. CASE StartService \/ StartRun
  BY <1>1 DEF StartService, StartRun, Closed
<1>2. CASE JoinThreads
  <2>1. "failed" \in Terminal
    BY DEF Terminal, Failures
  <2>2. CASE Closing("failed", <<>>)
    BY <2>1, <2>2, ClosingOpens
  <2> QED BY <1>2, <2>2 DEF JoinThreads, Closed
<1>3. CASE FinishRun
  BY <1>3, ClosingOpens DEF FinishRun
<1>4. CASE EndRun
  BY <1>4, ClosedAsBefore DEF EndRun, store, bounds, progress
<1> QED BY <1>1, <1>2, <1>3, <1>4

LEMMA AbandonCloses ==
    ASSUME SessionInv, Closed, NEW w \in Writers, act[w] = "busy", NodeRaises(w)
    PROVE  Closed'
<1>1. CASE w = MainThread
  <2>1. Closing("failed", <<>>) /\ "failed" \in Terminal
    BY <1>1 DEF NodeRaises, Abandon, Terminal, Failures
  <2> QED BY <2>1, ClosingOpens
<1>2. CASE w # MainThread
  <2>1. phase = "fanout"
    BY <1>2, WritersAre DEF SessionInv, Staged
  <2> QED BY <1>2, <2>1 DEF NodeRaises, Abandon, Closed
<1> QED BY <1>1, <1>2

LEMMA ClosedStep ==
    ASSUME SessionInv, Closed, [SessionNext]_sessionVars
    PROVE  Closed'
<1>1. CASE Tick \/ ReadSession \/ ReadCheckpoint \/ ReadEvents \/ UNCHANGED sessionVars
  BY <1>1, ClosedAsBefore
  DEF Tick, ReadSession, ReadCheckpoint, ReadEvents, sessionVars, store, control, progress, bounds
<1>2. ASSUME NEW w \in Writers, Write(w)
      PROVE  Closed'
  BY <1>2, WriteCloses
<1>3. CASE Open \/ Close
  BY <1>3, WritersAre, WriteCloses
<1>4. CASE StartService \/ StartRun \/ JoinThreads \/ FinishRun \/ EndRun
  BY <1>4, RunCloses
<1>5. ASSUME NEW w \in Writers, Continue(w) \/ (w # MainThread /\ EndAnalyst(w))
      PROVE  Closed'
  <2>1. phase \in {"fanout", "nodes"} /\ phase' = phase
    BY <1>5, WritersAre DEF Continue, EndAnalyst, InNodes, SessionInv, Staged
  <2> QED BY <2>1 DEF Closed
<1>6. ASSUME NEW w \in Writers, NodeRaises(w)
      PROVE  Closed'
  <2>1. act[w] = "busy"
    BY <1>6 DEF NodeRaises
  <2> QED BY <1>6, <2>1, AbandonCloses
<1>7. ASSUME NEW w \in Writers, Fault(w)
      PROVE  Closed'
  <2>1. mongoErrors' # 0
    BY <1>7 DEF Fault, SessionInv, SessionTyped
  <2> QED BY <2>1 DEF Closed
<1> QED BY <1>1, <1>2, <1>3, <1>4, <1>5, <1>6, <1>7, WritersAre DEF SessionNext

\* A session whose run has returned, and for which no Mongo call raised, has a
\* final status in its summary and a verdict among its events: however a node or
\* a thread raised, the session is closed, and closed whole
\* (complete_session_sync).
THEOREM SessionEndsWhole == SessionSpec => []EndsWhole
<1>1. SessionInit => Closed
  BY DEF SessionInit, Closed
<1>2. SessionInv /\ Closed => EndsWhole
  <2>1. ASSUME SessionInv, Closed, phase = "done", mongoErrors = 0
        PROVE  Ended /\ Spoken
    <3>1. pending[MainThread] = <<>>
      BY <2>1, WritersAre DEF SessionInv, Staged
    <3>2. Spoken
      BY <2>1, <3>1 DEF Closed, Written
    <3> QED BY <2>1, <3>2 DEF SessionInv, VerdictsLast, LastWord, Spoken
  <2> QED BY <2>1 DEF EndsWhole, Ended, Spoken
<1> QED BY <1>1, <1>2, ClosedStep, SessionInvHolds, PTL DEF SessionSpec
=============================================================================
