----------------------------- MODULE RateLimiter -----------------------------
(***************************************************************************)
(* The sliding-window limiter in front of the data providers:              *)
(* RateLimiter.acquire (app/core/rate_limiter.py).                         *)
(*                                                                         *)
(* All callers share one event loop, so the code between two awaits is one *)
(* step.  acquire awaits twice: for the asyncio lock, whose waiters are    *)
(* served first come first served, and, holding the lock, for the sleep.   *)
(* A caller may be cancelled at either.  Times are whole ticks of a clock  *)
(* that never goes back; the 0.01 s added to a sleep is one tick.          *)
(*                                                                         *)
(* The statistics of the limiter are left out.                             *)
(***************************************************************************)
EXTENDS Naturals, Sequences

CONSTANTS
    Callers,
    MaxCalls,       \* max_calls
    TimeWindow,     \* time_window, in ticks
    MaxArrivals,    \* bound: permits asked for
    Horizon         \* bound: past it the clock moves only to the end of a sleep

ASSUME LimiterAssumption ==
    /\ MaxCalls \in Nat \ {0} /\ TimeWindow \in Nat \ {0}
    /\ MaxArrivals \in Nat /\ Horizon \in Nat

VARIABLES
    clock,          \* time.time()
    calls,          \* self.calls, the times of the latest permits
    place,          \* per caller: where it stands in acquire
    wakeAt,         \* per caller: the end of its sleep
    ticket,         \* per caller: its place among the waiters of self.lock, or 0
    arrivals,       \* permits asked for
    granted         \* history: the times of all permits

limiterVars == <<clock, calls, place, wakeAt, ticket, arrivals, granted>>

LimiterInit ==
    /\ clock = 0 /\ calls = <<>>
    /\ place = [c \in Callers |-> "outside"] /\ wakeAt = [c \in Callers |-> 0]
    /\ ticket = [c \in Callers |-> 0] /\ arrivals = 0 /\ granted = <<>>

-----------------------------------------------------------------------------
\* i is the first of the times s that the window ending at now still holds.
IsFirstLive(s, now, i) ==
    /\ \A j \in 1 .. Len(s) : j < i => s[j] + TimeWindow <= now
    /\ i \in 1 .. Len(s) => s[i] + TimeWindow > now

\* The loop that drops the times which have left the window.
Pruned(s, now) ==
    SubSeq(s, CHOOSE i \in 1 .. Len(s) + 1 : IsFirstLive(s, now, i), Len(s))

\* Mutant: a caller lets go of the lock while it sleeps.
LockFree_InSleep == TRUE

\* The lock is held across an await by a sleeper only.
LockFree == \A c \in Callers : place[c] # "sleeping"

NoWaiter == \A c \in Callers : ticket[c] = 0

FirstWaiter(c) == ticket[c] # 0 /\ \A d \in Callers : ticket[d] # 0 => ticket[c] <= ticket[d]

Permit(c, live) ==
    /\ calls' = Append(live, clock)
    /\ granted' = Append(granted, clock)
    /\ place' = [place EXCEPT ![c] = "outside"]
    /\ UNCHANGED wakeAt

\* The end of the sleep: the oldest permit has left the window, and 0.01 s more.
SleepEnd(oldest) == oldest + TimeWindow + 1

\* The body of acquire up to its end or its sleep.
Body(c) ==
    LET live == Pruned(calls, clock) IN
    IF Len(live) < MaxCalls
    THEN Permit(c, live)
    ELSE /\ calls' = live
         /\ wakeAt' = [wakeAt EXCEPT ![c] = SleepEnd(live[1])]
         /\ place' = [place EXCEPT ![c] = "sleeping"]
         /\ UNCHANGED granted

Acquire(c) ==
    /\ place[c] = "outside" /\ arrivals < MaxArrivals
    /\ arrivals' = arrivals + 1
    /\ \/ /\ LockFree /\ NoWaiter
          /\ Body(c)
          /\ UNCHANGED ticket
       \/ /\ ~ (LockFree /\ NoWaiter)
          /\ place' = [place EXCEPT ![c] = "waiting"]
          /\ ticket' = [ticket EXCEPT ![c] = arrivals']
          /\ UNCHANGED <<calls, wakeAt, granted>>
    /\ UNCHANGED clock

\* The first waiter gets the lock that was released.
Enter(c) ==
    /\ place[c] = "waiting" /\ FirstWaiter(c) /\ LockFree
    /\ ticket' = [ticket EXCEPT ![c] = 0]
    /\ Body(c)
    /\ UNCHANGED <<clock, arrivals>>

\* The sleep is over: prune again, and record without checking again.
Wake(c) ==
    /\ place[c] = "sleeping" /\ wakeAt[c] <= clock
    /\ Permit(c, Pruned(calls, clock))
    /\ UNCHANGED <<clock, ticket, arrivals>>

\* Mutant: a cancelled waiter keeps its place in the queue of the lock.
AbandonWait_Queued(c) ==
    /\ place[c] \in {"waiting", "sleeping"}
    /\ place' = [place EXCEPT ![c] = "outside"]
    /\ UNCHANGED <<clock, calls, wakeAt, ticket, arrivals, granted>>

\* The caller's task is cancelled in one of its two awaits.
AbandonWait(c) ==
    /\ place[c] \in {"waiting", "sleeping"}
    /\ place' = [place EXCEPT ![c] = "outside"]
    /\ ticket' = [ticket EXCEPT ![c] = 0]
    /\ UNCHANGED <<clock, calls, wakeAt, arrivals, granted>>

LimiterTick ==
    /\ clock < Horizon \/ \E c \in Callers : place[c] = "sleeping" /\ clock < wakeAt[c]
    /\ clock' = clock + 1
    /\ UNCHANGED <<calls, place, wakeAt, ticket, arrivals, granted>>

LimiterNext ==
    \/ \E c \in Callers : Acquire(c) \/ Enter(c) \/ Wake(c) \/ AbandonWait(c)
    \/ LimiterTick

\* The event loop resumes every ready caller, and time passes for a sleeper.
LimiterFairness ==
    /\ \A c \in Callers : WF_limiterVars(Enter(c)) /\ WF_limiterVars(Wake(c))
    /\ WF_limiterVars(LimiterTick /\ \E c \in Callers : place[c] = "sleeping")

LimiterSpec == LimiterInit /\ [][LimiterNext]_limiterVars
LimiterFairSpec == LimiterSpec /\ LimiterFairness

-----------------------------------------------------------------------------
\* Every variable stays in its domain, and the callers with a turn are those
\* that wait for the lock (acquire and its cancellation).
LimiterTypeOK ==
    /\ clock \in Nat /\ arrivals \in Nat
    /\ calls \in Seq(Nat) /\ granted \in Seq(Nat)
    /\ place \in [Callers -> {"outside", "waiting", "sleeping"}]
    /\ wakeAt \in [Callers -> Nat] /\ ticket \in [Callers -> Nat]
    /\ \A c \in Callers : ticket[c] # 0 <=> place[c] = "waiting"

\* No window of TimeWindow ever holds more than MaxCalls permits, however many
\* callers wait, sleep or are cancelled: the MaxCalls-th permit before any
\* permit is at least a window older (acquire records without a second check
\* after its sleep, and relies on the lock it holds meanwhile).
WindowRespected ==
    \A i \in 1 .. Len(granted) :
        i + MaxCalls <= Len(granted) => granted[i] + TimeWindow <= granted[i + MaxCalls]

\* No caller waits for ever: the lock comes free again after every sleep and
\* every cancellation, and its queue moves on.
CallersServed == \A c \in Callers : place[c] # "outside" ~> place[c] = "outside"
=============================================================================
