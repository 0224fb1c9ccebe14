----------------------------- MODULE FlowProofs -----------------------------
(***************************************************************************)
(* Theorems about what keeps the flow of data going, for every value of    *)
(* the constants: the limiter in front of the providers, the               *)
(* synchronisation of the stock list, and the records of a scheduled job.  *)
(***************************************************************************)
EXTENDS RateLimiter, BasicsSync, JobRecords, FoldLemmas, FiniteSetTheorems,
        SequenceTheorems, TLAPS

-----------------------------------------------------------------------------
\* The limiter.

USE LimiterAssumption DEF LimiterAssumption

-----------------------------------------------------------------------------
\* What the pruning loop returns: a suffix, from the first time that is still
\* in the window.

LEMMA PrunedIsSuffix ==
    ASSUME NEW s \in Seq(Nat), NEW now \in Nat
    PROVE  \E i \in 1 .. Len(s) + 1 :
               IsFirstLive(s, now, i) /\ Pruned(s, now) = SubSeq(s, i, Len(s))
<1> DEFINE T == {i \in 1 .. Len(s) + 1 : i = Len(s) + 1 \/ s[i] + TimeWindow > now}
<1>1. Len(s) \in Nat /\ \A j \in 1 .. Len(s) : s[j] \in Nat
  BY LenProperties, ElementOfSeq
<1>2. T \subseteq Nat /\ T # {}
  <2>1. Len(s) + 1 \in T
    BY <1>1
  <2> QED BY <1>1, <2>1
<1>3. PICK i \in T : \A y \in T : i <= y
  BY <1>2, LeastNat
<1>4. IsFirstLive(s, now, i)
  <2>1. ASSUME NEW j \in 1 .. Len(s), j < i PROVE s[j] + TimeWindow <= now
    <3>1. j \notin T
      BY <1>1, <1>3, <2>1
    <3> QED BY <1>1, <2>1, <3>1
  <2>2. i \in 1 .. Len(s) => s[i] + TimeWindow > now
    BY <1>1, <1>3
  <2> QED BY <2>1, <2>2 DEF IsFirstLive
<1>5. \E k \in 1 .. Len(s) + 1 : IsFirstLive(s, now, k)
  BY <1>3, <1>4
<1> QED BY <1>5 DEF Pruned

-----------------------------------------------------------------------------
\* The inductive invariant: the limiter's list is the end of the history, what
\* it dropped has left the window, and a sleeper, alone, waits for the oldest.

CallsEndHistory ==
    LET dropped == Len(granted) - Len(calls) IN
    /\ Len(calls) <= MaxCalls /\ dropped \in Nat
    /\ \A j \in 1 .. Len(calls) : calls[j] = granted[dropped + j]
    /\ \A i \in 1 .. dropped : granted[i] + TimeWindow <= clock

SleeperWaitsForOldest ==
    \A c \in Callers : place[c] = "sleeping" =>
        /\ calls # <<>> /\ wakeAt[c] = SleepEnd(calls[1])
        /\ \A d \in Callers : place[d] = "sleeping" => d = c

LimiterInv ==
    /\ LimiterTypeOK
    /\ CallsEndHistory
    /\ SleeperWaitsForOldest
    /\ WindowRespected

\* What one pruning does to the limiter's list.
LEMMA PrunedEndsHistory ==
    ASSUME LimiterTypeOK, CallsEndHistory
    PROVE  LET live == Pruned(calls, clock) IN
           /\ live \in Seq(Nat) /\ Len(live) \in Nat /\ Len(live) <= Len(calls)
           /\ \A j \in 1 .. Len(live) : live[j] = granted[Len(granted) - Len(live) + j]
           /\ \A i \in 1 .. Len(granted) - Len(live) : granted[i] + TimeWindow <= clock
           /\ calls # <<>> /\ calls[1] + TimeWindow <= clock => Len(live) < Len(calls)
           /\ live # <<>> => live[1] \in Nat
<1> DEFINE live == Pruned(calls, clock)
           n == Len(granted)
           m == Len(calls)
<1>1. /\ n \in Nat /\ m \in Nat /\ n - m \in Nat /\ clock \in Nat
      /\ \A j \in 1 .. m : calls[j] \in Nat
      /\ \A j \in 1 .. n : granted[j] \in Nat
  BY LenProperties, ElementOfSeq DEF LimiterTypeOK, CallsEndHistory
<1>2. PICK i \in 1 .. m + 1 : IsFirstLive(calls, clock, i) /\ live = SubSeq(calls, i, m)
  BY PrunedIsSuffix DEF LimiterTypeOK
<1>3. /\ live \in Seq(Nat)
      /\ Len(live) = m - i + 1
      /\ \A j \in 1 .. m - i + 1 : live[j] = calls[i + j - 1]
  BY <1>1, <1>2, SubSeqProperties
<1>4. \A j \in 1 .. Len(live) : live[j] = granted[n - Len(live) + j]
  <2> TAKE j \in 1 .. Len(live)
  <2>1. i + j - 1 \in 1 .. m /\ live[j] = calls[i + j - 1]
    BY <1>1, <1>2, <1>3
  <2>2. calls[i + j - 1] = granted[n - m + (i + j - 1)]
    BY <2>1 DEF CallsEndHistory
  <2>3. n - m + (i + j - 1) = n - Len(live) + j
    BY <1>1, <1>2, <1>3, <2>1
  <2> QED BY <2>1, <2>2, <2>3
<1>5. \A k \in 1 .. n - Len(live) : granted[k] + TimeWindow <= clock
  <2> TAKE k \in 1 .. n - Len(live)
  <2>1. CASE k <= n - m
    BY <1>1, <2>1 DEF CallsEndHistory
  <2>2. CASE k > n - m
    <3>1. k - (n - m) \in 1 .. m /\ k - (n - m) < i
      BY <1>1, <1>2, <1>3, <2>2
    <3>2. calls[k - (n - m)] + TimeWindow <= clock
      BY <1>2, <3>1 DEF IsFirstLive
    <3>3. calls[k - (n - m)] = granted[n - m + (k - (n - m))]
      BY <3>1 DEF CallsEndHistory
    <3>4. n - m + (k - (n - m)) = k
      BY <1>1, <2>2
    <3> QED BY <3>2, <3>3, <3>4
  <2> QED BY <1>1, <1>3, <2>1, <2>2
<1>6. calls # <<>> /\ calls[1] + TimeWindow <= clock => Len(live) < Len(calls)
  <2> SUFFICES ASSUME calls # <<>>, calls[1] + TimeWindow <= clock PROVE i # 1
    BY <1>1, <1>2, <1>3
  <2>1. 1 \in 1 .. m
    BY <1>1, EmptySeq DEF LimiterTypeOK
  <2>2. i = 1 => calls[1] + TimeWindow > clock
    BY <1>2, <2>1 DEF IsFirstLive
  <2> QED BY <1>1, <2>1, <2>2
<1>7. live # <<>> => live[1] \in Nat
  BY <1>3, EmptySeq, ElementOfSeq
<1>8. Len(live) \in Nat /\ Len(live) <= Len(calls)
  BY <1>1, <1>2, <1>3
<1> QED BY <1>3, <1>4, <1>5, <1>6, <1>7, <1>8

\* A permit keeps the invariant when the pruned list has room for it.
LEMMA PermitKeeps ==
    ASSUME LimiterInv, NEW c \in Callers, UNCHANGED clock,
           Permit(c, Pruned(calls, clock)), Len(Pruned(calls, clock)) < MaxCalls,
           \A d \in Callers : place[d] = "sleeping" => d = c
    PROVE  /\ calls' \in Seq(Nat) /\ granted' \in Seq(Nat)
           /\ CallsEndHistory' /\ SleeperWaitsForOldest' /\ WindowRespected'
<1> DEFINE live == Pruned(calls, clock)
           n == Len(granted)
           l == Len(live)
<1>1. /\ live \in Seq(Nat) /\ l \in Nat /\ n \in Nat /\ n - l \in Nat /\ clock \in Nat
      /\ \A j \in 1 .. l : live[j] = granted[n - l + j]
      /\ \A i \in 1 .. n - l : granted[i] + TimeWindow <= clock
      /\ granted \in Seq(Nat)
      /\ \A i \in 1 .. n : granted[i] \in Nat
  <2>1. CallsEndHistory /\ LimiterTypeOK
    BY DEF LimiterInv
  <2>2. live \in Seq(Nat) /\ l \in Nat /\ l <= Len(calls)
    BY <2>1, PrunedEndsHistory
  <2>3. n \in Nat /\ Len(calls) \in Nat /\ n - Len(calls) \in Nat /\ clock \in Nat /\ granted \in Seq(Nat)
    BY <2>1, LenProperties DEF CallsEndHistory, LimiterTypeOK
  <2>4. n - l \in Nat
    BY <2>2, <2>3
  <2>5. \A i \in 1 .. n : granted[i] \in Nat
    BY <2>3, ElementOfSeq
  <2> QED BY <2>1, <2>2, <2>3, <2>4, <2>5, PrunedEndsHistory
<1>2. /\ calls' = Append(live, clock) /\ granted' = Append(granted, clock)
      /\ place' = [place EXCEPT ![c] = "outside"] /\ l < MaxCalls
  BY DEF Permit
<1>3. /\ calls' \in Seq(Nat) /\ Len(calls') = l + 1
      /\ \A j \in 1 .. l : calls'[j] = live[j]
      /\ calls'[l + 1] = clock
      /\ granted' \in Seq(Nat) /\ Len(granted') = n + 1
      /\ \A j \in 1 .. n : granted'[j] = granted[j]
      /\ granted'[n + 1] = clock
  BY <1>1, <1>2, AppendProperties
<1>4. CallsEndHistory'
  <2>1. Len(granted') - Len(calls') = n - l
    BY <1>1, <1>3
  <2>2. Len(calls') <= MaxCalls
    BY <1>1, <1>2, <1>3
  <2>3. \A j \in 1 .. Len(calls') : calls'[j] = granted'[n - l + j]
    <3> TAKE j \in 1 .. Len(calls')
    <3>1. CASE j = l + 1
      <4>1. n - l + j = n + 1
        BY <1>1, <3>1
      <4> QED BY <1>3, <3>1, <4>1
    <3>2. CASE j # l + 1
      <4>1. j \in 1 .. l
        BY <1>1, <1>3, <3>2
      <4>2. n - l + j \in 1 .. n
        BY <1>1, <4>1
      <4> QED BY <1>1, <1>3, <4>1, <4>2
    <3> QED BY <3>1, <3>2
  <2>4. \A i \in 1 .. n - l : granted'[i] + TimeWindow <= clock'
    <3> TAKE i \in 1 .. n - l
    <3>1. i \in 1 .. n
      BY <1>1
    <3> QED BY <1>1, <1>3, <3>1
  <2> QED BY <1>1, <2>1, <2>2, <2>3, <2>4 DEF CallsEndHistory
<1>5. SleeperWaitsForOldest'
  <2>1. \A d \in Callers : place'[d] # "sleeping"
    BY <1>2 DEF LimiterInv, LimiterTypeOK
  <2> QED BY <2>1 DEF SleeperWaitsForOldest
<1>6. WindowRespected'
  <2> SUFFICES ASSUME NEW i \in 1 .. n + 1, i + MaxCalls <= n + 1
               PROVE  granted'[i] + TimeWindow <= granted'[i + MaxCalls]
    BY <1>3 DEF WindowRespected
  <2>0. i \in 1 .. n /\ i + MaxCalls \in 1 .. n + 1
    BY <1>1
  <2>1. CASE i + MaxCalls <= n
    <3>1. i + MaxCalls \in 1 .. n
      BY <1>1, <2>0, <2>1
    <3>2. granted[i] + TimeWindow <= granted[i + MaxCalls]
      BY <2>0, <2>1 DEF LimiterInv, WindowRespected
    <3> QED BY <1>3, <2>0, <3>1, <3>2
  <2>2. CASE i + MaxCalls = n + 1
    <3>1. i \in 1 .. n - l
      BY <1>1, <1>2, <2>0, <2>2
    <3>2. granted'[i] + TimeWindow <= clock
      BY <1>1, <1>3, <2>0, <3>1
    <3>3. granted'[i + MaxCalls] = clock
      BY <1>3, <2>2
    <3> QED BY <3>2, <3>3
  <2>3. i + MaxCalls <= n \/ i + MaxCalls = n + 1
    BY <1>1
  <2> QED BY <2>1, <2>2, <2>3
<1> QED BY <1>3, <1>4, <1>5, <1>6

\* The body of acquire keeps the invariant of whoever has the lock.
LEMMA BodyKeeps ==
    ASSUME LimiterInv, NEW c \in Callers, place[c] # "sleeping", LockFree, Body(c), UNCHANGED clock
    PROVE  /\ calls' \in Seq(Nat) /\ granted' \in Seq(Nat) /\ wakeAt' \in [Callers -> Nat]
           /\ CallsEndHistory' /\ SleeperWaitsForOldest' /\ WindowRespected'
           /\ place' \in [Callers -> {"outside", "waiting", "sleeping"}]
           /\ place'[c] # "waiting" /\ \A d \in Callers \ {c} : place'[d] = place[d]
<1> DEFINE live == Pruned(calls, clock)
<1>0. LimiterTypeOK /\ CallsEndHistory /\ WindowRespected
  BY DEF LimiterInv
<1>1. CASE Len(live) < MaxCalls
  <2>1. Permit(c, live)
    BY <1>1 DEF Body
  <2>2. \A d \in Callers : place[d] = "sleeping" => d = c
    BY DEF LockFree
  <2>3. /\ calls' \in Seq(Nat) /\ granted' \in Seq(Nat)
        /\ CallsEndHistory' /\ SleeperWaitsForOldest' /\ WindowRespected'
    BY <1>1, <2>1, <2>2, PermitKeeps
  <2> QED BY <1>0, <2>1, <2>3 DEF Permit, LimiterTypeOK
<1>2. CASE ~ (Len(live) < MaxCalls)
  <2>1. /\ calls' = live /\ wakeAt' = [wakeAt EXCEPT ![c] = SleepEnd(live[1])]
        /\ place' = [place EXCEPT ![c] = "sleeping"] /\ UNCHANGED granted
    BY <1>2 DEF Body
  <2>2. /\ live \in Seq(Nat) /\ Len(live) \in Nat /\ Len(live) <= Len(calls)
        /\ \A j \in 1 .. Len(live) : live[j] = granted[Len(granted) - Len(live) + j]
        /\ \A i \in 1 .. Len(granted) - Len(live) : granted[i] + TimeWindow <= clock
        /\ live # <<>> => live[1] \in Nat
    BY <1>0, PrunedEndsHistory
  <2>3. Len(calls) \in Nat /\ Len(granted) \in Nat /\ Len(calls) <= MaxCalls
        /\ Len(granted) - Len(calls) \in Nat
    BY <1>0, LenProperties DEF LimiterTypeOK, CallsEndHistory
  <2>4. live # <<>> /\ live[1] \in Nat /\ SleepEnd(live[1]) \in Nat
    <3>1. live # <<>>
      BY <1>2, <2>2, EmptySeq
    <3> QED BY <2>2, <3>1 DEF SleepEnd
  <2>5. CallsEndHistory'
    <3>1. Len(granted) - Len(live) \in Nat /\ Len(live) <= MaxCalls
      BY <2>2, <2>3
    <3> QED BY <2>1, <2>2, <3>1 DEF CallsEndHistory
  <2>6. SleeperWaitsForOldest'
    <3>1. \A d \in Callers : place'[d] = "sleeping" => d = c
      BY <1>0, <2>1 DEF LockFree, LimiterTypeOK
    <3>2. wakeAt'[c] = SleepEnd(calls'[1]) /\ calls' # <<>>
      BY <1>0, <2>1, <2>4 DEF LimiterTypeOK
    <3> QED BY <3>1, <3>2 DEF SleeperWaitsForOldest
  <2>7. WindowRespected'
    BY <1>0, <2>1 DEF WindowRespected
  <2> QED BY <1>0, <2>1, <2>2, <2>4, <2>5, <2>6, <2>7 DEF LimiterTypeOK
<1> QED BY <1>1, <1>2

-----------------------------------------------------------------------------
LEMMA LimiterInvStep ==
    ASSUME LimiterInv, [LimiterNext]_limiterVars
    PROVE  LimiterInv'
<1>0. /\ LimiterTypeOK /\ CallsEndHistory /\ SleeperWaitsForOldest /\ WindowRespected
  BY DEF LimiterInv
<1>1. ASSUME NEW c \in Callers, Acquire(c)
      PROVE  LimiterInv'
  <2>1. arrivals' \in Nat /\ clock' \in Nat /\ arrivals' # 0 /\ UNCHANGED clock /\ place[c] = "outside"
    BY <1>0, <1>1 DEF Acquire, LimiterTypeOK
  <2>2. CASE LockFree /\ NoWaiter
    <3>1. Body(c) /\ UNCHANGED ticket
      BY <1>1, <2>2 DEF Acquire
    <3>2. /\ calls' \in Seq(Nat) /\ granted' \in Seq(Nat) /\ wakeAt' \in [Callers -> Nat]
          /\ CallsEndHistory' /\ SleeperWaitsForOldest' /\ WindowRespected'
          /\ place' \in [Callers -> {"outside", "waiting", "sleeping"}]
          /\ place'[c] # "waiting" /\ \A d \in Callers \ {c} : place'[d] = place[d]
      BY <2>1, <2>2, <3>1, BodyKeeps
    <3>3. \A d \in Callers : ticket'[d] # 0 <=> place'[d] = "waiting"
      BY <1>0, <2>1, <3>1, <3>2 DEF LimiterTypeOK
    <3>4. ticket' \in [Callers -> Nat]
      BY <1>0, <3>1 DEF LimiterTypeOK
    <3>5. LimiterTypeOK'
      BY <2>1, <3>2, <3>3, <3>4 DEF LimiterTypeOK
    <3> QED BY <3>2, <3>5 DEF LimiterInv
  <2>3. CASE ~ (LockFree /\ NoWaiter)
    <3>1. /\ place' = [place EXCEPT ![c] = "waiting"] /\ ticket' = [ticket EXCEPT ![c] = arrivals']
          /\ UNCHANGED <<clock, calls, wakeAt, granted>>
      BY <1>1, <2>3 DEF Acquire
    <3>2. LimiterTypeOK'
      BY <1>0, <2>1, <3>1 DEF LimiterTypeOK
    <3>3. SleeperWaitsForOldest'
      BY <1>0, <3>1 DEF SleeperWaitsForOldest, LimiterTypeOK
    <3> QED BY <1>0, <3>1, <3>2, <3>3 DEF LimiterInv, CallsEndHistory, WindowRespected
  <2> QED BY <2>2, <2>3
<1>2. ASSUME NEW c \in Callers, Enter(c)
      PROVE  LimiterInv'
  <2>1. /\ ticket[c] # 0 /\ LockFree /\ Body(c) /\ ticket' = [ticket EXCEPT ![c] = 0]
        /\ UNCHANGED <<clock, arrivals>>
    BY <1>2 DEF Enter, FirstWaiter
  <2>2. /\ calls' \in Seq(Nat) /\ granted' \in Seq(Nat) /\ wakeAt' \in [Callers -> Nat]
        /\ CallsEndHistory' /\ SleeperWaitsForOldest' /\ WindowRespected'
        /\ place' \in [Callers -> {"outside", "waiting", "sleeping"}]
        /\ place'[c] # "waiting" /\ \A d \in Callers \ {c} : place'[d] = place[d]
    BY <2>1, BodyKeeps DEF LockFree
  <2>3. ticket' \in [Callers -> Nat] /\ \A d \in Callers : ticket'[d] # 0 <=> place'[d] = "waiting"
    BY <1>0, <2>1, <2>2 DEF LimiterTypeOK
  <2>4. LimiterTypeOK'
    BY <1>0, <2>1, <2>2, <2>3 DEF LimiterTypeOK
  <2> QED BY <2>2, <2>4 DEF LimiterInv
<1>3. ASSUME NEW c \in Callers, Wake(c)
      PROVE  LimiterInv'
  <2>1. /\ place[c] = "sleeping" /\ wakeAt[c] <= clock
        /\ Permit(c, Pruned(calls, clock)) /\ UNCHANGED <<clock, ticket, arrivals>>
    BY <1>3 DEF Wake
  <2>2. /\ calls # <<>> /\ wakeAt[c] = SleepEnd(calls[1])
        /\ \A d \in Callers : place[d] = "sleeping" => d = c
    BY <1>0, <2>1 DEF SleeperWaitsForOldest
  <2>3. calls[1] + TimeWindow <= clock
    <3>1. calls[1] \in Nat /\ clock \in Nat
      BY <1>0, <2>2, EmptySeq, ElementOfSeq DEF LimiterTypeOK
    <3> QED BY <2>1, <2>2, <3>1 DEF SleepEnd
  <2>4. Len(Pruned(calls, clock)) < MaxCalls
    <3>1. /\ Len(Pruned(calls, clock)) \in Nat
          /\ Len(Pruned(calls, clock)) < Len(calls)
      BY <1>0, <2>2, <2>3, PrunedEndsHistory
    <3>2. Len(calls) \in Nat /\ Len(calls) <= MaxCalls
      BY <1>0, LenProperties DEF LimiterTypeOK, CallsEndHistory
    <3> QED BY <3>1, <3>2
  <2>5. /\ calls' \in Seq(Nat) /\ granted' \in Seq(Nat)
        /\ CallsEndHistory' /\ SleeperWaitsForOldest' /\ WindowRespected'
    BY <2>1, <2>2, <2>4, PermitKeeps
  <2>6. LimiterTypeOK'
    BY <1>0, <2>1, <2>5 DEF Permit, LimiterTypeOK
  <2> QED BY <2>5, <2>6 DEF LimiterInv
<1>4. ASSUME NEW c \in Callers, AbandonWait(c)
      PROVE  LimiterInv'
  <2>1. LimiterTypeOK' /\ SleeperWaitsForOldest'
    BY <1>0, <1>4 DEF AbandonWait, LimiterTypeOK, SleeperWaitsForOldest
  <2> QED BY <1>0, <1>4, <2>1 DEF AbandonWait, LimiterInv, CallsEndHistory, WindowRespected
<1>5. CASE LimiterTick
  <2>1. LimiterTypeOK' /\ clock' = clock + 1 /\ clock \in Nat
    BY <1>0, <1>5 DEF LimiterTick, LimiterTypeOK
  <2>2. CallsEndHistory'
    <3>1. Len(granted) - Len(calls) \in Nat /\ Len(calls) \in Nat /\ Len(granted) \in Nat
      BY <1>0, LenProperties DEF CallsEndHistory, LimiterTypeOK
    <3>2. \A i \in 1 .. Len(granted) - Len(calls) : granted[i] \in Nat
      <4>1. \A i \in 1 .. Len(granted) : granted[i] \in Nat
        BY <1>0, ElementOfSeq DEF LimiterTypeOK
      <4> QED BY <3>1, <4>1
    <3>3. \A i \in 1 .. Len(granted) - Len(calls) : granted[i] + TimeWindow <= clock'
      BY <1>0, <2>1, <3>1, <3>2 DEF CallsEndHistory
    <3> QED BY <1>0, <1>5, <3>1, <3>3 DEF CallsEndHistory, LimiterTick
  <2> QED BY <1>0, <1>5, <2>1, <2>2 DEF LimiterTick, LimiterInv, SleeperWaitsForOldest, WindowRespected
<1>6. CASE UNCHANGED limiterVars
  BY <1>0, <1>6 DEF limiterVars, LimiterInv, LimiterTypeOK, CallsEndHistory, SleeperWaitsForOldest, WindowRespected
<1> QED BY <1>1, <1>2, <1>3, <1>4, <1>5, <1>6 DEF LimiterNext

LEMMA LimiterInvHolds == LimiterSpec => []LimiterInv
<1>1. LimiterInit => LimiterInv
  <2> SUFFICES ASSUME LimiterInit PROVE LimiterInv
    OBVIOUS
  <2>1. Len(calls) = 0 /\ Len(granted) = 0 /\ calls \in Seq(Nat) /\ granted \in Seq(Nat)
    BY EmptySeq DEF LimiterInit
  <2> QED BY <2>1 DEF LimiterInit, LimiterInv, LimiterTypeOK, CallsEndHistory,
                      SleeperWaitsForOldest, WindowRespected
<1>2. LimiterInv /\ [LimiterNext]_limiterVars => LimiterInv'
  BY LimiterInvStep
<1> QED BY <1>1, <1>2, PTL DEF LimiterSpec

\* The limiter's variables keep their domains, and the callers with a turn are
\* those that wait (acquire and its cancellation), for any number of callers.
THEOREM LimiterTypeCorrect == LimiterSpec => []LimiterTypeOK
<1>1. LimiterInv => LimiterTypeOK
  BY DEF LimiterInv
<1> QED BY <1>1, LimiterInvHolds, PTL

\* No window of any length holds more than MaxCalls permits, for any number of
\* callers, any limit and any pattern of calls and cancellations (acquire).
THEOREM LimiterRespectsWindow == LimiterSpec => []WindowRespected
<1>1. LimiterInv => WindowRespected
  BY DEF LimiterInv
<1> QED BY <1>1, LimiterInvHolds, PTL

-----------------------------------------------------------------------------
\* The queue of the lock: whose turn it is, and that it is somebody's.

\* A ticket is a number that was given, and nobody else's; a permit is past.
TicketsInv ==
    /\ \A c \in Callers : ticket[c] <= arrivals
    /\ \A c, d \in Callers : ticket[c] # 0 /\ ticket[c] = ticket[d] => c = d
    /\ \A i \in 1 .. Len(granted) : granted[i] <= clock

\* While a caller waits nobody comes in ahead of it, and only the sleeper or a
\* caller ahead of it gets a permit or the lock.
TurnsKept ==
    \A c \in Callers : place[c] = "waiting" /\ place'[c] = "waiting" =>
        /\ ticket'[c] = ticket[c]
        /\ \A d \in Callers :
              /\ place'[d] = "waiting" /\ ticket'[d] <= ticket[c] =>
                     place[d] = "waiting" /\ ticket[d] = ticket'[d]
              /\ place'[d] = "sleeping" =>
                     place[d] = "sleeping" \/ (place[d] = "waiting" /\ ticket[d] < ticket[c])
        /\ granted' # granted =>
              \E d \in Callers : /\ place'[d] = "outside"
                                 /\ \/ place[d] = "sleeping"
                                    \/ place[d] = "waiting" /\ ticket[d] < ticket[c]

\* Whenever somebody waits or sleeps, one caller sleeps, for a window and a tick
\* at most, or the lock is free and one waiter is the first.
LockMoves ==
    (\E c \in Callers : place[c] # "outside") =>
        \/ \E c \in Callers : /\ place[c] = "sleeping" /\ wakeAt[c] <= clock + TimeWindow + 1
                              /\ \A d \in Callers : place[d] = "sleeping" => d = c
        \/ LockFree /\ \E c \in Callers : place[c] = "waiting" /\ FirstWaiter(c)

LEMMA LimiterTypes ==
    ASSUME LimiterInv
    PROVE  /\ clock \in Nat /\ arrivals \in Nat /\ granted \in Seq(Nat) /\ Len(granted) \in Nat
           /\ place \in [Callers -> {"outside", "waiting", "sleeping"}]
           /\ ticket \in [Callers -> Nat]
           /\ \A c \in Callers : ticket[c] \in Nat /\ (ticket[c] # 0 <=> place[c] = "waiting")
BY LenProperties DEF LimiterInv, LimiterTypeOK

\* What the body of acquire does to the queue and the history.
LEMMA BodyMoves ==
    ASSUME LimiterInv, TicketsInv, NEW c \in Callers,
           Body(c) \/ Permit(c, Pruned(calls, clock)), UNCHANGED clock
    PROVE  /\ place'[c] # "waiting" /\ \A d \in Callers \ {c} : place'[d] = place[d]
           /\ granted' # granted => place'[c] = "outside"
           /\ \A i \in 1 .. Len(granted') : granted'[i] <= clock
<1>1. /\ place'[c] \in {"outside", "sleeping"} /\ \A d \in Callers \ {c} : place'[d] = place[d]
      /\ granted' # granted => place'[c] = "outside"
      /\ granted' = granted \/ granted' = Append(granted, clock)
  BY LimiterTypes DEF Body, Permit
<1>2. CASE granted' = granted
  BY <1>1, <1>2 DEF TicketsInv
<1>3. CASE granted' = Append(granted, clock)
  <2>1. /\ Len(granted') = Len(granted) + 1 /\ granted'[Len(granted) + 1] = clock
        /\ \A i \in 1 .. Len(granted) : granted'[i] = granted[i]
    BY <1>3, LimiterTypes, AppendProperties
  <2>2. ASSUME NEW i \in 1 .. Len(granted')
        PROVE  granted'[i] <= clock
    <3>1. i \in 1 .. Len(granted) \/ i = Len(granted) + 1
      BY <2>1, <2>2, LimiterTypes
    <3> QED BY <2>1, <3>1, LimiterTypes DEF TicketsInv
  <2> QED BY <1>1, <2>2
<1> QED BY <1>1, <1>2, <1>3

LEMMA TurnsStep ==
    ASSUME LimiterInv, TicketsInv, [LimiterNext]_limiterVars
    PROVE  TicketsInv' /\ TurnsKept
<1>1. ASSUME NEW c \in Callers, Acquire(c)
      PROVE  TicketsInv' /\ TurnsKept
  <2>1. place[c] = "outside" /\ arrivals' = arrivals + 1 /\ UNCHANGED clock /\ ticket[c] = 0
    BY <1>1, LimiterTypes DEF Acquire
  <2>2. CASE LockFree /\ NoWaiter
    <3>1. Body(c) /\ ticket' = ticket
      BY <1>1, <2>2 DEF Acquire
    <3>2. TurnsKept
      BY <2>2, LimiterTypes DEF TurnsKept, NoWaiter
    <3>3. \A i \in 1 .. Len(granted') : granted'[i] <= clock'
      BY <2>1, <3>1, BodyMoves
    <3>4. \A d \in Callers : ticket'[d] <= arrivals'
      BY <2>1, <3>1, LimiterTypes DEF TicketsInv
    <3> QED BY <3>1, <3>2, <3>3, <3>4 DEF TicketsInv
  <2>3. CASE ~ (LockFree /\ NoWaiter)
    <3>1. /\ place' = [place EXCEPT ![c] = "waiting"]
          /\ ticket' = [ticket EXCEPT ![c] = arrivals'] /\ UNCHANGED granted
      BY <1>1, <2>3 DEF Acquire
    <3>2. /\ place'[c] = "waiting" /\ ticket'[c] = arrivals + 1
          /\ \A d \in Callers \ {c} : place'[d] = place[d] /\ ticket'[d] = ticket[d]
      BY <2>1, <3>1, LimiterTypes
    <3>3. \A d \in Callers : ticket[d] < arrivals + 1 /\ ticket[d] <= arrivals
      BY LimiterTypes DEF TicketsInv
    <3>4. TicketsInv'
      <4>1. \A d \in Callers : ticket'[d] <= arrivals'
        BY <2>1, <3>2, <3>3, LimiterTypes
      <4>2. \A d, e \in Callers : ticket'[d] # 0 /\ ticket'[d] = ticket'[e] => d = e
        BY <3>2, <3>3, LimiterTypes DEF TicketsInv
      <4> QED BY <2>1, <3>1, <4>1, <4>2 DEF TicketsInv
    <3>5. TurnsKept
      BY <2>1, <3>1, <3>2, <3>3, LimiterTypes DEF TurnsKept
    <3> QED BY <3>4, <3>5
  <2> QED BY <2>2, <2>3
<1>2. ASSUME NEW c \in Callers, Enter(c)
      PROVE  TicketsInv' /\ TurnsKept
  <2>1. /\ place[c] = "waiting" /\ FirstWaiter(c) /\ Body(c)
        /\ ticket' = [ticket EXCEPT ![c] = 0] /\ UNCHANGED <<clock, arrivals>>
    BY <1>2 DEF Enter
  <2>2. /\ place'[c] # "waiting" /\ \A d \in Callers \ {c} : place'[d] = place[d]
        /\ granted' # granted => place'[c] = "outside"
        /\ \A i \in 1 .. Len(granted') : granted'[i] <= clock'
    BY <2>1, BodyMoves
  <2>3. ticket'[c] = 0 /\ \A d \in Callers \ {c} : ticket'[d] = ticket[d]
    BY <2>1, LimiterTypes
  <2>4. \A d \in Callers \ {c} : place[d] = "waiting" => ticket[c] < ticket[d]
    BY <2>1, LimiterTypes DEF FirstWaiter, TicketsInv
  <2>5. TicketsInv'
    <3>1. \A d \in Callers : ticket'[d] <= arrivals'
      BY <2>1, <2>3, LimiterTypes DEF TicketsInv
    <3>2. \A d, e \in Callers : ticket'[d] # 0 /\ ticket'[d] = ticket'[e] => d = e
      BY <2>3 DEF TicketsInv
    <3> QED BY <2>2, <3>1, <3>2 DEF TicketsInv
  <2>6. TurnsKept
    BY <2>1, <2>2, <2>3, <2>4 DEF TurnsKept
  <2> QED BY <2>5, <2>6
<1>3. ASSUME NEW c \in Callers, Wake(c)
      PROVE  TicketsInv' /\ TurnsKept
  <2>1. /\ place[c] = "sleeping" /\ Permit(c, Pruned(calls, clock))
        /\ UNCHANGED <<clock, ticket, arrivals>>
    BY <1>3 DEF Wake
  <2>2. /\ place'[c] # "waiting" /\ \A d \in Callers \ {c} : place'[d] = place[d]
        /\ granted' # granted => place'[c] = "outside"
        /\ \A i \in 1 .. Len(granted') : granted'[i] <= clock'
    BY <2>1, BodyMoves
  <2>3. TicketsInv'
    BY <2>1, <2>2 DEF TicketsInv
  <2>4. TurnsKept
    BY <2>1, <2>2 DEF TurnsKept
  <2> QED BY <2>3, <2>4
<1>4. ASSUME NEW c \in Callers, AbandonWait(c)
      PROVE  TicketsInv' /\ TurnsKept
  <2>1. /\ place' = [place EXCEPT ![c] = "outside"] /\ ticket' = [ticket EXCEPT ![c] = 0]
        /\ UNCHANGED <<clock, arrivals, granted>>
    BY <1>4 DEF AbandonWait
  <2>2. /\ place'[c] = "outside" /\ ticket'[c] = 0
        /\ \A d \in Callers \ {c} : place'[d] = place[d] /\ ticket'[d] = ticket[d]
    BY <2>1, LimiterTypes
  <2>3. TicketsInv'
    <3>1. \A d \in Callers : ticket'[d] <= arrivals'
      BY <2>1, <2>2, LimiterTypes DEF TicketsInv
    <3>2. \A d, e \in Callers : ticket'[d] # 0 /\ ticket'[d] = ticket'[e] => d = e
      BY <2>2 DEF TicketsInv
    <3> QED BY <2>1, <3>1, <3>2 DEF TicketsInv
  <2>4. TurnsKept
    BY <2>1, <2>2 DEF TurnsKept
  <2> QED BY <2>3, <2>4
<1>5. CASE LimiterTick \/ UNCHANGED limiterVars
  <2>1. clock' \in {clock, clock + 1} /\ UNCHANGED <<place, ticket, arrivals, granted>>
    BY <1>5 DEF LimiterTick, limiterVars
  <2>2. \A i \in 1 .. Len(granted) : granted[i] \in Nat
    BY LimiterTypes, ElementOfSeq
  <2>3. \A i \in 1 .. Len(granted) : granted[i] <= clock'
    BY <2>1, <2>2, LimiterTypes DEF TicketsInv
  <2>4. TicketsInv'
    BY <2>1, <2>3 DEF TicketsInv
  <2>5. TurnsKept
    BY <2>1 DEF TurnsKept
  <2> QED BY <2>4, <2>5
<1> QED BY <1>1, <1>2, <1>3, <1>4, <1>5 DEF LimiterNext

LEMMA LockIsSomeones ==
    ASSUME LimiterInv, TicketsInv
    PROVE  LockMoves
<1>1. ASSUME NEW c \in Callers, place[c] = "sleeping"
      PROVE  LockMoves
  <2>1. /\ calls # <<>> /\ wakeAt[c] = calls[1] + TimeWindow + 1
        /\ \A d \in Callers : place[d] = "sleeping" => d = c
    BY <1>1 DEF LimiterInv, SleeperWaitsForOldest, SleepEnd
  <2>2. PICK n \in Nat, l \in Nat :
           n = Len(granted) /\ l = Len(calls) /\ n - l \in Nat /\ l > 0
    BY <2>1, LenProperties, EmptySeq DEF LimiterInv, LimiterTypeOK, CallsEndHistory
  <2>3. calls[1] = granted[n - l + 1]
    BY <2>2 DEF LimiterInv, CallsEndHistory
  <2>4. n - l + 1 \in 1 .. n
    BY <2>2
  <2>5. calls[1] \in Nat /\ calls[1] <= clock
    BY <2>2, <2>3, <2>4, LimiterTypes, ElementOfSeq DEF TicketsInv
  <2>6. wakeAt[c] <= clock + TimeWindow + 1
    BY <2>1, <2>5, LimiterTypes
  <2> QED BY <1>1, <2>1, <2>6 DEF LockMoves
<1>2. ASSUME LockFree, NEW c \in Callers, place[c] = "waiting"
      PROVE  LockMoves
  <2> DEFINE T == {ticket[d] : d \in {e \in Callers : place[e] = "waiting"}}
  <2>1. T \subseteq Nat /\ T # {}
    BY <1>2, LimiterTypes
  <2>2. PICK k \in T : \A j \in T : k <= j
    BY <2>1, LeastNat
  <2>3. PICK d \in Callers : place[d] = "waiting" /\ ticket[d] = k
    BY <2>2
  <2>4. FirstWaiter(d)
    BY <2>2, <2>3, LimiterTypes DEF FirstWaiter
  <2> QED BY <1>2, <2>3, <2>4 DEF LockMoves
<1>3. \A c \in Callers : place[c] # "outside" => place[c] \in {"sleeping", "waiting"}
  BY LimiterTypes
<1> QED BY <1>1, <1>2, <1>3 DEF LockMoves, LockFree

\* Permits are given in the order in which they were asked for: while a caller
\* waits nobody enters the queue ahead of it, and only the sleeper or a caller
\* ahead of it gets the lock or a permit, whoever is cancelled meanwhile (the
\* asyncio lock of acquire).  And the queue is never stuck: somebody sleeps,
\* for a window and a tick at most, or the lock is free and there is a first
\* waiter to take it.
THEOREM LimiterKeepsTurns == LimiterSpec => []LockMoves /\ [][TurnsKept]_limiterVars
<1>1. LimiterInit => TicketsInv
  <2> SUFFICES ASSUME LimiterInit PROVE TicketsInv
    OBVIOUS
  <2>1. Len(granted) = 0
    BY EmptySeq DEF LimiterInit
  <2> QED BY <2>1 DEF LimiterInit, TicketsInv
<1>2. LimiterInv /\ TicketsInv /\ [LimiterNext]_limiterVars => TicketsInv' /\ [TurnsKept]_limiterVars
  BY TurnsStep
<1>3. LimiterInv /\ TicketsInv => LockMoves
  BY LockIsSomeones
<1> QED BY <1>1, <1>2, <1>3, LimiterInvHolds, PTL DEF LimiterSpec

-----------------------------------------------------------------------------
\* The synchronisation of the stock list.  What the flag of an instance says of
\* its runs, and what the status says of what is written.

SyncStages == {"idle", "skip", "announce", "fetch", "write", "report", "fail", "release"}

CallRecords == [at : SyncStages, inst : Instances, left : Int, tries : Int, errors : Nat,
                says : {"none"} \cup Ends]

\* What the proof needs of the types.
SyncTyped ==
    /\ running \in [Instances -> BOOLEAN]
    /\ call \in [Calls -> CallRecords]

\* FlagMeansRunning without counting: two calls at work on an instance are one.
FlagHolds(i) ==
    /\ \A c, d \in WorkersOf(i) : c = d
    /\ WorkersOf(i) # {} => running[i]
    /\ running[i] /\ WorkersOf(i) = {} => i \in cut

FlagInv == \A i \in Instances : i \notin unguarded => FlagHolds(i)

\* A call goes on at work for its instance, or does not work before and after.
SameWork(c) ==
    /\ call'[c] \in CallRecords
    /\ Works(c)' <=> Works(c)
    /\ Works(c) => call'[c].inst = call[c].inst

\* Whatever leaves the flags alone and every call as it was keeps the invariant.
LEMMA SameWorkKeeps ==
    ASSUME SyncTyped, FlagInv, UNCHANGED <<running, unguarded>>, cut \subseteq cut',
           call' \in [Calls -> CallRecords], \A c \in Calls : SameWork(c)
    PROVE  SyncTyped' /\ FlagInv'
<1>1. \A i \in Instances : WorkersOf(i)' = WorkersOf(i)
  BY DEF WorkersOf, SameWork
<1> QED BY <1>1 DEF SyncTyped, FlagInv, FlagHolds

LEMMA Rests == Resting \in CallRecords /\ Resting.at = "idle" /\ Resting.inst = "router"
BY DEF Resting, CallRecords, SyncStages, Instances

\* A call that changes but stays at work, or away from it.
LEMMA OneCallMoves ==
    ASSUME SyncTyped, FlagInv, UNCHANGED <<running, unguarded>>, cut \subseteq cut',
           NEW c \in Calls, NEW new \in CallRecords,
           call' = [call EXCEPT ![c] = new],
           Works(c) => new.inst = call[c].inst,
           new.at \in {"idle", "skip"} <=> ~ Works(c)
    PROVE  SyncTyped' /\ FlagInv'
<1>1. call' \in [Calls -> CallRecords] /\ call'[c] = new
  BY DEF SyncTyped
<1>2. \A d \in Calls \ {c} : call'[d] = call[d]
  BY DEF SyncTyped
<1>3. Works(c)' <=> Works(c)
  BY <1>1 DEF Works, CallRecords, SyncStages
<1>4. \A d \in Calls : SameWork(d)
  BY <1>1, <1>2, <1>3 DEF SameWork, Works
<1> QED BY <1>1, <1>4, SameWorkKeeps

\* A call with what WriteBatch puts into it.
Counting(k, stage, left, tries, errors) ==
    [k EXCEPT !.at = stage, !.left = left, !.tries = tries, !.errors = errors]

LEMMA BatchesCounted ==
    ASSUME NEW k \in CallRecords, NEW stage \in SyncStages, NEW left \in Int,
           NEW tries \in Int, NEW errors \in Nat
    PROVE  /\ Counting(k, stage, left, tries, errors) \in CallRecords
           /\ Counting(k, stage, left, tries, errors).at = stage
           /\ Counting(k, stage, left, tries, errors).inst = k.inst
BY DEF Counting, CallRecords

\* The steps between flag and finally.
LEMMA SyncGoesOn ==
    ASSUME SyncTyped, FlagInv, NEW c \in Calls,
           \/ SkipRead(c) \/ Announce(c) \/ FetchList(c) \/ WriteBatch(c)
           \/ ReportEnd(c) \/ ReportRaises(c) \/ ReportFailure(c) \/ FailureRaises(c)
    PROVE  SyncTyped' /\ FlagInv'
<1>1. call[c] \in CallRecords
  BY DEF SyncTyped
<1>2. CASE SkipRead(c)
  <2>1. ~ Works(c) /\ call' = [call EXCEPT ![c] = Resting]
        /\ UNCHANGED <<running, unguarded, cut>>
    BY <1>2 DEF SkipRead, Works
  <2> QED BY <2>1, Rests, OneCallMoves
<1>3. ASSUME NEW stage \in SyncStages \ {"idle", "skip"}, Works(c), SyncAt(c, stage),
             UNCHANGED <<running, unguarded>>, cut \subseteq cut'
      PROVE  SyncTyped' /\ FlagInv'
  <2> DEFINE new == [call[c] EXCEPT !.at = stage]
  <2>1. new \in CallRecords /\ new.at = stage /\ new.inst = call[c].inst
    BY <1>1 DEF CallRecords
  <2>2. call' = [call EXCEPT ![c] = new]
    BY <1>3 DEF SyncAt, SyncTyped
  <2> HIDE DEF new
  <2> QED BY <1>3, <2>1, <2>2, OneCallMoves DEF SyncStages
<1>4. ASSUME NEW says \in Ends, Works(c),
             call' = [call EXCEPT ![c].at = "release", ![c].says = says],
             UNCHANGED <<running, unguarded, cut>>
      PROVE  SyncTyped' /\ FlagInv'
  <2> DEFINE new == [call[c] EXCEPT !.at = "release", !.says = says]
  <2>1. new \in CallRecords /\ new.at = "release" /\ new.inst = call[c].inst
    BY <1>1 DEF CallRecords, SyncStages
  <2>2. call' = [call EXCEPT ![c] = new]
    BY <1>4 DEF SyncTyped
  <2> HIDE DEF new
  <2> QED BY <1>4, <2>1, <2>2, OneCallMoves
<1>5. CASE Announce(c)
  BY <1>3, <1>5 DEF Announce, Works, SyncStages
<1>6. CASE FetchList(c)
  <2>1. Works(c) /\ UNCHANGED <<running, unguarded, cut>>
    BY <1>6 DEF FetchList, Works
  <2>2. CASE SyncAt(c, "fail")
    BY <1>3, <2>1, <2>2 DEF SyncStages
  <2>3. CASE call' = [call EXCEPT ![c].at = "write", ![c].left = SyncBatches]
    <3> DEFINE new == [call[c] EXCEPT !.at = "write", !.left = SyncBatches]
    <3>1. SyncBatches \in Int
      BY SyncAssumption
    <3>2. new \in CallRecords /\ new.at = "write" /\ new.inst = call[c].inst
      BY <1>1, <3>1 DEF CallRecords, SyncStages
    <3>3. call' = [call EXCEPT ![c] = new]
      BY <2>3 DEF SyncTyped
    <3> HIDE DEF new
    <3> QED BY <2>1, <3>2, <3>3, OneCallMoves
  <2> QED BY <1>6, <2>2, <2>3 DEF FetchList
<1>7. CASE WriteBatch(c)
  <2>1. Works(c) /\ UNCHANGED <<running, unguarded, cut>>
    BY <1>7 DEF WriteBatch, Works
  <2>2. ASSUME NEW failed \in {0, 1}, BatchDone(c, failed)
        PROVE  SyncTyped' /\ FlagInv'
    <3> DEFINE stage == IF call[c].left = 1 THEN "report" ELSE "write"
               new == Counting(call[c], stage, call[c].left - 1, 0, call[c].errors + failed)
    <3>1. /\ call[c].left - 1 \in Int /\ call[c].errors + failed \in Nat
          /\ stage \in SyncStages \ {"idle", "skip"}
      BY <1>1 DEF CallRecords, SyncStages
    <3>2. call' = [call EXCEPT ![c] = new]
      BY <2>2 DEF SyncTyped, BatchDone, Counting
    <3>3. new \in CallRecords /\ new.at = stage /\ new.inst = call[c].inst
      BY <1>1, <3>1, BatchesCounted
    <3> HIDE DEF new, stage
    <3> QED BY <2>1, <3>1, <3>2, <3>3, OneCallMoves DEF SyncStages
  <2>3. CASE call' = [call EXCEPT ![c].tries = @ + 1]
    <3> DEFINE new == [call[c] EXCEPT !.tries = @ + 1]
    <3>1. new \in CallRecords /\ new.at = call[c].at /\ new.inst = call[c].inst
      BY <1>1 DEF CallRecords
    <3>2. call' = [call EXCEPT ![c] = new]
      BY <2>3 DEF SyncTyped
    <3> HIDE DEF new
    <3> QED BY <2>1, <3>1, <3>2, OneCallMoves DEF Works
  <2> QED BY <1>7, <2>2, <2>3 DEF WriteBatch, GivenUp
<1>8. CASE ReportEnd(c)
  BY <1>4, <1>8 DEF ReportEnd, Works, SyncVerdict, Ends
<1>9. CASE ReportRaises(c)
  BY <1>3, <1>9 DEF ReportRaises, Works, SyncStages
<1>10. CASE ReportFailure(c)
  BY <1>4, <1>10 DEF ReportFailure, Works, Ends
<1>11. CASE FailureRaises(c)
  BY <1>3, <1>11 DEF FailureRaises, Works, SyncStages
<1> QED BY <1>2, <1>5, <1>6, <1>7, <1>8, <1>9, <1>10, <1>11

\* A call is turned away, or takes the flag of an instance at rest, or is forced
\* into one at work, which is then not guarded any more.
LEMMA SyncStarts ==
    ASSUME SyncTyped, FlagInv, NEW c \in Calls, NEW i \in Instances, NEW force \in BOOLEAN,
           StartSync(c, i, force)
    PROVE  SyncTyped' /\ FlagInv'
<1>1. call[c].at = "idle" /\ ~ Works(c) /\ UNCHANGED cut
  BY DEF StartSync, Works
<1>2. CASE TurnedAway(i, force)
  <2>1. UNCHANGED <<running, unguarded>>
    BY <1>2 DEF StartSync
  <2>2. CASE UNCHANGED call
    BY <1>1, <2>1, <2>2 DEF SyncTyped, FlagInv, FlagHolds, WorkersOf, Works
  <2>3. CASE call' = [call EXCEPT ![c] = [Resting EXCEPT !.inst = i, !.at = "skip"]]
    <3> DEFINE new == [Resting EXCEPT !.inst = i, !.at = "skip"]
    <3>1. new \in CallRecords /\ new.at = "skip"
      BY Rests DEF CallRecords, SyncStages
    <3>2. call' = [call EXCEPT ![c] = new]
      BY <2>3
    <3> HIDE DEF new
    <3> QED BY <1>1, <2>1, <3>1, <3>2, OneCallMoves
  <2> QED BY <1>2, <2>2, <2>3 DEF StartSync
<1>3. CASE ~ TurnedAway(i, force)
  <2> DEFINE new == [Resting EXCEPT !.inst = i, !.at = "announce"]
  <2>1. new \in CallRecords /\ new.at = "announce" /\ new.inst = i
    BY Rests DEF CallRecords, SyncStages
  <2>2. /\ running' = [running EXCEPT ![i] = TRUE]
        /\ call' = [call EXCEPT ![c] = new]
        /\ unguarded \subseteq unguarded'
        /\ force /\ WorkersOf(i) # {} => i \in unguarded'
    BY <1>3 DEF StartSync
  <2> HIDE DEF new
  <2>3. SyncTyped'
    BY <2>1, <2>2 DEF SyncTyped
  <2>4. /\ running'[i] /\ \A j \in Instances \ {i} : running'[j] = running[j]
        /\ call'[c] = new /\ \A d \in Calls \ {c} : call'[d] = call[d]
    BY <2>2 DEF SyncTyped
  <2>5. Works(c)' /\ \A d \in Calls \ {c} : Works(d)' <=> Works(d)
    BY <2>1, <2>4 DEF Works
  <2>6. i \notin unguarded' => WorkersOf(i) = {}
    BY <1>3, <2>2 DEF FlagInv, FlagHolds, TurnedAway
  <2>7. /\ WorkersOf(i)' = WorkersOf(i) \cup {c}
        /\ \A j \in Instances \ {i} : WorkersOf(j)' = WorkersOf(j)
    BY <1>1, <2>1, <2>4, <2>5 DEF WorkersOf
  <2>8. ASSUME NEW j \in Instances, j \notin unguarded'
        PROVE  FlagHolds(j)'
    <3>1. FlagHolds(j)
      BY <2>2, <2>8 DEF FlagInv
    <3>2. CASE j = i
      BY <2>4, <2>6, <2>7, <2>8, <3>2 DEF FlagHolds
    <3>3. CASE j # i
      BY <1>1, <2>4, <2>7, <3>1, <3>3 DEF FlagHolds
    <3> QED BY <3>2, <3>3
  <2> QED BY <2>3, <2>8 DEF FlagInv
<1> QED BY <1>2, <1>3

\* The first write of a run raises: the run is over, its flag stays.
LEMMA SyncCut ==
    ASSUME SyncTyped, FlagInv, NEW c \in Calls, AnnounceRaises(c)
    PROVE  SyncTyped' /\ FlagInv'
<1>1. /\ Works(c) /\ UNCHANGED <<running, unguarded>>
      /\ call' = [call EXCEPT ![c] = Resting]
      /\ cut' = cut \cup {call[c].inst, "doc"}
  BY DEF AnnounceRaises, Works
<1>2. SyncTyped' /\ call'[c] = Resting /\ \A d \in Calls \ {c} : call'[d] = call[d]
  BY <1>1, Rests DEF SyncTyped
<1>3. ~ Works(c)' /\ \A d \in Calls \ {c} : Works(d)' <=> Works(d)
  BY <1>2, Rests DEF Works
<1>4. ASSUME NEW i \in Instances, i \notin unguarded
      PROVE  FlagHolds(i)'
  <2>1. FlagHolds(i)
    BY <1>4 DEF FlagInv
  <2>2. WorkersOf(i)' = WorkersOf(i) \ {c}
    BY <1>2, <1>3 DEF WorkersOf
  <2>3. c \in WorkersOf(i) => i \in cut'
    BY <1>1 DEF WorkersOf
  <2> QED BY <1>1, <2>1, <2>2, <2>3 DEF FlagHolds
<1> QED BY <1>1, <1>2, <1>4 DEF FlagInv

\* The finally resets the flag: on a guarded instance no other call works.
LEMMA SyncReleases ==
    ASSUME SyncTyped, FlagInv, NEW c \in Calls, ReleaseFlag(c)
    PROVE  SyncTyped' /\ FlagInv'
<1>1. /\ Works(c) /\ UNCHANGED <<unguarded, cut>>
      /\ call' = [call EXCEPT ![c] = Resting]
      /\ running' = [running EXCEPT ![call[c].inst] = FALSE]
  BY DEF ReleaseFlag, Works
<1>2. call[c].inst \in Instances
  BY DEF SyncTyped, CallRecords
<1>3. /\ SyncTyped' /\ call'[c] = Resting /\ \A d \in Calls \ {c} : call'[d] = call[d]
      /\ ~ running'[call[c].inst]
      /\ \A j \in Instances \ {call[c].inst} : running'[j] = running[j]
  BY <1>1, <1>2, Rests DEF SyncTyped
<1>4. ~ Works(c)' /\ \A d \in Calls \ {c} : Works(d)' <=> Works(d)
  BY <1>3, Rests DEF Works
<1>5. ASSUME NEW i \in Instances, i \notin unguarded
      PROVE  FlagHolds(i)'
  <2>1. FlagHolds(i)
    BY <1>5 DEF FlagInv
  <2>2. WorkersOf(i)' = WorkersOf(i) \ {c}
    BY <1>3, <1>4 DEF WorkersOf
  <2>3. CASE i = call[c].inst
    <3>1. c \in WorkersOf(i)
      BY <1>1, <2>3 DEF WorkersOf
    <3> QED BY <1>3, <2>1, <2>2, <2>3, <3>1 DEF FlagHolds
  <2>4. CASE i # call[c].inst
    <3>1. c \notin WorkersOf(i)
      BY <2>4 DEF WorkersOf
    <3> QED BY <1>1, <1>3, <2>1, <2>2, <2>4, <3>1 DEF FlagHolds
  <2> QED BY <2>3, <2>4
<1> QED BY <1>1, <1>3, <1>5 DEF FlagInv

\* The cache deletion resets the router's flag: an instance at work is not
\* guarded after it.
LEMMA CacheCleared ==
    ASSUME SyncTyped, FlagInv, ClearCache
    PROVE  SyncTyped' /\ FlagInv'
<1>1. /\ UNCHANGED call /\ cut' = cut \ {"router"}
      /\ running' = [running EXCEPT !["router"] = FALSE]
      /\ unguarded \subseteq unguarded'
      /\ WorkersOf("router") # {} => "router" \in unguarded'
  BY DEF ClearCache
<1>2. /\ SyncTyped' /\ ~ running'["router"]
      /\ \A j \in Instances \ {"router"} : running'[j] = running[j]
  BY <1>1 DEF SyncTyped, Instances
<1>3. \A i \in Instances : WorkersOf(i)' = WorkersOf(i)
  BY <1>1 DEF WorkersOf, Works
<1>4. ASSUME NEW i \in Instances, i \notin unguarded'
      PROVE  FlagHolds(i)'
  <2>1. FlagHolds(i)
    BY <1>1, <1>4 DEF FlagInv
  <2> QED BY <1>1, <1>2, <1>3, <1>4, <2>1 DEF FlagHolds
<1> QED BY <1>2, <1>4 DEF FlagInv

LEMMA FlagStarts ==
    ASSUME SyncInit
    PROVE  SyncTyped /\ FlagInv
<1>1. /\ running = [i \in Instances |-> FALSE]
      /\ call = [c \in Calls |-> Resting]
  BY DEF SyncInit
<1>2. SyncTyped /\ \A i \in Instances : ~ running[i] /\ WorkersOf(i) = {}
  BY <1>1, Rests DEF SyncTyped, WorkersOf, Works
<1> QED BY <1>1, <1>2 DEF FlagInv, FlagHolds

LEMMA FlagStep ==
    ASSUME SyncTyped, FlagInv, [SyncNext]_syncVars
    PROVE  SyncTyped' /\ FlagInv'
<1>1. CASE UNCHANGED syncVars
  BY <1>1 DEF syncVars, SyncTyped, FlagInv, FlagHolds, WorkersOf, Works
<1>2. CASE SyncRestart
  <2>1. /\ running' = [i \in Instances |-> FALSE]
        /\ call' = [c \in Calls |-> Resting]
    BY <1>2 DEF SyncRestart
  <2>2. SyncTyped' /\ \A i \in Instances : ~ running'[i] /\ WorkersOf(i)' = {}
    BY <2>1, Rests DEF SyncTyped, WorkersOf, Works
  <2> QED BY <2>1, <2>2 DEF FlagInv, FlagHolds
<1>3. CASE DeleteStatus
  BY <1>3 DEF DeleteStatus, SyncTyped, FlagInv, FlagHolds, WorkersOf, Works
<1>4. CASE ClearCache
  BY <1>4, CacheCleared
<1>5. ASSUME NEW c \in Calls,
             \/ \E i \in Instances, force \in BOOLEAN : StartSync(c, i, force)
             \/ SyncStep(c)
             \/ AnnounceRaises(c) \/ ReportRaises(c) \/ FailureRaises(c)
      PROVE  SyncTyped' /\ FlagInv'
  BY <1>5, SyncStarts, SyncGoesOn, SyncCut, SyncReleases DEF SyncStep
<1> QED BY <1>1, <1>2, <1>3, <1>4, <1>5 DEF SyncNext

\* A set whose members are all one another has at most one of them.
LEMMA AtMostOne ==
    ASSUME NEW S, \A x, y \in S : x = y
    PROVE  Cardinality(S) <= 1
<1>1. CASE S = {}
  BY <1>1, FS_EmptySet
<1>2. ASSUME NEW x \in S
      PROVE  Cardinality(S) <= 1
  <2>1. S = {x}
    OBVIOUS
  <2> QED BY <2>1, FS_Singleton
<1> QED BY <1>1, <1>2

LEMMA FlagFollows ==
    ASSUME SyncTyped, FlagInv
    PROVE  FlagMeansRunning
<1> SUFFICES ASSUME NEW i \in Instances, i \notin unguarded
             PROVE  /\ Cardinality(WorkersOf(i)) <= 1
                    /\ WorkersOf(i) # {} => running[i]
                    /\ running[i] /\ WorkersOf(i) = {} => i \in cut
  BY DEF FlagMeansRunning
<1>1. \A c, d \in WorkersOf(i) : c = d
  BY DEF FlagInv, FlagHolds
<1>2. Cardinality(WorkersOf(i)) <= 1
  BY <1>1, AtMostOne
<1>3. /\ WorkersOf(i) # {} => running[i]
      /\ running[i] /\ WorkersOf(i) = {} => i \in cut
  BY DEF FlagInv, FlagHolds
<1> QED BY <1>2, <1>3

-----------------------------------------------------------------------------
\* What a call has written, by what its record says: the batches above the one
\* it is at, unless it has counted an error.
Sound(k, done) ==
    /\ k.at = "write" =>
          /\ k.left \in 1 .. SyncBatches
          /\ k.errors = 0 => \A b \in 1 .. SyncBatches : b > k.left => b \in done
    /\ k.at = "report" /\ k.errors = 0 => \A b \in 1 .. SyncBatches : b \in done
    /\ k.says = "success" => \A b \in 1 .. SyncBatches : b \in done

Writings ==
    /\ stored \in [Calls -> SUBSET (1 .. SyncBatches)]
    /\ \A c \in Calls : Sound(call[c], stored[c])

\* Announced, and its end not written yet.
Pending(c) == call[c].at \in {"fetch", "write", "report", "fail"}

Announced ==
    statusDoc = "running" => "doc" \in cut \/ \E c \in Calls : Pending(c)

StatusInv == Writings /\ Announced

\* One call moves, and the status is not left at "running" by its last writer.
LEMMA OneCallWrites ==
    ASSUME SyncTyped, SyncTyped', StatusInv, NEW c \in Calls,
           \A d \in Calls \ {c} : call'[d] = call[d],
           NEW done \in SUBSET (1 .. SyncBatches), stored' = [stored EXCEPT ![c] = done],
           Sound(call'[c], done),
           "doc" \in cut => "doc" \in cut',
           \/ statusDoc' # "running"
           \/ "doc" \in cut'
           \/ Pending(c)'
           \/ statusDoc' = statusDoc /\ ~ Pending(c)
    PROVE  StatusInv'
<1>1. Writings'
  BY DEF StatusInv, Writings
<1>2. \A d \in Calls \ {c} : Pending(d)' <=> Pending(d)
  BY DEF Pending
<1>3. Announced'
  BY <1>2 DEF StatusInv, Announced
<1> QED BY <1>1, <1>3 DEF StatusInv

\* The same, for a step that writes no batch.
LEMMA NothingWritten ==
    ASSUME SyncTyped, SyncTyped', StatusInv, NEW c \in Calls,
           \A d \in Calls \ {c} : call'[d] = call[d],
           UNCHANGED stored, Sound(call'[c], stored[c]),
           "doc" \in cut => "doc" \in cut',
           \/ statusDoc' # "running"
           \/ "doc" \in cut'
           \/ Pending(c)'
           \/ statusDoc' = statusDoc /\ ~ Pending(c)
    PROVE  StatusInv'
<1>1. stored[c] \in SUBSET (1 .. SyncBatches) /\ stored' = [stored EXCEPT ![c] = stored[c]]
  BY DEF StatusInv, Writings
<1> QED BY <1>1, OneCallWrites

\* A batch that is done: written, or counted as an error.
LEMMA BatchEnds ==
    ASSUME SyncTyped, SyncTyped', StatusInv, NEW c \in Calls, NEW failed \in {0, 1},
           call[c].at = "write", BatchDone(c, failed),
           NEW done \in SUBSET (1 .. SyncBatches), stored' = [stored EXCEPT ![c] = done],
           stored[c] \subseteq done, failed = 0 => call[c].left \in done,
           UNCHANGED <<statusDoc, cut>>
    PROVE  StatusInv'
<1>1. call[c] \in CallRecords /\ SyncBatches \in Nat
  BY SyncAssumption DEF SyncTyped
<1>2. /\ \A d \in Calls \ {c} : call'[d] = call[d]
      /\ call'[c].left = call[c].left - 1 /\ call'[c].errors = call[c].errors + failed
      /\ call'[c].at = IF call[c].left = 1 THEN "report" ELSE "write"
      /\ call'[c].says = call[c].says
  BY <1>1 DEF SyncTyped, BatchDone, CallRecords
<1>3. /\ call[c].left \in 1 .. SyncBatches /\ call[c].errors \in Nat
      /\ call[c].errors = 0 => \A b \in 1 .. SyncBatches : b > call[c].left => b \in stored[c]
      /\ call[c].says = "success" => \A b \in 1 .. SyncBatches : b \in stored[c]
  BY <1>1 DEF StatusInv, Writings, Sound, CallRecords
<1>4. call'[c].errors = 0 => call[c].errors = 0 /\ failed = 0
  BY <1>2, <1>3
<1>5. call'[c].errors = 0 =>
        \A b \in 1 .. SyncBatches : b > call[c].left - 1 => b \in done
  BY <1>1, <1>3, <1>4
<1>6. Sound(call'[c], done)
  BY <1>1, <1>2, <1>3, <1>5 DEF Sound
<1>7. Pending(c)'
  BY <1>2 DEF Pending
<1> QED BY <1>2, <1>6, <1>7, OneCallWrites

LEMMA CallReports ==
    ASSUME SyncTyped, SyncTyped', StatusInv, NEW c \in Calls,
           \/ SyncStep(c) \/ AnnounceRaises(c) \/ ReportRaises(c) \/ FailureRaises(c)
    PROVE  StatusInv'
<1>1. call[c] \in CallRecords /\ Sound(call[c], stored[c]) /\ SyncBatches \in Nat \ {0}
  BY SyncAssumption DEF SyncTyped, StatusInv, Writings
<1>2. Sound(Resting, stored[c])
  BY DEF Resting, Sound
<1>3. CASE SkipRead(c) \/ ReleaseFlag(c) \/ AnnounceRaises(c)
  <2>1. /\ call' = [call EXCEPT ![c] = Resting] /\ UNCHANGED <<stored, statusDoc>>
        /\ ~ Pending(c) /\ cut \subseteq cut'
    BY <1>3 DEF SkipRead, ReleaseFlag, AnnounceRaises, Pending
  <2> QED BY <1>2, <2>1, NothingWritten DEF SyncTyped
<1>4. CASE Announce(c)
  <2>1. /\ UNCHANGED <<stored, cut>> /\ call'[c] = [call[c] EXCEPT !.at = "fetch"]
        /\ \A d \in Calls \ {c} : call'[d] = call[d]
    BY <1>4 DEF Announce, SyncAt, SyncTyped
  <2>2. Sound(call'[c], stored[c]) /\ Pending(c)'
    BY <1>1, <2>1 DEF Sound, Pending, CallRecords
  <2> QED BY <2>1, <2>2, NothingWritten
<1>5. CASE FetchList(c)
  <2>1. UNCHANGED <<stored, cut, statusDoc>>
    BY <1>5 DEF FetchList
  <2>2. CASE SyncAt(c, "fail")
    <3>1. /\ call'[c] = [call[c] EXCEPT !.at = "fail"]
          /\ \A d \in Calls \ {c} : call'[d] = call[d]
      BY <2>2 DEF SyncAt, SyncTyped
    <3>2. Sound(call'[c], stored[c]) /\ Pending(c)'
      BY <1>1, <3>1 DEF Sound, Pending, CallRecords
    <3> QED BY <2>1, <3>1, <3>2, NothingWritten
  <2>3. CASE call' = [call EXCEPT ![c].at = "write", ![c].left = SyncBatches]
    <3>1. /\ call'[c] = [call[c] EXCEPT !.at = "write", !.left = SyncBatches]
          /\ \A d \in Calls \ {c} : call'[d] = call[d]
      BY <2>3 DEF SyncTyped
    <3>2. Sound(call'[c], stored[c]) /\ Pending(c)'
      BY <1>1, <3>1 DEF Sound, Pending, CallRecords
    <3> QED BY <2>1, <3>1, <3>2, NothingWritten
  <2> QED BY <1>5, <2>2, <2>3 DEF FetchList
<1>6. CASE WriteBatch(c)
  <2> DEFINE full == stored[c] \cup {call[c].left}
  <2>1. /\ stored[c] \in SUBSET (1 .. SyncBatches) /\ full \in SUBSET (1 .. SyncBatches)
        /\ stored = [stored EXCEPT ![c] = stored[c]]
        /\ call[c].at = "write" /\ UNCHANGED <<statusDoc, cut>>
    BY <1>1, <1>6 DEF WriteBatch, StatusInv, Writings, Sound
  <2>2. /\ [stored EXCEPT ![c] = @ \cup {call[c].left}] = [stored EXCEPT ![c] = full]
        /\ stored[c] \subseteq full /\ call[c].left \in full
    OBVIOUS
  <2> HIDE DEF full
  <2>3. \E done \in {stored[c], full} :
           /\ stored' = [stored EXCEPT ![c] = done]
           /\ \/ done = full /\ BatchDone(c, 0)
              \/ BatchDone(c, 1)
              \/ call' = [call EXCEPT ![c].tries = @ + 1]
    BY <1>6, <2>1, <2>2 DEF WriteBatch, GivenUp
  <2>4. PICK done \in {stored[c], full} :
           /\ stored' = [stored EXCEPT ![c] = done]
           /\ \/ done = full /\ BatchDone(c, 0)
              \/ BatchDone(c, 1)
              \/ call' = [call EXCEPT ![c].tries = @ + 1]
    BY <2>3
  <2>5. done \in SUBSET (1 .. SyncBatches) /\ stored[c] \subseteq done
    BY <2>1, <2>2, <2>4
  <2>6. CASE done = full /\ BatchDone(c, 0)
    BY <2>1, <2>2, <2>4, <2>5, <2>6, BatchEnds
  <2>7. CASE BatchDone(c, 1)
    <3>1. 1 \in {0, 1} /\ (1 = 0 => call[c].left \in done)
      OBVIOUS
    <3> QED BY <2>1, <2>4, <2>5, <2>7, <3>1, BatchEnds
  <2>8. CASE call' = [call EXCEPT ![c].tries = @ + 1]
    <3>1. /\ call'[c] = [call[c] EXCEPT !.tries = @ + 1]
          /\ \A d \in Calls \ {c} : call'[d] = call[d]
      BY <2>8 DEF SyncTyped
    <3>2. /\ call'[c].at = "write" /\ call'[c].left = call[c].left
          /\ call'[c].errors = call[c].errors /\ call'[c].says = call[c].says
      BY <1>1, <2>1, <3>1 DEF CallRecords
    <3>3. Sound(call'[c], done) /\ Pending(c)'
      BY <1>1, <2>1, <2>5, <3>2 DEF Sound, Pending
    <3> QED BY <2>1, <2>4, <2>5, <3>1, <3>3, OneCallWrites
  <2> QED BY <2>4, <2>6, <2>7, <2>8
<1>7. CASE ReportEnd(c)
  <2>1. /\ UNCHANGED <<stored, cut>> /\ statusDoc' = SyncVerdict(c)
        /\ call'[c] = [call[c] EXCEPT !.at = "release", !.says = SyncVerdict(c)]
        /\ \A d \in Calls \ {c} : call'[d] = call[d]
        /\ call[c].at = "report"
    BY <1>7 DEF ReportEnd, Persist, SyncTyped
  <2>2. /\ call'[c].at = "release" /\ call'[c].says = SyncVerdict(c)
        /\ statusDoc' # "running"
    BY <1>1, <2>1 DEF CallRecords, SyncVerdict
  <2>3. Sound(call'[c], stored[c])
    BY <1>1, <2>1, <2>2 DEF Sound, SyncVerdict
  <2> QED BY <2>1, <2>2, <2>3, NothingWritten
<1>8. CASE ReportRaises(c)
  <2>1. /\ UNCHANGED <<stored, cut>> /\ call'[c] = [call[c] EXCEPT !.at = "fail"]
        /\ \A d \in Calls \ {c} : call'[d] = call[d]
    BY <1>8 DEF ReportRaises, SyncAt, SyncTyped
  <2>2. Sound(call'[c], stored[c]) /\ Pending(c)'
    BY <1>1, <2>1 DEF Sound, Pending, CallRecords
  <2> QED BY <2>1, <2>2, NothingWritten
<1>9. CASE ReportFailure(c)
  <2>1. /\ UNCHANGED <<stored, cut>> /\ statusDoc' = "failed"
        /\ call'[c] = [call[c] EXCEPT !.at = "release", !.says = "failed"]
        /\ \A d \in Calls \ {c} : call'[d] = call[d]
    BY <1>9 DEF ReportFailure, Persist, SyncTyped
  <2>2. Sound(call'[c], stored[c])
    BY <1>1, <2>1 DEF Sound, CallRecords
  <2> QED BY <2>1, <2>2, NothingWritten
<1>10. CASE FailureRaises(c)
  <2>1. /\ UNCHANGED stored /\ "doc" \in cut'
        /\ call'[c] = [call[c] EXCEPT !.at = "release"]
        /\ \A d \in Calls \ {c} : call'[d] = call[d]
    BY <1>10 DEF FailureRaises, SyncAt, SyncTyped
  <2>2. Sound(call'[c], stored[c])
    BY <1>1, <2>1 DEF Sound, CallRecords
  <2> QED BY <2>1, <2>2, NothingWritten
<1> QED BY <1>3, <1>4, <1>5, <1>6, <1>7, <1>8, <1>9, <1>10 DEF SyncStep

LEMMA StatusStep ==
    ASSUME SyncTyped, SyncTyped', StatusInv, [SyncNext]_syncVars
    PROVE  StatusInv'
<1>1. CASE UNCHANGED syncVars
  BY <1>1 DEF syncVars, StatusInv, Writings, Announced, Pending
<1>2. CASE SyncRestart
  <2>1. /\ call' = [c \in Calls |-> Resting] /\ UNCHANGED stored /\ "doc" \in cut'
    BY <1>2 DEF SyncRestart
  <2>2. \A c \in Calls : Sound(call'[c], stored'[c])
    BY <2>1 DEF Resting, Sound
  <2> QED BY <2>1, <2>2 DEF StatusInv, Writings, Announced
<1>3. CASE DeleteStatus
  BY <1>3 DEF DeleteStatus, StatusInv, Writings, Announced
<1>4. CASE ClearCache
  BY <1>4 DEF ClearCache, StatusInv, Writings, Announced, Pending
<1>5. ASSUME NEW c \in Calls, NEW i \in Instances, NEW force \in BOOLEAN,
             StartSync(c, i, force)
      PROVE  StatusInv'
  <2>1. ~ Pending(c) /\ UNCHANGED <<statusDoc, cut>>
    BY <1>5 DEF StartSync, Pending
  <2>2. CASE UNCHANGED <<call, stored>>
    BY <2>1, <2>2 DEF StatusInv, Writings, Announced, Pending
  <2>3. ASSUME NEW stage \in {"skip", "announce"}, NEW done \in {stored[c], {}},
               call' = [call EXCEPT ![c] = [Resting EXCEPT !.inst = i, !.at = stage]],
               stored' = [stored EXCEPT ![c] = done]
        PROVE  StatusInv'
    <3>1. /\ call'[c] = [Resting EXCEPT !.inst = i, !.at = stage]
          /\ \A d \in Calls \ {c} : call'[d] = call[d]
      BY <2>3 DEF SyncTyped
    <3>2. Sound(call'[c], done)
      BY <3>1 DEF Sound, Resting
    <3>3. done \in SUBSET (1 .. SyncBatches)
      BY DEF StatusInv, Writings
    <3> QED BY <2>1, <2>3, <3>1, <3>2, <3>3, OneCallWrites
  <2>4. stored = [stored EXCEPT ![c] = stored[c]]
    BY DEF StatusInv, Writings
  <2> QED BY <1>5, <2>2, <2>3, <2>4 DEF StartSync
<1> QED BY <1>1, <1>2, <1>3, <1>4, <1>5, CallReports DEF SyncNext

LEMMA StatusStarts ==
    ASSUME SyncInit
    PROVE  StatusInv
<1>1. \A c \in Calls : Sound(call[c], stored[c])
  BY DEF SyncInit, Resting, Sound
<1> QED BY <1>1 DEF SyncInit, StatusInv, Writings, Announced

LEMMA StatusFollows ==
    ASSUME SyncTyped, StatusInv
    PROVE  StatusTells
<1>1. StatusSettles
  BY DEF StatusSettles, StatusInv, Announced, Pending, Works
<1>2. SuccessIsComplete
  <2> SUFFICES ASSUME NEW c \in Calls, call[c].says = "success"
               PROVE  stored[c] = 1 .. SyncBatches
    BY DEF SuccessIsComplete
  <2> QED BY DEF StatusInv, Writings, Sound
<1> QED BY <1>1, <1>2 DEF StatusTells

-----------------------------------------------------------------------------
\* Neither promise needs the fairness of SyncSpec.
LEMMA FlagLasts == SyncInit /\ [][SyncNext]_syncVars => []FlagMeansRunning
<1>1. SyncInit => SyncTyped /\ FlagInv
  BY FlagStarts
<1>2. (SyncTyped /\ FlagInv) /\ [SyncNext]_syncVars => (SyncTyped /\ FlagInv)'
  BY FlagStep
<1>3. SyncTyped /\ FlagInv => FlagMeansRunning
  BY FlagFollows
<1> QED BY <1>1, <1>2, <1>3, PTL

LEMMA StatusLasts == SyncInit /\ [][SyncNext]_syncVars => []StatusTells
<1>1. SyncInit => (SyncTyped /\ FlagInv) /\ StatusInv
  BY FlagStarts, StatusStarts
<1>2. ((SyncTyped /\ FlagInv) /\ StatusInv) /\ [SyncNext]_syncVars
      => ((SyncTyped /\ FlagInv) /\ StatusInv)'
  BY FlagStep, StatusStep
<1>3. (SyncTyped /\ FlagInv) /\ StatusInv => StatusTells
  BY StatusFollows
<1> QED BY <1>1, <1>2, <1>3, PTL

\* Whatever is forced, retried, cut short or cleared: an instance nobody forced
\* or cleared in mid-run runs one synchronisation at a time, with its flag set,
\* and a flag without a run is that of one whose first write raised
\* (run_full_sync, the cache deletion of the router).
THEOREM FlagIsTrue == SyncSpec => []FlagMeansRunning
BY FlagLasts, PTL DEF SyncSpec

\* When no run is at work the status document does not say "running", unless the
\* write of its end was lost, and a run that says "success" has written every
\* batch, whatever times out and is tried again
\* (_execute_bulk_write_with_retry, _persist_status).
THEOREM StatusIsTrue == SyncSpec => []StatusTells
BY StatusLasts, PTL DEF SyncSpec

-----------------------------------------------------------------------------
\* The records of a scheduled job, as long as nothing overlaps.

Running == With({"running"})

\* The listener of n has yet to close the record of its run.
Closes(n) == listeners[n].at \in {"find", "update"}

RecordType == [status : RunVerdicts \cup {"running", "deleted"}, cancel : BOOLEAN, age : Nat,
               of : Nat]

JobsTyped ==
    /\ records \in Seq(RecordType) /\ nextRun \in Nat /\ unrecorded \in {0, 1}
    /\ listeners \in [RunIds -> [at : {"none", "find", "update", "insert"},
                                 status : RunVerdicts, target : Nat]]
    /\ outcome \in [RunIds -> RunVerdicts \cup {"none", "lost"}]
    /\ stoppedBy \in [RunIds -> Nat]
    /\ order \in [what : {"none", "cancel", "mark", "delete"}, target : Nat]
    /\ current \in [n : Nat, at : {"idle", "start", "check", "batch", "report"}, left : Int]

\* A run in progress has not ended, nor has one to come; what a listener is
\* told is how its run ended.
RunsFollow ==
    /\ current # NoRun => current.n \in RunIds /\ current.n < nextRun /\ current.at # "idle"
    /\ \A n \in RunIds : n >= nextRun \/ (current # NoRun /\ n = current.n) =>
          outcome[n] = "none" /\ listeners[n] = NoListener
    /\ \A n \in RunIds : listeners[n].at # "none" =>
          outcome[n] \in RunVerdicts /\ listeners[n].status = outcome[n]

\* A trigger, its record, the run and the closing of the record follow one
\* another.
TriggersFollow ==
    /\ due => current = NoRun
    /\ unrecorded = 1 => Running = {} /\ (due \/ current # NoRun)
    /\ \A n \in RunIds : Closes(n) =>
          /\ ~ due /\ current = NoRun /\ unrecorded = 0
          /\ \A m \in RunIds : Closes(m) => m = n
          /\ listeners[n].at = "update" => listeners[n].target \in Running

\* There is one running record at most, young enough for its listener, and it
\* is that of the run triggered, in progress or about to be recorded.
RunningFollows ==
    /\ \A i, j \in Running : i = j
    /\ \A i \in Running :
          /\ records[i].age <= Recent
          /\ \/ due /\ records[i].of = nextRun
             \/ current # NoRun /\ records[i].of = current.n
             \/ \E n \in RunIds : Closes(n)

StopsFollow ==
    \A n \in RunIds : stoppedBy[n] # 0 =>
        stoppedBy[n] \in DOMAIN records /\ records[stoppedBy[n]].of = n

Told(v) == {n \in RunIds : outcome[n] = v /\ listeners[n].at = "none"}

RecordsCount == \A v \in RunVerdicts : Cardinality(With({v})) = Cardinality(Told(v))

OrderlyInv ==
    /\ JobsTyped /\ RunsFollow /\ TriggersFollow /\ RunningFollows /\ StopsFollow
    /\ RecordsCount

\* A job that reports its progress is never stopped by a flag.
Unstopped ==
    /\ "at" \in DOMAIN current /\ current.at # "check"
    /\ \A n \in RunIds : stoppedBy[n] = 0

JobInv ==
    orderly => IF kind = "reports"
               THEN Unstopped
               ELSE OrderlyInv

\* The records keep their number, and each what it says of its run.
SameRecords ==
    /\ records' \in Seq(RecordType) /\ DOMAIN records' = DOMAIN records
    /\ \A i \in DOMAIN records : records'[i].status = records[i].status
                                 /\ records'[i].of = records[i].of

LEMMA SameWith ==
    ASSUME SameRecords
    PROVE  \A s : With({s})' = With({s})
BY DEF SameRecords, With

LEMMA WithInDomain ==
    ASSUME JobsTyped, NEW s
    PROVE  /\ With({s}) \subseteq DOMAIN records /\ DOMAIN records = 1 .. Len(records)
           /\ Len(records) \in Nat /\ IsFiniteSet(With({s}))
<1>1. Len(records) \in Nat /\ DOMAIN records = 1 .. Len(records)
  BY LenProperties DEF JobsTyped
<1>2. With({s}) \subseteq DOMAIN records
  BY DEF With
<1>3. IsFiniteSet(1 .. Len(records))
  BY <1>1, FS_Interval
<1> QED BY <1>1, <1>2, <1>3, FS_Subset

LEMMA ToldFinite ==
    ASSUME JobsAssumption, NEW v
    PROVE  IsFiniteSet(Told(v))
<1>1. IsFiniteSet(RunIds)
  BY FS_Interval DEF RunIds, JobsAssumption
<1> QED BY <1>1, FS_Subset DEF Told

\* A record more.
LEMMA InsertedIs ==
    ASSUME JobsTyped, NEW status \in RunVerdicts \cup {"running", "deleted"}, NEW of \in Nat,
           Inserted(status, of)
    PROVE  LET k == Len(records) + 1 IN
           /\ records' \in Seq(RecordType) /\ k \notin DOMAIN records
           /\ DOMAIN records' = DOMAIN records \cup {k}
           /\ \A i \in DOMAIN records : records'[i] = records[i]
           /\ records'[k] = Record(status, of)
           /\ With({status})' = With({status}) \cup {k}
           /\ \A s : s # status => With({s})' = With({s})
<1> DEFINE k == Len(records) + 1
           rec == Record(status, of)
<1>1. rec \in RecordType /\ rec.status = status
  BY DEF Record, RecordType
<1>2. records \in Seq(RecordType) /\ records' = Append(records, rec)
  BY DEF JobsTyped, Inserted
<1>3. Len(records) \in Nat /\ DOMAIN records = 1 .. Len(records)
  BY <1>2, LenProperties
<1> HIDE DEF rec
<1>4. /\ records' \in Seq(RecordType) /\ Len(records') = k /\ records'[k] = rec
      /\ \A i \in 1 .. Len(records) : records'[i] = records[i]
  BY <1>1, <1>2, AppendProperties
<1>5. DOMAIN records' = DOMAIN records \cup {k} /\ k \notin DOMAIN records
  <2>1. DOMAIN records' = 1 .. k
    BY <1>4, LenProperties
  <2>2. 1 .. k = (1 .. Len(records)) \cup {k} /\ k \notin 1 .. Len(records)
    BY <1>3
  <2> QED BY <1>3, <2>1, <2>2
<1> HIDE DEF k
<1>6. With({status})' = With({status}) \cup {k}
  BY <1>1, <1>3, <1>4, <1>5 DEF With
<1>7. \A s : s # status => With({s})' = With({s})
  BY <1>1, <1>3, <1>4, <1>5 DEF With
<1> QED BY <1>3, <1>4, <1>5, <1>6, <1>7 DEF k, rec

\* A record is closed.
LEMMA RecordedIs ==
    ASSUME JobsTyped, NEW i \in DOMAIN records, records[i].status = "running",
           NEW status \in RunVerdicts, Recorded(i, status)
    PROVE  /\ records' \in Seq(RecordType) /\ DOMAIN records' = DOMAIN records
           /\ \A j \in DOMAIN records : records'[j].of = records[j].of
           /\ Running' = Running \ {i}
           /\ With({status})' = With({status}) \cup {i} /\ i \notin With({status})
           /\ \A s \in RunVerdicts : s # status => With({s})' = With({s})
<1>1. records \in Seq(RecordType) /\ records' = [records EXCEPT ![i].status = status]
  BY DEF JobsTyped, Recorded
<1>2. PICK rec : rec = [records[i] EXCEPT !.status = status]
  OBVIOUS
<1>3. records[i] \in RecordType
  BY <1>1, ElementOfSeq, LenProperties
<1>4. rec \in RecordType /\ rec.status = status /\ rec.of = records[i].of
  BY <1>2, <1>3 DEF RecordType
<1>5. records' = [records EXCEPT ![i] = rec]
  BY <1>1, <1>2
<1>6. DOMAIN records' = DOMAIN records /\ records'[i] = rec
      /\ \A j \in DOMAIN records : j # i => records'[j] = records[j]
  BY <1>5
<1>7. records' \in Seq(RecordType)
  BY <1>1, <1>4, <1>5, ExceptSeq, LenProperties
<1>8. \A j \in DOMAIN records : records'[j].of = records[j].of
  BY <1>4, <1>6
<1>9. "running" \notin RunVerdicts
  BY DEF RunVerdicts
<1>10. Running' = Running \ {i}
  BY <1>4, <1>6, <1>9 DEF Running, With
<1>11. With({status})' = With({status}) \cup {i} /\ i \notin With({status})
  BY <1>4, <1>6, <1>9 DEF With
<1>12. \A s \in RunVerdicts : s # status => With({s})' = With({s})
  BY <1>4, <1>6, <1>9 DEF With
<1> QED BY <1>6, <1>7, <1>8, <1>10, <1>11, <1>12

-----------------------------------------------------------------------------
\* Each group of steps keeps the invariant of an orderly history.

OrderType == [what : {"none", "cancel", "mark", "delete"}, target : Nat]

RunType == [n : Nat, at : {"idle", "start", "check", "batch", "report"}, left : Int]

\* What neither starts nor ends anything, and lets no running record get too old.
LEMMA NothingFollows ==
    ASSUME OrderlyInv, SameRecords, \A i \in Running : records'[i].age <= Recent,
           UNCHANGED <<nextRun, current, listeners, unrecorded, outcome, stoppedBy>>,
           due' <=> due, order' \in OrderType
    PROVE  OrderlyInv'
<1>1. \A s : With({s})' = With({s})
  BY SameWith
<1>2. Running' = Running
  BY <1>1 DEF Running
<1>3. \A n : Closes(n)' = Closes(n)
  BY DEF Closes
<1>4. JobsTyped'
  BY DEF OrderlyInv, JobsTyped, SameRecords, OrderType
<1>5. RunsFollow'
  BY DEF OrderlyInv, RunsFollow
<1>6. TriggersFollow'
  BY <1>2, <1>3 DEF OrderlyInv, TriggersFollow
<1>7. \A i \in Running : i \in DOMAIN records
  BY DEF Running, With
<1>8. RunningFollows'
  BY <1>2, <1>3, <1>7 DEF OrderlyInv, RunningFollows, SameRecords
<1>9. StopsFollow'
  BY DEF OrderlyInv, StopsFollow, SameRecords
<1>10. \A v : Told(v)' = Told(v)
  BY DEF Told
<1>11. RecordsCount'
  BY <1>1, <1>10 DEF OrderlyInv, RecordsCount
<1> QED BY <1>4, <1>5, <1>6, <1>8, <1>9, <1>11 DEF OrderlyInv

LEMMA RecordsStay ==
    ASSUME OrderlyInv, UNCHANGED records
    PROVE  SameRecords /\ \A i \in Running : records'[i].age <= Recent
BY DEF OrderlyInv, JobsTyped, SameRecords, RunningFollows

\* A run starts, when nothing of the one before is left to be done.
LEMMA RunStarts ==
    ASSUME JobsAssumption, OrderlyInv, Fire, orderly'
    PROVE  OrderlyInv'
<1>1. /\ current = NoRun /\ nextRun \in RunIds /\ nextRun' = nextRun + 1 /\ due' = FALSE
      /\ current' = [n |-> nextRun, at |-> "start", left |-> Batches] /\ Quiet
      /\ UNCHANGED <<records, listeners, unrecorded, order, outcome, stoppedBy>>
  BY DEF Fire
<1>2. Running' = Running /\ (\A s : With({s})' = With({s})) /\ (\A v : Told(v)' = Told(v))
  BY <1>1 DEF Running, With, Told
<1>3. \A n \in RunIds : listeners[n].at = "none" /\ ~ Closes(n) /\ ~ Closes(n)'
  BY <1>1 DEF Quiet, Closes
<1>4. RunIds \subseteq Nat /\ Batches \in Int
  BY DEF RunIds, JobsAssumption
<1>5. current' # NoRun /\ current'.n = nextRun /\ current'.at = "start" /\ current' \in RunType
  BY <1>1, <1>4 DEF NoRun, RunType
<1>6. JobsTyped'
  BY <1>1, <1>4, <1>5 DEF OrderlyInv, JobsTyped, RunType
<1>7. RunsFollow'
  <2>1. current'.n \in RunIds /\ current'.n < nextRun' /\ current'.at # "idle"
    BY <1>1, <1>4, <1>5
  <2>2. \A n \in RunIds : n >= nextRun' \/ n = nextRun =>
              outcome[n] = "none" /\ listeners[n] = NoListener
    BY <1>1, <1>4 DEF OrderlyInv, RunsFollow
  <2>3. \A n \in RunIds : n >= nextRun' \/ (current' # NoRun /\ n = current'.n) =>
              outcome'[n] = "none" /\ listeners'[n] = NoListener
    BY <1>1, <1>5, <2>2
  <2>4. \A n \in RunIds : listeners'[n].at = "none"
    BY <1>1, <1>3
  <2> QED BY <2>1, <2>3, <2>4 DEF RunsFollow
<1>8. TriggersFollow'
  BY <1>1, <1>2, <1>3, <1>5 DEF OrderlyInv, TriggersFollow
<1>9. RunningFollows'
  <2>1. \A i \in Running : due /\ records[i].of = nextRun
    BY <1>1, <1>3 DEF OrderlyInv, RunningFollows
  <2> QED BY <1>1, <1>2, <1>5, <2>1 DEF OrderlyInv, RunningFollows
<1>10. StopsFollow'
  BY <1>1 DEF OrderlyInv, StopsFollow
<1>11. RecordsCount'
  BY <1>2 DEF OrderlyInv, RecordsCount
<1> QED BY <1>6, <1>7, <1>8, <1>9, <1>10, <1>11 DEF OrderlyInv

\* A run is missed and will be recorded as that.
LEMMA RunMissed ==
    ASSUME JobsAssumption, OrderlyInv, Misfire, orderly'
    PROVE  OrderlyInv'
<1>1. /\ nextRun \in RunIds /\ nextRun' = nextRun + 1 /\ ~ due /\ ~ due'
      /\ outcome' = [outcome EXCEPT ![nextRun] = "missed"]
      /\ listeners' = [listeners EXCEPT ![nextRun].at = "insert"]
      /\ UNCHANGED <<records, current, stoppedBy, unrecorded, order>>
  BY DEF Misfire
<1>2. Running' = Running /\ \A s : With({s})' = With({s})
  BY <1>1 DEF Running, With
<1>3. /\ RunIds \subseteq Nat /\ nextRun \in Nat
      /\ listeners[nextRun] = NoListener /\ outcome[nextRun] = "none"
  <2>1. RunIds \subseteq Nat
    BY DEF RunIds, JobsAssumption
  <2>2. nextRun >= nextRun
    BY <1>1, <2>1
  <2> QED BY <1>1, <2>1, <2>2 DEF OrderlyInv, RunsFollow
<1>4. PICK new : new = [NoListener EXCEPT !.at = "insert"]
  OBVIOUS
<1>5. new.at = "insert" /\ new.status = "missed" /\ new.target = 0
  BY <1>4 DEF NoListener
<1>6. new \in [at : {"none", "find", "update", "insert"}, status : RunVerdicts, target : Nat]
  BY <1>4 DEF NoListener, RunVerdicts
<1>7. listeners' = [listeners EXCEPT ![nextRun] = new]
  BY <1>1, <1>3, <1>4
<1>8. JobsTyped'
  <2>1. nextRun' \in Nat
    BY <1>1, <1>3
  <2>2. "missed" \in RunVerdicts
    BY DEF RunVerdicts
  <2>3. outcome' \in [RunIds -> RunVerdicts \cup {"none", "lost"}]
    BY <1>1, <2>2 DEF OrderlyInv, JobsTyped
  <2>4. listeners' \in [RunIds -> [at : {"none", "find", "update", "insert"},
                                  status : RunVerdicts, target : Nat]]
    BY <1>6, <1>7 DEF OrderlyInv, JobsTyped
  <2> QED BY <1>1, <2>1, <2>3, <2>4 DEF OrderlyInv, JobsTyped
<1>9. \A n \in RunIds : /\ n # nextRun => listeners'[n] = listeners[n] /\ outcome'[n] = outcome[n]
                        /\ listeners'[nextRun] = new /\ outcome'[nextRun] = "missed"
  BY <1>1, <1>7 DEF OrderlyInv, JobsTyped
<1>10. \A n \in RunIds : Closes(n)' = Closes(n)
  BY <1>1, <1>3, <1>5, <1>9 DEF Closes, NoListener
<1>11. RunsFollow'
  <2>1. current # NoRun => current.n \in RunIds /\ current.n < nextRun' /\ current.at # "idle"
                           /\ current.n # nextRun
    BY <1>1, <1>3 DEF OrderlyInv, RunsFollow
  <2>2. \A n \in RunIds : n >= nextRun' \/ (current # NoRun /\ n = current.n) =>
            n # nextRun /\ (n >= nextRun \/ (current # NoRun /\ n = current.n))
    BY <1>1, <1>3, <2>1
  <2>3. \A n \in RunIds : n >= nextRun' \/ (current # NoRun /\ n = current.n) =>
            outcome'[n] = "none" /\ listeners'[n] = NoListener
    BY <1>9, <2>2 DEF OrderlyInv, RunsFollow
  <2>4. \A n \in RunIds : listeners'[n].at # "none" =>
            outcome'[n] \in RunVerdicts /\ listeners'[n].status = outcome'[n]
    <3>1. "missed" \in RunVerdicts
      BY DEF RunVerdicts
    <3>2. SUFFICES ASSUME NEW n \in RunIds, listeners'[n].at # "none"
                   PROVE  outcome'[n] \in RunVerdicts /\ listeners'[n].status = outcome'[n]
      OBVIOUS
    <3>3. CASE n = nextRun
      BY <1>1, <1>5, <1>9, <3>1, <3>3
    <3>4. CASE n # nextRun
      BY <1>1, <1>9, <3>2, <3>4 DEF OrderlyInv, RunsFollow
    <3> QED BY <3>3, <3>4
  <2> QED BY <1>1, <2>1, <2>3, <2>4 DEF RunsFollow
<1>12. TriggersFollow'
  BY <1>1, <1>2, <1>5, <1>9, <1>10 DEF OrderlyInv, TriggersFollow
<1>13. RunningFollows'
  BY <1>1, <1>2, <1>10 DEF OrderlyInv, RunningFollows
<1>14. StopsFollow'
  BY <1>1 DEF OrderlyInv, StopsFollow
<1>15. \A v \in RunVerdicts : Told(v)' = Told(v)
  BY <1>1, <1>3, <1>5, <1>9 DEF Told, RunVerdicts
<1>16. RecordsCount'
  BY <1>2, <1>15 DEF OrderlyInv, RecordsCount
<1> QED BY <1>8, <1>11, <1>12, <1>13, <1>14, <1>16 DEF OrderlyInv

\* A run goes on.
LEMMA RunGoesOn ==
    ASSUME OrderlyInv, current # NoRun, current' \in RunType, current'.n = current.n,
           current' # NoRun, current'.at # "idle",
           UNCHANGED <<records, nextRun, due, listeners, unrecorded, outcome, stoppedBy, order>>
    PROVE  OrderlyInv'
<1>1. Running' = Running /\ (\A s : With({s})' = With({s})) /\ (\A v : Told(v)' = Told(v))
  BY DEF Running, With, Told
<1>2. \A n \in RunIds : Closes(n)' = Closes(n)
  BY DEF Closes
<1>3. JobsTyped'
  BY DEF OrderlyInv, JobsTyped, RunType
<1>4. RunsFollow'
  BY DEF OrderlyInv, RunsFollow
<1>5. TriggersFollow'
  BY <1>1, <1>2 DEF OrderlyInv, TriggersFollow
<1>6. RunningFollows'
  BY <1>1, <1>2 DEF OrderlyInv, RunningFollows
<1>7. StopsFollow'
  BY DEF OrderlyInv, StopsFollow
<1>8. RecordsCount'
  BY <1>1 DEF OrderlyInv, RecordsCount
<1> QED BY <1>3, <1>4, <1>5, <1>6, <1>7, <1>8 DEF OrderlyInv

\* The flag of a running record is that of the run in progress.
LEMMA RunEnds ==
    ASSUME JobsAssumption, OrderlyInv, current # NoRun, NEW verdict \in RunVerdicts, End(verdict),
           orderly',
           \/ UNCHANGED stoppedBy
           \/ \E i \in Running : stoppedBy' = [stoppedBy EXCEPT ![current.n] = i],
           UNCHANGED <<records, nextRun, due, unrecorded, order>>
    PROVE  OrderlyInv'
<1>1. PICK k : k = current.n
  OBVIOUS
<1>2. PICK new : new = [at |-> "find", status |-> verdict, target |-> 0]
  OBVIOUS
<1>3. /\ current' = NoRun /\ outcome' = [outcome EXCEPT ![k] = verdict]
      /\ listeners' = [listeners EXCEPT ![k] = new] /\ unrecorded = 0 /\ Quiet
  BY <1>1, <1>2 DEF End
<1>4. /\ k \in RunIds /\ k < nextRun /\ outcome[k] = "none" /\ listeners[k] = NoListener
      /\ ~ due
  BY <1>1 DEF OrderlyInv, RunsFollow, TriggersFollow
<1>5. new.at = "find" /\ new.status = verdict
      /\ new \in [at : {"none", "find", "update", "insert"}, status : RunVerdicts, target : Nat]
  BY <1>2
<1>6. Running' = Running /\ \A s : With({s})' = With({s})
  BY DEF Running, With
<1>7. RunIds \subseteq Nat /\ DOMAIN records \subseteq Nat /\ Running \subseteq DOMAIN records
  <2>1. RunIds \subseteq Nat
    BY DEF RunIds, JobsAssumption
  <2>2. DOMAIN records = 1 .. Len(records) /\ Len(records) \in Nat
    BY LenProperties DEF OrderlyInv, JobsTyped
  <2> QED BY <2>1, <2>2 DEF Running, With
<1>8. JobsTyped'
  <2>1. stoppedBy' \in [RunIds -> Nat]
    BY <1>7 DEF OrderlyInv, JobsTyped
  <2>2. NoRun \in RunType
    BY DEF NoRun, RunType
  <2> QED BY <1>3, <1>4, <1>5, <2>1, <2>2 DEF OrderlyInv, JobsTyped, RunType
<1>9. /\ \A n \in RunIds : n # k => listeners'[n] = listeners[n] /\ outcome'[n] = outcome[n]
      /\ listeners'[k] = new /\ outcome'[k] = verdict
  BY <1>3, <1>4 DEF OrderlyInv, JobsTyped
<1>10. \A n \in RunIds : Closes(n)' <=> n = k
  BY <1>3, <1>5, <1>9 DEF Closes, Quiet
<1>11. RunsFollow'
  <2>1. \A n \in RunIds : n >= nextRun => n # k
    BY <1>4, <1>7 DEF OrderlyInv, JobsTyped
  <2>2. \A n \in RunIds : n >= nextRun => outcome'[n] = "none" /\ listeners'[n] = NoListener
    BY <1>9, <2>1 DEF OrderlyInv, RunsFollow
  <2>3. \A n \in RunIds : listeners'[n].at # "none" =>
            outcome'[n] \in RunVerdicts /\ listeners'[n].status = outcome'[n]
    BY <1>5, <1>9 DEF OrderlyInv, RunsFollow
  <2> QED BY <1>3, <2>2, <2>3 DEF RunsFollow
<1>12. TriggersFollow'
  BY <1>3, <1>4, <1>5, <1>9, <1>10 DEF TriggersFollow
<1>13. RunningFollows'
  BY <1>4, <1>6, <1>10 DEF OrderlyInv, RunningFollows
<1>14. StopsFollow'
  <2>1. CASE UNCHANGED stoppedBy
    BY <2>1 DEF OrderlyInv, StopsFollow
  <2>2. ASSUME NEW i \in Running, stoppedBy' = [stoppedBy EXCEPT ![current.n] = i]
        PROVE  StopsFollow'
    <3>1. records[i].of = k /\ i \in DOMAIN records
      BY <1>1, <1>3, <1>4, <1>7 DEF OrderlyInv, RunningFollows, Quiet, Closes
    <3>2. \A n \in RunIds : stoppedBy'[n] = IF n = k THEN i ELSE stoppedBy[n]
      BY <1>1, <2>2 DEF OrderlyInv, JobsTyped
    <3> QED BY <3>1, <3>2 DEF OrderlyInv, StopsFollow
  <2> QED BY <2>1, <2>2
<1>15. \A v \in RunVerdicts : Told(v)' = Told(v)
  BY <1>4, <1>5, <1>9 DEF Told, RunVerdicts
<1>16. RecordsCount'
  BY <1>6, <1>15 DEF OrderlyInv, RecordsCount
<1> QED BY <1>8, <1>11, <1>12, <1>13, <1>14, <1>16 DEF OrderlyInv

\* The listener finds the record of its run, if the run has one.
LEMMA ListenerFinds ==
    ASSUME JobsAssumption, OrderlyInv, NEW n \in RunIds, Find(n)
    PROVE  OrderlyInv'
<1>1. /\ listeners[n].at = "find"
      /\ UNCHANGED <<records, due, current, nextRun, outcome, stoppedBy, unrecorded, order>>
  BY DEF Find, jobRun
<1>2. Candidates = Running
  BY DEF Candidates, Running, OrderlyInv, RunningFollows
<1>3. PICK new : new = [listeners[n] EXCEPT !.at = IF Running = {} THEN "insert" ELSE "update",
                                            !.target = Newest(Running)]
  OBVIOUS
<1>4. listeners' = [listeners EXCEPT ![n] = new]
  BY <1>2, <1>3 DEF Find, OrderlyInv, JobsTyped
<1>5. Newest(Running) \in Nat /\ (Running # {} => Newest(Running) \in Running)
  <2>1. Len(records) \in Nat /\ Running \in SUBSET (1 .. Len(records))
    BY WithInDomain DEF OrderlyInv, Running
  <2>2. Running # {} => Max(Running) \in Running
    BY <2>1, MaxIsIn
  <2>3. Running # {} => Newest(Running) = Max(Running)
    BY DEF Newest
  <2>4. Running = {} => Newest(Running) = 0
    BY DEF Newest
  <2>5. CASE Running = {}
    BY <2>4, <2>5
  <2>6. CASE Running # {}
    <3>1. Newest(Running) \in Running
      BY <2>2, <2>3, <2>6
    <3>2. \A i \in 1 .. Len(records) : i \in Nat
      BY <2>1
    <3>3. Newest(Running) \in Nat
      BY <2>1, <3>1, <3>2
    <3> QED BY <3>1, <3>3
  <2> QED BY <2>5, <2>6
<1>6. /\ new.at = IF Running = {} THEN "insert" ELSE "update"
      /\ new.status = listeners[n].status /\ new.target = Newest(Running)
  BY <1>3 DEF OrderlyInv, JobsTyped
<1>7. new \in [at : {"none", "find", "update", "insert"}, status : RunVerdicts, target : Nat]
  <2>1. PICK stage : stage = IF Running = {} THEN "insert" ELSE "update"
    OBVIOUS
  <2>2. stage \in {"none", "find", "update", "insert"}
    BY <2>1
  <2>3. new = [listeners[n] EXCEPT !.at = stage, !.target = Newest(Running)]
    BY <1>3, <2>1
  <2>4. listeners[n] \in [at : {"none", "find", "update", "insert"}, status : RunVerdicts,
                         target : Nat]
    BY DEF OrderlyInv, JobsTyped
  <2>5. PICK target : target = Newest(Running)
    OBVIOUS
  <2>6. new = [listeners[n] EXCEPT !.at = stage, !.target = target] /\ target \in Nat
    BY <1>5, <2>3, <2>5
  <2> QED BY <2>2, <2>4, <2>6
<1>8. JobsTyped'
  BY <1>1, <1>4, <1>7 DEF OrderlyInv, JobsTyped
<1>9. listeners'[n] = new /\ \A m \in RunIds : m # n => listeners'[m] = listeners[m]
  BY <1>4 DEF OrderlyInv, JobsTyped
<1>10. Running' = Running /\ \A s : With({s})' = With({s})
  BY <1>1 DEF Running, With
<1>11. \A m \in RunIds : Closes(m) <=> m = n
  BY <1>1 DEF OrderlyInv, TriggersFollow, Closes
<1>12. \A m \in RunIds : Closes(m)' <=> m = n /\ Running # {}
  BY <1>6, <1>9, <1>11 DEF Closes
<1>13. RunsFollow'
  <2>1. \A m \in RunIds : m >= nextRun \/ (current # NoRun /\ m = current.n) => m # n
    BY <1>1 DEF OrderlyInv, RunsFollow, NoListener
  <2>2. outcome[n] \in RunVerdicts /\ new.status = outcome[n]
    BY <1>1, <1>6 DEF OrderlyInv, RunsFollow
  <2> QED BY <1>1, <1>9, <2>1, <2>2 DEF OrderlyInv, RunsFollow
<1>14. TriggersFollow'
  BY <1>1, <1>5, <1>6, <1>9, <1>10, <1>11, <1>12 DEF OrderlyInv, TriggersFollow
<1>15. RunningFollows'
  BY <1>1, <1>10, <1>12 DEF OrderlyInv, RunningFollows
<1>16. StopsFollow'
  BY <1>1 DEF OrderlyInv, StopsFollow
<1>17. \A v : Told(v)' = Told(v)
  BY <1>1, <1>6, <1>9 DEF Told
<1>18. RecordsCount'
  BY <1>10, <1>17 DEF OrderlyInv, RecordsCount
<1> QED BY <1>8, <1>13, <1>14, <1>15, <1>16, <1>18 DEF OrderlyInv

\* What the listener leaves behind when it is done, whatever it has written.
LEMMA ListenerDone ==
    ASSUME OrderlyInv, NEW n \in RunIds, NEW v, v = outcome[n],
           listeners[n].at # "none",
           listeners' = [listeners EXCEPT ![n] = NoListener],
           UNCHANGED <<due, current, nextRun, outcome, stoppedBy, unrecorded, order>>
    PROVE  /\ RunsFollow'
           /\ listeners' \in [RunIds -> [at : {"none", "find", "update", "insert"},
                                         status : RunVerdicts, target : Nat]]
           /\ \A m \in RunIds : m # n => listeners'[m] = listeners[m] /\ Closes(m)' = Closes(m)
           /\ listeners'[n].at = "none" /\ ~ Closes(n)'
           /\ n \notin Told(v) /\ v \in RunVerdicts
           /\ Told(v)' = Told(v) \cup {n}
           /\ \A w \in RunVerdicts : w # v => Told(w)' = Told(w)
<1>1. NoListener \in [at : {"none", "find", "update", "insert"}, status : RunVerdicts, target : Nat]
      /\ NoListener.at = "none"
  BY DEF NoListener, RunVerdicts
<1>2. listeners'[n] = NoListener /\ \A m \in RunIds : m # n => listeners'[m] = listeners[m]
  BY DEF OrderlyInv, JobsTyped
<1>3. outcome[n] \in RunVerdicts
  BY DEF OrderlyInv, RunsFollow
<1>4. RunsFollow'
  BY <1>1, <1>2 DEF OrderlyInv, RunsFollow
<1>5. /\ \A m \in RunIds : m # n => Closes(m)' = Closes(m)
      /\ ~ Closes(n)'
  BY <1>1, <1>2 DEF Closes
<1>6. n \notin Told(v) /\ Told(v)' = Told(v) \cup {n}
  BY <1>1, <1>2 DEF Told
<1>7. \A w \in RunVerdicts : w # v => Told(w)' = Told(w)
  BY <1>1, <1>2 DEF Told
<1> QED BY <1>1, <1>2, <1>3, <1>4, <1>5, <1>6, <1>7 DEF OrderlyInv, JobsTyped

\* One more record with the verdict, one more run told of.
LEMMA OneMoreOfEach ==
    ASSUME JobsAssumption, OrderlyInv, NEW n, NEW k, NEW v \in RunVerdicts,
           n \notin Told(v), k \notin With({v}),
           Told(v)' = Told(v) \cup {n}, With({v})' = With({v}) \cup {k},
           \A w \in RunVerdicts : w # v => Told(w)' = Told(w) /\ With({w})' = With({w})
    PROVE  RecordsCount'
<1>1. Cardinality(With({v})) = Cardinality(Told(v))
  BY DEF OrderlyInv, RecordsCount
<1>2. IsFiniteSet(With({v})) /\ IsFiniteSet(Told(v))
  BY WithInDomain, ToldFinite DEF OrderlyInv
<1>3. Cardinality(With({v}) \cup {k}) = Cardinality(With({v})) + 1
  BY <1>2, FS_AddElement
<1>4. Cardinality(Told(v) \cup {n}) = Cardinality(Told(v)) + 1
  BY <1>2, FS_AddElement
<1>5. Cardinality(With({v})') = Cardinality(Told(v)')
  BY <1>1, <1>3, <1>4
<1>6. \A w \in RunVerdicts : w # v => Cardinality(With({w})') = Cardinality(Told(w)')
  BY DEF OrderlyInv, RecordsCount
<1> QED BY <1>5, <1>6 DEF RecordsCount

LEMMA ListenerCloses ==
    ASSUME JobsAssumption, OrderlyInv, NEW n \in RunIds, listeners[n].at = "update", WriteEnd(n)
    PROVE  OrderlyInv'
<1>1. PICK i : i = listeners[n].target
  OBVIOUS
<1>2. /\ listeners' = [listeners EXCEPT ![n] = NoListener]
      /\ UNCHANGED <<due, current, nextRun, outcome, stoppedBy, unrecorded, order>>
      /\ IF records[i].status = "deleted" THEN UNCHANGED records
         ELSE Recorded(i, listeners[n].status)
  BY <1>1 DEF WriteEnd, jobRun
<1>3. /\ i \in Running /\ ~ due /\ current = NoRun /\ unrecorded = 0
      /\ \A m \in RunIds : Closes(m) => m = n
  BY <1>1 DEF OrderlyInv, TriggersFollow, Closes
<1>4. Running = {i}
  BY <1>3 DEF OrderlyInv, RunningFollows
<1>5. PICK v : v = outcome[n]
  OBVIOUS
<1>6. v \in RunVerdicts /\ listeners[n].status = v
  BY <1>5 DEF OrderlyInv, RunsFollow
<1>7. i \in DOMAIN records /\ records[i].status = "running"
  BY <1>3 DEF Running, With
<1>8. Recorded(i, v)
  BY <1>2, <1>6, <1>7
<1>9. /\ records' \in Seq(RecordType) /\ DOMAIN records' = DOMAIN records
      /\ \A j \in DOMAIN records : records'[j].of = records[j].of
      /\ Running' = Running \ {i}
      /\ With({v})' = With({v}) \cup {i} /\ i \notin With({v})
      /\ \A s \in RunVerdicts : s # v => With({s})' = With({s})
  BY <1>6, <1>7, <1>8, RecordedIs DEF OrderlyInv
<1>10. /\ RunsFollow'
       /\ listeners' \in [RunIds -> [at : {"none", "find", "update", "insert"},
                                     status : RunVerdicts, target : Nat]]
       /\ \A m \in RunIds : m # n => Closes(m)' = Closes(m)
       /\ ~ Closes(n)'
       /\ n \notin Told(v) /\ Told(v)' = Told(v) \cup {n}
       /\ \A w \in RunVerdicts : w # v => Told(w)' = Told(w)
  BY <1>2, <1>5, ListenerDone
<1>11. JobsTyped'
  BY <1>2, <1>9, <1>10 DEF OrderlyInv, JobsTyped
<1>12. Running' = {} /\ \A m \in RunIds : ~ Closes(m)'
  BY <1>3, <1>4, <1>9, <1>10
<1>13. TriggersFollow'
  BY <1>2, <1>3, <1>12 DEF TriggersFollow
<1>14. RunningFollows'
  BY <1>12 DEF RunningFollows
<1>15. StopsFollow'
  BY <1>2, <1>9 DEF OrderlyInv, StopsFollow
<1>16. RecordsCount'
  BY <1>5, <1>6, <1>9, <1>10, OneMoreOfEach
<1> QED BY <1>10, <1>11, <1>13, <1>14, <1>15, <1>16 DEF OrderlyInv

LEMMA ListenerInserts ==
    ASSUME JobsAssumption, OrderlyInv, NEW n \in RunIds, listeners[n].at = "insert", WriteEnd(n)
    PROVE  OrderlyInv'
<1>1. PICK k : k = Len(records) + 1
  OBVIOUS
<1>2. PICK v : v = outcome[n]
  OBVIOUS
<1>3. v \in RunVerdicts /\ listeners[n].status = v
  BY <1>2 DEF OrderlyInv, RunsFollow
<1>4. /\ listeners' = [listeners EXCEPT ![n] = NoListener] /\ Inserted(v, 0)
      /\ UNCHANGED <<due, current, nextRun, outcome, stoppedBy, unrecorded, order>>
  BY <1>3 DEF WriteEnd, jobRun
<1>5. "running" # v /\ 0 \in Nat
  BY <1>3 DEF RunVerdicts
<1>6. /\ records' \in Seq(RecordType) /\ k \notin DOMAIN records
      /\ DOMAIN records' = DOMAIN records \cup {k}
      /\ \A i \in DOMAIN records : records'[i] = records[i]
      /\ With({v})' = With({v}) \cup {k}
      /\ \A s : s # v => With({s})' = With({s})
  BY <1>1, <1>3, <1>4, <1>5, InsertedIs DEF OrderlyInv
<1>7. Running' = Running /\ k \notin With({v}) /\ Running \subseteq DOMAIN records
  BY <1>5, <1>6 DEF Running, With
<1>8. /\ RunsFollow'
      /\ listeners' \in [RunIds -> [at : {"none", "find", "update", "insert"},
                                    status : RunVerdicts, target : Nat]]
      /\ \A m \in RunIds : m # n => listeners'[m] = listeners[m] /\ Closes(m)' = Closes(m)
      /\ ~ Closes(n)' /\ listeners'[n].at = "none"
      /\ n \notin Told(v) /\ Told(v)' = Told(v) \cup {n}
      /\ \A w \in RunVerdicts : w # v => Told(w)' = Told(w)
  BY <1>2, <1>4, ListenerDone
<1>9. JobsTyped'
  BY <1>4, <1>6, <1>8 DEF OrderlyInv, JobsTyped
<1>10. ~ Closes(n)
  BY DEF Closes
<1>11. TriggersFollow'
  BY <1>4, <1>7, <1>8, <1>10 DEF OrderlyInv, TriggersFollow
<1>12. RunningFollows'
  BY <1>4, <1>6, <1>7, <1>8, <1>10 DEF OrderlyInv, RunningFollows
<1>13. StopsFollow'
  BY <1>4, <1>6 DEF OrderlyInv, StopsFollow
<1>14. RecordsCount'
  BY <1>2, <1>3, <1>6, <1>7, <1>8, OneMoreOfEach
<1> QED BY <1>8, <1>9, <1>11, <1>12, <1>13, <1>14 DEF OrderlyInv

LEMMA TriggerFollows ==
    ASSUME OrderlyInv, TriggerJob, orderly'
    PROVE  OrderlyInv'
<1>1. /\ due' /\ ~ due /\ current = NoRun /\ unrecorded = 0 /\ unrecorded' = 1 /\ Quiet
      /\ UNCHANGED <<records, current, nextRun, outcome, stoppedBy, listeners, order>>
  <2>1. ~ due /\ current = NoRun /\ unrecorded = 0 /\ Quiet
    BY DEF TriggerJob
  <2>2. unrecorded' = unrecorded + 1
    BY DEF TriggerJob
  <2>3. unrecorded' = 1
    BY <2>1, <2>2
  <2> QED BY <2>1, <2>3 DEF TriggerJob, jobRun
<1>2. Running' = Running /\ (\A s : With({s})' = With({s})) /\ (\A v : Told(v)' = Told(v))
  BY <1>1 DEF Running, With, Told
<1>3. \A n \in RunIds : ~ Closes(n) /\ ~ Closes(n)'
  BY <1>1 DEF Quiet, Closes
<1>4. Running = {}
  BY <1>1, <1>3 DEF OrderlyInv, RunningFollows
<1>5. JobsTyped'
  BY <1>1 DEF OrderlyInv, JobsTyped
<1>6. RunsFollow'
  BY <1>1 DEF OrderlyInv, RunsFollow
<1>7. TriggersFollow'
  BY <1>1, <1>2, <1>3, <1>4 DEF TriggersFollow
<1>8. RunningFollows'
  BY <1>2, <1>4 DEF RunningFollows
<1>9. StopsFollow'
  BY <1>1 DEF OrderlyInv, StopsFollow
<1>10. RecordsCount'
  BY <1>2 DEF OrderlyInv, RecordsCount
<1> QED BY <1>5, <1>6, <1>7, <1>8, <1>9, <1>10 DEF OrderlyInv

\* Its record names the run that it has caused, started or not.
LEMMA TriggerIsRecorded ==
    ASSUME JobsAssumption, OrderlyInv, TriggerRecord
    PROVE  OrderlyInv'
<1>1. PICK n : n = IF current = NoRun THEN nextRun ELSE current.n
  OBVIOUS
<1>2. PICK k : k = Len(records) + 1
  OBVIOUS
<1>3. /\ unrecorded > 0 /\ unrecorded' = unrecorded - 1 /\ Inserted("running", n)
      /\ UNCHANGED <<due, current, nextRun, outcome, stoppedBy, listeners, order>>
  BY <1>1 DEF TriggerRecord, jobRun
<1>4. unrecorded = 1 /\ unrecorded' = 0
  BY <1>3 DEF OrderlyInv, JobsTyped
<1>5. /\ Running = {} /\ (due \/ current # NoRun) /\ (due => current = NoRun)
      /\ \A m \in RunIds : ~ Closes(m)
  BY <1>4 DEF OrderlyInv, TriggersFollow
<1>6. n \in Nat
  BY <1>1 DEF OrderlyInv, JobsTyped
<1>7. /\ records' \in Seq(RecordType) /\ k \notin DOMAIN records
      /\ DOMAIN records' = DOMAIN records \cup {k}
      /\ \A i \in DOMAIN records : records'[i] = records[i]
      /\ records'[k] = Record("running", n)
      /\ Running' = Running \cup {k}
      /\ \A s : s # "running" => With({s})' = With({s})
  BY <1>2, <1>3, <1>6, InsertedIs DEF OrderlyInv, Running
<1>8. records'[k].age = 0 /\ records'[k].of = n
  BY <1>7 DEF Record
<1>9. \A m \in RunIds : ~ Closes(m)'
  BY <1>3, <1>5 DEF Closes
<1>10. JobsTyped'
  BY <1>3, <1>4, <1>7 DEF OrderlyInv, JobsTyped
<1>11. RunsFollow'
  BY <1>3 DEF OrderlyInv, RunsFollow
<1>12. TriggersFollow'
  BY <1>3, <1>4, <1>5, <1>9 DEF TriggersFollow
<1>13. RunningFollows'
  <2>1. 0 <= Recent
    BY DEF JobsAssumption
  <2>2. Running' = {k}
    BY <1>5, <1>7
  <2>3. (due' /\ n = nextRun') \/ (current' # NoRun /\ n = current'.n)
    BY <1>1, <1>3, <1>5
  <2> QED BY <1>8, <2>1, <2>2, <2>3 DEF RunningFollows
<1>14. StopsFollow'
  BY <1>3, <1>7 DEF OrderlyInv, StopsFollow
<1>15. \A v \in RunVerdicts : v # "running" /\ Told(v)' = Told(v)
  BY <1>3 DEF Told, RunVerdicts
<1>16. RecordsCount'
  BY <1>7, <1>15 DEF OrderlyInv, RecordsCount
<1> QED BY <1>10, <1>11, <1>12, <1>13, <1>14, <1>16 DEF OrderlyInv

\* A cancellation sets a flag and no more.
LEMMA FlagIsWritten ==
    ASSUME OrderlyInv, WriteRecord, orderly'
    PROVE  OrderlyInv'
<1>1. /\ order.what = "cancel" /\ order' = NoOrder
      /\ UNCHANGED <<due, current, nextRun, outcome, stoppedBy, unrecorded, listeners>>
  BY DEF WriteRecord, jobRun
<1>2. NoOrder \in OrderType
  BY DEF NoOrder, OrderType
<1>3. PICK i : i = order.target
  OBVIOUS
<1>4. \/ records' = records
      \/ records' = [records EXCEPT ![i].cancel = TRUE]
  BY <1>1, <1>3 DEF WriteRecord
<1>5. SameRecords /\ \A j \in Running : records'[j].age <= Recent
  <2>1. CASE records' = records
    BY <2>1, RecordsStay
  <2>2. CASE records' = [records EXCEPT ![i].cancel = TRUE] /\ i \notin DOMAIN records
    <3>1. records' = records
      BY <2>2 DEF OrderlyInv, JobsTyped
    <3> QED BY <3>1, RecordsStay
  <2>3. CASE records' = [records EXCEPT ![i].cancel = TRUE] /\ i \in DOMAIN records
    <3>1. PICK rec : rec = [records[i] EXCEPT !.cancel = TRUE]
      OBVIOUS
    <3>2. records \in Seq(RecordType) /\ records[i] \in RecordType
      BY <2>3, ElementOfSeq, LenProperties DEF OrderlyInv, JobsTyped
    <3>3. /\ rec \in RecordType /\ rec.status = records[i].status
          /\ rec.of = records[i].of /\ rec.age = records[i].age
      BY <3>1, <3>2 DEF RecordType
    <3>4. records' = [records EXCEPT ![i] = rec]
      BY <2>3, <3>1
    <3>5. records' \in Seq(RecordType)
      <4>1. i \in 1 .. Len(records)
        BY <2>3, <3>2, LenProperties
      <4> QED BY <3>2, <3>3, <3>4, <4>1, ExceptSeq
    <3>6. DOMAIN records' = DOMAIN records /\ records'[i] = rec
          /\ \A j \in DOMAIN records : j # i => records'[j] = records[j]
      BY <2>3, <3>4
    <3>7. \A j \in Running : j \in DOMAIN records /\ records[j].age <= Recent
      BY DEF OrderlyInv, RunningFollows, Running, With
    <3> QED BY <3>3, <3>5, <3>6, <3>7 DEF SameRecords
  <2> QED BY <1>4, <2>1, <2>2, <2>3
<1> QED BY <1>1, <1>2, <1>5, NothingFollows

\* Time passes as long as the running record is young enough.
LEMMA TimeFollows ==
    ASSUME JobsAssumption, OrderlyInv, JobsTick, orderly'
    PROVE  OrderlyInv'
<1>1. /\ records' = [i \in DOMAIN records |->
                       [records[i] EXCEPT !.age = IF @ > Overdue THEN @ ELSE @ + 1]]
      /\ \A i \in Running : records[i].age < Recent
      /\ UNCHANGED <<due, current, nextRun, outcome, stoppedBy, unrecorded, listeners, order>>
  BY DEF JobsTick, jobRun, Running
<1>2. Len(records) \in Nat /\ DOMAIN records = 1 .. Len(records)
      /\ \A i \in DOMAIN records : records[i] \in RecordType
  BY LenProperties, ElementOfSeq DEF OrderlyInv, JobsTyped
<1>3. Recent \in Nat /\ Overdue \in Nat /\ Recent < Overdue
  BY DEF JobsAssumption
<1>4. ASSUME NEW i \in DOMAIN records
      PROVE  /\ records'[i] \in RecordType
             /\ records'[i].status = records[i].status /\ records'[i].of = records[i].of
             /\ records[i].age < Recent => records'[i].age <= Recent
  <2>1. PICK a : a = IF records[i].age > Overdue THEN records[i].age ELSE records[i].age + 1
    OBVIOUS
  <2>2. records'[i] = [records[i] EXCEPT !.age = a]
    BY <1>1, <2>1
  <2>3. records[i] \in RecordType /\ records[i].age \in Nat
    BY <1>2 DEF RecordType
  <2>4. a \in Nat /\ (records[i].age < Recent => a <= Recent)
    BY <1>3, <2>1, <2>3
  <2> QED BY <2>2, <2>3, <2>4 DEF RecordType
<1>5. records' \in Seq(RecordType) /\ DOMAIN records' = DOMAIN records
  <2>1. records' \in [1 .. Len(records) -> RecordType]
    BY <1>1, <1>2, <1>4
  <2> QED BY <1>2, <2>1
<1>6. SameRecords /\ \A i \in Running : records'[i].age <= Recent
  BY <1>1, <1>4, <1>5 DEF SameRecords, Running, With
<1>7. order' \in OrderType
  BY <1>1 DEF OrderlyInv, JobsTyped, OrderType
<1> QED BY <1>1, <1>6, <1>7, NothingFollows

LEMMA RunMoves ==
    ASSUME OrderlyInv, current # NoRun, NEW stage \in {"check", "batch", "report"}, NEW left \in Int,
           current' = [current EXCEPT !.at = stage, !.left = left],
           UNCHANGED <<records, nextRun, due, listeners, unrecorded, outcome, stoppedBy, order>>
    PROVE  OrderlyInv'
<1>1. current \in RunType
  BY DEF OrderlyInv, JobsTyped, RunType
<1>2. current' \in RunType /\ current'.n = current.n /\ current'.at = stage
  BY <1>1 DEF RunType
<1>3. current'.at # "idle" /\ current' # NoRun
  BY <1>2 DEF NoRun
<1> QED BY <1>2, <1>3, RunGoesOn

LEMMA StageChanges ==
    ASSUME OrderlyInv, current # NoRun, NEW stage \in {"check", "batch", "report"}, Goes(stage),
           UNCHANGED <<records, nextRun, due, unrecorded, stoppedBy, order>>
    PROVE  OrderlyInv'
<1>1. current \in RunType /\ current.left \in Int
  BY DEF OrderlyInv, JobsTyped, RunType
<1>2. [current EXCEPT !.at = stage] = [current EXCEPT !.at = stage, !.left = current.left]
  BY <1>1 DEF RunType
<1> QED BY <1>1, <1>2, RunMoves DEF Goes

LEMMA BatchFollows ==
    ASSUME JobsAssumption, OrderlyInv, current # NoRun, NextBatch, orderly',
           UNCHANGED <<records, nextRun, due, unrecorded, stoppedBy, order>>
    PROVE  OrderlyInv'
<1>1. CASE LastBatch
  <2>1. End("success") /\ "success" \in RunVerdicts
    BY <1>1 DEF NextBatch, RunVerdicts
  <2> QED BY <2>1, RunEnds
<1>2. CASE ~ LastBatch
  <2>1. PICK stage : stage = IF kind = "polls" THEN "check" ELSE "batch"
    OBVIOUS
  <2>2. stage \in {"check", "batch", "report"}
    BY <2>1
  <2>3. current.left \in Int /\ current.left - 1 \in Int
    BY DEF OrderlyInv, JobsTyped
  <2>4. current' = [current EXCEPT !.at = stage, !.left = current.left - 1]
    BY <1>2, <2>1 DEF NextBatch, OrderlyInv, JobsTyped
  <2>5. UNCHANGED <<outcome, listeners>>
    BY <1>2 DEF NextBatch
  <2> QED BY <2>2, <2>3, <2>4, <2>5, RunMoves
<1> QED BY <1>1, <1>2

\* A flag stops the run whose record has it.
LEMMA FlagStops ==
    ASSUME JobsAssumption, OrderlyInv, current # NoRun, orderly',
           Newest(With({"running"})) # 0, Stopped(Newest(With({"running"}))),
           UNCHANGED <<records, nextRun, due, unrecorded, order>>
    PROVE  OrderlyInv'
<1>1. PICK i : i = Newest(With({"running"}))
  OBVIOUS
<1>2. i \in Running
  <2>1. Len(records) \in Nat /\ Running \in SUBSET (1 .. Len(records))
    BY WithInDomain DEF OrderlyInv, Running
  <2>2. Running # {} /\ i = Max(Running)
    BY <1>1 DEF Newest, Running
  <2> QED BY <2>1, <2>2, MaxIsIn
<1>3. End("success") /\ stoppedBy' = [stoppedBy EXCEPT ![current.n] = i]
  BY <1>1 DEF Stopped
<1>4. "success" \in RunVerdicts
  BY DEF RunVerdicts
<1> QED BY <1>2, <1>3, <1>4, RunEnds

LEMMA RunStepFollows ==
    ASSUME JobsAssumption, OrderlyInv, kind # "reports", RunStep, orderly'
    PROVE  OrderlyInv'
<1>1. current.at \in {"start", "check", "batch", "report"} => current # NoRun
  BY DEF NoRun
<1>a. "success" \in RunVerdicts
  BY DEF RunVerdicts
<1>2. CASE Begin
  <2>1. current # NoRun /\ UNCHANGED <<records, nextRun, due, unrecorded, stoppedBy, order>>
    BY <1>1, <1>2 DEF Begin, runUnchanged
  <2>2. CASE End("failed")
    <3>1. "failed" \in RunVerdicts
      BY DEF RunVerdicts
    <3> QED BY <2>1, <2>2, <3>1, RunEnds
  <2>3. CASE Goes("check")
    BY <2>1, <2>3, StageChanges
  <2>4. CASE Goes("batch")
    BY <2>1, <2>4, StageChanges
  <2>5. CASE End("success")
    BY <1>a, <2>1, <2>5, RunEnds
  <2> QED BY <1>2, <2>2, <2>3, <2>4, <2>5 DEF Begin
<1>3. CASE Check
  <2>1. current # NoRun /\ UNCHANGED <<records, nextRun, due, unrecorded, order>>
    BY <1>1, <1>3 DEF Check, runUnchanged
  <2>2. CASE Goes("batch") /\ UNCHANGED stoppedBy
    BY <2>1, <2>2, StageChanges
  <2>3. CASE Newest(With({"running"})) # 0 /\ Stopped(Newest(With({"running"})))
    BY <2>1, <2>3, FlagStops
  <2> QED BY <1>3, <2>2, <2>3 DEF Check
<1>4. CASE Batch
  <2>1. current # NoRun /\ UNCHANGED <<records, nextRun, due, unrecorded, stoppedBy, order>>
    BY <1>1, <1>4 DEF Batch, runUnchanged
  <2>2. CASE Goes("report")
    BY <2>1, <2>2, StageChanges
  <2>3. CASE NextBatch
    BY <2>1, <2>3, BatchFollows
  <2>4. CASE End("success")
    BY <1>a, <2>1, <2>4, RunEnds
  <2> QED BY <1>4, <2>2, <2>3, <2>4 DEF Batch
<1>5. CASE PollProgress
  <2>1. current # NoRun /\ UNCHANGED <<records, nextRun, due, unrecorded, order>>
    BY <1>1, <1>5 DEF PollProgress, runUnchanged
  <2>2. CASE NextBatch /\ UNCHANGED stoppedBy
    BY <2>1, <2>2, BatchFollows
  <2>3. CASE Newest(With({"running"})) # 0 /\ Stopped(Newest(With({"running"})))
    BY <2>1, <2>3, FlagStops
  <2> QED BY <1>5, <2>2, <2>3 DEF PollProgress
<1>6. ~ Report
  BY DEF Report
<1> QED BY <1>2, <1>3, <1>4, <1>5, <1>6 DEF RunStep

LEMMA NeverStopped ==
    ASSUME kind = "reports", Unstopped, [JobsNext]_jobVars
    PROVE  Unstopped'
<1>1. stoppedBy' = stoppedBy
  <2>1. ~ Check /\ ~ PollProgress
    BY DEF Unstopped, Check, PollProgress
  <2>2. CASE UNCHANGED jobVars
    BY <2>2 DEF jobVars, jobRun
  <2>3. CASE RunStep
    BY <2>1, <2>3 DEF RunStep, Begin, Batch, Report, runUnchanged
  <2>4. CASE JobsNext /\ ~ RunStep
    BY <2>4 DEF JobsNext, OpenService, Fire, Misfire, Find, WriteEnd, LoseRecord, TriggerJob,
                TriggerRecord, PauseJob, ReadRecord, WriteRecord, ZombieFind, ZombieClose,
                JobsRestart, JobsTick, jobRun
  <2> QED BY <2>2, <2>3, <2>4
<1>2. ASSUME NEW stage, stage # "check", Goes(stage)
      PROVE  "at" \in DOMAIN current' /\ current'.at # "check"
  BY <1>2 DEF Goes, Unstopped
<1>3. "at" \in DOMAIN NoRun /\ NoRun.at # "check"
  BY DEF NoRun
<1>4. ASSUME NextBatch
      PROVE  "at" \in DOMAIN current' /\ current'.at # "check"
  <2>1. CASE LastBatch
    BY <1>3, <1>4, <2>1 DEF NextBatch, End
  <2>2. CASE ~ LastBatch
    <3>1. current' = [current EXCEPT !.left = @ - 1, !.at = "batch"]
      BY <1>4, <2>2 DEF NextBatch
    <3> QED BY <3>1 DEF Unstopped
  <2> QED BY <2>1, <2>2
<1>5. "at" \in DOMAIN current' /\ current'.at # "check"
  <2>1. CASE UNCHANGED jobVars
    BY <2>1 DEF Unstopped, jobVars, jobRun
  <2>2. CASE Fire
    <3>1. CASE current' = [n |-> nextRun, at |-> "start", left |-> Batches]
      BY <3>1
    <3>2. CASE UNCHANGED current
      BY <3>2 DEF Unstopped
    <3> QED BY <2>2, <3>1, <3>2 DEF Fire
  <2>3. CASE Begin
    BY <1>2, <1>3, <2>3 DEF Begin, End
  <2>4. CASE Batch
    BY <1>2, <1>3, <1>4, <2>4 DEF Batch, End
  <2>5. CASE Report
    BY <1>4, <2>5 DEF Report
  <2>6. CASE JobsRestart
    BY <1>3, <2>6 DEF JobsRestart
  <2>7. ~ Check /\ ~ PollProgress
    BY DEF Unstopped, Check, PollProgress
  <2>8. CASE JobsNext /\ ~ RunStep /\ ~ Fire /\ ~ JobsRestart
    BY <2>8 DEF Unstopped, JobsNext, OpenService, Misfire, Find, WriteEnd, LoseRecord, TriggerJob,
                TriggerRecord, PauseJob, ReadRecord, WriteRecord, ZombieFind, ZombieClose,
                JobsTick, jobRun
  <2> QED BY <2>1, <2>2, <2>3, <2>4, <2>5, <2>6, <2>7, <2>8 DEF RunStep
<1> QED BY <1>1, <1>5 DEF Unstopped

LEMMA OrderlyStep ==
    ASSUME JobsAssumption, OrderlyInv, kind # "reports", [JobsNext]_jobVars, orderly'
    PROVE  OrderlyInv'
<1>1. order \in OrderType
  BY DEF OrderlyInv, JobsTyped, OrderType
<1>2. CASE UNCHANGED jobVars
  BY <1>1, <1>2, RecordsStay, NothingFollows DEF jobVars, jobRun
<1>3. CASE OpenService
  BY <1>1, <1>3, RecordsStay, NothingFollows DEF OpenService, jobRun
<1>4. CASE Fire
  BY <1>4, RunStarts
<1>5. CASE Misfire
  BY <1>5, RunMissed
<1>6. CASE RunStep
  BY <1>6, RunStepFollows
<1>7. ASSUME NEW n \in RunIds, Find(n) PROVE OrderlyInv'
  BY <1>7, ListenerFinds
<1>8. ASSUME NEW n \in RunIds, WriteEnd(n) PROVE OrderlyInv'
  BY <1>8, ListenerCloses, ListenerInserts DEF WriteEnd
<1>9. \A n \in RunIds : ~ LoseRecord(n)
  BY DEF LoseRecord
<1>10. CASE TriggerJob
  BY <1>10, TriggerFollows
<1>11. CASE TriggerRecord
  BY <1>11, TriggerIsRecorded
<1>12. CASE PauseJob
  <2>1. ~ due /\ ~ due' /\ UNCHANGED <<records, jobRun, listeners, unrecorded, order>>
    BY <1>12 DEF PauseJob
  <2> QED BY <1>1, <2>1, RecordsStay, NothingFollows DEF jobRun
<1>13. ASSUME NEW i \in DOMAIN records, NEW what \in {"cancel", "mark", "delete"},
              ReadRecord(i, what)
       PROVE  OrderlyInv'
  <2>1. order' = [what |-> what, target |-> i]
        /\ UNCHANGED <<records, due, jobRun, listeners, unrecorded>>
    BY <1>13 DEF ReadRecord
  <2>2. DOMAIN records = 1 .. Len(records) /\ Len(records) \in Nat
    BY LenProperties DEF OrderlyInv, JobsTyped
  <2>3. order' \in OrderType
    BY <2>1, <2>2 DEF OrderType
  <2> QED BY <2>1, <2>3, RecordsStay, NothingFollows DEF jobRun
<1>14. CASE WriteRecord
  BY <1>14, FlagIsWritten
<1>15. CASE ZombieFind
  BY <1>1, <1>15, RecordsStay, NothingFollows DEF ZombieFind, jobRun
<1>16. (\A i \in closing : ~ ZombieClose(i)) /\ ~ JobsRestart
  BY DEF ZombieClose, JobsRestart
<1>17. CASE JobsTick
  BY <1>17, TimeFollows
<1> QED BY <1>2, <1>3, <1>4, <1>5, <1>6, <1>7, <1>8, <1>9, <1>10, <1>11, <1>12, <1>13,
           <1>14, <1>15, <1>16, <1>17 DEF JobsNext

LEMMA JobsStart ==
    ASSUME JobsAssumption, JobsInit
    PROVE  JobInv
<1>1. records = <<>> /\ current = NoRun /\ nextRun = 1 /\ ~ due /\ unrecorded = 0
      /\ order = NoOrder
      /\ listeners = [n \in RunIds |-> NoListener] /\ stoppedBy = [n \in RunIds |-> 0]
      /\ outcome = [n \in RunIds |-> "none"]
  BY DEF JobsInit
<1>2. Unstopped
  BY <1>1 DEF Unstopped, NoRun
<1>3. \A s : With({s}) = {}
  BY <1>1 DEF With
<1>4. JobsTyped
  <2>1. NoOrder \in OrderType /\ NoRun \in RunType
    BY DEF NoOrder, OrderType, NoRun, RunType
  <2>2. NoListener \in [at : {"none", "find", "update", "insert"}, status : RunVerdicts,
                        target : Nat]
    BY DEF NoListener, RunVerdicts
  <2> QED BY <1>1, <2>1, <2>2 DEF JobsTyped, OrderType, RunType
<1>5. RunsFollow
  BY <1>1 DEF RunsFollow, NoListener
<1>6. TriggersFollow /\ RunningFollows /\ StopsFollow
  <2>1. \A n \in RunIds : ~ Closes(n)
    BY <1>1 DEF Closes, NoListener
  <2>2. Running = {}
    BY <1>3 DEF Running
  <2>3. unrecorded # 1
    BY <1>1
  <2>4. TriggersFollow
    BY <1>1, <2>1, <2>3 DEF TriggersFollow
  <2>5. RunningFollows
    BY <2>2 DEF RunningFollows
  <2> QED BY <1>1, <2>4, <2>5 DEF StopsFollow
<1>7. RecordsCount
  <2>1. \A v \in RunVerdicts : Told(v) = {}
    BY <1>1 DEF Told, RunVerdicts
  <2> QED BY <1>3, <2>1 DEF RecordsCount
<1> QED BY <1>2, <1>4, <1>5, <1>6, <1>7 DEF JobInv, OrderlyInv

LEMMA JobInvStep ==
    ASSUME JobsAssumption, JobInv, [JobsNext]_jobVars
    PROVE  JobInv'
<1>1. SUFFICES ASSUME orderly' PROVE JobInv'
  BY DEF JobInv
<1>2. kind' = kind
  <2>1. CASE UNCHANGED jobVars
    BY <2>1 DEF jobVars
  <2>2. CASE RunStep
    BY <2>2 DEF RunStep, Begin, Check, Batch, PollProgress, Report, runUnchanged
  <2>3. CASE JobsNext /\ ~ RunStep
    BY <2>3 DEF JobsNext, OpenService, Fire, Misfire, Find, WriteEnd, LoseRecord, TriggerJob,
                TriggerRecord, PauseJob, ReadRecord, WriteRecord, ZombieFind, ZombieClose,
                JobsRestart, JobsTick
  <2> QED BY <2>1, <2>2, <2>3
<1>3. orderly
  <2>1. CASE UNCHANGED jobVars
    BY <1>1, <2>1 DEF jobVars
  <2>2. CASE RunStep
    BY <1>1, <2>2 DEF RunStep, Begin, Check, Batch, PollProgress, Report, NextBatch, Stopped, End,
                      Goes
  <2>3. CASE JobsNext /\ ~ RunStep
    BY <1>1, <2>3 DEF JobsNext, OpenService, Fire, Misfire, Find, WriteEnd, LoseRecord, TriggerJob,
                TriggerRecord, PauseJob, ReadRecord, WriteRecord, ZombieFind, ZombieClose,
                JobsRestart, JobsTick
  <2> QED BY <2>1, <2>2, <2>3
<1>4. CASE kind = "reports"
  BY <1>2, <1>3, <1>4, NeverStopped DEF JobInv
<1>5. CASE kind # "reports"
  BY <1>1, <1>2, <1>3, <1>5, OrderlyStep DEF JobInv
<1> QED BY <1>4, <1>5

LEMMA RecordsLast == JobsInit /\ [][JobsNext]_jobVars => []RecordsMatchRuns
<1>1. JobInv => RecordsMatchRuns
  <2>1. ASSUME JobInv, orderly PROVE CancelHitsItsRun
    BY <2>1 DEF JobInv, Unstopped, OrderlyInv, StopsFollow, CancelHitsItsRun
  <2>2. ASSUME JobInv, orderly, kind # "reports", AtRest
        PROVE  /\ With({"running"}) = {}
               /\ \A v \in RunVerdicts :
                    Cardinality(With({v})) = Cardinality({n \in RunIds : outcome[n] = v})
    <3>1. OrderlyInv
      BY <2>2 DEF JobInv
    <3>2. \A n \in RunIds : listeners[n].at = "none" /\ ~ Closes(n)
      BY <2>2 DEF AtRest, Quiet, Closes
    <3>3. With({"running"}) = {}
      BY <2>2, <3>1, <3>2 DEF AtRest, OrderlyInv, RunningFollows, Running
    <3>4. \A v \in RunVerdicts : Told(v) = {n \in RunIds : outcome[n] = v}
      BY <3>2 DEF Told
    <3> QED BY <3>1, <3>3, <3>4 DEF OrderlyInv, RecordsCount
  <2> QED BY <2>1, <2>2 DEF RecordsMatchRuns, OneRecordPerRun, CancelHitsItsRun
<1>2. JobsInit => JobInv
  BY JobsAssumption, JobsStart
<1>3. JobInv /\ [JobsNext]_jobVars => JobInv'
  BY JobsAssumption, JobInvStep
<1> QED BY <1>1, <1>2, <1>3, PTL

\* As long as runs, triggers and listeners follow one another and nothing
\* fails, every run leaves one record with its verdict, none is left running,
\* and a cancellation stops no other run than its own.
THEOREM JobsAreRecorded == JobsSpec => []RecordsMatchRuns
BY RecordsLast, PTL DEF JobsSpec

-----------------------------------------------------------------------------
\* The domains of the synchronisation.

\* A call in its domain, with what its stage says of its counters.
CallTyped(k) ==
    /\ k \in CallRecords
    /\ k.left \in 0 .. SyncBatches /\ k.tries \in 0 .. MaxTries - 1
    /\ k.errors + k.left <= SyncBatches
    /\ k.at = "write" <=> k.left # 0
    /\ k.at \in {"skip", "announce", "fetch"} => k.errors = 0
    /\ k.at = "idle" <=> k = Resting

\* What the domains of the synchronisation rest on: the batches a call has given
\* up and those it has left are different ones.
SyncTypeInv ==
    /\ running \in [Instances -> BOOLEAN] /\ {booted, clearing} \subseteq BOOLEAN
    /\ lastStatus \in [Instances -> Ends \cup {"none", "running"}]
    /\ statusDoc \in Ends \cup {"none", "running"}
    /\ DOMAIN call = Calls /\ \A c \in Calls : CallTyped(call[c])
    /\ stored \in [Calls -> SUBSET (1 .. SyncBatches)]

LEMMA RestingTyped == CallTyped(Resting)
BY Rests, SyncAssumption DEF CallTyped, Resting

\* A call goes to a stage in which it has nothing left to write.
LEMMA StageTyped ==
    ASSUME NEW k, CallTyped(k), k.at # "write", NEW says \in {"none"} \cup Ends,
           NEW stage \in {"fetch", "report", "fail", "release"},
           stage = "fetch" => k.at = "announce"
    PROVE  /\ CallTyped([k EXCEPT !.at = stage])
           /\ CallTyped([k EXCEPT !.at = stage, !.says = says])
BY DEF CallTyped, CallRecords, SyncStages, Resting

\* One call changes, and the rest of what the domains are about stays in it.
LEMMA OneCallTyped ==
    ASSUME SyncTypeInv, NEW c \in Calls, NEW new, CallTyped(new),
           call' = [call EXCEPT ![c] = new]
    PROVE  DOMAIN call' = Calls /\ \A d \in Calls : CallTyped(call'[d])
BY DEF SyncTypeInv

LEMMA StartTyped ==
    ASSUME SyncTypeInv, NEW c \in Calls, NEW i \in Instances, NEW force \in BOOLEAN,
           StartSync(c, i, force)
    PROVE  SyncTypeInv'
<1>1. ASSUME NEW stage \in {"skip", "announce"}
      PROVE  CallTyped([Resting EXCEPT !.inst = i, !.at = stage])
  <2> DEFINE new == [Resting EXCEPT !.inst = i, !.at = stage]
  <2>1. new \in CallRecords /\ new.at = stage
    BY Rests DEF CallRecords, SyncStages
  <2>2. new.left = 0 /\ new.tries = 0 /\ new.errors = 0
    BY DEF Resting
  <2> HIDE DEF new
  <2>3. CallTyped(new)
    BY <2>1, <2>2, SyncAssumption DEF CallTyped, Resting
  <2> QED BY <2>3 DEF new
<1>2. \/ UNCHANGED call
      \/ \E stage \in {"skip", "announce"} :
            call' = [call EXCEPT ![c] = [Resting EXCEPT !.inst = i, !.at = stage]]
  BY DEF StartSync
<1>3. DOMAIN call' = Calls /\ \A d \in Calls : CallTyped(call'[d])
  BY <1>1, <1>2, OneCallTyped DEF SyncTypeInv
<1>4. /\ running' \in [Instances -> BOOLEAN] /\ booted' \in BOOLEAN
      /\ stored' \in [Calls -> SUBSET (1 .. SyncBatches)]
      /\ UNCHANGED <<lastStatus, statusDoc, clearing>>
  BY DEF StartSync, SyncTypeInv
<1> QED BY <1>3, <1>4 DEF SyncTypeInv

LEMMA BatchTyped ==
    ASSUME SyncTypeInv, NEW c \in Calls, WriteBatch(c)
    PROVE  SyncTypeInv'
<1>1. CallTyped(call[c]) /\ call[c].at = "write" /\ call[c] \in CallRecords
  BY DEF SyncTypeInv, WriteBatch, CallTyped
<1>2. call[c].left \in 1 .. SyncBatches
  BY <1>1 DEF CallTyped
<1>3. stored' \in [Calls -> SUBSET (1 .. SyncBatches)]
  <2>1. [stored EXCEPT ![c] = @ \cup {call[c].left}] \in [Calls -> SUBSET (1 .. SyncBatches)]
    BY <1>2 DEF SyncTypeInv
  <2> QED BY <2>1 DEF WriteBatch, SyncTypeInv
<1>4. DOMAIN call' = Calls /\ \A d \in Calls : CallTyped(call'[d])
  <2>1. CASE TryAgain(c) /\ call' = [call EXCEPT ![c].tries = @ + 1]
    <3>1. CallTyped([call[c] EXCEPT !.tries = @ + 1])
      BY <1>1, <2>1, SyncAssumption DEF CallTyped, CallRecords, TryAgain, Resting
    <3> QED BY <2>1, <3>1, OneCallTyped
  <2>2. ASSUME NEW failed \in {0, 1}, BatchDone(c, failed)
        PROVE  DOMAIN call' = Calls /\ \A d \in Calls : CallTyped(call'[d])
    <3> DEFINE stage == IF call[c].left = 1 THEN "report" ELSE "write"
               new == Counting(call[c], stage, call[c].left - 1, 0, call[c].errors + failed)
    <3>1. new \in CallRecords /\ new.at = stage
      BY <1>1, <1>2, BatchesCounted DEF CallRecords, SyncStages
    <3>2. new.left = call[c].left - 1 /\ new.tries = 0 /\ new.errors = call[c].errors + failed
      BY <1>1 DEF Counting, CallRecords
    <3>3. new.left \in 0 .. SyncBatches /\ new.errors + new.left <= SyncBatches
      BY <1>1, <1>2, <3>2, SyncAssumption DEF CallTyped, CallRecords
    <3>4. new.at = "write" <=> new.left # 0
      BY <1>2, <3>1, <3>2
    <3>5. new.at # "idle"
      BY <3>1
    <3>6. CallTyped(new)
      BY <3>1, <3>2, <3>3, <3>4, <3>5, SyncAssumption DEF CallTyped, Resting
    <3>7. call' = [call EXCEPT ![c] = new]
      BY <1>1, <2>2 DEF BatchDone, Counting
    <3> HIDE DEF new
    <3> QED BY <3>6, <3>7, OneCallTyped
  <2> QED BY <2>1, <2>2 DEF WriteBatch, GivenUp
<1> QED BY <1>3, <1>4 DEF WriteBatch, SyncTypeInv

\* The other steps of a call: to rest, to the batches, or to a stage without any.
LEMMA CallStepTyped ==
    ASSUME SyncTypeInv, NEW c \in Calls,
           \/ SyncStep(c) /\ ~ WriteBatch(c)
           \/ AnnounceRaises(c) \/ ReportRaises(c) \/ FailureRaises(c)
    PROVE  SyncTypeInv'
<1>1. CallTyped(call[c]) /\ call[c] \in CallRecords
  BY DEF SyncTypeInv, CallTyped
<1>2. CASE SkipRead(c) \/ AnnounceRaises(c) \/ ReleaseFlag(c)
  <2>1. call' = [call EXCEPT ![c] = Resting]
    BY <1>2 DEF SkipRead, AnnounceRaises, ReleaseFlag
  <2>2. DOMAIN call' = Calls /\ \A d \in Calls : CallTyped(call'[d])
    BY <2>1, RestingTyped, OneCallTyped
  <2>3. running' \in [Instances -> BOOLEAN]
        /\ UNCHANGED <<booted, clearing, lastStatus, statusDoc, stored>>
    BY <1>2 DEF SkipRead, AnnounceRaises, ReleaseFlag, SyncTypeInv
  <2> QED BY <2>2, <2>3 DEF SyncTypeInv
<1>3. CASE FetchList(c)
  <2>1. call[c].left = 0 /\ call[c].errors = 0 /\ call[c].at = "fetch"
    BY <1>1, <1>3 DEF FetchList, CallTyped
  <2>2. CallTyped([call[c] EXCEPT !.at = "write", !.left = SyncBatches])
    <3> DEFINE new == [call[c] EXCEPT !.at = "write", !.left = SyncBatches]
    <3>1. new \in CallRecords /\ new.at = "write"
      <4>1. SyncBatches \in Int /\ "write" \in SyncStages
        BY SyncAssumption DEF SyncStages
      <4> QED BY <1>1, <4>1 DEF CallRecords
    <3>2. new.left = SyncBatches /\ new.tries = call[c].tries /\ new.errors = 0
      BY <1>1, <2>1 DEF CallRecords
    <3> HIDE DEF new
    <3>3. CallTyped(new)
      BY <1>1, <3>1, <3>2, SyncAssumption DEF CallTyped, Resting
    <3> QED BY <3>3 DEF new
  <2>3. CallTyped([call[c] EXCEPT !.at = "fail"])
    BY <1>1, <2>1, StageTyped
  <2>4. \/ call' = [call EXCEPT ![c] = [call[c] EXCEPT !.at = "write", !.left = SyncBatches]]
        \/ call' = [call EXCEPT ![c] = [call[c] EXCEPT !.at = "fail"]]
    BY <1>1, <1>3 DEF FetchList, SyncAt
  <2>5. DOMAIN call' = Calls /\ \A d \in Calls : CallTyped(call'[d])
    BY <2>2, <2>3, <2>4, OneCallTyped
  <2> QED BY <1>3, <2>5 DEF FetchList, SyncTypeInv
<1>4. CASE \/ Announce(c) \/ ReportEnd(c) \/ ReportRaises(c)
           \/ ReportFailure(c) \/ FailureRaises(c)
  <2>1. \/ call[c].at = "announce" /\ call' = [call EXCEPT ![c] = [call[c] EXCEPT !.at = "fetch"]]
        \/ /\ call[c].at \in {"report", "fail"}
           /\ \E stage \in {"fail", "release"}, says \in Ends :
                 \/ call' = [call EXCEPT ![c] = [call[c] EXCEPT !.at = stage]]
                 \/ call' = [call EXCEPT ![c] = [call[c] EXCEPT !.at = stage, !.says = says]]
    BY <1>4 DEF Announce, ReportEnd, ReportRaises, ReportFailure, FailureRaises, SyncAt,
                SyncVerdict, Ends
  <2>2. DOMAIN call' = Calls /\ \A d \in Calls : CallTyped(call'[d])
    BY <1>1, <2>1, StageTyped, OneCallTyped
  <2>3. call[c].inst \in Instances
    BY <1>1 DEF CallRecords
  <2>4. /\ lastStatus' \in [Instances -> Ends \cup {"none", "running"}]
        /\ statusDoc' \in Ends \cup {"none", "running"}
        /\ UNCHANGED <<running, booted, clearing, stored>>
    BY <1>4, <2>3 DEF Announce, ReportEnd, ReportRaises, ReportFailure, FailureRaises, Persist,
                      SyncVerdict, Ends, SyncTypeInv
  <2> QED BY <2>2, <2>4 DEF SyncTypeInv
<1> QED BY <1>2, <1>3, <1>4 DEF SyncStep

LEMMA SyncTypeStep == SyncTypeInv /\ [SyncNext]_syncVars => SyncTypeInv'
<1> SUFFICES ASSUME SyncTypeInv, [SyncNext]_syncVars PROVE SyncTypeInv'
  OBVIOUS
<1>1. CASE UNCHANGED syncVars
  BY <1>1 DEF syncVars, SyncTypeInv
<1>2. CASE SyncRestart
  BY <1>2, RestingTyped DEF SyncRestart, SyncTypeInv
<1>3. CASE DeleteStatus \/ ClearCache
  BY <1>3 DEF DeleteStatus, ClearCache, SyncTypeInv
<1> QED BY <1>1, <1>2, <1>3, StartTyped, BatchTyped, CallStepTyped DEF SyncNext, SyncStep

LEMMA SyncTypeFollows == SyncTypeInv => SyncTypeOK
BY SyncAssumption DEF SyncTypeInv, SyncTypeOK, CallTyped, CallRecords, SyncStages

LEMMA SyncTypeHolds == SyncInit /\ [][SyncNext]_syncVars => []SyncTypeOK
<1>1. SyncInit => SyncTypeInv
  BY RestingTyped DEF SyncInit, SyncTypeInv
<1> QED BY <1>1, SyncTypeStep, SyncTypeFollows, PTL

\* Every variable of the synchronisation stays in its domain, whatever restarts,
\* cache deletions and failing writes: a call at rest keeps nothing, and has
\* batches to write exactly while it writes (run_full_sync).
THEOREM SyncTypeCorrect == SyncSpec => []SyncTypeOK
BY SyncTypeHolds, PTL DEF SyncSpec

-----------------------------------------------------------------------------
\* The domains of the scheduler's records, whatever overlaps.  A record is named
\* by its place in the collection, which no step gives up, so that a target read
\* before a write is still there after it.

KeptRecords == [status : RunVerdicts \cup {"running", "deleted"}, cancel : BOOLEAN,
                age : 0 .. Overdue + 1, of : 0 .. MaxRuns + 1]

RunsKept == [n : 0 .. MaxRuns, at : {"idle", "start", "check", "batch", "report"},
             left : 0 .. Batches]

ListenersKept == [at : {"none", "find", "update", "insert"}, status : RunVerdicts, target : Nat]

OnRecord(i) == i \in DOMAIN records

RecordsHeld == records \in Seq(KeptRecords)

RunHeld ==
    /\ current \in RunsKept /\ (current.at = "idle" <=> current.left = 0)
    /\ outcome \in [RunIds -> RunVerdicts \cup {"none", "lost"}]
    /\ listeners \in [RunIds -> ListenersKept]
    /\ \A n \in RunIds : listeners[n].at = "update" => OnRecord(listeners[n].target)

StopsHeld == stoppedBy \in [RunIds -> {0} \cup DOMAIN records]

OrderHeld ==
    \/ order = NoOrder
    \/ /\ order.what \in {"cancel", "mark", "delete"} /\ OnRecord(order.target)

CountsHeld ==
    /\ kind \in JobKinds
    /\ service \in BOOLEAN /\ paused \in BOOLEAN /\ due \in BOOLEAN /\ orderly \in BOOLEAN
    /\ nextRun \in 1 .. MaxRuns + 1
    /\ eventCount \in 0 .. MaxEvents /\ unrecorded \in 0 .. eventCount

JobsTypeInv ==
    /\ CountsHeld /\ RecordsHeld /\ RunHeld /\ StopsHeld /\ OrderHeld
    /\ \A i \in closing : OnRecord(i)

\* No record leaves the collection.
RecordsGrow == RecordsHeld' /\ \A i : OnRecord(i) => OnRecord(i)'

LEMMA RecordsUnchanged ==
    ASSUME RecordsHeld, UNCHANGED records PROVE RecordsGrow
BY DEF RecordsHeld, RecordsGrow, OnRecord

LEMMA InsertGrows ==
    ASSUME JobsAssumption, RecordsHeld, NEW status \in RunVerdicts \cup {"running"},
           NEW of \in 0 .. MaxRuns + 1, Inserted(status, of)
    PROVE  RecordsGrow
<1>1. PICK rec : rec = Record(status, of)
  OBVIOUS
<1>2. rec \in KeptRecords
  BY <1>1, JobsAssumption DEF Record, KeptRecords
<1>3. /\ Append(records, rec) \in Seq(KeptRecords)
      /\ Len(Append(records, rec)) = Len(records) + 1
  BY <1>2, AppendProperties DEF RecordsHeld
<1>4. DOMAIN records = 1 .. Len(records) /\ Len(records) \in Nat
      /\ DOMAIN records' = 1 .. Len(records')
  BY <1>1, <1>3, LenProperties DEF RecordsHeld, Inserted
<1>5. \A i \in 1 .. Len(records) : i \in 1 .. Len(records')
  BY <1>1, <1>3, <1>4 DEF Inserted
<1> QED BY <1>1, <1>3, <1>4, <1>5 DEF Inserted, RecordsGrow, RecordsHeld, OnRecord

LEMMA ChangeGrows ==
    ASSUME RecordsHeld, NEW i, OnRecord(i), NEW rec \in KeptRecords,
           records' = [records EXCEPT ![i] = rec]
    PROVE  RecordsGrow
<1>1. DOMAIN records' = DOMAIN records
  OBVIOUS
<1>2. i \in 1 .. Len(records)
  BY LenProperties DEF RecordsHeld, OnRecord
<1>3. records' \in Seq(KeptRecords)
  BY <1>2, ExceptSeq, LenProperties DEF RecordsHeld
<1> QED BY <1>1, <1>3 DEF RecordsGrow, RecordsHeld, OnRecord

LEMMA RecordTyped ==
    ASSUME RecordsHeld, NEW i, OnRecord(i)
    PROVE  records[i] \in KeptRecords
BY ElementOfSeq, LenProperties DEF RecordsHeld, OnRecord

LEMMA StatusGrows ==
    ASSUME RecordsHeld, NEW i, OnRecord(i), NEW status \in RunVerdicts \cup {"running", "deleted"},
           Recorded(i, status)
    PROVE  RecordsGrow
<1>1. [records[i] EXCEPT !.status = status] \in KeptRecords
  BY RecordTyped DEF KeptRecords
<1>2. records' = [records EXCEPT ![i] = [records[i] EXCEPT !.status = status]]
  BY DEF Recorded
<1> QED BY <1>1, <1>2, ChangeGrows

LEMMA CancelGrows ==
    ASSUME RecordsHeld, NEW i, OnRecord(i), records' = [records EXCEPT ![i].cancel = TRUE]
    PROVE  RecordsGrow
<1>1. [records[i] EXCEPT !.cancel = TRUE] \in KeptRecords
  BY RecordTyped DEF KeptRecords
<1>2. records' = [records EXCEPT ![i] = [records[i] EXCEPT !.cancel = TRUE]]
  OBVIOUS
<1> QED BY <1>1, <1>2, ChangeGrows

LEMMA TickGrows ==
    ASSUME JobsAssumption, RecordsHeld, JobsTick
    PROVE  RecordsGrow
<1>1. DOMAIN records' = DOMAIN records
  BY DEF JobsTick
<1>2. ASSUME NEW i \in DOMAIN records
      PROVE  records'[i] \in KeptRecords
  <2>1. PICK a : a = IF records[i].age > Overdue THEN records[i].age ELSE records[i].age + 1
    OBVIOUS
  <2>2. records[i] \in KeptRecords
    BY <1>2, RecordTyped DEF OnRecord
  <2>3. a \in 0 .. Overdue + 1
    <3>1. records[i].age \in 0 .. Overdue + 1
      BY <2>2 DEF KeptRecords
    <3> QED BY <2>1, <3>1, JobsAssumption
  <2>4. records'[i] = [records[i] EXCEPT !.age = a]
    BY <1>2, <2>1 DEF JobsTick
  <2> QED BY <2>2, <2>3, <2>4 DEF KeptRecords
<1>3. Len(records) \in Nat /\ DOMAIN records = 1 .. Len(records)
  BY LenProperties DEF RecordsHeld
<1>4. records' = [i \in 1 .. Len(records) |-> records'[i]]
  BY <1>1, <1>3 DEF JobsTick
<1>5. records' \in Seq(KeptRecords)
  <2>1. records' \in [1 .. Len(records) -> KeptRecords]
    BY <1>1, <1>2, <1>3, <1>4
  <2> QED BY <1>3, <2>1, SeqDef
<1> QED BY <1>1, <1>5 DEF RecordsGrow, RecordsHeld, OnRecord

LEMMA NewestOnRecord ==
    ASSUME RecordsHeld, NEW S, S \subseteq DOMAIN records
    PROVE  /\ Newest(S) \in Nat
           /\ S # {} => Newest(S) \in S /\ OnRecord(Newest(S))
           /\ Newest(S) # 0 => OnRecord(Newest(S))
<1>1. Len(records) \in Nat /\ DOMAIN records = 1 .. Len(records)
  BY LenProperties DEF RecordsHeld
<1>2. S # {} => Max(S) \in S
  BY <1>1, MaxIsIn
<1>3. S # {} => Newest(S) = Max(S)
  BY DEF Newest
<1>4. S = {} => Newest(S) = 0
  BY DEF Newest
<1> QED BY <1>1, <1>2, <1>3, <1>4 DEF OnRecord

\* A run that ends, or goes on to another stage.
LEMMA EndHeld ==
    ASSUME JobsTypeInv, NEW verdict \in RunVerdicts, End(verdict), RecordsGrow
    PROVE  RunHeld' /\ orderly' \in BOOLEAN
<1>1. PICK new : new = [at |-> "find", status |-> verdict, target |-> 0]
  OBVIOUS
<1>2. new \in ListenersKept /\ new.at = "find"
  BY <1>1 DEF ListenersKept
<1>3. listeners' = [listeners EXCEPT ![current.n] = new] \/ listeners' = listeners
  BY <1>1 DEF End
<1>4. /\ listeners' \in [RunIds -> ListenersKept]
      /\ \A n \in RunIds : (listeners[n].at = "update")' => OnRecord(listeners[n].target)'
  BY <1>2, <1>3 DEF JobsTypeInv, RunHeld, RecordsGrow
<1>5. outcome' \in [RunIds -> RunVerdicts \cup {"none", "lost"}]
  BY DEF End, JobsTypeInv, RunHeld
<1>6. current' \in RunsKept /\ current'.at = "idle" /\ current'.left = 0
  BY JobsAssumption DEF End, NoRun, RunsKept
<1>7. orderly' \in BOOLEAN
  <2>1. orderly \in BOOLEAN /\ service \in BOOLEAN
    BY DEF JobsTypeInv, CountsHeld
  <2>2. orderly' = (orderly /\ service /\ unrecorded = 0 /\ Quiet)
    BY DEF End
  <2> QED BY <2>1, <2>2, Zenon
<1> QED BY <1>4, <1>5, <1>6, <1>7 DEF RunHeld

LEMMA ListenersHold ==
    ASSUME JobsTypeInv, RecordsGrow, UNCHANGED <<outcome, listeners>>,
           current' \in RunsKept, current'.at = "idle" <=> current'.left = 0
    PROVE  RunHeld'
BY DEF JobsTypeInv, RunHeld, RecordsGrow

LEMMA GoesHeld ==
    ASSUME JobsTypeInv, NEW stage \in {"check", "batch", "report"}, Goes(stage), RecordsGrow,
           current.at # "idle"
    PROVE  RunHeld' /\ orderly' \in BOOLEAN
<1>1. /\ current' \in RunsKept /\ current'.at = stage /\ current'.left = current.left
      /\ current.left # 0
  BY DEF Goes, JobsTypeInv, RunHeld, RunsKept
<1>2. UNCHANGED <<outcome, listeners, orderly>>
  BY DEF Goes
<1> QED BY <1>1, <1>2, ListenersHold DEF JobsTypeInv, CountsHeld

LEMMA BatchHeld ==
    ASSUME JobsTypeInv, NextBatch, RecordsGrow, current.at # "idle"
    PROVE  RunHeld' /\ orderly' \in BOOLEAN
<1>1. CASE LastBatch
  BY <1>1, EndHeld DEF NextBatch, RunVerdicts
<1>2. CASE ~ LastBatch
  <2>1. PICK stage \in {"check", "batch"} :
           current' = [current EXCEPT !.left = @ - 1, !.at = stage]
    BY <1>2 DEF NextBatch
  <2>2. current \in RunsKept /\ current.left # 0 /\ current.left # 1
    BY <1>2 DEF JobsTypeInv, RunHeld, LastBatch
  <2>3. current.left - 1 \in 0 .. Batches /\ current.left - 1 # 0
    BY <2>2, JobsAssumption DEF RunsKept
  <2>4. current' \in RunsKept /\ current'.at = stage /\ current'.left = current.left - 1
    BY <2>1, <2>2, <2>3 DEF RunsKept
  <2>5. UNCHANGED <<outcome, listeners, orderly>>
    BY <1>2 DEF NextBatch
  <2> QED BY <2>3, <2>4, <2>5, ListenersHold DEF JobsTypeInv, CountsHeld
<1> QED BY <1>1, <1>2

\* What a step of the run leaves alone.
LEMMA RunRest ==
    ASSUME JobsTypeInv, RecordsGrow, RunHeld', orderly' \in BOOLEAN, StopsHeld',
           UNCHANGED runUnchanged
    PROVE  JobsTypeInv'
<1>1. CountsHeld'
  BY DEF JobsTypeInv, CountsHeld, runUnchanged
<1>2. OrderHeld' /\ \A i \in closing' : OnRecord(i)'
  BY DEF JobsTypeInv, OrderHeld, RecordsGrow, runUnchanged
<1> QED BY <1>1, <1>2 DEF JobsTypeInv, RecordsGrow

LEMMA StopsStay ==
    ASSUME JobsTypeInv, RecordsGrow, UNCHANGED stoppedBy
    PROVE  StopsHeld'
BY DEF JobsTypeInv, StopsHeld, RecordsGrow, OnRecord

\* A flag ends the run.
LEMMA StopHeld ==
    ASSUME JobsTypeInv, RecordsGrow, NEW i, OnRecord(i), Stopped(i)
    PROVE  RunHeld' /\ orderly' \in BOOLEAN /\ StopsHeld'
<1>1. RunHeld' /\ orderly' \in BOOLEAN
  BY EndHeld DEF Stopped, RunVerdicts
<1>2. StopsHeld'
  BY DEF Stopped, JobsTypeInv, StopsHeld, RecordsGrow, OnRecord
<1> QED BY <1>1, <1>2

LEMMA RunStepTyped ==
    ASSUME JobsAssumption, JobsTypeInv, RunStep
    PROVE  JobsTypeInv'
<1> DEFINE i == Newest(With({"running"}))
           j == Newest(With({"running", "success", "failed"}))
<1>1. RecordsHeld /\ (i # 0 => OnRecord(i)) /\ (j # 0 => OnRecord(j))
  BY NewestOnRecord DEF JobsTypeInv, With
<1>2. CASE Begin
  <2>1. RecordsGrow /\ UNCHANGED stoppedBy /\ UNCHANGED runUnchanged /\ current.at # "idle"
    BY <1>1, <1>2, RecordsUnchanged DEF Begin
  <2>2. RunHeld' /\ orderly' \in BOOLEAN
    BY <1>2, <2>1, GoesHeld, EndHeld DEF Begin, RunVerdicts
  <2> QED BY <2>1, <2>2, StopsStay, RunRest
<1>3. CASE Check
  <2>1. RecordsGrow /\ UNCHANGED runUnchanged /\ current.at # "idle"
    BY <1>1, <1>3, RecordsUnchanged DEF Check
  <2>2. (i # 0 /\ Stopped(i)) \/ (Goes("batch") /\ UNCHANGED stoppedBy)
    BY <1>3 DEF Check
  <2> HIDE DEF i
  <2>3. RunHeld' /\ orderly' \in BOOLEAN /\ StopsHeld'
    BY <1>1, <2>1, <2>2, StopHeld, GoesHeld, StopsStay
  <2> QED BY <2>1, <2>3, RunRest
<1>4. CASE Batch
  <2>1. /\ RecordsGrow /\ UNCHANGED stoppedBy /\ UNCHANGED runUnchanged /\ current.at # "idle"
    BY <1>1, <1>4, RecordsUnchanged DEF Batch
  <2>2. RunHeld' /\ orderly' \in BOOLEAN
    BY <1>4, <2>1, GoesHeld, BatchHeld, EndHeld DEF Batch, RunVerdicts
  <2> QED BY <2>1, <2>2, StopsStay, RunRest
<1>5. CASE PollProgress
  <2>1. RecordsGrow /\ UNCHANGED runUnchanged /\ current.at # "idle"
    BY <1>1, <1>5, RecordsUnchanged DEF PollProgress
  <2>2. (i # 0 /\ Stopped(i)) \/ (NextBatch /\ UNCHANGED stoppedBy)
    BY <1>5 DEF PollProgress
  <2> HIDE DEF i
  <2>3. RunHeld' /\ orderly' \in BOOLEAN /\ StopsHeld'
    BY <1>1, <2>1, <2>2, StopHeld, BatchHeld, StopsStay
  <2> QED BY <2>1, <2>3, RunRest
<1>6. CASE Report
  <2>1. \/ Inserted("running", 0)
        \/ UNCHANGED records
        \/ j # 0 /\ Recorded(j, "running")
    BY <1>6 DEF Report
  <2>2. NextBatch /\ UNCHANGED stoppedBy /\ UNCHANGED runUnchanged /\ current.at # "idle"
    BY <1>6 DEF Report
  <2> HIDE DEF j
  <2>3. RecordsGrow
    <3>1. 0 \in 0 .. MaxRuns + 1
      BY JobsAssumption
    <3> QED BY <1>1, <2>1, <3>1, InsertGrows, RecordsUnchanged, StatusGrows
  <2> QED BY <2>2, <2>3, BatchHeld, StopsStay, RunRest
<1> QED BY <1>2, <1>3, <1>4, <1>5, <1>6 DEF RunStep
\* The records change, nothing else that the domains are about.
LEMMA RecordsRest ==
    ASSUME JobsTypeInv, RecordsGrow, orderly' \in BOOLEAN, closing' \subseteq closing,
           UNCHANGED <<kind, service, paused, due, nextRun, current, outcome, stoppedBy,
                       eventCount>>,
           unrecorded' \in 0 .. eventCount, order' \in {order, NoOrder},
           \/ UNCHANGED listeners
           \/ \E n \in RunIds : listeners' = [listeners EXCEPT ![n] = NoListener]
    PROVE  JobsTypeInv'
<1>1. NoListener \in ListenersKept /\ NoListener.at = "none"
  BY DEF NoListener, ListenersKept, RunVerdicts
<1>2. CountsHeld'
  BY DEF JobsTypeInv, CountsHeld
<1>3. RunHeld'
  BY <1>1 DEF JobsTypeInv, RunHeld, RecordsGrow
<1>4. OrderHeld' /\ \A i \in closing' : OnRecord(i)'
  BY DEF JobsTypeInv, OrderHeld, RecordsGrow
<1> QED BY <1>2, <1>3, <1>4, StopsStay DEF JobsTypeInv, RecordsGrow

\* The records stay as they are, and so do the listeners and the run.
LEMMA CountsRest ==
    ASSUME JobsTypeInv, CountsHeld', OrderHeld', \A i \in closing' : OnRecord(i),
           UNCHANGED <<records, current, outcome, stoppedBy, listeners>>
    PROVE  JobsTypeInv'
BY DEF JobsTypeInv, RecordsHeld, RunHeld, StopsHeld, OnRecord

LEMMA FireTyped ==
    ASSUME JobsAssumption, JobsTypeInv, Fire
    PROVE  JobsTypeInv'
<1>1. nextRun \in 1 .. MaxRuns /\ UNCHANGED <<records, listeners, outcome, stoppedBy, order, closing,
                                             kind, service, paused, unrecorded, eventCount>>
  BY DEF Fire, RunIds
<1>2. RecordsGrow /\ orderly' \in BOOLEAN /\ due' = FALSE
  BY <1>1, RecordsUnchanged DEF Fire, JobsTypeInv, CountsHeld
<1>3. /\ current' \in RunsKept /\ (current'.at = "idle" <=> current'.left = 0)
      /\ nextRun' \in 1 .. MaxRuns + 1
  <2>1. CASE UNCHANGED <<current, nextRun>>
    BY <2>1 DEF JobsTypeInv, RunHeld, CountsHeld
  <2>2. CASE /\ current' = [n |-> nextRun, at |-> "start", left |-> Batches]
             /\ nextRun' = nextRun + 1
    BY <1>1, <2>2, JobsAssumption DEF RunsKept
  <2> QED BY <2>1, <2>2 DEF Fire
<1>4. RunHeld'
  BY <1>1, <1>2, <1>3, ListenersHold
<1>5. CountsHeld' /\ OrderHeld' /\ \A i \in closing' : OnRecord(i)'
  BY <1>1, <1>2, <1>3 DEF JobsTypeInv, CountsHeld, OrderHeld, OnRecord
<1> QED BY <1>1, <1>2, <1>4, <1>5, StopsStay DEF JobsTypeInv, RecordsGrow

LEMMA MisfireTyped ==
    ASSUME JobsAssumption, JobsTypeInv, Misfire
    PROVE  JobsTypeInv'
<1>1. /\ nextRun \in RunIds /\ nextRun' = nextRun + 1 /\ due' = FALSE
      /\ outcome' = [outcome EXCEPT ![nextRun] = "missed"]
      /\ UNCHANGED <<records, current, stoppedBy, order, closing, kind, service, paused,
                     unrecorded, eventCount>>
  BY DEF Misfire
<1>2. RecordsGrow
  BY <1>1, RecordsUnchanged DEF JobsTypeInv
<1>3. orderly' \in BOOLEAN
  <2>1. orderly \in BOOLEAN /\ service \in BOOLEAN
    BY DEF JobsTypeInv, CountsHeld
  <2> QED BY <2>1, Zenon DEF Misfire
<1>4. /\ listeners' \in [RunIds -> ListenersKept]
      /\ \A n \in RunIds : (listeners[n].at = "update")' => OnRecord(listeners[n].target)'
  <2>1. PICK new : new = [listeners[nextRun] EXCEPT !.at = "insert"]
    OBVIOUS
  <2>2. new \in ListenersKept /\ new.at = "insert"
    BY <1>1, <2>1 DEF JobsTypeInv, RunHeld, ListenersKept
  <2>3. listeners' = [listeners EXCEPT ![nextRun] = new] \/ listeners' = listeners
    BY <2>1 DEF Misfire
  <2> QED BY <1>1, <1>2, <2>2, <2>3 DEF JobsTypeInv, RunHeld, RecordsGrow
<1>5. RunHeld'
  BY <1>1, <1>4 DEF JobsTypeInv, RunHeld, RunVerdicts
<1>6. CountsHeld'
  <2>1. due' \in BOOLEAN
    BY <1>1
  <2>2. nextRun' \in 1 .. MaxRuns + 1
    BY <1>1, JobsAssumption DEF RunIds
  <2> QED BY <1>1, <1>3, <2>1, <2>2 DEF JobsTypeInv, CountsHeld
<1>7. OrderHeld' /\ \A i \in closing' : OnRecord(i)'
  BY <1>1 DEF JobsTypeInv, OrderHeld, OnRecord
<1> QED BY <1>1, <1>2, <1>5, <1>6, <1>7, StopsStay DEF JobsTypeInv, RecordsGrow

LEMMA FindTyped ==
    ASSUME JobsTypeInv, NEW n \in RunIds, Find(n)
    PROVE  JobsTypeInv'
<1> DEFINE i == Newest(Candidates)
<1>1. i \in Nat /\ (Candidates # {} => OnRecord(i))
  BY NewestOnRecord DEF JobsTypeInv, Candidates, With
<1> HIDE DEF i
<1>2. PICK stage \in {"insert", "update"} :
         /\ listeners' = [listeners EXCEPT ![n].at = stage, ![n].target = i]
         /\ stage = "update" => OnRecord(i)
  BY <1>1 DEF Find, i
<1>3. PICK new : new = [listeners[n] EXCEPT !.at = stage, !.target = i]
  OBVIOUS
<1>4. new \in ListenersKept /\ new.at = stage /\ new.target = i
  BY <1>1, <1>3 DEF JobsTypeInv, RunHeld, ListenersKept
<1>5. listeners' = [listeners EXCEPT ![n] = new]
  BY <1>2, <1>3 DEF JobsTypeInv, RunHeld
<1>6. UNCHANGED <<kind, records, service, paused, due, jobRun, unrecorded, order, closing,
                  eventCount, orderly>>
  BY DEF Find
<1>7. /\ listeners' \in [RunIds -> ListenersKept]
      /\ \A m \in RunIds : (listeners[m].at = "update")' => OnRecord(listeners[m].target)'
  <2>1. /\ listeners \in [RunIds -> ListenersKept]
        /\ \A m \in RunIds : listeners[m].at = "update" => OnRecord(listeners[m].target)
    BY DEF JobsTypeInv, RunHeld
  <2>2. /\ listeners' \in [RunIds -> ListenersKept] /\ listeners'[n] = new
        /\ \A m \in RunIds \ {n} : listeners'[m] = listeners[m]
    BY <1>4, <1>5, <2>1
  <2>3. listeners'[n].at = "update" => OnRecord(listeners'[n].target)
    BY <1>2, <1>4, <2>2
  <2>4. \A m \in RunIds \ {n} : listeners'[m].at = "update" => OnRecord(listeners'[m].target)
    BY <2>1, <2>2
  <2>5. \A m \in RunIds : listeners'[m].at = "update" => OnRecord(listeners'[m].target)
    BY <2>3, <2>4
  <2> QED BY <1>6, <2>2, <2>5 DEF OnRecord
<1> QED BY <1>6, <1>7 DEF JobsTypeInv, CountsHeld, RecordsHeld, RunHeld, StopsHeld, OrderHeld,
                         OnRecord, jobRun

LEMMA WriteEndTyped ==
    ASSUME JobsAssumption, JobsTypeInv, NEW n \in RunIds, WriteEnd(n)
    PROVE  JobsTypeInv'
<1>1. /\ listeners' = [listeners EXCEPT ![n] = NoListener]
      /\ UNCHANGED <<kind, service, paused, due, jobRun, unrecorded, order, closing,
                     eventCount, orderly>>
  BY DEF WriteEnd
<1>2. listeners[n].status \in RunVerdicts
  BY DEF JobsTypeInv, RunHeld, ListenersKept
<1>3. \/ UNCHANGED records
      \/ /\ OnRecord(listeners[n].target)
         /\ Recorded(listeners[n].target, listeners[n].status)
      \/ Inserted(listeners[n].status, 0)
  BY DEF WriteEnd, JobsTypeInv, RunHeld
<1>4. RecordsHeld /\ 0 \in 0 .. MaxRuns + 1
  BY JobsAssumption DEF JobsTypeInv
<1>5. RecordsGrow
  BY <1>2, <1>3, <1>4, InsertGrows, StatusGrows, RecordsUnchanged
<1>6. unrecorded \in 0 .. eventCount /\ orderly \in BOOLEAN
  BY DEF JobsTypeInv, CountsHeld
<1> QED BY <1>1, <1>5, <1>6, RecordsRest DEF jobRun

LEMMA TriggerRecordTyped ==
    ASSUME JobsAssumption, JobsTypeInv, TriggerRecord
    PROVE  JobsTypeInv'
<1>1. /\ unrecorded > 0 /\ unrecorded' = unrecorded - 1
      /\ UNCHANGED <<kind, service, paused, due, jobRun, listeners, order, closing,
                     eventCount, orderly>>
  BY DEF TriggerRecord
<1>2. PICK of : Inserted("running", of) /\ of \in {nextRun, current.n}
  BY DEF TriggerRecord
<1>3. of \in 0 .. MaxRuns + 1
  BY <1>2, JobsAssumption DEF JobsTypeInv, CountsHeld, RunHeld, RunsKept
<1>4. RecordsGrow
  BY <1>2, <1>3, InsertGrows DEF JobsTypeInv
<1>5. unrecorded' \in 0 .. eventCount /\ orderly \in BOOLEAN
  BY <1>1, JobsAssumption DEF JobsTypeInv, CountsHeld
<1> QED BY <1>1, <1>4, <1>5, RecordsRest DEF jobRun

LEMMA WriteRecordTyped ==
    ASSUME JobsTypeInv, WriteRecord
    PROVE  JobsTypeInv'
<1>1. /\ order # NoOrder /\ order' = NoOrder
      /\ UNCHANGED <<kind, service, paused, due, jobRun, listeners, unrecorded, closing,
                     eventCount>>
  BY DEF WriteRecord
<1>2. OnRecord(order.target) /\ order.what \in {"cancel", "mark", "delete"}
  BY <1>1 DEF JobsTypeInv, OrderHeld
<1>3. \/ UNCHANGED records
      \/ records' = [records EXCEPT ![order.target].cancel = TRUE]
      \/ \E status \in {"failed", "deleted"} : Recorded(order.target, status)
  BY <1>2 DEF WriteRecord
<1>4. RecordsGrow
  BY <1>2, <1>3, CancelGrows, StatusGrows, RecordsUnchanged DEF JobsTypeInv, RunVerdicts
<1>5. unrecorded \in 0 .. eventCount /\ orderly \in BOOLEAN
  BY DEF JobsTypeInv, CountsHeld
<1>6. orderly' \in BOOLEAN
  BY <1>5, Zenon DEF WriteRecord
<1> QED BY <1>1, <1>4, <1>5, <1>6, RecordsRest DEF jobRun

LEMMA RestartTyped ==
    ASSUME JobsAssumption, JobsTypeInv, JobsRestart
    PROVE  JobsTypeInv'
<1>1. NoListener \in ListenersKept /\ NoListener.at = "none"
  BY DEF NoListener, ListenersKept, RunVerdicts
<1>2. NoRun \in RunsKept /\ NoRun.at = "idle" /\ NoRun.left = 0
  BY JobsAssumption DEF NoRun, RunsKept
<1>3. RunHeld'
  BY <1>1, <1>2 DEF JobsRestart, JobsTypeInv, RunHeld
<1>4. CountsHeld'
  <2>1. /\ kind \in JobKinds /\ paused \in BOOLEAN /\ nextRun \in 1 .. MaxRuns + 1
        /\ eventCount \in 0 .. MaxEvents /\ unrecorded \in 0 .. eventCount
    BY DEF JobsTypeInv, CountsHeld
  <2>2. eventCount' \in 0 .. MaxEvents /\ unrecorded' \in 0 .. eventCount'
    BY <2>1, JobsAssumption DEF JobsRestart, Event
  <2>3. service' \in BOOLEAN /\ paused' \in BOOLEAN /\ due' \in BOOLEAN /\ orderly' \in BOOLEAN
    BY <2>1, Zenon DEF JobsRestart
  <2> QED BY <2>1, <2>2, <2>3 DEF JobsRestart, CountsHeld
<1>5. OrderHeld' /\ closing' = {} /\ UNCHANGED <<records, stoppedBy>>
  BY DEF JobsRestart, OrderHeld
<1> QED BY <1>3, <1>4, <1>5 DEF JobsTypeInv, RecordsHeld, StopsHeld, OnRecord

LEMMA JobsTypeStep ==
    ASSUME JobsAssumption, JobsTypeInv, [JobsNext]_jobVars
    PROVE  JobsTypeInv'
<1>1. CASE UNCHANGED jobVars
  BY <1>1 DEF jobVars, jobRun, JobsTypeInv, CountsHeld, RecordsHeld, RunHeld, StopsHeld, OrderHeld,
              OnRecord
<1>2. CASE OpenService
  <2>1. CountsHeld' /\ OrderHeld'
    BY <1>2 DEF OpenService, JobsTypeInv, CountsHeld, OrderHeld, OnRecord, jobRun
  <2> QED BY <1>2, <2>1, CountsRest DEF OpenService, JobsTypeInv, jobRun
<1>3. CASE TriggerJob
  <2>1. UNCHANGED <<records, kind, service, jobRun, listeners, order, closing>>
    BY <1>3 DEF TriggerJob
  <2>2. CountsHeld'
    <3>1. orderly' \in BOOLEAN
      <4>1. orderly \in BOOLEAN
        BY DEF JobsTypeInv, CountsHeld
      <4> QED BY <1>3, <4>1, Zenon DEF TriggerJob
    <3>2. due' = TRUE /\ paused' = FALSE /\ unrecorded' = unrecorded + 1 /\ Event
      BY <1>3 DEF TriggerJob
    <3>3. eventCount' \in 0 .. MaxEvents /\ unrecorded' \in 0 .. eventCount'
      BY <3>2, JobsAssumption DEF Event, JobsTypeInv, CountsHeld
    <3> QED BY <2>1, <3>1, <3>2, <3>3 DEF JobsTypeInv, CountsHeld, jobRun
  <2>3. OrderHeld'
    BY <2>1 DEF JobsTypeInv, OrderHeld, OnRecord
  <2> QED BY <2>1, <2>2, <2>3, CountsRest DEF JobsTypeInv, jobRun
<1>4. CASE PauseJob
  <2>1. UNCHANGED <<records, kind, service, jobRun, listeners, unrecorded, order, closing>>
    BY <1>4 DEF PauseJob
  <2>2. CountsHeld'
    <3>1. /\ orderly' \in BOOLEAN /\ due' \in BOOLEAN /\ paused' \in BOOLEAN
      <4>1. {orderly, due, paused} \subseteq BOOLEAN
        BY DEF JobsTypeInv, CountsHeld
      <4>2. due' = (due /\ paused) /\ paused' = ~ paused /\ orderly' = (orderly /\ ~ due)
        BY <1>4 DEF PauseJob
      <4> QED BY <4>1, <4>2
    <3>2. eventCount' \in 0 .. MaxEvents /\ unrecorded' \in 0 .. eventCount'
      BY <1>4, JobsAssumption DEF PauseJob, Event, JobsTypeInv, CountsHeld
    <3> QED BY <2>1, <3>1, <3>2 DEF JobsTypeInv, CountsHeld, jobRun
  <2>3. OrderHeld'
    BY <2>1 DEF JobsTypeInv, OrderHeld, OnRecord
  <2> QED BY <2>1, <2>2, <2>3, CountsRest DEF JobsTypeInv, jobRun
<1>5. ASSUME NEW i \in DOMAIN records, NEW what \in {"cancel", "mark", "delete"},
             ReadRecord(i, what)
      PROVE  JobsTypeInv'
  <2>1. UNCHANGED <<kind, records, service, paused, due, jobRun, listeners, unrecorded,
                    closing, orderly>>
    BY <1>5 DEF ReadRecord
  <2>2. OrderHeld'
    BY <1>5, <2>1 DEF ReadRecord, OrderHeld, OnRecord
  <2>3. CountsHeld'
    BY <1>5, <2>1, JobsAssumption DEF ReadRecord, Event, JobsTypeInv, CountsHeld, jobRun
  <2> QED BY <2>1, <2>2, <2>3, CountsRest DEF JobsTypeInv, jobRun
<1>6. CASE ZombieFind
  <2>1. \A i \in closing' : OnRecord(i)
    BY <1>6 DEF ZombieFind, With, OnRecord
  <2>2. CountsHeld' /\ OrderHeld'
    BY <1>6 DEF ZombieFind, JobsTypeInv, CountsHeld, OrderHeld, OnRecord, jobRun
  <2> QED BY <1>6, <2>1, <2>2, CountsRest DEF ZombieFind, jobRun
<1>7. ASSUME NEW i \in closing, ZombieClose(i)
      PROVE  JobsTypeInv'
  <2>1. OnRecord(i)
    BY DEF JobsTypeInv
  <2>2. RecordsGrow
    BY <1>7, <2>1, RecordsUnchanged, StatusGrows DEF ZombieClose, JobsTypeInv, RunVerdicts
  <2>3. unrecorded \in 0 .. eventCount
    BY DEF JobsTypeInv, CountsHeld
  <2> QED BY <1>7, <2>2, <2>3, RecordsRest DEF ZombieClose, jobRun
<1>8. ASSUME NEW n \in RunIds, LoseRecord(n)
      PROVE  JobsTypeInv'
  <2>1. UNCHANGED <<kind, records, service, paused, due, jobRun, unrecorded, order, closing>>
        /\ orderly' = FALSE /\ listeners' = [listeners EXCEPT ![n] = NoListener]
    BY <1>8 DEF LoseRecord
  <2>2. RunHeld'
    BY <2>1 DEF JobsTypeInv, RunHeld, NoListener, ListenersKept, RunVerdicts, OnRecord, jobRun
  <2>3. CountsHeld'
    <3>1. /\ CountsHeld /\ eventCount \in 0 .. MaxEvents /\ unrecorded \in 0 .. eventCount
      BY DEF JobsTypeInv, CountsHeld
    <3>2. eventCount' \in 0 .. MaxEvents /\ unrecorded' \in 0 .. eventCount'
      BY <1>8, <3>1, JobsAssumption DEF LoseRecord, Event
    <3> QED BY <2>1, <3>1, <3>2 DEF CountsHeld, jobRun
  <2> QED BY <2>1, <2>2, <2>3 DEF JobsTypeInv, RecordsHeld, StopsHeld, OrderHeld, OnRecord, jobRun
<1>9. CASE JobsTick
  <2>1. RecordsGrow
    BY <1>9, TickGrows DEF JobsTypeInv
  <2>2. orderly' \in BOOLEAN
    <3>1. orderly \in BOOLEAN
      BY DEF JobsTypeInv, CountsHeld
    <3> QED BY <1>9, <3>1, Zenon DEF JobsTick
  <2>3. unrecorded \in 0 .. eventCount
    BY DEF JobsTypeInv, CountsHeld
  <2> QED BY <1>9, <2>1, <2>2, <2>3, RecordsRest DEF JobsTick, jobRun
<1> QED BY <1>1, <1>2, <1>3, <1>4, <1>5, <1>6, <1>7, <1>8, <1>9, FireTyped, MisfireTyped,
           RunStepTyped, FindTyped, WriteEndTyped, TriggerRecordTyped, WriteRecordTyped,
           RestartTyped DEF JobsNext

LEMMA JobsTypeStarts ==
    ASSUME JobsAssumption, JobsInit
    PROVE  JobsTypeInv
<1>1. NoListener \in ListenersKept /\ NoListener.at = "none"
  BY DEF NoListener, ListenersKept, RunVerdicts
<1>2. NoRun \in RunsKept /\ NoRun.at = "idle" /\ NoRun.left = 0
  BY JobsAssumption DEF NoRun, RunsKept
<1>3. RecordsHeld
  BY EmptySeq DEF JobsInit, RecordsHeld
<1>4. CountsHeld
  <2>1. kind \in JobKinds /\ nextRun \in 1 .. MaxRuns + 1
        /\ eventCount \in 0 .. MaxEvents /\ unrecorded \in 0 .. eventCount
    BY JobsAssumption DEF JobsInit
  <2>2. service \in BOOLEAN /\ paused \in BOOLEAN /\ due \in BOOLEAN /\ orderly \in BOOLEAN
    BY Zenon DEF JobsInit
  <2> QED BY <2>1, <2>2 DEF CountsHeld
<1>5. RunHeld
  BY <1>1, <1>2 DEF JobsInit, RunHeld
<1>6. StopsHeld
  BY DEF JobsInit, StopsHeld
<1>7. OrderHeld
  BY DEF JobsInit, OrderHeld
<1> QED BY <1>3, <1>4, <1>5, <1>6, <1>7 DEF JobsInit, JobsTypeInv

LEMMA JobsTypeFollows ==
    ASSUME JobsAssumption, JobsTypeInv
    PROVE  JobsTypeOK
<1>1. \A i \in DOMAIN records : records[i] \in KeptRecords
  BY RecordTyped DEF JobsTypeInv, OnRecord
<1>2. unrecorded \in 0 .. MaxEvents
  BY JobsAssumption DEF JobsTypeInv, CountsHeld
<1>3. stoppedBy \in [RunIds -> {0} \cup DOMAIN records]
  BY DEF JobsTypeInv, StopsHeld
<1>4. order.target \in {0} \cup DOMAIN records
  BY DEF JobsTypeInv, OrderHeld, NoOrder, OnRecord
<1> QED BY <1>1, <1>2, <1>3, <1>4
        DEF JobsTypeInv, JobsTypeOK, CountsHeld, RunHeld, KeptRecords, RunsKept, ListenersKept,
            OnRecord

LEMMA JobsTypeHolds == JobsInit /\ [][JobsNext]_jobVars => []JobsTypeOK
<1>1. JobsInit => JobsTypeInv
  BY JobsAssumption, JobsTypeStarts
<1>2. JobsTypeInv /\ [JobsNext]_jobVars => JobsTypeInv'
  BY JobsAssumption, JobsTypeStep
<1>3. JobsTypeInv => JobsTypeOK
  BY JobsAssumption, JobsTypeFollows
<1> QED BY <1>1, <1>2, <1>3, PTL

\* Every variable of the scheduler's records stays in its domain, however the
\* runs and the requests of users overlap: a record read before a write is
\* still one of the collection after it (scheduler_service.py).
THEOREM JobsTypeCorrect == JobsSpec => []JobsTypeOK
BY JobsTypeHolds, PTL DEF JobsSpec

-----------------------------------------------------------------------------
\* A call of the synchronisation ends: a bound on the steps it has left, which
\* each of its steps lowers.

\* A batch that is left stands for the tries it can take, as there are before the
\* list is fetched; an end that raises makes the run a failed one.
StepsOf(k) ==
    CASE k.at \in {"skip", "release"} -> 1
      [] k.at = "fail" -> 2
      [] k.at = "report" -> 3
      [] k.at = "write" -> 3 + k.left * MaxTries - k.tries
      [] k.at = "fetch" -> 4 + SyncBatches * MaxTries
      [] k.at = "announce" -> 5 + SyncBatches * MaxTries
      [] OTHER -> 0

LEMMA StepsAre ==
    ASSUME NEW k
    PROVE  /\ k.at = "idle" => StepsOf(k) = 0
           /\ k.at = "skip" => StepsOf(k) = 1
           /\ k.at = "release" => StepsOf(k) = 1
           /\ k.at = "fail" => StepsOf(k) = 2
           /\ k.at = "report" => StepsOf(k) = 3
           /\ k.at = "write" => StepsOf(k) = 3 + k.left * MaxTries - k.tries
           /\ k.at = "fetch" => StepsOf(k) = 4 + SyncBatches * MaxTries
           /\ k.at = "announce" => StepsOf(k) = 5 + SyncBatches * MaxTries
BY DEF StepsOf

\* The tries of the batches that are left.
LEMMA TriesAre ==
    /\ SyncBatches * MaxTries \in Nat
    /\ \A n \in 1 .. SyncBatches, t \in 0 .. MaxTries - 1 :
          /\ n * MaxTries - t \in Nat /\ n * MaxTries - t > 0
          /\ n * MaxTries - t <= SyncBatches * MaxTries
          /\ (n - 1) * MaxTries < n * MaxTries - t
<1>1. SyncBatches \in Nat /\ MaxTries \in Nat
  BY SyncAssumption
<1>2. \A n \in 1 .. SyncBatches : /\ (n - 1) * MaxTries \in Nat
                                  /\ n * MaxTries = (n - 1) * MaxTries + MaxTries
                                  /\ n * MaxTries <= SyncBatches * MaxTries
  BY <1>1
<1> QED BY <1>1, <1>2

LEMMA StepsCount ==
    ASSUME NEW k, CallTyped(k)
    PROVE  StepsOf(k) \in Nat
<1>1. CASE k.at = "write"
  <2>1. k.left \in 1 .. SyncBatches /\ k.tries \in 0 .. MaxTries - 1
    BY <1>1, SyncAssumption DEF CallTyped
  <2>2. k.left * MaxTries - k.tries \in Nat
    BY <2>1, TriesAre
  <2>3. PICK n \in Nat : n = k.left * MaxTries - k.tries
    BY <2>2
  <2>4. StepsOf(k) = 3 + k.left * MaxTries - k.tries
    BY <1>1, StepsAre
  <2>5. k.left * MaxTries \in Int /\ k.tries \in Int
    BY <2>1, SyncAssumption
  <2> QED BY <2>3, <2>4, <2>5
<1>2. CASE k.at \in {"fetch", "announce"}
  BY <1>2, StepsAre, TriesAre
<1>3. CASE k.at \in {"idle", "skip", "release", "fail", "report"}
  BY <1>3, StepsAre
<1> QED BY <1>1, <1>2, <1>3 DEF CallTyped, CallRecords, SyncStages

\* One call takes a step.
LEMMA CallFalls ==
    ASSUME SyncTypeInv, SyncTypeInv', NEW c \in Calls,
           \/ SyncStep(c) \/ AnnounceRaises(c) \/ ReportRaises(c) \/ FailureRaises(c)
    PROVE  /\ StepsOf(call'[c]) < StepsOf(call[c])
           /\ \A d \in Calls \ {c} : call'[d] = call[d]
<1> DEFINE k == call[c]
           new == call'[c]
<1>1. CallTyped(k) /\ CallTyped(new) /\ DOMAIN call = Calls /\ k \in CallRecords
  BY DEF SyncTypeInv, CallTyped
<1>2. \A d \in Calls \ {c} : call'[d] = call[d]
  BY <1>1 DEF SyncStep, SkipRead, Announce, FetchList, WriteBatch, BatchDone, ReportEnd,
      ReportFailure, ReleaseFlag, AnnounceRaises, ReportRaises, FailureRaises, SyncAt
<1>3. PICK m \in Nat : m = SyncBatches * MaxTries
  BY TriesAre
<1>4. CASE SkipRead(c) \/ AnnounceRaises(c) \/ ReleaseFlag(c)
  <2>1. k.at \in {"skip", "announce", "release"} /\ new = Resting
    BY <1>1, <1>4 DEF SkipRead, AnnounceRaises, ReleaseFlag
  <2>2. new.at = "idle"
    BY <2>1 DEF Resting
  <2>3. StepsOf(new) = 0
    BY <2>2, StepsAre
  <2>4. StepsOf(k) = 1 \/ StepsOf(k) = 5 + m
    BY <1>3, <2>1, StepsAre
  <2> QED BY <1>2, <2>3, <2>4
<1>5. CASE Announce(c)
  <2>1. k.at = "announce" /\ new.at = "fetch"
    BY <1>1, <1>5 DEF Announce, SyncAt, CallRecords
  <2>2. StepsOf(new) = 4 + m /\ StepsOf(k) = 5 + m
    BY <1>3, <2>1, StepsAre
  <2> QED BY <1>2, <2>2
<1>6. CASE FetchList(c)
  <2>1. k.at = "fetch" /\ new.at \in {"write", "fail"}
    BY <1>1, <1>6 DEF FetchList, SyncAt, CallRecords
  <2>2. StepsOf(k) = 4 + m
    BY <1>3, <2>1, StepsAre
  <2>3. CASE new.at = "write"
    <3>1. new.left \in 1 .. SyncBatches /\ new.tries \in 0 .. MaxTries - 1
      BY <1>1, <2>3, SyncAssumption DEF CallTyped
    <3>2. PICK n \in Nat : n = new.left * MaxTries - new.tries /\ n <= m
      BY <1>3, <3>1, TriesAre
    <3>3. StepsOf(new) = 3 + new.left * MaxTries - new.tries
      BY <2>3, StepsAre
    <3>4. new.left * MaxTries \in Int /\ new.tries \in Int
      BY <3>1, SyncAssumption
    <3>5. StepsOf(new) = 3 + n
      BY <3>2, <3>3, <3>4
    <3> QED BY <1>2, <2>2, <3>2, <3>5
  <2>4. CASE new.at = "fail"
    <3>1. StepsOf(new) = 2
      BY <2>4, StepsAre
    <3> QED BY <1>2, <2>2, <3>1
  <2> QED BY <2>1, <2>3, <2>4
<1>7. CASE WriteBatch(c)
  <2>1. k.at = "write" /\ k.left \in 1 .. SyncBatches /\ k.tries \in 0 .. MaxTries - 1
    BY <1>1, <1>7, SyncAssumption DEF WriteBatch, CallTyped
  <2>2. PICK n \in 1 .. SyncBatches : n = k.left
    BY <2>1
  <2>3. PICK t \in 0 .. MaxTries - 1 : t = k.tries
    BY <2>1
  <2>4. StepsOf(k) = 3 + n * MaxTries - t
    BY <2>1, <2>2, <2>3, StepsAre
  <2>5. PICK p \in Int : p = n * MaxTries
    BY SyncAssumption
  <2>6. PICK q \in Int : q = (n - 1) * MaxTries
    BY SyncAssumption
  <2>7. q < p - t /\ p - t > 0
    BY <2>5, <2>6, TriesAre
  <2>8. \/ new = [k EXCEPT !.tries = @ + 1]
        \/ \E failed \in {0, 1} :
             new = [k EXCEPT !.left = @ - 1, !.tries = 0, !.errors = @ + failed,
                             !.at = IF k.left = 1 THEN "report" ELSE "write"]
    BY <1>1, <1>7 DEF WriteBatch, BatchDone, GivenUp
  <2>9. CASE new = [k EXCEPT !.tries = @ + 1]
    <3>1. new.at = "write" /\ new.left = n /\ new.tries = t + 1
      BY <1>1, <2>1, <2>2, <2>3, <2>9 DEF CallRecords
    <3>2. StepsOf(new) = 3 + n * MaxTries - (t + 1)
      BY <3>1, StepsAre
    <3> QED BY <1>2, <2>4, <2>5, <3>2
  <2>10. ASSUME NEW failed \in {0, 1},
                new = [k EXCEPT !.left = @ - 1, !.tries = 0, !.errors = @ + failed,
                                !.at = IF k.left = 1 THEN "report" ELSE "write"]
         PROVE  StepsOf(new) < StepsOf(k)
    <3>1. new.at = (IF n = 1 THEN "report" ELSE "write") /\ new.left = n - 1 /\ new.tries = 0
      BY <1>1, <2>2, <2>10 DEF CallRecords
    <3>2. CASE n = 1
      <4>1. StepsOf(new) = 3
        BY <3>1, <3>2, StepsAre
      <4> QED BY <2>4, <2>5, <2>7, <4>1
    <3>3. CASE n # 1
      <4>1. StepsOf(new) = 3 + (n - 1) * MaxTries - 0
        BY <3>1, <3>3, StepsAre
      <4> QED BY <2>4, <2>5, <2>6, <2>7, <4>1
    <3> QED BY <3>2, <3>3
  <2> QED BY <1>2, <2>8, <2>9, <2>10
<1>8. CASE ReportEnd(c) \/ ReportRaises(c)
  <2>1. k.at = "report" /\ new.at \in {"release", "fail"}
    BY <1>1, <1>8 DEF ReportEnd, ReportRaises, SyncAt, CallRecords
  <2>2. StepsOf(k) = 3 /\ (StepsOf(new) = 1 \/ StepsOf(new) = 2)
    BY <2>1, StepsAre
  <2> QED BY <1>2, <2>2
<1>9. CASE ReportFailure(c) \/ FailureRaises(c)
  <2>1. k.at = "fail" /\ new.at = "release"
    BY <1>1, <1>9 DEF ReportFailure, FailureRaises, SyncAt, CallRecords
  <2>2. StepsOf(k) = 2 /\ StepsOf(new) = 1
    BY <2>1, StepsAre
  <2> QED BY <1>2, <2>2
<1> QED BY <1>4, <1>5, <1>6, <1>7, <1>8, <1>9 DEF SyncStep

\* Of a call that has begun, every step lowers the number of its steps left, a
\* natural number, and no step of another call raises it.
CallsRunDown ==
    \A c \in Calls : call[c].at # "idle" /\ call'[c] # call[c]
                        => StepsOf(call'[c]) < StepsOf(call[c])

LEMMA CallsFall ==
    ASSUME SyncTypeInv, SyncTypeInv', [SyncNext]_syncVars
    PROVE  CallsRunDown
<1>1. DOMAIN call = Calls /\ \A c \in Calls : CallTyped(call[c]) /\ StepsOf(call[c]) \in Nat
  BY StepsCount DEF SyncTypeInv
<1>2. CASE UNCHANGED call
  BY <1>2 DEF CallsRunDown
<1>3. ASSUME NEW c \in Calls, NEW i \in Instances, NEW force \in BOOLEAN, StartSync(c, i, force)
      PROVE  CallsRunDown
  BY <1>1, <1>3 DEF StartSync, CallsRunDown
<1>4. ASSUME NEW c \in Calls,
             \/ SyncStep(c) \/ AnnounceRaises(c) \/ ReportRaises(c) \/ FailureRaises(c)
      PROVE  CallsRunDown
  BY <1>4, CallFalls DEF CallsRunDown
<1>5. CASE SyncRestart
  <2>1. SUFFICES ASSUME NEW c \in Calls, call[c].at # "idle"
                 PROVE  StepsOf(call'[c]) < StepsOf(call[c])
    BY DEF CallsRunDown
  <2>2. call'[c].at = "idle"
    BY <1>5 DEF SyncRestart, Resting
  <2>3. StepsOf(call'[c]) = 0
    BY <2>2, StepsAre
  <2>4. StepsOf(call[c]) # 0
    <3>1. CASE call[c].at = "write"
      <4>1. call[c].left \in 1 .. SyncBatches /\ call[c].tries \in 0 .. MaxTries - 1
        BY <1>1, <3>1, SyncAssumption DEF CallTyped
      <4>2. PICK n \in Nat : n = call[c].left * MaxTries - call[c].tries
        BY <4>1, TriesAre
      <4>3. StepsOf(call[c]) = 3 + call[c].left * MaxTries - call[c].tries
        BY <3>1, StepsAre
      <4>4. call[c].left * MaxTries \in Int /\ call[c].tries \in Int
        BY <4>1, SyncAssumption
      <4> QED BY <4>2, <4>3, <4>4
    <3>2. CASE call[c].at \in {"fetch", "announce"}
      BY <3>2, StepsAre, TriesAre
    <3>3. CASE call[c].at \in {"skip", "release", "fail", "report"}
      BY <3>3, StepsAre
    <3> QED BY <1>1, <2>1, <3>1, <3>2, <3>3 DEF CallTyped, CallRecords, SyncStages
  <2> QED BY <1>1, <2>1, <2>3, <2>4
<1>6. UNCHANGED syncVars \/ DeleteStatus \/ ClearCache => UNCHANGED call
  BY DEF syncVars, DeleteStatus, ClearCache
<1> QED BY <1>2, <1>3, <1>4, <1>5, <1>6 DEF SyncNext

\* A call of the synchronisation takes a bounded number of steps, whatever times
\* out, raises or restarts and however the calls interleave: no batch is tried
\* for ever (_execute_bulk_write_with_retry, run_full_sync).
THEOREM SyncCallsEnd ==
    SyncSpec => [](\A c \in Calls : StepsOf(call[c]) \in Nat) /\ [][CallsRunDown]_syncVars
<1>1. SyncInit => SyncTypeInv
  BY RestingTyped DEF SyncInit, SyncTypeInv
<1>2. SyncTypeInv => \A c \in Calls : StepsOf(call[c]) \in Nat
  BY StepsCount DEF SyncTypeInv
<1>3. SyncTypeInv /\ SyncTypeInv' /\ [SyncNext]_syncVars => [CallsRunDown]_syncVars
  BY CallsFall
<1> QED BY <1>1, <1>2, <1>3, SyncTypeStep, PTL DEF SyncSpec
=============================================================================
