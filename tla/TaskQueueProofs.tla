-------------------------- MODULE TaskQueueProofs --------------------------
(***************************************************************************)
(* Theorems about TaskQueue, for every value of its constants.             *)
(***************************************************************************)
EXTENDS TaskQueueClaims, FiniteSetTheorems, SequenceTheorems, TLAPS

\* The groups of variables, expanded wherever an action is.
USE DEF redis, batchVars, apiVars, workVars, cleanVars, envVars, history

\* The control points, expanded wherever a control variable is.
USE DEF HoldPCs, DequeuePCs, RunPCs, AckPCs, HandlePCs

-----------------------------------------------------------------------------
\* The commands on the ready list and on the lease keys keep their types.

LEMMA LRemTyped ==
    ASSUME RedisTypeOK, NEW t, LRem(t)
    PROVE  RedisTypeOK'
<1> DEFINE kept == {i \in 1..Len(ready) : ready[i] # t}
<1>1. Cardinality(kept) \in Nat
  <2>1. Len(ready) \in Nat
    BY LenProperties DEF RedisTypeOK
  <2>2. IsFiniteSet(1..Len(ready))
    BY <2>1, FS_Interval
  <2> QED BY <2>2, FS_Subset, FS_CardinalityType
<1>2. PICK f \in [1..Cardinality(kept) -> kept] : ready' = [i \in DOMAIN f |-> ready[f[i]]]
  BY DEF LRem
<1>3. ready' \in Seq(Tasks)
  <2>1. \A i \in 1..Cardinality(kept) : ready[f[i]] \in Tasks
    BY DEF RedisTypeOK
  <2> QED BY <1>1, <1>2, <2>1
<1> QED BY <1>3 DEF LRem, RedisTypeOK

LEMMA RPopTyped ==
    ASSUME RedisTypeOK, RPop
    PROVE  RedisTypeOK' /\ Head(ready) \in Tasks
<1>1. ready \in Seq(Tasks) /\ ready # <<>>
  BY DEF RedisTypeOK, RPop
<1>2. Tail(ready) \in Seq(Tasks) /\ Head(ready) \in Tasks
  BY <1>1, HeadTailProperties
<1> QED BY <1>2 DEF RedisTypeOK, RPop

LEMMA LPushTyped ==
    ASSUME RedisTypeOK, NEW t \in Tasks, LPush(t)
    PROVE  RedisTypeOK'
BY DEF RedisTypeOK, LPush

LEMMA HSetLeaseTyped ==
    ASSUME RedisTypeOK, EnvTypeOK, QueueAssumption, NEW t \in Tasks, NEW w \in Workers,
           HSetLease(t, w)
    PROVE  RedisTypeOK'
<1>1. (VT + 1) * TPS \in Nat /\ (VT + 1) * TPS - phase \in 0..((VT + 1) * TPS)
  <2>1. (VT + 1) * TPS = VT * TPS + TPS /\ VT * TPS \in Nat
    BY DEF QueueAssumption
  <2> QED BY <2>1 DEF QueueAssumption, EnvTypeOK
<1>2. \A x \in DOMAIN lease : lease[x] \in Leases
  BY DEF RedisTypeOK
<1>3. lease' \in [DOMAIN lease \cup {t} -> Leases]
  BY <1>1, <1>2 DEF HSetLease, Leases, NoTTL
<1> QED BY <1>3 DEF RedisTypeOK, HSetLease

LEMMA ExpireLeaseTyped ==
    ASSUME RedisTypeOK, QueueAssumption, NEW t \in Tasks, ExpireLease(t)
    PROVE  RedisTypeOK'
<1>1. VT * TPS \in 1..(VT * TPS)
  <2>1. VT * TPS \in Nat /\ VT * TPS # 0
    BY DEF QueueAssumption
  <2> QED BY <2>1
<1>2. \A x \in DOMAIN lease : lease[x] \in Leases
  BY DEF RedisTypeOK
<1>3. lease' \in [DOMAIN lease -> Leases]
  BY <1>1, <1>2 DEF ExpireLease, Leases, NoTTL
<1> QED BY <1>3 DEF RedisTypeOK, ExpireLease

\* What the loop over the expired tasks has left to handle.
LEMMA AfterHandledTyped ==
    ASSUME CleanupTypeOK, NEW w \in Workers, cpc[w] \in HandlePCs
    PROVE  /\ Tail(expired[w]) \in Seq(Tasks)
           /\ AfterHandled(w) \in {"sleep", "unUser"}
           /\ AfterHandled(w) = "unUser" => Tail(expired[w]) # <<>>
<1>1. expired[w] \in Seq(Tasks) /\ expired[w] # <<>>
  BY DEF CleanupTypeOK
<1>2. /\ Tail(expired[w]) \in Seq(Tasks)
      /\ Len(Tail(expired[w])) = Len(expired[w]) - 1
  BY <1>1, HeadTailProperties
<1>3. Len(expired[w]) # 1 => Tail(expired[w]) # <<>>
  <2>1. Tail(expired[w]) = <<>> <=> Len(Tail(expired[w])) = 0
    BY <1>2, EmptySeq
  <2> QED BY <1>1, <1>2, <2>1, LenProperties
<1> QED BY <1>2, <1>3 DEF AfterHandled

LEMMA TickTyped ==
    ASSUME RedisTypeOK, QueueAssumption, Tick
    PROVE  RedisTypeOK'
<1>1. \A x \in DOMAIN lease : lease[x] \in Leases
  BY DEF RedisTypeOK
<1>2. \A x \in DOMAIN lease : lease[x].ttl # 1 => Aged(lease[x]) \in Leases
  <2> SUFFICES ASSUME NEW x \in DOMAIN lease, lease[x].ttl # 1
               PROVE  Aged(lease[x]) \in Leases
    OBVIOUS
  <2>1. VT * TPS \in Nat /\ (VT + 1) * TPS \in Nat
    BY DEF QueueAssumption
  <2>2. /\ lease[x] \in Leases
        /\ lease[x].due \in 0..((VT + 1) * TPS)
        /\ lease[x].ttl = NoTTL \/ lease[x].ttl \in 2..(VT * TPS)
    BY <1>1, <2>1 DEF Leases, NoTTL
  <2>3. (IF lease[x].due = 0 THEN 0 ELSE lease[x].due - 1) \in 0..((VT + 1) * TPS)
    BY <2>1, <2>2
  <2>4. (IF lease[x].ttl = NoTTL THEN NoTTL ELSE lease[x].ttl - 1)
          \in {NoTTL} \cup 1..(VT * TPS)
    BY <2>1, <2>2 DEF NoTTL
  <2> QED BY <2>2, <2>3, <2>4 DEF Aged, Leases
<1>3. lease' \in [DOMAIN lease' -> Leases] /\ DOMAIN lease' \subseteq DOMAIN lease
  BY <1>2 DEF Tick
<1> QED BY <1>3 DEF RedisTypeOK, Tick

LEMMA TypeSubmit ==
    ASSUME TypeOK, QueueAssumption, NEW t \in Tasks,
           Submit(t) \/ SubmitError(t)
    PROVE  TypeOK'
<1> USE DEF QueueAssumption, Enqueue, NoCommand
<1>1. CASE CheckUser(t)
  BY <1>1 DEF CheckUser,
     TypeOK, RedisTypeOK, ApiTypeOK, WorkerTypeOK, CleanupTypeOK, EnvTypeOK
<1>2. CASE CheckGlobal(t)
  BY <1>2 DEF CheckGlobal,
     TypeOK, RedisTypeOK, ApiTypeOK, WorkerTypeOK, CleanupTypeOK, EnvTypeOK
<1>3. CASE SaveTask(t)
  BY <1>3 DEF SaveTask, HSetStatus,
     TypeOK, RedisTypeOK, ApiTypeOK, WorkerTypeOK, CleanupTypeOK, EnvTypeOK
<1>4. CASE PushTask(t)
  BY <1>4 DEF PushTask, LPush,
     TypeOK, RedisTypeOK, ApiTypeOK, WorkerTypeOK, CleanupTypeOK, EnvTypeOK
<1>5. CASE TagTask(t)
  BY <1>5 DEF TagTask,
     TypeOK, RedisTypeOK, ApiTypeOK, WorkerTypeOK, CleanupTypeOK, EnvTypeOK
<1>6. CASE SubmitError(t)
  BY <1>6 DEF SubmitError, UseError,
     TypeOK, RedisTypeOK, ApiTypeOK, WorkerTypeOK, CleanupTypeOK, EnvTypeOK
<1> QED BY <1>1, <1>2, <1>3, <1>4, <1>5, <1>6 DEF Submit

LEMMA TypeCancel ==
    ASSUME TypeOK, QueueAssumption, NEW t \in Tasks,
           CancelRead(t) \/ CancelStep(t) \/ CancelError(t)
    PROVE  TypeOK'
<1> USE DEF QueueAssumption, Cancel, NoCommand
<1>1. CASE CancelRead(t)
  BY <1>1 DEF CancelRead,
     TypeOK, RedisTypeOK, ApiTypeOK, WorkerTypeOK, CleanupTypeOK, EnvTypeOK
<1>2. CASE CancelUnmarkUser(t)
  BY <1>2 DEF CancelUnmarkUser, SRemUser,
     TypeOK, RedisTypeOK, ApiTypeOK, WorkerTypeOK, CleanupTypeOK, EnvTypeOK
<1>3. CASE CancelUnmarkGlobal(t)
  BY <1>3 DEF CancelUnmarkGlobal, SRemProcessing,
     TypeOK, RedisTypeOK, ApiTypeOK, WorkerTypeOK, CleanupTypeOK, EnvTypeOK
<1>4. CASE CancelClearLease(t)
  BY <1>4 DEF CancelClearLease, DelLease,
     TypeOK, RedisTypeOK, ApiTypeOK, WorkerTypeOK, CleanupTypeOK, EnvTypeOK
<1>5. CASE CancelRemove(t)
  <2>1. RedisTypeOK'
    BY <1>5, LRemTyped DEF TypeOK, CancelRemove, WorkerTypeOK, CleanupTypeOK
  <2>2. ApiTypeOK'
    BY <1>5 DEF ApiTypeOK, TypeOK, CancelRemove, LRem
  <2>3. WorkerTypeOK'
    BY <1>5 DEF WorkerTypeOK, TypeOK, CancelRemove, LRem, RedisTypeOK
  <2>4. CleanupTypeOK'
    BY <1>5 DEF CleanupTypeOK, TypeOK, CancelRemove, LRem
  <2>5. EnvTypeOK'
    BY <1>5 DEF EnvTypeOK, TypeOK, CancelRemove, LRem
  <2> QED BY <2>1, <2>2, <2>3, <2>4, <2>5 DEF TypeOK
<1>6. CASE CancelSetStatus(t)
  BY <1>6 DEF CancelSetStatus, HSetStatus,
     TypeOK, RedisTypeOK, ApiTypeOK, WorkerTypeOK, CleanupTypeOK, EnvTypeOK
<1>7. CASE CancelError(t)
  BY <1>7 DEF CancelError, UseError,
     TypeOK, RedisTypeOK, ApiTypeOK, WorkerTypeOK, CleanupTypeOK, EnvTypeOK
<1> QED BY <1>1, <1>2, <1>3, <1>4, <1>5, <1>6, <1>7 DEF CancelStep

LEMMA TypeWork ==
    ASSUME TypeOK, QueueAssumption, NEW w \in Workers,
           WorkLoop(w) \/ WorkError(w)
    PROVE  TypeOK'
<1> USE DEF QueueAssumption, Work, NoCommand, KeepTask, Release
<1>1. CASE Pop(w)
  <2>1. RedisTypeOK'
    BY <1>1, RPopTyped DEF TypeOK, Pop, WorkerTypeOK, CleanupTypeOK
  <2>2. ApiTypeOK'
    BY <1>1 DEF ApiTypeOK, TypeOK, Pop, RPop
  <2>3. WorkerTypeOK'
    BY <1>1 DEF WorkerTypeOK, TypeOK, Pop, RPop, RedisTypeOK
  <2>4. CleanupTypeOK'
    BY <1>1 DEF CleanupTypeOK, TypeOK, Pop, RPop
  <2>5. EnvTypeOK'
    BY <1>1 DEF EnvTypeOK, TypeOK, Pop, RPop
  <2> QED BY <2>1, <2>2, <2>3, <2>4, <2>5 DEF TypeOK
<1>2. CASE Recheck(w)
  BY <1>2 DEF Recheck,
     TypeOK, RedisTypeOK, ApiTypeOK, WorkerTypeOK, CleanupTypeOK, EnvTypeOK
<1>3. CASE PutBack(w)
  BY <1>3 DEF PutBack, LPush,
     TypeOK, RedisTypeOK, ApiTypeOK, WorkerTypeOK, CleanupTypeOK, EnvTypeOK
<1>4. CASE MarkUser(w)
  BY <1>4 DEF MarkUser, SAddUser,
     TypeOK, RedisTypeOK, ApiTypeOK, WorkerTypeOK, CleanupTypeOK, EnvTypeOK
<1>5. CASE MarkGlobal(w)
  BY <1>5 DEF MarkGlobal, SAddProcessing,
     TypeOK, RedisTypeOK, ApiTypeOK, WorkerTypeOK, CleanupTypeOK, EnvTypeOK
<1>6. CASE TakeLease(w)
  <2>1. RedisTypeOK'
    BY <1>6, HSetLeaseTyped DEF TypeOK, TakeLease, WorkerTypeOK, CleanupTypeOK
  <2>2. ApiTypeOK'
    BY <1>6 DEF ApiTypeOK, TypeOK, TakeLease, HSetLease
  <2>3. WorkerTypeOK'
    BY <1>6 DEF WorkerTypeOK, TypeOK, TakeLease, HSetLease, RedisTypeOK
  <2>4. CleanupTypeOK'
    BY <1>6 DEF CleanupTypeOK, TypeOK, TakeLease, HSetLease
  <2>5. EnvTypeOK'
    BY <1>6 DEF EnvTypeOK, TypeOK, TakeLease, HSetLease
  <2> QED BY <2>1, <2>2, <2>3, <2>4, <2>5 DEF TypeOK
<1>7. CASE BoundLease(w)
  <2>1. RedisTypeOK'
    BY <1>7, ExpireLeaseTyped DEF TypeOK, BoundLease, WorkerTypeOK, CleanupTypeOK
  <2>2. ApiTypeOK'
    BY <1>7 DEF ApiTypeOK, TypeOK, BoundLease, ExpireLease
  <2>3. WorkerTypeOK'
    BY <1>7 DEF WorkerTypeOK, TypeOK, BoundLease, ExpireLease, RedisTypeOK
  <2>4. CleanupTypeOK'
    BY <1>7 DEF CleanupTypeOK, TypeOK, BoundLease, ExpireLease
  <2>5. EnvTypeOK'
    BY <1>7 DEF EnvTypeOK, TypeOK, BoundLease, ExpireLease
  <2> QED BY <2>1, <2>2, <2>3, <2>4, <2>5 DEF TypeOK
<1>8. CASE SetProcessing(w)
  BY <1>8 DEF SetProcessing, HSetStatus,
     TypeOK, RedisTypeOK, ApiTypeOK, WorkerTypeOK, CleanupTypeOK, EnvTypeOK
<1>9. CASE Begin(w)
  <2>1. RedisTypeOK'
    BY <1>9 DEF RedisTypeOK, TypeOK, Begin
  <2>2. ApiTypeOK'
    BY <1>9 DEF ApiTypeOK, TypeOK, Begin
  <2>3. WorkerTypeOK'
    <3>1. CASE Work(w, "start", "run") /\ rpc' = [rpc EXCEPT ![w] = "sleep"]
      BY <1>9, <3>1 DEF Begin, TypeOK, WorkerTypeOK
    <3>2. CASE Work(w, "start", "ackUser") /\ UNCHANGED rpc
      BY <1>9, <3>2 DEF Begin, TypeOK, WorkerTypeOK
    <3> QED BY <1>9, <3>1, <3>2 DEF Begin
  <2>4. CleanupTypeOK'
    BY <1>9 DEF CleanupTypeOK, TypeOK, Begin
  <2>5. EnvTypeOK'
    BY <1>9 DEF EnvTypeOK, TypeOK, Begin
  <2> QED BY <2>1, <2>2, <2>3, <2>4, <2>5 DEF TypeOK
<1>10. CASE Propagate(w)
  BY <1>10 DEF Propagate,
     TypeOK, RedisTypeOK, ApiTypeOK, WorkerTypeOK, CleanupTypeOK, EnvTypeOK
<1>11. CASE Execute(w)
  <2>1. RedisTypeOK'
    BY <1>11 DEF RedisTypeOK, TypeOK, Execute
  <2>2. ApiTypeOK'
    BY <1>11 DEF ApiTypeOK, TypeOK, Execute
  <2>3. WorkerTypeOK'
    <3>1. CASE Work(w, "run", "finish") /\ UNCHANGED ok
      BY <1>11, <3>1 DEF Execute, TypeOK, WorkerTypeOK
    <3>2. CASE /\ Work(w, "blocked", "finish")
               /\ \E b \in BOOLEAN : ok' = [ok EXCEPT ![w] = b]
      BY <1>11, <3>2 DEF Execute, TypeOK, WorkerTypeOK
    <3> QED BY <1>11, <3>1, <3>2 DEF Execute
  <2>4. CleanupTypeOK'
    BY <1>11 DEF CleanupTypeOK, TypeOK, Execute
  <2>5. EnvTypeOK'
    BY <1>11 DEF EnvTypeOK, TypeOK, Execute
  <2> QED BY <2>1, <2>2, <2>3, <2>4, <2>5 DEF TypeOK
<1>12. CASE CancelRenewal(w)
  BY <1>12 DEF CancelRenewal,
     TypeOK, RedisTypeOK, ApiTypeOK, WorkerTypeOK, CleanupTypeOK, EnvTypeOK
<1>13. CASE AckUnmarkUser(w)
  BY <1>13 DEF AckUnmarkUser, SRemUser,
     TypeOK, RedisTypeOK, ApiTypeOK, WorkerTypeOK, CleanupTypeOK, EnvTypeOK
<1>14. CASE AckUnmarkGlobal(w)
  BY <1>14 DEF AckUnmarkGlobal, SRemProcessing,
     TypeOK, RedisTypeOK, ApiTypeOK, WorkerTypeOK, CleanupTypeOK, EnvTypeOK
<1>15. CASE AckClearLease(w)
  BY <1>15 DEF AckClearLease, DelLease,
     TypeOK, RedisTypeOK, ApiTypeOK, WorkerTypeOK, CleanupTypeOK, EnvTypeOK
<1>16. CASE AckStatus(w)
  BY <1>16 DEF AckStatus, HSetStatus,
     TypeOK, RedisTypeOK, ApiTypeOK, WorkerTypeOK, CleanupTypeOK, EnvTypeOK
<1>17. CASE AckDone(w)
  BY <1>17 DEF AckDone, SAddDone,
     TypeOK, RedisTypeOK, ApiTypeOK, WorkerTypeOK, CleanupTypeOK, EnvTypeOK
<1>18. CASE WorkError(w)
  <2>1. RedisTypeOK' /\ CleanupTypeOK'
    BY <1>18 DEF RedisTypeOK, CleanupTypeOK, TypeOK, WorkError, UseError
  <2>2. ApiTypeOK'
    BY <1>18 DEF ApiTypeOK, TypeOK, WorkError
  <2>3. WorkerTypeOK'
    BY <1>18 DEF WorkerTypeOK, TypeOK, WorkError
  <2>4. EnvTypeOK'
    BY <1>18 DEF EnvTypeOK, WorkerTypeOK, TypeOK, WorkError, UseError, Drop
  <2> QED BY <2>1, <2>2, <2>3, <2>4 DEF TypeOK
<1> QED BY <1>1, <1>2, <1>3, <1>4, <1>5, <1>6, <1>7, <1>8, <1>9, <1>10, <1>11, <1>12, <1>13, <1>14, <1>15, <1>16, <1>17, <1>18 DEF WorkLoop

LEMMA TypeRenewal ==
    ASSUME TypeOK, QueueAssumption, NEW w \in Workers,
           RenewalLoop(w) \/ RenewError(w)
    PROVE  TypeOK'
<1> USE DEF QueueAssumption, Renewal, LoopFree, NoCommand
<1>1. CASE RenewRead(w)
  BY <1>1 DEF RenewRead,
     TypeOK, RedisTypeOK, ApiTypeOK, WorkerTypeOK, CleanupTypeOK, EnvTypeOK
<1>2. CASE RenewSet(w)
  <2>1. RedisTypeOK'
    <3>1. wtask[w] \in Tasks
      BY <1>2 DEF RenewSet, TypeOK, WorkerTypeOK
    <3> QED BY <1>2, <3>1, HSetLeaseTyped DEF RenewSet, TypeOK
  <2>2. ApiTypeOK'
    BY <1>2 DEF ApiTypeOK, TypeOK, RenewSet, HSetLease
  <2>3. WorkerTypeOK'
    BY <1>2 DEF WorkerTypeOK, TypeOK, RenewSet, HSetLease, RedisTypeOK
  <2>4. CleanupTypeOK'
    BY <1>2 DEF CleanupTypeOK, TypeOK, RenewSet, HSetLease
  <2>5. EnvTypeOK'
    BY <1>2 DEF EnvTypeOK, TypeOK, RenewSet, HSetLease
  <2> QED BY <2>1, <2>2, <2>3, <2>4, <2>5 DEF TypeOK
<1>3. CASE RenewExpire(w)
  <2>1. RedisTypeOK'
    BY <1>3, ExpireLeaseTyped DEF TypeOK, RenewExpire, WorkerTypeOK, CleanupTypeOK
  <2>2. ApiTypeOK'
    BY <1>3 DEF ApiTypeOK, TypeOK, RenewExpire, ExpireLease
  <2>3. WorkerTypeOK'
    BY <1>3 DEF WorkerTypeOK, TypeOK, RenewExpire, ExpireLease, RedisTypeOK
  <2>4. CleanupTypeOK'
    BY <1>3 DEF CleanupTypeOK, TypeOK, RenewExpire, ExpireLease
  <2>5. EnvTypeOK'
    BY <1>3 DEF EnvTypeOK, TypeOK, RenewExpire, ExpireLease
  <2> QED BY <2>1, <2>2, <2>3, <2>4, <2>5 DEF TypeOK
<1>4. CASE RenewError(w)
  BY <1>4 DEF RenewError, UseError,
     TypeOK, RedisTypeOK, ApiTypeOK, WorkerTypeOK, CleanupTypeOK, EnvTypeOK
<1> QED BY <1>1, <1>2, <1>3, <1>4 DEF RenewalLoop

LEMMA TypeCleanup ==
    ASSUME TypeOK, QueueAssumption, NEW w \in Workers,
           CleanupLoop(w) \/ CleanupError(w)
    PROVE  TypeOK'
<1> USE DEF QueueAssumption, Cleanup, LoopFree, NoCommand
<1>1. CASE Scan(w)
  BY <1>1 DEF Scan,
     TypeOK, RedisTypeOK, ApiTypeOK, WorkerTypeOK, CleanupTypeOK, EnvTypeOK
<1>2. CASE ReadLease(w)
  <2>1. RedisTypeOK'
    BY <1>2 DEF RedisTypeOK, TypeOK, ReadLease
  <2>2. ApiTypeOK'
    BY <1>2 DEF ApiTypeOK, TypeOK, ReadLease
  <2>3. WorkerTypeOK'
    BY <1>2 DEF WorkerTypeOK, TypeOK, ReadLease, RedisTypeOK
  <2>4. CleanupTypeOK'
    BY <1>2 DEF CleanupTypeOK, TypeOK, ReadLease
  <2>5. EnvTypeOK'
    BY <1>2 DEF EnvTypeOK, TypeOK, ReadLease
  <2> QED BY <2>1, <2>2, <2>3, <2>4, <2>5 DEF TypeOK
<1>3. CASE HandleUnmarkUser(w)
  BY <1>3 DEF HandleUnmarkUser, SRemUser,
     TypeOK, RedisTypeOK, ApiTypeOK, WorkerTypeOK, CleanupTypeOK, EnvTypeOK
<1>4. CASE HandleUnmarkGlobal(w)
  BY <1>4 DEF HandleUnmarkGlobal, SRemProcessing,
     TypeOK, RedisTypeOK, ApiTypeOK, WorkerTypeOK, CleanupTypeOK, EnvTypeOK
<1>5. CASE HandleClearLease(w)
  BY <1>5 DEF HandleClearLease, DelLease,
     TypeOK, RedisTypeOK, ApiTypeOK, WorkerTypeOK, CleanupTypeOK, EnvTypeOK
<1>6. CASE HandlePush(w)
  <2>1. RedisTypeOK'
    BY <1>6, LPushTyped DEF TypeOK, HandlePush, WorkerTypeOK, CleanupTypeOK
  <2>2. ApiTypeOK'
    BY <1>6 DEF ApiTypeOK, TypeOK, HandlePush, LPush
  <2>3. WorkerTypeOK'
    BY <1>6 DEF WorkerTypeOK, TypeOK, HandlePush, LPush, RedisTypeOK
  <2>4. CleanupTypeOK'
    BY <1>6 DEF CleanupTypeOK, TypeOK, HandlePush, LPush
  <2>5. EnvTypeOK'
    <3>1. Head(expired[w]) \in Tasks
      BY <1>6, HeadTailProperties DEF HandlePush, TypeOK, CleanupTypeOK
    <3> QED BY <1>6, <3>1 DEF HandlePush, TypeOK, EnvTypeOK
  <2> QED BY <2>1, <2>2, <2>3, <2>4, <2>5 DEF TypeOK
<1>7. CASE HandleSetStatus(w)
  <2>1. RedisTypeOK'
    BY <1>7 DEF RedisTypeOK, TypeOK, HandleSetStatus, HSetStatus, NextExpired, AfterHandled
  <2>2. ApiTypeOK'
    BY <1>7 DEF ApiTypeOK, TypeOK, HandleSetStatus, HSetStatus, NextExpired, AfterHandled
  <2>3. WorkerTypeOK'
    BY <1>7 DEF WorkerTypeOK, TypeOK, HandleSetStatus, HSetStatus, NextExpired, AfterHandled, RedisTypeOK
  <2>4. CleanupTypeOK'
    BY <1>7, AfterHandledTyped DEF HandleSetStatus, TypeOK, CleanupTypeOK, NextExpired
  <2>5. EnvTypeOK'
    BY <1>7 DEF EnvTypeOK, TypeOK, HandleSetStatus, HSetStatus, NextExpired, AfterHandled
  <2> QED BY <2>1, <2>2, <2>3, <2>4, <2>5 DEF TypeOK
<1>8. CASE CleanupError(w)
  <2>1. RedisTypeOK'
    BY <1>8 DEF RedisTypeOK, TypeOK, CleanupError, UseError, NextExpired, AfterHandled
  <2>2. ApiTypeOK'
    BY <1>8 DEF ApiTypeOK, TypeOK, CleanupError, UseError, NextExpired, AfterHandled
  <2>3. WorkerTypeOK'
    BY <1>8 DEF WorkerTypeOK, TypeOK, CleanupError, UseError, NextExpired, AfterHandled, RedisTypeOK
  <2>4. CleanupTypeOK'
    <3>1. CASE /\ cpc' = [cpc EXCEPT ![w] = "sleep"]
               /\ scan' = [scan EXCEPT ![w] = {}]
               /\ expired' = [expired EXCEPT ![w] = <<>>]
      BY <3>1 DEF TypeOK, CleanupTypeOK
    <3>2. CASE /\ cpc[w] \in HandlePCs
               /\ cpc' = [cpc EXCEPT ![w] = AfterHandled(w)]
               /\ NextExpired(w)
               /\ UNCHANGED scan
      BY <3>2, AfterHandledTyped DEF TypeOK, CleanupTypeOK, NextExpired
    <3> QED BY <1>8, <3>1, <3>2 DEF CleanupError
  <2>5. EnvTypeOK'
    BY <1>8 DEF EnvTypeOK, TypeOK, CleanupError, UseError, NextExpired, AfterHandled
  <2> QED BY <2>1, <2>2, <2>3, <2>4, <2>5 DEF TypeOK
<1> QED BY <1>1, <1>2, <1>3, <1>4, <1>5, <1>6, <1>7, <1>8 DEF CleanupLoop

LEMMA TypeProcess ==
    ASSUME TypeOK, QueueAssumption, NEW w \in Workers,
           Signal(w) \/ Exit(w) \/ Crash(w)
    PROVE  TypeOK'
<1> USE DEF QueueAssumption, NoCommand
<1>1. CASE Signal(w)
  BY <1>1 DEF Signal,
     TypeOK, RedisTypeOK, ApiTypeOK, WorkerTypeOK, CleanupTypeOK, EnvTypeOK
<1>2. CASE Exit(w)
  <2>1. RedisTypeOK'
    BY <1>2 DEF RedisTypeOK, TypeOK, Exit, EndCleanup
  <2>2. ApiTypeOK'
    BY <1>2 DEF ApiTypeOK, TypeOK, Exit, EndCleanup
  <2>3. WorkerTypeOK'
    BY <1>2 DEF WorkerTypeOK, TypeOK, Exit, EndCleanup, RedisTypeOK
  <2>4. CleanupTypeOK'
    BY <1>2 DEF CleanupTypeOK, TypeOK, Exit, EndCleanup
  <2>5. EnvTypeOK'
    BY <1>2 DEF EnvTypeOK, TypeOK, Exit, EndCleanup
  <2> QED BY <2>1, <2>2, <2>3, <2>4, <2>5 DEF TypeOK
<1>3. CASE Crash(w)
  BY <1>3 DEF Crash, Release, Drop, EndCleanup,
     TypeOK, RedisTypeOK, ApiTypeOK, WorkerTypeOK, CleanupTypeOK, EnvTypeOK
<1> QED BY <1>1, <1>2, <1>3 DEF Signal

\* Every state has the type TypeOK gives (all of TaskQueue).
THEOREM TypeCorrect == Spec => []TypeOK
<1> USE QueueAssumption
<1>1. Init => TypeOK
  <2> SUFFICES ASSUME Init PROVE TypeOK
    OBVIOUS
  <2>1. RedisTypeOK
    BY DEF Init, RedisTypeOK
  <2>2. ApiTypeOK /\ WorkerTypeOK /\ CleanupTypeOK
    BY DEF Init, ApiTypeOK, WorkerTypeOK, CleanupTypeOK
  <2>3. EnvTypeOK
    BY DEF Init, EnvTypeOK, QueueAssumption
  <2> QED BY <2>1, <2>2, <2>3 DEF TypeOK
<1>2. TypeOK /\ [Next]_vars => TypeOK'
  <2> SUFFICES ASSUME TypeOK, [Next]_vars PROVE TypeOK'
    OBVIOUS
  <2>1. CASE UNCHANGED vars
    BY <2>1 DEF vars, TypeOK, RedisTypeOK, ApiTypeOK, WorkerTypeOK, CleanupTypeOK, EnvTypeOK
  <2>2. ASSUME NEW b \in Batches, OpenBatch(b) PROVE TypeOK'
    BY <2>2 DEF OpenBatch, NoCommand, TypeOK, RedisTypeOK, ApiTypeOK, WorkerTypeOK,
       CleanupTypeOK, EnvTypeOK
  <2>3. CASE Tick
    <3>1. RedisTypeOK'
      BY <2>3, TickTyped DEF TypeOK
    <3>2. ApiTypeOK' /\ WorkerTypeOK' /\ CleanupTypeOK'
      BY <2>3 DEF Tick, TypeOK, ApiTypeOK, WorkerTypeOK, CleanupTypeOK
    <3>3. EnvTypeOK'
      BY <2>3 DEF Tick, TypeOK, EnvTypeOK, QueueAssumption
    <3> QED BY <3>1, <3>2, <3>3 DEF TypeOK
  <2> QED
    BY <2>1, <2>2, <2>3, TypeSubmit, TypeCancel, TypeWork, TypeRenewal, TypeCleanup,
       TypeProcess DEF Next
<1> QED BY <1>1, <1>2, PTL DEF Spec
-----------------------------------------------------------------------------
\* Where the ids are.  Only eight actions move one, the others leave every id
\* where it is.

places == <<ready, wtask, completed, failed, requeued, dropped, withdrawn>>

Still == UNCHANGED places /\ \A t \in Tasks : Pushed(t)' <=> Pushed(t)

LEMMA StillTask ==
    ASSUME TypeOK, NEW t \in Tasks,
           \/ Submit(t) /\ ~PushTask(t)
           \/ SubmitError(t) \/ CancelRead(t) \/ CancelError(t)
           \/ CancelStep(t) /\ ~CancelRemove(t)
    PROVE  Still
<1> USE DEF Still, places, Pushed, TypeOK, ApiTypeOK, Enqueue, Cancel, NoCommand
<1>1. CASE CheckUser(t)
  BY <1>1 DEF CheckUser
<1>2. CASE CheckGlobal(t)
  BY <1>2 DEF CheckGlobal
<1>3. CASE SaveTask(t)
  BY <1>3 DEF SaveTask, HSetStatus
<1>4. CASE TagTask(t)
  BY <1>4 DEF TagTask
<1>5. CASE SubmitError(t)
  BY <1>5 DEF SubmitError, UseError
<1>6. CASE CancelRead(t)
  BY <1>6 DEF CancelRead
<1>7. CASE CancelUnmarkUser(t)
  BY <1>7 DEF CancelUnmarkUser, SRemUser
<1>8. CASE CancelUnmarkGlobal(t)
  BY <1>8 DEF CancelUnmarkGlobal, SRemProcessing
<1>9. CASE CancelClearLease(t)
  BY <1>9 DEF CancelClearLease, DelLease
<1>10. CASE CancelSetStatus(t)
  BY <1>10 DEF CancelSetStatus, HSetStatus
<1>11. CASE CancelError(t)
  BY <1>11 DEF CancelError, UseError
<1> QED
  BY <1>1, <1>2, <1>3, <1>4, <1>5, <1>6, <1>7, <1>8, <1>9, <1>10, <1>11
     DEF Submit, CancelStep

LEMMA StillWorker ==
    ASSUME TypeOK, NEW w \in Workers,
           \/ WorkLoop(w) /\ ~Pop(w) /\ ~PutBack(w) /\ ~AckDone(w)
           \/ RenewalLoop(w) \/ RenewError(w)
           \/ CleanupLoop(w) /\ ~HandlePush(w)
           \/ CleanupError(w) \/ Signal(w) \/ Exit(w)
    PROVE  Still
<1> USE DEF Still, places, Pushed, Work, KeepTask, Renewal, Cleanup, NoCommand, UseError
<1>1. CASE Recheck(w)
  BY <1>1 DEF Recheck
<1>2. CASE MarkUser(w)
  BY <1>2 DEF MarkUser, SAddUser
<1>3. CASE MarkGlobal(w)
  BY <1>3 DEF MarkGlobal, SAddProcessing
<1>4. CASE TakeLease(w)
  BY <1>4 DEF TakeLease, HSetLease
<1>5. CASE BoundLease(w)
  BY <1>5 DEF BoundLease, ExpireLease
<1>6. CASE SetProcessing(w)
  BY <1>6 DEF SetProcessing, HSetStatus
<1>7. CASE Begin(w)
  BY <1>7 DEF Begin
<1>8. CASE Propagate(w)
  BY <1>8 DEF Propagate
<1>9. CASE Execute(w)
  BY <1>9 DEF Execute
<1>10. CASE CancelRenewal(w)
  BY <1>10 DEF CancelRenewal
<1>11. CASE AckUnmarkUser(w)
  BY <1>11 DEF AckUnmarkUser, SRemUser
<1>12. CASE AckUnmarkGlobal(w)
  BY <1>12 DEF AckUnmarkGlobal, SRemProcessing
<1>13. CASE AckClearLease(w)
  BY <1>13 DEF AckClearLease, DelLease
<1>14. CASE AckStatus(w)
  BY <1>14 DEF AckStatus, HSetStatus
<1>15. CASE RenewRead(w)
  BY <1>15 DEF RenewRead
<1>16. CASE RenewSet(w)
  BY <1>16 DEF RenewSet, HSetLease
<1>17. CASE RenewExpire(w)
  BY <1>17 DEF RenewExpire, ExpireLease
<1>18. CASE RenewError(w)
  BY <1>18 DEF RenewError
<1>19. CASE Scan(w)
  BY <1>19 DEF Scan
<1>20. CASE ReadLease(w)
  BY <1>20 DEF ReadLease
<1>21. CASE HandleUnmarkUser(w)
  BY <1>21 DEF HandleUnmarkUser, SRemUser
<1>22. CASE HandleUnmarkGlobal(w)
  BY <1>22 DEF HandleUnmarkGlobal, SRemProcessing
<1>23. CASE HandleClearLease(w)
  BY <1>23 DEF HandleClearLease, DelLease
<1>24. CASE HandleSetStatus(w)
  BY <1>24 DEF HandleSetStatus, HSetStatus
<1>25. CASE CleanupError(w)
  BY <1>25 DEF CleanupError
<1>26. CASE Signal(w)
  BY <1>26 DEF Signal
<1>27. CASE Exit(w)
  BY <1>27 DEF Exit
<1> QED
  BY <1>1, <1>2, <1>3, <1>4, <1>5, <1>6, <1>7, <1>8, <1>9, <1>10, <1>11,
     <1>12, <1>13, <1>14, <1>15, <1>16, <1>17, <1>18, <1>19, <1>20, <1>21,
     <1>22, <1>23, <1>24, <1>25, <1>26, <1>27
     DEF WorkLoop, RenewalLoop, CleanupLoop

LEMMA StepKinds ==
    ASSUME TypeOK, [Next]_vars
    PROVE  \/ Still
           \/ \E t \in Tasks : PushTask(t) \/ CancelRemove(t)
           \/ \E w \in Workers : \/ Pop(w) \/ PutBack(w) \/ AckDone(w) \/ WorkError(w)
                                \/ HandlePush(w) \/ Crash(w)
<1>1. CASE UNCHANGED vars
  BY <1>1 DEF vars, Still, places, Pushed
<1>2. CASE \E b \in Batches : OpenBatch(b)
  BY <1>2 DEF OpenBatch, NoCommand, Still, places, Pushed
<1>3. CASE Tick
  BY <1>3 DEF Tick, Still, places, Pushed
<1>4. ASSUME NEW t \in Tasks,
             Submit(t) \/ SubmitError(t) \/ CancelRead(t) \/ CancelStep(t) \/ CancelError(t)
      PROVE  Still \/ PushTask(t) \/ CancelRemove(t)
  BY <1>4, StillTask
<1>5. ASSUME NEW w \in Workers,
             \/ WorkLoop(w) \/ WorkError(w) \/ RenewalLoop(w) \/ RenewError(w)
             \/ CleanupLoop(w) \/ CleanupError(w) \/ Signal(w) \/ Exit(w) \/ Crash(w)
      PROVE  \/ Still \/ Pop(w) \/ PutBack(w) \/ AckDone(w) \/ WorkError(w)
             \/ HandlePush(w) \/ Crash(w)
  BY <1>5, StillWorker
<1> QED BY <1>1, <1>2, <1>3, <1>4, <1>5 DEF Next

\* The ready list: what each command does to the occurrences of an id.

Once(t) == \A i, j \in 1..Len(ready) : ready[i] = t /\ ready[j] = t => i = j

LEMMA PopReady ==
    ASSUME RedisTypeOK, RPop
    PROVE  /\ InReady(Head(ready))
           /\ \A t : InReady(t)' => InReady(t)
           /\ \A t : InReady(t) /\ t # Head(ready) => InReady(t)'
           /\ \A t : Once(t) => Once(t)'
           /\ \A t : t = Head(ready) /\ Once(t) => ~InReady(t)'
<1>1. ready \in Seq(Tasks) /\ ready # <<>> /\ ready' = Tail(ready)
  BY DEF RPop, RedisTypeOK
<1>2. /\ Len(ready) \in Nat \ {0}
      /\ Len(ready') = Len(ready) - 1
      /\ \A i \in 1..(Len(ready) - 1) : ready'[i] = ready[i + 1]
      /\ Head(ready) = ready[1]
  <2>1. Len(ready) \in Nat /\ Len(ready) # 0
    BY <1>1, EmptySeq, LenProperties
  <2> QED BY <1>1, <2>1, HeadTailProperties
<1>3. ASSUME NEW t PROVE InReady(t)' => InReady(t)
  BY <1>2 DEF InReady
<1>4. ASSUME NEW t, InReady(t), t # Head(ready) PROVE InReady(t)'
  <2>1. PICK i \in 1..Len(ready) : ready[i] = t
    BY <1>4 DEF InReady
  <2>2. i - 1 \in 1..Len(ready') /\ ready'[i - 1] = t
    <3>1. i # 1
      BY <1>2, <1>4, <2>1
    <3>2. i - 1 \in 1..(Len(ready) - 1) /\ (i - 1) + 1 = i
      BY <1>2, <3>1
    <3> QED BY <1>2, <2>1, <3>2
  <2> QED BY <2>2 DEF InReady
<1>5. ASSUME NEW t, Once(t) PROVE Once(t)'
  <2> SUFFICES ASSUME NEW i \in 1..Len(ready'), NEW j \in 1..Len(ready'),
                      ready'[i] = t, ready'[j] = t
               PROVE  i = j
    BY DEF Once
  <2>1. i + 1 \in 1..Len(ready) /\ j + 1 \in 1..Len(ready)
    BY <1>2
  <2> QED BY <1>2, <1>5, <2>1 DEF Once
<1>6. ASSUME NEW t, t = Head(ready), Once(t), InReady(t)' PROVE FALSE
  <2>1. PICK i \in 1..Len(ready') : ready'[i] = t
    BY <1>6 DEF InReady
  <2>2. i + 1 \in 1..Len(ready) /\ ready[i + 1] = ready[1] /\ 1 \in 1..Len(ready)
    BY <1>2, <1>6, <2>1
  <2>3. i + 1 = 1
    BY <1>2, <1>6, <2>2 DEF Once
  <2> QED BY <1>2, <2>3
<1>7. InReady(Head(ready))
  BY <1>2 DEF InReady
<1> QED BY <1>3, <1>4, <1>5, <1>6, <1>7

LEMMA PushReady ==
    ASSUME RedisTypeOK, NEW t \in Tasks, LPush(t)
    PROVE  /\ InReady(t)'
           /\ \A x : x # t => (InReady(x)' <=> InReady(x))
           /\ \A x : x # t /\ Once(x) => Once(x)'
           /\ ~InReady(t) => Once(t)'
<1>1. /\ Len(ready) \in Nat
      /\ Len(ready') = Len(ready) + 1
      /\ \A i \in 1..Len(ready) : ready'[i] = ready[i]
      /\ ready'[Len(ready) + 1] = t
  BY AppendProperties, LenProperties DEF LPush, RedisTypeOK
<1> QED BY <1>1 DEF InReady, Once

LEMMA RemReady ==
    ASSUME RedisTypeOK, NEW t, LRem(t)
    PROVE  /\ ~InReady(t)'
           /\ \A x : x # t => (InReady(x)' <=> InReady(x))
           /\ \A x : Once(x) => Once(x)'
<1> DEFINE kept == {i \in 1..Len(ready) : ready[i] # t}
           n == Cardinality(kept)
<1>1. n \in Nat
  <2>1. Len(ready) \in Nat
    BY LenProperties DEF RedisTypeOK
  <2>2. IsFiniteSet(1..Len(ready))
    BY <2>1, FS_Interval
  <2> QED BY <2>2, FS_Subset, FS_CardinalityType
<1>2. PICK f \in [1..n -> kept] :
         /\ \A i, j \in DOMAIN f : i < j => f[i] < f[j]
         /\ \A k \in kept : \E i \in DOMAIN f : f[i] = k
         /\ ready' = [i \in DOMAIN f |-> ready[f[i]]]
  BY DEF LRem
<1> HIDE DEF n
<1>3. Len(ready') = n
  BY <1>1, <1>2
<1>4. \A i \in 1..n : ready'[i] = ready[f[i]] /\ f[i] \in 1..Len(ready) /\ ready[f[i]] # t
  BY <1>2
<1>5. \A i, j \in 1..n : f[i] = f[j] => i = j
  BY <1>1, <1>2
<1>6. ~InReady(t)'
  BY <1>3, <1>4 DEF InReady
<1>7. \A x : x # t => (InReady(x)' <=> InReady(x))
  BY <1>2, <1>3, <1>4 DEF InReady
<1>8. \A x : Once(x) => Once(x)'
  BY <1>3, <1>4, <1>5 DEF Once
<1> QED BY <1>6, <1>7, <1>8

\* A task that reached the ready list is never silently lost (dequeue_task with
\* its put-back, ack_task, cancel_task, cleanup and renewal, in every order).
THEOREM NothingLost == Spec => []NoSilentLoss
<1>1. Init => NoSilentLoss
  BY DEF Init, NoSilentLoss, Pushed
<1>2. TypeOK /\ NoSilentLoss /\ [Next]_vars => NoSilentLoss'
  <2> SUFFICES ASSUME TypeOK, NoSilentLoss, [Next]_vars,
                      NEW x \in Tasks, x \notin dropped', Pushed(x)'
               PROVE  (InReady(x) \/ Held(x) \/ x \in completed \cup failed \cup withdrawn)'
    BY DEF NoSilentLoss
  <2> USE DEF TypeOK, WorkerTypeOK
  <2>0. RedisTypeOK
    OBVIOUS
  <2>1. CASE Still
    BY <2>1 DEF Still, places, NoSilentLoss, InReady, Held
  <2>2. ASSUME NEW t \in Tasks, PushTask(t)
        PROVE  (InReady(x) \/ Held(x) \/ x \in completed \cup failed \cup withdrawn)'
    <3>1. x = t \/ Pushed(x)
      BY <2>2 DEF PushTask, Enqueue, Pushed, ApiTypeOK
    <3>2. LPush(t) /\ UNCHANGED <<wtask, withdrawn, dropped>>
      BY <2>2 DEF PushTask, Enqueue
    <3> QED BY <2>0, <3>1, <3>2, PushReady DEF LPush, NoSilentLoss, Held
  <2>3. ASSUME NEW t \in Tasks, CancelRemove(t)
        PROVE  (InReady(x) \/ Held(x) \/ x \in completed \cup failed \cup withdrawn)'
    <3>1. Pushed(x) /\ LRem(t) /\ UNCHANGED <<wtask, dropped>>
      BY <2>3 DEF CancelRemove, Cancel, Pushed
    <3>2. /\ withdrawn \subseteq withdrawn'
          /\ InReady(t) => t \in withdrawn'
      BY <2>3 DEF CancelRemove
    <3>3. UNCHANGED <<completed, failed>>
      BY <3>1 DEF LRem
    <3>4. x # t => (InReady(x)' <=> InReady(x))
      BY <2>0, <3>1, RemReady
    <3> QED BY <3>1, <3>2, <3>3, <3>4 DEF NoSilentLoss, Held
  <2>4. ASSUME NEW w \in Workers, Pop(w)
        PROVE  (InReady(x) \/ Held(x) \/ x \in completed \cup failed \cup withdrawn)'
    <3>1. /\ Pushed(x) /\ RPop /\ UNCHANGED <<dropped, withdrawn>>
          /\ wtask' = [wtask EXCEPT ![w] = Head(ready)] /\ wtask[w] = NoTask
      BY <2>4 DEF Pop, Work, Pushed
    <3>2. x = Head(ready) => Held(x)'
      BY <3>1 DEF Held
    <3>3. Held(x) => Held(x)'
      BY <3>1, QueueAssumption DEF Held, QueueAssumption
    <3> QED BY <2>0, <3>1, <3>2, <3>3, PopReady DEF RPop, NoSilentLoss
  <2>5. ASSUME NEW w \in Workers, PutBack(w)
        PROVE  (InReady(x) \/ Held(x) \/ x \in completed \cup failed \cup withdrawn)'
    <3>1. /\ Pushed(x) /\ LPush(wtask[w]) /\ UNCHANGED <<dropped, withdrawn>>
          /\ wtask' = [wtask EXCEPT ![w] = NoTask] /\ wtask[w] \in Tasks
      BY <2>5 DEF PutBack, Work, Release, Pushed
    <3>2. Held(x) /\ x # wtask[w] => Held(x)'
      BY <3>1 DEF Held
    <3> QED BY <2>0, <3>1, <3>2, PushReady DEF LPush, NoSilentLoss
  <2>6. ASSUME NEW w \in Workers, AckDone(w)
        PROVE  (InReady(x) \/ Held(x) \/ x \in completed \cup failed \cup withdrawn)'
    <3>1. /\ Pushed(x) /\ SAddDone(wtask[w], ok[w]) /\ UNCHANGED <<ready, dropped, withdrawn>>
          /\ wtask' = [wtask EXCEPT ![w] = NoTask]
      BY <2>6 DEF AckDone, Work, Release, SAddDone, Pushed
    <3>2. Held(x) /\ x # wtask[w] => Held(x)'
      BY <3>1 DEF Held
    <3>3. wtask[w] \in (completed \cup failed)'
      BY <3>1 DEF SAddDone
    <3>4. (completed \cup failed) \subseteq (completed \cup failed)'
      BY <3>1 DEF SAddDone
    <3> QED BY <3>1, <3>2, <3>3, <3>4 DEF NoSilentLoss, InReady
  <2>7. ASSUME NEW w \in Workers, WorkError(w) \/ Crash(w)
        PROVE  (InReady(x) \/ Held(x) \/ x \in completed \cup failed \cup withdrawn)'
    <3>1. /\ Pushed(x) /\ UNCHANGED <<ready, completed, failed, withdrawn>>
          /\ wtask' = [wtask EXCEPT ![w] = NoTask] /\ x # wtask[w] /\ x \notin dropped
      BY <2>7, QueueAssumption
      DEF WorkError, Crash, Release, Drop, NoCommand, Pushed, QueueAssumption
    <3>2. Held(x) => Held(x)'
      BY <3>1 DEF Held
    <3> QED BY <3>1, <3>2 DEF NoSilentLoss, InReady
  <2>8. ASSUME NEW w \in Workers, HandlePush(w)
        PROVE  (InReady(x) \/ Held(x) \/ x \in completed \cup failed \cup withdrawn)'
    <3>1. /\ Pushed(x) /\ LPush(Head(expired[w]))
          /\ UNCHANGED <<wtask, dropped, withdrawn>>
      BY <2>8 DEF HandlePush, Cleanup, Pushed
    <3>2. Head(expired[w]) \in Tasks
      BY <2>8, HeadTailProperties DEF HandlePush, Cleanup, CleanupTypeOK
    <3> QED BY <2>0, <3>1, <3>2, PushReady DEF LPush, NoSilentLoss, Held
  <2> QED BY <2>1, <2>2, <2>3, <2>4, <2>5, <2>6, <2>7, <2>8, StepKinds
<1> QED BY <1>1, <1>2, TypeCorrect, PTL DEF Spec

\* Which actions touch the lease keys, and which the cleanup's collections.

LEMMA LeaseKinds ==
    ASSUME TypeOK, [Next]_vars
    PROVE  \/ UNCHANGED lease \/ Tick
           \/ \E t \in Tasks : CancelClearLease(t)
           \/ \E w \in Workers :
                \/ TakeLease(w) \/ BoundLease(w) \/ RenewSet(w) \/ RenewExpire(w)
                \/ AckClearLease(w) \/ HandleClearLease(w)
<1> USE DEF Enqueue, Cancel, Work, KeepTask, Renewal, Cleanup, NoCommand, UseError
<1>1. CASE UNCHANGED vars
  BY <1>1 DEF vars
<1>2. CASE \E b \in Batches : OpenBatch(b)
  BY <1>2 DEF OpenBatch
<1>3. CASE Tick
  BY <1>3 DEF Tick
<1>4. ASSUME NEW t \in Tasks, CheckUser(t) PROVE UNCHANGED lease \/ Tick
  BY <1>4 DEF CheckUser
<1>5. ASSUME NEW t \in Tasks, CheckGlobal(t) PROVE UNCHANGED lease \/ Tick
  BY <1>5 DEF CheckGlobal
<1>6. ASSUME NEW t \in Tasks, SaveTask(t) PROVE UNCHANGED lease \/ Tick
  BY <1>6 DEF SaveTask, HSetStatus
<1>7. ASSUME NEW t \in Tasks, PushTask(t) PROVE UNCHANGED lease \/ Tick
  BY <1>7 DEF PushTask, LPush
<1>8. ASSUME NEW t \in Tasks, TagTask(t) PROVE UNCHANGED lease \/ Tick
  BY <1>8 DEF TagTask
<1>9. ASSUME NEW t \in Tasks, SubmitError(t) PROVE UNCHANGED lease \/ Tick
  BY <1>9 DEF SubmitError, UseError
<1>10. ASSUME NEW t \in Tasks, CancelRead(t) PROVE UNCHANGED lease \/ Tick
  BY <1>10 DEF CancelRead
<1>11. ASSUME NEW t \in Tasks, CancelUnmarkUser(t) PROVE UNCHANGED lease \/ Tick
  BY <1>11 DEF CancelUnmarkUser, SRemUser
<1>12. ASSUME NEW t \in Tasks, CancelUnmarkGlobal(t) PROVE UNCHANGED lease \/ Tick
  BY <1>12 DEF CancelUnmarkGlobal, SRemProcessing
<1>13. ASSUME NEW t \in Tasks, CancelRemove(t) PROVE UNCHANGED lease \/ Tick
  BY <1>13 DEF CancelRemove, LRem
<1>14. ASSUME NEW t \in Tasks, CancelSetStatus(t) PROVE UNCHANGED lease \/ Tick
  BY <1>14 DEF CancelSetStatus, HSetStatus
<1>15. ASSUME NEW t \in Tasks, CancelError(t) PROVE UNCHANGED lease \/ Tick
  BY <1>15 DEF CancelError, UseError
<1>16. ASSUME NEW w \in Workers, Pop(w) PROVE UNCHANGED lease \/ Tick
  BY <1>16 DEF Pop, RPop
<1>17. ASSUME NEW w \in Workers, Recheck(w) PROVE UNCHANGED lease \/ Tick
  BY <1>17 DEF Recheck
<1>18. ASSUME NEW w \in Workers, PutBack(w) PROVE UNCHANGED lease \/ Tick
  BY <1>18 DEF PutBack, LPush
<1>19. ASSUME NEW w \in Workers, MarkUser(w) PROVE UNCHANGED lease \/ Tick
  BY <1>19 DEF MarkUser, SAddUser
<1>20. ASSUME NEW w \in Workers, MarkGlobal(w) PROVE UNCHANGED lease \/ Tick
  BY <1>20 DEF MarkGlobal, SAddProcessing
<1>21. ASSUME NEW w \in Workers, SetProcessing(w) PROVE UNCHANGED lease \/ Tick
  BY <1>21 DEF SetProcessing, HSetStatus
<1>22. ASSUME NEW w \in Workers, Begin(w) PROVE UNCHANGED lease \/ Tick
  BY <1>22 DEF Begin
<1>23. ASSUME NEW w \in Workers, Propagate(w) PROVE UNCHANGED lease \/ Tick
  BY <1>23 DEF Propagate
<1>24. ASSUME NEW w \in Workers, Execute(w) PROVE UNCHANGED lease \/ Tick
  BY <1>24 DEF Execute
<1>25. ASSUME NEW w \in Workers, CancelRenewal(w) PROVE UNCHANGED lease \/ Tick
  BY <1>25 DEF CancelRenewal
<1>26. ASSUME NEW w \in Workers, AckUnmarkUser(w) PROVE UNCHANGED lease \/ Tick
  BY <1>26 DEF AckUnmarkUser, SRemUser
<1>27. ASSUME NEW w \in Workers, AckUnmarkGlobal(w) PROVE UNCHANGED lease \/ Tick
  BY <1>27 DEF AckUnmarkGlobal, SRemProcessing
<1>28. ASSUME NEW w \in Workers, AckStatus(w) PROVE UNCHANGED lease \/ Tick
  BY <1>28 DEF AckStatus, HSetStatus
<1>29. ASSUME NEW w \in Workers, AckDone(w) PROVE UNCHANGED lease \/ Tick
  BY <1>29 DEF AckDone, SAddDone
<1>30. ASSUME NEW w \in Workers, WorkError(w) PROVE UNCHANGED lease \/ Tick
  BY <1>30 DEF WorkError, Drop, Release
<1>31. ASSUME NEW w \in Workers, RenewRead(w) PROVE UNCHANGED lease \/ Tick
  BY <1>31 DEF RenewRead
<1>32. ASSUME NEW w \in Workers, RenewError(w) PROVE UNCHANGED lease \/ Tick
  BY <1>32 DEF RenewError
<1>33. ASSUME NEW w \in Workers, Scan(w) PROVE UNCHANGED lease \/ Tick
  BY <1>33 DEF Scan
<1>34. ASSUME NEW w \in Workers, ReadLease(w) PROVE UNCHANGED lease \/ Tick
  BY <1>34 DEF ReadLease
<1>35. ASSUME NEW w \in Workers, HandleUnmarkUser(w) PROVE UNCHANGED lease \/ Tick
  BY <1>35 DEF HandleUnmarkUser, SRemUser
<1>36. ASSUME NEW w \in Workers, HandleUnmarkGlobal(w) PROVE UNCHANGED lease \/ Tick
  BY <1>36 DEF HandleUnmarkGlobal, SRemProcessing
<1>37. ASSUME NEW w \in Workers, HandlePush(w) PROVE UNCHANGED lease \/ Tick
  BY <1>37 DEF HandlePush, LPush
<1>38. ASSUME NEW w \in Workers, HandleSetStatus(w) PROVE UNCHANGED lease \/ Tick
  BY <1>38 DEF HandleSetStatus, HSetStatus
<1>39. ASSUME NEW w \in Workers, CleanupError(w) PROVE UNCHANGED lease \/ Tick
  BY <1>39 DEF CleanupError
<1>40. ASSUME NEW w \in Workers, Signal(w) PROVE UNCHANGED lease \/ Tick
  BY <1>40 DEF Signal
<1>41. ASSUME NEW w \in Workers, Exit(w) PROVE UNCHANGED lease \/ Tick
  BY <1>41 DEF Exit, EndCleanup
<1>42. ASSUME NEW w \in Workers, Crash(w) PROVE UNCHANGED lease \/ Tick
  BY <1>42 DEF Crash, EndCleanup, Drop, Release
<1> QED
  BY <1>1, <1>2, <1>3, <1>4, <1>5, <1>6, <1>7, <1>8, <1>9, <1>10, <1>11,
     <1>12, <1>13, <1>14, <1>15, <1>16, <1>17, <1>18, <1>19, <1>20, <1>21,
     <1>22, <1>23, <1>24, <1>25, <1>26, <1>27, <1>28, <1>29, <1>30, <1>31,
     <1>32, <1>33, <1>34, <1>35, <1>36, <1>37, <1>38, <1>39, <1>40, <1>41,
     <1>42
     DEF Next, Submit, CancelStep, WorkLoop, RenewalLoop, CleanupLoop

LEMMA CollectKinds ==
    ASSUME TypeOK, [Next]_vars
    PROVE  \/ UNCHANGED <<scan, expired>>
           \/ \E w \in Workers :
                \/ Scan(w) \/ ReadLease(w) \/ HandleSetStatus(w) \/ CleanupError(w)
                \/ Exit(w) \/ Crash(w)
<1> USE DEF Enqueue, Cancel, Work, KeepTask, Renewal, Cleanup, NoCommand, UseError
<1>1. CASE UNCHANGED vars
  BY <1>1 DEF vars
<1>2. CASE \E b \in Batches : OpenBatch(b)
  BY <1>2 DEF OpenBatch
<1>3. CASE Tick
  BY <1>3 DEF Tick
<1>4. ASSUME NEW t \in Tasks, CheckUser(t) PROVE UNCHANGED <<scan, expired>>
  BY <1>4 DEF CheckUser
<1>5. ASSUME NEW t \in Tasks, CheckGlobal(t) PROVE UNCHANGED <<scan, expired>>
  BY <1>5 DEF CheckGlobal
<1>6. ASSUME NEW t \in Tasks, SaveTask(t) PROVE UNCHANGED <<scan, expired>>
  BY <1>6 DEF SaveTask, HSetStatus
<1>7. ASSUME NEW t \in Tasks, PushTask(t) PROVE UNCHANGED <<scan, expired>>
  BY <1>7 DEF PushTask, LPush
<1>8. ASSUME NEW t \in Tasks, TagTask(t) PROVE UNCHANGED <<scan, expired>>
  BY <1>8 DEF TagTask
<1>9. ASSUME NEW t \in Tasks, SubmitError(t) PROVE UNCHANGED <<scan, expired>>
  BY <1>9 DEF SubmitError, UseError
<1>10. ASSUME NEW t \in Tasks, CancelRead(t) PROVE UNCHANGED <<scan, expired>>
  BY <1>10 DEF CancelRead
<1>11. ASSUME NEW t \in Tasks, CancelUnmarkUser(t) PROVE UNCHANGED <<scan, expired>>
  BY <1>11 DEF CancelUnmarkUser, SRemUser
<1>12. ASSUME NEW t \in Tasks, CancelUnmarkGlobal(t) PROVE UNCHANGED <<scan, expired>>
  BY <1>12 DEF CancelUnmarkGlobal, SRemProcessing
<1>13. ASSUME NEW t \in Tasks, CancelClearLease(t) PROVE UNCHANGED <<scan, expired>>
  BY <1>13 DEF CancelClearLease, DelLease
<1>14. ASSUME NEW t \in Tasks, CancelRemove(t) PROVE UNCHANGED <<scan, expired>>
  BY <1>14 DEF CancelRemove, LRem
<1>15. ASSUME NEW t \in Tasks, CancelSetStatus(t) PROVE UNCHANGED <<scan, expired>>
  BY <1>15 DEF CancelSetStatus, HSetStatus
<1>16. ASSUME NEW t \in Tasks, CancelError(t) PROVE UNCHANGED <<scan, expired>>
  BY <1>16 DEF CancelError, UseError
<1>17. ASSUME NEW w \in Workers, Pop(w) PROVE UNCHANGED <<scan, expired>>
  BY <1>17 DEF Pop, RPop
<1>18. ASSUME NEW w \in Workers, Recheck(w) PROVE UNCHANGED <<scan, expired>>
  BY <1>18 DEF Recheck
<1>19. ASSUME NEW w \in Workers, PutBack(w) PROVE UNCHANGED <<scan, expired>>
  BY <1>19 DEF PutBack, LPush
<1>20. ASSUME NEW w \in Workers, MarkUser(w) PROVE UNCHANGED <<scan, expired>>
  BY <1>20 DEF MarkUser, SAddUser
<1>21. ASSUME NEW w \in Workers, MarkGlobal(w) PROVE UNCHANGED <<scan, expired>>
  BY <1>21 DEF MarkGlobal, SAddProcessing
<1>22. ASSUME NEW w \in Workers, TakeLease(w) PROVE UNCHANGED <<scan, expired>>
  BY <1>22 DEF TakeLease, HSetLease
<1>23. ASSUME NEW w \in Workers, BoundLease(w) PROVE UNCHANGED <<scan, expired>>
  BY <1>23 DEF BoundLease, ExpireLease
<1>24. ASSUME NEW w \in Workers, SetProcessing(w) PROVE UNCHANGED <<scan, expired>>
  BY <1>24 DEF SetProcessing, HSetStatus
<1>25. ASSUME NEW w \in Workers, Begin(w) PROVE UNCHANGED <<scan, expired>>
  BY <1>25 DEF Begin
<1>26. ASSUME NEW w \in Workers, Propagate(w) PROVE UNCHANGED <<scan, expired>>
  BY <1>26 DEF Propagate
<1>27. ASSUME NEW w \in Workers, Execute(w) PROVE UNCHANGED <<scan, expired>>
  BY <1>27 DEF Execute
<1>28. ASSUME NEW w \in Workers, CancelRenewal(w) PROVE UNCHANGED <<scan, expired>>
  BY <1>28 DEF CancelRenewal
<1>29. ASSUME NEW w \in Workers, AckUnmarkUser(w) PROVE UNCHANGED <<scan, expired>>
  BY <1>29 DEF AckUnmarkUser, SRemUser
<1>30. ASSUME NEW w \in Workers, AckUnmarkGlobal(w) PROVE UNCHANGED <<scan, expired>>
  BY <1>30 DEF AckUnmarkGlobal, SRemProcessing
<1>31. ASSUME NEW w \in Workers, AckClearLease(w) PROVE UNCHANGED <<scan, expired>>
  BY <1>31 DEF AckClearLease, DelLease
<1>32. ASSUME NEW w \in Workers, AckStatus(w) PROVE UNCHANGED <<scan, expired>>
  BY <1>32 DEF AckStatus, HSetStatus
<1>33. ASSUME NEW w \in Workers, AckDone(w) PROVE UNCHANGED <<scan, expired>>
  BY <1>33 DEF AckDone, SAddDone
<1>34. ASSUME NEW w \in Workers, WorkError(w) PROVE UNCHANGED <<scan, expired>>
  BY <1>34 DEF WorkError, Drop, Release
<1>35. ASSUME NEW w \in Workers, RenewRead(w) PROVE UNCHANGED <<scan, expired>>
  BY <1>35 DEF RenewRead
<1>36. ASSUME NEW w \in Workers, RenewSet(w) PROVE UNCHANGED <<scan, expired>>
  BY <1>36 DEF RenewSet, HSetLease
<1>37. ASSUME NEW w \in Workers, RenewExpire(w) PROVE UNCHANGED <<scan, expired>>
  BY <1>37 DEF RenewExpire, ExpireLease
<1>38. ASSUME NEW w \in Workers, RenewError(w) PROVE UNCHANGED <<scan, expired>>
  BY <1>38 DEF RenewError
<1>39. ASSUME NEW w \in Workers, HandleUnmarkUser(w) PROVE UNCHANGED <<scan, expired>>
  BY <1>39 DEF HandleUnmarkUser, SRemUser
<1>40. ASSUME NEW w \in Workers, HandleUnmarkGlobal(w) PROVE UNCHANGED <<scan, expired>>
  BY <1>40 DEF HandleUnmarkGlobal, SRemProcessing
<1>41. ASSUME NEW w \in Workers, HandleClearLease(w) PROVE UNCHANGED <<scan, expired>>
  BY <1>41 DEF HandleClearLease, DelLease
<1>42. ASSUME NEW w \in Workers, HandlePush(w) PROVE UNCHANGED <<scan, expired>>
  BY <1>42 DEF HandlePush, LPush
<1>43. ASSUME NEW w \in Workers, Signal(w) PROVE UNCHANGED <<scan, expired>>
  BY <1>43 DEF Signal
<1> QED
  BY <1>1, <1>2, <1>3, <1>4, <1>5, <1>6, <1>7, <1>8, <1>9, <1>10, <1>11,
     <1>12, <1>13, <1>14, <1>15, <1>16, <1>17, <1>18, <1>19, <1>20, <1>21,
     <1>22, <1>23, <1>24, <1>25, <1>26, <1>27, <1>28, <1>29, <1>30, <1>31,
     <1>32, <1>33, <1>34, <1>35, <1>36, <1>37, <1>38, <1>39, <1>40, <1>41,
     <1>42, <1>43
     DEF Next, Submit, CancelStep, WorkLoop, RenewalLoop, CleanupLoop

\* Once pushed, always pushed.
LEMMA PushedStays ==
    ASSUME TypeOK, [Next]_vars, NEW t \in Tasks, Pushed(t)
    PROVE  Pushed(t)'
<1>1. ASSUME NEW u \in Tasks, PushTask(u) \/ CancelRemove(u) PROVE Pushed(t)'
  BY <1>1 DEF PushTask, CancelRemove, Enqueue, Cancel, Pushed, TypeOK, ApiTypeOK
<1>2. ASSUME NEW w \in Workers,
             Pop(w) \/ PutBack(w) \/ AckDone(w) \/ WorkError(w) \/ HandlePush(w) \/ Crash(w)
      PROVE  Pushed(t)'
  BY <1>2 DEF Pop, PutBack, AckDone, WorkError, HandlePush, Crash, Work, Cleanup, Pushed
<1> QED BY <1>1, <1>2, StepKinds DEF Still

\* OnlyPushed is inductive on top of the types.
LEMMA OnlyPushedStep ==
    ASSUME TypeOK, OnlyPushed, [Next]_vars
    PROVE  OnlyPushed'
<1> USE DEF TypeOK
<1>1. ASSUME NEW x \in Tasks, ~Pushed(x)'
      PROVE  (/\ ~InReady(x) /\ ~Held(x)
              /\ x \notin completed \cup failed \cup requeued \cup dropped \cup withdrawn)'
  <2>0. /\ RedisTypeOK /\ ~Pushed(x) /\ ~InReady(x) /\ ~Held(x)
        /\ x \notin completed \cup failed \cup requeued \cup dropped \cup withdrawn
    BY <1>1, PushedStays DEF OnlyPushed
  <2>1. CASE Still
    BY <2>0, <2>1 DEF Still, places, InReady, Held
  <2>2. ASSUME NEW t \in Tasks, PushTask(t)
        PROVE  (/\ ~InReady(x) /\ ~Held(x)
                /\ x \notin completed \cup failed \cup requeued \cup dropped \cup withdrawn)'
    <3>1. x # t
      BY <1>1, <2>2 DEF PushTask, Enqueue, Pushed, ApiTypeOK
    <3>2. LPush(t) /\ UNCHANGED <<wtask, requeued, dropped, withdrawn>>
      BY <2>2 DEF PushTask, Enqueue
    <3> QED BY <2>0, <3>1, <3>2, PushReady DEF LPush, Held
  <2>3. ASSUME NEW t \in Tasks, CancelRemove(t)
        PROVE  (/\ ~InReady(x) /\ ~Held(x)
                /\ x \notin completed \cup failed \cup requeued \cup dropped \cup withdrawn)'
    <3>1. LRem(t) /\ UNCHANGED <<wtask, completed, failed, requeued, dropped>>
      BY <2>3 DEF CancelRemove, Cancel, LRem
    <3>2. x \notin withdrawn' /\ ~InReady(x)'
      BY <2>0, <2>3, <3>1, RemReady DEF CancelRemove
    <3> QED BY <2>0, <3>1, <3>2 DEF Held
  <2>4. ASSUME NEW w \in Workers, Pop(w)
        PROVE  (/\ ~InReady(x) /\ ~Held(x)
                /\ x \notin completed \cup failed \cup requeued \cup dropped \cup withdrawn)'
    <3>1. /\ RPop /\ UNCHANGED <<requeued, dropped, withdrawn>>
          /\ wtask' = [wtask EXCEPT ![w] = Head(ready)]
      BY <2>4 DEF Pop, Work
    <3>2. x # Head(ready) /\ ~InReady(x)'
      BY <2>0, <3>1, PopReady
    <3> QED BY <2>0, <3>1, <3>2 DEF RPop, Held, WorkerTypeOK
  <2>5. ASSUME NEW w \in Workers, PutBack(w)
        PROVE  (/\ ~InReady(x) /\ ~Held(x)
                /\ x \notin completed \cup failed \cup requeued \cup dropped \cup withdrawn)'
    <3>1. /\ LPush(wtask[w]) /\ UNCHANGED <<requeued, dropped, withdrawn>>
          /\ wtask' = [wtask EXCEPT ![w] = NoTask] /\ wtask[w] \in Tasks
      BY <2>5 DEF PutBack, Work, Release, WorkerTypeOK
    <3>2. x # wtask[w]
      BY <2>0 DEF Held
    <3> QED BY <2>0, <3>1, <3>2, PushReady, QueueAssumption
        DEF LPush, Held, WorkerTypeOK, QueueAssumption
  <2>6. ASSUME NEW w \in Workers, AckDone(w) \/ WorkError(w) \/ Crash(w)
        PROVE  (/\ ~InReady(x) /\ ~Held(x)
                /\ x \notin completed \cup failed \cup requeued \cup dropped \cup withdrawn)'
    <3>1. /\ UNCHANGED <<ready, requeued, withdrawn>>
          /\ wtask' = [wtask EXCEPT ![w] = NoTask] /\ x # wtask[w]
          /\ completed' \subseteq completed \cup {wtask[w]}
          /\ failed' \subseteq failed \cup {wtask[w]}
          /\ dropped' \subseteq dropped \cup {wtask[w]}
      BY <2>0, <2>6
      DEF AckDone, WorkError, Crash, Work, Release, Drop, SAddDone, NoCommand, Held
    <3> QED BY <2>0, <3>1, QueueAssumption DEF InReady, Held, WorkerTypeOK, QueueAssumption
  <2>7. ASSUME NEW w \in Workers, HandlePush(w)
        PROVE  (/\ ~InReady(x) /\ ~Held(x)
                /\ x \notin completed \cup failed \cup requeued \cup dropped \cup withdrawn)'
    <3>1. /\ LPush(Head(expired[w])) /\ UNCHANGED <<wtask, dropped, withdrawn>>
          /\ requeued' = requeued \cup {Head(expired[w])}
      BY <2>7 DEF HandlePush, Cleanup
    <3>2. expired[w] \in Seq(Tasks) /\ expired[w] # <<>>
      BY <2>7 DEF HandlePush, Cleanup, CleanupTypeOK
    <3>3. Head(expired[w]) = expired[w][1] /\ Head(expired[w]) \in Tasks /\ 1 \in 1..Len(expired[w])
      BY <3>2, HeadTailProperties, EmptySeq, LenProperties
    <3>4. x # Head(expired[w])
      BY <2>0, <3>3 DEF OnlyPushed
    <3> QED BY <2>0, <3>1, <3>3, <3>4, PushReady DEF LPush, Held
  <2> QED BY <2>1, <2>2, <2>3, <2>4, <2>5, <2>6, <2>7, StepKinds
<1>2. ASSUME NEW x \in DOMAIN lease' PROVE Pushed(x)'
  <2>1. ASSUME NEW w \in Workers, TakeLease(w) \/ RenewSet(w)
        PROVE  Pushed(x)'
    <3>1. wtask[w] \in Tasks /\ HSetLease(wtask[w], w)
      BY <2>1, QueueAssumption
      DEF TakeLease, RenewSet, Work, Renewal, WorkerTypeOK, QueueAssumption
    <3>2. Pushed(wtask[w])
      BY <3>1 DEF OnlyPushed, Held
    <3> QED BY <3>1, <3>2, PushedStays DEF HSetLease, OnlyPushed, RedisTypeOK
  <2>2. DOMAIN lease' \subseteq DOMAIN lease => Pushed(x)'
    BY PushedStays DEF OnlyPushed, RedisTypeOK
  <2>3. ASSUME NEW w \in Workers,
               BoundLease(w) \/ RenewExpire(w) \/ AckClearLease(w) \/ HandleClearLease(w)
        PROVE  DOMAIN lease' \subseteq DOMAIN lease
    BY <2>3 DEF BoundLease, RenewExpire, AckClearLease, HandleClearLease, ExpireLease, DelLease
  <2>4. ASSUME Tick \/ UNCHANGED lease \/ \E t \in Tasks : CancelClearLease(t)
        PROVE  DOMAIN lease' \subseteq DOMAIN lease
    BY <2>4 DEF Tick, CancelClearLease, DelLease
  <2> QED BY <2>1, <2>2, <2>3, <2>4, LeaseKinds
<1> DEFINE Sent(x) == epc'[x] \in {"tag", "in", "untagged"}
<1>3. ASSUME NEW v \in Workers
      PROVE  /\ \A x \in scan'[v] : Sent(x)
             /\ \A i \in 1..Len(expired'[v]) : Sent(expired'[v][i])
  <2>0. /\ \A x \in scan[v] : Sent(x)
        /\ \A i \in 1..Len(expired[v]) : Sent(expired[v][i])
        /\ \A x \in DOMAIN lease : Sent(x)
    <3>1. /\ expired[v] \in Seq(Tasks) /\ scan[v] \subseteq Tasks /\ DOMAIN lease \subseteq Tasks
          /\ \A i \in 1..Len(expired[v]) : expired[v][i] \in Tasks
      BY ElementOfSeq DEF CleanupTypeOK, RedisTypeOK
    <3> QED BY <3>1, PushedStays DEF OnlyPushed, Pushed
  <2> USE DEF CleanupTypeOK
  <2> HIDE DEF Sent
  <2>1. ASSUME NEW w \in Workers, Scan(w)
        PROVE  /\ \A x \in scan'[v] : Sent(x)
               /\ \A i \in 1..Len(expired'[v]) : Sent(expired'[v][i])
    <3>1. expired' = expired /\ scan' = [scan EXCEPT ![w] = {t \in Tasks : LeaseDue(t)}]
      BY <2>1 DEF Scan
    <3>2. \A x \in scan'[v] : x \in scan[v] \/ x \in DOMAIN lease
      BY <3>1 DEF LeaseDue
    <3> QED BY <2>0, <3>1, <3>2
  <2>2. ASSUME NEW w \in Workers, ReadLease(w)
        PROVE  /\ \A x \in scan'[v] : Sent(x)
               /\ \A i \in 1..Len(expired'[v]) : Sent(expired'[v][i])
    <3>1. PICK t \in scan[w] :
             /\ scan' = [scan EXCEPT ![w] = @ \ {t}]
             /\ expired' = [expired EXCEPT ![w] = IF LeaseDue(t) THEN Append(@, t) ELSE @]
      BY <2>2 DEF ReadLease
    <3>2. \A x \in scan'[v] : x \in scan[v]
      BY <3>1
    <3>3. CASE expired'[v] = expired[v]
      BY <2>0, <3>2, <3>3
    <3>4. CASE v = w /\ expired'[v] = Append(expired[v], t)
      <4>1. t \in Tasks /\ expired[v] \in Seq(Tasks)
        OBVIOUS
      <4>2. /\ Len(expired'[v]) = Len(expired[v]) + 1 /\ Len(expired[v]) \in Nat
            /\ \A i \in 1..Len(expired[v]) : expired'[v][i] = expired[v][i]
            /\ expired'[v][Len(expired[v]) + 1] = t
        BY <3>4, <4>1, AppendProperties, LenProperties
      <4>3. Sent(t)
        BY <2>0, <3>1, <3>4
      <4>4. \A i \in 1..Len(expired'[v]) :
               i \in 1..Len(expired[v]) \/ i = Len(expired[v]) + 1
        BY <4>2
      <4> QED BY <2>0, <3>2, <4>2, <4>3, <4>4
    <3>5. expired'[v] = expired[v] \/ (v = w /\ expired'[v] = Append(expired[v], t))
      BY <3>1
    <3> QED BY <3>3, <3>4, <3>5
  <2>3. ASSUME scan'[v] = scan[v] \/ scan'[v] = {},
               \/ expired'[v] = expired[v] \/ expired'[v] = <<>>
               \/ expired[v] # <<>> /\ expired'[v] = Tail(expired[v])
        PROVE  /\ \A x \in scan'[v] : Sent(x)
               /\ \A i \in 1..Len(expired'[v]) : Sent(expired'[v][i])
    <3>1. CASE expired'[v] = expired[v]
      BY <2>0, <2>3, <3>1
    <3>2. CASE expired'[v] = <<>>
      <4>1. Len(expired'[v]) = 0
        BY <3>2
      <4> QED BY <2>0, <2>3, <4>1
    <3>3. CASE expired[v] # <<>> /\ expired'[v] = Tail(expired[v])
      <4>1. /\ Len(expired[v]) \in Nat /\ Len(expired'[v]) = Len(expired[v]) - 1
            /\ \A i \in 1..Len(expired'[v]) : expired'[v][i] = expired[v][i + 1]
        BY <3>3, HeadTailProperties, LenProperties
      <4>2. \A i \in 1..Len(expired'[v]) : i + 1 \in 1..Len(expired[v])
        BY <4>1
      <4> QED BY <2>0, <2>3, <4>1, <4>2
    <3> QED BY <2>3, <3>1, <3>2, <3>3
  <2>4. ASSUME NEW w \in Workers,
               HandleSetStatus(w) \/ CleanupError(w) \/ Exit(w) \/ Crash(w)
        PROVE  /\ scan'[v] = scan[v] \/ scan'[v] = {}
               /\ \/ expired'[v] = expired[v] \/ expired'[v] = <<>>
                  \/ expired[v] # <<>> /\ expired'[v] = Tail(expired[v])
    BY <2>4 DEF HandleSetStatus, CleanupError, Exit, Crash, Cleanup, NextExpired,
                EndCleanup, HandlePCs
  <2> QED BY <2>1, <2>2, <2>3, <2>4, CollectKinds
<1> QED BY <1>1, <1>2, <1>3 DEF OnlyPushed, Pushed

\* The delivery promise is inductive on top of OnlyPushed.
LEMMA DeliveryStep ==
    ASSUME TypeOK, OnlyPushed, DeliveredAtMostOnce, [Next]_vars
    PROVE  DeliveredAtMostOnce'
<1> SUFFICES ASSUME NEW x \in Tasks, x \notin requeued'
             PROVE  (/\ Once(x)
                     /\ \A v, w \in Workers : wtask[v] = x /\ wtask[w] = x => v = w
                     /\ ~(InReady(x) /\ Held(x))
                     /\ x \in completed \cup failed \cup withdrawn \cup dropped
                           => ~InReady(x) /\ ~Held(x)
                     /\ x \notin completed \cap failed)'
  BY DEF DeliveredAtMostOnce, Once
<1> USE DEF TypeOK, WorkerTypeOK
<1>0. ASSUME x \notin requeued
      PROVE  /\ RedisTypeOK /\ Once(x)
             /\ \A v, w \in Workers : wtask[v] = x /\ wtask[w] = x => v = w
             /\ ~(InReady(x) /\ Held(x))
             /\ x \in completed \cup failed \cup withdrawn \cup dropped
                   => ~InReady(x) /\ ~Held(x)
             /\ x \notin completed \cap failed
  BY <1>0 DEF DeliveredAtMostOnce, Once
<1> DEFINE Goal == (/\ Once(x)
                    /\ \A v, w \in Workers : wtask[v] = x /\ wtask[w] = x => v = w
                    /\ ~(InReady(x) /\ Held(x))
                    /\ x \in completed \cup failed \cup withdrawn \cup dropped
                          => ~InReady(x) /\ ~Held(x)
                    /\ x \notin completed \cap failed)'
<1>1. CASE Still
  BY <1>0, <1>1 DEF Still, places, Once, InReady, Held
<1>2. ASSUME NEW t \in Tasks, PushTask(t) PROVE Goal
  <2>1. LPush(t) /\ UNCHANGED <<wtask, completed, failed, requeued, dropped, withdrawn>>
    BY <1>2 DEF PushTask, Enqueue, LPush
  <2>2. CASE x # t
    BY <1>0, <2>1, <2>2, PushReady DEF Held
  <2>3. CASE x = t
    <3>1. /\ ~InReady(t) /\ ~Held(t)
          /\ t \notin completed \cup failed \cup withdrawn \cup dropped
      BY <1>2 DEF PushTask, Enqueue, Pushed, OnlyPushed
    <3> QED BY <1>0, <2>1, <2>3, <3>1, PushReady DEF Held
  <2> QED BY <2>2, <2>3
<1>3. ASSUME NEW t \in Tasks, CancelRemove(t) PROVE Goal
  <2>1. /\ LRem(t) /\ UNCHANGED <<wtask, completed, failed, requeued, dropped>>
        /\ withdrawn' = IF InReady(t) THEN withdrawn \cup {t} ELSE withdrawn
    BY <1>3 DEF CancelRemove, Cancel, LRem
  <2> QED BY <1>0, <2>1, RemReady DEF Held
<1>4. ASSUME NEW w \in Workers, Pop(w) PROVE Goal
  <2>1. /\ RPop /\ UNCHANGED <<completed, failed, requeued, dropped, withdrawn>>
        /\ wtask' = [wtask EXCEPT ![w] = Head(ready)] /\ wtask[w] = NoTask
    BY <1>4 DEF Pop, Work, RPop
  <2>2. CASE x # Head(ready)
    <3>1. /\ InReady(x)' => InReady(x)
          /\ Once(x)'
      BY <1>0, <2>1, PopReady
    <3>2. Held(x)' => Held(x)
      BY <2>1, <2>2 DEF Held
    <3> QED BY <1>0, <2>1, <2>2, <3>1, <3>2
  <2>3. CASE x = Head(ready)
    <3>1. InReady(x) /\ ~InReady(x)' /\ Once(x)'
      BY <1>0, <2>1, <2>3, PopReady
    <3> QED BY <1>0, <2>1, <2>3, <3>1 DEF Held
  <2> QED BY <2>2, <2>3
<1>5. ASSUME NEW w \in Workers, PutBack(w) PROVE Goal
  <2>1. /\ LPush(wtask[w]) /\ UNCHANGED <<completed, failed, requeued, dropped, withdrawn>>
        /\ wtask' = [wtask EXCEPT ![w] = NoTask] /\ wtask[w] \in Tasks
    BY <1>5 DEF PutBack, Work, Release, LPush
  <2>2. Held(x)' => Held(x) /\ x # wtask[w]
    BY <1>0, <2>1, QueueAssumption DEF Held, QueueAssumption
  <2>3. CASE x # wtask[w]
    BY <1>0, <2>1, <2>2, <2>3, QueueAssumption, PushReady DEF QueueAssumption
  <2>4. CASE x = wtask[w]
    <3>1. Held(x)
      BY <2>4 DEF Held
    <3> QED BY <1>0, <2>1, <2>2, <2>4, <3>1, QueueAssumption, PushReady
            DEF QueueAssumption
  <2> QED BY <2>3, <2>4
<1>6. ASSUME NEW w \in Workers, AckDone(w) \/ WorkError(w) \/ Crash(w) PROVE Goal
  <2>1. /\ UNCHANGED <<ready, requeued, withdrawn>>
        /\ wtask' = [wtask EXCEPT ![w] = NoTask]
        /\ completed' \subseteq completed \cup {wtask[w]}
        /\ failed' \subseteq failed \cup {wtask[w]}
        /\ dropped' \subseteq dropped \cup {wtask[w]}
        /\ wtask[w] \in completed' \cap failed' => wtask[w] \in completed \cup failed
    BY <1>6 DEF AckDone, WorkError, Crash, Work, Release, Drop, SAddDone, NoCommand
  <2>2. Held(x)' => Held(x) /\ x # wtask[w]
    BY <1>0, <2>1, QueueAssumption DEF Held, QueueAssumption
  <2>3. x = wtask[w] => Held(x)
    BY DEF Held
  <2> QED BY <1>0, <2>1, <2>2, <2>3, QueueAssumption
          DEF QueueAssumption, Once, InReady
<1>7. ASSUME NEW w \in Workers, HandlePush(w) PROVE Goal
  <2>1. /\ LPush(Head(expired[w])) /\ UNCHANGED <<wtask, dropped, withdrawn>>
        /\ requeued' = requeued \cup {Head(expired[w])}
        /\ Head(expired[w]) \in Tasks
    BY <1>7, HeadTailProperties DEF HandlePush, Cleanup, CleanupTypeOK
  <2> QED BY <1>0, <2>1, PushReady DEF LPush, Held
<1> QED BY <1>1, <1>2, <1>3, <1>4, <1>5, <1>6, <1>7, StepKinds

LEMMA DeliveryInit == Init => OnlyPushed /\ DeliveredAtMostOnce
<1> SUFFICES ASSUME Init PROVE OnlyPushed /\ DeliveredAtMostOnce
  OBVIOUS
<1>1. \A t \in Tasks : ~InReady(t) /\ ~Held(t) /\ ~Pushed(t)
  BY QueueAssumption DEF Init, InReady, Held, Pushed, QueueAssumption
<1>2. \A w \in Workers : scan[w] = {} /\ expired[w] = <<>> /\ Len(expired[w]) = 0
  BY DEF Init
<1>3. OnlyPushed
  BY <1>1, <1>2 DEF Init, OnlyPushed
<1>4. DeliveredAtMostOnce
  BY <1>1 DEF Init, DeliveredAtMostOnce, Held
<1> QED BY <1>3, <1>4

\* A task the expiry path has not pushed again is delivered to at most one
\* worker, once (dequeue_task, its put-back, ack_task, cancel_task).
THEOREM NoDoubleDelivery == Spec => []DeliveredAtMostOnce
<1>1. Init => OnlyPushed /\ DeliveredAtMostOnce
  BY DeliveryInit
<1>2. TypeOK /\ OnlyPushed /\ DeliveredAtMostOnce /\ [Next]_vars
         => OnlyPushed' /\ DeliveredAtMostOnce'
  BY OnlyPushedStep, DeliveryStep
<1> QED BY <1>1, <1>2, TypeCorrect, PTL DEF Spec

-----------------------------------------------------------------------------
\* The queue implements TaskLedger.

\* PlaceOf reads nothing but these six facts.
LEMMA SamePlace ==
    ASSUME NEW x \in Tasks, Pushed(x)' <=> Pushed(x), Held(x)' <=> Held(x),
           x \in requeued' <=> x \in requeued, x \in withdrawn' <=> x \in withdrawn,
           x \in dropped' <=> x \in dropped,
           x \in (completed \cup failed)' <=> x \in completed \cup failed
    PROVE  PlaceOf(x)' = PlaceOf(x)
BY DEF PlaceOf

Placed == \A t \in Tasks : ~Astray(t)

\* Delivered at most once and never lost, no task is astray.
LEMMA NoneAstray == DeliveredAtMostOnce /\ NoSilentLoss => Placed
<1> SUFFICES ASSUME DeliveredAtMostOnce, NoSilentLoss, NEW t \in Tasks,
                    Pushed(t), t \notin requeued
             PROVE  /\ ~(Held(t) /\ InReady(t))
                    /\ \A v, w \in Workers : wtask[v] = t /\ wtask[w] = t => v = w
                    /\ ~(Ended(t) <=> InReady(t) \/ Held(t))
  BY DEF Astray, Placed
<1>1. /\ ~(Held(t) /\ InReady(t))
      /\ \A v, w \in Workers : wtask[v] = t /\ wtask[w] = t => v = w
      /\ Ended(t) => ~InReady(t) /\ ~Held(t)
  BY DEF DeliveredAtMostOnce, Ended
<1>2. ~Ended(t) => InReady(t) \/ Held(t)
  BY DEF NoSilentLoss, Ended
<1> QED BY <1>1, <1>2

\* A step that moves one task in the ledger, or none.
LEMMA OneMoves ==
    ASSUME taskPlace = [x \in Tasks |-> PlaceOf(x)],
           taskPlace' = [x \in Tasks |-> PlaceOf(x)'],
           NEW t \in Tasks,
           \A x \in Tasks : x # t => PlaceOf(x)' = PlaceOf(x),
           \/ PlaceOf(t)' = PlaceOf(t)
           \/ PlaceOf(t) = "unsent" /\ PlaceOf(t)' = "waiting"
           \/ PlaceOf(t) = "waiting" /\ PlaceOf(t)' \in {"held", "withdrawn"}
           \/ PlaceOf(t) = "held" /\ PlaceOf(t)' \in {"waiting", "finished", "lost"}
           \/ PlaceOf(t) # "unsent" /\ PlaceOf(t)' = "repeated"
    PROVE  [Ledger!Next]_taskPlace
<1>1. /\ taskPlace' = [taskPlace EXCEPT ![t] = PlaceOf(t)']
      /\ taskPlace[t] = PlaceOf(t)
  OBVIOUS
<1>2. CASE PlaceOf(t)' = PlaceOf(t)
  BY <1>2
<1>3. CASE PlaceOf(t)' # PlaceOf(t)
  <2>1. \/ Ledger!Send(t) \/ Ledger!Take(t) \/ Ledger!PutBack(t) \/ Ledger!Finish(t)
        \/ Ledger!Withdraw(t) \/ Ledger!Lose(t) \/ Ledger!Repeat(t)
    BY <1>1, <1>3 DEF Ledger!Send, Ledger!Take, Ledger!PutBack, Ledger!Finish,
       Ledger!Withdraw, Ledger!Lose, Ledger!Repeat, Ledger!Move
  <2>2. taskPlace'[t] # taskPlace[t]
    BY <1>1, <1>3
  <2> QED BY <2>1, <2>2 DEF Ledger!Next
<1> QED BY <1>2, <1>3

LEMMA LedgerStep ==
    ASSUME TypeOK, OnlyPushed, DeliveredAtMostOnce, [Next]_vars,
           Placed, Placed'
    PROVE  [Ledger!Next]_taskPlace
<1>b. /\ taskPlace = [x \in Tasks |-> PlaceOf(x)]
      /\ taskPlace' = [x \in Tasks |-> PlaceOf(x)']
  BY DEF taskPlace, Placed
<1> USE DEF TypeOK, WorkerTypeOK
<1>0. RedisTypeOK
  OBVIOUS
<1>1. CASE Still
  <2>1. \A x \in Tasks : PlaceOf(x)' = PlaceOf(x)
    BY <1>1, SamePlace DEF Still, places, Held
  <2> QED BY <1>b, <2>1
<1>2. ASSUME NEW t \in Tasks, PushTask(t)
      PROVE  [Ledger!Next]_taskPlace
  <2>1. /\ ~Pushed(t) /\ Pushed(t)'
        /\ \A x \in Tasks : x # t => (Pushed(x)' <=> Pushed(x))
        /\ UNCHANGED <<wtask, completed, failed, requeued, dropped, withdrawn>>
    BY <1>2 DEF PushTask, Enqueue, LPush, Pushed, ApiTypeOK
  <2>2. \A x \in Tasks : x # t => PlaceOf(x)' = PlaceOf(x)
    BY <2>1, SamePlace DEF Held
  <2>3. PlaceOf(t) = "unsent"
    BY <2>1 DEF PlaceOf
  <2>4. /\ ~Held(t)' /\ t \notin requeued' /\ t \notin withdrawn' /\ t \notin dropped'
        /\ t \notin (completed \cup failed)'
    BY <2>1 DEF OnlyPushed, Held
  <2>5. PlaceOf(t)' = "waiting"
    BY <2>1, <2>4 DEF PlaceOf
  <2> QED BY <2>2, <2>3, <2>5, OneMoves, <1>b
<1>3. ASSUME NEW t \in Tasks, CancelRemove(t)
      PROVE  [Ledger!Next]_taskPlace
  <2>1. /\ UNCHANGED <<wtask, completed, failed, requeued, dropped>>
        /\ withdrawn' = IF InReady(t) THEN withdrawn \cup {t} ELSE withdrawn
        /\ \A x \in Tasks : Pushed(x)' <=> Pushed(x)
    BY <1>3 DEF CancelRemove, Cancel, LRem, Pushed
  <2>2. \A x \in Tasks : x # t => PlaceOf(x)' = PlaceOf(x)
    BY <2>1, SamePlace DEF Held
  <2>3. CASE ~InReady(t) \/ t \in requeued \/ ~Pushed(t)
    <3>1. PlaceOf(t)' = PlaceOf(t)
      BY <2>1, <2>3 DEF PlaceOf, Held
    <3> QED BY <2>2, <3>1, OneMoves, <1>b
  <2>4. CASE InReady(t) /\ t \notin requeued /\ Pushed(t)
    <3>1. ~Held(t) /\ t \notin completed \cup failed \cup withdrawn \cup dropped
      BY <2>4 DEF DeliveredAtMostOnce
    <3>2. PlaceOf(t) = "waiting"
      BY <2>4, <3>1 DEF PlaceOf
    <3>3. PlaceOf(t)' = "withdrawn"
      BY <2>1, <2>4 DEF PlaceOf
    <3> QED BY <2>2, <3>2, <3>3, OneMoves, <1>b
  <2> QED BY <2>3, <2>4
<1>4. ASSUME NEW w \in Workers, Pop(w)
      PROVE  [Ledger!Next]_taskPlace
  <2>1. PICK t \in Tasks : t = Head(ready)
    BY <1>4, HeadTailProperties DEF Pop, RPop, RedisTypeOK
  <2>2. /\ UNCHANGED <<completed, failed, requeued, dropped, withdrawn>>
        /\ wtask' = [wtask EXCEPT ![w] = t] /\ wtask[w] = NoTask /\ InReady(t)
        /\ \A x \in Tasks : Pushed(x)' <=> Pushed(x)
    BY <1>0, <1>4, <2>1, PopReady DEF Pop, Work, RPop, Pushed
  <2>3. \A x \in Tasks : x # t => (Held(x)' <=> Held(x))
    BY <2>2, QueueAssumption DEF Held, QueueAssumption
  <2>4. \A x \in Tasks : x # t => PlaceOf(x)' = PlaceOf(x)
    BY <2>2, <2>3, SamePlace
  <2>5. Pushed(t) /\ Held(t)'
    BY <2>2 DEF OnlyPushed, Held
  <2>6. CASE t \in requeued
    <3>1. PlaceOf(t)' = PlaceOf(t)
      BY <2>2, <2>5, <2>6 DEF PlaceOf
    <3> QED BY <2>4, <3>1, OneMoves, <1>b
  <2>7. CASE t \notin requeued
    <3>1. ~Held(t) /\ t \notin completed \cup failed \cup withdrawn \cup dropped
      BY <2>2, <2>7 DEF DeliveredAtMostOnce
    <3>2. PlaceOf(t) = "waiting" /\ PlaceOf(t)' = "held"
      BY <2>2, <2>5, <2>7, <3>1 DEF PlaceOf
    <3> QED BY <2>4, <3>2, OneMoves, <1>b
  <2> QED BY <2>6, <2>7
<1>5. ASSUME NEW w \in Workers, PutBack(w) \/ AckDone(w) \/ WorkError(w) \/ Crash(w)
      PROVE  [Ledger!Next]_taskPlace
  <2>1. /\ UNCHANGED <<requeued, withdrawn>>
        /\ wtask' = [wtask EXCEPT ![w] = NoTask]
        /\ \A x \in Tasks : Pushed(x)' <=> Pushed(x)
        /\ completed \subseteq completed' /\ completed' \subseteq completed \cup {wtask[w]}
        /\ failed \subseteq failed' /\ failed' \subseteq failed \cup {wtask[w]}
        /\ dropped \subseteq dropped' /\ dropped' \subseteq dropped \cup {wtask[w]}
    BY <1>5 DEF PutBack, AckDone, WorkError, Crash, Work, Release, Drop, SAddDone,
       LPush, NoCommand, Pushed
  <2>2. CASE wtask[w] = NoTask
    <3>1. \A x \in Tasks : PlaceOf(x)' = PlaceOf(x)
      BY <2>1, <2>2, SamePlace, QueueAssumption DEF Held, QueueAssumption
    <3> QED BY <1>b, <3>1
  <2>3. CASE wtask[w] \in Tasks
    <3>1. PICK t \in Tasks : t = wtask[w]
      BY <2>3
    <3>2. \A x \in Tasks : x # t => (Held(x)' <=> Held(x))
      BY <2>1, <3>1, QueueAssumption DEF Held, QueueAssumption
    <3>3. \A x \in Tasks : x # t => PlaceOf(x)' = PlaceOf(x)
      BY <2>1, <3>1, <3>2, SamePlace
    <3>4. Held(t) /\ Pushed(t)
      BY <3>1 DEF OnlyPushed, Held
    <3>5. CASE t \in requeued
      <4>1. PlaceOf(t)' = PlaceOf(t)
        BY <2>1, <3>4, <3>5 DEF PlaceOf
      <4> QED BY <3>3, <4>1, OneMoves, <1>b
    <3>6. CASE t \notin requeued
      <4>1. /\ t \notin completed \cup failed \cup withdrawn \cup dropped
            /\ \A v \in Workers : wtask[v] = t => v = w
        BY <3>1, <3>4, <3>6 DEF DeliveredAtMostOnce
      <4>2. ~Held(t)'
        BY <2>1, <4>1, QueueAssumption DEF Held, QueueAssumption
      <4>3. PlaceOf(t) = "held"
        BY <3>4, <3>6, <4>1 DEF PlaceOf
      <4>4. PlaceOf(t)' \in {"waiting", "finished", "lost"}
        BY <2>1, <3>4, <3>6, <4>1, <4>2 DEF PlaceOf
      <4> QED BY <3>3, <4>3, <4>4, OneMoves, <1>b
    <3> QED BY <3>5, <3>6
  <2> QED BY <2>2, <2>3
<1>6. ASSUME NEW w \in Workers, HandlePush(w)
      PROVE  [Ledger!Next]_taskPlace
  <2>1. expired[w] \in Seq(Tasks) /\ expired[w] # <<>>
    BY <1>6 DEF HandlePush, Cleanup, CleanupTypeOK
  <2>2. Head(expired[w]) = expired[w][1] /\ Head(expired[w]) \in Tasks /\ 1 \in 1..Len(expired[w])
    BY <2>1, HeadTailProperties, EmptySeq, LenProperties
  <2>3. PICK t \in Tasks : t = Head(expired[w])
    BY <2>2
  <2>4. /\ UNCHANGED <<wtask, completed, failed, dropped, withdrawn>>
        /\ requeued' = requeued \cup {t}
        /\ \A x \in Tasks : Pushed(x)' <=> Pushed(x)
    BY <1>6, <2>3 DEF HandlePush, Cleanup, LPush, Pushed
  <2>5. \A x \in Tasks : x # t => PlaceOf(x)' = PlaceOf(x)
    BY <2>4, SamePlace DEF Held
  <2>6. Pushed(t)
    BY <2>2, <2>3 DEF OnlyPushed
  <2>7. PlaceOf(t) # "unsent" /\ PlaceOf(t)' = "repeated"
    BY <2>4, <2>6 DEF PlaceOf
  <2> QED BY <2>5, <2>7, OneMoves, <1>b
<1> QED BY <1>1, <1>2, <1>3, <1>4, <1>5, <1>6, StepKinds

\* The queue implements the ledger: outside the expiry path every step of every
\* actor moves at most one task along its life, and nothing is revived.
THEOREM ImplementsLedger == Spec => LedgerSpec
<1>1. Init => OnlyPushed /\ DeliveredAtMostOnce
  BY DeliveryInit
<1>2. TypeOK /\ OnlyPushed /\ DeliveredAtMostOnce /\ [Next]_vars
         => OnlyPushed' /\ DeliveredAtMostOnce'
  BY OnlyPushedStep, DeliveryStep
<1>3. Init => Ledger!Init
  BY DEF Init, Ledger!Init, taskPlace, PlaceOf, Pushed, Astray
<1>4. TypeOK /\ OnlyPushed /\ DeliveredAtMostOnce /\ [Next]_vars /\ Placed /\ Placed'
         => [Ledger!Next]_taskPlace
  BY LedgerStep
<1> QED BY <1>1, <1>2, <1>3, <1>4, TypeCorrect, NothingLost, NoneAstray, PTL
       DEF Spec, LedgerSpec, Ledger!Spec

-----------------------------------------------------------------------------
\* Slots, leases, limits and batches.  Whoever occupies a slot is a worker at a
\* point of its loop that will release it.  No step of the API, of a renewal, of
\* a cleanup or of the clock takes a slot or moves a worker that holds a task
\* (Frees); a step of a work loop moves one worker, and takes along what that
\* worker occupies (Moves).

\* What worker w occupies for task t by where it stands.
UserMark(w, t)  == wtask[w] = t /\ wpc[w] \in UserMarkedPCs
SlotMark(w, t)  == wtask[w] = t /\ wpc[w] \in MarkedPCs
LeaseMark(w, t) == wtask[w] = t /\ wpc[w] \in LeasedPCs

\* A step of anyone but a work loop: a slot may be released, not taken, and a
\* lease is kept, or written by a worker that is entitled to it.
Frees ==
    /\ UNCHANGED <<wtask, dropped>>
    /\ \A v \in Workers : wpc[v] \in HoldPCs => wpc'[v] = wpc[v]
    /\ \A x \in Tasks : x \in userProc'[owner[x]] => x \in userProc[owner[x]]
    /\ processing' \subseteq processing
    /\ \A x \in DOMAIN lease' :
          \/ lease'[x].worker \in Workers /\ LeaseMark(lease'[x].worker, x)
          \/ x \in DOMAIN lease /\ lease'[x].worker = lease[x].worker

\* A step of the work loop of w: what w occupies afterwards is its own, and what
\* it no longer stands for was released or dropped.
Moves(w) ==
    /\ \A v \in Workers \ {w} : wpc'[v] = wpc[v] /\ wtask'[v] = wtask[v]
    /\ dropped \subseteq dropped'
    /\ \A x \in Tasks \ dropped' :
          /\ x \in userProc'[owner[x]] =>
                UserMark(w, x)' \/ (x \in userProc[owner[x]] /\ ~UserMark(w, x))
          /\ x \in processing' => SlotMark(w, x)' \/ (x \in processing /\ ~SlotMark(w, x))
    /\ \A x \in DOMAIN lease' \ dropped' :
          \/ lease'[x].worker = w /\ LeaseMark(w, x)'
          \/ /\ x \in DOMAIN lease /\ lease'[x].worker = lease[x].worker
             /\ ~(lease[x].worker = w /\ LeaseMark(w, x))

\* The requests of the API only free.
LEMMA FreesTask ==
    ASSUME TypeOK, QueueAssumption, NEW t \in Tasks,
           Submit(t) \/ SubmitError(t) \/ CancelRead(t) \/ CancelStep(t) \/ CancelError(t)
    PROVE  Frees
<1> USE DEF Frees, NoCommand, TypeOK, RedisTypeOK
<1>1. CASE CheckUser(t)
  BY <1>1 DEF CheckUser, Enqueue
<1>2. CASE CheckGlobal(t)
  BY <1>2 DEF CheckGlobal, Enqueue
<1>3. CASE SaveTask(t)
  BY <1>3 DEF SaveTask, Enqueue, HSetStatus
<1>4. CASE PushTask(t)
  BY <1>4 DEF PushTask, Enqueue, LPush
<1>5. CASE TagTask(t)
  BY <1>5 DEF TagTask, Enqueue
<1>6. CASE SubmitError(t)
  BY <1>6 DEF SubmitError, UseError
<1>7. CASE CancelRead(t)
  BY <1>7 DEF CancelRead, Cancel
<1>8. CASE CancelUnmarkUser(t)
  BY <1>8 DEF CancelUnmarkUser, Cancel, SRemUser
<1>9. CASE CancelUnmarkGlobal(t)
  BY <1>9 DEF CancelUnmarkGlobal, Cancel, SRemProcessing
<1>10. CASE CancelClearLease(t)
  BY <1>10 DEF CancelClearLease, Cancel, DelLease
<1>11. CASE CancelRemove(t)
  BY <1>11 DEF CancelRemove, Cancel, LRem
<1>12. CASE CancelSetStatus(t)
  BY <1>12 DEF CancelSetStatus, Cancel, HSetStatus
<1>13. CASE CancelError(t)
  BY <1>13 DEF CancelError, UseError
<1> QED
  BY <1>1, <1>2, <1>3, <1>4, <1>5, <1>6, <1>7, <1>8, <1>9, <1>10, <1>11, <1>12, <1>13
     DEF Submit, CancelStep

\* So do the renewals, the cleanups and signals.
LEMMA FreesWorker ==
    ASSUME TypeOK, QueueAssumption, NEW w \in Workers,
           \/ RenewalLoop(w) \/ RenewError(w) \/ CleanupLoop(w) \/ CleanupError(w)
           \/ Signal(w) \/ Exit(w)
    PROVE  Frees
<1> USE DEF Frees, NoCommand, TypeOK, RedisTypeOK
<1>1. CASE RenewRead(w)
  BY <1>1 DEF RenewRead, Renewal
<1>2. CASE RenewSet(w)
  <2>1. wtask[w] \in Tasks /\ wpc[w] \in {"run", "blocked", "finish"}
    BY <1>2 DEF RenewSet, Renewal, WorkerTypeOK
  <2> QED BY <1>2, <2>1 DEF RenewSet, Renewal, HSetLease, LeaseMark, LeasedPCs
<1>3. CASE RenewExpire(w)
  BY <1>3 DEF RenewExpire, Renewal, ExpireLease
<1>4. CASE RenewError(w)
  BY <1>4 DEF RenewError, UseError
<1>5. CASE Scan(w)
  BY <1>5 DEF Scan, Cleanup
<1>6. CASE ReadLease(w)
  BY <1>6 DEF ReadLease, Cleanup
<1>7. CASE HandleUnmarkUser(w)
  BY <1>7 DEF HandleUnmarkUser, Cleanup, SRemUser
<1>8. CASE HandleUnmarkGlobal(w)
  BY <1>8 DEF HandleUnmarkGlobal, Cleanup, SRemProcessing
<1>9. CASE HandleClearLease(w)
  BY <1>9 DEF HandleClearLease, Cleanup, DelLease
<1>10. CASE HandlePush(w)
  BY <1>10 DEF HandlePush, Cleanup, LPush
<1>11. CASE HandleSetStatus(w)
  BY <1>11 DEF HandleSetStatus, Cleanup, HSetStatus
<1>12. CASE CleanupError(w)
  BY <1>12 DEF CleanupError, UseError
<1>13. CASE Signal(w)
  BY <1>13 DEF Signal
<1>14. CASE Exit(w)
  BY <1>14 DEF Exit, EndCleanup
<1> QED
  BY <1>1, <1>2, <1>3, <1>4, <1>5, <1>6, <1>7, <1>8, <1>9, <1>10, <1>11, <1>12, <1>13, <1>14
     DEF RenewalLoop, CleanupLoop

\* The work loop moves.
LEMMA MovesWork ==
    ASSUME TypeOK, QueueAssumption, NEW w \in Workers,
           WorkLoop(w) \/ WorkError(w) \/ Crash(w)
    PROVE  Moves(w)
<1> USE DEF Moves, Work, NoCommand, UserMark, SlotMark, LeaseMark, UserMarkedPCs, MarkedPCs,
        LeasedPCs, RunPCs, TypeOK, RedisTypeOK, WorkerTypeOK
<1>1. CASE Pop(w)
  BY <1>1 DEF Pop, RPop
<1>2. CASE Recheck(w)
  BY <1>2 DEF Recheck, KeepTask
<1>3. CASE PutBack(w)
  BY <1>3 DEF PutBack, LPush, Release
<1>4. CASE MarkUser(w)
  BY <1>4 DEF MarkUser, SAddUser, KeepTask
<1>5. CASE MarkGlobal(w)
  BY <1>5 DEF MarkGlobal, SAddProcessing, KeepTask
<1>6. CASE TakeLease(w)
  BY <1>6 DEF TakeLease, HSetLease, KeepTask
<1>7. CASE BoundLease(w)
  BY <1>7 DEF BoundLease, ExpireLease, KeepTask
<1>8. CASE SetProcessing(w)
  BY <1>8 DEF SetProcessing, HSetStatus, KeepTask
<1>9. CASE Begin(w)
  BY <1>9 DEF Begin
<1>10. CASE Propagate(w)
  BY <1>10 DEF Propagate, KeepTask
<1>11. CASE Execute(w)
  BY <1>11 DEF Execute
<1>12. CASE CancelRenewal(w)
  BY <1>12 DEF CancelRenewal
<1>13. CASE AckUnmarkUser(w)
  BY <1>13 DEF AckUnmarkUser, SRemUser, KeepTask
<1>14. CASE AckUnmarkGlobal(w)
  BY <1>14 DEF AckUnmarkGlobal, SRemProcessing, KeepTask
<1>15. CASE AckClearLease(w)
  BY <1>15 DEF AckClearLease, DelLease, KeepTask
<1>16. CASE AckStatus(w)
  BY <1>16 DEF AckStatus, HSetStatus, KeepTask
<1>17. CASE AckDone(w)
  BY <1>17 DEF AckDone, SAddDone, Release
<1>18. CASE WorkError(w)
  BY <1>18 DEF WorkError, Release, Drop
<1>19. CASE Crash(w)
  BY <1>19 DEF Crash, Release, Drop
<1> QED
  BY <1>1, <1>2, <1>3, <1>4, <1>5, <1>6, <1>7, <1>8, <1>9, <1>10, <1>11, <1>12, <1>13, <1>14, <1>15, <1>16, <1>17, <1>18, <1>19
     DEF WorkLoop

\* Every step frees or moves.
LEMMA FreesOrMoves ==
    ASSUME TypeOK, QueueAssumption, [Next]_vars
    PROVE  Frees \/ \E w \in Workers : Moves(w)
<1>1. CASE UNCHANGED vars
  BY <1>1 DEF vars, Frees
<1>2. CASE \E b \in Batches : OpenBatch(b)
  BY <1>2 DEF OpenBatch, NoCommand, Frees
<1>3. CASE Tick
  <2>1. \A x \in DOMAIN lease : Aged(lease[x]).worker = lease[x].worker
    BY DEF TypeOK, RedisTypeOK, Leases, Aged
  <2>2. \A x \in DOMAIN lease' : x \in DOMAIN lease /\ lease'[x] = Aged(lease[x])
    BY <1>3 DEF Tick
  <2> QED BY <1>3, <2>1, <2>2 DEF Tick, Frees
<1> QED BY <1>1, <1>2, <1>3, FreesTask, FreesWorker, MovesWork DEF Next

\* A slot stays with a worker that stands for it.
LEMMA SlotsStep ==
    ASSUME TypeOK, QueueAssumption, SlotsMarked, [Next]_vars
    PROVE  SlotsMarked'
<1>1. CASE Frees
  <2> SUFFICES ASSUME NEW t \in Tasks \ dropped
               PROVE  /\ t \in userProc'[owner[t]] =>
                            \E w \in Workers : wtask'[w] = t /\ wpc'[w] \in UserMarkedPCs
                      /\ t \in processing' =>
                            \E w \in Workers : wtask'[w] = t /\ wpc'[w] \in MarkedPCs
    BY <1>1 DEF SlotsMarked, Frees
  <2>1. ASSUME t \in userProc'[owner[t]]
        PROVE  \E w \in Workers : wtask'[w] = t /\ wpc'[w] \in UserMarkedPCs
    <3>1. PICK w \in Workers : wtask[w] = t /\ wpc[w] \in UserMarkedPCs
      BY <1>1, <2>1 DEF SlotsMarked, Frees
    <3>2. wpc'[w] = wpc[w] /\ wtask'[w] = wtask[w]
      BY <1>1, <3>1 DEF Frees, UserMarkedPCs, HoldPCs, DequeuePCs, AckPCs
    <3> QED BY <3>1, <3>2
  <2>2. ASSUME t \in processing'
        PROVE  \E w \in Workers : wtask'[w] = t /\ wpc'[w] \in MarkedPCs
    <3>1. PICK w \in Workers : wtask[w] = t /\ wpc[w] \in MarkedPCs
      BY <1>1, <2>2 DEF SlotsMarked, Frees
    <3>2. wpc'[w] = wpc[w] /\ wtask'[w] = wtask[w]
      BY <1>1, <3>1 DEF Frees, MarkedPCs, HoldPCs, DequeuePCs, AckPCs
    <3> QED BY <3>1, <3>2
  <2> QED BY <2>1, <2>2
<1>2. ASSUME NEW w \in Workers, Moves(w)
      PROVE  SlotsMarked'
  <2> SUFFICES ASSUME NEW t \in Tasks \ dropped'
               PROVE  /\ t \in userProc'[owner[t]] =>
                            \E v \in Workers : wtask'[v] = t /\ wpc'[v] \in UserMarkedPCs
                      /\ t \in processing' =>
                            \E v \in Workers : wtask'[v] = t /\ wpc'[v] \in MarkedPCs
    BY DEF SlotsMarked
  <2>1. ASSUME t \in userProc'[owner[t]]
        PROVE  \E v \in Workers : wtask'[v] = t /\ wpc'[v] \in UserMarkedPCs
    <3>1. CASE UserMark(w, t)'
      BY <3>1 DEF UserMark
    <3>2. CASE ~UserMark(w, t)'
      <4>1. t \in Tasks \ dropped /\ t \in userProc[owner[t]] /\ ~UserMark(w, t)
        BY <1>2, <2>1, <3>2 DEF Moves
      <4>2. PICK v \in Workers : wtask[v] = t /\ wpc[v] \in UserMarkedPCs
        BY <4>1 DEF SlotsMarked
      <4>3. v # w
        BY <4>1, <4>2 DEF UserMark
      <4> QED BY <1>2, <4>2, <4>3 DEF Moves
    <3> QED BY <3>1, <3>2
  <2>2. ASSUME t \in processing'
        PROVE  \E v \in Workers : wtask'[v] = t /\ wpc'[v] \in MarkedPCs
    <3>1. CASE SlotMark(w, t)'
      BY <3>1 DEF SlotMark
    <3>2. CASE ~SlotMark(w, t)'
      <4>1. t \in Tasks \ dropped /\ t \in processing /\ ~SlotMark(w, t)
        BY <1>2, <2>2, <3>2 DEF Moves
      <4>2. PICK v \in Workers : wtask[v] = t /\ wpc[v] \in MarkedPCs
        BY <4>1 DEF SlotsMarked
      <4>3. v # w
        BY <4>1, <4>2 DEF SlotMark
      <4> QED BY <1>2, <4>2, <4>3 DEF Moves
    <3> QED BY <3>1, <3>2
  <2> QED BY <2>1, <2>2
<1> QED BY <1>1, <1>2, FreesOrMoves

\* A lease stays with a worker that stands for it.
LEMMA LeaseStep ==
    ASSUME TypeOK, QueueAssumption, LeaseHeld, [Next]_vars
    PROVE  LeaseHeld'
<1> DEFINE LeaseKept(t) ==
             wtask'[lease'[t].worker] = t /\ wpc'[lease'[t].worker] \in LeasedPCs
<1> USE DEF LeaseMark
<1>0. \A x \in DOMAIN lease : lease[x].worker \in Workers
  BY DEF TypeOK, RedisTypeOK, Leases
<1>1. CASE Frees
  <2> SUFFICES ASSUME NEW t \in DOMAIN lease' \ dropped'
               PROVE  LeaseKept(t)
    BY DEF LeaseHeld
  <2>1. dropped' = dropped
    BY <1>1 DEF Frees
  <2>2. lease'[t].worker \in Workers /\ LeaseMark(lease'[t].worker, t)
    <3>1. CASE lease'[t].worker \in Workers /\ LeaseMark(lease'[t].worker, t)
      BY <3>1
    <3>2. CASE t \in DOMAIN lease /\ lease'[t].worker = lease[t].worker
      BY <1>0, <2>1, <3>2 DEF LeaseHeld
    <3> QED BY <1>1, <3>1, <3>2 DEF Frees
  <2>3. /\ wpc'[lease'[t].worker] = wpc[lease'[t].worker]
        /\ wtask'[lease'[t].worker] = wtask[lease'[t].worker]
    BY <1>1, <2>2 DEF Frees, LeasedPCs
  <2> QED BY <2>2, <2>3
<1>2. ASSUME NEW w \in Workers, Moves(w)
      PROVE  LeaseHeld'
  <2> SUFFICES ASSUME NEW t \in DOMAIN lease' \ dropped'
               PROVE  LeaseKept(t)
    BY DEF LeaseHeld
  <2>1. CASE lease'[t].worker = w /\ LeaseMark(w, t)'
    BY <2>1
  <2>2. CASE /\ t \in DOMAIN lease /\ lease'[t].worker = lease[t].worker
             /\ ~(lease[t].worker = w /\ LeaseMark(w, t))
    <3>1. LeaseMark(lease[t].worker, t) /\ lease[t].worker \in Workers
      BY <1>0, <1>2, <2>2 DEF LeaseHeld, Moves
    <3>2. lease[t].worker # w
      BY <2>2, <3>1
    <3>3. /\ wpc'[lease[t].worker] = wpc[lease[t].worker]
          /\ wtask'[lease[t].worker] = wtask[lease[t].worker]
      BY <1>2, <3>1, <3>2 DEF Moves
    <3> QED BY <2>2, <3>1, <3>3
  <2> QED BY <1>2, <2>1, <2>2 DEF Moves
<1> QED BY <1>1, <1>2, FreesOrMoves

\* Who occupies a slot or has a lease stands where it will be released.
LEMMA SlotInvariant == Spec => [](TypeOK /\ SlotsMarked /\ LeaseHeld)
<1> USE QueueAssumption
<1>1. Init => SlotsMarked /\ LeaseHeld
  BY DEF Init, SlotsMarked, LeaseHeld, QueueAssumption
<1>2. TypeOK /\ SlotsMarked /\ LeaseHeld /\ [Next]_vars => SlotsMarked' /\ LeaseHeld'
  BY SlotsStep, LeaseStep
<1> QED BY <1>1, <1>2, TypeCorrect, PTL DEF Spec

\* No slot leaks: without a crash or an error, whatever is in qa:processing or
\* qa:user_processing is in the hands of a worker (SADD and SREM of dequeue_task,
\* ack_task, cancel_task and _handle_expired_task).
THEOREM SlotsAreBacked == Spec => []SlotsBacked
<1>1. SlotsMarked => SlotsBacked
  BY DEF SlotsMarked, SlotsBacked, Held
<1> QED BY <1>1, SlotInvariant, PTL

\* No lease outlives its holder: without a crash or an error, a lease key names
\* a worker that still has the task (HSET and DELETE of the visibility keys).
THEOREM LeasesNameHolders == Spec => []LeaseNamesHolder
<1>1. TypeOK /\ LeaseHeld => LeaseNamesHolder
  BY DEF LeaseHeld, LeaseNamesHolder
<1> QED BY <1>1, SlotInvariant, PTL
-----------------------------------------------------------------------------
\* How far the user limit can be exceeded by workers that check it side by side,
\* and how far a batch can have gone when one of its tasks is refused.

\* The workers between the check of the limit of u and the SADD it guards.
Entering(u) == {w \in Workers : wpc[w] = "markUser" /\ owner[wtask[w]] = u}

SlotsFinite == \A u \in Users : IsFiniteSet(userProc[u])

\* No user's set grows and no worker comes to the SADD.
Shrinks ==
    /\ \A u \in Users : userProc'[u] \subseteq userProc[u]
    /\ \A w \in Workers : wpc'[w] = "markUser" => wpc[w] = "markUser" /\ wtask'[w] = wtask[w]

\* What BatchIsPrefix needs to be inductive: a task that is in belongs to the
\* set of its batch, and its successor starts only then.
BatchChained ==
    \A t \in Tasks : batch[t] # NoBatch =>
        /\ epc[t] = "in" => t \in members[batch[t]]
        /\ epc[t] # "new" /\ follows[t] # NoTask => epc[follows[t]] = "in"

\* The enqueues and cancels shrink, and only an enqueue moves a batch.
LEMMA ApiShrinks ==
    ASSUME TypeOK, NEW t \in Tasks,
           \/ Submit(t) \/ SubmitError(t)
           \/ CancelRead(t) \/ CancelStep(t) \/ CancelError(t)
    PROVE  /\ Shrinks
           /\ Submit(t) \/ SubmitError(t) \/ UNCHANGED <<epc, members>>
<1> USE DEF Shrinks, NoCommand, TypeOK, RedisTypeOK
<1>1. CASE CheckUser(t)
  BY <1>1 DEF CheckUser, Enqueue, Submit
<1>2. CASE CheckGlobal(t)
  BY <1>2 DEF CheckGlobal, Enqueue, Submit
<1>3. CASE SaveTask(t)
  BY <1>3 DEF SaveTask, Enqueue, HSetStatus, Submit
<1>4. CASE PushTask(t)
  BY <1>4 DEF PushTask, Enqueue, LPush, Submit
<1>5. CASE TagTask(t)
  BY <1>5 DEF TagTask, Enqueue, Submit
<1>6. CASE SubmitError(t)
  BY <1>6 DEF SubmitError, UseError
<1>7. CASE CancelRead(t)
  BY <1>7 DEF CancelRead, Cancel
<1>8. CASE CancelUnmarkUser(t)
  BY <1>8 DEF CancelUnmarkUser, Cancel, SRemUser
<1>9. CASE CancelUnmarkGlobal(t)
  BY <1>9 DEF CancelUnmarkGlobal, Cancel, SRemProcessing
<1>10. CASE CancelClearLease(t)
  BY <1>10 DEF CancelClearLease, Cancel, DelLease
<1>11. CASE CancelRemove(t)
  BY <1>11 DEF CancelRemove, Cancel, LRem
<1>12. CASE CancelSetStatus(t)
  BY <1>12 DEF CancelSetStatus, Cancel, HSetStatus
<1>13. CASE CancelError(t)
  BY <1>13 DEF CancelError, UseError
<1> QED
  BY <1>1, <1>2, <1>3, <1>4, <1>5, <1>6, <1>7, <1>8, <1>9, <1>10, <1>11, <1>12, <1>13
     DEF Submit, CancelStep

\* So do the renewals, the cleanups and the signals.
LEMMA WorkerShrinks ==
    ASSUME TypeOK, NEW w \in Workers,
           \/ RenewalLoop(w) \/ RenewError(w) \/ CleanupLoop(w) \/ CleanupError(w)
           \/ Signal(w) \/ Exit(w)
    PROVE  Shrinks /\ UNCHANGED <<epc, members>>
<1> USE DEF Shrinks, NoCommand, TypeOK, RedisTypeOK, WorkerTypeOK
<1>1. CASE RenewRead(w)
  BY <1>1 DEF RenewRead, Renewal
<1>2. CASE RenewSet(w)
  BY <1>2 DEF RenewSet, Renewal, HSetLease
<1>3. CASE RenewExpire(w)
  BY <1>3 DEF RenewExpire, Renewal, ExpireLease
<1>4. CASE RenewError(w)
  BY <1>4 DEF RenewError, UseError
<1>5. CASE Scan(w)
  BY <1>5 DEF Scan, Cleanup
<1>6. CASE ReadLease(w)
  BY <1>6 DEF ReadLease, Cleanup
<1>7. CASE HandleUnmarkUser(w)
  BY <1>7 DEF HandleUnmarkUser, Cleanup, SRemUser
<1>8. CASE HandleUnmarkGlobal(w)
  BY <1>8 DEF HandleUnmarkGlobal, Cleanup, SRemProcessing
<1>9. CASE HandleClearLease(w)
  BY <1>9 DEF HandleClearLease, Cleanup, DelLease
<1>10. CASE HandlePush(w)
  BY <1>10 DEF HandlePush, Cleanup, LPush
<1>11. CASE HandleSetStatus(w)
  BY <1>11 DEF HandleSetStatus, Cleanup, HSetStatus
<1>12. CASE CleanupError(w)
  BY <1>12 DEF CleanupError, UseError
<1>13. CASE Signal(w)
  BY <1>13 DEF Signal
<1>14. CASE Exit(w)
  BY <1>14 DEF Exit, EndCleanup
<1> QED
  BY <1>1, <1>2, <1>3, <1>4, <1>5, <1>6, <1>7, <1>8, <1>9, <1>10, <1>11, <1>12, <1>13, <1>14
     DEF RenewalLoop, CleanupLoop

\* The work loop shrinks too, but for the check that passes and the SADD.
LEMMA WorkShrinks ==
    ASSUME TypeOK, NEW w \in Workers, WorkLoop(w) \/ WorkError(w) \/ Crash(w)
    PROVE  /\ Shrinks \/ MarkUser(w) \/ (Recheck(w) /\ UnderUserLimit(wtask[w]))
           /\ UNCHANGED <<epc, members>>
<1> USE DEF Shrinks, Work, NoCommand, TypeOK, RedisTypeOK, WorkerTypeOK
<1>1. CASE Pop(w)
  BY <1>1 DEF Pop, RPop
<1>2. CASE Recheck(w)
  BY <1>2 DEF Recheck, KeepTask
<1>3. CASE PutBack(w)
  BY <1>3 DEF PutBack, LPush, Release
<1>4. CASE MarkUser(w)
  BY <1>4 DEF MarkUser, KeepTask
<1>5. CASE MarkGlobal(w)
  BY <1>5 DEF MarkGlobal, SAddProcessing, KeepTask
<1>6. CASE TakeLease(w)
  BY <1>6 DEF TakeLease, HSetLease, KeepTask
<1>7. CASE BoundLease(w)
  BY <1>7 DEF BoundLease, ExpireLease, KeepTask
<1>8. CASE SetProcessing(w)
  BY <1>8 DEF SetProcessing, HSetStatus, KeepTask
<1>9. CASE Begin(w)
  BY <1>9 DEF Begin
<1>10. CASE Propagate(w)
  BY <1>10 DEF Propagate, KeepTask
<1>11. CASE Execute(w)
  BY <1>11 DEF Execute
<1>12. CASE CancelRenewal(w)
  BY <1>12 DEF CancelRenewal
<1>13. CASE AckUnmarkUser(w)
  BY <1>13 DEF AckUnmarkUser, SRemUser, KeepTask
<1>14. CASE AckUnmarkGlobal(w)
  BY <1>14 DEF AckUnmarkGlobal, SRemProcessing, KeepTask
<1>15. CASE AckClearLease(w)
  BY <1>15 DEF AckClearLease, DelLease, KeepTask
<1>16. CASE AckStatus(w)
  BY <1>16 DEF AckStatus, HSetStatus, KeepTask
<1>17. CASE AckDone(w)
  BY <1>17 DEF AckDone, SAddDone, Release
<1>18. CASE WorkError(w)
  BY <1>18 DEF WorkError, Release, Drop
<1>19. CASE Crash(w)
  BY <1>19 DEF Crash, Release, Drop
<1> QED
  BY <1>1, <1>2, <1>3, <1>4, <1>5, <1>6, <1>7, <1>8, <1>9, <1>10, <1>11, <1>12, <1>13, <1>14, <1>15, <1>16, <1>17, <1>18, <1>19
     DEF WorkLoop

\* A step shrinks, or is the check or the SADD of one worker.
LEMMA BoundSteps ==
    ASSUME TypeOK, [Next]_vars
    PROVE  /\ \/ Shrinks
              \/ \E w \in Workers : MarkUser(w) \/ (Recheck(w) /\ UnderUserLimit(wtask[w]))
           /\ \/ \E t \in Tasks : Submit(t) \/ SubmitError(t)
              \/ UNCHANGED <<epc, members>>
<1>1. CASE UNCHANGED vars
  BY <1>1 DEF vars, Shrinks
<1>2. CASE \E b \in Batches : OpenBatch(b)
  BY <1>2 DEF OpenBatch, NoCommand, Shrinks
<1>3. CASE Tick
  BY <1>3 DEF Tick, Shrinks
<1>4. ASSUME NEW t \in Tasks,
             \/ Submit(t) \/ SubmitError(t)
             \/ CancelRead(t) \/ CancelStep(t) \/ CancelError(t)
      PROVE  Shrinks /\ (Submit(t) \/ SubmitError(t) \/ UNCHANGED <<epc, members>>)
  BY <1>4, ApiShrinks
<1>5. ASSUME NEW w \in Workers,
             \/ RenewalLoop(w) \/ RenewError(w) \/ CleanupLoop(w) \/ CleanupError(w)
             \/ Signal(w) \/ Exit(w)
      PROVE  Shrinks /\ UNCHANGED <<epc, members>>
  BY <1>5, WorkerShrinks
<1>6. ASSUME NEW w \in Workers, WorkLoop(w) \/ WorkError(w) \/ Crash(w)
      PROVE  /\ Shrinks \/ MarkUser(w) \/ (Recheck(w) /\ UnderUserLimit(wtask[w]))
             /\ UNCHANGED <<epc, members>>
  BY <1>6, WorkShrinks
<1> QED BY <1>1, <1>2, <1>3, <1>4, <1>5, <1>6 DEF Next

\* The sums of UserOvershootBounded are sums of natural numbers.
LEMMA EnteringFinite ==
    ASSUME NEW S \in SUBSET Workers
    PROVE  /\ IsFiniteSet(S) /\ Cardinality(S) \in Nat
           /\ Cardinality(Workers) \in Nat /\ Cardinality(S) <= Cardinality(Workers)
BY DeploymentAssumption, FS_Subset, FS_CardinalityType DEF DeploymentAssumption

\* Shrinking keeps the sum, the SADD moves one from the right term to the left,
\* and the check raises the right term only when the left is below the limit.
LEMMA OvershootStep ==
    ASSUME TypeOK, QueueAssumption, SlotsFinite, UserOvershootBounded, [Next]_vars
    PROVE  SlotsFinite' /\ UserOvershootBounded'
<1> SUFFICES ASSUME NEW u \in Users
             PROVE  /\ IsFiniteSet(userProc'[u])
                    /\ Cardinality(userProc'[u]) + Cardinality(Entering(u)')
                         <= UserLimit - 1 + Cardinality(Workers)
  BY DEF SlotsFinite, UserOvershootBounded, Entering
<1>1. /\ IsFiniteSet(userProc[u]) /\ Cardinality(userProc[u]) \in Nat
      /\ Entering(u) \subseteq Workers /\ Entering(u)' \subseteq Workers
  BY FS_CardinalityType DEF SlotsFinite, Entering
<1>2. /\ IsFiniteSet(Entering(u)) /\ Cardinality(Entering(u)) \in Nat
      /\ IsFiniteSet(Entering(u)') /\ Cardinality(Entering(u)') \in Nat
      /\ Cardinality(Entering(u)') <= Cardinality(Workers)
      /\ Cardinality(Workers) \in Nat
  BY <1>1, EnteringFinite
<1>3. Cardinality(userProc[u]) + Cardinality(Entering(u))
        <= UserLimit - 1 + Cardinality(Workers)
  BY DEF UserOvershootBounded, Entering
<1>4. UserLimit \in Nat \ {0}
  BY DEF QueueAssumption
<1>5. CASE Shrinks
  <2>1. userProc'[u] \subseteq userProc[u] /\ Entering(u)' \subseteq Entering(u)
    BY <1>5 DEF Shrinks, Entering
  <2>2. /\ IsFiniteSet(userProc'[u]) /\ Cardinality(userProc'[u]) \in Nat
        /\ Cardinality(userProc'[u]) <= Cardinality(userProc[u])
    BY <1>1, <2>1, FS_Subset, FS_CardinalityType
  <2>3. Cardinality(Entering(u)') <= Cardinality(Entering(u))
    BY <1>2, <2>1, FS_Subset
  <2> QED BY <1>1, <1>2, <1>3, <1>4, <2>2, <2>3
<1>6. ASSUME NEW w \in Workers, MarkUser(w)
      PROVE  /\ IsFiniteSet(userProc'[u])
             /\ Cardinality(userProc'[u]) + Cardinality(Entering(u)')
                  <= UserLimit - 1 + Cardinality(Workers)
  <2>1. wtask[w] \in Tasks /\ owner[wtask[w]] \in Users
    BY <1>6 DEF MarkUser, Work, TypeOK, WorkerTypeOK, QueueAssumption
  <2>2. CASE owner[wtask[w]] # u
    <3>1. userProc'[u] = userProc[u]
      BY <1>6, <2>1, <2>2 DEF MarkUser, SAddUser, TypeOK, RedisTypeOK
    <3>2. Entering(u)' = Entering(u)
      BY <1>6, <2>2 DEF MarkUser, Work, KeepTask, Entering, TypeOK, WorkerTypeOK
    <3> QED BY <1>1, <1>3, <3>1, <3>2
  <2>3. CASE owner[wtask[w]] = u
    <3>1. userProc'[u] = userProc[u] \cup {wtask[w]}
      BY <1>6, <2>1, <2>3 DEF MarkUser, SAddUser, TypeOK, RedisTypeOK
    <3>2. Entering(u)' = Entering(u) \ {w} /\ w \in Entering(u)
      BY <1>6, <2>3 DEF MarkUser, Work, KeepTask, Entering, TypeOK, WorkerTypeOK
    <3>3. /\ IsFiniteSet(userProc'[u]) /\ Cardinality(userProc'[u]) \in Nat
          /\ Cardinality(userProc'[u]) <= Cardinality(userProc[u]) + 1
      <4>1. CASE wtask[w] \in userProc[u]
        <5>1. userProc'[u] = userProc[u]
          BY <3>1, <4>1
        <5> QED BY <1>1, <5>1
      <4>2. CASE wtask[w] \notin userProc[u]
        <5>1. /\ IsFiniteSet(userProc'[u])
              /\ Cardinality(userProc'[u]) = Cardinality(userProc[u]) + 1
          BY <1>1, <3>1, <4>2, FS_AddElement
        <5> QED BY <1>1, <5>1
      <4> QED BY <4>1, <4>2
    <3>4. Cardinality(Entering(u)') = Cardinality(Entering(u)) - 1
      BY <1>2, <3>2, FS_RemoveElement
    <3> QED BY <1>1, <1>2, <1>3, <1>4, <3>3, <3>4
  <2> QED BY <2>2, <2>3
<1>7. ASSUME NEW w \in Workers, Recheck(w), UnderUserLimit(wtask[w])
      PROVE  /\ IsFiniteSet(userProc'[u])
             /\ Cardinality(userProc'[u]) + Cardinality(Entering(u)')
                  <= UserLimit - 1 + Cardinality(Workers)
  <2>1. userProc' = userProc
    BY <1>7 DEF Recheck, NoCommand
  <2>2. CASE owner[wtask[w]] # u
    <3>1. Entering(u)' = Entering(u)
      BY <1>7, <2>2 DEF Recheck, Work, KeepTask, Entering, TypeOK, WorkerTypeOK
    <3> QED BY <1>1, <1>3, <2>1, <3>1
  <2>3. CASE owner[wtask[w]] = u
    <3>1. Cardinality(userProc[u]) <= UserLimit - 1
      BY <1>1, <1>4, <1>7, <2>3 DEF UnderUserLimit
    <3> QED BY <1>1, <1>2, <1>4, <2>1, <3>1
  <2> QED BY <2>2, <2>3
<1> QED BY <1>5, <1>6, <1>7, BoundSteps

\* The user limit can be exceeded, by no more than one task per other worker,
\* whatever is acknowledged, cancelled, cleaned up or lost in between (the SCARD
\* of _check_user_limit and the SADD of dequeue_task are separate commands).
THEOREM OvershootIsBounded == Spec => []UserOvershootBounded
<1> USE QueueAssumption
<1>1. Init => SlotsFinite /\ UserOvershootBounded
  <2> SUFFICES ASSUME Init, NEW u \in Users
               PROVE  /\ IsFiniteSet(userProc[u])
                      /\ Cardinality(userProc[u]) + Cardinality(Entering(u))
                           <= UserLimit - 1 + Cardinality(Workers)
    BY DEF SlotsFinite, UserOvershootBounded, Entering
  <2>1. userProc[u] = {} /\ Entering(u) = {}
    BY DEF Init, Entering
  <2>2. Cardinality(Workers) \in Nat /\ UserLimit \in Nat \ {0}
    BY DeploymentAssumption, FS_CardinalityType DEF DeploymentAssumption, QueueAssumption
  <2> QED BY <2>1, <2>2, FS_EmptySet
<1>2. TypeOK /\ SlotsFinite /\ UserOvershootBounded /\ [Next]_vars
         => SlotsFinite' /\ UserOvershootBounded'
  BY OvershootStep
<1> QED BY <1>1, <1>2, TypeCorrect, PTL DEF Spec

\* A batch goes on only from a task that is in, and a task that is in stays in.
LEMMA BatchStep ==
    ASSUME TypeOK, QueueAssumption, BatchChained, [Next]_vars
    PROVE  BatchChained'
<1>1. CASE UNCHANGED <<epc, members>>
  BY <1>1 DEF BatchChained
<1>2. ASSUME NEW t \in Tasks, Submit(t) \/ SubmitError(t)
      PROVE  BatchChained'
  <2>1. /\ \A x \in Tasks \ {t} : epc'[x] = epc[x]
        /\ \A b \in Batches : members[b] \subseteq members'[b]
        /\ epc[t] # "in"
        /\ epc'[t] = "in" => batch[t] = NoBatch \/ t \in members'[batch[t]]
        /\ epc[t] = "new" => MayStart(t)
    <3> USE DEF TypeOK, ApiTypeOK, QueueAssumption
    <3>1. CASE CheckUser(t)
      BY <3>1 DEF CheckUser, Enqueue
    <3>2. CASE CheckGlobal(t)
      BY <3>2 DEF CheckGlobal, Enqueue
    <3>3. CASE SaveTask(t)
      BY <3>3 DEF SaveTask, Enqueue
    <3>4. CASE PushTask(t)
      BY <3>4 DEF PushTask, Enqueue
    <3>5. CASE TagTask(t)
      BY <3>5 DEF TagTask, Enqueue
    <3>6. CASE SubmitError(t)
      BY <3>6 DEF SubmitError
    <3> QED BY <1>2, <3>1, <3>2, <3>3, <3>4, <3>5, <3>6 DEF Submit
  <2> SUFFICES ASSUME NEW x \in Tasks, batch[x] # NoBatch
               PROVE  /\ epc'[x] = "in" => x \in members'[batch[x]]
                      /\ epc'[x] # "new" /\ follows[x] # NoTask => epc'[follows[x]] = "in"
    BY DEF BatchChained
  <2>2. batch[x] \in Batches /\ (follows[x] # NoTask => follows[x] \in Tasks)
    BY DEF QueueAssumption
  <2>3. epc'[x] = "in" => x \in members'[batch[x]]
    BY <2>1, <2>2 DEF BatchChained
  <2>4. ASSUME epc'[x] # "new", follows[x] # NoTask
        PROVE  epc[follows[x]] = "in"
    BY <2>1, <2>4 DEF BatchChained, MayStart
  <2> QED BY <2>1, <2>2, <2>3, <2>4
<1> QED BY <1>1, <1>2, BoundSteps

\* The tasks of a batch that exist are a prefix of its symbol list, and those
\* before the last are in the queue's books: a rejection or an error in the
\* middle leaves no gap (create_batch calls enqueue_task symbol by symbol).
THEOREM BatchesArePrefixes == Spec => []BatchIsPrefix
<1> USE QueueAssumption
<1>1. Init => BatchChained
  BY DEF Init, BatchChained
<1>2. TypeOK /\ BatchChained /\ [Next]_vars => BatchChained'
  BY BatchStep
<1>3. BatchChained => BatchIsPrefix
  BY DeploymentAssumption
     DEF BatchChained, BatchIsPrefix, Pushed, QueueAssumption, DeploymentAssumption
<1> QED BY <1>1, <1>2, <1>3, TypeCorrect, PTL DEF Spec
=============================================================================
