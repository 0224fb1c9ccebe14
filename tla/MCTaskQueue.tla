---------------------------- MODULE MCTaskQueue ----------------------------
(***************************************************************************)
(* Small instances of TaskQueue for TLC.                                   *)
(***************************************************************************)
EXTENDS TaskQueueClaims, TLC

CONSTANTS t1, t2, t3, u1, u2, w1, w2, b1

NoBatches    == {}
OneUser      == [t \in Tasks |-> u1]
TwoUsers     == [t \in Tasks |-> IF t = t1 THEN u1 ELSE u2]
AllSingle    == [t \in Tasks |-> NoBatch]
NoneBefore   == [t \in Tasks |-> NoTask]
InOneBatch   == [t \in Tasks |-> b1]
ChainedBatch == [t \in Tasks |-> IF t = t2 THEN t1 ELSE IF t = t3 THEN t2 ELSE NoTask]

\* Workers that neither clean up, renew nor are stopped are interchangeable.
WorkerSymmetry == Permutations(Workers)
============================================================================
