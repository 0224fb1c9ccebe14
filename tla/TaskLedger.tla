----------------------------- MODULE TaskLedger -----------------------------
(***************************************************************************)
(* What the queue promises about one task, seen from outside: where its id *)
(* is.  A task waits, is held by one worker at a time, and ends finished,  *)
(* withdrawn by its owner, or lost with the worker that held it.  Only the *)
(* expiry path ends the promise: a task it pushes again may be delivered   *)
(* any number of times.                                                    *)
(***************************************************************************)
CONSTANT Tasks

VARIABLE place

Places == {"unsent", "waiting", "held", "finished", "withdrawn", "lost",
           "repeated"}

TypeOK == place \in [Tasks -> Places]

Init == place = [t \in Tasks |-> "unsent"]

Move(t, from, to) == place[t] = from /\ place' = [place EXCEPT ![t] = to]

Send(t)     == Move(t, "unsent", "waiting")
Take(t)     == Move(t, "waiting", "held")
PutBack(t)  == Move(t, "held", "waiting")
Finish(t)   == Move(t, "held", "finished")
Withdraw(t) == Move(t, "waiting", "withdrawn")
Lose(t)     == Move(t, "held", "lost")
Repeat(t)   == /\ place[t] # "unsent"
               /\ place' = [place EXCEPT ![t] = "repeated"]

Next == \E t \in Tasks :
    /\ place'[t] # place[t]
    /\ \/ Send(t) \/ Take(t) \/ PutBack(t) \/ Finish(t)
       \/ Withdraw(t) \/ Lose(t) \/ Repeat(t)

Spec == Init /\ [][Next]_place
=============================================================================
