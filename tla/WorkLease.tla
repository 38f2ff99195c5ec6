------------------------------ MODULE WorkLease -------------------------------
(***************************************************************************)
(* What the work queue promises of a task, whatever statements, sweeps and *)
(* browsers it takes: a task is taken again and again until the one that   *)
(* took it last finishes it, it is given up only after MaxTries, and       *)
(* finished or stopped is for good.  Tasks move independently and several  *)
(* may move at once.                                                       *)
(***************************************************************************)
EXTENDS Integers

CONSTANTS
    Tasks,
    MaxTries   \* takes of a task before it may be given up

VARIABLE task  \* of each task its state, the tries since its last start, takes ever, and whose result it has

States == {"absent", "queued", "claimed", "completed", "failed", "canceled"}

Task == [state : States, tries : Nat, takes : Nat, result : Nat]

Init == task = [t \in Tasks |-> [state |-> "absent", tries |-> 0, takes |-> 0, result |-> 0]]

-----------------------------------------------------------------------------
(* How a task moves from x to y.                                           *)

\* A new task, or one that was given up and starts over.
Offered(x, y) ==
    /\ x.state \in {"absent", "failed"}
    /\ y = [state |-> "queued", tries |-> 0, takes |-> x.takes, result |-> x.result]

Taken(x, y) ==
    /\ x.state = "queued"
    /\ y = [state |-> "claimed", tries |-> x.tries + 1, takes |-> x.takes + 1, result |-> x.result]

\* The browser releases it, reports an error, or has not been heard from.
GivenBack(x, y) == x.state = "claimed" /\ y = [x EXCEPT !.state = "queued"]

GivenUp(x, y) ==
    /\ x.state = "claimed" /\ x.tries >= MaxTries
    /\ y = [x EXCEPT !.state = "failed"]

\* The result is that of the last take.
Finished(x, y) ==
    /\ x.state = "claimed"
    /\ y = [state |-> "completed", tries |-> x.tries, takes |-> x.takes, result |-> x.takes]

Stopped(x, y) ==
    /\ x.state \in {"queued", "claimed", "failed"}
    /\ y = [x EXCEPT !.state = "canceled"]

Moves(x, y) ==
    \/ Offered(x, y) \/ Taken(x, y) \/ GivenBack(x, y) \/ GivenUp(x, y)
    \/ Finished(x, y) \/ Stopped(x, y)

Next ==
    /\ task' \in [Tasks -> Task]
    /\ \A t \in Tasks : task'[t] = task[t] \/ Moves(task[t], task'[t])

Spec == Init /\ [][Next]_task
=============================================================================
