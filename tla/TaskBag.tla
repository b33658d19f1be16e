------------------------------ MODULE TaskBag ------------------------------
(***************************************************************************)
(* What a pool of worker processes that share one queue promises: every     *)
(* task is taken by at most one worker, and it is finished by the worker    *)
(* that took it or by nobody.  It does not promise that every task is       *)
(* taken.                                                                  *)
(***************************************************************************)
CONSTANTS
  Tasks,      \* what the parent puts
  Workers,
  NoTask      \* what a worker that holds no task holds

VARIABLES
  todo,       \* tasks nobody has taken
  held,       \* the task each worker is at
  finished    \* tasks that are done

vars == <<todo, held, finished>>

Init ==
  /\ todo = Tasks
  /\ held = [w \in Workers |-> NoTask]
  /\ finished = {}

Take(w, t) ==
  /\ held[w] = NoTask /\ t \in todo
  /\ todo' = todo \ {t}
  /\ held' = [held EXCEPT ![w] = t]
  /\ UNCHANGED finished

Finish(w) ==
  /\ held[w] # NoTask
  /\ finished' = finished \union {held[w]}
  /\ held' = [held EXCEPT ![w] = NoTask]
  /\ UNCHANGED todo

\* The worker dies over its task.
Drop(w) ==
  /\ held[w] # NoTask
  /\ held' = [held EXCEPT ![w] = NoTask]
  /\ UNCHANGED <<todo, finished>>

Next == \E w \in Workers : Finish(w) \/ Drop(w) \/ \E t \in Tasks : Take(w, t)

Spec == Init /\ [][Next]_vars
=============================================================================
