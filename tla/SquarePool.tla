----------------------------- MODULE SquarePool -----------------------------
(***************************************************************************)
(* speedup/main6.py: a pool of processes blackens number_of_task squares    *)
(* along the diagonal of a picture in shared memory, one square a task.     *)
(* The picture is the set of its black pixels <<w, h>>: the parent copied   *)
(* it into the shared array before, in a loop of its own, and the jobs      *)
(* write nothing but black.                                                *)
(***************************************************************************)
EXTENDS Integers, Sequences, SequencesExt

CONSTANTS
  Sizes,                 \* bound: sizes <<width, height>> of light.jpg
  Side,                  \* side of a square, 100 in the code
  number_of_task,        \* 3 in the code
  number_of_processes    \* mp.cpu_count()

ASSUME PoolAssumption ==
  /\ Sizes \subseteq (Nat \ {0}) \X (Nat \ {0})
  /\ Side \in Nat \ {0} /\ number_of_task \in Nat
  /\ number_of_processes \in Nat \ {0}

Workers == 1 .. number_of_processes

\* Mutant: main puts the tasks within the loop over the processes.
TaskListPerProcess ==
  [n \in 1 .. number_of_task * number_of_processes |->
     LET i == (n - 1) % number_of_task IN [start |-> i * Side, end |-> (i + 1) * Side]]

\* What main puts, in this order.
TaskList ==
  [n \in 1 .. number_of_task |-> [start |-> (n - 1) * Side, end |-> n * Side]]
Tasks == {TaskList[n] : n \in DOMAIN TaskList}

VARIABLES
  size,       \* <<width, height>> of the picture
  black,      \* pixels the workers have blackened
  buffer, pipe, pc, task,   \* the queue and the pool, see TaskQueue
  at,         \* pixels of its square each worker has visited
  shown       \* main has joined the workers and shows the picture

poolVars == <<buffer, pipe, pc, task>>
vars     == <<size, black, poolVars, at, shown>>

INSTANCE TaskQueue

TypeOK ==
  /\ size \in Sizes
  /\ black \subseteq (0 .. size[1] - 1) \X (0 .. size[2] - 1)
  /\ buffer \in Seq(Tasks) /\ pipe \in Seq(Tasks)
  /\ pc \in [Workers -> {"get", "poll", "square", "exited", "crashed"}]
  /\ task \in [Workers -> Tasks \union {NoTask}]
  /\ at \in [Workers -> 0 .. Side * Side]
  /\ shown \in BOOLEAN

Init ==
  /\ size \in Sizes
  /\ black = {}
  /\ buffer = TaskList /\ pipe = <<>>
  /\ pc = [w \in Workers |-> "get"]
  /\ task = [w \in Workers |-> NoTask]
  /\ at = [w \in Workers |-> 0]
  /\ shown = FALSE

-----------------------------------------------------------------------------
Feeder == Feed /\ UNCHANGED <<size, black, at, shown>>

\* Mutant: except Queue.Empty passes.
OnEmptyRetries == "get"

\* except Queue.Empty: break.
OnEmpty == "exited"

GetTask(v) ==
  /\ \/ Acquire(v, OnEmpty) /\ UNCHANGED at
     \/ PollEmpty(v, OnEmpty) /\ UNCHANGED at
     \/ Receive(v, "square") /\ at' = [at EXCEPT ![v] = 0]
  /\ UNCHANGED <<size, black, shown>>

\* Pixel n of the square of a task: columns from the first, each from its top.
PixelOf(t, n) == <<t.start + (n \div Side), t.start + (n % Side)>>

\* Mutant: the loops end a pixel early.
LastTurnEarly == Side * Side - 2

\* Mutant: the loops end a pixel late.
LastTurnLate == Side * Side

\* The pixel the loops end with.
LastTurn == Side * Side - 1

\* One turn of the pixel loop of do_job.  A pixel outside the picture raises
\* IndexError, which ends the worker over its task.
SetPixel(v) ==
  LET p == PixelOf(task[v], at[v])
  IN  /\ pc[v] = "square"
      /\ IF p[1] < size[1] /\ p[2] < size[2]
         THEN /\ black' = black \union {p}
              /\ pc' = [pc EXCEPT ![v] = IF at[v] = LastTurn THEN "get" ELSE "square"]
         ELSE /\ pc' = [pc EXCEPT ![v] = "crashed"]
              /\ UNCHANGED black
      /\ at' = [at EXCEPT ![v] = @ + 1]
      /\ UNCHANGED <<size, buffer, pipe, task, shown>>

\* main has joined every worker.
Show ==
  /\ Joined /\ ~ shown
  /\ shown' = TRUE
  /\ UNCHANGED <<size, black, poolVars, at>>

Worker(v) == GetTask(v) \/ SetPixel(v)

Next == Feeder \/ Show \/ \E v \in Workers : Worker(v)

\* The operating system schedules every process and the feeder thread.
Spec ==
  /\ Init /\ [][Next]_vars
  /\ WF_vars(Feeder) /\ WF_vars(Show)
  /\ \A v \in Workers : WF_vars(Worker(v))

-----------------------------------------------------------------------------
(* Properties                                                              *)

Square(t) == (t.start .. t.end - 1) \X (t.start .. t.end - 1)
Queued(t) == t \in ToSet(buffer) \union ToSet(pipe)

\* In the picture that is shown a square is black as a whole unless its task is
\* still in the queue or the picture ends within it; and nothing else is black
\* (main6.py 24-27, 60-66).
WholeSquares ==
  shown => /\ black \subseteq UNION {Square(t) : t \in Tasks}
           /\ \A t \in Tasks :
                \/ Square(t) \subseteq black
                \/ Queued(t)
                \/ t.end > size[1] \/ t.end > size[2]

\* The pool implements TaskBag: no task is taken twice, however the read lock,
\* the feeder thread and the deaths of workers interleave, and a square gets its
\* last pixel from the worker that took its task (main6.py 16, 24-29).
Bag == INSTANCE TaskBag WITH
  todo <- {t \in Tasks : Queued(t)},
  held <- [v \in Workers |-> IF pc[v] = "square" THEN task[v] ELSE NoTask],
  finished <- {t \in Tasks : Square(t) \subseteq black}

TasksAreTakenOnce == Bag!Spec

\* main shows the picture in the end, whatever the workers miss (main6.py 61-66).
PictureIsShown == <>shown
=============================================================================
