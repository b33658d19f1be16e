----------------------------- MODULE TaskQueue -----------------------------
(***************************************************************************)
(* multiprocessing.Queue between a parent that puts its tasks and a pool   *)
(* of workers that take them with get_nowait, as watermarking/reversible.py *)
(* and speedup/main6.py use it.  CPython's put appends to a buffer that a   *)
(* feeder thread of the parent moves into a pipe; get_nowait raises Empty   *)
(* when another process holds the read lock or when nothing is in the pipe, *)
(* whatever the buffer holds.                                              *)
(***************************************************************************)
EXTENDS Naturals, Sequences

CONSTANT Workers

VARIABLES
  buffer,     \* tasks put, not yet moved by the feeder thread
  pipe,       \* tasks in the pipe
  pc,         \* where each worker stands: "get", "poll", or what the pool does
  task        \* the task each worker took last

NoTask == [kind |-> "none"]

\* The parent has put the tasks and started the pool.  It does nothing else
\* until the pool ends, and a worker that has not started is as one that has
\* not been scheduled.
StartPool(tasks) ==
  /\ buffer' = tasks
  /\ pc' = [w \in Workers |-> "get"]
  /\ task' = [w \in Workers |-> NoTask]

\* The feeder thread sends the oldest buffered task.
Feed ==
  /\ buffer # <<>>
  /\ pipe' = Append(pipe, Head(buffer))
  /\ buffer' = Tail(buffer)
  /\ UNCHANGED <<pc, task>>

LockFree == \A w \in Workers : pc[w] # "poll"

\* get_nowait, first half: take the read lock, or raise Empty.
Acquire(w, onEmpty) ==
  /\ pc[w] = "get"
  /\ pc' = [pc EXCEPT ![w] = IF LockFree THEN "poll" ELSE onEmpty]
  /\ UNCHANGED <<buffer, pipe, task>>

\* get_nowait, second half, when nothing is in the pipe: raise Empty.
PollEmpty(w, onEmpty) ==
  /\ pc[w] = "poll" /\ pipe = <<>>
  /\ pc' = [pc EXCEPT ![w] = onEmpty]
  /\ UNCHANGED <<buffer, pipe, task>>

\* get_nowait, second half, when it returns a task.
Receive(w, onTask) ==
  /\ pc[w] = "poll" /\ pipe # <<>>
  /\ pipe' = Tail(pipe)
  /\ task' = [task EXCEPT ![w] = Head(pipe)]
  /\ pc' = [pc EXCEPT ![w] = onTask]
  /\ UNCHANGED buffer

\* Every join has returned; the exit status of a worker is not looked at.
Joined == \A w \in Workers : pc[w] \in {"exited", "crashed"}

\* Some task was put and never completed.
Missed == buffer # <<>> \/ pipe # <<>> \/ \E w \in Workers : pc[w] = "crashed"
=============================================================================
