------------------------- MODULE SquarePool_proofs --------------------------
(***************************************************************************)
(* Theorems about SquarePool, for any number of processes and tasks, any   *)
(* side of a square and any picture.                                       *)
(***************************************************************************)
EXTENDS SquarePool, SequenceTheorems, TLAPS

Area == Side * Side

\* Tasks a+1 to b in the order in which main puts them.
Run(a, b) == [n \in 1 .. (b - a) |-> TaskList[a + n]]

\* The queue after k tasks have been taken and m have been sent into the pipe.
QueueAt(p, b, k, m) ==
  k <= m /\ p = Run(k, m) /\ b = Run(m, number_of_task)

\* The pipe holds the oldest tasks that nobody has taken, the buffer the others.
QueueInv == \E k, m \in 0 .. number_of_task : QueueAt(pipe, buffer, k, m)

\* The tasks in the queue.
Queue == ToSet(buffer) \union ToSet(pipe)

\* A worker at a task has it for itself, and has blackened of its square the
\* pixels it has visited.
Progress(v) ==
  pc[v] = "square" =>
    /\ task[v] \in Tasks /\ task[v] \notin Queue
    /\ at[v] \in 0 .. LastTurn
    /\ \A u \in Workers \ {v} : pc[u] = "square" => task[u] # task[v]
    /\ \A n \in 0 .. LastTurn : PixelOf(task[v], n) \in black <=> n < at[v]

BlackInv ==
  /\ black \subseteq UNION {Square(t) : t \in Tasks}
  /\ \A t \in Queue : Square(t) \intersect black = {}

\* What has become of a task.
Settled(t) ==
  \/ t \in Queue
  \/ \E v \in Workers : pc[v] = "square" /\ task[v] = t
  \/ Square(t) \subseteq black
  \/ t.end > size[1] \/ t.end > size[2]

SquaresInv ==
  /\ TypeOK /\ QueueInv /\ BlackInv
  /\ \A v \in Workers : Progress(v)
  /\ \A t \in Tasks : Settled(t)

\* Nobody is at work any more when the picture is shown.
IInv == SquaresInv /\ (shown => Joined)

-----------------------------------------------------------------------------
(* Numbers                                                                 *)

LEMMA Areas ==
  /\ Side \in Nat \ {0} /\ Area \in Nat \ {0} /\ LastTurn \in Nat /\ LastTurn = Area - 1
  /\ number_of_task \in Nat
<1>1. Side \in Nat \ {0} /\ number_of_task \in Nat
  BY PoolAssumption
<1>2. \A s \in Nat \ {0} : s * s \in Nat \ {0}
  OBVIOUS
<1> QED
  BY <1>1, <1>2 DEF Area, LastTurn

LEMMA Times ==
  ASSUME NEW a \in Nat, NEW b \in Nat, a <= b
  PROVE  a * Side \in Nat /\ b * Side \in Nat /\ a * Side <= b * Side
<1>1. Side \in Nat
  BY PoolAssumption
<1>2. PICK d \in Nat : b = a + d
  <2>1. b - a \in Nat /\ b = a + (b - a)
    OBVIOUS
  <2> QED
    BY <2>1
<1>3. a * Side \in Nat /\ d * Side \in Nat
  BY <1>1
<1>4. b * Side = a * Side + d * Side
  BY <1>1, <1>2
<1> QED
  BY <1>3, <1>4

\* Column and row of pixel n of a square.
LEMMA Division ==
  ASSUME NEW n \in 0 .. LastTurn
  PROVE  /\ n \div Side \in 0 .. Side - 1 /\ n % Side \in 0 .. Side - 1
         /\ n = (n \div Side) * Side + (n % Side)
<1>1. n \in Nat /\ Side \in Nat \ {0} /\ n < Area
  BY Areas
<1>2. n % Side \in 0 .. Side - 1 /\ n \div Side \in Nat
  BY <1>1
<1>3. n = Side * (n \div Side) + (n % Side)
  BY <1>1
<1>4. n = (n \div Side) * Side + (n % Side)
  BY <1>1, <1>2, <1>3
<1>5. ~ (Side <= n \div Side)
  <2>1. ASSUME Side <= n \div Side PROVE FALSE
    <3>1. Side * Side <= (n \div Side) * Side
      BY <1>1, <1>2, <2>1, Times
    <3>2. (n \div Side) * Side \in Nat
      BY <1>1, <1>2, Times
    <3> QED
      BY <1>1, <1>2, <1>4, <3>1, <3>2 DEF Area
  <2> QED
    BY <2>1
<1> QED
  BY <1>1, <1>2, <1>4, <1>5

\* Every column and row of a square has its pixel.
LEMMA Pixel ==
  ASSUME NEW q \in 0 .. Side - 1, NEW r \in 0 .. Side - 1
  PROVE  \E n \in 0 .. LastTurn : n \div Side = q /\ n % Side = r
<1>1. Side \in Nat \ {0} /\ q \in Nat /\ r \in Nat /\ q + 1 <= Side
  BY Areas
<1>2. q * Side \in Nat /\ (q + 1) * Side = q * Side + Side /\ (q + 1) * Side <= Area
  <2>1. q + 1 \in Nat /\ Side \in Nat
    BY <1>1
  <2>2. (q + 1) * Side <= Side * Side
    BY <1>1, <2>1, Times
  <2>3. q * Side \in Nat
    BY <1>1, <2>1, Times
  <2> QED
    BY <1>1, <2>2, <2>3 DEF Area
<1> DEFINE n == q * Side + r
<1>3. n \in 0 .. LastTurn
  BY <1>1, <1>2, Areas
<1>4. n \div Side = q /\ n % Side = r
  BY <1>1, <1>2
<1> QED
  BY <1>3, <1>4

-----------------------------------------------------------------------------
(* Tasks and their squares                                                 *)

LEMMA TaskAt ==
  ASSUME NEW n \in 1 .. number_of_task
  PROVE  /\ TaskList[n] = [start |-> (n - 1) * Side, end |-> n * Side]
         /\ TaskList[n] \in Tasks
         /\ TaskList[n].start \in Nat /\ TaskList[n].end = TaskList[n].start + Side
<1>1. TaskList[n] = [start |-> (n - 1) * Side, end |-> n * Side] /\ TaskList[n] \in Tasks
  BY DEF TaskList, Tasks
<1>2. n \in Nat /\ n - 1 \in Nat /\ Side \in Nat
  BY Areas
<1>3. (n - 1) * Side \in Nat /\ n * Side = (n - 1) * Side + Side
  BY <1>2
<1> QED
  BY <1>1, <1>3

LEMMA TaskOf ==
  ASSUME NEW t \in Tasks
  PROVE  /\ \E n \in 1 .. number_of_task : t = TaskList[n]
         /\ t.start \in Nat /\ t.end = t.start + Side
         /\ t # NoTask
<1>1. PICK n \in 1 .. number_of_task : t = TaskList[n]
  BY DEF Tasks, TaskList
<1>2. t = [start |-> (n - 1) * Side, end |-> n * Side]
  BY <1>1, TaskAt
<1>3. t # NoTask
  BY <1>2 DEF NoTask
<1> QED
  BY <1>1, <1>3, TaskAt

LEMMA InOrder ==
  ASSUME NEW n \in 1 .. number_of_task, NEW m \in 1 .. number_of_task, n < m
  PROVE  TaskList[n].end <= TaskList[m].start /\ TaskList[n] # TaskList[m]
<1>1. n \in Nat /\ m - 1 \in Nat /\ n <= m - 1
  OBVIOUS
<1>2. n * Side <= (m - 1) * Side
  BY <1>1, Times
<1>3. /\ TaskList[n] = [start |-> (n - 1) * Side, end |-> n * Side]
      /\ TaskList[n].start \in Nat /\ TaskList[n].end = TaskList[n].start + Side
  BY TaskAt
<1>4. TaskList[m] = [start |-> (m - 1) * Side, end |-> m * Side]
  BY TaskAt
<1>5. TaskList[n].end <= TaskList[m].start
  BY <1>2, <1>3, <1>4
<1>6. TaskList[n].start < TaskList[n].end /\ TaskList[n].end \in Nat
  BY <1>3, Areas
<1>7. TaskList[m].start \in Nat
  BY TaskAt
<1> QED
  BY <1>5, <1>6, <1>7

LEMMA OneIndex ==
  ASSUME NEW n \in 1 .. number_of_task, NEW m \in 1 .. number_of_task,
         TaskList[n] = TaskList[m]
  PROVE  n = m
<1>1. ~ (n < m) /\ ~ (m < n)
  BY InOrder
<1> QED
  BY <1>1

LEMMA SquaresApart ==
  ASSUME NEW t \in Tasks, NEW u \in Tasks, t # u
  PROVE  Square(t) \intersect Square(u) = {}
<1>1. PICK n, m \in 1 .. number_of_task : t = TaskList[n] /\ u = TaskList[m]
  BY TaskOf
<1>2. n < m \/ m < n
  BY <1>1
<1>3. t.end <= u.start \/ u.end <= t.start
  BY <1>1, <1>2, InOrder
<1>4. t.start \in Nat /\ t.end \in Nat /\ u.start \in Nat /\ u.end \in Nat
  BY TaskOf, Areas
<1>5. (t.start .. t.end - 1) \intersect (u.start .. u.end - 1) = {}
  BY <1>3, <1>4
<1> QED
  BY <1>5 DEF Square

LEMMA PixelsOfSquare ==
  ASSUME NEW t \in Tasks
  PROVE  /\ \A n \in 0 .. LastTurn : PixelOf(t, n) \in Square(t)
         /\ \A p \in Square(t) : \E n \in 0 .. LastTurn : p = PixelOf(t, n)
         /\ \A n, m \in 0 .. LastTurn : PixelOf(t, n) = PixelOf(t, m) => n = m
<1>1. t.start \in Nat /\ t.end = t.start + Side /\ Side \in Nat \ {0}
  BY TaskOf, Areas
<1>2. ASSUME NEW n \in 0 .. LastTurn PROVE PixelOf(t, n) \in Square(t)
  <2>1. n \div Side \in 0 .. Side - 1 /\ n % Side \in 0 .. Side - 1
    BY Division
  <2>2. /\ t.start + (n \div Side) \in t.start .. t.end - 1
        /\ t.start + (n % Side) \in t.start .. t.end - 1
    BY <1>1, <2>1
  <2> QED
    BY <2>2 DEF PixelOf, Square
<1>3. ASSUME NEW p \in Square(t) PROVE \E n \in 0 .. LastTurn : p = PixelOf(t, n)
  <2>1. PICK x, y \in t.start .. t.end - 1 : p = <<x, y>>
    BY DEF Square
  <2>2. /\ x - t.start \in 0 .. Side - 1 /\ x = t.start + (x - t.start)
        /\ y - t.start \in 0 .. Side - 1 /\ y = t.start + (y - t.start)
    BY <1>1
  <2>3. PICK n \in 0 .. LastTurn : n \div Side = x - t.start /\ n % Side = y - t.start
    BY <2>2, Pixel
  <2>4. p = <<t.start + (n \div Side), t.start + (n % Side)>>
    BY <2>1, <2>2, <2>3
  <2> QED
    BY <2>4 DEF PixelOf
<1>4. ASSUME NEW n \in 0 .. LastTurn, NEW m \in 0 .. LastTurn, PixelOf(t, n) = PixelOf(t, m)
      PROVE  n = m
  <2>1. /\ n \div Side \in 0 .. Side - 1 /\ n % Side \in 0 .. Side - 1
        /\ n = (n \div Side) * Side + (n % Side)
    BY Division
  <2>2. /\ m \div Side \in 0 .. Side - 1 /\ m % Side \in 0 .. Side - 1
        /\ m = (m \div Side) * Side + (m % Side)
    BY Division
  <2>3. t.start + (n \div Side) = t.start + (m \div Side)
        /\ t.start + (n % Side) = t.start + (m % Side)
    BY <1>4 DEF PixelOf
  <2>4. n \div Side = m \div Side /\ n % Side = m % Side
    BY <1>1, <2>1, <2>2, <2>3
  <2> QED
    BY <2>1, <2>2, <2>4
<1> QED
  BY <1>2, <1>3, <1>4

-----------------------------------------------------------------------------
(* The queue                                                               *)

Listed(a, b) == {TaskList[n] : n \in a + 1 .. b}

LEMMA RunIs ==
  ASSUME NEW a \in 0 .. number_of_task, NEW b \in 0 .. number_of_task, a <= b
  PROVE  /\ Run(a, b) \in Seq(Tasks) /\ Len(Run(a, b)) = b - a
         /\ ToSet(Run(a, b)) = Listed(a, b)
<1>1. number_of_task \in Nat
  BY Areas
<1>2. \A n \in 1 .. (b - a) : a + n \in 1 .. number_of_task
  BY <1>1
<1>3. \A n \in 1 .. (b - a) : TaskList[a + n] \in Tasks
  BY <1>2, TaskAt
<1>4. Run(a, b) \in Seq(Tasks) /\ Len(Run(a, b)) = b - a
  BY <1>1, <1>3 DEF Run
<1>5. ToSet(Run(a, b)) = {TaskList[a + n] : n \in 1 .. (b - a)}
  BY DEF ToSet, Run
<1>6. \A n \in a + 1 .. b : n - a \in 1 .. (b - a) /\ a + (n - a) = n
  BY <1>1
<1>7. \A n \in 1 .. (b - a) : a + n \in a + 1 .. b
  BY <1>1
<1>8. {TaskList[a + n] : n \in 1 .. (b - a)} = Listed(a, b)
  BY <1>6, <1>7 DEF Listed
<1> QED
  BY <1>4, <1>5, <1>8

LEMMA ListedIs ==
  ASSUME NEW a \in 0 .. number_of_task, NEW m \in 0 .. number_of_task,
         NEW b \in 0 .. number_of_task, a <= m, m <= b
  PROVE  /\ Listed(a, m) \union Listed(m, b) = Listed(a, b)
         /\ Listed(a, b) \subseteq Tasks
<1>1. number_of_task \in Nat
  BY Areas
<1>2. \A n : n \in a + 1 .. b <=> n \in a + 1 .. m \/ n \in m + 1 .. b
  BY <1>1
<1>3. \A n \in a + 1 .. b : TaskList[n] \in Tasks
  <2>1. \A n \in a + 1 .. b : n \in 1 .. number_of_task
    BY <1>1
  <2> QED
    BY <2>1, TaskAt
<1>4. Listed(a, m) \union Listed(m, b) = Listed(a, b)
  BY <1>2, Zenon DEF Listed
<1> QED
  BY <1>3, <1>4 DEF Listed

LEMMA RunTake ==
  ASSUME NEW a \in 0 .. number_of_task, NEW b \in 0 .. number_of_task, a <= b,
         Run(a, b) # <<>>
  PROVE  /\ a + 1 <= b /\ a + 1 \in 0 .. number_of_task
         /\ Head(Run(a, b)) = TaskList[a + 1] /\ Tail(Run(a, b)) = Run(a + 1, b)
<1>0. number_of_task \in Nat /\ a \in Nat /\ b \in Nat
  BY Areas
<1>1. Run(a, b) \in Seq(Tasks) /\ Len(Run(a, b)) = b - a
  BY RunIs
<1>2. a + 1 <= b /\ a + 1 \in 0 .. number_of_task
  BY <1>0, <1>1
<1>3. Head(Run(a, b)) = TaskList[a + 1]
  BY <1>0, <1>1, <1>2 DEF Run
<1> DEFINE s == Tail(Run(a, b))
<1>4. /\ s \in Seq(Tasks) /\ Len(s) = Len(Run(a, b)) - 1
      /\ \A n \in 1 .. Len(s) : s[n] = Run(a, b)[n + 1]
  BY <1>1, HeadTailProperties
<1> HIDE DEF s
<1>5. Len(s) = b - (a + 1)
  BY <1>0, <1>1, <1>4
<1>6. \A n \in 1 .. b - (a + 1) : Run(a, b)[n + 1] = TaskList[(a + 1) + n]
  BY <1>0, <1>2 DEF Run
<1>7. s = [n \in 1 .. b - (a + 1) |-> s[n]]
  BY <1>4, <1>5
<1>8. s = Run(a + 1, b)
  BY <1>4, <1>5, <1>6, <1>7 DEF Run
<1> QED
  BY <1>2, <1>3, <1>8 DEF s

LEMMA RunPut ==
  ASSUME NEW a \in 0 .. number_of_task, NEW b \in 0 .. number_of_task, a <= b,
         b + 1 <= number_of_task
  PROVE  Append(Run(a, b), TaskList[b + 1]) = Run(a, b + 1)
<1>0. number_of_task \in Nat /\ a \in Nat /\ b \in Nat
  BY Areas
<1>1. Run(a, b) \in Seq(Tasks) /\ Len(Run(a, b)) = b - a
  BY RunIs
<1>2. (b - a) + 1 = (b + 1) - a /\ a + ((b + 1) - a) = b + 1 /\ b - a \in Nat
  BY <1>0
<1>3. Append(Run(a, b), TaskList[b + 1])
        = [n \in 1 .. (b + 1) - a |-> IF n = (b + 1) - a THEN TaskList[b + 1] ELSE Run(a, b)[n]]
  BY <1>1, <1>2
<1>4. ASSUME NEW n \in 1 .. (b + 1) - a
      PROVE  TaskList[a + n] = IF n = (b + 1) - a THEN TaskList[b + 1] ELSE Run(a, b)[n]
  <2>1. n # (b + 1) - a => n \in 1 .. (b - a)
    BY <1>0
  <2> QED
    BY <1>2, <2>1 DEF Run
<1> QED
  BY <1>3, <1>4 DEF Run

LEMMA QueueIs ==
  ASSUME NEW k \in 0 .. number_of_task, NEW m \in 0 .. number_of_task,
         NEW p, NEW b, QueueAt(p, b, k, m)
  PROVE  /\ ToSet(b) \union ToSet(p) = Listed(k, number_of_task)
         /\ ToSet(b) \union ToSet(p) \subseteq Tasks
         /\ p \in Seq(Tasks) /\ b \in Seq(Tasks)
<1>0. k <= m /\ p = Run(k, m) /\ b = Run(m, number_of_task)
  BY DEF QueueAt
<1>1. number_of_task \in 0 .. number_of_task /\ m <= number_of_task
  BY Areas
<1>2. p \in Seq(Tasks) /\ ToSet(p) = Listed(k, m)
  BY <1>0, RunIs
<1>3. b \in Seq(Tasks) /\ ToSet(b) = Listed(m, number_of_task)
  BY <1>0, <1>1, RunIs
<1>4. Listed(k, m) \union Listed(m, number_of_task) = Listed(k, number_of_task)
      /\ Listed(k, number_of_task) \subseteq Tasks
  BY <1>0, <1>1, ListedIs
<1> QED
  BY <1>2, <1>3, <1>4

\* The feeder thread keeps the order and loses nothing.
LEMMA FeedKeeps ==
  ASSUME QueueInv, Feed
  PROVE  QueueInv' /\ Queue' = Queue
<1>1. PICK k, m \in 0 .. number_of_task : QueueAt(pipe, buffer, k, m)
  BY DEF QueueInv
<1>2. /\ number_of_task \in 0 .. number_of_task /\ m <= number_of_task
      /\ Run(m, number_of_task) # <<>>
  BY <1>1, Areas DEF Feed, QueueAt
<1>3. /\ m + 1 <= number_of_task /\ m + 1 \in 0 .. number_of_task
      /\ Head(buffer) = TaskList[m + 1] /\ Tail(buffer) = Run(m + 1, number_of_task)
  <2>1. buffer = Run(m, number_of_task)
    BY <1>1 DEF QueueAt
  <2> QED
    BY <1>2, <2>1, RunTake
<1>4. Append(pipe, Head(buffer)) = Run(k, m + 1)
  <2>1. k <= m /\ pipe = Run(k, m)
    BY <1>1 DEF QueueAt
  <2> QED
    BY <1>3, <2>1, RunPut
<1>5. pipe' = Run(k, m + 1) /\ buffer' = Run(m + 1, number_of_task) /\ k <= m + 1
  BY <1>1, <1>3, <1>4 DEF Feed, QueueAt
<1>6. QueueInv'
  BY <1>3, <1>5 DEF QueueInv, QueueAt
<1>7. Queue = Listed(k, number_of_task)
  BY <1>1, QueueIs DEF Queue
<1>8. Queue' = Listed(k, number_of_task)
  <2>1. ToSet(Run(k, m + 1)) = Listed(k, m + 1)
    BY <1>3, <1>5, RunIs
  <2>2. ToSet(Run(m + 1, number_of_task)) = Listed(m + 1, number_of_task)
    BY <1>2, <1>3, RunIs
  <2>3. Listed(k, m + 1) \union Listed(m + 1, number_of_task) = Listed(k, number_of_task)
    BY <1>2, <1>3, <1>5, ListedIs
  <2> QED
    BY <1>5, <2>1, <2>2, <2>3 DEF Queue
<1> QED
  BY <1>6, <1>7, <1>8

\* get_nowait takes the oldest task, and it is not queued a second time.
LEMMA TakeKeeps ==
  ASSUME QueueInv, pipe # <<>>, pipe' = Tail(pipe), buffer' = buffer
  PROVE  QueueInv' /\ Head(pipe) \in Queue /\ Queue' = Queue \ {Head(pipe)}
<1>1. PICK k, m \in 0 .. number_of_task : QueueAt(pipe, buffer, k, m)
  BY DEF QueueInv
<1>2. /\ k + 1 <= m /\ k + 1 \in 0 .. number_of_task
      /\ Head(pipe) = TaskList[k + 1] /\ Tail(pipe) = Run(k + 1, m)
  <2>1. k <= m /\ pipe = Run(k, m)
    BY <1>1 DEF QueueAt
  <2> QED
    BY <2>1, RunTake
<1>3. /\ number_of_task \in 0 .. number_of_task /\ m <= number_of_task
      /\ k + 1 \in 1 .. number_of_task /\ k + 1 \in k + 1 .. number_of_task
  BY <1>1, <1>2, Areas
<1>4. pipe' = Run(k + 1, m) /\ buffer' = Run(m, number_of_task)
  BY <1>1, <1>2 DEF QueueAt
<1>5. QueueInv'
  BY <1>2, <1>4 DEF QueueInv, QueueAt
<1>6. Queue = Listed(k, number_of_task)
  BY <1>1, QueueIs DEF Queue
<1>7. Queue' = Listed(k + 1, number_of_task)
  <2>1. ToSet(Run(k + 1, m)) = Listed(k + 1, m)
    BY <1>2, RunIs
  <2>2. ToSet(Run(m, number_of_task)) = Listed(m, number_of_task)
    BY <1>3, RunIs
  <2>3. Listed(k + 1, m) \union Listed(m, number_of_task) = Listed(k + 1, number_of_task)
    BY <1>2, <1>3, ListedIs
  <2> QED
    BY <1>4, <2>1, <2>2, <2>3 DEF Queue
<1>8. \A n \in k + 1 .. number_of_task :
        n \in (k + 1) + 1 .. number_of_task <=> TaskList[n] # TaskList[k + 1]
  <2>1. ASSUME NEW n \in k + 1 .. number_of_task
        PROVE  n \in (k + 1) + 1 .. number_of_task <=> TaskList[n] # TaskList[k + 1]
    <3>1. n \in 1 .. number_of_task
      BY <1>3
    <3>2. TaskList[n] = TaskList[k + 1] => n = k + 1
      BY <3>1, <1>3, OneIndex
    <3>3. n \in (k + 1) + 1 .. number_of_task <=> n # k + 1
      BY <1>3
    <3> QED
      BY <3>2, <3>3
  <2> QED
    BY <2>1
<1>9. \A n \in (k + 1) + 1 .. number_of_task : n \in k + 1 .. number_of_task
  BY <1>3
<1>10. Listed(k + 1, number_of_task) = Listed(k, number_of_task) \ {TaskList[k + 1]}
  BY <1>8, <1>9 DEF Listed
<1>11. TaskList[k + 1] \in Listed(k, number_of_task)
  BY <1>3 DEF Listed
<1> QED
  BY <1>2, <1>5, <1>6, <1>7, <1>10, <1>11

-----------------------------------------------------------------------------
(* What a step does to the squares                                         *)

\* What a step may leave alone: the picture and what the workers do to it.
SamePicture ==
  /\ size' = size /\ black' = black /\ task' = task /\ at' = at
  /\ Queue' = Queue
  /\ \A v \in Workers : pc'[v] = "square" <=> pc[v] = "square"

LEMMA SamePictureKeeps ==
  ASSUME SquaresInv, SamePicture, TypeOK', QueueInv'
  PROVE  SquaresInv'
<1>1. BlackInv'
  BY DEF SquaresInv, BlackInv, SamePicture
<1>2. ASSUME NEW v \in Workers PROVE Progress(v)'
  BY DEF SquaresInv, Progress, SamePicture
<1>3. ASSUME NEW t \in Tasks PROVE Settled(t)'
  BY DEF SquaresInv, Settled, SamePicture
<1> QED
  BY <1>1, <1>2, <1>3 DEF SquaresInv

LEMMA FeederKeeps ==
  ASSUME SquaresInv, Feeder
  PROVE  SquaresInv' /\ SamePicture
<1>1. QueueInv' /\ Queue' = Queue
  BY FeedKeeps DEF SquaresInv, Feeder
<1>2. buffer' \in Seq(Tasks) /\ pipe' \in Seq(Tasks)
  BY <1>1, QueueIs DEF QueueInv
<1>3. SamePicture
  BY <1>1 DEF SamePicture, Feeder, Feed
<1>4. TypeOK'
  BY <1>2 DEF SquaresInv, TypeOK, Feeder, Feed
<1> QED
  BY <1>1, <1>3, <1>4, SamePictureKeeps

LEMMA ShowKeeps ==
  ASSUME SquaresInv, Show
  PROVE  SquaresInv' /\ SamePicture
<1>1. QueueInv' /\ Queue' = Queue
  BY DEF SquaresInv, QueueInv, Queue, Show, poolVars
<1>2. SamePicture
  BY <1>1 DEF SamePicture, Show, poolVars
<1>3. TypeOK'
  BY DEF SquaresInv, TypeOK, Show, poolVars
<1> QED
  BY <1>1, <1>2, <1>3, SamePictureKeeps

\* get_nowait that raises Empty, or takes the lock.
LEMMA NoTaskKeeps ==
  ASSUME SquaresInv, NEW v \in Workers, GetTask(v), ~ Receive(v, "square")
  PROVE  SquaresInv' /\ SamePicture
<1>1. /\ pc[v] \in {"get", "poll"}
      /\ \E a \in {"poll", "exited"} : pc' = [pc EXCEPT ![v] = a]
      /\ UNCHANGED <<size, black, buffer, pipe, task, at, shown>>
  BY DEF GetTask, Acquire, PollEmpty, OnEmpty
<1>2. PICK a \in {"poll", "exited"} : pc' = [pc EXCEPT ![v] = a]
  BY <1>1
<1>3. QueueInv' /\ Queue' = Queue
  BY <1>1 DEF SquaresInv, QueueInv, Queue
<1>4. SamePicture
  <2>1. ASSUME NEW u \in Workers PROVE pc'[u] = "square" <=> pc[u] = "square"
    BY <1>1, <1>2 DEF SquaresInv, TypeOK
  <2> QED
    BY <1>1, <1>3, <2>1 DEF SamePicture
<1>5. TypeOK'
  BY <1>1, <1>2 DEF SquaresInv, TypeOK
<1> QED
  BY <1>3, <1>4, <1>5, SamePictureKeeps

\* get_nowait that returns a task.
LEMMA ReceiveKeeps ==
  ASSUME SquaresInv, NEW v \in Workers, GetTask(v), Receive(v, "square")
  PROVE  /\ SquaresInv'
         /\ Head(pipe) \in Queue /\ Head(pipe) \in Tasks /\ Queue' = Queue \ {Head(pipe)}
<1>1. /\ pc[v] = "poll" /\ pipe # <<>> /\ pipe' = Tail(pipe) /\ buffer' = buffer
      /\ task' = [task EXCEPT ![v] = Head(pipe)]
      /\ pc' = [pc EXCEPT ![v] = "square"]
      /\ at' = [at EXCEPT ![v] = 0]
      /\ size' = size /\ black' = black /\ shown' = shown
  BY DEF GetTask, Acquire, PollEmpty, Receive
<1>2. QueueInv' /\ Head(pipe) \in Queue /\ Queue' = Queue \ {Head(pipe)}
  BY <1>1, TakeKeeps DEF SquaresInv
<1>3. Head(pipe) \in Tasks
  BY <1>2, QueueIs DEF SquaresInv, QueueInv, Queue
<1>4. TypeOK'
  <2>1. buffer' \in Seq(Tasks) /\ pipe' \in Seq(Tasks)
    BY <1>2, QueueIs DEF QueueInv
  <2>2. 0 \in 0 .. Area
    BY Areas
  <2> QED
    BY <1>1, <1>3, <2>1, <2>2 DEF SquaresInv, TypeOK, Area
<1>5. BlackInv'
  BY <1>1, <1>2 DEF SquaresInv, BlackInv
<1>6. /\ pc'[v] = "square" /\ task'[v] = Head(pipe) /\ at'[v] = 0
      /\ \A u \in Workers \ {v} : pc'[u] = pc[u] /\ task'[u] = task[u] /\ at'[u] = at[u]
  BY <1>1 DEF SquaresInv, TypeOK
<1>7. ASSUME NEW u \in Workers \ {v} PROVE Progress(u)'
  BY <1>1, <1>2, <1>6 DEF SquaresInv, Progress
<1>8. Progress(v)'
  <2>1. Head(pipe) \notin Queue'
    BY <1>2
  <2>2. \A u \in Workers \ {v} : pc[u] = "square" => task[u] # Head(pipe)
    BY <1>2 DEF SquaresInv, Progress
  <2>3. \A n \in 0 .. LastTurn : PixelOf(Head(pipe), n) \notin black /\ ~ (n < 0)
    <3>1. \A n \in 0 .. LastTurn : PixelOf(Head(pipe), n) \in Square(Head(pipe))
      BY <1>3, PixelsOfSquare
    <3>2. \A n \in 0 .. LastTurn : ~ (n < 0)
      BY Areas
    <3> QED
      BY <1>2, <3>1, <3>2 DEF SquaresInv, BlackInv
  <2>4. 0 \in 0 .. LastTurn
    BY Areas
  <2> QED
    BY <1>1, <1>3, <1>6, <2>1, <2>2, <2>3, <2>4 DEF Progress
<1>9. ASSUME NEW t \in Tasks PROVE Settled(t)'
  <2>1. Settled(t)
    BY DEF SquaresInv
  <2>2. CASE t = Head(pipe)
    BY <1>6, <2>2 DEF Settled
  <2>3. CASE t # Head(pipe)
    <3>1. t \in Queue => t \in Queue'
      BY <1>2, <2>3
    <3>2. ASSUME NEW u \in Workers, pc[u] = "square", task[u] = t
          PROVE  pc'[u] = "square" /\ task'[u] = t
      BY <1>1, <1>6, <3>2
    <3>3. size' = size /\ black' = black
      BY <1>1
    <3> QED
      BY <2>1, <3>1, <3>2, <3>3 DEF Settled
  <2> QED
    BY <2>2, <2>3
<1> QED
  BY <1>2, <1>3, <1>4, <1>5, <1>7, <1>8, <1>9 DEF SquaresInv

\* A worker at a task.
LEMMA AtTask ==
  ASSUME SquaresInv, NEW v \in Workers, pc[v] = "square"
  PROVE  /\ task[v] \in Tasks /\ task[v] \notin Queue /\ task[v] # NoTask
         /\ at[v] \in 0 .. LastTurn
         /\ PixelOf(task[v], at[v]) \in Square(task[v])
         /\ PixelOf(task[v], at[v]) \notin black
         /\ ~ (Square(task[v]) \subseteq black)
         /\ \A u \in Workers \ {v} : pc[u] = "square" => task[u] # task[v]
<1>1. /\ task[v] \in Tasks /\ task[v] \notin Queue
      /\ at[v] \in 0 .. LastTurn
      /\ PixelOf(task[v], at[v]) \in black <=> at[v] < at[v]
      /\ \A u \in Workers \ {v} : pc[u] = "square" => task[u] # task[v]
  BY DEF SquaresInv, Progress
<1>2. PixelOf(task[v], at[v]) \in Square(task[v]) /\ task[v] # NoTask
  BY <1>1, PixelsOfSquare, TaskOf
<1>3. ~ (at[v] < at[v])
  BY <1>1, Areas
<1> QED
  BY <1>1, <1>2, <1>3

\* A pixel within the picture.
Blackens(v) ==
  LET p == PixelOf(task[v], at[v])
  IN  /\ pc[v] = "square" /\ p[1] < size[1] /\ p[2] < size[2]
      /\ black' = black \union {p}
      /\ pc' = [pc EXCEPT ![v] = IF at[v] = LastTurn THEN "get" ELSE "square"]
      /\ at' = [at EXCEPT ![v] = @ + 1]
      /\ UNCHANGED <<size, buffer, pipe, task, shown>>

\* A pixel outside.
Crashes(v) ==
  LET p == PixelOf(task[v], at[v])
  IN  /\ pc[v] = "square" /\ ~ (p[1] < size[1] /\ p[2] < size[2])
      /\ pc' = [pc EXCEPT ![v] = "crashed"]
      /\ at' = [at EXCEPT ![v] = @ + 1]
      /\ UNCHANGED <<size, black, buffer, pipe, task, shown>>

\* The square of no other task is touched, and this one is complete with the
\* pixel the loops end with and not before.
LEMMA SquareGrows ==
  ASSUME SquaresInv, NEW v \in Workers, Blackens(v)
  PROVE  /\ \A t \in Tasks \ {task[v]} : Square(t) \intersect black' = Square(t) \intersect black
         /\ \A n \in 0 .. LastTurn : PixelOf(task[v], n) \in black' <=> n < at[v] + 1
         /\ Square(task[v]) \subseteq black' <=> at[v] = LastTurn
<1> DEFINE p == PixelOf(task[v], at[v])
<1>1. /\ task[v] \in Tasks /\ at[v] \in 0 .. LastTurn
      /\ p \in Square(task[v]) /\ p \notin black /\ black' = black \union {p}
      /\ \A n \in 0 .. LastTurn : PixelOf(task[v], n) \in black <=> n < at[v]
  BY AtTask DEF Blackens, SquaresInv, Progress
<1>2. ASSUME NEW t \in Tasks \ {task[v]}
      PROVE  Square(t) \intersect black' = Square(t) \intersect black
  <2>1. Square(t) \intersect Square(task[v]) = {}
    BY <1>1, SquaresApart
  <2> QED
    BY <1>1, <2>1
<1>3. ASSUME NEW n \in 0 .. LastTurn
      PROVE  PixelOf(task[v], n) \in black' <=> n < at[v] + 1
  <2>1. PixelOf(task[v], n) = p => n = at[v]
    BY <1>1, PixelsOfSquare
  <2>2. PixelOf(task[v], n) \in black' <=> n < at[v] \/ n = at[v]
    BY <1>1, <2>1
  <2>3. n < at[v] + 1 <=> n < at[v] \/ n = at[v]
    BY <1>1, Areas
  <2> QED
    BY <2>2, <2>3
<1>4. ASSUME at[v] = LastTurn PROVE Square(task[v]) \subseteq black'
  <2>1. ASSUME NEW q \in Square(task[v]) PROVE q \in black'
    <3>1. PICK n \in 0 .. LastTurn : q = PixelOf(task[v], n)
      BY <1>1, PixelsOfSquare
    <3>2. n < at[v] + 1
      BY <1>4, Areas
    <3> QED
      BY <1>3, <3>1, <3>2
  <2> QED
    BY <2>1
<1>5. ASSUME at[v] # LastTurn PROVE ~ (Square(task[v]) \subseteq black')
  <2>1. at[v] + 1 \in 0 .. LastTurn /\ ~ (at[v] + 1 < at[v] + 1)
    BY <1>1, <1>5, Areas
  <2>2. PixelOf(task[v], at[v] + 1) \notin black'
    BY <1>3, <2>1
  <2>3. PixelOf(task[v], at[v] + 1) \in Square(task[v])
    BY <1>1, <2>1, PixelsOfSquare
  <2> QED
    BY <2>2, <2>3
<1> QED
  BY <1>2, <1>3, <1>4, <1>5

LEMMA BlackensKeeps ==
  ASSUME SquaresInv, NEW v \in Workers, Blackens(v)
  PROVE  SquaresInv'
<1> DEFINE p == PixelOf(task[v], at[v])
<1>0. /\ TypeOK /\ pc[v] = "square" /\ p[1] < size[1] /\ p[2] < size[2]
      /\ black' = black \union {p} /\ size' = size /\ task' = task /\ shown' = shown
      /\ buffer' = buffer /\ pipe' = pipe
      /\ pc' = [pc EXCEPT ![v] = IF at[v] = LastTurn THEN "get" ELSE "square"]
      /\ at' = [at EXCEPT ![v] = at[v] + 1]
  BY DEF Blackens, SquaresInv
<1>1. /\ task[v] \in Tasks /\ task[v] \notin Queue /\ at[v] \in 0 .. LastTurn
      /\ p \in Square(task[v]) /\ p \notin black
      /\ \A u \in Workers \ {v} : pc[u] = "square" => task[u] # task[v]
  BY <1>0, AtTask
<1>2. Queue' = Queue /\ QueueInv'
  BY <1>0 DEF SquaresInv, Queue, QueueInv
<1>3. p \in (0 .. size[1] - 1) \X (0 .. size[2] - 1)
  <2>1. at[v] \div Side \in 0 .. Side - 1 /\ at[v] % Side \in 0 .. Side - 1
    BY <1>1, Division
  <2>2. task[v].start \in Nat /\ Side \in Nat
    BY <1>1, TaskOf, Areas
  <2>3. /\ task[v].start + (at[v] \div Side) \in Nat
        /\ task[v].start + (at[v] % Side) \in Nat
    BY <2>1, <2>2
  <2>4. /\ p = <<task[v].start + (at[v] \div Side), task[v].start + (at[v] % Side)>>
        /\ p[1] \in Nat /\ p[2] \in Nat
    BY <2>3 DEF PixelOf
  <2>5. size[1] \in Nat /\ size[2] \in Nat
    BY <1>0, PoolAssumption DEF TypeOK
  <2>6. p[1] \in 0 .. size[1] - 1 /\ p[2] \in 0 .. size[2] - 1
    BY <1>0, <2>4, <2>5
  <2> QED
    BY <2>4, <2>6
<1>4. at[v] + 1 \in 0 .. Area
  BY <1>1, Areas
<1> HIDE DEF p
<1>5. TypeOK'
  BY <1>0, <1>3, <1>4 DEF TypeOK, Area
<1>6. /\ pc'[v] = IF at[v] = LastTurn THEN "get" ELSE "square"
      /\ at'[v] = at[v] + 1
      /\ \A u \in Workers \ {v} : pc'[u] = pc[u] /\ at'[u] = at[u]
  BY <1>0 DEF TypeOK
<1>7. /\ \A t \in Tasks \ {task[v]} : Square(t) \intersect black' = Square(t) \intersect black
      /\ \A n \in 0 .. LastTurn : PixelOf(task[v], n) \in black' <=> n < at[v] + 1
      /\ Square(task[v]) \subseteq black' <=> at[v] = LastTurn
  BY SquareGrows
<1>8. BlackInv'
  <2>1. black' \subseteq UNION {Square(t) : t \in Tasks}
    BY <1>0, <1>1 DEF SquaresInv, BlackInv
  <2>2. ASSUME NEW t \in Queue PROVE Square(t) \intersect black' = {}
    <3>1. t \in Tasks /\ t # task[v]
      BY <1>1, QueueIs DEF SquaresInv, QueueInv, Queue
    <3> QED
      BY <1>7, <3>1 DEF SquaresInv, BlackInv
  <2> QED
    BY <1>2, <2>1, <2>2 DEF BlackInv
<1>9. ASSUME NEW u \in Workers \ {v} PROVE Progress(u)'
  <2>1. CASE pc[u] = "square"
    <3>1. task[u] \in Tasks \ {task[v]}
      BY <1>1, <2>1 DEF SquaresInv, Progress
    <3>2. \A n \in 0 .. LastTurn : PixelOf(task[u], n) \in Square(task[u])
      BY <3>1, PixelsOfSquare
    <3>3. Square(task[u]) \intersect black' = Square(task[u]) \intersect black
      BY <1>7, <3>1
    <3>4. \A n \in 0 .. LastTurn : PixelOf(task[u], n) \in black' <=> PixelOf(task[u], n) \in black
      BY <3>2, <3>3
    <3>5. \A w \in Workers \ {u} : pc'[w] = "square" => pc[w] = "square"
      BY <1>0, <1>6
    <3> QED
      BY <1>0, <1>2, <1>6, <2>1, <3>4, <3>5 DEF SquaresInv, Progress
  <2>2. CASE pc[u] # "square"
    BY <1>6, <2>2 DEF Progress
  <2> QED
    BY <2>1, <2>2
<1>10. Progress(v)'
  <2>1. CASE at[v] = LastTurn
    BY <1>6, <2>1 DEF Progress
  <2>2. CASE at[v] # LastTurn
    <3>1. at[v] + 1 \in 0 .. LastTurn
      BY <1>1, <2>2, Areas
    <3> QED
      BY <1>0, <1>1, <1>2, <1>6, <1>7, <3>1 DEF Progress
  <2> QED
    BY <2>1, <2>2
<1>11. ASSUME NEW t \in Tasks PROVE Settled(t)'
  <2>1. Settled(t)
    BY DEF SquaresInv
  <2>2. CASE t = task[v]
    <3>1. CASE at[v] = LastTurn
      BY <1>7, <2>2, <3>1 DEF Settled
    <3>2. CASE at[v] # LastTurn
      <4>1. pc'[v] = "square" /\ task'[v] = t
        BY <1>0, <1>6, <2>2, <3>2
      <4> QED
        BY <4>1 DEF Settled
    <3> QED
      BY <3>1, <3>2
  <2>3. CASE t # task[v]
    <3>1. ASSUME NEW u \in Workers, pc[u] = "square", task[u] = t
          PROVE  pc'[u] = "square" /\ task'[u] = t
      BY <1>0, <1>6, <2>3, <3>1
    <3>2. Square(t) \subseteq black => Square(t) \subseteq black'
      BY <1>0
    <3> QED
      BY <1>0, <1>2, <2>1, <3>1, <3>2 DEF Settled
  <2> QED
    BY <2>2, <2>3
<1> QED
  BY <1>2, <1>5, <1>8, <1>9, <1>10, <1>11 DEF SquaresInv

\* A worker that leaves the picture ends over a task that does not fit in it.
LEMMA CrashesKeeps ==
  ASSUME SquaresInv, NEW v \in Workers, Crashes(v)
  PROVE  SquaresInv'
<1> DEFINE p == PixelOf(task[v], at[v])
<1>0. /\ TypeOK /\ pc[v] = "square" /\ ~ (p[1] < size[1] /\ p[2] < size[2])
      /\ black' = black /\ size' = size /\ task' = task /\ shown' = shown
      /\ buffer' = buffer /\ pipe' = pipe
      /\ pc' = [pc EXCEPT ![v] = "crashed"]
      /\ at' = [at EXCEPT ![v] = at[v] + 1]
  BY DEF Crashes, SquaresInv
<1>1. /\ task[v] \in Tasks /\ at[v] \in 0 .. LastTurn /\ p \in Square(task[v])
      /\ \A u \in Workers \ {v} : pc[u] = "square" => task[u] # task[v]
  BY <1>0, AtTask
<1>2. Queue' = Queue /\ QueueInv'
  BY <1>0 DEF SquaresInv, Queue, QueueInv
<1>3. task[v].end > size[1] \/ task[v].end > size[2]
  <2>1. task[v].start \in Nat /\ task[v].end \in Nat
    BY <1>1, TaskOf, Areas
  <2>2. /\ p[1] \in task[v].start .. task[v].end - 1
        /\ p[2] \in task[v].start .. task[v].end - 1
    BY <1>1 DEF Square
  <2>3. size[1] \in Nat /\ size[2] \in Nat
    BY <1>0, PoolAssumption DEF TypeOK
  <2> QED
    BY <1>0, <2>1, <2>2, <2>3
<1> HIDE DEF p
<1>4. at[v] + 1 \in 0 .. Area
  BY <1>1, Areas
<1>5. TypeOK'
  BY <1>0, <1>4 DEF TypeOK, Area
<1>6. /\ pc'[v] = "crashed"
      /\ \A u \in Workers \ {v} : pc'[u] = pc[u] /\ at'[u] = at[u]
  BY <1>0 DEF TypeOK
<1>7. BlackInv'
  BY <1>0, <1>2 DEF SquaresInv, BlackInv
<1>8. ASSUME NEW u \in Workers PROVE Progress(u)'
  <2>1. CASE u = v
    BY <1>6, <2>1 DEF Progress
  <2>2. CASE u # v
    <3>1. \A w \in Workers : pc'[w] = "square" => pc[w] = "square"
      BY <1>0, <1>6
    <3> QED
      BY <1>0, <1>2, <1>6, <2>2, <3>1 DEF SquaresInv, Progress
  <2> QED
    BY <2>1, <2>2
<1>9. ASSUME NEW t \in Tasks PROVE Settled(t)'
  <2>1. Settled(t)
    BY DEF SquaresInv
  <2>2. CASE t = task[v]
    BY <1>0, <1>3, <2>2 DEF Settled
  <2>3. CASE t # task[v]
    <3>1. ASSUME NEW u \in Workers, pc[u] = "square", task[u] = t
          PROVE  pc'[u] = "square" /\ task'[u] = t
      BY <1>0, <1>6, <2>3, <3>1
    <3> QED
      BY <1>0, <1>2, <2>1, <3>1 DEF Settled
  <2> QED
    BY <2>2, <2>3
<1> QED
  BY <1>2, <1>5, <1>7, <1>8, <1>9 DEF SquaresInv

-----------------------------------------------------------------------------
(* The invariant                                                           *)

LEMMA InitHolds ==
  ASSUME Init
  PROVE  IInv /\ Queue = Tasks
<1>1. number_of_task \in Nat /\ 0 \in 0 .. number_of_task /\ 0 <= 0
  BY Areas
<1>2. pipe = Run(0, 0)
  <2>1. Run(0, 0) \in Seq(Tasks) /\ Len(Run(0, 0)) = 0
    BY <1>1, RunIs
  <2>2. Run(0, 0) = <<>>
    BY <2>1
  <2> QED
    BY <2>2 DEF Init
<1>3. buffer = Run(0, number_of_task)
  <2>1. number_of_task - 0 = number_of_task /\ \A n \in 1 .. number_of_task : 0 + n = n
    BY <1>1
  <2>2. TaskList = [n \in 1 .. number_of_task |-> TaskList[n]]
    BY DEF TaskList
  <2>3. buffer = TaskList
    BY DEF Init
  <2>4. Run(0, number_of_task) = [n \in 1 .. number_of_task |-> TaskList[n]]
    BY <2>1 DEF Run
  <2> QED
    BY <2>2, <2>3, <2>4
<1>4. QueueAt(pipe, buffer, 0, 0)
  BY <1>1, <1>2, <1>3 DEF QueueAt
<1>5. QueueInv
  BY <1>1, <1>4 DEF QueueInv
<1>6. Queue = Tasks /\ pipe \in Seq(Tasks) /\ buffer \in Seq(Tasks)
  <2>1. /\ Queue = Listed(0, number_of_task)
        /\ pipe \in Seq(Tasks) /\ buffer \in Seq(Tasks)
    BY <1>1, <1>4, QueueIs DEF Queue
  <2>2. Listed(0, number_of_task) = Tasks
    <3>1. 0 + 1 .. number_of_task = 1 .. number_of_task
      BY <1>1
    <3> QED
      BY <3>1 DEF Listed, Tasks, TaskList
  <2> QED
    BY <2>1, <2>2
<1>7. TypeOK
  <2>1. 0 \in 0 .. Area
    BY Areas
  <2> QED
    BY <1>6, <2>1 DEF Init, TypeOK, Area
<1>8. BlackInv /\ (\A v \in Workers : Progress(v)) /\ (\A t \in Tasks : Settled(t))
  BY <1>6 DEF Init, BlackInv, Progress, Settled
<1>9. ~ shown
  BY DEF Init
<1> QED
  BY <1>5, <1>6, <1>7, <1>8, <1>9 DEF IInv, SquaresInv

\* The steps of a worker, with what becomes of the pixel.
LEMMA WorkerSteps ==
  ASSUME NEW v \in Workers, Worker(v)
  PROVE  \/ GetTask(v) /\ ~ Receive(v, "square")
         \/ GetTask(v) /\ Receive(v, "square")
         \/ Blackens(v)
         \/ Crashes(v)
<1>1. SetPixel(v) => Blackens(v) \/ Crashes(v)
  BY DEF SetPixel, Blackens, Crashes
<1> QED
  BY <1>1 DEF Worker

\* A worker that takes a step has not ended, and main waits for it.
LEMMA WorkerIsAwaited ==
  ASSUME NEW v \in Workers, Worker(v)
  PROVE  ~ Joined /\ shown' = shown
<1>1. pc[v] \in {"get", "poll", "square"} /\ shown' = shown
  BY DEF Worker, GetTask, SetPixel, Acquire, PollEmpty, Receive
<1> QED
  BY <1>1 DEF Joined

LEMMA NextKeeps ==
  ASSUME IInv, [Next]_vars
  PROVE  IInv'
<1>1. SquaresInv
  BY DEF IInv
<1>2. CASE Feeder
  BY <1>1, <1>2, FeederKeeps DEF IInv, Feeder, Feed, Joined
<1>3. CASE Show
  BY <1>1, <1>3, ShowKeeps DEF IInv, Show, poolVars, Joined
<1>4. ASSUME NEW v \in Workers, Worker(v) PROVE IInv'
  <2>1. SquaresInv'
    BY <1>1, <1>4, WorkerSteps, NoTaskKeeps, ReceiveKeeps, BlackensKeeps, CrashesKeeps
  <2>2. ~ shown'
    BY <1>4, WorkerIsAwaited DEF IInv
  <2> QED
    BY <2>1, <2>2 DEF IInv
<1>5. CASE UNCHANGED vars
  <2>1. Queue' = Queue /\ QueueInv'
    BY <1>1, <1>5 DEF SquaresInv, Queue, QueueInv, vars, poolVars
  <2>2. SamePicture /\ TypeOK'
    BY <1>1, <1>5, <2>1 DEF SamePicture, SquaresInv, TypeOK, vars, poolVars
  <2>3. SquaresInv'
    BY <1>1, <2>1, <2>2, SamePictureKeeps
  <2> QED
    BY <1>5, <2>3 DEF IInv, Joined, vars, poolVars
<1> QED
  BY <1>2, <1>3, <1>4, <1>5 DEF Next

\* Tasks are in one place each, and a square is black as far as the worker that
\* took it has come.
THEOREM InvariantHolds == Spec => []IInv
<1>1. Init => IInv
  BY InitHolds
<1>2. IInv /\ [Next]_vars => IInv'
  BY NextKeeps
<1> QED
  BY <1>1, <1>2, PTL DEF Spec

\* Type correctness of the pool; no worker writes outside the picture.
THEOREM TypeCorrect == Spec => []TypeOK
<1>1. IInv => TypeOK
  BY DEF IInv, SquaresInv
<1> QED
  BY InvariantHolds, <1>1, PTL

\* A square in the picture that main6.py shows is black as a whole unless its
\* task is still queued or the picture ends within it, and nothing else is black.
THEOREM SquaresAreWhole == Spec => []WholeSquares
<1>1. IInv => WholeSquares
  <2> SUFFICES ASSUME IInv, shown PROVE WholeSquares
    BY DEF WholeSquares
  <2>1. \A v \in Workers : pc[v] # "square"
    BY DEF IInv, Joined
  <2>2. \A t \in Tasks : t \in Queue \/ Square(t) \subseteq black \/ t.end > size[1] \/ t.end > size[2]
    BY <2>1 DEF IInv, SquaresInv, Settled
  <2>3. \A t : t \in Queue <=> Queued(t)
    BY DEF Queue, Queued
  <2> QED
    BY <2>2, <2>3 DEF WholeSquares, IInv, SquaresInv, BlackInv
<1> QED
  BY InvariantHolds, <1>1, PTL

-----------------------------------------------------------------------------
(* The pool implements TaskBag                                             *)

todo == {t \in Tasks : Queued(t)}

held == [v \in Workers |-> IF pc[v] = "square" THEN task[v] ELSE NoTask]

finished == {t \in Tasks : Square(t) \subseteq black}

LEMMA TodoIs == todo = Tasks \intersect Queue
  BY DEF todo, Queue, Queued

LEMMA SamePictureStutters ==
  ASSUME SamePicture
  PROVE  UNCHANGED Bag!vars
<1>1. todo' = todo
  <2>1. todo = Tasks \intersect Queue /\ todo' = Tasks \intersect Queue'
    BY DEF todo, Queue, Queued
  <2> QED
    BY <2>1 DEF SamePicture
<1>2. held' = held /\ finished' = finished
  BY DEF SamePicture, held, finished
<1> QED
  BY <1>1, <1>2 DEF Bag!vars, todo, held, finished

LEMMA ReceiveTakes ==
  ASSUME SquaresInv, NEW v \in Workers, GetTask(v), Receive(v, "square")
  PROVE  Bag!Next
<1>1. /\ Head(pipe) \in Queue /\ Head(pipe) \in Tasks /\ Queue' = Queue \ {Head(pipe)}
  BY ReceiveKeeps
<1>2. /\ pc[v] = "poll" /\ task' = [task EXCEPT ![v] = Head(pipe)]
      /\ pc' = [pc EXCEPT ![v] = "square"] /\ black' = black
  BY DEF Receive, GetTask
<1>3. todo' = todo \ {Head(pipe)} /\ Head(pipe) \in todo
  <2>1. todo = Tasks \intersect Queue /\ todo' = Tasks \intersect Queue'
    BY DEF todo, Queue, Queued
  <2> QED
    BY <1>1, <2>1
<1>4. held[v] = NoTask /\ held' = [held EXCEPT ![v] = Head(pipe)]
  BY <1>2 DEF held, SquaresInv, TypeOK
<1>5. finished' = finished
  BY <1>2 DEF finished
<1>6. PICK t \in Tasks : t = Head(pipe)
  BY <1>1
<1>7. Bag!Take(v, t)
  BY <1>3, <1>4, <1>5, <1>6 DEF Bag!Take, todo, held, finished
<1> QED
  BY <1>7, Zenon DEF Bag!Next

LEMMA BlackensFinishes ==
  ASSUME SquaresInv, NEW v \in Workers, Blackens(v)
  PROVE  Bag!Next \/ UNCHANGED Bag!vars
<1>1. /\ pc[v] = "square" /\ task[v] \in Tasks /\ task[v] # NoTask
      /\ ~ (Square(task[v]) \subseteq black)
      /\ task' = task /\ buffer' = buffer /\ pipe' = pipe
      /\ pc' = [pc EXCEPT ![v] = IF at[v] = LastTurn THEN "get" ELSE "square"]
  BY AtTask DEF Blackens
<1>2. /\ \A t \in Tasks \ {task[v]} : Square(t) \intersect black' = Square(t) \intersect black
      /\ Square(task[v]) \subseteq black' <=> at[v] = LastTurn
  BY SquareGrows
<1>3. \A t \in Tasks \ {task[v]} : Square(t) \subseteq black' <=> Square(t) \subseteq black
  BY <1>2
<1>4. todo' = todo /\ held[v] = task[v]
  BY <1>1 DEF todo, Queued, held
<1>5. CASE at[v] = LastTurn
  <2>1. held' = [held EXCEPT ![v] = NoTask]
    BY <1>1, <1>5 DEF held, SquaresInv, TypeOK
  <2>2. finished' = finished \union {task[v]}
    BY <1>1, <1>2, <1>3, <1>5 DEF finished
  <2>3. Bag!Finish(v)
    BY <1>1, <1>4, <2>1, <2>2 DEF Bag!Finish, todo, held, finished
  <2> QED
    BY <2>3 DEF Bag!Next
<1>6. CASE at[v] # LastTurn
  <2>1. held' = held
    BY <1>1, <1>6 DEF held, SquaresInv, TypeOK
  <2>2. finished' = finished
    BY <1>1, <1>2, <1>3, <1>6 DEF finished
  <2> QED
    BY <1>4, <2>1, <2>2 DEF Bag!vars, todo, held, finished
<1> QED
  BY <1>5, <1>6

LEMMA CrashesDrops ==
  ASSUME SquaresInv, NEW v \in Workers, Crashes(v)
  PROVE  Bag!Next
<1>1. /\ pc[v] = "square" /\ task[v] # NoTask
      /\ task' = task /\ buffer' = buffer /\ pipe' = pipe /\ black' = black
      /\ pc' = [pc EXCEPT ![v] = "crashed"]
  BY AtTask DEF Crashes
<1>2. todo' = todo /\ finished' = finished /\ held[v] = task[v]
  BY <1>1 DEF todo, Queued, finished, held
<1>3. held' = [held EXCEPT ![v] = NoTask]
  BY <1>1 DEF held, SquaresInv, TypeOK
<1>4. Bag!Drop(v)
  BY <1>1, <1>2, <1>3 DEF Bag!Drop, todo, held, finished
<1> QED
  BY <1>4 DEF Bag!Next

\* No task of main6.py is taken twice, and a square gets its last pixel from the
\* worker that took its task or from nobody, however get_nowait, the feeder
\* thread and the deaths of workers interleave.
THEOREM ImplementsTaskBag == Spec => TasksAreTakenOnce
<1>1. Init => Bag!Init
  <2> SUFFICES ASSUME Init PROVE Bag!Init
    OBVIOUS
  <2>1. todo = Tasks
    BY InitHolds, TodoIs
  <2>2. held = [v \in Workers |-> NoTask]
    BY DEF Init, held
  <2>3. finished = {}
    <3>1. \A t \in Tasks : PixelOf(t, 0) \in Square(t)
      <4>1. 0 \in 0 .. LastTurn
        BY Areas
      <4> QED
        BY <4>1, PixelsOfSquare
    <3> QED
      BY <3>1 DEF Init, finished
  <2> QED
    BY <2>1, <2>2, <2>3 DEF Bag!Init, todo, held, finished
<1>2. IInv /\ [Next]_vars => [Bag!Next]_(Bag!vars)
  <2> SUFFICES ASSUME IInv, [Next]_vars PROVE Bag!Next \/ UNCHANGED Bag!vars
    OBVIOUS
  <2>0. SquaresInv
    BY DEF IInv
  <2>1. CASE Feeder
    BY <2>0, <2>1, FeederKeeps, SamePictureStutters
  <2>2. CASE Show
    BY <2>0, <2>2, ShowKeeps, SamePictureStutters
  <2>3. ASSUME NEW v \in Workers, Worker(v) PROVE Bag!Next \/ UNCHANGED Bag!vars
    BY <2>0, <2>3, WorkerSteps, NoTaskKeeps, SamePictureStutters, ReceiveTakes,
       BlackensFinishes, CrashesDrops
  <2>4. CASE UNCHANGED vars
    BY <2>4 DEF vars, poolVars, Bag!vars, Queued
  <2> QED
    BY <2>1, <2>2, <2>3, <2>4 DEF Next
<1> QED
  BY <1>1, <1>2, InvariantHolds, PTL DEF Spec, TasksAreTakenOnce, Bag!Spec
=============================================================================
