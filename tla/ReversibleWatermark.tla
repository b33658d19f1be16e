------------------------ MODULE ReversibleWatermark ------------------------
(***************************************************************************)
(* watermarking/reversible.py: addWatermark, then removeWatermark on its   *)
(* result, as main.py runs them.  Each of the two calls                    *)
(*   - copies the picture into shared memory with a pool of processes,     *)
(*   - marks (or unmarks) it block by block with a second pool,            *)
(* and each pool takes its tasks from one multiprocessing.Queue until      *)
(* get_nowait raises queue.Empty.  The processes share the array without   *)
(* any lock.                                                               *)
(***************************************************************************)
EXTENDS Monotonic, Sequences

CONSTANTS
  width, height,           \* size of the picture
  channel,                 \* 3 in the code
  blk_width, blk_height,   \* arguments; 0 means the whole picture
  proc_num, cpu_count,     \* argument and mp.cpu_count()
  Watermark,               \* Watermark[<<sw, sh>>][<<dx, dy>>][c]: a level of the
                           \* watermark file resized to sw x sh
  Pictures                 \* bound: the pictures main.py may be given

ASSUME SizeAssumption ==
  /\ width \in Nat \ {0} /\ height \in Nat \ {0} /\ channel \in Nat \ {0}
  /\ blk_width \in Nat /\ blk_height \in Nat
  /\ proc_num \in Int /\ cpu_count \in Nat \ {0}

number_of_processes ==
  IF proc_num <= 0 \/ proc_num > cpu_count THEN cpu_count ELSE proc_num

Workers  == 1 .. number_of_processes
Channels == 0 .. channel - 1
total    == width * height * channel
Bytes    == 0 .. total - 1
Blank    == [i \in Bytes |-> 0]       \* mp.Array starts zeroed

ASSUME PictureAssumption == Pictures \subseteq [Bytes -> Level]

\* Resized to any size a block may have, the watermark has levels.
ASSUME WatermarkAssumption ==
  \A sw \in 1 .. width, sh \in 1 .. height :
    \A dx \in 0 .. sw - 1, dy \in 0 .. sh - 1, c \in Channels :
      Watermark[<<sw, sh>>][<<dx, dy>>][c] \in Level

-----------------------------------------------------------------------------
(* The two lists of tasks                                                  *)

\* Bytes of one copying task; the division drops the remainder.
Share == total \div number_of_processes

CopyTasks ==
  [x \in 1 .. number_of_processes |->
     [kind |-> "copy", start |-> (x - 1) * Share, end |-> x * Share]]

BlkWidth  == IF blk_width = 0 THEN width ELSE blk_width
BlkHeight == IF blk_height = 0 THEN height ELSE blk_height

\* Number of blocks along a side: the quotient, rounded up.
BlocksAlong(side, blk) == (side \div blk) + (IF side % blk > 0 THEN 1 ELSE 0)
Columns == BlocksAlong(width, BlkWidth)
Rows    == BlocksAlong(height, BlkHeight)

\* Mutant: the coordinate after the block, where the last one of it is meant.
BlockEndOpen(x, blk, side, blocks) ==
  IF x = blocks - 1 THEN side - 1 ELSE (x + 1) * blk

\* Mutant: the last block is not cut off at the side.
BlockEndUncut(x, blk, side, blocks) == (x + 1) * blk - 1

\* Last coordinate of block x; the last block ends where the side ends.
BlockEnd(x, blk, side, blocks) ==
  IF x = blocks - 1 THEN side - 1 ELSE (x + 1) * blk - 1

Block(x, y) ==
  [kind |-> "block",
   start_x |-> x * BlkWidth,  end_x |-> BlockEnd(x, BlkWidth, width, Columns),
   start_y |-> y * BlkHeight, end_y |-> BlockEnd(y, BlkHeight, height, Rows)]

\* Column by column, as the nested loops put them.
BlockTasks ==
  [n \in 1 .. Columns * Rows |-> Block((n - 1) \div Rows, (n - 1) % Rows)]

Tasks == {CopyTasks[n] : n \in DOMAIN CopyTasks}
           \union {BlockTasks[n] : n \in DOMAIN BlockTasks}

-----------------------------------------------------------------------------
(* One pixel                                                               *)

Index(h, w, c) == (h * width + w) * channel + c
Pixel(arr, h, w) == [c \in Channels |-> arr[Index(h, w, c)]]
White == [c \in Channels |-> Depth - 1]

\* arr with pixel v at row h and column w.
Put(arr, h, w, v) ==
  [i \in Bytes |->
     IF i \div channel = h * width + w THEN v[i % channel] ELSE arr[i]]

\* What a block's copy of the watermark shows at a pixel of the block.
MarkOf(blk, h, w) ==
  Watermark[<<blk.end_x - blk.start_x + 1, blk.end_y - blk.start_y + 1>>]
           [<<w - blk.start_x, h - blk.start_y>>]

\* The neighbour the code settled on, of the three it passes.
estimate_a(arr, h, w) == Pixel(arr, h, w + 1)

AddPixel(arr, blk, h, w) ==
  LET a == estimate_a(arr, h, w)
      b == MarkOf(blk, h, w)
      p == Pixel(arr, h, w)
  IN  IF b = White THEN arr
      ELSE Put(arr, h, w, [c \in Channels |-> MarkLevel(a[c], b[c], p[c])])

RemovePixel(arr, blk, h, w) ==
  LET a == estimate_a(arr, h, w)
      b == MarkOf(blk, h, w)
      p == Pixel(arr, h, w)
  IN  IF b = White THEN arr
      ELSE Put(arr, h, w, [c \in Channels |-> UnmarkLevel(a[c], b[c], p[c])])

\* Pixels of a block the loops visit: all but its last row and last column.
Inner(blk) == (blk.end_x - blk.start_x) * (blk.end_y - blk.start_y)
InnerRow(blk, k) == blk.start_y + (k \div (blk.end_x - blk.start_x))
InnerCol(blk, k) == blk.start_x + (k % (blk.end_x - blk.start_x))

-----------------------------------------------------------------------------
VARIABLES
  original,   \* the picture given to addWatermark
  source,     \* the picture given to the running call
  arr,        \* origin_arr, the shared array of the running call
  op,         \* the running call: "add" or "remove", then "done"
  stage,      \* which pool is at work: "copy" or "block"
  buffer,     \* tasks put, not yet moved by the queue's feeder thread
  pipe,       \* tasks in the queue's pipe
  pc,         \* where each worker of the pool stands
  task,       \* the task each worker holds
  at,         \* pixels of its block each worker has visited
  lost        \* history: some task was put and never completed

poolVars  == <<buffer, pipe, pc, task, at>>
imageVars == <<original, source, arr>>
vars      == <<imageVars, op, stage, poolVars, lost>>

INSTANCE TaskQueue

TypeOK ==
  /\ original \in [Bytes -> Level]
  /\ source \in [Bytes -> Level]
  /\ arr \in [Bytes -> Level]
  /\ op \in {"add", "remove", "done"}
  /\ stage \in {"copy", "block"}
  /\ buffer \in Seq(Tasks) /\ pipe \in Seq(Tasks)
  /\ pc \in [Workers -> {"get", "poll", "copy", "block", "exited", "crashed"}]
  /\ task \in [Workers -> Tasks \union {NoTask}]
  /\ at \in [Workers -> Nat]
  /\ lost \in BOOLEAN

Init ==
  /\ original \in Pictures
  /\ source = original
  /\ arr = Blank
  /\ op = "add" /\ stage = "copy"
  /\ buffer = CopyTasks /\ pipe = <<>>
  /\ pc = [w \in Workers |-> "get"]
  /\ task = [w \in Workers |-> NoTask]
  /\ at = [w \in Workers |-> 0]
  /\ lost = FALSE

-----------------------------------------------------------------------------
(* The loop every job runs around get_nowait                               *)

\* Mutant: the loop goes on after Empty.
OnEmptyRetries == "get"

\* except queue.Empty: break.
OnEmpty == "exited"

\* What the worker does with task t.  A block worker cannot unpack a copying
\* task left in the queue: ValueError, which the except clause does not name.
OnTask(t) ==
  IF t.kind # stage THEN "crashed"
  ELSE IF t.kind = "copy" THEN "copy"
  ELSE IF Inner(t) = 0 THEN "get" ELSE "block"

GetTask(w) ==
  /\ \/ Acquire(w, OnEmpty) /\ UNCHANGED at
     \/ PollEmpty(w, OnEmpty) /\ UNCHANGED at
     \/ Receive(w, OnTask(Head(pipe))) /\ at' = [at EXCEPT ![w] = 0]
  /\ UNCHANGED <<imageVars, op, stage, lost>>

-----------------------------------------------------------------------------
(* The three jobs                                                          *)

\* copyImageJob's loop over its bytes, which no other process writes.
Copy(w) ==
  /\ pc[w] = "copy"
  /\ arr' = [i \in Bytes |->
               IF i \in task[w].start .. task[w].end - 1 THEN source[i] ELSE arr[i]]
  /\ pc' = [pc EXCEPT ![w] = "get"]
  /\ UNCHANGED <<original, source, op, stage, buffer, pipe, task, at, lost>>

\* One turn of the pixel loop ends: the next pixel, or the next task.
NextPixel(w) ==
  /\ at' = [at EXCEPT ![w] = @ + 1]
  /\ pc' = [pc EXCEPT ![w] = IF at[w] + 1 = Inner(task[w]) THEN "get" ELSE "block"]
  /\ UNCHANGED <<original, source, op, stage, buffer, pipe, task, lost>>

\* Mutant: AddWatermarkJob visits the pixels as RemoveWatermarkJob does.
AddOrderReversed(blk, k) == Inner(blk) - 1 - k

\* AddWatermarkJob visits the pixels of a block from its first to its last.
AddOrder(blk, k) == k

\* Mutant: RemoveWatermarkJob visits the pixels as AddWatermarkJob does.
RemoveOrderForward(blk, k) == k

\* RemoveWatermarkJob visits them from the last to the first.
RemoveOrder(blk, k) == Inner(blk) - 1 - k

AddWatermarkJob(w) ==
  /\ pc[w] = "block" /\ op = "add"
  /\ LET k == AddOrder(task[w], at[w])
     IN  arr' = AddPixel(arr, task[w], InnerRow(task[w], k), InnerCol(task[w], k))
  /\ NextPixel(w)

RemoveWatermarkJob(w) ==
  /\ pc[w] = "block" /\ op = "remove"
  /\ LET k == RemoveOrder(task[w], at[w])
     IN  arr' = RemovePixel(arr, task[w], InnerRow(task[w], k), InnerCol(task[w], k))
  /\ NextPixel(w)

-----------------------------------------------------------------------------
(* The parent                                                              *)

\* The copying pool has ended: put the blocks, behind what is left in the
\* queue, and start the second pool.
StartBlocks ==
  /\ op # "done" /\ Joined /\ stage = "copy"
  /\ stage' = "block"
  /\ StartPool(buffer \o BlockTasks)
  /\ at' = [w \in Workers |-> 0]
  /\ lost' = (lost \/ Missed)
  /\ UNCHANGED <<imageVars, op, pipe>>

\* The second pool of addWatermark has ended: its array is the picture that
\* removeWatermark is called with, on a new queue and a new array.
StartRemove ==
  /\ Joined /\ stage = "block" /\ op = "add"
  /\ op' = "remove" /\ stage' = "copy"
  /\ source' = arr
  /\ arr' = Blank
  /\ pipe' = <<>>
  /\ StartPool(CopyTasks)
  /\ at' = [w \in Workers |-> 0]
  /\ lost' = (lost \/ Missed)
  /\ UNCHANGED original

\* The second pool of removeWatermark has ended: its array is the result.
Return ==
  /\ Joined /\ stage = "block" /\ op = "remove"
  /\ op' = "done"
  /\ lost' = (lost \/ Missed)
  /\ UNCHANGED <<imageVars, stage, poolVars>>

Worker(w) ==
  GetTask(w) \/ Copy(w) \/ AddWatermarkJob(w) \/ RemoveWatermarkJob(w)

Parent == StartBlocks \/ StartRemove \/ Return

\* The feeder thread of the queue.
Feeder == Feed /\ UNCHANGED <<imageVars, op, stage, at, lost>>

Next == Feeder \/ Parent \/ \E w \in Workers : Worker(w)

Spec == Init /\ [][Next]_vars

\* The operating system schedules every process and the feeder thread.
FairSpec ==
  /\ Spec
  /\ WF_vars(Feeder) /\ WF_vars(Parent)
  /\ \A w \in Workers : WF_vars(Worker(w))

-----------------------------------------------------------------------------
(* What the calls should compute, without processes or an order            *)

\* The bytes the copying tasks cover.
Copied(picture) ==
  [i \in Bytes |-> IF i < number_of_processes * Share THEN picture[i] ELSE 0]

InBlock(blk, h, w) ==
  /\ h \in blk.start_y .. blk.end_y - 1
  /\ w \in blk.start_x .. blk.end_x - 1

\* Every inner pixel marked by its right neighbour as it was before.
Marked(picture) ==
  [i \in Bytes |->
     LET h == (i \div channel) \div width
         w == (i \div channel) % width
         c == i % channel
     IN  IF \E n \in DOMAIN BlockTasks : InBlock(BlockTasks[n], h, w)
         THEN LET blk == BlockTasks[CHOOSE n \in DOMAIN BlockTasks :
                                      InBlock(BlockTasks[n], h, w)]
              IN  AddPixel(picture, blk, h, w)[i]
         ELSE picture[i]]

-----------------------------------------------------------------------------
(* Properties                                                              *)

\* Pixels a block worker reads or writes.
Footprint(blk) == (blk.start_x .. blk.end_x) \X (blk.start_y .. blk.end_y)

\* Two block workers never touch the same pixel, not even to read a neighbour:
\* that is why the array needs no lock (reversible.py 75-92, 134-144).
BlocksApart ==
  \A v, w \in Workers :
    v # w /\ pc[v] = "block" /\ pc[w] = "block" =>
      Footprint(task[v]) \cap Footprint(task[w]) = {}

\* If no task was lost, addWatermark returns what marking every pixel at once
\* would: neither the order of the blocks nor the interleaving of the workers
\* shows in the picture.
MarkingIsSequential ==
  op = "remove" /\ ~ lost => source = Marked(Copied(original))

\* The bytes the division by the number of processes leaves uncopied are all in
\* the last row, which is never marked.  A picture so narrow that its last row
\* has fewer bytes than there are processes may break this.
RestInLastRow == total - number_of_processes * Share <= width * channel

\* If no task was lost and no uncopied byte is marked, removeWatermark of
\* addWatermark(picture) is the picture, but for the uncopied bytes.
PictureRestored ==
  op = "done" /\ ~ lost /\ RestInLastRow => arr = Copied(original)

\* The last row and column of the picture are never marked, whatever is lost:
\* they keep what was copied, so every estimate a removal starts from is the one
\* the marking used, and the uncopied bytes at the end are left alone
\* (reversible.py 84-88, 136-137).
LastRowAndColumnKept ==
  \A i \in Bytes :
    (i \div channel) \div width = height - 1 \/ (i \div channel) % width = width - 1
      => arr[i] \in {0, source[i]}

\* The two calls return, whatever the workers miss: no worker waits for
\* another, and the parent joins processes that end (reversible.py 62-64,
\* 100-102).
CallsReturn == <>(op = "done")

\* reversible.py 75: addWatermark adds the watermark block by block, every block
\* of the picture.  The docstring of the jobs (115-119) reads queue.Empty as "the
\* queue is empty", and the jobs end on it as if all tasks were done.
EveryBlockIsMarked == op = "remove" => source = Marked(Copied(original))
=============================================================================
