----------------------------- MODULE Monotonic -----------------------------
(***************************************************************************)
(* watermarking/monotonic.py: the one-to-one functions F(x, .) the         *)
(* reversible watermark is made of.  F(x, p) is the place of level p when  *)
(* all levels are listed from the nearest to x to the farthest;            *)
(* F_inverse(x, q) is the level in place q of that list.  The module keeps *)
(* both as loops (F, F_inverse), and reversible.py uses the tables FTable  *)
(* and F_inv_Table, 256 rows each, that stand in the file.  Here the       *)
(* tables have a closed form; MonotonicTables compares it with the rows.   *)
(***************************************************************************)
EXTENDS Integers, FiniteSets

CONSTANT
  Depth   \* number of levels of one colour channel (256 in the code)

ASSUME DepthAssumption == Depth \in Nat \ {0}

Level == 0 .. Depth - 1

Distance(x, i) == IF x >= i THEN x - i ELSE i - x

\* find_min prefers i to j: its scan ascends and replaces the level it holds
\* only by a strictly nearer one, so of two equally near levels the lower wins.
Nearer(x, i, j) ==
  \/ Distance(x, i) < Distance(x, j)
  \/ Distance(x, i) = Distance(x, j) /\ i < j

\* Mutant: the scan keeps the last of two equally near levels.
find_last_min(x, data) ==
  IF data = {} THEN 0
  ELSE CHOOSE i \in data : \A j \in data \ {i} :
         Distance(x, i) < Distance(x, j) \/ (Distance(x, i) = Distance(x, j) /\ i > j)

\* The result of the scan over data; 0, its initial value, when data is empty.
find_min(x, data) ==
  IF data = {} THEN 0
  ELSE CHOOSE i \in data : \A j \in data \ {i} : Nearer(x, i, j)

\* The loop of F: remove the nearest level until it is p, and count.  Level p
\* itself is never removed.
F(x, p) ==
  LET q[data \in {d \in SUBSET Level : p \in d}] ==
        LET r == find_min(x, data)
        IN  IF r = p THEN 0 ELSE 1 + q[data \ {r}]
  IN  q[Level]

\* The loop of F_inverse: remove the nearest level q times, return the next.
F_inverse(x, q) ==
  LET p[k \in 0 .. q] ==       \* the levels left after k removals
        IF k = 0 THEN Level ELSE p[k - 1] \ {find_min(x, p[k - 1])}
  IN  find_min(x, p[q])

\* The levels F removes before it meets p.
Before(x, p) == {i \in Level : Nearer(x, i, p)}

\* FTable[x][p] = F(x, p): the number of levels removed before p.
FTable == [x \in Level |-> [p \in Level |-> Cardinality(Before(x, p))]]

\* Mutant: the inverse table is shifted by one place.
ShiftedInverse ==
  [x \in Level |-> [q \in Level |->
     CHOOSE p \in Level : FTable[x][p] = (q + 1) % Depth]]

\* A row of F_inv_Table: the level in each place of a row of FTable.
InverseRow(row) == [q \in Level |-> CHOOSE p \in Level : row[p] = q]

\* F_inv_Table[x][q] = F_inverse(x, q): the level in place q.
F_inv_Table == [x \in Level |-> InverseRow(FTable[x])]

\* Mutant: shift the level by the difference of mark and estimate.
AdditiveMark(a, b, p) == p - a + b

\* What addWatermark stores for level p next to a under mark level b, and what
\* removeWatermark computes from it: reversible.py 144 and 261.
MarkLevel(a, b, p) == F_inv_Table[b][FTable[a][p]]

\* Mutant: removal uses estimate and mark as marking does.
MarkAgain(a, b, q) == F_inv_Table[b][FTable[a][q]]

UnmarkLevel(a, b, q) == F_inv_Table[a][FTable[b][q]]
=============================================================================
