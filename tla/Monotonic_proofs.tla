-------------------------- MODULE Monotonic_proofs --------------------------
(***************************************************************************)
(* For every number of levels: the tables of monotonic.py are permutations *)
(* that are inverse to each other, and they are what its loops compute.    *)
(***************************************************************************)
EXTENDS Monotonic, FiniteSetTheorems, FunctionTheorems, WellFoundedInduction, TLAPS

LEMMA LevelFinite ==
  IsFiniteSet(Level) /\ Cardinality(Level) = Depth
<1>1. Depth \in Nat \ {0}
  BY DepthAssumption
<1>2. 0 \in Int /\ Depth - 1 \in Int
  BY <1>1
<1>3. IsFiniteSet(0 .. Depth - 1)
  BY <1>2, FS_Interval, Zenon
<1>4. Cardinality(0 .. Depth - 1) = IF 0 > Depth - 1 THEN 0 ELSE Depth - 1 - 0 + 1
  BY <1>2, FS_Interval, Zenon
<1> QED
  BY <1>1, <1>3, <1>4 DEF Level

LEMMA LevelInt == Level \subseteq Int
  BY DepthAssumption DEF Level

-----------------------------------------------------------------------------
(* find_min orders the levels                                              *)

LEMMA NearerTotal ==
  ASSUME NEW x \in Level, NEW i \in Level, NEW j \in Level, i # j
  PROVE  Nearer(x, i, j) \/ Nearer(x, j, i)
  BY LevelInt DEF Nearer, Distance

LEMMA NearerTransitive ==
  ASSUME NEW x \in Level, NEW i \in Level, NEW j \in Level, NEW k \in Level,
         Nearer(x, i, j), Nearer(x, j, k)
  PROVE  Nearer(x, i, k)
  BY LevelInt DEF Nearer, Distance

LEMMA NearerIrreflexive ==
  ASSUME NEW x \in Level, NEW i \in Level
  PROVE  ~ Nearer(x, i, i)
  BY LevelInt DEF Nearer, Distance

-----------------------------------------------------------------------------
(* A row of FTable is a strictly monotonic permutation of the levels       *)

LEMMA BeforeFinite ==
  ASSUME NEW x \in Level, NEW p1 \in Level
  PROVE  /\ IsFiniteSet(Before(x, p1))
         /\ Cardinality(Before(x, p1)) \in Nat
<1>1. Before(x, p1) \in SUBSET Level
  BY DEF Before
<1>2. IsFiniteSet(Before(x, p1))
  BY <1>1, LevelFinite, FS_Subset, Zenon
<1> QED
  BY <1>2, FS_CardinalityType, Zenon

LEMMA PlaceIsLevel ==
  ASSUME NEW x \in Level, NEW p1 \in Level
  PROVE  FTable[x][p1] \in Level
<1>1. Before(x, p1) \in SUBSET Level /\ Before(x, p1) # Level
  BY NearerIrreflexive DEF Before
<1>2. Cardinality(Before(x, p1)) <= Cardinality(Level)
  BY <1>1, LevelFinite, FS_Subset, Zenon
<1>3. Cardinality(Before(x, p1)) # Cardinality(Level)
  BY <1>1, LevelFinite, FS_Subset, Zenon
<1>4. Cardinality(Before(x, p1)) \in Nat
  BY BeforeFinite
<1> QED
  BY <1>2, <1>3, <1>4, LevelFinite, DepthAssumption DEF FTable, Level

\* A nearer level has a smaller place.
LEMMA PlaceIsMonotonic ==
  ASSUME NEW x \in Level, NEW i \in Level, NEW j \in Level, Nearer(x, i, j)
  PROVE  FTable[x][i] < FTable[x][j]
<1>1. Before(x, i) \in SUBSET Before(x, j)
  BY NearerTransitive DEF Before
<1>2. i \in Before(x, j) /\ i \notin Before(x, i)
  BY NearerIrreflexive DEF Before
<1>3. Before(x, i) # Before(x, j)
  BY <1>2
<1>4. IsFiniteSet(Before(x, j))
  BY BeforeFinite
<1>5. /\ Cardinality(Before(x, i)) <= Cardinality(Before(x, j))
      /\ Cardinality(Before(x, i)) # Cardinality(Before(x, j))
  BY <1>1, <1>3, <1>4, FS_Subset, Zenon
<1>6. Cardinality(Before(x, i)) \in Nat /\ Cardinality(Before(x, j)) \in Nat
  BY BeforeFinite
<1> QED
  BY <1>5, <1>6 DEF FTable

\* ... and a smaller place a nearer level.
LEMMA PlaceReflectsOrder ==
  ASSUME NEW x \in Level, NEW i \in Level, NEW j \in Level,
         FTable[x][i] < FTable[x][j]
  PROVE  Nearer(x, i, j)
<1>1. FTable[x][i] \in Int /\ FTable[x][j] \in Int
  BY PlaceIsLevel, LevelInt
<1>2. i # j
  BY <1>1
<1>3. CASE Nearer(x, j, i)
  BY <1>1, <1>3, PlaceIsMonotonic
<1> QED
  BY <1>2, <1>3, NearerTotal

LEMMA PlaceIsInjective ==
  ASSUME NEW x \in Level, NEW i \in Level, NEW j \in Level, i # j
  PROVE  FTable[x][i] # FTable[x][j]
<1>1. FTable[x][i] \in Int /\ FTable[x][j] \in Int
  BY PlaceIsLevel, LevelInt
<1>2. FTable[x][i] < FTable[x][j] \/ FTable[x][j] < FTable[x][i]
  BY NearerTotal, PlaceIsMonotonic
<1> QED
  BY <1>1, <1>2

LEMMA PlaceIsSurjective ==
  ASSUME NEW x \in Level, NEW q1 \in Level
  PROVE  \E p1 \in Level : FTable[x][p1] = q1
<1> DEFINE f == [p1 \in Level |-> FTable[x][p1]]
<1>1. f \in [Level -> Level]
  BY PlaceIsLevel
<1>2. \A i, j \in Level : f[i] = f[j] => i = j
  BY PlaceIsInjective
<1>3. f \in Injection(Level, Level)
  BY <1>1, <1>2 DEF Injection, IsInjective
<1>4. f \in Surjection(Level, Level)
  BY <1>3, LevelFinite, FS_Injection, Zenon
<1>5. \E p1 \in Level : f[p1] = q1
  BY <1>4 DEF Surjection
<1> QED
  BY <1>5

-----------------------------------------------------------------------------
(* The two tables are inverse to each other                                *)

LEMMA LookupInverse ==
  ASSUME NEW x \in Level, NEW q1 \in Level
  PROVE  /\ F_inv_Table[x][q1] \in Level
         /\ FTable[x][F_inv_Table[x][q1]] = q1
<1>1. \E p1 \in Level : FTable[x][p1] = q1
  BY PlaceIsSurjective
<1>2. F_inv_Table[x][q1] = CHOOSE p1 \in Level : FTable[x][p1] = q1
  BY DEF F_inv_Table, InverseRow
<1> QED
  BY <1>1, <1>2, Zenon

\* F_inverse undoes F: the table of monotonic.py 262-519 inverts that of 2-259.
THEOREM TablesAreInverse ==
  ASSUME NEW x \in Level, NEW p1 \in Level
  PROVE  F_inv_Table[x][FTable[x][p1]] = p1
<1>1. FTable[x][p1] \in Level
  BY PlaceIsLevel
<1>2. /\ F_inv_Table[x][FTable[x][p1]] \in Level
      /\ FTable[x][F_inv_Table[x][FTable[x][p1]]] = FTable[x][p1]
  BY <1>1, LookupInverse
<1> QED
  BY <1>2, PlaceIsInjective

LEMMA MarkIsLevel ==
  ASSUME NEW u \in Level, NEW v \in Level, NEW p1 \in Level
  PROVE  MarkLevel(u, v, p1) \in Level /\ UnmarkLevel(u, v, p1) \in Level
  BY PlaceIsLevel, LookupInverse DEF MarkLevel, UnmarkLevel

\* Removing the mark v from a pixel marked next to u gives the pixel back, for
\* every u, v and pixel: what main.py 6-14 tries for one choice of levels.
THEOREM UnmarkUndoesMark ==
  ASSUME NEW u \in Level, NEW v \in Level, NEW p1 \in Level
  PROVE  UnmarkLevel(u, v, MarkLevel(u, v, p1)) = p1
<1>1. FTable[u][p1] \in Level
  BY PlaceIsLevel
<1>2. FTable[v][MarkLevel(u, v, p1)] = FTable[u][p1]
  BY <1>1, LookupInverse DEF MarkLevel
<1> QED
  BY <1>2, TablesAreInverse DEF UnmarkLevel

\* Of two levels, the one nearer to the estimate is marked nearer to the mark.
LEMMA MarkIsMonotonic ==
  ASSUME NEW u \in Level, NEW v \in Level, NEW i \in Level, NEW j \in Level,
         Nearer(u, i, j)
  PROVE  Nearer(v, MarkLevel(u, v, i), MarkLevel(u, v, j))
<1>1. FTable[u][i] \in Level /\ FTable[u][j] \in Level
  BY PlaceIsLevel
<1>2. /\ FTable[v][MarkLevel(u, v, i)] = FTable[u][i]
      /\ FTable[v][MarkLevel(u, v, j)] = FTable[u][j]
  BY <1>1, LookupInverse DEF MarkLevel
<1>3. FTable[u][i] < FTable[u][j]
  BY PlaceIsMonotonic
<1> QED
  BY <1>2, <1>3, MarkIsLevel, PlaceReflectsOrder

-----------------------------------------------------------------------------
(* The loops compute the tables                                            *)

\* Of a set of numbers one is the least.
LEMMA LeastNumber ==
  ASSUME NEW T, T \subseteq Nat, T # {}
  PROVE  \E n \in T : \A m \in T : n <= m
<1>1. IsWellFoundedOn(OpToRel(<, Nat), Nat)
  BY NatLessThanWellFounded, Zenon
<1>2. PICK n \in T : \A m \in T : ~ (<<m, n>> \in OpToRel(<, Nat))
  BY <1>1, WFMin, Zenon
<1>3. \A m \in T : ~ (m < n)
  BY <1>2 DEF OpToRel
<1> QED
  BY <1>3

\* The scan returns the nearest level, wherever it meets it.
LEMMA ScanFindsNearest ==
  ASSUME NEW x \in Level, NEW data \in SUBSET Level, NEW i \in data,
         \A j \in data \ {i} : Nearer(x, i, j)
  PROVE  find_min(x, data) = i
<1>1. PICK r : r = CHOOSE k \in data : \A j \in data \ {k} : Nearer(x, k, j)
  OBVIOUS
<1>2. r \in data /\ \A j \in data \ {r} : Nearer(x, r, j)
  BY <1>1, Zenon
<1>3. r = i
  <2>1. ASSUME r # i PROVE FALSE
    <3>1. Nearer(x, r, i) /\ Nearer(x, i, r)
      BY <1>2, <2>1
    <3>2. Nearer(x, r, r)
      BY <1>2, <3>1, NearerTransitive
    <3> QED
      BY <1>2, <3>2, NearerIrreflexive
  <2> QED
    BY <2>1
<1> QED
  BY <1>1, <1>3 DEF find_min

\* The levels left after n removals: those in place n and beyond.
Left(x, n) == {i \in Level : FTable[x][i] >= n}

\* One removal.
LEMMA Removal ==
  ASSUME NEW x \in Level, NEW n \in Level
  PROVE  /\ find_min(x, Left(x, n)) = F_inv_Table[x][n]
         /\ Left(x, n) \ {F_inv_Table[x][n]} = Left(x, n + 1)
<1> DEFINE r == F_inv_Table[x][n]
<1>0. n \in Nat
  BY DepthAssumption DEF Level
<1>1. r \in Level /\ FTable[x][r] = n
  BY LookupInverse
<1>2. \A i \in Level : FTable[x][i] \in Int
  BY PlaceIsLevel, LevelInt
<1>3. \A i \in Level \ {r} : FTable[x][i] # n
  BY <1>1, PlaceIsInjective
<1> HIDE DEF r
<1>4. r \in Left(x, n) /\ Left(x, n) \in SUBSET Level
  BY <1>0, <1>1 DEF Left
<1>5. \A j \in Left(x, n) \ {r} : Nearer(x, r, j)
  <2> SUFFICES ASSUME NEW j \in Left(x, n), j # r PROVE Nearer(x, r, j)
    OBVIOUS
  <2>1. j \in Level /\ FTable[x][r] < FTable[x][j]
    BY <1>0, <1>1, <1>2, <1>3 DEF Left
  <2> QED
    BY <1>1, <2>1, PlaceReflectsOrder
<1>6. find_min(x, Left(x, n)) = r
  BY <1>4, <1>5, ScanFindsNearest
<1>7. Left(x, n) \ {r} = Left(x, n + 1)
  BY <1>0, <1>1, <1>2, <1>3 DEF Left
<1> QED
  BY <1>6, <1>7 DEF r

LEMMA AllLeft ==
  ASSUME NEW x \in Level
  PROVE  Left(x, 0) = Level
<1>1. \A i \in Level : FTable[x][i] \in Level
  BY PlaceIsLevel
<1> QED
  BY <1>1, DepthAssumption DEF Left, Level

\* After k turns of the loop of F_inverse the levels in the first k places are
\* gone, so what it returns is the entry of the table (monotonic.py 535-543
\* against 262-519).
THEOREM InverseTableIsLoop ==
  ASSUME NEW x \in Level, NEW n \in Level
  PROVE  F_inverse(x, n) = F_inv_Table[x][n]
<1> DEFINE Turns(f) ==
             f = [k \in 0 .. n |-> IF k = 0 THEN Level ELSE f[k - 1] \ {find_min(x, f[k - 1])}]
           g == [k \in 0 .. n |-> Left(x, k)]
<1>0. n \in Nat /\ \A k \in 1 .. n : k - 1 \in Level /\ k - 1 \in 0 .. n /\ (k - 1) + 1 = k
  BY DepthAssumption DEF Level
<1>r. \A k \in 1 .. n : Left(x, k) = Left(x, k - 1) \ {find_min(x, Left(x, k - 1))}
  BY <1>0, Removal
<1>1. Turns(g)
  <2>1. \A k \in 0 .. n : k # 0 => k \in 1 .. n
    BY <1>0
  <2>2. \A k \in 0 .. n :
          Left(x, k) = IF k = 0 THEN Level ELSE g[k - 1] \ {find_min(x, g[k - 1])}
    BY <2>1, <1>0, <1>r, AllLeft
  <2> QED
    BY <2>2
<1>2. PICK p : p = CHOOSE f : Turns(f)
  OBVIOUS
<1>3. Turns(p)
  BY <1>1, <1>2, Zenon
<1>4. F_inverse(x, n) = find_min(x, p[n])
  BY <1>2, Zenon DEF F_inverse
<1>5. p[0] = Level /\ \A k \in 1 .. n : p[k] = p[k - 1] \ {find_min(x, p[k - 1])}
  <2>1. 0 \in 0 .. n /\ \A k \in 1 .. n : k \in 0 .. n /\ k # 0
    BY <1>0
  <2>2. p = [k \in 0 .. n |-> IF k = 0 THEN Level ELSE p[k - 1] \ {find_min(x, p[k - 1])}]
    BY <1>3, Zenon
  <2>3. \A k \in 0 .. n : p[k] = IF k = 0 THEN Level ELSE p[k - 1] \ {find_min(x, p[k - 1])}
    BY <2>2, Zenon
  <2> QED
    BY <2>1, <2>3, Zenon
<1> HIDE DEF Turns, g
<1> DEFINE T == {k \in 0 .. n : p[k] # Left(x, k)}
<1>6. T = {}
  <2> SUFFICES ASSUME T # {} PROVE FALSE
    OBVIOUS
  <2>0. T \subseteq Nat
    BY <1>0
  <2>1. PICK k \in T : \A m \in T : k <= m
    BY <2>0, LeastNumber
  <2>2. k # 0
    BY <1>5, AllLeft
  <2>3. k \in 1 .. n /\ k - 1 \in 0 .. n /\ k - 1 < k
    BY <1>0, <2>2
  <2>4. p[k - 1] = Left(x, k - 1)
    BY <1>0, <2>1, <2>3
  <2> QED
    BY <1>5, <1>r, <2>3, <2>4
<1>7. p[n] = Left(x, n)
  BY <1>0, <1>6
<1> QED
  BY <1>4, <1>7, Removal

\* The levels of data nearer to x than p: those the loop of F is going to remove.
Nearest(x, p, data) == {i \in data : Nearer(x, i, p)}

\* A turn of the loop of F finds p, or removes a level nearer than p.
LEMMA OneTurnOfF ==
  ASSUME NEW x \in Level, NEW p \in Level, NEW data \in SUBSET Level, p \in data
  PROVE  /\ find_min(x, data) \in data
         /\ find_min(x, data) = p => Cardinality(Nearest(x, p, data)) = 0
         /\ find_min(x, data) # p =>
              /\ find_min(x, data) \in Nearest(x, p, data)
              /\ Nearest(x, p, data \ {find_min(x, data)})
                   = Nearest(x, p, data) \ {find_min(x, data)}
              /\ Cardinality(Nearest(x, p, data))
                   = 1 + Cardinality(Nearest(x, p, data \ {find_min(x, data)}))
<1> DEFINE Places == {FTable[x][i] : i \in data}
<1>1. PICK n \in Places : \A m \in Places : n <= m
  <2>1. Places \subseteq Nat /\ Places # {}
    BY PlaceIsLevel, DepthAssumption DEF Level
  <2> QED
    BY <2>1, LeastNumber
<1>2. PICK r \in data : FTable[x][r] = n
  OBVIOUS
<1>3. \A j \in data \ {r} : Nearer(x, r, j)
  <2> SUFFICES ASSUME NEW j \in data, j # r PROVE Nearer(x, r, j)
    OBVIOUS
  <2>1. FTable[x][r] <= FTable[x][j] /\ FTable[x][r] # FTable[x][j]
    BY <1>1, <1>2, PlaceIsInjective
  <2>2. FTable[x][r] \in Int /\ FTable[x][j] \in Int
    BY PlaceIsLevel, LevelInt
  <2> QED
    BY <2>1, <2>2, PlaceReflectsOrder
<1>4. find_min(x, data) = r
  BY <1>3, ScanFindsNearest
<1>5. r = p => Nearest(x, p, data) = {}
  <2> SUFFICES ASSUME r = p, NEW i \in data, Nearer(x, i, p) PROVE FALSE
    BY DEF Nearest
  <2>1. i # p
    BY NearerIrreflexive
  <2>2. Nearer(x, p, i)
    BY <1>3, <2>1
  <2>3. Nearer(x, p, p)
    BY <2>2, NearerTransitive
  <2> QED
    BY <2>3, NearerIrreflexive
<1>6. ASSUME r # p
      PROVE  /\ r \in Nearest(x, p, data)
             /\ Nearest(x, p, data \ {r}) = Nearest(x, p, data) \ {r}
             /\ Cardinality(Nearest(x, p, data)) = 1 + Cardinality(Nearest(x, p, data \ {r}))
  <2>1. r \in Nearest(x, p, data) /\ Nearest(x, p, data \ {r}) = Nearest(x, p, data) \ {r}
    BY <1>3, <1>6 DEF Nearest
  <2>2. Nearest(x, p, data) \in SUBSET Level
    BY DEF Nearest
  <2>3. IsFiniteSet(Nearest(x, p, data))
    BY <2>2, LevelFinite, FS_Subset, Zenon
  <2>4. Cardinality(Nearest(x, p, data) \ {r}) = Cardinality(Nearest(x, p, data)) - 1
    BY <2>1, <2>3, FS_RemoveElement, Zenon
  <2>5. Cardinality(Nearest(x, p, data)) \in Nat
    BY <2>3, FS_CardinalityType, Zenon
  <2>6. Cardinality(Nearest(x, p, data)) = 1 + Cardinality(Nearest(x, p, data) \ {r})
    BY <2>4, <2>5
  <2> QED
    BY <2>1, <2>6, Zenon
<1>7. Cardinality({}) = 0
  BY FS_EmptySet
<1> QED
  BY <1>4, <1>5, <1>6, <1>7

\* The loop of F counts the levels it removes before it meets p, so what it
\* returns is the entry of the table (monotonic.py 522-532 against 2-259).
THEOREM TableIsLoop ==
  ASSUME NEW x \in Level, NEW p \in Level
  PROVE  F(x, p) = FTable[x][p]
<1> DEFINE D == {d \in SUBSET Level : p \in d}
           Turns(f) ==
             f = [data \in D |->
                    LET r == find_min(x, data)
                    IN  IF r = p THEN 0 ELSE 1 + f[data \ {r}]]
           C(data) == Cardinality(Nearest(x, p, data))
           g == [data \in D |-> C(data)]
<1>1. \A data \in D :
        /\ find_min(x, data) = p => C(data) = 0
        /\ find_min(x, data) # p =>
             /\ data \ {find_min(x, data)} \in D
             /\ C(data) = 1 + C(data \ {find_min(x, data)})
  BY OneTurnOfF
<1> HIDE DEF C
<1>2. Turns(g)
  BY <1>1
<1>3. PICK q : q = CHOOSE f : Turns(f)
  OBVIOUS
<1>4. Turns(q)
  BY <1>2, <1>3, Zenon
<1>5. F(x, p) = q[Level]
  BY <1>3, Zenon DEF F
<1>6. \A data \in D :
        /\ find_min(x, data) = p => q[data] = 0
        /\ find_min(x, data) # p => q[data] = 1 + q[data \ {find_min(x, data)}]
  BY <1>4
<1>7. \A data \in D : C(data) \in Nat
  <2> SUFFICES ASSUME NEW data \in D PROVE C(data) \in Nat
    OBVIOUS
  <2>1. Nearest(x, p, data) \in SUBSET Level
    BY DEF Nearest
  <2>2. IsFiniteSet(Nearest(x, p, data))
    BY <2>1, LevelFinite, FS_Subset, Zenon
  <2> QED
    BY <2>2, FS_CardinalityType, Zenon DEF C
<1> HIDE DEF Turns, g
<1> DEFINE Wrong == {data \in D : q[data] # C(data)}
           T == {C(data) : data \in Wrong}
<1>8. Wrong = {}
  <2> SUFFICES ASSUME Wrong # {} PROVE FALSE
    OBVIOUS
  <2>1. T \subseteq Nat /\ T # {}
    BY <1>7
  <2>2. PICK n \in T : \A m \in T : n <= m
    BY <2>1, LeastNumber
  <2>3. PICK data \in Wrong : C(data) = n
    OBVIOUS
  <2>4. find_min(x, data) # p
    BY <1>1, <1>6
  <2>5. /\ data \ {find_min(x, data)} \in D
        /\ C(data) = 1 + C(data \ {find_min(x, data)})
        /\ q[data] = 1 + q[data \ {find_min(x, data)}]
    BY <1>1, <1>6, <2>4
  <2>6. data \ {find_min(x, data)} \in Wrong
    BY <2>5
  <2>7. C(data \ {find_min(x, data)}) \in T
    BY <2>6
  <2>8. n <= C(data \ {find_min(x, data)})
    BY <2>2, <2>7
  <2>9. n \in Nat /\ C(data \ {find_min(x, data)}) \in Nat
    BY <1>7, <2>1, <2>5
  <2> QED
    BY <2>3, <2>5, <2>8, <2>9
<1>9. Level \in D
  OBVIOUS
<1>10. Nearest(x, p, Level) = Before(x, p)
  BY DEF Nearest, Before
<1> QED
  BY <1>5, <1>8, <1>9, <1>10 DEF FTable, C
=============================================================================
