----------------------------- MODULE Puf_proofs -----------------------------
(***************************************************************************)
(* The safety properties of PufJob, for IDs of any length, any record, any *)
(* size of int and any number of failed attempts, and of PufPipeline, for  *)
(* any number of files and runs.                                           *)
(***************************************************************************)
EXTENDS PufPipeline, PufJob, FiniteSetTheorems, WellFoundedInduction, TLAPS

-----------------------------------------------------------------------------
(* Finite sets                                                             *)

\* Of a set of numbers one is the least.
LEMMA LeastNumber ==
  ASSUME NEW T, T \subseteq Nat, T # {}
  PROVE  \E n \in T : \A m \in T : n <= m
<1>1. IsWellFoundedOn(OpToRel(<, Nat), Nat)
  BY NatLessThanWellFounded, Zenon
<1>2. PICK n \in T : \A m \in T : ~ (<<m, n>> \in OpToRel(<, Nat))
  BY <1>1, WFMin, Zenon
<1>3. \A m \in T : ~ (m < n)
  BY <1>2 DEF OpToRel
<1> QED
  BY <1>3

\* Induction on the subsets of a finite set: a family that has a set whenever it
\* has those of one element less has them all.
LEMMA SetInduction ==
  ASSUME NEW S, IsFiniteSet(S), NEW C,
         \A T \in SUBSET S : (\A x \in T : T \ {x} \in C) => T \in C
  PROVE  \A T \in SUBSET S : T \in C
<1> DEFINE Bad == {T \in SUBSET S : T \notin C}
           Sizes == {Cardinality(T) : T \in Bad}
<1> SUFFICES ASSUME Bad # {} PROVE FALSE
  OBVIOUS
<1>1. \A T \in SUBSET S : IsFiniteSet(T) /\ Cardinality(T) \in Nat
  BY FS_Subset, FS_CardinalityType
<1>2. PICK n \in Sizes : \A m \in Sizes : n <= m
  <2>1. Sizes \subseteq Nat /\ Sizes # {}
    BY <1>1
  <2> HIDE DEF Sizes
  <2> QED
    BY <2>1, LeastNumber, Zenon
<1>3. PICK T \in Bad : Cardinality(T) = n
  BY <1>2
<1>4. ASSUME NEW x \in T PROVE T \ {x} \in C
  <2>1. Cardinality(T \ {x}) = n - 1 /\ n \in Nat
    BY <1>1, <1>3, FS_RemoveElement
  <2> QED
    BY <1>2, <1>3, <2>1
<1> QED
  BY <1>3, <1>4

-----------------------------------------------------------------------------
(* Sums over a set                                                         *)

\* The element that is added first.
Picked(s) == CHOOSE x \in s : TRUE

\* The recursion by which a sum over the subsets of S is defined.
SumsUp(f, S, h) ==
  h = [s \in SUBSET S |-> IF s = {} THEN 0 ELSE f[Picked(s)] + h[s \ {Picked(s)}]]

SumOf(f, S) == (CHOOSE h : SumsUp(f, S, h))[S]

LEMMA SumIs ==
  ASSUME NEW f, NEW S
  PROVE  SumFunctionOnSet(f, S) = SumOf(f, S)
BY DEF SumFunctionOnSet, FoldFunctionOnSet, MapThenFoldSet, SumOf, SumsUp, Picked

LEMMA SumsExist ==
  ASSUME NEW f, NEW S, IsFiniteSet(S)
  PROVE  \E h : SumsUp(f, S, h)
<1> DEFINE Small(n) == {s \in SUBSET S : Cardinality(s) <= n}
           Upto(h, n) == h = [s \in Small(n) |->
             IF s = {} THEN 0 ELSE f[Picked(s)] + h[s \ {Picked(s)}]]
           Bad == {n \in Nat : ~ \E h : Upto(h, n)}
<1>1. \A s \in SUBSET S : IsFiniteSet(s) /\ Cardinality(s) \in Nat
  BY FS_Subset, FS_CardinalityType
<1>2. \A s \in SUBSET S : s # {} =>
        Picked(s) \in s /\ Cardinality(s \ {Picked(s)}) = Cardinality(s) - 1
  BY <1>1, FS_RemoveElement DEF Picked
<1>3. Bad = {}
  <2> SUFFICES ASSUME Bad # {} PROVE FALSE
    OBVIOUS
  <2>1. PICK n \in Bad : \A m \in Bad : n <= m
    <3>1. Bad \subseteq Nat
      OBVIOUS
    <3> HIDE DEF Bad
    <3> QED
      BY <3>1, LeastNumber, Zenon
  <2>2. CASE n = 0
    <3> DEFINE h == [s \in Small(0) |-> 0]
    <3>1. \A s \in Small(0) : s = {}
      BY <1>1, FS_EmptySet
    <3>2. Upto(h, 0)
      BY <3>1
    <3> QED
      BY <2>1, <2>2, <3>2
  <2>3. CASE n # 0
    <3>1. n - 1 \in Nat /\ n - 1 \notin Bad
      <4>1. n \in Nat
        OBVIOUS
      <4> HIDE DEF Bad
      <4> QED
        BY <2>1, <2>3, <4>1
    <3>2. PICK h : Upto(h, n - 1)
      BY <3>1
    <3> DEFINE g == [s \in Small(n) |->
             IF s = {} THEN 0 ELSE f[Picked(s)] + h[s \ {Picked(s)}]]
    <3>3. ASSUME NEW s \in Small(n), s # {}
          PROVE  g[s \ {Picked(s)}] = h[s \ {Picked(s)}]
      <4>1. s \ {Picked(s)} \in Small(n - 1) /\ s \ {Picked(s)} \in Small(n)
        BY <1>1, <1>2, <3>1, <3>3
      <4>2. \A t \in Small(n - 1) : h[t] =
               IF t = {} THEN 0 ELSE f[Picked(t)] + h[t \ {Picked(t)}]
        BY <3>2
      <4> HIDE DEF Small
      <4> QED
        BY <4>1, <4>2, Zenon
    <3>4. Upto(g, n)
      <4> HIDE DEF Small
      <4> QED
        BY <3>3
    <3> QED
      BY <2>1, <3>4
  <2> QED
    BY <2>2, <2>3
<1>4. Cardinality(S) \in Nat /\ Small(Cardinality(S)) = SUBSET S
  BY <1>1, FS_Subset
<1>5. PICK h : Upto(h, Cardinality(S))
  BY <1>3, <1>4
<1> HIDE DEF Small
<1> QED
  BY <1>4, <1>5 DEF SumsUp

LEMMA SumsAgree ==
  ASSUME NEW f, NEW S, IsFiniteSet(S), NEW T \in SUBSET S,
         NEW h, SumsUp(f, S, h), NEW g, SumsUp(f, T, g)
  PROVE  h[T] = g[T]
<1> DEFINE C == {t \in SUBSET T : h[t] = g[t]}
<1>1. IsFiniteSet(T)
  BY FS_Subset
<1>2. ASSUME NEW t \in SUBSET T, \A x \in t : t \ {x} \in C
      PROVE  t \in C
  <2>1. h[t] = IF t = {} THEN 0 ELSE f[Picked(t)] + h[t \ {Picked(t)}]
    BY Zenon DEF SumsUp
  <2>2. g[t] = IF t = {} THEN 0 ELSE f[Picked(t)] + g[t \ {Picked(t)}]
    BY Zenon DEF SumsUp
  <2>3. t # {} => Picked(t) \in t
    BY DEF Picked
  <2> QED
    BY <1>2, <2>1, <2>2, <2>3
<1>3. \A t \in SUBSET T : t \in C
  <2> HIDE DEF C
  <2> QED
    BY <1>1, <1>2, SetInduction
<1> QED
  BY <1>3

LEMMA SumRecursion ==
  ASSUME NEW f, NEW S, IsFiniteSet(S)
  PROVE  SumOf(f, S) = IF S = {} THEN 0 ELSE f[Picked(S)] + SumOf(f, S \ {Picked(S)})
<1> DEFINE T == S \ {Picked(S)}
<1>1. T \in SUBSET S /\ IsFiniteSet(T)
  BY FS_Subset
<1>2. PICK h : h = CHOOSE e : SumsUp(f, S, e)
  OBVIOUS
<1>3. SumsUp(f, S, h)
  BY <1>2, SumsExist, Zenon
<1>4. PICK g : g = CHOOSE e : SumsUp(f, T, e)
  OBVIOUS
<1>5. SumsUp(f, T, g)
  BY <1>1, <1>4, SumsExist, Zenon
<1>6. h[T] = g[T]
  <2> HIDE DEF T
  <2> QED
    BY <1>1, <1>3, <1>5, SumsAgree
<1>7. h[S] = IF S = {} THEN 0 ELSE f[Picked(S)] + h[T]
  BY <1>3, S \in SUBSET S, Zenon DEF SumsUp
<1> QED
  BY <1>2, <1>4, <1>6, <1>7 DEF SumOf

LEMMA SumType ==
  ASSUME NEW f, NEW S, IsFiniteSet(S), \A x \in S : f[x] \in Int
  PROVE  \A T \in SUBSET S : SumOf(f, T) \in Int
<1> DEFINE C == {T \in SUBSET S : SumOf(f, T) \in Int}
<1>1. ASSUME NEW T \in SUBSET S, \A x \in T : T \ {x} \in C
      PROVE  T \in C
  <2>1. SumOf(f, T) = IF T = {} THEN 0 ELSE f[Picked(T)] + SumOf(f, T \ {Picked(T)})
    BY FS_Subset, SumRecursion
  <2>2. T # {} => Picked(T) \in T
    BY DEF Picked
  <2> QED
    BY <1>1, <2>1, <2>2
<1>2. \A T \in SUBSET S : T \in C
  <2> HIDE DEF C
  <2> QED
    BY <1>1, SetInduction
<1> QED
  BY <1>2

\* Any element may be added first, as addition does not mind the order.
LEMMA SumTakeOut ==
  ASSUME NEW f, NEW S, IsFiniteSet(S), \A x \in S : f[x] \in Int
  PROVE  /\ SumOf(f, S) \in Int
         /\ S = {} => SumOf(f, S) = 0
         /\ \A x \in S : SumOf(f, S) = f[x] + SumOf(f, S \ {x})
<1> DEFINE Good(T) == /\ SumOf(f, T) \in Int
                      /\ T = {} => SumOf(f, T) = 0
                      /\ \A x \in T : SumOf(f, T) = f[x] + SumOf(f, T \ {x})
           C == {T \in SUBSET S : Good(T)}
<1>1. ASSUME NEW T \in SUBSET S, \A x \in T : T \ {x} \in C
      PROVE  T \in C
  <2> DEFINE c == Picked(T)
  <2>1. SumOf(f, T) = IF T = {} THEN 0 ELSE f[c] + SumOf(f, T \ {c})
    BY FS_Subset, SumRecursion
  <2>2. T # {} => c \in T
    BY DEF Picked
  <2> HIDE DEF c
  <2>3. SumOf(f, T) \in Int
    BY SumType
  <2>4. ASSUME NEW x \in T PROVE SumOf(f, T) = f[x] + SumOf(f, T \ {x})
    <3>1. CASE x = c
      BY <2>1, <3>1
    <3>2. CASE x # c
      <4>1. c \in T /\ x \in T \ {c} /\ c \in T \ {x}
        BY <2>2, <3>2
      <4>2. SumOf(f, T \ {c}) = f[x] + SumOf(f, (T \ {c}) \ {x})
        BY <1>1, <4>1
      <4>3. SumOf(f, T \ {x}) = f[c] + SumOf(f, (T \ {x}) \ {c})
        BY <1>1, <4>1
      <4>4. (T \ {c}) \ {x} = (T \ {x}) \ {c}
        OBVIOUS
      <4>5. SumOf(f, (T \ {x}) \ {c}) \in Int /\ f[x] \in Int /\ f[c] \in Int
        BY <4>1, SumType
      <4>6. PICK r \in Int : r = SumOf(f, (T \ {x}) \ {c})
        BY <4>5
      <4>7. SumOf(f, T \ {c}) = f[x] + r /\ SumOf(f, T \ {x}) = f[c] + r
        BY <4>2, <4>3, <4>4, <4>6
      <4>8. SumOf(f, T) = f[c] + SumOf(f, T \ {c})
        BY <2>1
      <4> HIDE DEF C
      <4> QED
        BY <4>5, <4>7, <4>8
    <3> QED
      BY <3>1, <3>2
  <2> QED
    BY <2>1, <2>3, <2>4
<1>2. \A T \in SUBSET S : T \in C
  <2> HIDE DEF C
  <2> QED
    BY <1>1, SetInduction
<1> QED
  BY <1>2

LEMMA SumSingle ==
  ASSUME NEW f, NEW x, f[x] \in Int
  PROVE  SumOf(f, {x}) = f[x]
<1>1. IsFiniteSet({x})
  BY FS_Singleton
<1>2. {x} \ {x} = {} /\ IsFiniteSet({})
  BY FS_EmptySet
<1>3. SumOf(f, {}) = 0
  BY <1>2, SumTakeOut, Zenon
<1> QED
  BY <1>1, <1>2, <1>3, SumTakeOut

LEMMA SumUnion ==
  ASSUME NEW f, NEW S, IsFiniteSet(S), \A x \in S : f[x] \in Int,
         NEW A \in SUBSET S, NEW B \in SUBSET S, A \cap B = {}
  PROVE  SumOf(f, A \union B) = SumOf(f, A) + SumOf(f, B)
<1> DEFINE C == {T \in SUBSET A : SumOf(f, T \union B) = SumOf(f, T) + SumOf(f, B)}
<1>1. \A T \in SUBSET S : /\ IsFiniteSet(T) /\ SumOf(f, T) \in Int
                          /\ T = {} => SumOf(f, T) = 0
                          /\ \A x \in T : SumOf(f, T) = f[x] + SumOf(f, T \ {x})
  BY FS_Subset, SumTakeOut
<1>2. ASSUME NEW T \in SUBSET A, \A x \in T : T \ {x} \in C
      PROVE  T \in C
  <2>1. CASE T = {}
    BY <1>1, <2>1
  <2>2. CASE T # {}
    <3>1. PICK x \in T : TRUE
      BY <2>2
    <3>2. (T \union B) \ {x} = (T \ {x}) \union B /\ x \in T \union B
      BY <3>1
    <3>3. SumOf(f, T \union B) = f[x] + SumOf(f, (T \ {x}) \union B)
      BY <1>1, <3>2
    <3>4. SumOf(f, (T \ {x}) \union B) = SumOf(f, T \ {x}) + SumOf(f, B)
      BY <1>2, <3>1
    <3>5. SumOf(f, T) = f[x] + SumOf(f, T \ {x})
      BY <1>1, <3>1
    <3>6. SumOf(f, T \ {x}) \in Int /\ SumOf(f, B) \in Int /\ f[x] \in Int
      BY <1>1, <3>1
    <3> QED
      BY <3>3, <3>4, <3>5, <3>6
  <2> QED
    BY <2>1, <2>2
<1>3. \A T \in SUBSET A : T \in C
  <2> HIDE DEF C
  <2> QED
    BY <1>1, <1>2, SetInduction
<1> QED
  BY <1>3

\* A bound on every term bounds the sum.
LEMMA SumLeq ==
  ASSUME NEW S, IsFiniteSet(S),
         NEW f, \A x \in S : f[x] \in Int,
         NEW g, \A x \in S : g[x] \in Int,
         \A x \in S : f[x] <= g[x]
  PROVE  SumOf(f, S) <= SumOf(g, S)
<1> DEFINE C == {T \in SUBSET S : SumOf(f, T) <= SumOf(g, T)}
<1>1. \A T \in SUBSET S : /\ SumOf(f, T) \in Int
                          /\ T = {} => SumOf(f, T) = 0
                          /\ \A x \in T : SumOf(f, T) = f[x] + SumOf(f, T \ {x})
  BY FS_Subset, SumTakeOut
<1>2. \A T \in SUBSET S : /\ SumOf(g, T) \in Int
                          /\ T = {} => SumOf(g, T) = 0
                          /\ \A x \in T : SumOf(g, T) = g[x] + SumOf(g, T \ {x})
  BY FS_Subset, SumTakeOut
<1>3. ASSUME NEW T \in SUBSET S, \A x \in T : T \ {x} \in C
      PROVE  T \in C
  <2>1. CASE T = {}
    BY <1>1, <1>2, <2>1
  <2>2. CASE T # {}
    <3>1. PICK x \in T : TRUE
      BY <2>2
    <3>2. SumOf(f, T) = f[x] + SumOf(f, T \ {x}) /\ SumOf(f, T \ {x}) \in Int
      BY <1>1, <3>1
    <3>3. SumOf(g, T) = g[x] + SumOf(g, T \ {x}) /\ SumOf(g, T \ {x}) \in Int
      BY <1>2, <3>1
    <3>4. SumOf(f, T \ {x}) <= SumOf(g, T \ {x})
      BY <1>3, <3>1
    <3>5. f[x] \in Int /\ g[x] \in Int /\ f[x] <= g[x]
      OBVIOUS
    <3> QED
      BY <3>2, <3>3, <3>4, <3>5
  <2> QED
    BY <2>1, <2>2
<1>4. \A T \in SUBSET S : T \in C
  <2> HIDE DEF C
  <2> QED
    BY <1>3, SetInduction
<1> QED
  BY <1>4

LEMMA SumEqual ==
  ASSUME NEW S, IsFiniteSet(S),
         NEW f, \A x \in S : f[x] \in Int,
         NEW g, \A x \in S : f[x] = g[x]
  PROVE  SumOf(f, S) = SumOf(g, S)
<1>1. SumOf(f, S) <= SumOf(g, S)
  BY SumLeq
<1>2. SumOf(g, S) <= SumOf(f, S)
  BY SumLeq
<1>3. SumOf(f, S) \in Int /\ SumOf(g, S) \in Int
  BY SumType
<1> QED
  BY <1>1, <1>2, <1>3

\* Nothing is negative: the sum over a part is at most that over the whole.
LEMMA SumOfPart ==
  ASSUME NEW f, NEW S, IsFiniteSet(S), \A x \in S : f[x] \in Nat, NEW T \in SUBSET S
  PROVE  0 <= SumOf(f, T) /\ SumOf(f, T) <= SumOf(f, S)
<1> DEFINE zero == [x \in S |-> 0]
<1>1. \A A \in SUBSET S : SumOf(zero, A) = 0
  <2> DEFINE C == {A \in SUBSET S : SumOf(zero, A) = 0}
  <2>1. \A x \in S : zero[x] = 0
    OBVIOUS
  <2>2. ASSUME NEW A \in SUBSET S, \A x \in A : A \ {x} \in C
        PROVE  A \in C
    <3> HIDE DEF zero
    <3>1. /\ A = {} => SumOf(zero, A) = 0
          /\ \A x \in A : SumOf(zero, A) = 0 + SumOf(zero, A \ {x})
      BY <2>1, FS_Subset, SumTakeOut
    <3>2. \A x \in A : SumOf(zero, A \ {x}) = 0
      BY <2>2
    <3>3. SumOf(zero, A) = 0
      <4>1. CASE A = {}
        BY <3>1, <4>1
      <4>2. CASE A # {}
        <5>1. PICK x \in A : TRUE
          BY <4>2
        <5>2. SumOf(zero, A) = 0 + 0
          BY <3>1, <3>2, <5>1
        <5> QED
          BY <5>2
      <4> QED
        BY <4>1, <4>2
    <3> QED
      BY <3>3
  <2>3. \A A \in SUBSET S : A \in C
    <3> HIDE DEF C
    <3> QED
      BY <2>2, SetInduction
  <2> QED
    BY <2>3
<1>2. \A A \in SUBSET S : 0 <= SumOf(f, A)
  <2> SUFFICES ASSUME NEW A \in SUBSET S PROVE 0 <= SumOf(f, A)
    OBVIOUS
  <2>1. IsFiniteSet(A) /\ (\A x \in A : f[x] \in Int) /\ (\A x \in A : zero[x] \in Int)
        /\ (\A x \in A : zero[x] <= f[x])
    BY FS_Subset
  <2> HIDE DEF zero
  <2>2. SumOf(zero, A) <= SumOf(f, A)
    BY <2>1, SumLeq
  <2> QED
    BY <1>1, <2>2
<1>3. SumOf(f, T \union (S \ T)) = SumOf(f, T) + SumOf(f, S \ T)
  BY SumUnion
<1>4. T \union (S \ T) = S
  OBVIOUS
<1>5. SumOf(f, T) \in Int /\ SumOf(f, S \ T) \in Int
  BY SumType
<1>6. 0 <= SumOf(f, T) /\ 0 <= SumOf(f, S \ T)
  BY <1>2
<1>7. PICK a \in Int, b \in Int : a = SumOf(f, T) /\ b = SumOf(f, S \ T)
  BY <1>5
<1>8. SumOf(f, S) = a + b
  BY <1>3, <1>4, <1>7, Zenon
<1>9. 0 <= a /\ 0 <= b
  BY <1>6, <1>7, Zenon
<1>10. 0 <= a /\ a <= a + b
  BY <1>9
<1> QED
  BY <1>7, <1>8, <1>10, Zenon

\* A sum of zeros and ones counts the ones.
LEMMA SumCounts ==
  ASSUME NEW f, NEW S, IsFiniteSet(S), \A x \in S : f[x] \in {0, 1}
  PROVE  SumOf(f, S) = Cardinality({x \in S : f[x] = 1})
<1> DEFINE Ones(T) == {x \in T : f[x] = 1}
           C == {T \in SUBSET S : SumOf(f, T) = Cardinality(Ones(T))}
<1>1. ASSUME NEW T \in SUBSET S, \A x \in T : T \ {x} \in C
      PROVE  T \in C
  <2>1. /\ T = {} => SumOf(f, T) = 0
        /\ \A x \in T : SumOf(f, T) = f[x] + SumOf(f, T \ {x})
    BY FS_Subset, SumTakeOut
  <2>2. CASE T = {}
    <3>1. Ones(T) = {}
      BY <2>2
    <3> QED
      BY <2>1, <2>2, <3>1, FS_EmptySet
  <2>3. CASE T # {}
    <3>1. PICK x \in T : TRUE
      BY <2>3
    <3>2. SumOf(f, T \ {x}) = Cardinality(Ones(T \ {x}))
      BY <1>1, <3>1
    <3>3. IsFiniteSet(Ones(T \ {x})) /\ x \notin Ones(T \ {x})
      BY FS_Subset
    <3>4. Cardinality(Ones(T \ {x})) \in Nat
      BY <3>3, FS_CardinalityType
    <3>5. CASE f[x] = 1
      <4>1. Ones(T) = Ones(T \ {x}) \union {x}
        BY <3>1, <3>5
      <4>2. Cardinality(Ones(T)) = Cardinality(Ones(T \ {x})) + 1
        BY <3>3, <4>1, FS_AddElement
      <4> QED
        BY <2>1, <3>1, <3>2, <3>4, <3>5, <4>2
    <3>6. CASE f[x] = 0
      <4>1. Ones(T) = Ones(T \ {x})
        BY <3>1, <3>6
      <4>2. SumOf(f, T) = 0 + SumOf(f, T \ {x})
        BY <2>1, <3>1, <3>6
      <4> HIDE DEF Ones
      <4> QED
        BY <3>2, <3>4, <4>1, <4>2
    <3> QED
      BY <3>5, <3>6
  <2> QED
    BY <2>2, <2>3
<1>2. \A T \in SUBSET S : T \in C
  <2> HIDE DEF C
  <2> QED
    BY <1>1, SetInduction
<1> QED
  BY <1>2

\* The same, by halves: what no term exceeds, times their number.
LEMMA SumOfHalves ==
  ASSUME NEW f, NEW S, IsFiniteSet(S), \A x \in S : f[x] \in Int,
         NEW c \in Int, \A x \in S : 2 * f[x] <= c
  PROVE  2 * SumOf(f, S) <= c * Cardinality(S)
<1> DEFINE C == {T \in SUBSET S : 2 * SumOf(f, T) <= c * Cardinality(T)}
<1>1. ASSUME NEW T \in SUBSET S, \A x \in T : T \ {x} \in C
      PROVE  T \in C
  <2>1. /\ SumOf(f, T) \in Int
        /\ T = {} => SumOf(f, T) = 0
        /\ \A x \in T : SumOf(f, T) = f[x] + SumOf(f, T \ {x})
    BY FS_Subset, SumTakeOut
  <2>2. CASE T = {}
    BY <2>1, <2>2, FS_EmptySet
  <2>3. CASE T # {}
    <3>1. PICK x \in T : TRUE
      BY <2>3
    <3>2. 2 * SumOf(f, T \ {x}) <= c * Cardinality(T \ {x})
      BY <1>1, <3>1
    <3>3. PICK n \in Int : n = Cardinality(T \ {x}) /\ Cardinality(T) = n + 1
      BY <3>1, FS_Subset, FS_RemoveElement, FS_CardinalityType
    <3>4. c * (n + 1) = c * n + c
      OBVIOUS
    <3>5. PICK d \in Int : d = c * n
      OBVIOUS
    <3>6. 2 * SumOf(f, T \ {x}) <= d /\ SumOf(f, T \ {x}) \in Int
      BY <3>2, <3>3, <3>5, SumType
    <3>7. SumOf(f, T) = f[x] + SumOf(f, T \ {x}) /\ f[x] \in Int /\ 2 * f[x] <= c
      BY <2>1, <3>1
    <3>8. 2 * SumOf(f, T) <= d + c
      BY <3>6, <3>7
    <3> QED
      BY <3>3, <3>4, <3>5, <3>8
  <2> QED
    BY <2>2, <2>3
<1>2. \A T \in SUBSET S : T \in C
  <2> HIDE DEF C
  <2> QED
    BY <1>1, SetInduction
<1> QED
  BY <1>2

\* A set has as many elements as its parts together.
LEMMA SumOfFibers ==
  ASSUME NEW Q, IsFiniteSet(Q), NEW S, IsFiniteSet(S), NEW r, \A q \in Q : r[q] \in S
  PROVE  SumOf([x \in S |-> Cardinality({q \in Q : r[q] = x})], S) = Cardinality(Q)
<1> DEFINE sizes == [x \in S |-> Cardinality({q \in Q : r[q] = x})]
           Above(T) == {q \in Q : r[q] \in T}
           C == {T \in SUBSET S : SumOf(sizes, T) = Cardinality(Above(T))}
<1>1. \A T : IsFiniteSet(Above(T)) /\ Cardinality(Above(T)) \in Nat
  BY FS_Subset, FS_CardinalityType
<1>2. \A x \in S : sizes[x] = Cardinality(Above({x}))
  BY Zenon
<1>3. \A x \in S : sizes[x] \in Int
  <2> SUFFICES ASSUME NEW x \in S PROVE sizes[x] \in Int
    OBVIOUS
  <2> HIDE DEF sizes, Above
  <2>1. sizes[x] = Cardinality(Above({x}))
    BY <1>2
  <2>2. Cardinality(Above({x})) \in Nat
    BY <1>1, Zenon
  <2> QED
    BY <2>1, <2>2
<1> HIDE DEF sizes
<1>4. ASSUME NEW T \in SUBSET S, \A x \in T : T \ {x} \in C
      PROVE  T \in C
  <2>1. /\ T = {} => SumOf(sizes, T) = 0
        /\ \A x \in T : SumOf(sizes, T) = sizes[x] + SumOf(sizes, T \ {x})
    BY <1>3, FS_Subset, SumTakeOut
  <2>2. CASE T = {}
    <3>1. Above(T) = {}
      BY <2>2
    <3> QED
      BY <2>1, <2>2, <3>1, FS_EmptySet
  <2>3. CASE T # {}
    <3>1. PICK x \in T : TRUE
      BY <2>3
    <3>2. SumOf(sizes, T \ {x}) = Cardinality(Above(T \ {x}))
      BY <1>4, <3>1
    <3>3. Above(T) = Above(T \ {x}) \union Above({x})
      BY <3>1
    <3>4. Above(T \ {x}) \cap Above({x}) = {}
      OBVIOUS
    <3> HIDE DEF Above
    <3>5. Cardinality(Above(T)) = Cardinality(Above(T \ {x})) + Cardinality(Above({x}))
      <4>1. PICK U, V : U = Above(T \ {x}) /\ V = Above({x})
        OBVIOUS
      <4>2. IsFiniteSet(U) /\ IsFiniteSet(V) /\ U \cap V = {}
        BY <1>1, <3>4, <4>1, Zenon
      <4>3. Cardinality(U) \in Nat /\ Cardinality(V) \in Nat
        BY <4>2, FS_CardinalityType, Zenon
      <4>4. Cardinality(U \union V) = Cardinality(U) + Cardinality(V) - 0
        BY <4>2, FS_Union, FS_EmptySet
      <4>5. Cardinality(U \union V) = Cardinality(U) + Cardinality(V)
        BY <4>3, <4>4
      <4> QED
        BY <3>3, <4>1, <4>5, Zenon
    <3>6. SumOf(sizes, T) = Cardinality(Above(T))
      <4>1. PICK a, b : a = Cardinality(Above({x})) /\ b = Cardinality(Above(T \ {x}))
        OBVIOUS
      <4>2. a \in Nat /\ b \in Nat
        BY <1>1, <4>1, Zenon
      <4>3. SumOf(sizes, T) = a + b
        BY <1>2, <2>1, <3>1, <3>2, <4>1
      <4>4. Cardinality(Above(T)) = b + a
        BY <3>5, <4>1, Zenon
      <4> QED
        BY <4>2, <4>3, <4>4
    <3> QED
      BY <3>6
  <2> QED
    BY <2>2, <2>3
<1>5. \A T \in SUBSET S : T \in C
  <2> HIDE DEF C
  <2> QED
    BY <1>4, SetInduction
<1>6. Above(S) = Q
  OBVIOUS
<1>7. SumOf(sizes, S) = Cardinality(Q)
  BY <1>5, <1>6
<1> QED
  BY <1>7 DEF sizes

\* The pairs, the other way around.
Mirror(T) == {<<t[2], t[1]>> : t \in T}

LEMMA SumOfMirror ==
  ASSUME NEW A, IsFiniteSet(A), NEW f, \A t \in A \X A : f[t] \in Int,
         \A t \in A \X A : f[<<t[2], t[1]>>] = f[t], NEW S \in SUBSET (A \X A)
  PROVE  SumOf(f, Mirror(S)) = SumOf(f, S)
<1> DEFINE C == {T \in SUBSET S : SumOf(f, Mirror(T)) = SumOf(f, T)}
<1>1. IsFiniteSet(A \X A) /\ \A T \in SUBSET (A \X A) : IsFiniteSet(T)
  BY FS_Product, FS_Subset
<1>2. \A T \in SUBSET S : Mirror(T) \in SUBSET (A \X A)
  BY DEF Mirror
<1>3. \A T \in SUBSET (A \X A) : 
         /\ T = {} => SumOf(f, T) = 0
         /\ \A x \in T : SumOf(f, T) = f[x] + SumOf(f, T \ {x})
  BY <1>1, SumTakeOut
<1>4. ASSUME NEW T \in SUBSET S, \A x \in T : T \ {x} \in C
      PROVE  T \in C
  <2>1. CASE T = {}
    <3>1. Mirror(T) = {}
      BY <2>1 DEF Mirror
    <3> QED
      BY <2>1, <3>1
  <2>2. CASE T # {}
    <3>1. PICK x \in T : TRUE
      BY <2>2
    <3>2. SumOf(f, Mirror(T \ {x})) = SumOf(f, T \ {x})
      BY <1>4, <3>1
    <3> DEFINE y == <<x[2], x[1]>>
    <3>3. y \in Mirror(T)
      BY <3>1 DEF Mirror
    <3>4. Mirror(T \ {x}) = Mirror(T) \ {y}
      <4>1. \A t \in T : <<t[2], t[1]>> = y => t = x
        BY <3>1
      <4> QED
        BY <4>1 DEF Mirror
    <3>5. f[y] = f[x]
      BY <3>1
    <3> HIDE DEF y
    <3>6. SumOf(f, Mirror(T)) = f[y] + SumOf(f, Mirror(T) \ {y})
      BY <1>2, <1>3, <3>3
    <3>7. SumOf(f, T) = f[x] + SumOf(f, T \ {x})
      BY <1>3, <3>1
    <3>8. SumOf(f, Mirror(T)) = SumOf(f, T)
      BY <3>2, <3>4, <3>5, <3>6, <3>7
    <3> QED
      BY <3>8
  <2> QED
    BY <2>1, <2>2
<1>5. \A T \in SUBSET S : T \in C
  <2> HIDE DEF C
  <2> QED
    BY <1>1, <1>4, SetInduction
<1> QED
  BY <1>5

\* A set and what it is renamed to have one size.
LEMMA SameSize ==
  ASSUME NEW S, IsFiniteSet(S), NEW T, NEW b \in [S -> T],
         \A x, y \in S : b[x] = b[y] => x = y, \A t \in T : \E x \in S : b[x] = t
  PROVE  IsFiniteSet(T) /\ Cardinality(T) = Cardinality(S)
<1>1. b \in Bijection(S, T)
  BY DEF Bijection, Injection, Surjection, IsInjective
<1>2. ExistsBijection(S, T)
  BY <1>1, Zenon DEF ExistsBijection
<1> QED
  BY <1>2, FS_Bijection

-----------------------------------------------------------------------------
(* Numbers up to what an int wraps                                         *)

\* Equal up to a multiple of m.
Congruent(x, y, m) == (x - y) % m = 0

LEMMA CongruentIs ==
  ASSUME NEW m \in Nat \ {0}, NEW x \in Int, NEW y \in Int
  PROVE  Congruent(x, y, m) <=> \E k \in Int : x = y + k * m
<1>1. (x - y) = m * ((x - y) \div m) + ((x - y) % m)
  OBVIOUS
<1>2. ASSUME (x - y) % m = 0 PROVE \E k \in Int : x = y + k * m
  <2>1. (x - y) \div m \in Int
    OBVIOUS
  <2>2. PICK k \in Int : k = (x - y) \div m
    BY <2>1
  <2>3. x - y = m * k
    BY <1>1, <1>2, <2>2
  <2>4. m * k = k * m
    OBVIOUS
  <2>5. PICK d \in Int : d = k * m
    OBVIOUS
  <2> QED
    BY <2>3, <2>4, <2>5
<1>3. ASSUME NEW k \in Int, x = y + k * m PROVE (x - y) % m = 0
  <2>1. PICK d \in Int : d = k * m
    OBVIOUS
  <2>2. x - y = k * m
    BY <1>3, <2>1
  <2> QED
    BY <2>2
<1> QED
  BY <1>2, <1>3 DEF Congruent

LEMMA CongruentSame ==
  ASSUME NEW m \in Nat \ {0}, NEW x \in Int
  PROVE  Congruent(x, x, m)
<1>1. x = x + 0 * m /\ 0 \in Int
  OBVIOUS
<1>2. \E k \in Int : x = x + k * m
  BY <1>1, Zenon
<1> QED
  BY <1>2, CongruentIs

LEMMA CongruentSum ==
  ASSUME NEW m \in Nat \ {0}, NEW a \in Int, NEW b \in Int, NEW c \in Int, NEW d \in Int,
         Congruent(a, b, m), Congruent(c, d, m)
  PROVE  Congruent(a + c, b + d, m)
<1>1. PICK k \in Int : a = b + k * m
  BY CongruentIs
<1>2. PICK l \in Int : c = d + l * m
  BY CongruentIs
<1>3. (k + l) * m = k * m + l * m
  OBVIOUS
<1>4. a + c = (b + d) + (k + l) * m
  <2>1. PICK p \in Int, q \in Int : p = k * m /\ q = l * m
    OBVIOUS
  <2> QED
    BY <1>1, <1>2, <1>3, <2>1
<1>5. a + c \in Int /\ b + d \in Int /\ k + l \in Int
  OBVIOUS
<1> QED
  BY <1>4, <1>5, CongruentIs

LEMMA CongruentVia ==
  ASSUME NEW m \in Nat \ {0}, NEW a \in Int, NEW b \in Int, NEW c \in Int,
         Congruent(a, b, m), Congruent(b, c, m)
  PROVE  Congruent(a, c, m)
<1>1. PICK k \in Int : a = b + k * m
  BY CongruentIs
<1>2. PICK l \in Int : b = c + l * m
  BY CongruentIs
<1>3. (k + l) * m = k * m + l * m
  OBVIOUS
<1>4. a = c + (k + l) * m
  <2>1. PICK p \in Int, q \in Int : p = k * m /\ q = l * m
    OBVIOUS
  <2> QED
    BY <1>1, <1>2, <1>3, <2>1
<1>5. k + l \in Int
  OBVIOUS
<1> QED
  BY <1>4, <1>5, CongruentIs

\* Two numbers of one range of the length of m are not congruent but equal.
LEMMA CongruentInRange ==
  ASSUME NEW m \in Nat \ {0}, NEW a \in Int, NEW b \in Int, Congruent(a, b, m),
         a - b < m, b - a < m
  PROVE  a = b
<1>1. PICK k \in Int : a = b + k * m
  BY CongruentIs
<1>2. CASE k = 0
  BY <1>1, <1>2
<1>3. CASE k > 0
  <2>1. k * m >= m
    BY <1>3
  <2>2. PICK p \in Int : p = k * m
    OBVIOUS
  <2> QED
    BY <1>1, <2>1, <2>2
<1>4. CASE k < 0
  <2>1. k * m <= -m
    BY <1>4
  <2>2. PICK p \in Int : p = k * m
    OBVIOUS
  <2> QED
    BY <1>1, <2>1, <2>2
<1> QED
  BY <1>2, <1>3, <1>4

-----------------------------------------------------------------------------
(* The invariant of PufJob                                                 *)

\* How far an int wraps around.
Modulus == 2 * (MAX_VALUE + 1)

IntRange == -(MAX_VALUE + 1) .. MAX_VALUE

\* The value is the number and the sum of the items it was made of.
StandsFor(v) ==
  /\ Congruent(v.second, Cardinality(v.of), Modulus)
  /\ \A s \in Slots : Congruent(v.first[s], Total(v.of, s), Modulus)

\* A partial value on its way from the mapper to the reducer.
Partial(v) ==
  /\ v \in [first : [Slots -> IntRange], second : IntRange, of : SUBSET Items(ids)]
  /\ v.of # {}
  /\ StandsFor(v)

\* What a reducer has added up.
Added(a) ==
  /\ a \in [first : [Slots -> Int], second : IntRange, of : SUBSET Items(ids)]
  /\ StandsFor(a)
  /\ Fits => \A s \in Slots : a.first[s] = Total(a.of, s)

Apart(values) == \A v, w \in values : v # w => v.of \cap w.of = {}

InputInv ==
  /\ job \in Shapes
  /\ \E n \in 1 .. MaxIDs[job] : ids \in [1 .. n -> ID]
  /\ correctID = Voted(ids)

MapInv ==
  /\ mapper \in {"idle", "emitted", "committed"}
  /\ \A v \in buffer : Partial(v)
  /\ Apart(buffer)
  /\ mapper # "idle" => UNION {v.of : v \in buffer} = Items(ids)

ReduceInv ==
  /\ fetched \in BOOLEAN
  /\ \A v \in shuffled : Partial(v)
  /\ Apart(shuffled)
  /\ Added(acc)
  /\ \A v \in shuffled : v.of \cap acc.of = {}
  /\ fetched => (UNION {v.of : v \in shuffled}) \union acc.of = Items(ids)
  /\ ~ fetched => shuffled = {} /\ acc = Nothing

ResultInv ==
  result # None => fetched /\ shuffled = {} /\ result = Output(acc)

JobIInv ==
  /\ InputInv /\ MapInv /\ ReduceInv /\ ResultInv
  /\ failures \in 0 .. MaxFailures

-----------------------------------------------------------------------------
(* int arithmetic                                                          *)

LEMMA Limits ==
  ASSUME InputInv
  PROVE  /\ MAX_VALUE \in Nat \ {0} /\ Modulus \in Nat \ {0}
         /\ Cardinality(Positions) <= MAX_VALUE
BY JobAssumption DEF InputInv, MAX_VALUE, Modulus

LEMMA Int32Wraps ==
  ASSUME InputInv, NEW x \in Int
  PROVE  /\ Int32(x) \in Int /\ Congruent(Int32(x), x, Modulus)
         /\ x \in IntRange => Int32(x) = x
         /\ -Modulus <= x /\ x <= Modulus - 2 => Int32(x) \in IntRange
<1>1. MAX_VALUE \in Nat /\ Modulus \in Nat \ {0} /\ Modulus = 2 * (MAX_VALUE + 1)
  BY Limits DEF Modulus
<1>2. Int32(x) \in {x, x - Modulus, x + Modulus}
  BY DEF Int32, Modulus
<1>3. x = x + 0 * Modulus /\ x - Modulus = x + (-1) * Modulus /\ x + Modulus = x + 1 * Modulus
  BY <1>1
<1>4. \E k \in Int : Int32(x) = x + k * Modulus
  BY <1>2, <1>3
<1>5. Int32(x) \in Int
  BY <1>1, <1>2
<1>6. Congruent(Int32(x), x, Modulus)
  BY <1>1, <1>4, <1>5, CongruentIs
<1>7. x \in IntRange => Int32(x) = x
  BY <1>1 DEF Int32, IntRange
<1>8. -Modulus <= x /\ x <= Modulus - 2 => Int32(x) \in IntRange
  BY <1>1 DEF Int32, IntRange
<1> QED
  BY <1>5, <1>6, <1>7, <1>8

\* What IntPair writes it reads back.
THEOREM ReadIntUndoesWriteInt ==
  ASSUME InputInv, NEW x \in IntRange
  PROVE  readInt(writeInt(x)) = x
<1>1. MAX_VALUE \in Nat
  BY Limits
<1> QED
  BY <1>1 DEF IntRange, readInt, writeInt, Int32

-----------------------------------------------------------------------------
(* What the items add                                                      *)

LEMMA ItemsFinite ==
  ASSUME InputInv
  PROVE  /\ IsFiniteSet(DOMAIN ids) /\ IsFiniteSet((DOMAIN ids) \X (DOMAIN ids))
         /\ IsFiniteSet(Items(ids))
<1>1. PICK n \in 1 .. MaxIDs[job] : ids \in [1 .. n -> ID]
  BY DEF InputInv
<1>2. IsFiniteSet(DOMAIN ids)
  BY <1>1, FS_Interval
<1>3. IsFiniteSet((DOMAIN ids) \X (DOMAIN ids))
  BY <1>2, FS_Product
<1>4. IsFiniteSet(Pairs(ids))
  BY <1>3, FS_Subset DEF Pairs
<1> QED
  BY <1>2, <1>3, <1>4 DEF Items

LEMMA Distances ==
  ASSUME InputInv, NEW i, NEW j
  PROVE  HammingDistance(i, j) \in Nat /\ HammingDistance(i, j) <= MAX_VALUE
<1>1. /\ Cardinality({p \in Positions : i[p] # j[p]}) \in Nat
      /\ Cardinality({p \in Positions : i[p] # j[p]}) <= Cardinality(Positions)
  BY JobAssumption, FS_Subset, FS_CardinalityType
<1>2. Cardinality(Positions) \in Nat
  BY JobAssumption, FS_CardinalityType
<1> QED
  BY <1>1, <1>2, Limits DEF HammingDistance

LEMMA Contributions ==
  ASSUME InputInv, NEW n \in Items(ids), NEW s \in Slots
  PROVE  Contribution(ids, correctID, n, s) \in Nat /\ Contribution(ids, correctID, n, s) <= MAX_VALUE
<1>1. CASE job = "correctid"
  <2>1. s \in Positions /\ n \in DOMAIN ids
    BY <1>1 DEF Slots, Items
  <2>2. ids[n] \in ID
    BY <2>1 DEF InputInv
  <2>3. ids[n][s] \in {0, 1}
    BY <2>1, <2>2 DEF ID
  <2> QED
    BY <1>1, <2>3, Limits DEF Contribution
<1>2. CASE job = "hd"
  BY <1>2, Distances DEF Contribution
<1>3. CASE job = "hdcorrect"
  BY <1>3, Distances DEF Contribution
<1> QED
  BY <1>1, <1>2, <1>3 DEF InputInv, Shapes

\* The same as a function, which Total adds up.
Terms(s) == [n \in Items(ids) |-> Contribution(ids, correctID, n, s)]

LEMMA TotalIs ==
  ASSUME InputInv, NEW s \in Slots, NEW T \in SUBSET Items(ids)
  PROVE  /\ IsFiniteSet(T)
         /\ \A n \in Items(ids) : Terms(s)[n] \in Nat /\ Terms(s)[n] \in Int
         /\ Total(T, s) = SumOf(Terms(s), T)
<1>1. IsFiniteSet(T)
  BY ItemsFinite, FS_Subset
<1>2. \A n \in Items(ids) : Terms(s)[n] \in Nat
  BY Contributions DEF Terms
<1>3. Total(T, s) = SumOf(Terms(s), T)
  BY SumIs DEF Total, Terms
<1> QED
  BY <1>1, <1>2, <1>3

LEMMA TotalOfNone ==
  ASSUME InputInv, NEW s \in Slots
  PROVE  Total({}, s) = 0
<1>1. Total({}, s) = SumOf(Terms(s), {})
  BY TotalIs
<1>2. SumOf(Terms(s), {}) = 0
  BY SumTakeOut, FS_EmptySet, Zenon
<1> QED
  BY <1>1, <1>2

LEMMA TotalOfOne ==
  ASSUME InputInv, NEW s \in Slots, NEW n \in Items(ids)
  PROVE  Total({n}, s) = Contribution(ids, correctID, n, s)
<1>1. Total({n}, s) = SumOf(Terms(s), {n})
  BY TotalIs
<1>2. SumOf(Terms(s), {n}) = Terms(s)[n]
  BY TotalIs, SumSingle
<1> QED
  BY <1>1, <1>2 DEF Terms

LEMMA TotalOfBoth ==
  ASSUME InputInv, NEW s \in Slots, NEW A \in SUBSET Items(ids), NEW B \in SUBSET Items(ids),
         A \cap B = {}
  PROVE  Total(A \union B, s) = Total(A, s) + Total(B, s)
<1>1. SumOf(Terms(s), A \union B) = SumOf(Terms(s), A) + SumOf(Terms(s), B)
  BY TotalIs, ItemsFinite, SumUnion
<1> QED
  BY <1>1, TotalIs

LEMMA TotalOfPart ==
  ASSUME InputInv, NEW s \in Slots, NEW T \in SUBSET Items(ids)
  PROVE  Total(T, s) \in Nat /\ Total(T, s) <= Total(Items(ids), s)
<1>1. 0 <= SumOf(Terms(s), T) /\ SumOf(Terms(s), T) <= SumOf(Terms(s), Items(ids))
  BY TotalIs, ItemsFinite, SumOfPart
<1>2. SumOf(Terms(s), T) \in Int
  BY TotalIs, ItemsFinite, SumType
<1>3. Total(T, s) = SumOf(Terms(s), T) /\ Total(Items(ids), s) = SumOf(Terms(s), Items(ids))
  BY TotalIs
<1> QED
  BY <1>1, <1>2, <1>3

LEMMA NumberOfItems ==
  ASSUME InputInv, NEW A \in SUBSET Items(ids)
  PROVE  /\ Cardinality(A) \in Nat /\ Cardinality(A) <= Cardinality(Items(ids))
         /\ \A B \in SUBSET Items(ids) : A \cap B = {} =>
              Cardinality(A \union B) = Cardinality(A) + Cardinality(B)
<1>1. Cardinality(A) \in Nat /\ Cardinality(A) <= Cardinality(Items(ids))
  BY ItemsFinite, FS_Subset, FS_CardinalityType
<1>2. ASSUME NEW B \in SUBSET Items(ids), A \cap B = {}
      PROVE  Cardinality(A \union B) = Cardinality(A) + Cardinality(B)
  <2>1. IsFiniteSet(A) /\ IsFiniteSet(B)
    BY ItemsFinite, FS_Subset
  <2>2. Cardinality(A) \in Nat /\ Cardinality(B) \in Nat
    BY <2>1, FS_CardinalityType
  <2>3. Cardinality(A \union B) = Cardinality(A) + Cardinality(B) - 0
    BY <1>2, <2>1, FS_Union, FS_EmptySet
  <2> QED
    BY <2>2, <2>3
<1> QED
  BY <1>1, <1>2

-----------------------------------------------------------------------------
(* What becomes of partial values                                          *)

LEMMA EmittedIsPartial ==
  ASSUME InputInv, NEW n \in Items(ids)
  PROVE  Partial(Emitted(n)) /\ Emitted(n).of = {n}
<1> DEFINE v == Emitted(n)
<1>1. /\ v.first = [s \in Slots |-> Contribution(ids, correctID, n, s)]
      /\ v.second = 1 /\ v.of = {n}
      /\ v = [first |-> v.first, second |-> v.second, of |-> v.of]
  BY DEF Emitted
<1>2. \A s \in Slots : v.first[s] \in IntRange
  BY <1>1, Limits, Contributions DEF IntRange
<1>3. v \in [first : [Slots -> IntRange], second : IntRange, of : SUBSET Items(ids)]
  <2>1. v.first \in [Slots -> IntRange] /\ v.second \in IntRange
    BY <1>1, <1>2, Limits DEF IntRange
  <2> HIDE DEF v
  <2> QED
    BY <1>1, <2>1
<1> HIDE DEF v
<1>4. Congruent(v.second, Cardinality(v.of), Modulus)
  BY <1>1, FS_Singleton, Limits, CongruentSame
<1>5. ASSUME NEW s \in Slots PROVE Congruent(v.first[s], Total(v.of, s), Modulus)
  <2>1. v.first[s] = Total(v.of, s) /\ v.first[s] \in Int
    BY <1>1, Contributions, TotalOfOne
  <2> QED
    BY <2>1, Limits, CongruentSame
<1>6. Partial(v)
  BY <1>1, <1>3, <1>4, <1>5 DEF Partial, StandsFor
<1> QED
  BY <1>1, <1>6 DEF v

LEMMA SumsInRange ==
  ASSUME InputInv, NEW x \in IntRange, NEW y \in IntRange
  PROVE  Int32(x + y) \in IntRange /\ Congruent(Int32(x + y), x + y, Modulus)
<1>1. x + y \in Int /\ -Modulus <= x + y /\ x + y <= Modulus - 2
  BY Limits DEF IntRange, Modulus
<1> QED
  BY <1>1, Int32Wraps

LEMMA WrappedSum ==
  ASSUME InputInv, NEW x \in Int, NEW y \in Int, NEW c \in Int, NEW d \in Int,
         Congruent(x, c, Modulus), Congruent(y, d, Modulus)
  PROVE  Congruent(Int32(x + y), c + d, Modulus)
<1>1. Congruent(x + y, c + d, Modulus)
  BY Limits, CongruentSum
<1>2. Congruent(Int32(x + y), x + y, Modulus) /\ Int32(x + y) \in Int /\ x + y \in Int
  BY Int32Wraps
<1> QED
  BY <1>1, <1>2, Limits, CongruentVia

LEMMA CombinedIsPartial ==
  ASSUME InputInv, NEW v, NEW w, Partial(v), Partial(w), v.of \cap w.of = {}
  PROVE  Partial(CombineValues(v, w)) /\ CombineValues(v, w).of = v.of \union w.of
<1> DEFINE u == CombineValues(v, w)
<1>1. /\ u.first = [s \in Slots |-> Int32(v.first[s] + w.first[s])]
      /\ u.second = Int32(v.second + w.second) /\ u.of = v.of \union w.of
      /\ u = [first |-> u.first, second |-> u.second, of |-> u.of]
  BY DEF CombineValues
<1> HIDE DEF u
<1>2. /\ v.of \in SUBSET Items(ids) /\ v.second \in IntRange
      /\ \A s \in Slots : v.first[s] \in IntRange
      /\ w.of \in SUBSET Items(ids) /\ w.second \in IntRange
      /\ \A s \in Slots : w.first[s] \in IntRange
  BY DEF Partial
<1>3. \A x \in IntRange : x \in Int
  BY Limits DEF IntRange
<1>4. u \in [first : [Slots -> IntRange], second : IntRange, of : SUBSET Items(ids)]
  <2>1. \A s \in Slots : Int32(v.first[s] + w.first[s]) \in IntRange
    BY <1>2, SumsInRange
  <2>2. u.first \in [Slots -> IntRange] /\ u.second \in IntRange
    BY <1>1, <1>2, <2>1, SumsInRange
  <2> QED
    BY <1>1, <1>2, <2>2
<1>5. Congruent(u.second, Cardinality(u.of), Modulus)
  <2>1. Cardinality(u.of) = Cardinality(v.of) + Cardinality(w.of)
    BY <1>1, <1>2, NumberOfItems
  <2>2. Cardinality(v.of) \in Int /\ Cardinality(w.of) \in Int
    BY <1>2, NumberOfItems
  <2> QED
    BY <1>1, <1>2, <1>3, <2>1, <2>2, WrappedSum DEF Partial, StandsFor
<1>6. ASSUME NEW s \in Slots PROVE Congruent(u.first[s], Total(u.of, s), Modulus)
  <2>1. Total(u.of, s) = Total(v.of, s) + Total(w.of, s)
    BY <1>1, <1>2, TotalOfBoth
  <2>2. Total(v.of, s) \in Int /\ Total(w.of, s) \in Int
    BY <1>2, TotalOfPart
  <2>3. u.first[s] = Int32(v.first[s] + w.first[s])
    BY <1>1
  <2> QED
    BY <1>2, <1>3, <2>1, <2>2, <2>3, WrappedSum DEF Partial, StandsFor
<1>7. Partial(u)
  BY <1>1, <1>4, <1>5, <1>6 DEF Partial, StandsFor
<1> QED
  BY <1>1, <1>7 DEF u

LEMMA NothingIsAdded ==
  ASSUME InputInv
  PROVE  Added(Nothing) /\ Nothing.of = {}
<1>1. /\ Nothing.first = [s \in Slots |-> 0] /\ Nothing.second = 0 /\ Nothing.of = {}
      /\ Nothing = [first |-> Nothing.first, second |-> Nothing.second, of |-> Nothing.of]
  BY DEF Nothing
<1>2. Nothing \in [first : [Slots -> Int], second : IntRange, of : SUBSET Items(ids)]
  <2>1. 0 \in IntRange
    BY Limits DEF IntRange
  <2>2. Nothing.first \in [Slots -> Int]
    BY <1>1
  <2> QED
    BY <1>1, <2>1, <2>2
<1>3. \A s \in Slots : Nothing.first[s] = 0 /\ Total(Nothing.of, s) = 0
  BY <1>1, TotalOfNone
<1>4. Congruent(0, 0, Modulus)
  BY Limits, CongruentSame
<1> QED
  BY <1>1, <1>2, <1>3, <1>4, FS_EmptySet DEF Added, StandsFor

\* Where the sums fit, a partial value is the number and the sum of its items.
LEMMA PartialIsExact ==
  ASSUME InputInv, Fits, NEW v, v.second \in IntRange, v.of \in SUBSET Items(ids), StandsFor(v)
  PROVE  /\ v.second = Cardinality(v.of) /\ v.second \in 0 .. MAX_VALUE
         /\ \A s \in Slots : /\ Total(v.of, s) \in 0 .. MAX_VALUE
                             /\ v.first[s] \in IntRange => v.first[s] = Total(v.of, s)
<1>1. MAX_VALUE \in Nat /\ Modulus \in Nat \ {0} /\ Modulus = 2 * (MAX_VALUE + 1)
  BY Limits DEF Modulus
<1>2. \A x \in IntRange, y \in 0 .. MAX_VALUE : Congruent(x, y, Modulus) => x = y
  <2> SUFFICES ASSUME NEW x \in IntRange, NEW y \in 0 .. MAX_VALUE, Congruent(x, y, Modulus)
               PROVE  x = y
    OBVIOUS
  <2>1. x \in Int /\ y \in Int /\ x - y < Modulus /\ y - x < Modulus
    BY <1>1 DEF IntRange
  <2> QED
    BY <1>1, <2>1, CongruentInRange
<1>3. Cardinality(v.of) \in 0 .. MAX_VALUE
  <2>1. Cardinality(Items(ids)) \in Nat
    BY NumberOfItems
  <2> QED
    BY <1>1, <2>1, NumberOfItems DEF Fits
<1>4. ASSUME NEW s \in Slots PROVE Total(v.of, s) \in 0 .. MAX_VALUE
  <2>1. Total(Items(ids), s) \in Nat
    BY TotalOfPart
  <2> QED
    BY <1>1, <2>1, TotalOfPart DEF Fits
<1> QED
  BY <1>2, <1>3, <1>4 DEF StandsFor

LEMMA ValueIsAdded ==
  ASSUME InputInv, NEW a, NEW v, Added(a), Partial(v), v.of \cap a.of = {}
  PROVE  Added(AddValue(a, v)) /\ AddValue(a, v).of = a.of \union v.of
<1> DEFINE u == AddValue(a, v)
<1>1. /\ u.first = [s \in Slots |-> IF job = "correctid" THEN Int32(a.first[s] + v.first[s])
                                                         ELSE a.first[s] + v.first[s]]
      /\ u.second = Int32(a.second + v.second) /\ u.of = a.of \union v.of
      /\ u = [first |-> u.first, second |-> u.second, of |-> u.of]
  BY DEF AddValue
<1> HIDE DEF u
<1>2. \A x \in IntRange : x \in Int
  BY Limits DEF IntRange
<1>3. /\ v.of \in SUBSET Items(ids) /\ v.second \in IntRange
      /\ \A s \in Slots : v.first[s] \in IntRange
      /\ a.of \in SUBSET Items(ids) /\ a.second \in IntRange
      /\ \A s \in Slots : a.first[s] \in Int
  BY DEF Partial, Added
<1>4. ASSUME NEW s \in Slots
      PROVE  /\ u.first[s] \in Int
             /\ Congruent(u.first[s], Total(u.of, s), Modulus)
             /\ Fits => u.first[s] = Total(u.of, s)
  <2>1. Total(u.of, s) = Total(a.of, s) + Total(v.of, s)
    BY <1>1, <1>3, TotalOfBoth
  <2>2. Total(a.of, s) \in Int /\ Total(v.of, s) \in Int
    BY <1>3, TotalOfPart
  <2>3. /\ Congruent(a.first[s], Total(a.of, s), Modulus)
        /\ Congruent(v.first[s], Total(v.of, s), Modulus)
    BY DEF Added, Partial, StandsFor
  <2>4. a.first[s] \in Int /\ v.first[s] \in Int
    BY <1>2, <1>3
  <2>5. Fits => /\ a.first[s] + v.first[s] = Total(u.of, s)
                /\ Total(u.of, s) \in IntRange
    <3> SUFFICES ASSUME Fits PROVE a.first[s] + v.first[s] = Total(u.of, s)
                                   /\ Total(u.of, s) \in IntRange
      OBVIOUS
    <3>1. a.first[s] = Total(a.of, s)
      BY DEF Added
    <3>2. v.first[s] = Total(v.of, s)
      BY <1>3, PartialIsExact DEF Partial
    <3>3. u.of \in SUBSET Items(ids)
      BY <1>1, <1>3
    <3>4. Total(u.of, s) \in Nat /\ Total(u.of, s) <= MAX_VALUE
      <4>1. Total(Items(ids), s) \in Nat
        BY TotalOfPart
      <4> QED
        BY <3>3, <4>1, Limits, TotalOfPart DEF Fits
    <3> QED
      BY <2>1, <3>1, <3>2, <3>4, Limits DEF IntRange
  <2>6. CASE job = "correctid"
    <3>1. u.first[s] = Int32(a.first[s] + v.first[s])
      BY <1>1, <2>6
    <3>2. Congruent(u.first[s], Total(u.of, s), Modulus)
      BY <2>1, <2>2, <2>3, <2>4, <3>1, WrappedSum
    <3>3. a.first[s] + v.first[s] \in Int
      BY <2>4
    <3> QED
      BY <2>5, <3>1, <3>2, <3>3, Int32Wraps
  <2>7. CASE job # "correctid"
    <3>1. u.first[s] = a.first[s] + v.first[s]
      BY <1>1, <2>7
    <3>2. Congruent(u.first[s], Total(u.of, s), Modulus)
      BY <2>1, <2>2, <2>3, <2>4, <3>1, CongruentSum, Limits
    <3> QED
      BY <2>4, <2>5, <3>1, <3>2
  <2> QED
    BY <2>6, <2>7
<1>5. u \in [first : [Slots -> Int], second : IntRange, of : SUBSET Items(ids)]
  <2>1. u.first \in [Slots -> Int]
    <3>1. DOMAIN u.first = Slots /\ u.first = [s \in DOMAIN u.first |-> u.first[s]]
      BY <1>1
    <3> QED
      BY <1>4, <3>1
  <2>2. u.second \in IntRange
    BY <1>1, <1>3, SumsInRange
  <2> QED
    BY <1>1, <1>3, <2>1, <2>2
<1>6. Congruent(u.second, Cardinality(u.of), Modulus)
  <2>1. Cardinality(u.of) = Cardinality(a.of) + Cardinality(v.of)
    BY <1>1, <1>3, NumberOfItems
  <2>2. Cardinality(v.of) \in Int /\ Cardinality(a.of) \in Int
    BY <1>3, NumberOfItems
  <2> QED
    BY <1>1, <1>2, <1>3, <2>1, <2>2, WrappedSum DEF Partial, Added, StandsFor
<1>7. Added(u)
  BY <1>4, <1>5, <1>6 DEF Added, StandsFor
<1> QED
  BY <1>1, <1>7 DEF u

\* The shuffle changes no partial value.
LEMMA ShuffledIsSame ==
  ASSUME InputInv, NEW v, Partial(v)
  PROVE  Shuffled(v) = v
<1>1. CASE job = "correctid"
  BY <1>1 DEF Shuffled
<1>2. CASE job # "correctid"
  <2>1. /\ v.first \in [{"distance"} -> IntRange] /\ v.second \in IntRange
        /\ v = [first |-> v.first, second |-> v.second, of |-> v.of]
    BY <1>2 DEF Partial, Slots
  <2>2. /\ readInt(writeInt(v.first["distance"])) = v.first["distance"]
        /\ readInt(writeInt(v.second)) = v.second
    BY <2>1, ReadIntUndoesWriteInt
  <2> QED
    BY <1>2, <2>1, <2>2 DEF Shuffled
<1> QED
  BY <1>1, <1>2

-----------------------------------------------------------------------------
(* Every step keeps the invariant                                          *)

\* Of the state, what a partial value is depends on the record alone.
LEMMA SameRecord ==
  ASSUME UNCHANGED input
  PROVE  /\ InputInv' <=> InputInv
         /\ Items(ids)' = Items(ids) /\ Nothing' = Nothing
         /\ \A v : Partial(v)' <=> Partial(v)
         /\ \A a : acc' = a /\ Added(a) => Added(acc)'
         /\ acc' = acc => Output(acc)' = Output(acc)
<1>1. job' = job /\ ids' = ids /\ correctID' = correctID
  BY DEF input
<1>2. /\ Items(ids)' = Items(ids) /\ Slots' = Slots /\ MAX_VALUE' = MAX_VALUE
      /\ Nothing' = Nothing
  BY <1>1 DEF Items, Slots, MAX_VALUE, Nothing
<1>3. IntRange' = IntRange /\ Modulus' = Modulus
  BY <1>2 DEF IntRange, Modulus
<1>4. \A T, s : Total(T, s)' = Total(T, s)
  BY <1>1, <1>2 DEF Total, Contribution
<1>5. Fits' <=> Fits
  BY <1>1, <1>2, <1>4 DEF Fits, Setting
<1>6. \A v : Partial(v)' <=> Partial(v)
  BY <1>2, <1>3, <1>4 DEF Partial, StandsFor
<1>7. ASSUME NEW a, acc' = a, Added(a) PROVE Added(acc)'
  BY <1>2, <1>3, <1>4, <1>5, <1>7 DEF Added, StandsFor
<1>8. InputInv' <=> InputInv
  BY <1>1 DEF InputInv, Voted, getCorrectID, Int32, MAX_VALUE
<1>9. ASSUME acc' = acc PROVE Output(acc)' = Output(acc)
  BY <1>1, <1>9 DEF Output, getCorrectID, Int32, MAX_VALUE
<1> QED
  BY <1>2, <1>6, <1>7, <1>8, <1>9

LEMMA MapperSame ==
  ASSUME JobIInv, UNCHANGED <<input, mapVars>>
  PROVE  MapInv'
<1>1. UNCHANGED input /\ mapper' = mapper /\ buffer' = buffer
  BY DEF mapVars
<1> QED
  BY <1>1, SameRecord DEF JobIInv, MapInv, Apart

LEMMA ReducerSame ==
  ASSUME JobIInv, UNCHANGED <<input, reduceVars>>
  PROVE  ReduceInv' /\ (result' = result => ResultInv')
<1>1. UNCHANGED input /\ fetched' = fetched /\ shuffled' = shuffled /\ acc' = acc
  BY DEF reduceVars
<1>2. ReduceInv'
  BY <1>1, SameRecord DEF JobIInv, ReduceInv, Apart
<1>3. result' = result => ResultInv'
  BY <1>1, SameRecord DEF JobIInv, ResultInv
<1> QED
  BY <1>2, <1>3

LEMMA JobInitOK == Init => JobIInv
<1> SUFFICES ASSUME Init PROVE JobIInv
  OBVIOUS
<1>1. InputInv
  BY DEF Init, InputInv
<1>2. Added(acc)
  BY <1>1, NothingIsAdded DEF Init
<1>3. MapInv
  BY DEF Init, MapInv, Apart
<1>4. ReduceInv
  BY <1>2 DEF Init, ReduceInv, Apart
<1>5. ResultInv /\ failures \in 0 .. MaxFailures
  BY JobAssumption DEF Init, ResultInv
<1> QED
  BY <1>1, <1>3, <1>4, <1>5 DEF JobIInv

LEMMA MapKeeps == ASSUME JobIInv, Map PROVE JobIInv'
<1>1. InputInv /\ UNCHANGED input
  BY DEF JobIInv, Map
<1>2. MapInv'
  <2>1. \A n \in Items(ids) : Partial(Emitted(n)) /\ Emitted(n).of = {n}
    BY <1>1, EmittedIsPartial
  <2>2. buffer' = {Emitted(n) : n \in Items(ids)} /\ mapper' = "emitted"
    BY DEF Map
  <2>3. \A v \in buffer' : Partial(v)'
    BY <1>1, <2>1, <2>2, SameRecord
  <2>4. Apart(buffer)'
    BY <2>1, <2>2 DEF Apart
  <2>5. UNION {v.of : v \in buffer'} = Items(ids)
    BY <2>1, <2>2
  <2> QED
    BY <1>1, <2>2, <2>3, <2>4, <2>5, SameRecord DEF MapInv
<1>3. ReduceInv' /\ ResultInv'
  BY ReducerSame DEF Map
<1> QED
  BY <1>1, <1>2, <1>3, SameRecord DEF JobIInv, Map

\* Merging two of the values leaves values that hold the same items.
LEMMA MergedIsPartial ==
  ASSUME InputInv, NEW B, \A u \in B : Partial(u), Apart(B),
         NEW v \in B, NEW w \in B, v # w
  PROVE  /\ \A u \in Merged(B, v, w) : Partial(u)
         /\ Apart(Merged(B, v, w))
         /\ UNION {u.of : u \in Merged(B, v, w)} = UNION {u.of : u \in B}
         /\ \A X : (\A u \in B : u.of \cap X = {}) => \A u \in Merged(B, v, w) : u.of \cap X = {}
<1>1. v.of \cap w.of = {}
  BY DEF Apart
<1>2. Partial(CombineValues(v, w)) /\ CombineValues(v, w).of = v.of \union w.of
  BY <1>1, CombinedIsPartial
<1>3. PICK c : c = CombineValues(v, w)
  OBVIOUS
<1>4. Merged(B, v, w) = (B \ {v, w}) \union {c}
  BY <1>3 DEF Merged
<1>5. c.of = v.of \union w.of /\ Partial(c)
  BY <1>2, <1>3
<1>6. Apart(Merged(B, v, w))
  <2>1. \A u \in B \ {v, w} : u.of \cap v.of = {} /\ u.of \cap w.of = {}
    BY DEF Apart
  <2>2. \A u \in B \ {v, w} : u.of \cap c.of = {}
    BY <1>5, <2>1
  <2> QED
    BY <1>4, <2>2 DEF Apart
<1>7. UNION {u.of : u \in Merged(B, v, w)} = UNION {u.of : u \in B}
  <2>1. ASSUME NEW x, NEW u \in B, x \in u.of
        PROVE  \E t \in Merged(B, v, w) : x \in t.of
    BY <1>4, <1>5, <2>1
  <2>2. ASSUME NEW x, NEW u \in Merged(B, v, w), x \in u.of
        PROVE  \E t \in B : x \in t.of
    BY <1>4, <1>5, <2>2
  <2> QED
    BY <2>1, <2>2
<1> QED
  BY <1>4, <1>5, <1>6, <1>7

LEMMA CombineBeforeKeeps == ASSUME JobIInv, CombineBeforeShuffle PROVE JobIInv'
<1>1. InputInv /\ UNCHANGED input
  BY DEF JobIInv, CombineBeforeShuffle
<1>2. PICK v \in buffer, w \in buffer : v # w /\ buffer' = Merged(buffer, v, w)
  BY DEF CombineBeforeShuffle
<1>3. /\ \A u \in buffer' : Partial(u)
      /\ Apart(buffer')
      /\ UNION {u.of : u \in buffer'} = UNION {u.of : u \in buffer}
  BY <1>1, <1>2, MergedIsPartial DEF JobIInv, MapInv
<1>4. MapInv'
  BY <1>1, <1>3, SameRecord DEF CombineBeforeShuffle, JobIInv, MapInv, Apart
<1>5. ReduceInv' /\ ResultInv'
  BY ReducerSame DEF CombineBeforeShuffle
<1> QED
  BY <1>1, <1>4, <1>5, SameRecord DEF JobIInv, CombineBeforeShuffle

LEMMA CommitMapKeeps == ASSUME JobIInv, CommitMap PROVE JobIInv'
<1>1. InputInv /\ UNCHANGED input
  BY DEF JobIInv, CommitMap
<1>2. MapInv'
  BY <1>1, SameRecord DEF CommitMap, JobIInv, MapInv, Apart
<1>3. ReduceInv' /\ ResultInv'
  BY ReducerSame DEF CommitMap
<1> QED
  BY <1>1, <1>2, <1>3, SameRecord DEF JobIInv, CommitMap

LEMMA MapFailsKeeps == ASSUME JobIInv, MapFails PROVE JobIInv'
<1>1. InputInv /\ UNCHANGED input
  BY DEF JobIInv, MapFails
<1>2. MapInv'
  BY <1>1, SameRecord DEF MapFails, JobIInv, MapInv, Apart
<1>3. ReduceInv' /\ ResultInv'
  BY ReducerSame DEF MapFails
<1>4. (failures \in 0 .. MaxFailures)'
  BY JobAssumption DEF JobIInv, MapFails
<1> QED
  BY <1>1, <1>2, <1>3, <1>4, SameRecord DEF JobIInv

LEMMA FetchKeeps == ASSUME JobIInv, Fetch PROVE JobIInv'
<1>1. InputInv /\ UNCHANGED input
  BY DEF JobIInv, Fetch
<1>2. shuffled' = buffer
  <2>1. \A v \in buffer : Shuffled(v) = v
    BY <1>1, ShuffledIsSame DEF JobIInv, MapInv
  <2> QED
    BY <2>1 DEF Fetch
<1>3. MapInv'
  BY MapperSame DEF Fetch
<1>4. acc = Nothing /\ acc.of = {} /\ acc' = acc /\ Added(acc)
  BY <1>1, NothingIsAdded DEF Fetch, JobIInv, ReduceInv
<1>5. ReduceInv'
  <2>1. \A v \in shuffled' : Partial(v)' /\ v.of \cap acc'.of = {}
    BY <1>1, <1>2, <1>4, SameRecord DEF JobIInv, MapInv
  <2>2. Apart(shuffled)'
    BY <1>2 DEF JobIInv, MapInv, Apart
  <2>3. (UNION {v.of : v \in shuffled'}) \union acc'.of = Items(ids)'
    BY <1>1, <1>2, <1>4, SameRecord DEF Fetch, JobIInv, MapInv
  <2>4. Added(acc)'
    BY <1>1, <1>4, SameRecord
  <2>5. fetched' = TRUE
    BY DEF Fetch
  <2> QED
    BY <2>1, <2>2, <2>3, <2>4, <2>5 DEF ReduceInv
<1>6. ResultInv'
  BY DEF Fetch, JobIInv, ResultInv
<1> QED
  BY <1>1, <1>3, <1>5, <1>6, SameRecord DEF JobIInv, Fetch

LEMMA CombineAfterKeeps == ASSUME JobIInv, CombineAfterShuffle PROVE JobIInv'
<1>1. InputInv /\ UNCHANGED input
  BY DEF JobIInv, CombineAfterShuffle
<1>2. PICK v \in shuffled, w \in shuffled : v # w /\ shuffled' = Merged(shuffled, v, w)
  BY DEF CombineAfterShuffle
<1>3. /\ \A u \in shuffled' : Partial(u)
      /\ Apart(shuffled')
      /\ UNION {u.of : u \in shuffled'} = UNION {u.of : u \in shuffled}
      /\ \A u \in shuffled' : u.of \cap acc.of = {}
  BY <1>1, <1>2, MergedIsPartial DEF JobIInv, ReduceInv
<1>4. MapInv'
  BY MapperSame DEF CombineAfterShuffle
<1>5. ReduceInv'
  BY <1>1, <1>3, SameRecord DEF CombineAfterShuffle, JobIInv, ReduceInv, Apart
<1>6. ResultInv'
  BY <1>2 DEF CombineAfterShuffle, JobIInv, ResultInv
<1> QED
  BY <1>1, <1>4, <1>5, <1>6, SameRecord DEF JobIInv, CombineAfterShuffle

LEMMA AddKeeps == ASSUME JobIInv, Add PROVE JobIInv'
<1>1. InputInv /\ UNCHANGED input
  BY DEF JobIInv, Add
<1>2. PICK v \in shuffled : acc' = AddValue(acc, v) /\ shuffled' = shuffled \ {v}
  BY DEF Add
<1>3. Partial(v) /\ Added(acc) /\ v.of \cap acc.of = {}
  BY DEF JobIInv, ReduceInv
<1>4. Added(AddValue(acc, v)) /\ AddValue(acc, v).of = acc.of \union v.of
  BY <1>1, <1>3, ValueIsAdded
<1>5. Added(acc)' /\ acc'.of = acc.of \union v.of
  BY <1>1, <1>2, <1>4, SameRecord
<1>6. MapInv'
  BY MapperSame DEF Add
<1>7. ReduceInv'
  <2>1. \A u \in shuffled' : Partial(u)'
    BY <1>1, <1>2, SameRecord DEF JobIInv, ReduceInv
  <2>2. Apart(shuffled)'
    BY <1>2 DEF JobIInv, ReduceInv, Apart
  <2>3. \A u \in shuffled' : u.of \cap acc'.of = {}
    BY <1>2, <1>5 DEF JobIInv, ReduceInv, Apart
  <2>4. (UNION {u.of : u \in shuffled'}) \union acc'.of = Items(ids)'
    <3>1. UNION {u.of : u \in shuffled} = (UNION {u.of : u \in shuffled'}) \union v.of
      BY <1>2
    <3> QED
      BY <1>1, <1>5, <3>1, SameRecord DEF Add, JobIInv, ReduceInv
  <2>5. fetched' = fetched /\ fetched = TRUE
    BY DEF Add, JobIInv, ReduceInv
  <2> QED
    BY <1>5, <2>1, <2>2, <2>3, <2>4, <2>5 DEF ReduceInv
<1>8. ResultInv'
  BY DEF Add, ResultInv
<1> QED
  BY <1>1, <1>6, <1>7, <1>8, SameRecord DEF JobIInv, Add

LEMMA ReduceFailsKeeps == ASSUME JobIInv, ReduceFails PROVE JobIInv'
<1>1. InputInv /\ UNCHANGED input
  BY DEF JobIInv, ReduceFails
<1>2. MapInv'
  BY MapperSame DEF ReduceFails
<1>3. Nothing' = Nothing
  BY <1>1, SameRecord
<1>4. ReduceInv'
  <2>1. Added(acc)'
    BY <1>1, NothingIsAdded, SameRecord DEF ReduceFails
  <2> QED
    BY <1>3, <2>1 DEF ReduceFails, ReduceInv, Apart
<1>5. ResultInv'
  BY DEF ReduceFails, ResultInv
<1>6. (failures \in 0 .. MaxFailures)'
  BY JobAssumption DEF JobIInv, ReduceFails
<1> QED
  BY <1>1, <1>2, <1>4, <1>5, <1>6, SameRecord DEF JobIInv

LEMMA WriteKeeps == ASSUME JobIInv, Write PROVE JobIInv'
<1>1. InputInv /\ UNCHANGED input
  BY DEF JobIInv, Write
<1>2. MapInv'
  BY MapperSame DEF Write
<1>3. ReduceInv'
  BY ReducerSame DEF Write
<1>4. ResultInv'
  <2>1. Output(acc)' = Output(acc)
    BY <1>1, SameRecord DEF Write, reduceVars
  <2> QED
    BY <2>1 DEF Write, ResultInv, reduceVars
<1> QED
  BY <1>1, <1>2, <1>3, <1>4, SameRecord DEF JobIInv, Write

LEMMA JobStutters == ASSUME JobIInv, UNCHANGED vars PROVE JobIInv'
<1>1. InputInv /\ UNCHANGED input
  BY DEF JobIInv, vars
<1>2. MapInv'
  BY MapperSame DEF vars
<1>3. ReduceInv' /\ ResultInv'
  BY ReducerSame DEF vars
<1> QED
  BY <1>1, <1>2, <1>3, SameRecord DEF JobIInv, vars

\* The invariant, in every state of every job.
THEOREM JobInvariantHolds == Spec => []JobIInv
<1>1. JobIInv /\ [Next]_vars => JobIInv'
  BY MapKeeps, CombineBeforeKeeps, CommitMapKeeps, MapFailsKeeps, FetchKeeps,
     CombineAfterKeeps, AddKeeps, ReduceFailsKeeps, WriteKeeps, JobStutters DEF Next
<1> QED
  BY <1>1, JobInitOK, PTL DEF Spec

\* Types hold, and where the sums fit no partial value is negative.
THEOREM JobTypeCorrect == Spec => []TypeOK
<1>1. JobIInv => TypeOK
  <2> SUFFICES ASSUME JobIInv PROVE TypeOK
    OBVIOUS
  <2> DEFINE Sum == (IF Fits THEN 0 ELSE -(MAX_VALUE + 1)) .. MAX_VALUE
  <2>1. InputInv /\ MAX_VALUE \in Nat
    BY Limits DEF JobIInv
  <2>2. ASSUME NEW v \in buffer \union shuffled
        PROVE  v \in [first : [Slots -> Sum], second : Sum, of : SUBSET Items(ids)]
    <3>1. Partial(v)
      BY DEF JobIInv, MapInv, ReduceInv
    <3>2. v \in [first : [Slots -> IntRange], second : IntRange, of : SUBSET Items(ids)]
      BY <3>1 DEF Partial
    <3>3. CASE Fits
      <4>1. v.second \in 0 .. MAX_VALUE /\ \A s \in Slots : v.first[s] \in 0 .. MAX_VALUE
        BY <2>1, <3>1, <3>2, <3>3, PartialIsExact DEF Partial
      <4>2. v.first \in [Slots -> 0 .. MAX_VALUE]
        BY <3>2, <4>1
      <4> QED
        BY <3>2, <3>3, <4>1, <4>2
    <3>4. CASE ~ Fits
      BY <3>2, <3>4 DEF IntRange
    <3> QED
      BY <3>3, <3>4
  <2>3. acc \in [first : [Slots -> Int], second : Sum, of : SUBSET Items(ids)]
    <3>1. /\ acc \in [first : [Slots -> Int], second : IntRange, of : SUBSET Items(ids)]
          /\ StandsFor(acc)
      BY DEF JobIInv, ReduceInv, Added
    <3>2. CASE Fits
      <4>1. acc.second \in 0 .. MAX_VALUE
        BY <2>1, <3>1, <3>2, PartialIsExact
      <4> QED
        BY <3>1, <3>2, <4>1
    <3>3. CASE ~ Fits
      BY <3>1, <3>3 DEF IntRange
    <3> QED
      BY <3>2, <3>3
  <2>4. correctID \in ID
    BY DEF JobIInv, InputInv, Voted, getCorrectID, ID
  <2>5. DOMAIN ids \in {1 .. n : n \in 1 .. MaxIDs[job]} /\ \A n \in DOMAIN ids : ids[n] \in ID
    BY <2>1 DEF InputInv
  <2> HIDE DEF Sum
  <2>6. job \in Shapes /\ mapper \in {"idle", "emitted", "committed"}
        /\ fetched \in BOOLEAN /\ failures \in 0 .. MaxFailures
    BY DEF JobIInv, InputInv, MapInv, ReduceInv
  <2> QED
    BY <2>2, <2>3, <2>4, <2>5, <2>6 DEF TypeOK, Sum
<1> QED
  BY <1>1, JobInvariantHolds, PTL

\* Every item is in one partial value, and each value is the sum and the number
\* of its items, up to what an int wraps.
THEOREM PartialSumsAreExact == Spec => []PartialSumsExact
<1>1. JobIInv => PartialSumsExact
  <2> SUFFICES ASSUME JobIInv PROVE PartialSumsExact
    OBVIOUS
  <2> DEFINE live == shuffled \union {acc}
  <2>1. mapper # "idle" =>
          /\ UNION {v.of : v \in buffer} = Items(ids)
          /\ \A v, w \in buffer : v # w => v.of \cap w.of = {}
    BY DEF JobIInv, MapInv, Apart
  <2>2. fetched =>
          /\ UNION {v.of : v \in live} = Items(ids)
          /\ \A v, w \in live : v # w => v.of \cap w.of = {}
    <3> SUFFICES ASSUME fetched
                 PROVE  /\ UNION {v.of : v \in live} = Items(ids)
                        /\ \A v, w \in live : v # w => v.of \cap w.of = {}
      OBVIOUS
    <3>1. UNION {v.of : v \in live} = (UNION {v.of : v \in shuffled}) \union acc.of
      OBVIOUS
    <3>2. (UNION {v.of : v \in shuffled}) \union acc.of = Items(ids)
      BY DEF JobIInv, ReduceInv
    <3>3. \A v, w \in live : v # w => v.of \cap w.of = {}
      BY DEF JobIInv, ReduceInv, Apart
    <3> QED
      BY <3>1, <3>2, <3>3
  <2>3. \A v \in buffer \union live : StandsFor(v)
    BY DEF JobIInv, MapInv, ReduceInv, Partial, Added
  <2>4. Fits => \A s \in Slots : acc.first[s] = Total(acc.of, s)
    BY DEF JobIInv, ReduceInv, Added
  <2> QED
    BY <2>1, <2>2, <2>3, <2>4 DEF PartialSumsExact, StandsFor, Congruent, Modulus
<1> QED
  BY <1>1, JobInvariantHolds, PTL

-----------------------------------------------------------------------------
(* What is written                                                         *)

LEMMA ResultIs ==
  ASSUME JobIInv, result # None, Fits
  PROVE  /\ result = Output(acc)
         /\ acc.second = Cardinality(Items(ids))
         /\ \A s \in Slots : acc.first[s] = Total(Items(ids), s)
<1>1. result = Output(acc) /\ fetched /\ shuffled = {}
  BY DEF JobIInv, ResultInv
<1>2. acc.of = Items(ids)
  BY <1>1 DEF JobIInv, ReduceInv
<1>3. Added(acc) /\ InputInv
  BY DEF JobIInv, ReduceInv
<1>4. acc.second = Cardinality(acc.of)
  BY <1>3, PartialIsExact DEF Added
<1> QED
  BY <1>1, <1>2, <1>3, <1>4 DEF Added

\* All pairs of measurements, those of one with itself, and their distances.
Both     == (DOMAIN ids) \X (DOMAIN ids)
Diagonal == {<<n, n>> : n \in DOMAIN ids}
Distance == [p \in Both |-> HammingDistance(ids[p[1]], ids[p[2]])]

LEMMA BothAre ==
  ASSUME InputInv
  PROVE  /\ IsFiniteSet(Both) /\ DOMAIN ids \subseteq Nat
         /\ Both = (Pairs(ids) \union Mirror(Pairs(ids))) \union Diagonal
         /\ Pairs(ids) \cap Mirror(Pairs(ids)) = {}
         /\ (Pairs(ids) \union Mirror(Pairs(ids))) \cap Diagonal = {}
         /\ Pairs(ids) \in SUBSET Both /\ Mirror(Pairs(ids)) \in SUBSET Both
         /\ Diagonal \in SUBSET Both
<1>1. PICK n \in 1 .. MaxIDs[job] : ids \in [1 .. n -> ID]
  BY DEF InputInv
<1>2. DOMAIN ids \subseteq Nat
  BY <1>1
<1>3. Pairs(ids) = {q \in Both : q[1] < q[2]}
  BY DEF Pairs, Both
<1>4. Mirror(Pairs(ids)) = {q \in Both : q[2] < q[1]}
  <2>1. ASSUME NEW q \in Both, q[2] < q[1] PROVE q \in Mirror(Pairs(ids))
    <3>1. <<q[2], q[1]>> \in Pairs(ids) /\ q = <<q[1], q[2]>>
      BY <1>3, <2>1 DEF Both
    <3> QED
      BY <3>1 DEF Mirror
  <2>2. ASSUME NEW q \in Pairs(ids)
        PROVE  <<q[2], q[1]>> \in {t \in Both : t[2] < t[1]}
    BY <1>3 DEF Both
  <2> QED
    BY <2>1, <2>2 DEF Mirror
<1>5. Diagonal = {q \in Both : q[1] = q[2]}
  BY DEF Diagonal, Both
<1>6. \A q \in Both : q[1] \in Nat /\ q[2] \in Nat
  BY <1>2 DEF Both
<1>7. Both = (Pairs(ids) \union Mirror(Pairs(ids))) \union Diagonal
  BY <1>3, <1>4, <1>5, <1>6
<1>8. /\ Pairs(ids) \cap Mirror(Pairs(ids)) = {}
      /\ (Pairs(ids) \union Mirror(Pairs(ids))) \cap Diagonal = {}
  BY <1>3, <1>4, <1>5, <1>6
<1>9. IsFiniteSet(Both)
  BY ItemsFinite DEF Both
<1> QED
  BY <1>2, <1>3, <1>4, <1>5, <1>7, <1>8, <1>9

\* Of N measurements there are N * (N - 1) / 2 pairs.
THEOREM NumberOfPairs ==
  ASSUME InputInv
  PROVE  2 * Cardinality(Pairs(ids)) = Cardinality(DOMAIN ids) * (Cardinality(DOMAIN ids) - 1)
<1> DEFINE P == Pairs(ids)
<1>1. IsFiniteSet(P) /\ IsFiniteSet(Mirror(P)) /\ IsFiniteSet(Diagonal)
  BY BothAre, FS_Subset
<1>2. Cardinality(Mirror(P)) = Cardinality(P)
  <2> DEFINE b == [q \in P |-> <<q[2], q[1]>>]
  <2>1. b \in [P -> Mirror(P)]
    BY DEF Mirror
  <2>2. \A x, y \in P : b[x] = b[y] => x = y
    <3>1. \A q \in P : q = <<q[1], q[2]>>
      BY DEF Pairs
    <3> QED
      BY <3>1
  <2>3. \A t \in Mirror(P) : \E x \in P : b[x] = t
    BY DEF Mirror
  <2> HIDE DEF b, P
  <2> QED
    BY <1>1, <2>1, <2>2, <2>3, SameSize
<1>3. Cardinality(Diagonal) = Cardinality(DOMAIN ids)
  <2> DEFINE b == [n \in DOMAIN ids |-> <<n, n>>]
  <2>1. b \in [DOMAIN ids -> Diagonal]
    BY DEF Diagonal
  <2>2. \A x, y \in DOMAIN ids : b[x] = b[y] => x = y
    OBVIOUS
  <2>3. \A t \in Diagonal : \E x \in DOMAIN ids : b[x] = t
    BY DEF Diagonal
  <2> HIDE DEF b
  <2> QED
    BY <2>1, <2>2, <2>3, ItemsFinite, SameSize
<1>4. PICK N \in Nat, k \in Nat : N = Cardinality(DOMAIN ids) /\ k = Cardinality(P)
  BY <1>1, ItemsFinite, FS_CardinalityType
<1>5. Cardinality(Both) = N * N
  BY <1>4, ItemsFinite, FS_Product DEF Both
<1>6. Cardinality(P \union Mirror(P)) = k + k - 0 /\ IsFiniteSet(P \union Mirror(P))
  BY <1>1, <1>2, <1>4, BothAre, FS_Union, FS_EmptySet
<1>7. Cardinality(Both) = (k + k) + N - 0
  <2> DEFINE U == P \union Mirror(P)
  <2>1. U \cap Diagonal = {} /\ Both = U \union Diagonal
    BY BothAre
  <2> HIDE DEF U, P
  <2>2. IsFiniteSet(U) /\ Cardinality(U) = k + k
    BY <1>6 DEF U
  <2>3. Cardinality(U \union Diagonal)
          = Cardinality(U) + Cardinality(Diagonal) - Cardinality(U \cap Diagonal)
    BY <1>1, <2>2, FS_Union
  <2>4. Cardinality(U \cap Diagonal) = 0
    BY <2>1, FS_EmptySet
  <2> QED
    BY <1>3, <1>4, <2>1, <2>2, <2>3, <2>4
<1>8. N * (N - 1) = N * N - N
  OBVIOUS
<1>9. PICK m \in Nat : m = N * N
  OBVIOUS
<1> QED
  BY <1>4, <1>5, <1>7, <1>8, <1>9

\* Over all ordered pairs every distance of two measurements counts twice.
LEMMA PairsTwice ==
  ASSUME InputInv, job = "hd"
  PROVE  2 * Total(Items(ids), "distance") = SumOf(Distance, Both)
<1> DEFINE P == Pairs(ids)
<1>1. \A q \in Both : Distance[q] \in Nat /\ Distance[q] \in Int
  BY Distances DEF Distance
<1>2. \A q \in Both : Distance[<<q[2], q[1]>>] = Distance[q]
  <2>1. \A i, j : HammingDistance(i, j) = HammingDistance(j, i)
    <3>1. \A i, j : {p \in Positions : i[p] # j[p]} = {p \in Positions : j[p] # i[p]}
      OBVIOUS
    <3> QED
      BY <3>1, Zenon DEF HammingDistance
  <2> QED
    BY <2>1 DEF Distance, Both
<1>3. SumOf(Distance, Mirror(P)) = SumOf(Distance, P)
  <2>1. \A t \in (DOMAIN ids) \X (DOMAIN ids) :
           Distance[t] \in Int /\ Distance[<<t[2], t[1]>>] = Distance[t]
    BY <1>1, <1>2 DEF Both
  <2>2. P \in SUBSET ((DOMAIN ids) \X (DOMAIN ids))
    BY DEF Pairs
  <2>3. IsFiniteSet(DOMAIN ids)
    BY ItemsFinite
  <2>4. PICK A, f : A = DOMAIN ids /\ f = Distance
    OBVIOUS
  <2> HIDE DEF P
  <2>5. /\ IsFiniteSet(A) /\ \A t \in A \X A : f[t] \in Int
        /\ \A t \in A \X A : f[<<t[2], t[1]>>] = f[t]
        /\ P \in SUBSET (A \X A)
    BY <2>1, <2>2, <2>3, <2>4
  <2>6. SumOf(f, Mirror(P)) = SumOf(f, P)
    BY <2>5, SumOfMirror
  <2> QED
    BY <2>4, <2>6
<1>4. SumOf(Distance, Diagonal) = 0
  <2>1. \A q \in Diagonal : Distance[q] = 0
    <3>1. \A i : HammingDistance(i, i) = 0
      BY FS_EmptySet DEF HammingDistance
    <3> QED
      BY <3>1 DEF Distance, Diagonal, Both
  <2>2. {q \in Diagonal : Distance[q] = 1} = {}
    BY <2>1
  <2>3. SumOf(Distance, Diagonal) = Cardinality({q \in Diagonal : Distance[q] = 1})
    BY <2>1, BothAre, FS_Subset, SumCounts
  <2> QED
    BY <2>2, <2>3, FS_EmptySet
<1>5. SumOf(Distance, P \union Mirror(P)) = SumOf(Distance, P) + SumOf(Distance, Mirror(P))
  BY <1>1, BothAre, SumUnion
<1>6. SumOf(Distance, Both) = SumOf(Distance, P \union Mirror(P)) + SumOf(Distance, Diagonal)
  <2>1. P \union Mirror(P) \in SUBSET Both
    BY BothAre
  <2> HIDE DEF P
  <2>2. SumOf(Distance, (P \union Mirror(P)) \union Diagonal)
          = SumOf(Distance, P \union Mirror(P)) + SumOf(Distance, Diagonal)
    BY <1>1, <2>1, BothAre, SumUnion DEF P
  <2> QED
    BY <2>2, BothAre DEF P
<1>7. Total(Items(ids), "distance") = SumOf(Distance, P)
  <2>1. "distance" \in Slots /\ Items(ids) = P
    BY DEF Slots, Items
  <2>2. Total(P, "distance") = SumOf(Terms("distance"), P)
    BY <2>1, TotalIs
  <2>3. \A q \in P : Terms("distance")[q] = Distance[q]
    BY <2>1, BothAre DEF Terms, Contribution, Distance
  <2>4. \A q \in P : Terms("distance")[q] \in Int /\ IsFiniteSet(P)
    BY <2>1, TotalIs, ItemsFinite
  <2>5. SumOf(Terms("distance"), P) = SumOf(Distance, P)
    BY <2>1, <2>3, <2>4, ItemsFinite, SumEqual
  <2> QED
    BY <2>1, <2>2, <2>5
<1>8. SumOf(Distance, P) \in Int
  BY <1>1, BothAre, SumType
<1> QED
  BY <1>3, <1>4, <1>5, <1>6, <1>7, <1>8

\* The average is written over all pairs, or over all measurements.
THEOREM AverageIsExact == Spec => []AverageExact
<1>1. JobIInv => AverageExact
  <2> SUFFICES ASSUME JobIInv, result # None, Fits
               PROVE  AverageExact
    BY DEF AverageExact
  <2>1. InputInv
    BY DEF JobIInv
  <2>2. ASSUME job = "hd"
        PROVE  /\ 2 * result.sum = SumFunctionOnSet(Distance, Both)
               /\ 2 * result.count = Cardinality(DOMAIN ids) * (Cardinality(DOMAIN ids) - 1)
    <3>1. result = [sum |-> Total(Items(ids), "distance"), count |-> Cardinality(Pairs(ids))]
      BY <2>2, ResultIs DEF Output, Slots, Items
    <3> QED
      BY <2>1, <2>2, <3>1, PairsTwice, NumberOfPairs, SumIs
  <2>3. ASSUME job = "hdcorrect"
        PROVE  result = [sum |-> Spread(correctID), count |-> Cardinality(DOMAIN ids)]
    <3>1. Items(ids) = DOMAIN ids /\ "distance" \in Slots
      BY <2>3 DEF Items, Slots
    <3>2. Total(Items(ids), "distance") = Spread(correctID)
      BY <2>3, <3>1 DEF Total, Spread, Contribution
    <3> QED
      BY <2>3, <3>1, <3>2, ResultIs DEF Output
  <2> QED
    BY <2>2, <2>3 DEF AverageExact, Distance, Both
<1> QED
  BY <1>1, JobInvariantHolds, PTL

-----------------------------------------------------------------------------
(* The voted ID                                                            *)

\* Measurements that differ from x in bit p.
Differing(x, p) == {n \in DOMAIN ids : ids[n][p] # x[p]}

LEMMA DifferingFinite ==
  ASSUME InputInv, NEW x, NEW p
  PROVE  IsFiniteSet(Differing(x, p)) /\ Cardinality(Differing(x, p)) \in Nat
BY ItemsFinite, FS_Subset, FS_CardinalityType DEF Differing

\* The distances of the measurements to x, added up bit by bit.
LEMMA SpreadBitByBit ==
  ASSUME InputInv, NEW x
  PROVE  Spread(x) = SumOf([p \in Positions |-> Cardinality(Differing(x, p))], Positions)
<1> DEFINE D == DOMAIN ids
           Q == {q \in D \X Positions : ids[q[1]][q[2]] # x[q[2]]}
           row == [q \in Q |-> q[1]]
           column == [q \in Q |-> q[2]]
<1>1. IsFiniteSet(D) /\ IsFiniteSet(Positions) /\ IsFiniteSet(Q)
  BY ItemsFinite, JobAssumption, FS_Product, FS_Subset
<1>2. \A n \in D : Cardinality({q \in Q : row[q] = n}) = HammingDistance(ids[n], x)
  <2> SUFFICES ASSUME NEW n \in D
               PROVE  Cardinality({q \in Q : row[q] = n}) = HammingDistance(ids[n], x)
    OBVIOUS
  <2> DEFINE S == {p \in Positions : ids[n][p] # x[p]}
             T == {q \in Q : row[q] = n}
             b == [p \in S |-> <<n, p>>]
  <2>1. b \in [S -> T]
    OBVIOUS
  <2>2. \A y, z \in S : b[y] = b[z] => y = z
    OBVIOUS
  <2>3. \A t \in T : \E y \in S : b[y] = t
    <3>1. \A t \in T : t[2] \in S /\ t = <<n, t[2]>>
      OBVIOUS
    <3> QED
      BY <3>1
  <2>4. IsFiniteSet(S)
    BY <1>1, FS_Subset
  <2> HIDE DEF S, T, b
  <2>5. Cardinality(T) = Cardinality(S)
    BY <2>1, <2>2, <2>3, <2>4, SameSize
  <2> QED
    BY <2>5 DEF HammingDistance, S, T
<1>3. \A p \in Positions : Cardinality({q \in Q : column[q] = p}) = Cardinality(Differing(x, p))
  <2> SUFFICES ASSUME NEW p \in Positions
               PROVE  Cardinality({q \in Q : column[q] = p}) = Cardinality(Differing(x, p))
    OBVIOUS
  <2> DEFINE S == Differing(x, p)
             T == {q \in Q : column[q] = p}
             b == [n \in S |-> <<n, p>>]
  <2>1. b \in [S -> T]
    BY DEF Differing
  <2>2. \A y, z \in S : b[y] = b[z] => y = z
    OBVIOUS
  <2>3. \A t \in T : \E y \in S : b[y] = t
    <3>1. \A t \in T : t[1] \in S /\ t = <<t[1], p>>
      BY DEF Differing
    <3> QED
      BY <3>1
  <2>4. IsFiniteSet(S)
    BY DifferingFinite
  <2> HIDE DEF S, T, b
  <2>5. Cardinality(T) = Cardinality(S)
    BY <2>1, <2>2, <2>3, <2>4, SameSize
  <2> QED
    BY <2>5 DEF S, T
<1>4. (\A q \in Q : row[q] \in D) /\ (\A q \in Q : column[q] \in Positions)
  OBVIOUS
<1> HIDE DEF Q, row, column
<1>5. SumOf([n \in D |-> Cardinality({q \in Q : row[q] = n})], D) = Cardinality(Q)
  BY <1>1, <1>4, SumOfFibers
<1>6. SumOf([p \in Positions |-> Cardinality({q \in Q : column[q] = p})], Positions)
        = Cardinality(Q)
  BY <1>1, <1>4, SumOfFibers
<1>7. [n \in D |-> Cardinality({q \in Q : row[q] = n})] = [n \in D |-> HammingDistance(ids[n], x)]
  BY <1>2
<1>8. [p \in Positions |-> Cardinality({q \in Q : column[q] = p})]
        = [p \in Positions |-> Cardinality(Differing(x, p))]
  BY <1>3
<1>9. Spread(x) = SumOf([n \in D |-> HammingDistance(ids[n], x)], D)
  BY SumIs DEF Spread
<1> QED
  BY <1>5, <1>6, <1>7, <1>8, <1>9

\* The vote on a bit sides with at least half of the measurements, and so no
\* other value of the bit differs from fewer of them.
LEMMA VoteSidesWithMost ==
  ASSUME InputInv, Fits, job # "hd", NEW p \in Positions,
         NEW vote, vote[p] = Cardinality(Setting(p)),
         NEW c, c = getCorrectID(vote, Cardinality(DOMAIN ids))
  PROVE  /\ 2 * Cardinality(Differing(c, p)) <= Cardinality(DOMAIN ids)
         /\ \A x \in ID : Cardinality(Differing(c, p)) <= Cardinality(Differing(x, p))
<1> DEFINE one == Setting(p)
           zero == {n \in DOMAIN ids : ids[n][p] = 0}
<1>1. \A n \in DOMAIN ids : ids[n][p] \in {0, 1}
  BY DEF InputInv, ID
<1>2. IsFiniteSet(one) /\ IsFiniteSet(zero)
  BY ItemsFinite, FS_Subset DEF Setting
<1>3. one \cap zero = {} /\ one \union zero = DOMAIN ids
  BY <1>1 DEF Setting
<1>4. PICK a \in Nat, b \in Nat : a = Cardinality(one) /\ b = Cardinality(zero)
  BY <1>2, FS_CardinalityType
<1>5. Cardinality(DOMAIN ids) = a + b
  <2> HIDE DEF one, zero
  <2>1. Cardinality(one \union zero) = a + b - 0
    BY <1>2, <1>3, <1>4, FS_Union, FS_EmptySet
  <2> QED
    BY <1>3, <1>4, <2>1
<1>6. Int32(vote[p] * 2) = 2 * a
  <2>1. 2 * a <= MAX_VALUE /\ vote[p] = a
    BY <1>4 DEF Fits
  <2>2. vote[p] * 2 = 2 * a /\ 2 * a \in IntRange
    BY <1>4, <2>1, Limits DEF IntRange
  <2> QED
    BY <2>2, Int32Wraps DEF IntRange
<1>7. c[p] = IF 2 * a > a + b THEN 1 ELSE 0
  BY <1>5, <1>6 DEF getCorrectID
<1>8. \A x : /\ x[p] = 1 => Differing(x, p) = zero
             /\ x[p] = 0 => Differing(x, p) = one
  BY <1>1 DEF Differing, Setting
<1>9. \A x \in ID : x[p] \in {0, 1}
  BY DEF ID
<1> HIDE DEF one, zero
<1>10. CASE 2 * a > a + b
  BY <1>4, <1>5, <1>7, <1>8, <1>9, <1>10
<1>11. CASE ~ (2 * a > a + b)
  BY <1>4, <1>5, <1>7, <1>8, <1>9, <1>11
<1> QED
  BY <1>10, <1>11

\* Of all IDs, the one a "correctid" job writes is nearest to the measurements.
THEOREM VotedIDIsMedian == Spec => []CorrectIDIsMedian
<1>1. JobIInv => CorrectIDIsMedian
  <2> SUFFICES ASSUME JobIInv, job = "correctid", result # None, Fits, NEW x \in ID
               PROVE  Spread(result) <= Spread(x)
    BY DEF CorrectIDIsMedian
  <2>1. InputInv
    BY DEF JobIInv
  <2>2. Items(ids) = DOMAIN ids /\ Slots = Positions
    BY DEF Items, Slots
  <2>3. result = getCorrectID(acc.first, Cardinality(DOMAIN ids))
    BY <2>2, ResultIs DEF Output
  <2>4. ASSUME NEW p \in Positions PROVE acc.first[p] = Cardinality(Setting(p))
    <3>1. acc.first[p] = SumOf(Terms(p), DOMAIN ids)
      BY <2>1, <2>2, ResultIs, TotalIs
    <3>2. \A n \in DOMAIN ids : Terms(p)[n] = ids[n][p]
      BY <2>2 DEF Terms, Contribution
    <3>3. \A n \in DOMAIN ids : Terms(p)[n] \in {0, 1}
      BY <2>1, <3>2 DEF InputInv, ID
    <3>4. {n \in DOMAIN ids : Terms(p)[n] = 1} = Setting(p)
      BY <3>2 DEF Setting
    <3> QED
      BY <2>1, <3>1, <3>3, <3>4, ItemsFinite, SumCounts
  <2> DEFINE f == [p \in Positions |-> Cardinality(Differing(result, p))]
             g == [p \in Positions |-> Cardinality(Differing(x, p))]
  <2>5. \A p \in Positions : f[p] <= g[p] /\ f[p] \in Int /\ g[p] \in Int
    BY <2>1, <2>3, <2>4, VoteSidesWithMost, DifferingFinite
  <2>6. Spread(result) = SumOf(f, Positions) /\ Spread(x) = SumOf(g, Positions)
    BY <2>1, SpreadBitByBit
  <2> HIDE DEF f, g
  <2> QED
    BY <2>5, <2>6, JobAssumption, SumLeq
<1> QED
  BY <1>1, JobInvariantHolds, PTL

\* The average distance to the voted ID is at most half the bits.
THEOREM NoiseIsAtMostHalf == Spec => []NoiseAtMostHalf
<1>1. JobIInv => NoiseAtMostHalf
  <2> SUFFICES ASSUME JobIInv, job = "hdcorrect", result # None, Fits
               PROVE  2 * result.sum <= result.count * Cardinality(Positions)
    BY DEF NoiseAtMostHalf
  <2>1. InputInv
    BY DEF JobIInv
  <2>2. Items(ids) = DOMAIN ids /\ "distance" \in Slots
    BY DEF Items, Slots
  <2>3. result = [sum |-> Spread(correctID), count |-> Cardinality(DOMAIN ids)]
    <3>1. Total(Items(ids), "distance") = Spread(correctID)
      BY <2>2 DEF Total, Spread, Contribution
    <3> QED
      BY <2>2, <3>1, ResultIs DEF Output
  <2> DEFINE vote == [p \in Positions |-> Cardinality(Setting(p))]
             f == [p \in Positions |-> Cardinality(Differing(correctID, p))]
  <2>4. correctID = getCorrectID(vote, Cardinality(DOMAIN ids))
    BY <2>1 DEF InputInv, Voted, Setting
  <2>5. \A p \in Positions : 2 * f[p] <= Cardinality(DOMAIN ids) /\ f[p] \in Int
    <3> SUFFICES ASSUME NEW p \in Positions
                 PROVE  2 * f[p] <= Cardinality(DOMAIN ids) /\ f[p] \in Int
      OBVIOUS
    <3>1. vote[p] = Cardinality(Setting(p))
      OBVIOUS
    <3> HIDE DEF vote
    <3> QED
      BY <2>1, <2>4, <3>1, VoteSidesWithMost, DifferingFinite
  <2>6. Spread(correctID) = SumOf(f, Positions)
    BY <2>1, SpreadBitByBit
  <2>7. Cardinality(DOMAIN ids) \in Int
    BY <2>1, ItemsFinite, FS_CardinalityType
  <2> HIDE DEF f
  <2>8. 2 * SumOf(f, Positions) <= Cardinality(DOMAIN ids) * Cardinality(Positions)
    BY <2>5, <2>7, JobAssumption, SumOfHalves
  <2> QED
    BY <2>3, <2>6, <2>8
<1> QED
  BY <1>1, JobInvariantHolds, PTL

-----------------------------------------------------------------------------
(* The invariant of PufPipeline                                            *)

JobsOf(c) == IF c = InterHD THEN {"merge", "interhd"} ELSE {"flatten", "correctid", "hd"}

\* A chain has the jobs of its own program only.
OwnJobs ==
  \A c \in Chains, j \in Jobs :
    /\ thread[c] = Submitting(j) \/ thread[c] = Waiting(j) => j \in JobsOf(c)
    /\ \A r \in Runs : jobs[c][r][j] # "none" => j \in JobsOf(c)

\* The threads of Intra1 and Intra2 are started together, runs are numbered in
\* their order, and none has jobs before it is started, nor Inter before it has
\* scanned.
RunsInOrder ==
  /\ \A f, g \in Files : run[f] = run[g]
  /\ \A c \in Chains : thread[c] = Off \/ run[c] \in Runs
  /\ \A c \in Chains, r \in Runs, j \in Jobs : r > run[c] => jobs[c][r][j] = "none"
  /\ thread[InterHD] = Scanning => jobs[InterHD][run[InterHD]]["merge"] = "none"

HasSucceeded(c, j) == \E r \in Runs : jobs[c][r][j] = "succeeded"

\* What the jobs that began to write to a directory have left there.
Directories ==
  \A c \in Chains, j \in Jobs :
    /\ out[c][j] = "absent" => Writers(c, j) = {}
    /\ out[c][j] = "complete" => HasSucceeded(c, j)
    /\ HasSucceeded(c, j) /\ OneWriter(c, j) => out[c][j] = "complete"

\* A job is in the queue only while its thread waits for it, or was left there; and
\* of two jobs for one directory one was left.
QueuedOrLeft ==
  \A c \in Chains, j \in Jobs, r \in Runs :
    /\ jobs[c][r][j] = "queued" =>
         <<c, j>> \in left \/ (r = run[c] /\ thread[c] = Waiting(j))
    /\ \A s \in Runs : jobs[c][r][j] # "none" /\ jobs[c][s][j] # "none" =>
         r = s \/ <<c, j>> \in left

\* The jobs of its own run a job reads from have succeeded, once it is submitted ...
OwnInputs ==
  \A c \in Chains, r \in Runs, j \in Jobs : jobs[c][r][j] # "none" =>
    \A i \in Inputs(c, r, j) : i[1] = c => jobs[c][r][i[2]] = "succeeded"

\* ... and when its thread is about to submit it.
ReadyToSubmit ==
  \A c \in Chains, j \in Jobs : thread[c] = Submitting(j) =>
    \A i \in Inputs(c, run[c], j) : i[1] = c => jobs[c][run[c]][i[2]] = "succeeded"

\* Inter takes the votes of jobs that succeeded.
VotesSucceeded == \A r \in Runs : \A f \in merged[r] : HasSucceeded(f, "correctid")

PipelineIInv ==
  /\ PipelineTypeOK /\ OwnJobs /\ RunsInOrder /\ Directories /\ QueuedOrLeft
  /\ OwnInputs /\ ReadyToSubmit /\ VotesSucceeded

USE DEF Jobs, JobStates, DirStates, Drivers

-----------------------------------------------------------------------------
(* Types                                                                   *)

LEMMA PipelineInitType == PipelineInit => PipelineTypeOK
  BY RunsAssumption DEF PipelineInit, PipelineTypeOK, Chains, Runs, Off

\* Two places of a chain are the same only when they are at the same job.
LEMMA PlacesDiffer ==
  ASSUME NEW j \in Jobs, NEW k \in Jobs
  PROVE  /\ Submitting(j) # Waiting(k)
         /\ Submitting(j) # Scanning /\ Submitting(j) # Off /\ Submitting(j) # Ended
         /\ Waiting(j) # Scanning /\ Waiting(j) # Off /\ Waiting(j) # Ended
         /\ Submitting(j) = Submitting(k) => j = k
         /\ Waiting(j) = Waiting(k) => j = k
         /\ Scanning # Off /\ Scanning # Ended
  BY DEF Submitting, Waiting, Scanning, Off, Ended

Places == [at : {"submit", "wait"}, job : Jobs] \union {Scanning, Off, Ended}

LEMMA PlacesAre ==
  /\ \A j \in Jobs : Submitting(j) \in Places /\ Waiting(j) \in Places
  /\ Scanning \in Places /\ Off \in Places /\ Ended \in Places
  BY DEF Places, Submitting, Waiting

LEMMA AfterIsJob == ASSUME NEW r, NEW j PROVE After(r, j) \in Jobs
  BY DEF After

\* The jobs a step may change, and what it changes them to.
LEMMA SetJobType ==
  ASSUME PipelineTypeOK, NEW c \in Chains, NEW r \in Runs, NEW j \in Jobs,
         NEW state \in JobStates, SetJob(c, r, j, state)
  PROVE  /\ jobs' \in [Chains -> [Runs -> [Jobs -> JobStates]]]
         /\ jobs'[c][r][j] = state
         /\ \A d \in Chains, s \in Runs, k \in Jobs :
              <<d, s, k>> # <<c, r, j>> => jobs'[d][s][k] = jobs[d][s][k]
  BY DEF SetJob, PipelineTypeOK

LEMMA SetThreadType ==
  ASSUME PipelineTypeOK, NEW c \in Chains, NEW place \in Places, SetThread(c, place)
  PROVE  /\ thread' \in [Chains -> Places]
         /\ thread'[c] = place
         /\ \A d \in Chains : d # c => thread'[d] = thread[d]
  BY DEF SetThread, PipelineTypeOK, Places


\* What a step of the drivers or the cluster does to a job.
JobSteps ==
  \A c \in Chains, r \in Runs, j \in Jobs :
    \/ jobs'[c][r][j] = jobs[c][r][j]
    \/ jobs[c][r][j] = "queued" /\ jobs'[c][r][j] = "running"
    \/ jobs[c][r][j] = "running" /\ jobs'[c][r][j] \in {"succeeded", "failed"}
    \/ /\ jobs'[c][r][j] = "queued"
       /\ thread[c] = Submitting(j) /\ r = run[c] /\ thread'[c] = Waiting(j) /\ run' = run
       /\ out[c][j] = "absent" /\ out' = out /\ left' = left
       /\ InputsFound(c, j) /\ merged' = merged /\ driver' = driver

LEMMA SubmitStep ==
  ASSUME PipelineTypeOK, RunsInOrder, NEW c \in Chains, NEW j \in Jobs, Submit(c, j)
  PROVE  /\ jobs' \in [Chains -> [Runs -> [Jobs -> JobStates]]]
         /\ thread' \in [Chains -> Places]
         /\ JobSteps
         /\ thread'[c] \in {Waiting(j), Ended}
         /\ \A d \in Chains : d # c => thread'[d] = thread[d]
         /\ run[c] \in Runs
         /\ jobs' = jobs \/ (out[c][j] = "absent" /\ jobs'[c][run[c]][j] = "queued")
         /\ \A d \in Chains, r \in Runs, k \in Jobs :
              <<d, r, k>> # <<c, run[c], j>> => jobs'[d][r][k] = jobs[d][r][k]
<1>1. thread[c] = Submitting(j) /\ run[c] \in Runs
  BY PlacesDiffer DEF Submit, RunsInOrder
<1>2. CASE SetJob(c, run[c], j, "queued") /\ SetThread(c, Waiting(j))
           /\ out[c][j] = "absent" /\ InputsFound(c, j)
  <2>1. /\ thread' \in [Chains -> Places] /\ thread'[c] = Waiting(j)
        /\ \A d \in Chains : d # c => thread'[d] = thread[d]
    BY <1>2, SetThreadType, PlacesAre
  <2>2. /\ jobs' \in [Chains -> [Runs -> [Jobs -> JobStates]]]
        /\ jobs'[c][run[c]][j] = "queued"
        /\ \A d \in Chains, s \in Runs, k \in Jobs :
             <<d, s, k>> # <<c, run[c], j>> => jobs'[d][s][k] = jobs[d][s][k]
    <3>1. jobs \in [Chains -> [Runs -> [Jobs -> JobStates]]]
      BY DEF PipelineTypeOK
    <3>2. jobs' = [jobs EXCEPT ![c][run[c]][j] = "queued"]
      BY <1>2 DEF SetJob
    <3> QED
      BY <1>1, <3>1, <3>2
  <2>3. JobSteps
    BY <1>1, <1>2, <2>1, <2>2 DEF JobSteps, Submit
  <2> QED
    BY <1>1, <1>2, <2>1, <2>2, <2>3
<1>3. CASE UNCHANGED jobs /\ SetThread(c, Ended)
  <2>1. /\ thread' \in [Chains -> Places] /\ thread'[c] = Ended
        /\ \A d \in Chains : d # c => thread'[d] = thread[d]
    BY <1>3, SetThreadType, PlacesAre
  <2> QED
    BY <1>1, <1>3, <2>1 DEF JobSteps, PipelineTypeOK
<1> QED
  BY <1>2, <1>3 DEF Submit

LEMMA ProceedStep ==
  ASSUME PipelineTypeOK, NEW c \in Chains, NEW j \in Jobs, Proceed(c, j)
  PROVE  /\ thread' \in [Chains -> Places]
         /\ \/ thread'[c] = Ended
            \/ /\ thread'[c] = Submitting(After(run[c], j))
               /\ jobs[c][run[c]][j] = "succeeded" /\ j \notin Last
         /\ \A d \in Chains : d # c => thread'[d] = thread[d]
<1> DEFINE next == IF jobs[c][run[c]][j] = "failed" \/ j \in Last THEN Ended
                   ELSE Submitting(After(run[c], j))
<1>1. next \in Places
  BY PlacesAre, AfterIsJob
<1>2. SetThread(c, next)
  BY DEF Proceed
<1> HIDE DEF next
<1>3. /\ thread' \in [Chains -> Places] /\ thread'[c] = next
      /\ \A d \in Chains : d # c => thread'[d] = thread[d]
  BY <1>1, <1>2, SetThreadType
<1> QED
  BY <1>3 DEF next, Proceed

LEMMA ClusterStep ==
  ASSUME PipelineTypeOK, NEW c \in Chains, NEW r \in Runs, NEW j \in Jobs, JobStep(c, r, j)
  PROVE  /\ jobs' \in [Chains -> [Runs -> [Jobs -> JobStates]]]
         /\ out' \in [Chains -> [Jobs -> DirStates]]
         /\ JobSteps
         /\ \A d \in Chains, s \in Runs, k \in Jobs :
              <<d, s, k>> # <<c, r, j>> => jobs'[d][s][k] = jobs[d][s][k]
         /\ \A d \in Chains, k \in Jobs : <<d, k>> # <<c, j>> => out'[d][k] = out[d][k]
         /\ UNCHANGED <<driver, run, thread, unscanned, merged, left>>
<1>1. out' \in [Chains -> [Jobs -> DirStates]]
      /\ \A d \in Chains, k \in Jobs : <<d, k>> # <<c, j>> => out'[d][k] = out[d][k]
  <2>1. out \in [Chains -> [Jobs -> DirStates]]
    BY DEF PipelineTypeOK
  <2>2. \/ out' = out
        \/ out' = [out EXCEPT ![c][j] = "open"]
        \/ out' = [out EXCEPT ![c][j] = "complete"]
    BY DEF JobStep, JobStarts, JobDeletes, JobSucceeds, JobFails
  <2> QED
    BY <2>1, <2>2
<1>x. UNCHANGED <<driver, run, thread, unscanned, merged, left>>
  BY DEF JobStep, JobStarts, JobDeletes, JobSucceeds, JobFails
<1>2. CASE JobDeletes(c, r, j)
  BY <1>1, <1>2, <1>x DEF JobDeletes, JobSteps, PipelineTypeOK
<1>3. CASE JobStarts(c, r, j)
  <2>1. /\ jobs' \in [Chains -> [Runs -> [Jobs -> JobStates]]] /\ jobs'[c][r][j] = "running"
        /\ \A d \in Chains, s \in Runs, k \in Jobs :
             <<d, s, k>> # <<c, r, j>> => jobs'[d][s][k] = jobs[d][s][k]
    BY <1>3, SetJobType DEF JobStarts
  <2>2. jobs[c][r][j] = "queued"
    BY <1>3 DEF JobStarts
  <2> QED
    BY <1>1, <1>x, <2>1, <2>2 DEF JobSteps
<1>4. CASE JobSucceeds(c, r, j)
  <2>1. /\ jobs' \in [Chains -> [Runs -> [Jobs -> JobStates]]] /\ jobs'[c][r][j] = "succeeded"
        /\ \A d \in Chains, s \in Runs, k \in Jobs :
             <<d, s, k>> # <<c, r, j>> => jobs'[d][s][k] = jobs[d][s][k]
    BY <1>4, SetJobType DEF JobSucceeds
  <2>2. jobs[c][r][j] = "running"
    BY <1>4 DEF JobSucceeds
  <2> QED
    BY <1>1, <1>x, <2>1, <2>2 DEF JobSteps
<1>5. CASE JobFails(c, r, j)
  <2>1. /\ jobs' \in [Chains -> [Runs -> [Jobs -> JobStates]]] /\ jobs'[c][r][j] = "failed"
        /\ \A d \in Chains, s \in Runs, k \in Jobs :
             <<d, s, k>> # <<c, r, j>> => jobs'[d][s][k] = jobs[d][s][k]
    BY <1>5, SetJobType DEF JobFails
  <2>2. jobs[c][r][j] = "running"
    BY <1>5 DEF JobFails
  <2> QED
    BY <1>1, <1>x, <2>1, <2>2 DEF JobSteps
<1> QED
  BY <1>2, <1>3, <1>4, <1>5 DEF JobStep

\* The steps, by what they do to the jobs and the directories.
LEMMA StepCases ==
  ASSUME [PipelineNext]_pipelineVars
  PROVE  \/ \E c \in Chains, j \in Jobs : Submit(c, j)
         \/ \E c \in Chains, r \in Runs, j \in Jobs :
              JobStep(c, r, j)
         \/ /\ UNCHANGED <<jobs, out>>
            /\ \/ \E d \in Drivers : StartIntra(d)
               \/ StartInter
               \/ \E f \in Files : Scan(f)
               \/ Scanned
               \/ \E program \in Programs : Dies(program)
               \/ \E c \in Chains, j \in Jobs : Proceed(c, j)
               \/ UNCHANGED pipelineVars
  BY DEF PipelineNext, Operator, Cluster, Chain, StartIntra, StartInter, Scan, Scanned, Dies,
         Proceed, pipelineVars

LEMMA PipelineTypeStep ==
  ASSUME PipelineTypeOK, RunsInOrder, [PipelineNext]_pipelineVars
  PROVE  PipelineTypeOK'
<1>1. ASSUME NEW c \in Chains, NEW j \in Jobs, Submit(c, j)
      PROVE  PipelineTypeOK'
  BY <1>1, SubmitStep DEF Submit, PipelineTypeOK, Places
<1>2. ASSUME NEW c \in Chains, NEW r \in Runs, NEW j \in Jobs, JobStep(c, r, j)
      PROVE  PipelineTypeOK'
  BY <1>2, ClusterStep DEF PipelineTypeOK
<1>3. ASSUME NEW program \in Programs, NEW first \in Places, Start(program, first)
      PROVE  /\ run' \in [Chains -> 0 .. MaxRuns]
             /\ thread' \in [Chains -> Places]
  <2>1. \A c \in program : run[c] + 1 \in 0 .. MaxRuns
    <3>1. \A c \in program : c \in Chains /\ run[c] < MaxRuns
      BY <1>3 DEF Start, MayStart, Programs, Chains
    <3> QED
      BY <3>1, RunsAssumption DEF PipelineTypeOK
  <2>2. run' \in [Chains -> 0 .. MaxRuns]
    BY <1>3, <2>1 DEF Start, PipelineTypeOK
  <2> QED
    BY <1>3, <2>2 DEF Start, PipelineTypeOK, Places
<1>4. ASSUME NEW d \in Drivers, StartIntra(d)
      PROVE  PipelineTypeOK'
  <2>1. run' \in [Chains -> 0 .. MaxRuns] /\ thread' \in [Chains -> Places]
    BY <1>3, <1>4, PlacesAre DEF StartIntra, Programs
  <2>2. driver' \in [Runs -> Drivers]
    BY <1>4 DEF StartIntra, PipelineTypeOK
  <2> QED
    BY <1>4, <2>1, <2>2 DEF StartIntra, PipelineTypeOK, Places
<1>5. CASE StartInter
  <2>1. run' \in [Chains -> 0 .. MaxRuns] /\ thread' \in [Chains -> Places]
    BY <1>3, <1>5, PlacesAre DEF StartInter, Programs
  <2> QED
    BY <1>5, <2>1 DEF StartInter, PipelineTypeOK, Places
<1>6. ASSUME NEW f \in Files, Scan(f)
      PROVE  PipelineTypeOK'
  <2>1. merged' \in [Runs -> SUBSET Files] /\ unscanned' \in SUBSET Files
    BY <1>6 DEF Scan, PipelineTypeOK
  <2> QED
    BY <1>6, <2>1 DEF Scan, PipelineTypeOK
<1>7. CASE Scanned
  <2>1. InterHD \in Chains
    BY DEF Chains
  <2>2. thread' \in [Chains -> Places]
    BY <1>7, <2>1, PlacesAre, SetThreadType DEF Scanned
  <2> QED
    BY <1>7, <2>2 DEF Scanned, PipelineTypeOK, Places
<1>8. ASSUME NEW program \in Programs, Dies(program)
      PROVE  PipelineTypeOK'
  <2>1. program \subseteq Chains
    BY DEF Programs, Chains
  <2>2. left' \in SUBSET (Chains \X Jobs)
    BY <1>8, <2>1 DEF Dies, PipelineTypeOK
  <2>3. thread' \in [Chains -> Places]
    BY <1>8, PlacesAre DEF Dies, PipelineTypeOK, Places
  <2> QED
    BY <1>8, <2>2, <2>3 DEF Dies, PipelineTypeOK, Places
<1>9. ASSUME NEW c \in Chains, NEW j \in Jobs, Proceed(c, j)
      PROVE  PipelineTypeOK'
  BY <1>9, ProceedStep DEF Proceed, PipelineTypeOK, Places
<1>10. CASE UNCHANGED pipelineVars
  BY <1>10 DEF pipelineVars, PipelineTypeOK
<1> QED
  BY StepCases, <1>1, <1>2, <1>4, <1>5, <1>6, <1>7, <1>8, <1>9, <1>10

-----------------------------------------------------------------------------
(* Jobs and directories                                                    *)

LEMMA EveryJobStep ==
  ASSUME PipelineTypeOK, RunsInOrder, [PipelineNext]_pipelineVars
  PROVE  JobSteps
<1>1. CASE UNCHANGED <<jobs, out>>
  BY <1>1 DEF JobSteps
<1> QED
  BY StepCases, SubmitStep, ClusterStep, <1>1

\* A job that has begun to write stays begun, and one that succeeded stays so.
LEMMA JobsMoveOn ==
  ASSUME PipelineTypeOK, RunsInOrder, Directories, [PipelineNext]_pipelineVars,
         NEW c \in Chains, NEW r \in Runs, NEW j \in Jobs
  PROVE  /\ jobs[c][r][j] \notin {"none", "queued"} => jobs'[c][r][j] \notin {"none", "queued"}
         /\ jobs[c][r][j] = "succeeded" => jobs'[c][r][j] = "succeeded"
         /\ jobs[c][r][j] # "none" => jobs'[c][r][j] # "none"
<1>1. JobSteps
  BY EveryJobStep
<1>2. out[c][j] = "absent" => jobs[c][r][j] \in {"none", "queued"}
  BY DEF Directories, Writers
<1> QED
  BY <1>1, <1>2 DEF JobSteps

LEMMA DirectoriesStep ==
  ASSUME PipelineTypeOK, RunsInOrder, Directories, [PipelineNext]_pipelineVars
  PROVE  Directories'
<1> SUFFICES ASSUME NEW d \in Chains, NEW k \in Jobs
             PROVE  /\ out'[d][k] = "absent" => Writers(d, k)' = {}
                    /\ out'[d][k] = "complete" => HasSucceeded(d, k)'
                    /\ HasSucceeded(d, k)' /\ OneWriter(d, k)' => out'[d][k] = "complete"
  BY DEF Directories
<1>1. /\ out[d][k] = "absent" => Writers(d, k) = {}
      /\ out[d][k] = "complete" => HasSucceeded(d, k)
      /\ HasSucceeded(d, k) /\ OneWriter(d, k) => out[d][k] = "complete"
  BY DEF Directories
<1>2. ASSUME out'[d][k] = out[d][k],
             \A r \in Runs : jobs'[d][r][k] = jobs[d][r][k]
                             \/ {jobs[d][r][k], jobs'[d][r][k]} \subseteq {"none", "queued"}
      PROVE  /\ out'[d][k] = "absent" => Writers(d, k)' = {}
             /\ out'[d][k] = "complete" => HasSucceeded(d, k)'
             /\ HasSucceeded(d, k)' /\ OneWriter(d, k)' => out'[d][k] = "complete"
  <2>1. /\ Writers(d, k)' = Writers(d, k)
        /\ HasSucceeded(d, k)' <=> HasSucceeded(d, k)
    BY <1>2 DEF Writers, HasSucceeded
  <2>2. OneWriter(d, k)' <=> OneWriter(d, k)
    BY <2>1 DEF OneWriter
  <2> QED
    BY <1>1, <1>2, <2>1, <2>2
<1>3. ASSUME NEW c \in Chains, NEW j \in Jobs, Submit(c, j)
      PROVE  \A r \in Runs : jobs'[d][r][k] = jobs[d][r][k]
                \/ {jobs[d][r][k], jobs'[d][r][k]} \subseteq {"none", "queued"}
  <2>1. /\ jobs' = jobs \/ (out[c][j] = "absent" /\ jobs'[c][run[c]][j] = "queued")
        /\ run[c] \in Runs
        /\ \A r \in Runs : <<d, r, k>> # <<c, run[c], j>> => jobs'[d][r][k] = jobs[d][r][k]
    BY <1>3, SubmitStep
  <2>2. CASE jobs' = jobs
    BY <2>2
  <2>3. CASE out[c][j] = "absent" /\ jobs'[c][run[c]][j] = "queued"
    <3> TAKE r \in Runs
    <3>1. CASE <<d, r, k>> # <<c, run[c], j>>
      BY <2>1, <3>1
    <3>2. CASE d = c /\ r = run[c] /\ k = j
      <4>1. jobs[d][r][k] \in {"none", "queued"}
        BY <1>1, <2>3, <3>2 DEF Writers
      <4> QED
        BY <2>3, <3>2, <4>1
    <3> QED
      BY <3>1, <3>2
  <2> QED
    BY <2>1, <2>2, <2>3
<1>4. ASSUME NEW c \in Chains, NEW r \in Runs, NEW j \in Jobs, JobStep(c, r, j),
             <<c, j>> # <<d, k>>
      PROVE  out'[d][k] = out[d][k] /\ \A s \in Runs : jobs'[d][s][k] = jobs[d][s][k]
  BY <1>4, ClusterStep
<1>5. ASSUME NEW r \in Runs, JobStarts(d, r, k) \/ JobFails(d, r, k)
      PROVE  /\ out'[d][k] = "absent" => Writers(d, k)' = {}
             /\ out'[d][k] = "complete" => HasSucceeded(d, k)'
             /\ HasSucceeded(d, k)' /\ OneWriter(d, k)' => out'[d][k] = "complete"
  <2>1. /\ jobs[d][r][k] \in {"queued", "running"} /\ jobs'[d][r][k] \in {"running", "failed"}
        /\ \A s \in Runs : s # r => jobs'[d][s][k] = jobs[d][s][k]
    BY <1>5 DEF JobStarts, JobFails, SetJob, PipelineTypeOK
  <2>2. out'[d][k] = IF out[d][k] = "absent" THEN "open" ELSE out[d][k]
    <3>1. CASE JobStarts(d, r, k)
      BY <3>1 DEF JobStarts, PipelineTypeOK
    <3>2. CASE JobFails(d, r, k)
      <4>1. jobs[d][r][k] = "running" /\ out' = out
        BY <3>2 DEF JobFails
      <4>2. out[d][k] # "absent"
        BY <1>1, <4>1 DEF Writers
      <4> QED
        BY <4>1, <4>2
    <3> QED
      BY <1>5, <3>1, <3>2
  <2>3. HasSucceeded(d, k)' <=> HasSucceeded(d, k)
    BY <2>1 DEF HasSucceeded
  <2>4. Writers(d, k) \subseteq Writers(d, k)'
    BY <2>1 DEF Writers
  <2>5. OneWriter(d, k)' => OneWriter(d, k)
    BY <2>4 DEF OneWriter
  <2>6. out[d][k] = "absent" => ~ HasSucceeded(d, k)
    BY <1>1 DEF Writers, HasSucceeded
  <2> QED
    BY <1>1, <2>2, <2>3, <2>5, <2>6
<1>6. ASSUME NEW r \in Runs, JobSucceeds(d, r, k)
      PROVE  out'[d][k] = "complete" /\ HasSucceeded(d, k)'
  <2>1. jobs'[d][r][k] = "succeeded" /\ out'[d][k] = "complete"
    BY <1>6 DEF JobSucceeds, SetJob, PipelineTypeOK
  <2> QED
    BY <2>1 DEF HasSucceeded
<1>7. ASSUME NEW r \in Runs, JobDeletes(d, r, k)
      PROVE  out'[d][k] = "open" /\ ~ OneWriter(d, k)'
  <2>1. out'[d][k] = "open" /\ jobs' = jobs /\ jobs[d][r][k] = "running" /\ out[d][k] = "complete"
    BY <1>7 DEF JobDeletes, PipelineTypeOK
  <2>2. PICK s \in Runs : jobs[d][s][k] = "succeeded"
    BY <1>1, <2>1 DEF HasSucceeded
  <2>3. s # r /\ s \in Writers(d, k)' /\ r \in Writers(d, k)'
    BY <2>1, <2>2 DEF Writers
  <2> QED
    BY <2>1, <2>3 DEF OneWriter
<1>8. ASSUME NEW c \in Chains, NEW r \in Runs, NEW j \in Jobs, JobStep(c, r, j)
      PROVE  /\ out'[d][k] = "absent" => Writers(d, k)' = {}
             /\ out'[d][k] = "complete" => HasSucceeded(d, k)'
             /\ HasSucceeded(d, k)' /\ OneWriter(d, k)' => out'[d][k] = "complete"
  <2>1. CASE <<c, j>> # <<d, k>>
    <3>1. out'[d][k] = out[d][k] /\ \A s \in Runs : jobs'[d][s][k] = jobs[d][s][k]
      BY <1>4, <1>8, <2>1
    <3> QED
      BY <1>2, <3>1
  <2>2. CASE c = d /\ j = k
    BY <1>5, <1>6, <1>7, <1>8, <2>2 DEF JobStep
  <2> QED
    BY <2>1, <2>2
<1>9. ASSUME NEW c \in Chains, NEW j \in Jobs, Submit(c, j)
      PROVE  out'[d][k] = out[d][k]
  BY <1>9 DEF Submit
<1>10. CASE UNCHANGED <<jobs, out>>
  <2>1. out'[d][k] = out[d][k] /\ \A r \in Runs : jobs'[d][r][k] = jobs[d][r][k]
    BY <1>10
  <2> QED
    BY <1>2, <2>1
<1>11. ASSUME NEW c \in Chains, NEW j \in Jobs, Submit(c, j)
       PROVE  /\ out'[d][k] = "absent" => Writers(d, k)' = {}
              /\ out'[d][k] = "complete" => HasSucceeded(d, k)'
              /\ HasSucceeded(d, k)' /\ OneWriter(d, k)' => out'[d][k] = "complete"
  <2>1. out'[d][k] = out[d][k]
    BY <1>9, <1>11
  <2>2. \A r \in Runs : jobs'[d][r][k] = jobs[d][r][k]
          \/ {jobs[d][r][k], jobs'[d][r][k]} \subseteq {"none", "queued"}
    BY <1>3, <1>11
  <2> QED
    BY <1>2, <2>1, <2>2
<1> QED
  BY StepCases, <1>8, <1>10, <1>11

-----------------------------------------------------------------------------
(* Chains and runs                                                         *)

LEMMA OwnJobsStep ==
  ASSUME PipelineTypeOK, RunsInOrder, OwnJobs, [PipelineNext]_pipelineVars
  PROVE  OwnJobs'
<1>1. JobSteps
  BY EveryJobStep
<1>2. \A c \in Chains, r \in Runs, j \in Jobs : jobs'[c][r][j] # "none" => j \in JobsOf(c)
  BY <1>1 DEF JobSteps, OwnJobs
<1> DEFINE PlacedIn(t) == \A c \in Chains, j \in Jobs :
                            t[c] \in {Submitting(j), Waiting(j)} => j \in JobsOf(c)
<1>3. PlacedIn(thread)
  BY DEF OwnJobs
<1>4. ASSUME NEW c \in Chains, NEW j \in Jobs, Submit(c, j)
      PROVE  PlacedIn(thread')
  <2>1. j \in JobsOf(c)
    BY <1>4 DEF Submit, OwnJobs
  <2> QED
    <3>1. /\ thread'[c] \in {Waiting(j), Ended}
          /\ \A d \in Chains : d # c => thread'[d] = thread[d]
      BY <1>4, SubmitStep
    <3> QED
      BY <1>3, <2>1, <3>1, PlacesDiffer
<1>5. ASSUME NEW c \in Chains, NEW j \in Jobs, Proceed(c, j)
      PROVE  PlacedIn(thread')
  <2>1. j \in JobsOf(c)
    BY <1>5 DEF Proceed, OwnJobs
  <2>2. j \notin Last => After(run[c], j) \in JobsOf(c) /\ After(run[c], j) \in Jobs
    BY <2>1 DEF JobsOf, After, Last
  <2>3. \/ thread'[c] = Ended
        \/ thread'[c] = Submitting(After(run[c], j)) /\ j \notin Last
    BY <1>5, ProceedStep
  <2>4. \A d \in Chains : d # c => thread'[d] = thread[d]
    BY <1>5, ProceedStep
  <2> QED
    BY <1>3, <2>2, <2>3, <2>4, PlacesDiffer
<1>6. ASSUME NEW d \in Drivers, StartIntra(d)
      PROVE  PlacedIn(thread')
  <2>1. \A c \in Chains : IF c \in Files THEN thread'[c] = Submitting("flatten")
                          ELSE thread'[c] = thread[c]
    BY <1>6 DEF StartIntra, Start
  <2>2. \A c \in Files : "flatten" \in JobsOf(c)
    BY RunsAssumption DEF JobsOf
  <2> QED
    BY <1>3, <2>1, <2>2, PlacesDiffer
<1>7. ASSUME StartInter PROVE PlacedIn(thread')
  <2>1. \A c \in Chains : thread'[c] = Scanning \/ thread'[c] = thread[c]
    BY <1>7 DEF StartInter, Start
  <2> QED
    BY <1>3, <2>1, PlacesDiffer
<1>8. ASSUME Scanned PROVE PlacedIn(thread')
  <2>1. \A c \in Chains : IF c = InterHD THEN thread'[c] = Submitting("merge")
                          ELSE thread'[c] = thread[c]
    BY <1>8 DEF Scanned, SetThread, PipelineTypeOK
  <2>2. "merge" \in JobsOf(InterHD)
    BY DEF JobsOf
  <2> QED
    BY <1>3, <2>1, <2>2, PlacesDiffer
<1>9. ASSUME NEW program \in Programs, Dies(program)
      PROVE  PlacedIn(thread')
  <2>1. \A c \in Chains : thread'[c] = Off \/ thread'[c] = thread[c]
    BY <1>9 DEF Dies
  <2> QED
    BY <1>3, <2>1, PlacesDiffer
<1>10. ASSUME UNCHANGED thread PROVE PlacedIn(thread')
  BY <1>3, <1>10
<1>11. PlacedIn(thread')
  <2>1. ASSUME NEW c \in Chains, NEW r \in Runs, NEW j \in Jobs, JobStep(c, r, j)
        PROVE  UNCHANGED thread
    BY <2>1, ClusterStep
  <2>2. ASSUME NEW f \in Files, Scan(f) PROVE UNCHANGED thread
    BY <2>2 DEF Scan
  <2>3. UNCHANGED pipelineVars => UNCHANGED thread
    BY DEF pipelineVars
  <2> HIDE DEF PlacedIn
  <2> QED
    BY StepCases, <1>4, <1>5, <1>6, <1>7, <1>8, <1>9, <1>10, <2>1, <2>2, <2>3
<1> QED
  BY <1>2, <1>11 DEF OwnJobs

\* What starting a program does to the runs.
LEMMA StartStep ==
  ASSUME PipelineTypeOK, NEW program \in Programs, NEW first, Start(program, first)
  PROVE  /\ program = Files \/ program = {InterHD}
         /\ \A c \in Chains : IF c \in program
                              THEN run'[c] = run[c] + 1 /\ thread'[c] = first
                              ELSE run'[c] = run[c] /\ thread'[c] = thread[c]
         /\ \A c \in program : c \in Chains /\ run[c] + 1 \in Runs /\ run[c] \in Nat
         /\ \A c \in Chains : run[c] \in Nat
<1>1. /\ program = Files \/ program = {InterHD}
      /\ \A c \in Chains : IF c \in program
                           THEN run'[c] = run[c] + 1 /\ thread'[c] = first
                           ELSE run'[c] = run[c] /\ thread'[c] = thread[c]
  BY DEF Start, Programs
<1>2. \A c \in program : c \in Chains /\ run[c] < MaxRuns
  BY <1>1 DEF Start, MayStart, Chains
<1>3. \A c \in Chains : run[c] \in 0 .. MaxRuns
  BY DEF PipelineTypeOK
<1> QED
  BY <1>1, <1>2, <1>3, RunsAssumption DEF Runs

LEMMA RunsInOrderStep ==
  ASSUME PipelineTypeOK, RunsInOrder, [PipelineNext]_pipelineVars
  PROVE  RunsInOrder'
<1>1. JobSteps
  BY EveryJobStep
<1>2. /\ \A f, g \in Files : run[f] = run[g]
      /\ \A c \in Chains : thread[c] = Off \/ run[c] \in Runs
      /\ \A c \in Chains, r \in Runs, j \in Jobs : r > run[c] => jobs[c][r][j] = "none"
      /\ thread[InterHD] = Scanning => jobs[InterHD][run[InterHD]]["merge"] = "none"
      /\ InterHD \in Chains /\ Files \subseteq Chains
  BY DEF RunsInOrder, Chains
<1>3. ASSUME NEW c \in Chains, NEW j \in Jobs, Submit(c, j)
      PROVE  RunsInOrder'
  <2>1. /\ run' = run /\ run[c] \in Runs /\ thread[c] = Submitting(j)
        /\ thread'[c] \in {Waiting(j), Ended}
        /\ \A d \in Chains : d # c => thread'[d] = thread[d]
        /\ \A d \in Chains, r \in Runs, k \in Jobs :
              <<d, r, k>> # <<c, run[c], j>> => jobs'[d][r][k] = jobs[d][r][k]
    BY <1>3, SubmitStep DEF Submit
  <2>2. \A d \in Chains : thread'[d] = Off \/ run'[d] \in Runs
    BY <1>2, <2>1
  <2>3. \A d \in Chains, r \in Runs, k \in Jobs : r > run'[d] => jobs'[d][r][k] = "none"
    <3>1. ~ (run[c] > run[c])
      BY <2>1, RunsAssumption DEF Runs
    <3> QED
      BY <1>2, <2>1, <3>1
  <2>4. thread'[InterHD] = Scanning => jobs'[InterHD][run'[InterHD]]["merge"] = "none"
    <3> SUFFICES ASSUME thread'[InterHD] = Scanning
                 PROVE  jobs'[InterHD][run'[InterHD]]["merge"] = "none"
      OBVIOUS
    <3>1. InterHD # c
      BY <2>1, PlacesDiffer
    <3>2. thread[InterHD] = Scanning
      BY <1>2, <2>1, <3>1
    <3>3. run[InterHD] \in Runs
      BY <1>2, <3>2, PlacesDiffer
    <3> QED
      BY <1>2, <2>1, <3>1, <3>2, <3>3
  <2> QED
    BY <1>2, <2>1, <2>2, <2>3, <2>4 DEF RunsInOrder
<1>4. ASSUME NEW c \in Chains, NEW r \in Runs, NEW j \in Jobs, JobStep(c, r, j)
      PROVE  RunsInOrder'
  <2>1. run' = run /\ thread' = thread
    BY <1>4, ClusterStep
  <2>2. \A d \in Chains, s \in Runs, k \in Jobs :
          jobs[d][s][k] = "none" /\ thread[d] = thread'[d] => jobs'[d][s][k] = "none"
    <3>1. \A d \in Chains, k \in Jobs : Submitting(k) # Waiting(k)
      BY PlacesDiffer
    <3> QED
      BY <1>1, <3>1 DEF JobSteps
  <2>3. thread[InterHD] = Scanning => run[InterHD] \in Runs
    BY <1>2, PlacesDiffer
  <2> QED
    BY <1>2, <2>1, <2>2, <2>3 DEF RunsInOrder
<1>5. ASSUME NEW program \in Programs, NEW first, Start(program, first), UNCHANGED jobs,
             first # Scanning \/ program = {InterHD}
      PROVE  RunsInOrder'
  <2>1. /\ program = Files \/ program = {InterHD}
        /\ \A c \in Chains : IF c \in program
                             THEN run'[c] = run[c] + 1 /\ thread'[c] = first
                             ELSE run'[c] = run[c] /\ thread'[c] = thread[c]
        /\ \A c \in program : c \in Chains /\ run[c] + 1 \in Runs /\ run[c] \in Nat
        /\ \A c \in Chains : run[c] \in Nat
    BY <1>5, StartStep
  <2>2. \A f, g \in Files : run'[f] = run'[g]
    BY <1>2, <2>1, RunsAssumption
  <2>3. \A c \in Chains : thread'[c] = Off \/ run'[c] \in Runs
    BY <1>2, <2>1
  <2>4. \A c \in Chains, r \in Runs, j \in Jobs : r > run'[c] => jobs'[c][r][j] = "none"
    <3>1. \A c \in Chains, r \in Runs : r > run'[c] => r > run[c]
      BY <2>1, RunsAssumption DEF Runs
    <3> QED
      BY <1>2, <1>5, <3>1
  <2>5. thread'[InterHD] = Scanning => jobs'[InterHD][run'[InterHD]]["merge"] = "none"
    <3>1. CASE InterHD \in program
      <4>1. run'[InterHD] \in Runs /\ run'[InterHD] > run[InterHD]
        BY <1>2, <2>1, <3>1
      <4> QED
        BY <1>2, <1>5, <4>1
    <3>2. CASE InterHD \notin program
      BY <1>2, <1>5, <2>1, <3>2
    <3> QED
      BY <3>1, <3>2
  <2> QED
    BY <2>2, <2>3, <2>4, <2>5 DEF RunsInOrder
<1>6. ASSUME NEW d \in Drivers, StartIntra(d)
      PROVE  RunsInOrder'
  <2>1. Submitting("flatten") # Scanning
    BY PlacesDiffer
  <2> QED
    BY <1>5, <1>6, <2>1 DEF StartIntra, Programs
<1>7. CASE StartInter
  BY <1>5, <1>7 DEF StartInter, Programs
<1>8. ASSUME UNCHANGED <<run, jobs>>,
             \A c \in Chains : \/ thread'[c] = Off \/ thread'[c] = thread[c]
                               \/ thread[c] # Off /\ thread'[c] # Scanning
      PROVE  RunsInOrder'
  <2>1. Scanning # Off
    BY DEF Scanning, Off
  <2>2. \A c \in Chains : thread'[c] = Off \/ run'[c] \in Runs
    BY <1>2, <1>8
  <2>3. thread'[InterHD] = Scanning => thread[InterHD] = Scanning
    BY <1>2, <1>8, <2>1
  <2> QED
    BY <1>2, <1>8, <2>2, <2>3 DEF RunsInOrder
<1>9. CASE Scanned
  <2>1. \A c \in Chains : thread'[c] = thread[c]
                          \/ (thread[c] = Scanning /\ thread'[c] = Submitting("merge"))
    BY <1>9 DEF Scanned, SetThread, PipelineTypeOK
  <2> QED
    BY <1>8, <1>9, <2>1, PlacesDiffer DEF Scanned
<1>10. ASSUME NEW program \in Programs, Dies(program)
       PROVE  RunsInOrder'
  BY <1>8, <1>10 DEF Dies
<1>11. ASSUME NEW c \in Chains, NEW j \in Jobs, Proceed(c, j)
       PROVE  RunsInOrder'
  <2>1. thread[c] = Waiting(j) /\ UNCHANGED <<run, jobs>>
    BY <1>11 DEF Proceed
  <2>2. thread'[c] = Ended \/ thread'[c] = Submitting(After(run[c], j))
    BY <1>11, ProceedStep
  <2>3. \A d \in Chains : d # c => thread'[d] = thread[d]
    BY <1>11, ProceedStep
  <2>4. thread[c] # Off /\ thread'[c] # Scanning
    BY <2>1, <2>2, PlacesDiffer, AfterIsJob
  <2> QED
    BY <1>8, <2>1, <2>3, <2>4
<1>12. CASE UNCHANGED <<run, thread, jobs>>
  BY <1>8, <1>12
<1> QED
  BY StepCases, <1>3, <1>4, <1>6, <1>7, <1>9, <1>10, <1>11, <1>12 DEF Scan, pipelineVars

-----------------------------------------------------------------------------
(* The queue                                                               *)

LEMMA QueuedOrLeftStep ==
  ASSUME PipelineTypeOK, RunsInOrder, Directories, QueuedOrLeft, [PipelineNext]_pipelineVars
  PROVE  QueuedOrLeft'
<1>1. JobSteps
  BY EveryJobStep
<1> DEFINE Waits(c, r, j, t, n, l) == <<c, j>> \in l \/ (r = n[c] /\ t[c] = Waiting(j))
<1>2. \A c \in Chains, j \in Jobs, r \in Runs :
        /\ jobs[c][r][j] = "queued" => Waits(c, r, j, thread, run, left)
        /\ \A s \in Runs : jobs[c][r][j] # "none" /\ jobs[c][s][j] # "none" =>
             r = s \/ <<c, j>> \in left
  BY DEF QueuedOrLeft
<1>3. left \subseteq left'
  <2>1. ASSUME NEW program \in Programs, Dies(program) PROVE left \subseteq left'
    BY <2>1 DEF Dies
  <2>2. (\A program \in Programs : ~ Dies(program)) => left' = left
    BY StepCases DEF Submit, JobStep, JobStarts, JobDeletes, JobSucceeds, JobFails,
                     StartIntra, StartInter, Scan, Scanned, Proceed, pipelineVars
  <2> QED
    BY <2>1, <2>2
\* A job that was in the queue and stays there is waited for, or left.
<1>4. ASSUME NEW c \in Chains, NEW j \in Jobs, NEW r \in Runs,
             jobs[c][r][j] = "queued", jobs'[c][r][j] = "queued"
      PROVE  Waits(c, r, j, thread', run', left')
  <2>1. CASE <<c, j>> \in left
    BY <1>3, <2>1
  <2>2. CASE r = run[c] /\ thread[c] = Waiting(j)
    <3>1. CASE run'[c] = run[c] /\ thread'[c] = thread[c]
      BY <2>2, <3>1
    <3>2. ASSUME NEW program \in Programs, NEW first, Start(program, first)
          PROVE  run'[c] = run[c] /\ thread'[c] = thread[c]
      <4>1. c \notin program
        <5>1. thread[c] \notin {Off, Ended}
          BY <2>2, PlacesDiffer
        <5> QED
          BY <3>2, <5>1 DEF Start, MayStart
      <4> QED
        BY <3>2, <4>1 DEF Start
    <3>3. ASSUME NEW program \in Programs, Dies(program)
          PROVE  Waits(c, r, j, thread', run', left')
      <4>1. CASE c \in program
        BY <1>4, <3>3, <4>1 DEF Dies
      <4>2. CASE c \notin program
        BY <2>2, <3>3, <4>2 DEF Dies
      <4> QED
        BY <4>1, <4>2
    <3>4. ASSUME NEW d \in Chains, NEW k \in Jobs, Submit(d, k) \/ Proceed(d, k)
          PROVE  run'[c] = run[c] /\ thread'[c] = thread[c]
      <4>1. d # c
        <5>1. ~ Submit(c, k)
          BY <2>2, PlacesDiffer DEF Submit
        <5>2. Proceed(c, k) => k = j
          BY <2>2, PlacesDiffer DEF Proceed
        <5>3. ~ Proceed(c, j)
          BY <1>4, <2>2 DEF Proceed
        <5> QED
          BY <3>4, <5>1, <5>2, <5>3
      <4>2. thread'[c] = thread[c]
        BY <3>4, <4>1, SubmitStep, ProceedStep
      <4> QED
        BY <3>4, <4>2 DEF Submit, Proceed
    <3>5. CASE Scanned
      <4>1. c # InterHD
        BY <2>2, <3>5, PlacesDiffer DEF Scanned
      <4> QED
        BY <2>2, <3>5, <4>1 DEF Scanned, SetThread, PipelineTypeOK
    <3> QED
      BY StepCases, <3>1, <3>2, <3>3, <3>4, <3>5
      DEF StartIntra, StartInter, Scan, JobStep, JobStarts, JobDeletes, JobSucceeds, JobFails,
          pipelineVars, Programs
  <2> QED
    BY <1>2, <1>4, <2>1, <2>2
<1>5. \A c \in Chains, j \in Jobs, r \in Runs :
        jobs'[c][r][j] = "queued" => Waits(c, r, j, thread', run', left')
  <2> SUFFICES ASSUME NEW c \in Chains, NEW j \in Jobs, NEW r \in Runs, jobs'[c][r][j] = "queued"
               PROVE  Waits(c, r, j, thread', run', left')
    OBVIOUS
  <2>1. CASE jobs[c][r][j] = "queued"
    BY <1>4, <2>1
  <2>2. CASE jobs[c][r][j] # "queued"
    BY <1>1, <2>2 DEF JobSteps
  <2> QED
    BY <2>1, <2>2
\* A job enters the queue only where the others for its directory were left there.
<1>6. ASSUME NEW c \in Chains, NEW j \in Jobs, NEW r \in Runs, NEW s \in Runs,
             jobs'[c][r][j] # "none", jobs'[c][s][j] # "none", r # s
      PROVE  <<c, j>> \in left'
  <2>1. CASE jobs[c][r][j] # "none" /\ jobs[c][s][j] # "none"
    BY <1>2, <1>3, <1>6, <2>1
  <2>2. ASSUME NEW p \in Runs, NEW q \in Runs, p # q, jobs[c][p][j] = "none",
               jobs'[c][p][j] # "none", jobs'[c][q][j] # "none"
        PROVE  <<c, j>> \in left'
    <3>1. thread[c] = Submitting(j) /\ p = run[c] /\ out[c][j] = "absent"
          /\ thread'[c] = Waiting(j)
      BY <1>1, <2>2 DEF JobSteps
    <3>2. jobs[c][q][j] \in {"none", "queued"} /\ jobs'[c][q][j] = "queued"
      <4>1. jobs[c][q][j] \in {"none", "queued"}
        BY <3>1 DEF Directories, Writers
      <4>2. \E e \in Chains, k \in Jobs : Submit(e, k)
        <5>1. ASSUME NEW e \in Chains, NEW n \in Runs, NEW k \in Jobs, JobStep(e, n, k)
              PROVE  FALSE
          <6>1. thread' = thread
            BY <5>1, ClusterStep
          <6> QED
            BY <3>1, <6>1, PlacesDiffer
        <5> QED
          BY StepCases, <2>2, <5>1
      <4>3. PICK e \in Chains, k \in Jobs : Submit(e, k)
        BY <4>2
      <4>4. \A d \in Chains, n \in Runs, i \in Jobs :
              <<d, n, i>> # <<e, run[e], k>> => jobs'[d][n][i] = jobs[d][n][i]
        BY <4>3, SubmitStep
      <4>5. jobs'[c][q][j] = jobs[c][q][j]
        BY <2>2, <4>4
      <4> QED
        BY <2>2, <4>1, <4>5
    <3>3. jobs[c][q][j] = "queued" \/ <<c, j>> \in left'
      <4>1. Waits(c, q, j, thread', run', left')
        BY <1>5, <3>2
      <4>2. run' = run
        BY <1>1, <2>2 DEF JobSteps
      <4> QED
        BY <2>2, <3>1, <4>1, <4>2
    <3>4. CASE jobs[c][q][j] = "queued"
      BY <1>2, <1>3, <2>2, <3>1, <3>4
    <3> QED
      BY <3>3, <3>4
  <2> QED
    BY <1>6, <2>1, <2>2
<1>7. \A c \in Chains, j \in Jobs, r \in Runs : \A s \in Runs :
        jobs'[c][r][j] # "none" /\ jobs'[c][s][j] # "none" => r = s \/ <<c, j>> \in left'
  BY <1>6
<1>8. \A c \in Chains, j \in Jobs, r \in Runs :
        jobs'[c][r][j] = "queued" =>
          <<c, j>> \in left' \/ (r = run'[c] /\ thread'[c] = Waiting(j))
  BY <1>5
<1> QED
  BY <1>7, <1>8 DEF QueuedOrLeft

-----------------------------------------------------------------------------
(* Inputs                                                                  *)

\* What a job reads is an output of its own chain, or of the jobs of the files.
LEMMA InputsAre ==
  ASSUME PipelineTypeOK, NEW c \in Chains, NEW r \in Runs, NEW j \in Jobs, j \in JobsOf(c),
         NEW i \in Inputs(c, r, j)
  PROVE  /\ i[2] \in Jobs
         /\ j = "merge" => c = InterHD /\ i[1] \in merged[r] /\ i[1] \in Files /\ i[1] # c
                           /\ i[2] = "correctid"
         /\ j # "merge" => i[1] = c
<1>1. merged[r] \subseteq Files /\ InterHD \notin Files
  BY RunsAssumption DEF PipelineTypeOK
<1>2. CASE j = "merge"
  <2>1. c = InterHD
    BY <1>2 DEF JobsOf
  <2>2. i \in merged[r] \X {"correctid"}
    BY <1>2 DEF Inputs
  <2> QED
    BY <1>1, <1>2, <2>1, <2>2
<1>3. CASE j \in {"flatten", "correctid", "interhd"}
  BY <1>3 DEF Inputs
<1>4. CASE j = "hd"
  <2>1. i = <<c, "flatten">> \/ i = <<c, "correctid">>
    BY <1>4 DEF Inputs
  <2> QED
    BY <1>4, <2>1
<1> QED
  BY <1>2, <1>3, <1>4

\* A program's start changes the inputs of the jobs of its new run only, a scan
\* those of the merge.
LEMMA InputsKept ==
  ASSUME PipelineTypeOK, RunsInOrder, OwnJobs, [PipelineNext]_pipelineVars,
         NEW c \in Chains, NEW r \in Runs, NEW j \in Jobs, j \in JobsOf(c), j # "merge",
         r <= run[c]
  PROVE  Inputs(c, r, j)' = Inputs(c, r, j)
<1>1. CASE j \in {"flatten", "correctid", "interhd"}
  BY <1>1 DEF Inputs
<1>2. CASE j = "hd"
  <2>1. driver'[r] = driver[r]
    <3>1. ASSUME NEW d \in Drivers, StartIntra(d) PROVE driver'[r] = driver[r]
      <4>1. c \in Files
        BY <1>2 DEF JobsOf, Chains
      <4>2. PICK f \in Files : driver' = [driver EXCEPT ![run[f] + 1] = d]
        BY <3>1 DEF StartIntra
      <4>3. run[f] = run[c] /\ run[c] \in Nat
        BY <4>1 DEF RunsInOrder, PipelineTypeOK
      <4>4. r # run[f] + 1
        BY <4>3, RunsAssumption DEF Runs
      <4> QED
        BY <4>2, <4>4 DEF PipelineTypeOK
    <3>2. (\A d \in Drivers : ~ StartIntra(d)) => driver' = driver
      BY StepCases DEF Submit, JobStep, JobStarts, JobDeletes, JobSucceeds, JobFails,
                       StartInter, Scan, Scanned, Dies, Proceed, pipelineVars
    <3> QED
      BY <3>1, <3>2
  <2> QED
    BY <1>2, <2>1 DEF Inputs, After
<1> QED
  BY <1>1, <1>2 DEF JobsOf

LEMMA OwnInputsStep ==
  ASSUME PipelineTypeOK, RunsInOrder, OwnJobs, Directories, OwnInputs, ReadyToSubmit,
         [PipelineNext]_pipelineVars
  PROVE  OwnInputs'
<1>1. PipelineTypeOK' /\ RunsInOrder' /\ OwnJobs' /\ JobSteps
  BY PipelineTypeStep, RunsInOrderStep, OwnJobsStep, EveryJobStep
<1> SUFFICES ASSUME NEW c \in Chains, NEW r \in Runs, NEW j \in Jobs, jobs'[c][r][j] # "none",
                    NEW i \in Inputs(c, r, j)', i[1] = c
             PROVE  jobs'[c][r][i[2]] = "succeeded"
  BY DEF OwnInputs
<1>2. j \in JobsOf(c)
  BY <1>1 DEF OwnJobs, JobsOf
<1>3. CASE j = "merge"
  <2>1. c = InterHD
    BY <1>2, <1>3 DEF JobsOf
  <2>2. i \in merged'[r] \X {"correctid"} /\ merged'[r] \subseteq Files
    BY <1>1, <1>3 DEF Inputs, PipelineTypeOK
  <2> QED
    BY <2>1, <2>2, RunsAssumption
<1>4. CASE j # "merge"
  <2>1. run[c] \in Nat /\ r \in Nat
    BY RunsAssumption DEF PipelineTypeOK, Runs
  <2>2. jobs[c][r][j] # "none" \/ (thread[c] = Submitting(j) /\ r = run[c])
    BY <1>1 DEF JobSteps
  <2>3. r <= run[c]
    BY <2>1, <2>2 DEF RunsInOrder
  <2>4. i \in Inputs(c, r, j)
    BY <1>2, <1>4, <2>3, InputsKept
  <2>5. i[2] \in Jobs
    BY <1>2, <2>4, InputsAre
  <2>6. jobs[c][r][i[2]] = "succeeded"
    BY <2>2, <2>4 DEF OwnInputs, ReadyToSubmit
  <2> QED
    BY <2>5, <2>6, JobsMoveOn
<1> QED
  BY <1>3, <1>4

\* What a job reads that comes next: the outputs of the job before and its inputs.
LEMMA InputsOfNext ==
  ASSUME NEW c \in Chains, NEW r \in Runs, NEW j \in Jobs, j \notin Last,
         NEW i \in Inputs(c, r, After(r, j)), j \in JobsOf(c)
  PROVE  i = <<c, j>> \/ i \in Inputs(c, r, j)
<1>1. CASE j = "flatten"
  BY <1>1 DEF Inputs, After
<1>2. CASE j = "correctid"
  BY <1>2 DEF Inputs, After
<1>3. CASE j = "merge"
  BY <1>3 DEF Inputs, After
<1> QED
  BY <1>1, <1>2, <1>3 DEF Last

LEMMA ReadyToSubmitStep ==
  ASSUME PipelineTypeOK, RunsInOrder, OwnJobs, Directories, OwnInputs, ReadyToSubmit,
         [PipelineNext]_pipelineVars
  PROVE  ReadyToSubmit'
<1>1. PipelineTypeOK' /\ RunsInOrder' /\ OwnJobs'
  BY PipelineTypeStep, RunsInOrderStep, OwnJobsStep
<1> SUFFICES ASSUME NEW c \in Chains, NEW j \in Jobs, thread'[c] = Submitting(j),
                    NEW i \in Inputs(c, run[c], j)', i[1] = c
             PROVE  jobs'[c][run'[c]][i[2]] = "succeeded"
  BY DEF ReadyToSubmit
<1>2. j \in JobsOf(c) /\ run'[c] \in Runs
  BY <1>1, PlacesDiffer DEF OwnJobs, RunsInOrder, JobsOf
<1>3. CASE j = "merge"
  <2>1. c = InterHD
    BY <1>2, <1>3 DEF JobsOf
  <2>2. i \in merged'[run'[c]] \X {"correctid"} /\ merged'[run'[c]] \subseteq Files
    BY <1>1, <1>2, <1>3 DEF Inputs, PipelineTypeOK
  <2> QED
    BY <2>1, <2>2, RunsAssumption
<1>4. CASE j = "flatten"
  BY <1>4 DEF Inputs
<1>5. ASSUME j # "merge", run'[c] = run[c], thread[c] = Submitting(j)
      PROVE  jobs'[c][run'[c]][i[2]] = "succeeded"
  <2>1. PICK r \in Runs : r = run[c] /\ r = run'[c]
    BY <1>2, <1>5
  <2>2. i \in Inputs(c, r, j)
    <3>1. Inputs(c, r, j)' = Inputs(c, r, j)
      BY <1>2, <1>5, <2>1, InputsKept, RunsAssumption DEF Runs
    <3>2. i \in Inputs(c, r, j)'
      BY <2>1
    <3> QED
      BY <3>1, <3>2
  <2>3. i[2] \in Jobs
    BY <1>2, <2>2, InputsAre
  <2>4. jobs[c][r][i[2]] = "succeeded"
    BY <1>5, <2>1, <2>2 DEF ReadyToSubmit
  <2> QED
    BY <2>1, <2>3, <2>4, JobsMoveOn
<1>6. ASSUME j # "merge", NEW k \in Jobs, Proceed(c, k)
      PROVE  jobs'[c][run'[c]][i[2]] = "succeeded"
  <2>1. run' = run /\ jobs' = jobs /\ driver' = driver /\ merged' = merged
        /\ thread[c] = Waiting(k)
    BY <1>6 DEF Proceed
  <2>2. j = After(run[c], k) /\ k \notin Last /\ jobs[c][run[c]][k] = "succeeded"
    BY <1>6, ProceedStep, PlacesDiffer, AfterIsJob
  <2>3. k \in JobsOf(c) /\ run[c] \in Runs
    BY <1>2, <2>1 DEF OwnJobs
  <2>4. i \in Inputs(c, run[c], j)
    BY <2>1 DEF Inputs, After
  <2>5. i = <<c, k>> \/ i \in Inputs(c, run[c], k)
    BY <2>2, <2>3, <2>4, InputsOfNext
  <2>6. CASE i = <<c, k>>
    BY <2>1, <2>2, <2>6
  <2>7. CASE i \in Inputs(c, run[c], k)
    BY <2>1, <2>2, <2>3, <2>7 DEF OwnInputs
  <2> QED
    BY <2>5, <2>6, <2>7
<1>7. ASSUME j # "merge", j # "flatten"
      PROVE  (run'[c] = run[c] /\ thread[c] = Submitting(j)) \/ \E k \in Jobs : Proceed(c, k)
  <2>1. ASSUME NEW d \in Chains, NEW k \in Jobs, Submit(d, k)
        PROVE  run' = run /\ thread[c] = Submitting(j)
    <3>1. /\ thread'[d] \in {Waiting(k), Ended}
          /\ \A e \in Chains : e # d => thread'[e] = thread[e]
      BY <2>1, SubmitStep
    <3>2. c # d
      BY <3>1, PlacesDiffer
    <3> QED
      BY <2>1, <3>1, <3>2 DEF Submit
  <2>2. ASSUME NEW d \in Chains, NEW r \in Runs, NEW k \in Jobs, JobStep(d, r, k)
        PROVE  run' = run /\ thread[c] = Submitting(j)
    BY <2>2, ClusterStep
  <2>3. ASSUME NEW program \in Programs, NEW first, Start(program, first),
               first # Submitting(j)
        PROVE  run'[c] = run[c] /\ thread[c] = Submitting(j)
    BY <2>3 DEF Start
  <2>4. ASSUME NEW d \in Drivers, StartIntra(d)
        PROVE  run'[c] = run[c] /\ thread[c] = Submitting(j)
    <3>1. Submitting("flatten") # Submitting(j)
      BY <1>7, PlacesDiffer
    <3> QED
      BY <2>3, <2>4, <3>1 DEF StartIntra, Programs
  <2>5. ASSUME StartInter
        PROVE  run'[c] = run[c] /\ thread[c] = Submitting(j)
    BY <2>3, <2>5, PlacesDiffer DEF StartInter, Programs
  <2>6. ASSUME Scanned
        PROVE  run'[c] = run[c] /\ thread[c] = Submitting(j)
    <3>1. Submitting("merge") # Submitting(j)
      BY <1>7, PlacesDiffer
    <3> QED
      BY <2>6, <3>1 DEF Scanned, SetThread, PipelineTypeOK
  <2>7. ASSUME NEW program \in Programs, Dies(program)
        PROVE  run'[c] = run[c] /\ thread[c] = Submitting(j)
    BY <2>7, PlacesDiffer DEF Dies
  <2>8. ASSUME NEW d \in Chains, NEW k \in Jobs, Proceed(d, k), d # c
        PROVE  run'[c] = run[c] /\ thread[c] = Submitting(j)
    BY <2>8, ProceedStep DEF Proceed
  <2>9. ASSUME NEW f \in Files, Scan(f)
        PROVE  run'[c] = run[c] /\ thread[c] = Submitting(j)
    BY <2>9 DEF Scan
  <2>10. ASSUME UNCHANGED pipelineVars
         PROVE  run'[c] = run[c] /\ thread[c] = Submitting(j)
    BY <2>10 DEF pipelineVars
  <2> QED
    BY StepCases, <2>1, <2>2, <2>4, <2>5, <2>6, <2>7, <2>8, <2>9, <2>10
<1> QED
  BY <1>3, <1>4, <1>5, <1>6, <1>7

LEMMA VotesStep ==
  ASSUME PipelineTypeOK, RunsInOrder, Directories, VotesSucceeded, [PipelineNext]_pipelineVars
  PROVE  VotesSucceeded'
<1>1. \A f \in Files : HasSucceeded(f, "correctid") => HasSucceeded(f, "correctid")'
  BY JobsMoveOn DEF HasSucceeded, Chains
<1>2. \A r \in Runs : \A f \in merged'[r] :
        f \in Files /\ (f \in merged[r] \/ out[f]["correctid"] = "complete")
  <2>1. ASSUME NEW g \in Files, Scan(g)
        PROVE  \A r \in Runs : \A f \in merged'[r] :
                 f \in Files /\ (f \in merged[r] \/ out[f]["correctid"] = "complete")
    BY <2>1 DEF Scan, PipelineTypeOK
  <2>2. (\A g \in Files : ~ Scan(g)) => merged' = merged
    BY StepCases, ClusterStep
    DEF Submit, StartIntra, StartInter, Scanned, Dies, Proceed, pipelineVars
  <2> QED
    BY <2>1, <2>2 DEF PipelineTypeOK
<1>3. \A f \in Files : out[f]["correctid"] = "complete" => HasSucceeded(f, "correctid")
  BY DEF Directories, Chains
<1> QED
  BY <1>1, <1>2, <1>3 DEF VotesSucceeded

-----------------------------------------------------------------------------
LEMMA PipelineInitInvariant == PipelineInit => PipelineIInv
<1> SUFFICES ASSUME PipelineInit PROVE PipelineIInv
  OBVIOUS
<1>1. PipelineTypeOK
  BY PipelineInitType
<1>2. \A c \in Chains : /\ thread[c] = Off /\ run[c] = 0
                        /\ \A r \in Runs, j \in Jobs : jobs[c][r][j] = "none"
                        /\ \A j \in Jobs : out[c][j] = "absent"
  BY DEF PipelineInit
<1>3. \A r \in Runs : merged[r] = {}
  BY DEF PipelineInit
<1>4. OwnJobs /\ QueuedOrLeft /\ OwnInputs /\ ReadyToSubmit
  BY <1>2, PlacesDiffer DEF OwnJobs, QueuedOrLeft, OwnInputs, ReadyToSubmit
<1>5. RunsInOrder
  BY <1>2 DEF RunsInOrder, Chains, Scanning, Off
<1>6. Directories
  <2>1. \A c \in Chains, j \in Jobs : Writers(c, j) = {} /\ ~ HasSucceeded(c, j)
    BY <1>2 DEF Writers, HasSucceeded
  <2> QED
    BY <1>2, <2>1 DEF Directories
<1>7. VotesSucceeded
  BY <1>3 DEF VotesSucceeded
<1> QED
  BY <1>1, <1>4, <1>5, <1>6, <1>7 DEF PipelineIInv

LEMMA PipelineInductive == PipelineSpec => []PipelineIInv
<1>1. PipelineIInv /\ [PipelineNext]_pipelineVars => PipelineIInv'
  BY PipelineTypeStep, OwnJobsStep, RunsInOrderStep, DirectoriesStep, QueuedOrLeftStep,
     OwnInputsStep, ReadyToSubmitStep, VotesStep
  DEF PipelineIInv
<1> QED
  BY <1>1, PipelineInitInvariant, PTL DEF PipelineSpec

\* Every variable keeps its type, for any files and any number of runs.
THEOREM PipelineTypeCorrect == PipelineSpec => []PipelineTypeOK
<1>1. PipelineIInv => PipelineTypeOK
  BY DEF PipelineIInv
<1> QED
  BY <1>1, PipelineInductive, PTL

\* No job, of a file or of Inter, is submitted before the jobs of its run it reads
\* from have succeeded; and what it reads is complete for as long as no second job
\* writes to the same directory (IntraHD_1.run, IntraHD_2.run, InterHD.run).
THEOREM InputsAlwaysComplete == PipelineSpec => []InputsComplete
<1>1. ASSUME PipelineIInv, NEW c \in Chains, NEW r \in Runs, NEW j \in Jobs, jobs[c][r][j] # "none",
             NEW i \in Inputs(c, r, j)
      PROVE  /\ i[1] = c => jobs[c][r][i[2]] = "succeeded"
             /\ OneWriter(i[1], i[2]) => out[i[1]][i[2]] = "complete"
  <2>1. PipelineTypeOK /\ OwnJobs /\ Directories /\ OwnInputs /\ VotesSucceeded
    BY <1>1 DEF PipelineIInv
  <2>2. j \in JobsOf(c)
    BY <1>1, <2>1 DEF OwnJobs
  <2>3. i[1] = c => jobs[c][r][i[2]] = "succeeded"
    BY <1>1, <2>1 DEF OwnInputs
  <2>4. i[2] \in Jobs /\ i[1] \in Chains /\ HasSucceeded(i[1], i[2])
    <3>1. CASE j = "merge"
      BY <1>1, <2>1, <2>2, <3>1, InputsAre DEF VotesSucceeded, Chains
    <3>2. CASE j # "merge"
      BY <1>1, <2>1, <2>2, <2>3, <3>2, InputsAre DEF HasSucceeded
    <3> QED
      BY <3>1, <3>2
  <2> QED
    BY <2>1, <2>3, <2>4 DEF Directories
<1>2. PipelineIInv => InputsComplete
  BY <1>1 DEF InputsComplete
<1> QED
  BY <1>2, PipelineInductive, PTL

\* Two jobs write to one directory only when a driver left one of them in the queue
\* (IntraHD_2 80, 102, 124; InterHD 85, 107), however often and with
\* whichever driver the programs are started.
THEOREM OnlyLeftJobsShare == PipelineSpec => []SharedOnlyIfLeft
<1>1. ASSUME PipelineIInv, NEW c \in Chains, NEW j \in Jobs, <<c, j>> \notin left
      PROVE  OneWriter(c, j)
  <2>1. \A r, s \in Runs : jobs[c][r][j] # "none" /\ jobs[c][s][j] # "none" => r = s
    BY <1>1 DEF PipelineIInv, QueuedOrLeft
  <2> QED
    BY <2>1 DEF OneWriter, Writers
<1>2. PipelineIInv => SharedOnlyIfLeft
  BY <1>1 DEF SharedOnlyIfLeft
<1> QED
  BY <1>2, PipelineInductive, PTL

\* A complete output for which no job is in the queue or running is never written again.
THEOREM OutputsStayFinal == PipelineSpec => OutputsFinal
<1>1. ASSUME PipelineTypeOK, RunsInOrder, [PipelineNext]_pipelineVars,
             NEW c \in Chains, NEW j \in Jobs, Settled(c, j)
      PROVE  Settled(c, j)'
  <2>1. out[c][j] = "complete" /\ \A r \in Runs : jobs[c][r][j] \notin {"queued", "running"}
    BY <1>1 DEF Settled
  <2>2. \A r \in Runs : jobs'[c][r][j] = jobs[c][r][j]
    BY <1>1, <2>1, EveryJobStep DEF JobSteps
  <2>3. out'[c][j] = out[c][j]
    <3>1. ASSUME NEW d \in Chains, NEW r \in Runs, NEW k \in Jobs, JobStep(d, r, k)
          PROVE  out'[c][j] = out[c][j]
      <4>1. <<c, j>> # <<d, k>>
        BY <2>1, <3>1 DEF JobStep, JobStarts, JobDeletes, JobSucceeds, JobFails
      <4> QED
        BY <1>1, <3>1, <4>1, ClusterStep
    <3>2. ASSUME NEW d \in Chains, NEW k \in Jobs, Submit(d, k)
          PROVE  out'[c][j] = out[c][j]
      BY <3>2 DEF Submit
    <3> QED
      BY <1>1, StepCases, <3>1, <3>2
  <2> QED
    BY <2>1, <2>2, <2>3 DEF Settled
<1>2. PipelineIInv /\ [PipelineNext]_pipelineVars =>
        [\A c \in Chains, j \in Jobs : Settled(c, j) => Settled(c, j)']_pipelineVars
  BY <1>1 DEF PipelineIInv
<1> QED
  BY <1>2, PipelineInductive, PTL DEF PipelineSpec, OutputsFinal

\* A file whose jobs were broken off is never finished by a later run.
THEOREM HalfDoneStaysHalfDone == PipelineSpec => HalfDoneForGood
<1>1. ASSUME PipelineTypeOK, RunsInOrder, Directories, [PipelineNext]_pipelineVars,
             NEW f \in Files, Abandoned(f)
      PROVE  Abandoned(f)'
  <2>1. /\ f \in Chains /\ f # InterHD
        /\ thread[f] \in {Off, Ended, Submitting("flatten")}
        /\ out[f]["flatten"] # "absent" /\ out[f]["hd"] = "absent"
        /\ \A r \in Runs : jobs[f][r]["hd"] # "queued"
    BY <1>1, RunsAssumption DEF Abandoned, Chains
  <2>2. \A j \in Jobs : thread[f] # Waiting(j) /\ (j # "flatten" => thread[f] # Submitting(j))
    BY <2>1, PlacesDiffer
  <2>3. \A r \in Runs : jobs'[f][r]["hd"] # "queued"
    BY <1>1, <2>1, <2>2, EveryJobStep DEF JobSteps
  <2>4. out'[f]["flatten"] # "absent" /\ out'[f]["hd"] = "absent"
    <3>1. ASSUME NEW d \in Chains, NEW r \in Runs, NEW k \in Jobs, JobStep(d, r, k)
          PROVE  out'[f]["flatten"] # "absent" /\ out'[f]["hd"] = "absent"
      <4>1. CASE <<d, k>> = <<f, "hd">>
        <5>1. Writers(f, "hd") = {}
          BY <1>1, <2>1 DEF Directories
        <5>2. jobs[f][r]["hd"] = "none"
          BY <2>1, <5>1 DEF Writers
        <5> QED
          BY <3>1, <4>1, <5>2 DEF JobStep, JobStarts, JobDeletes, JobSucceeds, JobFails
      <4>2. CASE <<d, k>> = <<f, "flatten">>
        <5>1. out'[f]["hd"] = out[f]["hd"]
          BY <1>1, <2>1, <3>1, <4>2, ClusterStep
        <5>2. out'[f]["flatten"] # "absent"
          BY <1>1, <2>1, <3>1, <4>2
          DEF JobStep, JobStarts, JobDeletes, JobSucceeds, JobFails, PipelineTypeOK
        <5> QED
          BY <2>1, <5>1, <5>2
      <4>3. CASE <<d, k>> # <<f, "hd">> /\ <<d, k>> # <<f, "flatten">>
        BY <1>1, <2>1, <3>1, <4>3, ClusterStep
      <4> QED
        BY <4>1, <4>2, <4>3
    <3>2. ASSUME NEW d \in Chains, NEW k \in Jobs, Submit(d, k)
          PROVE  out' = out
      BY <3>2 DEF Submit
    <3> QED
      BY <1>1, <2>1, StepCases, <3>1, <3>2
  <2>5. thread'[f] \in {Off, Ended, Submitting("flatten")}
    <3>1. ASSUME NEW d \in Chains, NEW k \in Jobs, Submit(d, k)
          PROVE  thread'[f] \in {Off, Ended, Submitting("flatten")}
      <4>1. CASE d # f
        BY <1>1, <2>1, <3>1, <4>1, SubmitStep
      <4>2. CASE d = f
        <5>1. k = "flatten"
          BY <2>2, <3>1, <4>2 DEF Submit
        <5>2. thread' = [thread EXCEPT ![f] = Ended]
          BY <2>1, <3>1, <4>2, <5>1 DEF Submit, SetThread
        <5> QED
          BY <1>1, <2>1, <5>2 DEF PipelineTypeOK
      <4> QED
        BY <4>1, <4>2
    <3>2. ASSUME NEW d \in Chains, NEW k \in Jobs, Proceed(d, k)
          PROVE  thread'[f] = thread[f]
      <4>1. d # f
        BY <2>2, <3>2 DEF Proceed
      <4> QED
        BY <1>1, <2>1, <3>2, <4>1, ProceedStep
    <3>3. ASSUME NEW d \in Drivers, StartIntra(d)
          PROVE  thread'[f] = Submitting("flatten")
      BY <2>1, <3>3 DEF StartIntra, Start
    <3>4. ASSUME StartInter \/ Scanned PROVE thread'[f] = thread[f]
      BY <1>1, <2>1, <3>4 DEF StartInter, Start, Scanned, SetThread, PipelineTypeOK
    <3>5. ASSUME NEW program \in Programs, Dies(program)
          PROVE  thread'[f] = Off \/ thread'[f] = thread[f]
      BY <2>1, <3>5 DEF Dies
    <3>6. ASSUME NEW d \in Chains, NEW r \in Runs, NEW k \in Jobs, JobStep(d, r, k)
          PROVE  thread' = thread
      BY <1>1, <3>6, ClusterStep
    <3>7. ASSUME NEW g \in Files, Scan(g) PROVE thread' = thread
      BY <3>7 DEF Scan
    <3>8. UNCHANGED pipelineVars => thread' = thread
      BY DEF pipelineVars
    <3> QED
      BY <1>1, <2>1, StepCases, <3>1, <3>2, <3>3, <3>4, <3>5, <3>6, <3>7, <3>8
  <2> QED
    BY <2>3, <2>4, <2>5 DEF Abandoned
<1>2. PipelineIInv /\ [PipelineNext]_pipelineVars =>
        [\A f \in Files : Abandoned(f) => Abandoned(f)']_pipelineVars
  BY <1>1 DEF PipelineIInv
<1> QED
  BY <1>2, PipelineInductive, PTL DEF PipelineSpec, HalfDoneForGood
=============================================================================
