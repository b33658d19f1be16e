------------------------------- MODULE PufJob -------------------------------
(***************************************************************************)
(* One MapReduce job of src/main/java/puf, seen from one key (one challenge *)
(* of the PUF chips), in the three shapes that use a combiner:             *)
(*   "correctid"  CorrectIDMapper, CorrectIDCombiner, CorrectIDReducer     *)
(*   "hd"         HDMapper, HDCombiner, AverageHDReducer                   *)
(*   "hdcorrect"  HDwithCorrectIDMapper, HDCombiner, AverageHDReducer      *)
(* The key's record holds the IDs measured for it, and only that record    *)
(* has the key.  Hadoop decides which partial values a combiner merges, on *)
(* either side of the shuffle, and repeats attempts that fail.  An ID is   *)
(* the vector of its bits.                                                 *)
(***************************************************************************)
EXTENDS Integers, FiniteSets, FiniteSetsExt

CONSTANTS
  Positions,    \* bits of an ID: 128 in the code
  MaxIDs,       \* bound: IDs of one record, for each shape of job
  MaxInt,       \* largest int, for each shape of job: 2^31 - 1 in Java
  MaxFailures,  \* bound: failed attempts
  None          \* no result

Shapes == {"correctid", "hd", "hdcorrect"}

ASSUME JobAssumption ==
  /\ IsFiniteSet(Positions)
  /\ MaxIDs \in [Shapes -> Nat \ {0}]
  /\ MaxInt \in [Shapes -> Nat \ {0}]
  /\ \A shape \in Shapes : Cardinality(Positions) <= MaxInt[shape]  \* a distance is an int
  /\ MaxFailures \in Nat

VARIABLES
  job,        \* which of the three shapes
  ids,        \* the record: a non-empty sequence of IDs
  correctID,  \* the ID of this key in the cache file of "hdcorrect"
  mapper,     \* the map attempt: "idle", "emitted" or "committed"
  buffer,     \* its partial values
  fetched,    \* the reduce attempt has its input
  shuffled,   \* the partial values the reduce attempt has yet to iterate over
  acc,        \* what the reduce attempt has added up
  result,     \* the committed output
  failures    \* failed attempts so far

mapVars    == <<mapper, buffer>>
reduceVars == <<fetched, shuffled, acc>>
input      == <<job, ids, correctID>>
vars       == <<input, mapVars, reduceVars, result, failures>>

ID == [Positions -> {0, 1}]

\* The votes of CorrectIDMapper, and the one number of the two HD mappers.
Slots == IF job = "correctid" THEN Positions ELSE {"distance"}

\* Mutant: bits that are set and bits that are cleared cancel out.
SignedDistance(i, j) ==
  Cardinality({p \in Positions : i[p] > j[p]}) - Cardinality({p \in Positions : i[p] < j[p]})

\* HammingDistance.getHammingDistance, for IDs of one length.
HammingDistance(i, j) == Cardinality({p \in Positions : i[p] # j[p]})

\* Mutant: the inner loop of HDMapper starts at i.
PairsWithItself(record) ==
  {pair \in (DOMAIN record) \X (DOMAIN record) : pair[1] <= pair[2]}

\* The pairs HDMapper forms.
Pairs(record) == {pair \in (DOMAIN record) \X (DOMAIN record) : pair[1] < pair[2]}

\* What map() emits a value for.
Items(record) == IF job = "hd" THEN Pairs(record) ELSE DOMAIN record

\* What one item adds to a slot: its bit, or its distance.
Contribution(record, correct, n, s) ==
  CASE job = "correctid" -> record[n][s]
    [] job = "hd"        -> HammingDistance(record[n[1]], record[n[2]])
    [] job = "hdcorrect" -> HammingDistance(record[n], correct)

\* A partial value: IntPair or ArrayIntPair.  The field of is a history of
\* what the value adds up; it keeps equal values apart.
Emitted(n) ==
  [first |-> [s \in Slots |-> Contribution(ids, correctID, n, s)],
   second |-> 1, of |-> {n}]

\* Integer.MAX_VALUE.
MAX_VALUE == MaxInt[job]

\* The sum of two ints, as an int.
Int32(x) ==
  IF x > MAX_VALUE THEN x - 2 * (MAX_VALUE + 1)
  ELSE IF x < -(MAX_VALUE + 1) THEN x + 2 * (MAX_VALUE + 1) ELSE x

\* Mutant: the shift back is by the greatest int instead of the least.
readIntOffByOne(x) == Int32(x - MAX_VALUE)

\* IntPair.write stores an int shifted by the least int, IntPair.readFields
\* shifts it back; ArrayIntPair stores its ints as they are.
writeInt(x) == Int32(x + (MAX_VALUE + 1))
readInt(x)  == Int32(x - (MAX_VALUE + 1))
Shuffled(v) ==
  IF job = "correctid" THEN v
  ELSE [v EXCEPT !.first["distance"] = readInt(writeInt(@)),
                 !.second = readInt(writeInt(@))]

\* Mutant: the combiner counts the values it merges, not what they stand for.
CombineRecounting(v, w) ==
  [first |-> [s \in Slots |-> Int32(v.first[s] + w.first[s])],
   second |-> 2, of |-> v.of \union w.of]

\* HDCombiner and CorrectIDCombiner: ints throughout.  A group of any size is
\* merged two by two.
CombineValues(v, w) ==
  [first |-> [s \in Slots |-> Int32(v.first[s] + w.first[s])],
   second |-> Int32(v.second + w.second), of |-> v.of \union w.of]

\* Mutant: the reducer counts the values it gets, combined or not, as one each.
AddValueAsOne(total, v) ==
  [first |-> [s \in Slots |-> total.first[s] + v.first[s]],
   second |-> total.second + 1, of |-> total.of \union v.of]

\* The reducers: AverageHDReducer adds the distances up in a double.
AddValue(total, v) ==
  [first |-> [s \in Slots |->
     IF job = "correctid" THEN Int32(total.first[s] + v.first[s])
                          ELSE total.first[s] + v.first[s]],
   second |-> Int32(total.second + v.second), of |-> total.of \union v.of]

Nothing == [first |-> [s \in Slots |-> 0], second |-> 0, of |-> {}]

\* CorrectIDReducer.getCorrectID: a bit is set by more than half the votes.
getCorrectID(vote, total) ==
  [p \in Positions |-> IF Int32(vote[p] * 2) > total THEN 1 ELSE 0]

\* What reduce() writes: the voted ID, or the average as a fraction.
Output(total) ==
  IF job = "correctid" THEN getCorrectID(total.first, total.second)
  ELSE [sum |-> total.first["distance"], count |-> total.second]

\* The cache file of "hdcorrect" holds what the "correctid" job wrote, of a
\* record whose votes fit an int.
Voted(record) ==
  LET vote == [p \in Positions |-> Cardinality({n \in DOMAIN record : record[n][p] = 1})]
  IN  getCorrectID(vote, Cardinality(DOMAIN record))

Init ==
  /\ job \in Shapes
  /\ ids \in UNION {[1 .. n -> ID] : n \in 1 .. MaxIDs[job]}
  /\ correctID = Voted(ids)
  /\ mapper = "idle" /\ buffer = {}
  /\ fetched = FALSE /\ shuffled = {} /\ acc = Nothing
  /\ result = None
  /\ failures = 0

-----------------------------------------------------------------------------
\* map() goes through the record of one key and emits.  The Integer.parseInt of
\* the HD mappers is taken to keep different keys apart.
Map ==
  /\ mapper = "idle"
  /\ mapper' = "emitted"
  /\ buffer' = {Emitted(n) : n \in Items(ids)}
  /\ UNCHANGED <<input, reduceVars, result, failures>>

Merged(values, v, w) == (values \ {v, w}) \union {CombineValues(v, w)}

\* The combiner runs on values of one spill, or when spills are merged.
CombineBeforeShuffle ==
  /\ mapper = "emitted"
  /\ \E v, w \in buffer : v # w /\ buffer' = Merged(buffer, v, w)
  /\ UNCHANGED <<input, mapper, reduceVars, result, failures>>

CommitMap ==
  /\ mapper = "emitted"
  /\ mapper' = "committed"
  /\ UNCHANGED <<input, buffer, reduceVars, result, failures>>

\* A map attempt fails, or its node is lost before the output was fetched.
MapFails ==
  /\ mapper # "idle" /\ ~ fetched /\ failures < MaxFailures
  /\ mapper' = "idle" /\ buffer' = {}
  /\ failures' = failures + 1
  /\ UNCHANGED <<input, reduceVars, result>>

Fetch ==
  /\ mapper = "committed" /\ ~ fetched
  /\ fetched' = TRUE /\ shuffled' = {Shuffled(v) : v \in buffer}
  /\ UNCHANGED <<input, mapVars, acc, result, failures>>

\* The merge of the reduce task may run the combiner again, before reduce().
CombineAfterShuffle ==
  /\ fetched /\ acc = Nothing
  /\ \E v, w \in shuffled : v # w /\ shuffled' = Merged(shuffled, v, w)
  /\ UNCHANGED <<input, mapVars, fetched, acc, result, failures>>

\* One turn of reduce()'s loop.
Add ==
  /\ fetched /\ result = None
  /\ \E v \in shuffled :
       /\ acc' = AddValue(acc, v)
       /\ shuffled' = shuffled \ {v}
  /\ UNCHANGED <<input, mapVars, fetched, result, failures>>

\* A reduce attempt fails; the next one fetches the map output again.
ReduceFails ==
  /\ fetched /\ result = None /\ failures < MaxFailures
  /\ fetched' = FALSE /\ shuffled' = {} /\ acc' = Nothing
  /\ failures' = failures + 1
  /\ UNCHANGED <<input, mapVars, result>>

\* reduce() writes.  It is not called for a key without values.
Write ==
  /\ fetched /\ shuffled = {} /\ acc # Nothing /\ result = None
  /\ result' = Output(acc)
  /\ UNCHANGED <<input, mapVars, reduceVars, failures>>

Next ==
  \/ Map \/ CombineBeforeShuffle \/ CommitMap \/ MapFails
  \/ Fetch \/ CombineAfterShuffle \/ Add \/ ReduceFails \/ Write

Spec == Init /\ [][Next]_vars

-----------------------------------------------------------------------------
(* Properties                                                              *)

\* Sum of what a set of items adds to a slot.
Total(items, s) ==
  SumFunctionOnSet([n \in Items(ids) |-> Contribution(ids, correctID, n, s)], items)

\* Sum of the distances of the measurements to one ID.
Spread(x) ==
  SumFunctionOnSet([n \in DOMAIN ids |-> HammingDistance(ids[n], x)], DOMAIN ids)

\* Measurements that set a bit.
Setting(p) == {n \in DOMAIN ids : ids[n][p] = 1}

\* No sum over the record leaves the range of int: not the count, not the
\* distances, not twice the votes, which for "hdcorrect" were an earlier job's.
Fits ==
  /\ Cardinality(Items(ids)) <= MAX_VALUE
  /\ \A s \in Slots : Total(Items(ids), s) <= MAX_VALUE
  /\ job # "hd" =>
       \A p \in Positions : 2 * Cardinality(Setting(p)) <= MAX_VALUE

TypeOK ==
  LET Sum   == (IF Fits THEN 0 ELSE -(MAX_VALUE + 1)) .. MAX_VALUE
      Value == [first : [Slots -> Sum], second : Sum, of : SUBSET Items(ids)]
  IN  /\ job \in Shapes
      /\ DOMAIN ids \in {1 .. n : n \in 1 .. MaxIDs[job]}
      /\ \A n \in DOMAIN ids : ids[n] \in ID
      /\ correctID \in ID
      /\ mapper \in {"idle", "emitted", "committed"}
      /\ \A v \in buffer \union shuffled : v \in Value
      /\ fetched \in BOOLEAN
      /\ acc \in [first : [Slots -> Int], second : Sum, of : SUBSET Items(ids)]
      /\ failures \in 0 .. MaxFailures

\* However the combiner and repeated attempts cut the values up, every item is
\* in exactly one of them and each value is the sum and the number of its items,
\* modulo the range of int: sums that leave it wrap and nothing more.  Where they
\* stay inside, they are exact, as TypeOK then confines them (CorrectIDCombiner
\* 20-42, HDCombiner 18-27 in ints, AverageHDReducer 21-26 in a double).
PartialSumsExact ==
  LET live == shuffled \union {acc}
      Congruent(x, y) == (x - y) % (2 * (MAX_VALUE + 1)) = 0
  IN  /\ mapper # "idle" =>
           /\ UNION {v.of : v \in buffer} = Items(ids)
           /\ \A v, w \in buffer : v # w => v.of \cap w.of = {}
      /\ fetched =>
           /\ UNION {v.of : v \in live} = Items(ids)
           /\ \A v, w \in live : v # w => v.of \cap w.of = {}
      /\ \A v \in buffer \union live :
           /\ Congruent(v.second, Cardinality(v.of))
           /\ \A s \in Slots : Congruent(v.first[s], Total(v.of, s))
      /\ Fits => \A s \in Slots : acc.first[s] = Total(acc.of, s)

\* The average that is written is that over all pairs of different measurements,
\* each pair once, or for "hdcorrect" over all measurements, if the sums fit an
\* int (HDMapper 26-41, HDwithCorrectIDMapper 66-77, AverageHDReducer 20-30).
AverageExact ==
  LET N == Cardinality(DOMAIN ids)
      Both == (DOMAIN ids) \X (DOMAIN ids)
      TwicePairs ==
        SumFunctionOnSet([p \in Both |-> HammingDistance(ids[p[1]], ids[p[2]])], Both)
  IN  result # None /\ Fits =>
        /\ job = "hd" => 2 * result.sum = TwicePairs /\ 2 * result.count = N * (N - 1)
        /\ job = "hdcorrect" => result = [sum |-> Spread(correctID), count |-> N]

\* The voted ID is nearest to the measured IDs: no ID has a smaller sum of
\* distances to them.  That is what IntraHD_2 relies on when it takes the
\* average distance to this ID for the noise of a chip (CorrectIDReducer
\* 33-56, IntraHD_2 101-124).
CorrectIDIsMedian ==
  job = "correctid" /\ result # None /\ Fits =>
    \A x \in ID : Spread(result) <= Spread(x)

\* The average distance to the voted ID, the noise IntraHD_2 reports, is at
\* most half the bits: on every bit the vote sides with at least half of the
\* measurements (IntraHD_2 81-124).
NoiseAtMostHalf ==
  job = "hdcorrect" /\ result # None /\ Fits =>
    2 * result.sum <= result.count * Cardinality(Positions)
=============================================================================
