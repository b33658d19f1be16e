----------------------- MODULE PixelRoundTrip_proofs -----------------------
(* Theorems about PixelRoundTrip for every number of levels.               *)
EXTENDS PixelRoundTrip, Monotonic_proofs

\* The inductive invariant: once computed, q and p_prime are what the code's
\* formulas say of the arguments.
IInv ==
  /\ TypeOK
  /\ q # Unset => q = MarkLevel(a, b, p)
  /\ p_prime # Unset => q # Unset /\ p_prime = UnmarkLevel(a, b, q)

LEMMA Inductive == Spec => []IInv
<1>1. Init => IInv
  BY DEF Init, IInv, TypeOK
<1>2. IInv /\ [Next]_vars => IInv'
  <2> SUFFICES ASSUME IInv, [Next]_vars PROVE IInv'
    OBVIOUS
  <2>1. CASE Mark
    <3>1. MarkLevel(a, b, p) \in Level
      BY MarkIsLevel DEF IInv, TypeOK
    <3>2. p_prime = Unset
      BY <2>1 DEF Mark, IInv
    <3> QED
      BY <2>1, <3>1, <3>2 DEF Mark, IInv, TypeOK
  <2>2. CASE Recover
    <3>1. q \in Level
      BY <2>2 DEF Recover, IInv, TypeOK
    <3>2. UnmarkLevel(a, b, q) \in Level
      BY <3>1, MarkIsLevel DEF IInv, TypeOK
    <3> QED
      BY <2>2, <3>1, <3>2 DEF Recover, IInv, TypeOK
  <2>3. CASE UNCHANGED vars
    BY <2>3 DEF vars, IInv, TypeOK
  <2> QED
    BY <2>1, <2>2, <2>3 DEF Next
<1> QED
  BY <1>1, <1>2, PTL DEF Spec

\* Both calls of main.py 6-14 return levels: what is written into the picture is
\* never outside the range of a channel.
THEOREM TypeCorrect == Spec => []TypeOK
<1>1. IInv => TypeOK
  BY DEF IInv
<1> QED
  BY <1>1, Inductive, PTL

\* The pixel main.py recovers is the pixel it started from, for every pixel,
\* estimate, mark and number of levels.
THEOREM PixelAlwaysRecovered == Spec => []PixelRecovered
<1>1. IInv => PixelRecovered
  BY UnmarkUndoesMark DEF IInv, TypeOK, PixelRecovered
<1> QED
  BY <1>1, Inductive, PTL

\* Marking keeps the order of distances, for every number of levels.
THEOREM MarkingAlwaysMonotonic == Spec => []MarkingIsMonotonic
<1>1. IInv => MarkingIsMonotonic
  BY MarkIsMonotonic DEF IInv, TypeOK, MarkingIsMonotonic
<1> QED
  BY <1>1, Inductive, PTL

\* The loops F and F_inverse (monotonic.py 522-552) compute FTable and F_inv_Table
\* as Monotonic defines them, for every estimate, level and number of levels.
THEOREM LoopsAlwaysComputeTables == Spec => []LoopsComputeTables
<1>1. IInv => LoopsComputeTables
  <2> SUFFICES ASSUME IInv PROVE LoopsComputeTables
    OBVIOUS
  <2>1. a \in Level /\ p \in Level
    BY DEF IInv, TypeOK
  <2> QED
    BY <2>1, TableIsLoop, InverseTableIsLoop DEF LoopsComputeTables
<1> QED
  BY <1>1, Inductive, PTL
=============================================================================
