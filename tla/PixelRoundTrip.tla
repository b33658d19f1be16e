--------------------------- MODULE PixelRoundTrip ---------------------------
(***************************************************************************)
(* The first half of watermarking/main.py: one channel of a pixel p, with  *)
(* the estimate a and the mark b, is watermarked and recovered.  Every     *)
(* choice of p, a and b is an initial state.                               *)
(***************************************************************************)
EXTENDS Monotonic

VARIABLES p, a, b,      \* the arguments
          q,            \* the watermarked level, once computed
          p_prime       \* the recovered level, once computed

vars == <<p, a, b, q, p_prime>>

Unset == Depth          \* no level

TypeOK ==
  /\ p \in Level /\ a \in Level /\ b \in Level
  /\ q \in Level \union {Unset}
  /\ p_prime \in Level \union {Unset}

Init ==
  /\ p \in Level /\ a \in Level /\ b \in Level
  /\ q = Unset /\ p_prime = Unset

Mark ==
  /\ q = Unset
  /\ q' = MarkLevel(a, b, p)
  /\ UNCHANGED <<p, a, b, p_prime>>

Recover ==
  /\ q # Unset /\ p_prime = Unset
  /\ p_prime' = UnmarkLevel(a, b, q)
  /\ UNCHANGED <<p, a, b, q>>

Next == Mark \/ Recover

Spec == Init /\ [][Next]_vars

-----------------------------------------------------------------------------
\* The recovered pixel is the original pixel (main.py prints one under the
\* other): F_inverse undoes F for every estimate a and mark b.
PixelRecovered == p_prime # Unset => p_prime = p

\* Marking is monotonic, as the module's name says: of two levels, the one
\* nearer to the estimate a becomes the one nearer to the mark b.  That is why
\* smooth areas of the picture show the watermark (reversible.py 144).
MarkingIsMonotonic ==
  q # Unset => \A p2 \in Level :
                 Nearer(a, p, p2) => Nearer(b, q, MarkLevel(a, b, p2))

\* The loops F and F_inverse (monotonic.py 522-552) compute the closed forms
\* FTable and F_inv_Table of Monotonic: the level in a place, and the place of a
\* level, ties and the ends of the range included.  MonotonicTables compares
\* these with the numbers in the file.
LoopsComputeTables ==
  /\ FTable[a][p] = F(a, p)
  /\ F_inv_Table[a][p] = F_inverse(a, p)
=============================================================================
