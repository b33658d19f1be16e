------------------------------ MODULE MCPufJob ------------------------------
(* A small instance of PufJob for TLC.                                     *)
EXTENDS PufJob, TLC

\* "hd" forms three pairs of three IDs.
SmallRecords == [correctid |-> 4, hd |-> 3, hdcorrect |-> 5]

\* Of each shape some records fit and some do not: twice the votes, the
\* distances of three pairs, and the count of five IDs can leave the range.
SmallInts == [correctid |-> 7, hd |-> 3, hdcorrect |-> 4]

\* Every sum over the bits treats them alike.
Symmetry == Permutations(Positions)
=============================================================================
