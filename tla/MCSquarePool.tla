---------------------------- MODULE MCSquarePool ----------------------------
(* A small instance of SquarePool for TLC.                                 *)
EXTENDS SquarePool

\* Room for the three squares of side 2; for all but a row of the third; for
\* the first and a column of the second.
SmallSizes == {<<6, 7>>, <<6, 5>>, <<3, 6>>}
=============================================================================
