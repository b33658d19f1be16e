--------------------------- MODULE MCKeyDelivery ---------------------------
(* Small instances of KeyDelivery for TLC.                                 *)
EXTENDS KeyDelivery, TLC

\* Sessions and Subscribers are never compared with anything but each other,
\* so behaviours that differ by a renaming need to be visited once.
Symmetry == Permutations(Sessions) \union Permutations(Subscribers)
=============================================================================
