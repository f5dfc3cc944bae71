--------------------------- MODULE MCRequestStats ---------------------------
(***************************************************************************)
(* Instances of RequestStats for TLC.  Workers are interchangeable.        *)
(***************************************************************************)
EXTENDS RequestStats, TLC

Symmetry == Permutations(Worker)

=============================================================================
