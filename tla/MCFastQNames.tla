---------------------------- MODULE MCFastQNames -----------------------------
(* Values of the constants of FastQNames. *)
EXTENDS FastQNames, TLC

CONSTANTS p, n1, n2, c1, c2

Symmetry == Permutations({n1, n2}) \cup Permutations({c1, c2})
=============================================================================
