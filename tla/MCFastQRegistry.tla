--------------------------- MODULE MCFastQRegistry ---------------------------
(* Instances of FastQRegistry for TLC. *)
EXTENDS FastQRegistry, TLC

\* The sets callers pass: at most one module, registered or
\* not, with slot 0 or without it.
SmallSets == {{}, {1}, {0, 2}}
=============================================================================
