----------------------------- MODULE MCFastQRing -----------------------------
(* A small instance of FastQRing: two messages suffice to tell the right   *)
(* one from the wrong one.                                                 *)
EXTENDS FastQRing

CONSTANTS m1, m2

MCMsg == {m1, m2}
=============================================================================
