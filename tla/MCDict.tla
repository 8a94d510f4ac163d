------------------------------- MODULE MCDict --------------------------------
(* Values of the constants of Dict. *)
EXTENDS Dict

CONSTANTS k1, k2, k3, v1, v2

\* One key gets two values.
SomeValues == k1 :> {v1, v2} @@ k2 :> {v1} @@ k3 :> {v1}

\* Two keys collide in tables of up to four buckets, the third is elsewhere in
\* all but the smallest.
SomeHashes == {k1 :> 1 @@ k2 :> 5 @@ k3 :> 2}
=============================================================================
