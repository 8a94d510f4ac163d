------------------------------ MODULE DictMap -------------------------------
(***************************************************************************)
(* What a dictionary promises its users: it is a map from keys to values,  *)
(* and each call adds one key, gives one key another value, takes one key  *)
(* out, empties the map, or leaves it alone.                               *)
(***************************************************************************)
CONSTANTS Key, Values
VARIABLE map

EmptyMap == [k \in {} |-> k]

Init == map = EmptyMap

\* Adding a key that is there leaves it alone, replacing gives it the value.
Add(old, k, v) ==
  IF k \in DOMAIN old THEN old
  ELSE [j \in DOMAIN old \cup {k} |-> IF j = k THEN v ELSE old[j]]
Replace(old, k, v) == [old EXCEPT ![k] = v]
Delete(old, k)     == [j \in DOMAIN old \ {k} |-> old[j]]

\* What a call that changes the map makes of it.
Results(old) ==
  {EmptyMap} \cup {Delete(old, k) : k \in Key}
  \cup (UNION {{Add(old, k, v) : v \in Values[k]} : k \in Key})
  \cup (UNION {{Replace(old, k, v) : v \in Values[k]} : k \in Key})

\* Lookups, samples and walks leave it alone.
Next == UNCHANGED map \/ map' \in Results(map)

Spec == Init /\ [][Next]_map
=============================================================================
