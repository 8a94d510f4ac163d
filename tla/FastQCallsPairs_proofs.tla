----------------------- MODULE FastQCallsPairs_proofs -----------------------
(***************************************************************************)
(* A further proof about FastQCalls: each pair that was declared gets its  *)
(* ring, of the receiver's sizes, as soon as the calls that declared it    *)
(* are over, for any number of modules and threads and any sets.           *)
(*                                                                         *)
(* The argument.  A bit of rx.set or tx.set can be lost: two MOD_SETs of   *)
(* one word overlap, and the later store writes back a word that was read  *)
(* before the other's.  The bits that matter cannot be: what a module      *)
(* declared at its creation is in its sets before any MOD_SET of them      *)
(* begins (the locks keep FastQAddSet away from the two copies), so every  *)
(* word that is on its way back contains it (RxStays, TxStays; tx.set of a *)
(* source that is sent from before it is created is left out).  As long    *)
(* as the creation that joins a pair is Ahead of it, this is where it will *)
(* find the pair; a bit that was set otherwise was set together with the   *)
(* ring, or by a call that has the ring in its plan (AtWork).  KnownMade   *)
(* says so of every bit that a call may find in a set, AskedMade of every  *)
(* pair that was declared.  A ring that FastQAddSet makes of a module that *)
(* has no sizes yet waits for the creation of that module, which makes it  *)
(* again (Unsized).                                                        *)
(***************************************************************************)
EXTENDS FastQCalls_proofs

\* Where FastQCreateModule has not copied both sets yet, and where it is in
\* the loop over its peers.
Early == {"create sets", "create tx set"}
Loop == {"create peer", "create rx", "create tx"}

\* Where a call that is no send carries out a plan for a pair.
Pairing == {"create rx", "create tx", "add rx", "add tx"}

\* The operation that follows another in the plan of a place.
End == "end"
After(here, op) ==
  CASE op = "load rx" -> "store rx"
    [] op = "load tx" -> "store tx"
    [] op = "lock rx" -> "load rx"
    [] op = "lock tx" -> "load tx"
    [] op = "unlock tx" -> "ring"
    [] op = "store rx" -> IF here = "add rx" THEN "lock tx"
                          ELSE IF here \in {"create rx", "enqueue"} THEN "load tx"
                          ELSE "ring"
    [] op = "store tx" -> IF here = "create rx" THEN "ring"
                          ELSE IF here = "create tx" THEN "load rx"
                          ELSE IF here = "add rx" THEN "unlock tx"
                          ELSE IF here = "add tx" THEN "lock rx" ELSE End
    [] OTHER -> IF here = "enqueue" THEN "load rx" ELSE End
OpsAt(here) ==
  Plain \cup (IF here = "add rx" THEN {"lock tx", "unlock tx"} ELSE {})
        \cup (IF here = "add tx" THEN {"lock rx"} ELSE {})

\* What is left of a plan goes on as the plan does, up to its end.
Follows(here, plan) ==
  \A i \in 1 .. Len(plan) :
    After(here, plan[i]) = IF i = Len(plan) THEN End ELSE plan[i + 1]
PlanKnows(t) == todo[t] \in Seq(OpsAt(pc[t])) /\ Follows(pc[t], todo[t])

\* What a call knows of the modules of its pair.
PlaceKnows(t) ==
  /\ pc[t] \in AddPC => m[t] \in created
  /\ pc[t] \in SendPC => m[t] \in created \cup Strays /\ p[t] \in created
  /\ pc[t] \in Pairing \cup {"add between"} => p[t] # m[t]
  /\ pc[t] \in Early \cup {"create size"} => p[t] = 1
  /\ pc[t] \in Loop => m[t] \in sized /\ p[t] >= 1

\* The locks that FastQAddSet holds, and while it does what for the pair.
RxOps == {"load rx", "store rx", "ring"}
TxOps == {"load tx", "store tx", "unlock tx"}
HoldsLocks(t) ==
  /\ pc[t] = "add rx" => rxlock[m[t]] = t
  /\ pc[t] = "add tx" => txlock[m[t]] = t
  /\ pc[t] = "add rx" /\ todo[t] # << >> /\ Head(todo[t]) \in TxOps => txlock[p[t]] = t
  /\ pc[t] = "add tx" /\ todo[t] # << >> /\ Head(todo[t]) \in RxOps => rxlock[p[t]] = t

\* A module that is created has its sizes, one that is not is being created
\* or has no sets yet.
Modules ==
  /\ created \subseteq sized
  /\ \A i \in registered \ created : \E t \in Thread : pc[t] \in CreatePC /\ m[t] = i
  /\ \A i \in Module \ registered : rx[i] = {}
  /\ \A i \in Source \ (registered \cup Strays) : tx[i] = {}

\* The types of what the argument is about.
PairTypes ==
  /\ rx = [i \in Module |-> rx[i]] /\ tx = [i \in Source |-> tx[i]]
  /\ rxlock = [i \in Module |-> rxlock[i]] /\ txlock = [i \in Module |-> txlock[i]]
  /\ word = [t \in Thread |-> word[t]]
  /\ asked \subseteq Module \X Source

\* The first inductive invariant: where the calls are and what they hold.
PlaceInv ==
  /\ PairTypes /\ Modules
  /\ \A t \in Thread : PlanKnows(t) /\ PlaceKnows(t) /\ HoldsLocks(t)

\* A thread has a pair's ring in its plan; it has read a set and not written
\* it back yet.
Busy(t, d, s) == pc[t] \in Pairing /\ todo[t] # << >> /\ Dst(t) = d /\ Src(t) = s
RxHeld(t, d) == Doing(t, "store rx") /\ Dst(t) = d
TxHeld(t, s) == Doing(t, "store tx") /\ Src(t) = s
AtWork(d, s) == \E t \in Thread : Busy(t, d, s)

\* A bit is in its set to stay: no store will take it away, and no copy.
RxStays(d, s) ==
  /\ s \in rx[d] /\ \A t \in Thread : RxHeld(t, d) => s \in word[t]
  /\ \A t \in Thread : pc[t] = "create sets" /\ m[t] = d => ~Free(rxlock[d], t)
TxStays(d, s) ==
  /\ d \in tx[s] /\ \A t \in Thread : TxHeld(t, s) => d \in word[t]
  /\ \A t \in Thread : pc[t] \in Early => m[t] # s

\* A bit that a call may find, now or after a store.
Known(d, s) ==
  \/ s \in rx[d] \/ \E t \in Thread : RxHeld(t, d) /\ s \in word[t]
  \/ d \in tx[s] \/ \E t \in Thread : TxHeld(t, s) /\ d \in word[t]

\* The creation that joins a pair has yet to come to it.
PassedIn(t, s) ==
  pc[t] \in Loop /\ (s < p[t] \/ (s = p[t] /\ pc[t] \in {"create rx", "create tx"}))
PassedOut(t, d) ==
  pc[t] \in Loop /\ (d < p[t] \/ (d = p[t] /\ pc[t] = "create tx"))
Joins(t, d, s) ==
  /\ pc[t] \in CreatePC
  /\ (m[t] = d /\ ~PassedIn(t, s)) \/ (m[t] = s /\ ~PassedOut(t, d))
Ahead(d, s) ==
  ~({d, s} \subseteq registered \cup {0}) \/ \E t \in Thread : Joins(t, d, s)

\* A creation has a pair in its arguments that are not copied yet, and
\* FastQAddSet has one before it.
Declares(t, d, s) ==
  \/ pc[t] = "create sets" /\ m[t] = d /\ s \in rxarg[t]
  \/ pc[t] \in Early /\ m[t] = s /\ d \in txarg[t]
Adds(t, d, s) ==
  /\ pc[t] \in AddPC
  /\ \/ /\ m[t] = d /\ s \in rxarg[t]
        /\ s > p[t] \/ (s = p[t] /\ (pc[t] \in {"add spin", "add peer"} \/ Busy(t, d, s)))
     \/ /\ m[t] = s /\ d \in txarg[t]
        /\ d > p[t] \/ (d = p[t] /\ (pc[t] # "add tx" \/ Busy(t, d, s)))

\* A ring without sizes is made again by the creation of its module.
Unsized ==
  \A d \in Module, s \in Source : ring[d][s] = "unsized" =>
    /\ d # s /\ d \notin created /\ s \in created /\ RxStays(d, s)
    /\ Ahead(d, s) \/ \E t \in Thread : pc[t] = "create rx" /\ Busy(t, d, s)

\* A bit that a call may find stands for a ring, one in a plan, or one that a
\* creation has ahead and will find asked for.
KnownMade ==
  \A d \in Module, s \in Source \ Strays : d # s /\ Known(d, s) =>
    \/ ring[d][s] = "sized" \/ AtWork(d, s)
    \/ Ahead(d, s) /\ (RxStays(d, s) \/ TxStays(d, s))

\* So does a pair that was declared, or it is still in an argument.
AskedMade ==
  \A d \in Module, s \in Source \ Strays : <<d, s>> \in asked =>
    /\ d # s
    /\ \/ ring[d][s] = "sized" \/ AtWork(d, s)
       \/ Ahead(d, s) /\ (RxStays(d, s) \/ TxStays(d, s))
       \/ \E t \in Thread : Declares(t, d, s)
       \/ d \in created /\ s \in created /\ \E t \in Thread : Adds(t, d, s)

\* A first send has made the ring before it sets the bits, and FastQAddSet has
\* set the bit of a module without sizes before it makes the ring.
MadeFirst(t) ==
  pc[t] = "enqueue" /\ todo[t] # << >> /\ Head(todo[t]) # "ring" => ring[p[t]][m[t]] = "sized"
BitFirst(t) ==
  pc[t] = "add tx" /\ Doing(t, "ring") /\ p[t] \notin sized => m[t] \in rx[p[t]]

\* The second inductive invariant: the pairs.
PairInv ==
  /\ \A t \in Thread : MadeFirst(t) /\ BitFirst(t)
  /\ Unsized /\ KnownMade /\ AskedMade

-----------------------------------------------------------------------------
(* The plans.                                                              *)

\* What is stored has been loaded just before.
LEMMA NextStore ==
  ASSUME NEW here, NEW op \in OpsAt(here)
  PROVE  /\ After(here, op) = "store rx" => op = "load rx"
         /\ After(here, op) = "store tx" => op = "load tx"
BY DEF After, OpsAt, Plain, End

\* A peer's lock comes before what needs it.
LEMMA NextTx ==
  ASSUME NEW op \in OpsAt("add rx"), After("add rx", op) \in TxOps
  PROVE  op \in {"lock tx", "load tx", "store tx"}
BY DEF After, OpsAt, Plain, TxOps, End

LEMMA NextRx ==
  ASSUME NEW op \in OpsAt("add tx"), After("add tx", op) \in RxOps
  PROVE  op \in {"lock rx", "load rx", "store rx"}
BY DEF After, OpsAt, Plain, RxOps, End

\* The ring is the last operation of a plan, but the first of a send's.
LEMMA NextRing ==
  ASSUME NEW here, NEW op \in OpsAt(here)
  PROVE  /\ here = "add tx" /\ After(here, op) = "ring" => op = "store rx"
         /\ here = "enqueue" => After(here, op) # "ring"
BY DEF After, OpsAt, Plain, End

LEMMA NextEnd ==
  ASSUME NEW here \in Pairing, NEW op \in OpsAt(here)
  PROVE  After(here, op) = End <=> op = "ring"
BY DEF After, OpsAt, Plain, Pairing, End

\* What is left of a plan after its next operation.
LEMMA PlanTail ==
  ASSUME NEW here, NEW S, NEW plan \in Seq(S), plan # << >>, End \notin S,
         Follows(here, plan)
  PROVE  /\ Head(plan) \in S /\ Tail(plan) \in Seq(S) /\ Follows(here, Tail(plan))
         /\ Tail(plan) = << >> <=> After(here, Head(plan)) = End
         /\ Tail(plan) # << >> => Head(Tail(plan)) = After(here, Head(plan))
<1> DEFINE n == Len(plan)  rest == Tail(plan)
<1>1. /\ Head(plan) \in S /\ rest \in Seq(S) /\ Len(rest) = n - 1
      /\ \A i \in 1 .. Len(rest) : rest[i] = plan[i + 1]
  BY HeadTailProperties
<1>2. n \in Nat /\ n >= 1 /\ Head(plan) = plan[1]
  BY EmptySeq
<1>3. \A i \in 1 .. n : plan[i] \in S
  BY ElementOfSeq
<1>4. \A i \in 1 .. n : After(here, plan[i]) = IF i = n THEN End ELSE plan[i + 1]
  BY DEF Follows
<1>5. rest # << >> => Len(rest) \in Nat \ {0} /\ Head(rest) = rest[1]
  BY <1>1, EmptySeq
<1>6. rest = << >> => Len(rest) = 0
  BY EmptySeq
<1> HIDE DEF n, rest
<1>7. Follows(here, rest)
  <2>1. SUFFICES ASSUME NEW i \in 1 .. Len(rest)
                 PROVE  After(here, rest[i]) = IF i = Len(rest) THEN End ELSE rest[i + 1]
    BY DEF Follows
  <2>2. /\ i \in Nat /\ i + 1 \in 1 .. n
        /\ i + 1 = n <=> i = Len(rest)
        /\ i # Len(rest) => i + 1 \in 1 .. Len(rest)
    BY <1>1, <1>2
  <2>3. After(here, plan[i + 1]) = IF i + 1 = n THEN End ELSE plan[(i + 1) + 1]
    BY <1>4, <2>2
  <2>4. rest[i] = plan[i + 1] /\ (i # Len(rest) => rest[i + 1] = plan[(i + 1) + 1])
    BY <1>1, <2>2
  <2>5. QED
    BY <2>2, <2>3, <2>4
<1>8. After(here, plan[1]) = IF n = 1 THEN End ELSE plan[2]
  <2>1. 1 \in 1 .. n /\ 1 + 1 = 2
    BY <1>2
  <2>2. QED
    BY <1>4, <2>1
<1>9. CASE n = 1
  <2>1. Len(rest) = 0
    BY <1>1, <1>9
  <2>2. rest = << >>
    BY <1>5, <2>1
  <2>3. QED
    BY <1>1, <1>2, <1>7, <1>8, <1>9, <2>2 DEF rest
<1>10. CASE n # 1
  <2>1. 2 \in 1 .. n /\ 1 \in 1 .. Len(rest) /\ Len(rest) # 0 /\ 1 + 1 = 2
    BY <1>1, <1>2, <1>10
  <2>2. rest # << >> /\ Head(rest) = plan[2]
    BY <1>1, <1>5, <1>6, <2>1
  <2>3. plan[2] # End
    BY <1>3, <2>1
  <2>4. QED
    BY <1>1, <1>2, <1>7, <1>8, <1>10, <2>2, <2>3 DEF rest
<1>11. QED
  BY <1>9, <1>10

\* The plans of five operations, and the longer ones of FastQAddSet.
LEMMA Follows5 ==
  ASSUME NEW here, NEW plan, Len(plan) = 5,
         After(here, plan[1]) = plan[2], After(here, plan[2]) = plan[3],
         After(here, plan[3]) = plan[4], After(here, plan[4]) = plan[5],
         After(here, plan[5]) = End
  PROVE  Follows(here, plan)
<1>1. SUFFICES ASSUME NEW i \in 1 .. 5
               PROVE  After(here, plan[i]) = IF i = 5 THEN End ELSE plan[i + 1]
  BY DEF Follows
<1>2. i = 1 \/ i = 2 \/ i = 3 \/ i = 4 \/ i = 5
  OBVIOUS
<1>3. QED
  BY <1>2

\* The same for six.
LEMMA Follows6 ==
  ASSUME NEW here, NEW plan, Len(plan) = 6,
         After(here, plan[1]) = plan[2], After(here, plan[2]) = plan[3],
         After(here, plan[3]) = plan[4], After(here, plan[4]) = plan[5],
         After(here, plan[5]) = plan[6], After(here, plan[6]) = End
  PROVE  Follows(here, plan)
<1>1. SUFFICES ASSUME NEW i \in 1 .. 6
               PROVE  After(here, plan[i]) = IF i = 6 THEN End ELSE plan[i + 1]
  BY DEF Follows
<1>2. i = 1 \/ i = 2 \/ i = 3 \/ i = 4 \/ i = 5 \/ i = 6
  OBVIOUS
<1>3. QED
  BY <1>2

\* The same for seven.
LEMMA Follows7 ==
  ASSUME NEW here, NEW plan, Len(plan) = 7,
         After(here, plan[1]) = plan[2], After(here, plan[2]) = plan[3],
         After(here, plan[3]) = plan[4], After(here, plan[4]) = plan[5],
         After(here, plan[5]) = plan[6], After(here, plan[6]) = plan[7],
         After(here, plan[7]) = End
  PROVE  Follows(here, plan)
<1>1. SUFFICES ASSUME NEW i \in 1 .. 7
               PROVE  After(here, plan[i]) = IF i = 7 THEN End ELSE plan[i + 1]
  BY DEF Follows
<1>2. i = 1 \/ i = 2 \/ i = 3 \/ i = 4 \/ i = 5 \/ i = 6 \/ i = 7
  OBVIOUS
<1>3. QED
  BY <1>2

\* The plans that the calls begin with.
LEMMA PlansBegin ==
  /\ \A here : << >> \in Seq(OpsAt(here)) /\ Follows(here, << >>)
  /\ RxSet \o TxSet \o Ring \in Seq(OpsAt("create rx"))
  /\ Follows("create rx", RxSet \o TxSet \o Ring)
  /\ TxSet \o RxSet \o Ring \in Seq(OpsAt("create tx"))
  /\ Follows("create tx", TxSet \o RxSet \o Ring)
  /\ Ring \o RxSet \o TxSet \in Seq(OpsAt("enqueue"))
  /\ Follows("enqueue", Ring \o RxSet \o TxSet)
  /\ RxSet \o <<"lock tx">> \o TxSet \o <<"unlock tx">> \o Ring \in Seq(OpsAt("add rx"))
  /\ Follows("add rx", RxSet \o <<"lock tx">> \o TxSet \o <<"unlock tx">> \o Ring)
  /\ TxSet \o <<"lock rx">> \o RxSet \o Ring \in Seq(OpsAt("add tx"))
  /\ Follows("add tx", TxSet \o <<"lock rx">> \o RxSet \o Ring)
<1> DEFINE lr == "load rx"  sr == "store rx"  lt == "load tx"  st == "store tx"
           kr == "lock rx"  kt == "lock tx"   ut == "unlock tx"  rg == "ring"
<1>1. /\ RxSet = <<lr, sr>> /\ TxSet = <<lt, st>> /\ Ring = <<rg>>
      /\ <<"lock tx">> = <<kt>> /\ <<"unlock tx">> = <<ut>> /\ <<"lock rx">> = <<kr>>
  BY DEF RxSet, TxSet, Ring
<1>2. /\ \A here : {lr, sr, lt, st, rg} \subseteq OpsAt(here)
      /\ {kt, ut} \subseteq OpsAt("add rx") /\ kr \in OpsAt("add tx")
  BY DEF OpsAt, Plain
<1>3. \A here : /\ After(here, lr) = sr /\ After(here, lt) = st /\ After(here, kr) = lr
                /\ After(here, kt) = lt /\ After(here, ut) = rg
  BY DEF After
<1>4. /\ After("create rx", sr) = lt /\ After("create rx", st) = rg
      /\ After("create rx", rg) = End
      /\ After("create tx", sr) = rg /\ After("create tx", st) = lr
      /\ After("create tx", rg) = End
      /\ After("enqueue", sr) = lt /\ After("enqueue", st) = End
      /\ After("enqueue", rg) = lr
      /\ After("add rx", sr) = kt /\ After("add rx", st) = ut /\ After("add rx", rg) = End
      /\ After("add tx", sr) = rg /\ After("add tx", st) = kr /\ After("add tx", rg) = End
  BY DEF After
<1> HIDE DEF lr, sr, lt, st, kr, kt, ut, rg
<1>5. \A here : << >> \in Seq(OpsAt(here)) /\ Follows(here, << >>)
  BY DEF Follows
<1>6. /\ <<lr, sr>> \o <<lt, st>> \o <<rg>> \in Seq(OpsAt("create rx"))
      /\ Follows("create rx", <<lr, sr>> \o <<lt, st>> \o <<rg>>)
  <2> DEFINE plan == <<lr, sr>> \o <<lt, st>> \o <<rg>>
           ops == OpsAt("create rx")
  <2>1. lr \in ops /\ sr \in ops /\ lt \in ops /\ st \in ops /\ rg \in ops
    BY <1>2
  <2> HIDE DEF ops
  <2>2. <<lr, sr>> \in Seq(ops) /\ <<lt, st>> \in Seq(ops) /\ <<rg>> \in Seq(ops)
    BY <2>1
  <2>3. <<lr, sr>> \o <<lt, st>> \in Seq(ops)
    BY <2>2, ConcatProperties
  <2>4. <<lr, sr>> \o <<lt, st>> \o <<rg>> \in Seq(ops)
    BY <2>2, <2>3, ConcatProperties
  <2>5. /\ Len(plan) = 5
        /\ plan[1] = lr /\ plan[2] = sr /\ plan[3] = lt /\ plan[4] = st /\ plan[5] = rg
    OBVIOUS
  <2> HIDE DEF plan
  <2>6. Follows("create rx", plan)
    BY <1>3, <1>4, <2>5, Follows5
  <2>7. QED
    BY <2>4, <2>6 DEF plan, ops
<1>7. /\ <<lt, st>> \o <<lr, sr>> \o <<rg>> \in Seq(OpsAt("create tx"))
      /\ Follows("create tx", <<lt, st>> \o <<lr, sr>> \o <<rg>>)
  <2> DEFINE plan == <<lt, st>> \o <<lr, sr>> \o <<rg>>
           ops == OpsAt("create tx")
  <2>1. lt \in ops /\ st \in ops /\ lr \in ops /\ sr \in ops /\ rg \in ops
    BY <1>2
  <2> HIDE DEF ops
  <2>2. <<lt, st>> \in Seq(ops) /\ <<lr, sr>> \in Seq(ops) /\ <<rg>> \in Seq(ops)
    BY <2>1
  <2>3. <<lt, st>> \o <<lr, sr>> \in Seq(ops)
    BY <2>2, ConcatProperties
  <2>4. <<lt, st>> \o <<lr, sr>> \o <<rg>> \in Seq(ops)
    BY <2>2, <2>3, ConcatProperties
  <2>5. /\ Len(plan) = 5
        /\ plan[1] = lt /\ plan[2] = st /\ plan[3] = lr /\ plan[4] = sr /\ plan[5] = rg
    OBVIOUS
  <2> HIDE DEF plan
  <2>6. Follows("create tx", plan)
    BY <1>3, <1>4, <2>5, Follows5
  <2>7. QED
    BY <2>4, <2>6 DEF plan, ops
<1>8. /\ <<rg>> \o <<lr, sr>> \o <<lt, st>> \in Seq(OpsAt("enqueue"))
      /\ Follows("enqueue", <<rg>> \o <<lr, sr>> \o <<lt, st>>)
  <2> DEFINE plan == <<rg>> \o <<lr, sr>> \o <<lt, st>>
           ops == OpsAt("enqueue")
  <2>1. rg \in ops /\ lr \in ops /\ sr \in ops /\ lt \in ops /\ st \in ops
    BY <1>2
  <2> HIDE DEF ops
  <2>2. <<rg>> \in Seq(ops) /\ <<lr, sr>> \in Seq(ops) /\ <<lt, st>> \in Seq(ops)
    BY <2>1
  <2>3. <<rg>> \o <<lr, sr>> \in Seq(ops)
    BY <2>2, ConcatProperties
  <2>4. <<rg>> \o <<lr, sr>> \o <<lt, st>> \in Seq(ops)
    BY <2>2, <2>3, ConcatProperties
  <2>5. /\ Len(plan) = 5
        /\ plan[1] = rg /\ plan[2] = lr /\ plan[3] = sr /\ plan[4] = lt /\ plan[5] = st
    OBVIOUS
  <2> HIDE DEF plan
  <2>6. Follows("enqueue", plan)
    BY <1>3, <1>4, <2>5, Follows5
  <2>7. QED
    BY <2>4, <2>6 DEF plan, ops
<1>9. /\ <<lr, sr>> \o <<kt>> \o <<lt, st>> \o <<ut>> \o <<rg>> \in Seq(OpsAt("add rx"))
      /\ Follows("add rx", <<lr, sr>> \o <<kt>> \o <<lt, st>> \o <<ut>> \o <<rg>>)
  <2> DEFINE plan == <<lr, sr>> \o <<kt>> \o <<lt, st>> \o <<ut>> \o <<rg>>
           ops == OpsAt("add rx")
  <2>1. lr \in ops /\ sr \in ops /\ kt \in ops /\ lt \in ops /\ st \in ops /\ ut \in ops /\ rg \in ops
    BY <1>2
  <2> HIDE DEF ops
  <2>2. <<lr, sr>> \in Seq(ops) /\ <<kt>> \in Seq(ops) /\ <<lt, st>> \in Seq(ops) /\ <<ut>> \in Seq(ops) /\ <<rg>> \in Seq(ops)
    BY <2>1
  <2>3. <<lr, sr>> \o <<kt>> \in Seq(ops)
    BY <2>2, ConcatProperties
  <2>4. <<lr, sr>> \o <<kt>> \o <<lt, st>> \in Seq(ops)
    BY <2>2, <2>3, ConcatProperties
  <2>5. <<lr, sr>> \o <<kt>> \o <<lt, st>> \o <<ut>> \in Seq(ops)
    BY <2>2, <2>4, ConcatProperties
  <2>6. <<lr, sr>> \o <<kt>> \o <<lt, st>> \o <<ut>> \o <<rg>> \in Seq(ops)
    BY <2>2, <2>5, ConcatProperties
  <2>7. /\ Len(plan) = 7
        /\ plan[1] = lr /\ plan[2] = sr /\ plan[3] = kt /\ plan[4] = lt
        /\ plan[5] = st /\ plan[6] = ut /\ plan[7] = rg
    BY SMTT(20)
  <2> HIDE DEF plan
  <2>8. Follows("add rx", plan)
    BY <1>3, <1>4, <2>7, Follows7
  <2>9. QED
    BY <2>6, <2>8 DEF plan, ops
<1>10. /\ <<lt, st>> \o <<kr>> \o <<lr, sr>> \o <<rg>> \in Seq(OpsAt("add tx"))
       /\ Follows("add tx", <<lt, st>> \o <<kr>> \o <<lr, sr>> \o <<rg>>)
  <2> DEFINE plan == <<lt, st>> \o <<kr>> \o <<lr, sr>> \o <<rg>>
           ops == OpsAt("add tx")
  <2>1. lt \in ops /\ st \in ops /\ kr \in ops /\ lr \in ops /\ sr \in ops /\ rg \in ops
    BY <1>2
  <2> HIDE DEF ops
  <2>2. <<lt, st>> \in Seq(ops) /\ <<kr>> \in Seq(ops) /\ <<lr, sr>> \in Seq(ops) /\ <<rg>> \in Seq(ops)
    BY <2>1
  <2>3. <<lt, st>> \o <<kr>> \in Seq(ops)
    BY <2>2, ConcatProperties
  <2>4. <<lt, st>> \o <<kr>> \o <<lr, sr>> \in Seq(ops)
    BY <2>2, <2>3, ConcatProperties
  <2>5. <<lt, st>> \o <<kr>> \o <<lr, sr>> \o <<rg>> \in Seq(ops)
    BY <2>2, <2>4, ConcatProperties
  <2>6. /\ Len(plan) = 6
        /\ plan[1] = lt /\ plan[2] = st /\ plan[3] = kr /\ plan[4] = lr /\ plan[5] = sr /\ plan[6] = rg
    OBVIOUS
  <2> HIDE DEF plan
  <2>7. Follows("add tx", plan)
    BY <1>3, <1>4, <2>6, Follows6
  <2>8. QED
    BY <2>5, <2>7 DEF plan, ops
<1>11. QED
  BY <1>1, <1>5, <1>6, <1>7, <1>8, <1>9, <1>10

\* What the plans begin with.
LEMMA PlanHeads ==
  /\ Ring \o RxSet \o TxSet # << >> /\ Head(Ring \o RxSet \o TxSet) = "ring"
  /\ RxSet \o TxSet \o Ring # << >> /\ Head(RxSet \o TxSet \o Ring) = "load rx"
  /\ TxSet \o RxSet \o Ring # << >> /\ Head(TxSet \o RxSet \o Ring) = "load tx"
  /\ RxSet \o <<"lock tx">> \o TxSet \o <<"unlock tx">> \o Ring # << >>
  /\ Head(RxSet \o <<"lock tx">> \o TxSet \o <<"unlock tx">> \o Ring) = "load rx"
  /\ TxSet \o <<"lock rx">> \o RxSet \o Ring # << >>
  /\ Head(TxSet \o <<"lock rx">> \o RxSet \o Ring) = "load tx"
<1> DEFINE rg == "ring"  lr == "load rx"  sr == "store rx"  lt == "load tx"  st == "store tx"
           kt == "lock tx"  ut == "unlock tx"  kr == "lock rx"
<1>1. /\ RxSet = <<lr, sr>> /\ TxSet = <<lt, st>> /\ Ring = <<rg>>
      /\ <<"lock tx">> = <<kt>> /\ <<"unlock tx">> = <<ut>> /\ <<"lock rx">> = <<kr>>
  BY DEF RxSet, TxSet, Ring
<1> HIDE DEF rg, lr, sr, lt, st, kt, ut, kr
<1>2. Ring \o RxSet \o TxSet # << >> /\ Head(Ring \o RxSet \o TxSet) = rg
  <2> DEFINE plan == <<rg>> \o <<lr, sr>> \o <<lt, st>>
  <2>1. plan = Ring \o RxSet \o TxSet
    BY <1>1
  <2>2. Len(plan) = 5 /\ plan[1] = rg /\ Head(plan) = rg
    OBVIOUS
  <2>3. plan # << >>
    BY <2>2
  <2> HIDE DEF plan
  <2>4. QED
    BY <2>1, <2>2, <2>3
<1>3. RxSet \o TxSet \o Ring # << >> /\ Head(RxSet \o TxSet \o Ring) = lr
  <2> DEFINE plan == <<lr, sr>> \o <<lt, st>> \o <<rg>>
  <2>1. plan = RxSet \o TxSet \o Ring
    BY <1>1
  <2>2. Len(plan) = 5 /\ plan[1] = lr /\ Head(plan) = lr
    OBVIOUS
  <2>3. plan # << >>
    BY <2>2
  <2> HIDE DEF plan
  <2>4. QED
    BY <2>1, <2>2, <2>3
<1>4. TxSet \o RxSet \o Ring # << >> /\ Head(TxSet \o RxSet \o Ring) = lt
  <2> DEFINE plan == <<lt, st>> \o <<lr, sr>> \o <<rg>>
  <2>1. plan = TxSet \o RxSet \o Ring
    BY <1>1
  <2>2. Len(plan) = 5 /\ plan[1] = lt /\ Head(plan) = lt
    OBVIOUS
  <2>3. plan # << >>
    BY <2>2
  <2> HIDE DEF plan
  <2>4. QED
    BY <2>1, <2>2, <2>3
<1>5. /\ RxSet \o <<"lock tx">> \o TxSet \o <<"unlock tx">> \o Ring # << >>
      /\ Head(RxSet \o <<"lock tx">> \o TxSet \o <<"unlock tx">> \o Ring) = lr
  <2> DEFINE plan == <<lr, sr>> \o <<kt>> \o <<lt, st>> \o <<ut>> \o <<rg>>
  <2>1. plan = RxSet \o <<"lock tx">> \o TxSet \o <<"unlock tx">> \o Ring
    BY <1>1
  <2>2. Len(plan) = 7 /\ plan[1] = lr /\ Head(plan) = lr
    OBVIOUS
  <2>3. plan # << >>
    BY <2>2
  <2> HIDE DEF plan
  <2>4. QED
    BY <2>1, <2>2, <2>3
<1>6. TxSet \o <<"lock rx">> \o RxSet \o Ring # << >> /\ Head(TxSet \o <<"lock rx">> \o RxSet \o Ring) = lt
  <2> DEFINE plan == <<lt, st>> \o <<kr>> \o <<lr, sr>> \o <<rg>>
  <2>1. plan = TxSet \o <<"lock rx">> \o RxSet \o Ring
    BY <1>1
  <2>2. Len(plan) = 6 /\ plan[1] = lt /\ Head(plan) = lt
    OBVIOUS
  <2>3. plan # << >>
    BY <2>2
  <2> HIDE DEF plan
  <2>4. QED
    BY <2>1, <2>2, <2>3
<1>7. QED
  BY <1>2, <1>3, <1>4, <1>5, <1>6 DEF rg, lr, lt
-----------------------------------------------------------------------------
(* What a step does not disturb.                                           *)

\* A step of another thread.
Same(u) ==
  /\ pc'[u] = pc[u] /\ todo'[u] = todo[u] /\ m'[u] = m[u] /\ p'[u] = p[u]
  /\ word'[u] = word[u] /\ rxarg'[u] = rxarg[u] /\ txarg'[u] = txarg[u]

\* The modules that a call names are modules.
LEMMA CallModules ==
  ASSUME ReadInv, NEW t \in Thread
  PROVE  /\ pc[t] \in CreatePC \cup AddPC \cup SendPC => m[t] \in Module
         /\ pc[t] \in CreatePC \cup AddPC => m[t] \in registered
         /\ pc[t] \in Pairing \cup {"add between"} \cup SendPC =>
              p[t] \in registered /\ p[t] \in Module
         /\ todo[t] # << >> => pc[t] \in Pairing \cup {"enqueue"}
         /\ m[t] \in Nat /\ p[t] \in Nat
BY DEF ReadInv, Types, CallKnows, CreatePC, AddPC, SendPC, Pairing, Working, Reading

\* The step leaves what the others know as it was, if it takes no lock of
\* theirs away.
LEMMA OthersPlaced ==
  ASSUME ReadInv, PlaceInv, NEW t \in Thread, \A u \in Thread \ {t} : Same(u),
         created \subseteq created', sized \subseteq sized',
         \A i \in Module, u \in Thread \ {t} : rxlock[i] = u => rxlock'[i] = u,
         \A i \in Module, u \in Thread \ {t} : txlock[i] = u => txlock'[i] = u
  PROVE  \A u \in Thread \ {t} : PlanKnows(u)' /\ PlaceKnows(u)' /\ HoldsLocks(u)'
<1> SUFFICES ASSUME NEW u \in Thread \ {t}
             PROVE  PlanKnows(u)' /\ PlaceKnows(u)' /\ HoldsLocks(u)'
  OBVIOUS
<1>1. PlanKnows(u) /\ PlaceKnows(u) /\ HoldsLocks(u) /\ Same(u)
  BY DEF PlaceInv
<1>2. PlanKnows(u)'
  BY <1>1 DEF PlanKnows, Same
<1>3. PlaceKnows(u)'
  BY <1>1 DEF PlaceKnows, Same
<1>4. HoldsLocks(u)'
  <2>1. /\ pc[u] \in {"add rx", "add tx"} => m[u] \in Module /\ p[u] \in Module
    BY CallModules DEF AddPC, Pairing
  <2>2. \A i \in Module : (rxlock[i] = u => rxlock'[i] = u) /\ (txlock[i] = u => txlock'[i] = u)
    OBVIOUS
  <2>3. /\ pc'[u] = pc[u] /\ todo'[u] = todo[u] /\ m'[u] = m[u] /\ p'[u] = p[u]
    BY <1>1 DEF Same
  <2>4. (pc[u] = "add rx" => rxlock'[m[u]] = u) /\ (pc[u] = "add tx" => txlock'[m[u]] = u)
    BY <1>1, <2>1, <2>2 DEF HoldsLocks
  <2>5. pc[u] = "add rx" /\ todo[u] # << >> /\ Head(todo[u]) \in TxOps => txlock'[p[u]] = u
    BY <1>1, <2>1, <2>2 DEF HoldsLocks
  <2>6. pc[u] = "add tx" /\ todo[u] # << >> /\ Head(todo[u]) \in RxOps => rxlock'[p[u]] = u
    BY <1>1, <2>1, <2>2 DEF HoldsLocks
  <2>7. QED
    BY <2>3, <2>4, <2>5, <2>6 DEF HoldsLocks
<1>5. QED
  BY <1>2, <1>3, <1>4

\* It keeps the invariant, if it keeps what the thread itself knows.
LEMMA PlaceKept ==
  ASSUME ReadInv, PlaceInv, NEW t \in Thread, \A u \in Thread \ {t} : Same(u),
         registered' = registered, created' = created, sized \subseteq sized',
         pc[t] \in CreatePC => pc'[t] \in CreatePC /\ m'[t] = m[t],
         \A i \in Module \ registered : rx'[i] = rx[i],
         \A i \in Source \ (registered \cup Strays) : tx'[i] = tx[i],
         \A i \in Module, u \in Thread \ {t} : rxlock[i] = u => rxlock'[i] = u,
         \A i \in Module, u \in Thread \ {t} : txlock[i] = u => txlock'[i] = u,
         PairTypes', PlanKnows(t)', PlaceKnows(t)', HoldsLocks(t)'
  PROVE  PlaceInv'
<1>1. Modules'
  <2>1. Modules
    BY DEF PlaceInv
  <2>2. \A i \in registered \ created : \E u \in Thread : pc'[u] \in CreatePC /\ m'[u] = i
    <3>1. SUFFICES ASSUME NEW i \in registered \ created
                   PROVE  \E u \in Thread : pc'[u] \in CreatePC /\ m'[u] = i
      OBVIOUS
    <3>2. PICK u \in Thread : pc[u] \in CreatePC /\ m[u] = i
      BY <2>1 DEF Modules
    <3>3. QED
      BY <3>2 DEF Same
  <2>3. QED
    BY <2>1, <2>2 DEF Modules
<1>2. \A u \in Thread \ {t} : PlanKnows(u)' /\ PlaceKnows(u)' /\ HoldsLocks(u)'
  BY OthersPlaced
<1>3. QED
  BY <1>1, <1>2 DEF PlaceInv

\* An operation of a plan is done.
LEMMA Popped ==
  ASSUME ReadInv, PlaceInv, NEW t \in Thread, todo[t] # << >>,
         todo'[t] = Tail(todo[t]), pc'[t] = pc[t]
  PROVE  /\ PlanKnows(t)' /\ Head(todo[t]) \in OpsAt(pc[t])
         /\ todo'[t] # << >> => Head(todo'[t]) = After(pc[t], Head(todo[t]))
         /\ todo'[t] = << >> <=> After(pc[t], Head(todo[t])) = End
<1>1. todo[t] \in Seq(OpsAt(pc[t])) /\ Follows(pc[t], todo[t])
  BY DEF PlaceInv, PlanKnows
<1>2. End \notin OpsAt(pc[t])
  BY DEF End, OpsAt, Plain
<1>3. QED
  BY <1>1, <1>2, PlanTail DEF PlanKnows

\* The locks of the thread after an operation of its plan.
LEMMA LocksAfter ==
  ASSUME ReadInv, PlaceInv, NEW t \in Thread, todo[t] # << >>,
         todo'[t] = Tail(todo[t]), pc'[t] = pc[t], m'[t] = m[t], p'[t] = p[t],
         \A i \in Module : rxlock[i] = t => rxlock'[i] = t,
         \A i \in Module : txlock[i] = t /\ ~(Doing(t, "unlock tx") /\ i = Src(t))
                             => txlock'[i] = t,
         Doing(t, "lock rx") => rxlock'[Dst(t)] = t,
         Doing(t, "lock tx") => txlock'[Src(t)] = t
  PROVE  HoldsLocks(t)'
<1> DEFINE op == Head(todo[t])
<1>1. /\ op \in OpsAt(pc[t])
      /\ todo'[t] # << >> => Head(todo'[t]) = After(pc[t], op)
  BY Popped
<1>2. HoldsLocks(t) /\ PlaceKnows(t)
  BY DEF PlaceInv
<1>3. pc[t] \in {"add rx", "add tx"} => m[t] \in Module /\ p[t] \in Module /\ p[t] # m[t]
  BY <1>2, CallModules DEF PlaceKnows, AddPC, Pairing
<1>4. /\ pc[t] = "add rx" => Dst(t) = m[t] /\ Src(t) = p[t]
      /\ pc[t] = "add tx" => Dst(t) = p[t] /\ Src(t) = m[t]
  BY DEF Dst, Src, Inward
<1>5. pc[t] = "add rx" => rxlock'[m[t]] = t
  BY <1>2, <1>3 DEF HoldsLocks
<1>6. pc[t] = "add tx" => txlock'[m[t]] = t
  <2>1. pc[t] = "add tx" => op # "unlock tx"
    BY <1>1 DEF OpsAt, Plain
  <2>2. QED
    BY <1>2, <1>3, <2>1 DEF HoldsLocks, Doing
<1>7. ASSUME pc[t] = "add rx", todo'[t] # << >>, Head(todo'[t]) \in TxOps
      PROVE  txlock'[p[t]] = t
  <2>1. op \in {"lock tx", "load tx", "store tx"}
    <3>1. op \in OpsAt("add rx") /\ After("add rx", op) \in TxOps
      BY <1>1, <1>7
    <3>2. QED
      BY <3>1, NextTx
  <2>2. CASE op = "lock tx"
    BY <1>4, <1>7, <2>2 DEF Doing
  <2>3. CASE op \in {"load tx", "store tx"}
    <3>1. txlock[p[t]] = t /\ ~Doing(t, "unlock tx")
      BY <1>2, <1>7, <2>3 DEF HoldsLocks, TxOps, Doing
    <3>2. QED
      BY <1>3, <1>7, <3>1
  <2>4. QED
    BY <2>1, <2>2, <2>3
<1>8. ASSUME pc[t] = "add tx", todo'[t] # << >>, Head(todo'[t]) \in RxOps
      PROVE  rxlock'[p[t]] = t
  <2>1. op \in {"lock rx", "load rx", "store rx"}
    <3>1. op \in OpsAt("add tx") /\ After("add tx", op) \in RxOps
      BY <1>1, <1>8
    <3>2. QED
      BY <3>1, NextRx
  <2>2. CASE op = "lock rx"
    BY <1>4, <1>8, <2>2 DEF Doing
  <2>3. CASE op \in {"load rx", "store rx"}
    <3>1. rxlock[p[t]] = t
      BY <1>2, <1>8, <2>3 DEF HoldsLocks, RxOps
    <3>2. QED
      BY <1>3, <1>8, <3>1
  <2>4. QED
    BY <2>1, <2>2, <2>3
<1>9. QED
  BY <1>5, <1>6, <1>7, <1>8 DEF HoldsLocks

\* A step of a plan keeps the invariant.
LEMMA PlanStep ==
  ASSUME ReadInv, PlaceInv, NEW t \in Thread, todo[t] # << >>,
         todo'[t] = Tail(todo[t]), pc'[t] = pc[t], m'[t] = m[t], p'[t] = p[t],
         \A u \in Thread \ {t} : Same(u),
         registered' = registered, created' = created, sized' = sized,
         \A i \in Module \ registered : rx'[i] = rx[i],
         \A i \in Source \ (registered \cup Strays) : tx'[i] = tx[i],
         \A i \in Module, u \in Thread : rxlock[i] = u => rxlock'[i] = u,
         \A i \in Module, u \in Thread :
           txlock[i] = u /\ ~(Doing(t, "unlock tx") /\ i = Src(t)) => txlock'[i] = u,
         \A u \in Thread : Doing(t, "unlock tx") /\ txlock[Src(t)] = u => u = t,
         Doing(t, "lock rx") => rxlock'[Dst(t)] = t,
         Doing(t, "lock tx") => txlock'[Src(t)] = t,
         PairTypes'
  PROVE  PlaceInv'
<1>1. PlanKnows(t)'
  BY Popped
<1>2. HoldsLocks(t)'
  BY LocksAfter
<1>3. PlaceKnows(t)'
  BY DEF PlaceInv, PlaceKnows
<1>4. /\ \A i \in Module, u \in Thread \ {t} : txlock[i] = u => txlock'[i] = u
      /\ \A i \in Module, u \in Thread \ {t} : rxlock[i] = u => rxlock'[i] = u
  OBVIOUS
<1>5. sized \subseteq sized' /\ (pc[t] \in CreatePC => pc'[t] \in CreatePC /\ m'[t] = m[t])
  OBVIOUS
<1>6. QED
  BY <1>1, <1>2, <1>3, <1>4, <1>5, PlaceKept
-----------------------------------------------------------------------------
(* What becomes of a pair.                                                 *)

\* Another thread is at the same place with a pair.
LEMMA SameActs ==
  ASSUME NEW u \in Thread, Same(u), NEW d, NEW s
  PROVE  /\ Busy(u, d, s)' <=> Busy(u, d, s)
         /\ RxHeld(u, d)' <=> RxHeld(u, d)
         /\ TxHeld(u, s)' <=> TxHeld(u, s)
         /\ Joins(u, d, s)' <=> Joins(u, d, s)
         /\ Declares(u, d, s)' <=> Declares(u, d, s)
         /\ Adds(u, d, s)' <=> Adds(u, d, s)
<1>1. Busy(u, d, s)' <=> Busy(u, d, s)
  BY DEF Same, Busy, Dst, Src, Inward
<1>2. /\ RxHeld(u, d)' <=> RxHeld(u, d)
      /\ TxHeld(u, s)' <=> TxHeld(u, s)
  BY DEF Same, RxHeld, TxHeld, Doing, Dst, Src, Inward
<1>3. Joins(u, d, s)' <=> Joins(u, d, s)
  BY DEF Same, Joins, PassedIn, PassedOut
<1>4. Declares(u, d, s)' <=> Declares(u, d, s)
  BY DEF Same, Declares
<1>5. Adds(u, d, s)' <=> Adds(u, d, s)
  BY <1>1 DEF Same, Adds
<1>6. QED
  BY <1>1, <1>2, <1>3, <1>4, <1>5

\* A module that is being created is not created.
LEMMA NotCreated ==
  ASSUME CallerInv, NEW t \in Thread, pc[t] \in CreatePC
  PROVE  m[t] \in registered /\ m[t] \notin created
<1>1. CallerKnows(t)
  BY DEF CallerInv
<1>2. QED
  BY <1>1 DEF CallerKnows

\* A bit of rx.set stays.
LEMMA RxStill ==
  ASSUME NEW t \in Thread, \A u \in Thread \ {t} : Same(u), pc'[t] # "create sets",
         NEW d, NEW s, RxStays(d, s), s \in rx'[d],
         RxHeld(t, d)' => s \in word'[t],
         \A u \in Thread \ {t} : pc[u] = "create sets" /\ m[u] = d /\ rxlock[d] # None
           => rxlock'[d] = rxlock[d]
  PROVE  RxStays(d, s)'
<1>1. \A u \in Thread : RxHeld(u, d)' => s \in word'[u]
  <2>1. SUFFICES ASSUME NEW u \in Thread \ {t}, RxHeld(u, d)' PROVE s \in word'[u]
    OBVIOUS
  <2>2. RxHeld(u, d) /\ word'[u] = word[u]
    BY <2>1, SameActs DEF Same
  <2>3. QED
    BY <2>2 DEF RxStays
<1>2. ASSUME NEW u \in Thread, pc'[u] = "create sets", m'[u] = d PROVE ~Free(rxlock'[d], u)
  <2>1. u # t /\ pc[u] = "create sets" /\ m[u] = d
    BY <1>2 DEF Same
  <2>2. ~Free(rxlock[d], u)
    BY <2>1 DEF RxStays
  <2>3. QED
    BY <2>1, <2>2 DEF Free
<1>3. QED
  BY <1>1, <1>2 DEF RxStays, Free

\* A bit of tx.set stays.
LEMMA TxStill ==
  ASSUME NEW t \in Thread, \A u \in Thread \ {t} : Same(u), pc'[t] \notin Early,
         NEW d, NEW s, TxStays(d, s), d \in tx'[s],
         TxHeld(t, s)' => d \in word'[t]
  PROVE  TxStays(d, s)'
<1>1. \A u \in Thread : TxHeld(u, s)' => d \in word'[u]
  <2>1. SUFFICES ASSUME NEW u \in Thread \ {t}, TxHeld(u, s)' PROVE d \in word'[u]
    OBVIOUS
  <2>2. TxHeld(u, s) /\ word'[u] = word[u]
    BY <2>1, SameActs DEF Same
  <2>3. QED
    BY <2>2 DEF TxStays
<1>2. \A u \in Thread : pc'[u] \in Early => m'[u] # s
  BY DEF TxStays, Same
<1>3. QED
  BY <1>1, <1>2 DEF TxStays

\* A step that neither begins a creation nor copies its sets keeps what the
\* invariant says of the pairs, if rings, and bits that are to stay, are kept;
\* if every new bit, and every operation that leaves the plan, has its ring;
\* and if who comes past a pair has found it made, makes it or found no bit.
LEMMA PairsKept ==
  ASSUME ReadInv, CallerInv, Unsized, KnownMade, AskedMade, NEW t \in Thread,
         \A u \in Thread \ {t} : Same(u),
         registered' = registered, created \subseteq created',
         pc[t] \notin Early, pc'[t] \notin Early,
         \A i \in Module \ created : rxlock[i] # None => rxlock'[i] = rxlock[i],
         \A d \in Module, s \in Source : ring'[d][s] = ring[d][s] \/ ring'[d][s] = "sized",
         \A d \in Module, s \in Source :
           /\ s \in rx[d] /\ (RxHeld(t, d) => s \in word[t]) => s \in rx'[d]
           /\ s \in rx'[d] => \/ s \in rx[d] \/ (RxHeld(t, d) /\ s \in word[t])
                              \/ ring'[d][s] = "sized" \/ Busy(t, d, s)'
           /\ RxHeld(t, d)' => word'[t] = rx[d] \/ (RxHeld(t, d) /\ word'[t] = word[t]),
         \A d \in Module, s \in Source :
           /\ d \in tx[s] /\ (TxHeld(t, s) => d \in word[t]) => d \in tx'[s]
           /\ d \in tx'[s] => \/ d \in tx[s] \/ (TxHeld(t, s) /\ d \in word[t])
                              \/ ring'[d][s] = "sized" \/ Busy(t, d, s)'
           /\ TxHeld(t, s)' => word'[t] = tx[s] \/ (TxHeld(t, s) /\ word'[t] = word[t]),
         \A d \in Module, s \in Source : Busy(t, d, s) =>
           (Busy(t, d, s)' /\ pc'[t] = pc[t]) \/ ring'[d][s] = "sized",
         \A d \in Module, s \in Source :
           d # s /\ Joins(t, d, s) /\ {d, s} \subseteq registered \cup {0} =>
             \/ Joins(t, d, s)' \/ ring'[d][s] = "sized"
             \/ Busy(t, d, s)' /\ (m[t] = d => pc'[t] = "create rx")
             \/ s \notin rx[d] /\ d \notin tx[s],
         \A d \in Module, s \in Source : <<d, s>> \in asked' =>
           \/ <<d, s>> \in asked
           \/ d # s /\ d \in created' /\ s \in created' /\ Adds(t, d, s)',
         \A d \in Module, s \in Source \ Strays :
           <<d, s>> \in asked /\ d \in created /\ s \in created /\ Adds(t, d, s) =>
             Adds(t, d, s)' \/ s \in rx[d] \/ d \in tx[s] \/ ring'[d][s] = "sized",
         \A d \in created' \ created, s \in Source : ring[d][s] # "unsized"
  PROVE  Unsized' /\ KnownMade' /\ AskedMade'
<1>1. ASSUME NEW d \in Module, NEW s \in Source, AtWork(d, s)
      PROVE  AtWork(d, s)' \/ ring'[d][s] = "sized"
  <2>1. PICK u \in Thread : Busy(u, d, s)
    BY <1>1 DEF AtWork
  <2>2. CASE u = t
    BY <2>1, <2>2 DEF AtWork
  <2>3. CASE u # t
    BY <2>1, <2>3, SameActs DEF AtWork
  <2>4. QED
    BY <2>2, <2>3
<1>2. ASSUME NEW d \in Module, NEW s \in Source, RxStays(d, s) PROVE RxStays(d, s)'
  <2>1. s \in rx[d] /\ (RxHeld(t, d) => s \in word[t])
    BY <1>2 DEF RxStays
  <2>2. s \in rx'[d] /\ (RxHeld(t, d)' => s \in word'[t])
    BY <2>1
  <2>3. \A u \in Thread \ {t} : pc[u] = "create sets" /\ m[u] = d /\ rxlock[d] # None
          => rxlock'[d] = rxlock[d]
    <3>1. ASSUME NEW u \in Thread, pc[u] = "create sets", m[u] = d PROVE d \notin created
      BY <3>1, NotCreated DEF CreatePC
    <3>2. QED
      BY <3>1
  <2>4. pc'[t] # "create sets"
    BY DEF Early
  <2>5. QED
    BY <1>2, <2>2, <2>3, <2>4, RxStill
<1>3. ASSUME NEW d \in Module, NEW s \in Source, TxStays(d, s) PROVE TxStays(d, s)'
  <2>1. d \in tx[s] /\ (TxHeld(t, s) => d \in word[t])
    BY <1>3 DEF TxStays
  <2>2. d \in tx'[s] /\ (TxHeld(t, s)' => d \in word'[t])
    BY <2>1
  <2>3. QED
    BY <1>3, <2>2, TxStill
<1>4. ASSUME NEW d \in Module, NEW s \in Source, Known(d, s)'
      PROVE  Known(d, s) \/ ring'[d][s] = "sized" \/ AtWork(d, s)'
  <2>1. CASE s \in rx'[d]
    BY <2>1 DEF Known, AtWork
  <2>2. CASE d \in tx'[s]
    BY <2>2 DEF Known, AtWork
  <2>3. ASSUME NEW u \in Thread, RxHeld(u, d)', s \in word'[u] PROVE Known(d, s)
    <3>1. CASE u = t
      BY <2>3, <3>1 DEF Known
    <3>2. CASE u # t
      <4>1. RxHeld(u, d) /\ word'[u] = word[u]
        BY <2>3, <3>2, SameActs DEF Same
      <4>2. QED
        BY <2>3, <4>1 DEF Known
    <3>3. QED
      BY <3>1, <3>2
  <2>4. ASSUME NEW u \in Thread, TxHeld(u, s)', d \in word'[u] PROVE Known(d, s)
    <3>1. CASE u = t
      BY <2>4, <3>1 DEF Known
    <3>2. CASE u # t
      <4>1. TxHeld(u, s) /\ word'[u] = word[u]
        BY <2>4, <3>2, SameActs DEF Same
      <4>2. QED
        BY <2>4, <4>1 DEF Known
    <3>3. QED
      BY <3>1, <3>2
  <2>5. QED
    BY <1>4, <2>1, <2>2, <2>3, <2>4 DEF Known
<1>5. ASSUME NEW d \in Module, NEW s \in Source, d # s, Ahead(d, s),
             s \in rx[d] \/ d \in tx[s]
      PROVE  \/ Ahead(d, s)' \/ ring'[d][s] = "sized"
             \/ Busy(t, d, s)' /\ pc[t] \in CreatePC /\ (m[t] = d => pc'[t] = "create rx")
  <2>1. CASE ~({d, s} \subseteq registered \cup {0})
    BY <2>1 DEF Ahead
  <2>2. ASSUME NEW u \in Thread, Joins(u, d, s), {d, s} \subseteq registered \cup {0}
        PROVE  \/ Ahead(d, s)' \/ ring'[d][s] = "sized"
               \/ Busy(t, d, s)' /\ pc[t] \in CreatePC /\ (m[t] = d => pc'[t] = "create rx")
    <3>1. CASE u # t
      BY <2>2, <3>1, SameActs DEF Ahead
    <3>2. CASE u = t
      <4>1. pc[t] \in CreatePC
        BY <2>2, <3>2 DEF Joins
      <4>2. \/ Joins(t, d, s)' \/ ring'[d][s] = "sized"
            \/ Busy(t, d, s)' /\ (m[t] = d => pc'[t] = "create rx")
        BY <1>5, <2>2, <3>2
      <4>3. QED
        BY <4>1, <4>2 DEF Ahead
    <3>3. QED
      BY <3>1, <3>2
  <2>3. QED
    BY <1>5, <2>1, <2>2 DEF Ahead
<1>6. ASSUME NEW d \in Module, NEW s \in Source, d # s, Ahead(d, s),
             RxStays(d, s) \/ TxStays(d, s)
      PROVE  \/ ring'[d][s] = "sized" \/ AtWork(d, s)'
             \/ Ahead(d, s)' /\ (RxStays(d, s)' \/ TxStays(d, s)')
  <2>1. s \in rx[d] \/ d \in tx[s]
    BY <1>6 DEF RxStays, TxStays
  <2>2. QED
    BY <1>2, <1>3, <1>5, <1>6, <2>1 DEF AtWork
<1>7. KnownMade'
  <2>1. SUFFICES ASSUME NEW d \in Module, NEW s \in Source \ Strays, d # s, Known(d, s)'
                 PROVE  \/ ring'[d][s] = "sized" \/ AtWork(d, s)'
                        \/ Ahead(d, s)' /\ (RxStays(d, s)' \/ TxStays(d, s)')
    BY DEF KnownMade
  <2>2. CASE Known(d, s)
    <3>1. \/ ring[d][s] = "sized" \/ AtWork(d, s)
          \/ Ahead(d, s) /\ (RxStays(d, s) \/ TxStays(d, s))
      BY <2>1, <2>2 DEF KnownMade
    <3>2. QED
      BY <1>1, <1>6, <2>1, <3>1
  <2>3. QED
    BY <1>4, <2>1, <2>2
<1>8. AskedMade'
  <2>1. SUFFICES ASSUME NEW d \in Module, NEW s \in Source \ Strays, <<d, s>> \in asked'
                 PROVE  /\ d # s
                        /\ \/ ring'[d][s] = "sized" \/ AtWork(d, s)'
                           \/ Ahead(d, s)' /\ (RxStays(d, s)' \/ TxStays(d, s)')
                           \/ \E u \in Thread : Declares(u, d, s)'
                           \/ /\ d \in created' /\ s \in created'
                              /\ \E u \in Thread : Adds(u, d, s)'
    BY DEF AskedMade
  <2>2. CASE <<d, s>> \notin asked
    BY <2>1, <2>2
  <2>3. CASE <<d, s>> \in asked
    <3>1. /\ d # s
          /\ \/ ring[d][s] = "sized" \/ AtWork(d, s)
             \/ Ahead(d, s) /\ (RxStays(d, s) \/ TxStays(d, s))
             \/ \E u \in Thread : Declares(u, d, s)
             \/ d \in created /\ s \in created /\ \E u \in Thread : Adds(u, d, s)
      BY <2>3 DEF AskedMade
    <3>2. ASSUME NEW u \in Thread, Declares(u, d, s) PROVE Declares(u, d, s)'
      <4>1. u # t
        BY <3>2 DEF Declares, Early
      <4>2. QED
        BY <3>2, <4>1, SameActs
    <3>3. ASSUME NEW u \in Thread, Adds(u, d, s), d \in created, s \in created
          PROVE  \/ Adds(u, d, s)' \/ ring'[d][s] = "sized" \/ AtWork(d, s)'
                 \/ Ahead(d, s)' /\ (RxStays(d, s)' \/ TxStays(d, s)')
      <4>1. CASE u # t
        BY <3>3, <4>1, SameActs
      <4>2. CASE u = t
        <5>1. CASE s \in rx[d] \/ d \in tx[s]
          <6>1. \/ ring[d][s] = "sized" \/ AtWork(d, s)
                \/ Ahead(d, s) /\ (RxStays(d, s) \/ TxStays(d, s))
            BY <3>1, <5>1 DEF KnownMade, Known
          <6>2. QED
            BY <1>1, <1>6, <3>1, <6>1
        <5>2. CASE ~(s \in rx[d] \/ d \in tx[s])
          BY <2>3, <3>3, <4>2, <5>2
        <5>3. QED
          BY <5>1, <5>2
      <4>3. QED
        BY <4>1, <4>2
    <3>4. ring[d][s] = "sized" \/ AtWork(d, s) => ring'[d][s] = "sized" \/ AtWork(d, s)'
      <4>1. AtWork(d, s) => AtWork(d, s)' \/ ring'[d][s] = "sized"
        BY <1>1
      <4>2. ring'[d][s] = ring[d][s] \/ ring'[d][s] = "sized"
        OBVIOUS
      <4>3. QED
        BY <4>1, <4>2
    <3>5. Ahead(d, s) /\ (RxStays(d, s) \/ TxStays(d, s)) =>
            \/ ring'[d][s] = "sized" \/ AtWork(d, s)'
            \/ Ahead(d, s)' /\ (RxStays(d, s)' \/ TxStays(d, s)')
      BY <1>6, <3>1
    <3>6. QED
      BY <3>1, <3>2, <3>3, <3>4, <3>5
  <2>4. QED
    BY <2>2, <2>3
<1>9. Unsized'
  <2>1. SUFFICES ASSUME NEW d \in Module, NEW s \in Source, ring'[d][s] = "unsized"
                 PROVE  /\ d # s /\ d \notin created' /\ s \in created' /\ RxStays(d, s)'
                        /\ \/ Ahead(d, s)'
                           \/ \E u \in Thread : pc'[u] = "create rx" /\ Busy(u, d, s)'
    BY DEF Unsized
  <2>2. ring[d][s] = "unsized"
    BY <2>1
  <2>3. /\ d # s /\ d \notin created /\ s \in created /\ RxStays(d, s)
        /\ Ahead(d, s) \/ \E u \in Thread : pc[u] = "create rx" /\ Busy(u, d, s)
    BY <2>2 DEF Unsized
  <2>4. d \notin created'
    BY <2>2, <2>3
  <2>5. ASSUME Ahead(d, s)
        PROVE  Ahead(d, s)' \/ \E u \in Thread : pc'[u] = "create rx" /\ Busy(u, d, s)'
    <3>1. s \in rx[d]
      BY <2>3 DEF RxStays
    <3>2. \/ Ahead(d, s)'
          \/ Busy(t, d, s)' /\ pc[t] \in CreatePC /\ (m[t] = d => pc'[t] = "create rx")
      BY <1>5, <2>1, <2>3, <2>5, <3>1
    <3>3. ASSUME Busy(t, d, s)', pc[t] \in CreatePC, m[t] # d PROVE FALSE
      <4>1. \A u \in Thread \ {t} : ~Joins(u, d, s)
        BY <3>3 DEF CallerInv, OneCreator, Joins
      <4>2. m[t] # s
        BY <2>3, <3>3, NotCreated
      <4>3. ~Joins(t, d, s)
        BY <3>3, <4>2 DEF Joins
      <4>4. {d, s} \subseteq registered \cup {0}
        <5>1. d \in registered
          BY <2>2 DEF ReadInv, MadeByRegistered
        <5>2. s \in registered
          BY <2>3 DEF ReadInv, Types
        <5>3. QED
          BY <5>1, <5>2
      <4>5. QED
        BY <2>5, <4>1, <4>3, <4>4 DEF Ahead
    <3>4. QED
      BY <3>2, <3>3
  <2>6. ASSUME NEW u \in Thread, pc[u] = "create rx", Busy(u, d, s)
        PROVE  \E v \in Thread : pc'[v] = "create rx" /\ Busy(v, d, s)'
    <3>1. CASE u # t
      <4>1. pc'[u] = "create rx" /\ Busy(u, d, s)'
        BY <2>6, <3>1, SameActs DEF Same
      <4>2. QED
        BY <4>1
    <3>2. CASE u = t
      BY <2>1, <2>6, <3>2
    <3>3. QED
      BY <3>1, <3>2
  <2>7. QED
    BY <1>2, <2>3, <2>4, <2>5, <2>6
<1>10. QED
  BY <1>7, <1>8, <1>9

\* The same for a step between two plans.
LEMMA PairsTurned ==
  ASSUME ReadInv, CallerInv, Unsized, KnownMade, AskedMade, NEW t \in Thread,
         \A u \in Thread \ {t} : Same(u),
         registered' = registered, created \subseteq created', rx' = rx, tx' = tx,
         pc[t] \notin Early, pc'[t] \notin Early, todo[t] = << >>,
         todo'[t] = << >> \/ Head(todo'[t]) \notin {"store rx", "store tx"},
         \A i \in Module \ created : rxlock[i] # None => rxlock'[i] = rxlock[i],
         \A d \in Module, s \in Source : ring'[d][s] = ring[d][s] \/ ring'[d][s] = "sized",
         \A d \in Module, s \in Source :
           d # s /\ Joins(t, d, s) /\ {d, s} \subseteq registered \cup {0} =>
             \/ Joins(t, d, s)' \/ ring'[d][s] = "sized"
             \/ Busy(t, d, s)' /\ (m[t] = d => pc'[t] = "create rx")
             \/ s \notin rx[d] /\ d \notin tx[s],
         \A d \in Module, s \in Source : <<d, s>> \in asked' =>
           \/ <<d, s>> \in asked
           \/ d # s /\ d \in created' /\ s \in created' /\ Adds(t, d, s)',
         \A d \in Module, s \in Source \ Strays :
           <<d, s>> \in asked /\ d \in created /\ s \in created /\ Adds(t, d, s) =>
             Adds(t, d, s)' \/ s \in rx[d] \/ d \in tx[s] \/ ring'[d][s] = "sized",
         \A d \in created' \ created, s \in Source : ring[d][s] # "unsized"
  PROVE  Unsized' /\ KnownMade' /\ AskedMade'
<1>1. \A d \in Module, s \in Source :
        ~Busy(t, d, s) /\ ~RxHeld(t, d)' /\ ~TxHeld(t, s)' /\ ~RxHeld(t, d) /\ ~TxHeld(t, s)
  BY DEF Busy, RxHeld, TxHeld, Doing
<1>2. \A d \in Module, s \in Source :
        /\ s \in rx[d] /\ (RxHeld(t, d) => s \in word[t]) => s \in rx'[d]
        /\ s \in rx'[d] => \/ s \in rx[d] \/ (RxHeld(t, d) /\ s \in word[t])
                           \/ ring'[d][s] = "sized" \/ Busy(t, d, s)'
        /\ RxHeld(t, d)' => word'[t] = rx[d] \/ (RxHeld(t, d) /\ word'[t] = word[t])
  BY <1>1
<1>3. \A d \in Module, s \in Source :
        /\ d \in tx[s] /\ (TxHeld(t, s) => d \in word[t]) => d \in tx'[s]
        /\ d \in tx'[s] => \/ d \in tx[s] \/ (TxHeld(t, s) /\ d \in word[t])
                           \/ ring'[d][s] = "sized" \/ Busy(t, d, s)'
        /\ TxHeld(t, s)' => word'[t] = tx[s] \/ (TxHeld(t, s) /\ word'[t] = word[t])
  BY <1>1
<1>4. \A d \in Module, s \in Source : Busy(t, d, s) =>
        (Busy(t, d, s)' /\ pc'[t] = pc[t]) \/ ring'[d][s] = "sized"
  BY <1>1
<1>5. QED
  BY <1>2, <1>3, <1>4, PairsKept

\* What the other threads know of a first send's ring and of the bit of a
\* module without sizes.
LEMMA OthersFirst ==
  ASSUME ReadInv, PlaceInv, PairInv, NEW t \in Thread, \A u \in Thread \ {t} : Same(u),
         \A d \in Module, s \in Source : ring[d][s] = "sized" => ring'[d][s] = "sized",
         sized \subseteq sized',
         \A u \in Thread \ {t} : pc[u] = "add tx" /\ Doing(u, "ring") /\ p[u] \notin sized
           /\ m[u] \in rx[p[u]] => m[u] \in rx'[p[u]]
  PROVE  \A u \in Thread \ {t} : MadeFirst(u)' /\ BitFirst(u)'
<1> SUFFICES ASSUME NEW u \in Thread \ {t} PROVE MadeFirst(u)' /\ BitFirst(u)'
  OBVIOUS
<1>1. MadeFirst(u) /\ BitFirst(u) /\ Same(u)
  BY DEF PairInv
<1>2. MadeFirst(u)'
  <2>1. pc[u] = "enqueue" => p[u] \in Module /\ m[u] \in Source
    BY CallModules, Slots DEF SendPC
  <2>2. pc'[u] = pc[u] /\ todo'[u] = todo[u] /\ m'[u] = m[u] /\ p'[u] = p[u]
    BY <1>1 DEF Same
  <2>3. pc[u] = "enqueue" /\ todo[u] # << >> /\ Head(todo[u]) # "ring" =>
          ring'[p[u]][m[u]] = "sized"
    BY <1>1, <2>1 DEF MadeFirst
  <2>4. QED
    BY <2>2, <2>3 DEF MadeFirst
<1>3. BitFirst(u)'
  BY <1>1 DEF BitFirst, Same, Doing
<1>4. QED
  BY <1>2, <1>3

\* A step of a thread that is in no creation and in no FastQAddSet.
LEMMA Aside ==
  ASSUME ReadInv, CallerInv, PlaceInv, PairInv, NEW t \in Thread,
         \A u \in Thread \ {t} : Same(u), word' = word,
         UNCHANGED <<registered, created, sized, rx, tx, rxlock, txlock, ring, asked>>,
         pc[t] \notin CreatePC \cup AddPC, pc'[t] \notin CreatePC \cup AddPC,
         todo[t] = << >>, todo'[t] = << >> \/ Head(todo'[t]) = "ring",
         PlanKnows(t)', PlaceKnows(t)'
  PROVE  PlaceInv' /\ PairInv'
<1>1. PlaceInv'
  <2>1. PairTypes'
    BY DEF PlaceInv, PairTypes
  <2>2. HoldsLocks(t)'
    BY DEF HoldsLocks, AddPC
  <2>3. /\ \A i \in Module, u \in Thread \ {t} : rxlock[i] = u => rxlock'[i] = u
        /\ \A i \in Module, u \in Thread \ {t} : txlock[i] = u => txlock'[i] = u
        /\ \A i \in Module \ registered : rx'[i] = rx[i]
        /\ \A i \in Source \ (registered \cup Strays) : tx'[i] = tx[i]
    OBVIOUS
  <2>4. QED
    BY <2>1, <2>2, <2>3, PlaceKept
<1>2. Unsized' /\ KnownMade' /\ AskedMade'
  <2>1. pc[t] \notin Early /\ pc'[t] \notin Early
    BY DEF Early, CreatePC
  <2>2. \A d \in Module, s \in Source : ~Joins(t, d, s) /\ ~Adds(t, d, s)
    BY DEF Joins, Adds
  <2>3. Unsized /\ KnownMade /\ AskedMade
    BY DEF PairInv
  <2>4. \A d \in Module, s \in Source :
          d # s /\ Joins(t, d, s) /\ {d, s} \subseteq registered \cup {0} =>
            \/ Joins(t, d, s)' \/ ring'[d][s] = "sized"
            \/ Busy(t, d, s)' /\ (m[t] = d => pc'[t] = "create rx")
            \/ s \notin rx[d] /\ d \notin tx[s]
    BY <2>2
  <2>5. \A d \in Module, s \in Source \ Strays :
          <<d, s>> \in asked /\ d \in created /\ s \in created /\ Adds(t, d, s) =>
            Adds(t, d, s)' \/ s \in rx[d] \/ d \in tx[s] \/ ring'[d][s] = "sized"
    BY <2>2
  <2>6. todo'[t] = << >> \/ Head(todo'[t]) \notin {"store rx", "store tx"}
    OBVIOUS
  <2>7. /\ \A i \in Module \ created : rxlock[i] # None => rxlock'[i] = rxlock[i]
        /\ \A d \in Module, s \in Source : ring'[d][s] = ring[d][s] \/ ring'[d][s] = "sized"
        /\ \A d \in Module, s \in Source : <<d, s>> \in asked' =>
             \/ <<d, s>> \in asked
             \/ d # s /\ d \in created' /\ s \in created' /\ Adds(t, d, s)'
        /\ \A d \in created' \ created, s \in Source : ring[d][s] # "unsized"
        /\ created \subseteq created'
    OBVIOUS
  <2>8. QED
    BY <2>1, <2>3, <2>4, <2>5, <2>6, <2>7, PairsTurned
<1>3. \A u \in Thread : MadeFirst(u)' /\ BitFirst(u)'
  <2>1. \A u \in Thread \ {t} : MadeFirst(u)' /\ BitFirst(u)'
    BY OthersFirst
  <2>2. MadeFirst(t)' /\ BitFirst(t)'
    BY DEF MadeFirst, BitFirst, Doing, AddPC
  <2>3. QED
    BY <2>1, <2>2
<1>4. QED
  BY <1>1, <1>2, <1>3 DEF PairInv
-----------------------------------------------------------------------------
(* The readers and the sends.                                              *)

\* FastQMsgStatInfo is called.
LEMMA CallStatPairs ==
  ASSUME ReadInv, CallerInv, PlaceInv, PairInv, NEW t \in Thread, CallStat(t)
  PROVE  PlaceInv' /\ PairInv'
<1> USE DEF CallStat, At, Goto, Advance, shared, locals, history
<1>1. \A u \in Thread \ {t} : Same(u)
  BY DEF ReadInv, Types, CallerInv, Same
<1>2. /\ pc[t] \in {"idle"} /\ pc'[t] = "stat" /\ todo[t] = << >>
      /\ todo'[t] = << >>
  BY DEF ReadInv, Types, CallKnows, Working, Reading
<1>3. /\ word' = word
      /\ UNCHANGED <<registered, created, sized, rx, tx, rxlock, txlock, ring, asked>>
  OBVIOUS
<1> HIDE DEF CallStat, At, Goto, Advance, shared, locals, history
<1>4. PlanKnows(t)'
  BY <1>2, PlansBegin DEF PlanKnows
<1>5. PlaceKnows(t)'
  BY <1>2 DEF PlaceKnows, AddPC, SendPC, Pairing, Early, Loop, Reading
<1>6. todo'[t] = << >> \/ Head(todo'[t]) = "ring"
  BY <1>2
<1>7. pc[t] \notin CreatePC \cup AddPC /\ pc'[t] \notin CreatePC \cup AddPC
  BY <1>2 DEF CreatePC, AddPC, Reading
<1>8. QED
  BY <1>1, <1>2, <1>3, <1>4, <1>5, <1>6, <1>7, Aside

\* FastQDump is called.
LEMMA CallDumpPairs ==
  ASSUME ReadInv, CallerInv, PlaceInv, PairInv, NEW t \in Thread, NEW i \in DumpIDs, CallDump(t, i)
  PROVE  PlaceInv' /\ PairInv'
<1> USE DEF CallDump, At, Goto, Advance, shared, locals, history
<1>1. \A u \in Thread \ {t} : Same(u)
  BY DEF ReadInv, Types, CallerInv, Same
<1>2. /\ pc[t] \in {"idle"} /\ pc'[t] = "dump" /\ todo[t] = << >>
      /\ todo'[t] = << >>
  BY DEF ReadInv, Types, CallKnows, Working, Reading
<1>3. /\ word' = word
      /\ UNCHANGED <<registered, created, sized, rx, tx, rxlock, txlock, ring, asked>>
  OBVIOUS
<1> HIDE DEF CallDump, At, Goto, Advance, shared, locals, history
<1>4. PlanKnows(t)'
  BY <1>2, PlansBegin DEF PlanKnows
<1>5. PlaceKnows(t)'
  BY <1>2 DEF PlaceKnows, AddPC, SendPC, Pairing, Early, Loop, Reading
<1>6. todo'[t] = << >> \/ Head(todo'[t]) = "ring"
  BY <1>2
<1>7. pc[t] \notin CreatePC \cup AddPC /\ pc'[t] \notin CreatePC \cup AddPC
  BY <1>2 DEF CreatePC, AddPC, Reading
<1>8. QED
  BY <1>1, <1>2, <1>3, <1>4, <1>5, <1>6, <1>7, Aside

\* A reader looks at a pair.
LEMMA ReadPairPairs ==
  ASSUME ReadInv, CallerInv, PlaceInv, PairInv, NEW t \in Thread, ReadPair(t)
  PROVE  PlaceInv' /\ PairInv'
<1> USE DEF ReadPair, At, Read, Goto, Advance, shared, locals, history
<1>1. \A u \in Thread \ {t} : Same(u)
  BY DEF ReadInv, Types, CallerInv, Same
<1>2. /\ pc[t] \in Reading /\ pc'[t] \in Reading /\ todo[t] = << >>
      /\ todo'[t] = << >>
  BY DEF ReadInv, Types, CallKnows, Working, Reading
<1>3. /\ word' = word
      /\ UNCHANGED <<registered, created, sized, rx, tx, rxlock, txlock, ring, asked>>
  OBVIOUS
<1> HIDE DEF ReadPair, At, Read, Goto, Advance, shared, locals, history
<1>4. PlanKnows(t)'
  BY <1>2, PlansBegin DEF PlanKnows
<1>5. PlaceKnows(t)'
  BY <1>2 DEF PlaceKnows, AddPC, SendPC, Pairing, Early, Loop, Reading
<1>6. todo'[t] = << >> \/ Head(todo'[t]) = "ring"
  BY <1>2
<1>7. pc[t] \notin CreatePC \cup AddPC /\ pc'[t] \notin CreatePC \cup AddPC
  BY <1>2 DEF CreatePC, AddPC, Reading
<1>8. QED
  BY <1>1, <1>2, <1>3, <1>4, <1>5, <1>6, <1>7, Aside

\* A reader has seen all the modules it prints.
LEMMA ReadEndPairs ==
  ASSUME ReadInv, CallerInv, PlaceInv, PairInv, NEW t \in Thread, ReadEnd(t)
  PROVE  PlaceInv' /\ PairInv'
<1> USE DEF ReadEnd, At, Goto, Advance, shared, locals, history
<1>1. \A u \in Thread \ {t} : Same(u)
  BY DEF ReadInv, Types, CallerInv, Same
<1>2. /\ pc[t] \in Reading /\ pc'[t] = "told" /\ todo[t] = << >>
      /\ todo'[t] = << >>
  BY DEF ReadInv, Types, CallKnows, Working, Reading
<1>3. /\ word' = word
      /\ UNCHANGED <<registered, created, sized, rx, tx, rxlock, txlock, ring, asked>>
  OBVIOUS
<1> HIDE DEF ReadEnd, At, Goto, Advance, shared, locals, history
<1>4. PlanKnows(t)'
  BY <1>2, PlansBegin DEF PlanKnows
<1>5. PlaceKnows(t)'
  BY <1>2 DEF PlaceKnows, AddPC, SendPC, Pairing, Early, Loop, Reading
<1>6. todo'[t] = << >> \/ Head(todo'[t]) = "ring"
  BY <1>2
<1>7. pc[t] \notin CreatePC \cup AddPC /\ pc'[t] \notin CreatePC \cup AddPC
  BY <1>2 DEF CreatePC, AddPC, Reading
<1>8. QED
  BY <1>1, <1>2, <1>3, <1>4, <1>5, <1>6, <1>7, Aside

\* A reader returns.
LEMMA ReadReturnPairs ==
  ASSUME ReadInv, CallerInv, PlaceInv, PairInv, NEW t \in Thread, ReadReturn(t)
  PROVE  PlaceInv' /\ PairInv'
<1> USE DEF ReadReturn, At, Idle, Goto, Advance, shared, locals, history
<1>1. \A u \in Thread \ {t} : Same(u)
  BY DEF ReadInv, Types, CallerInv, Same
<1>2. /\ pc[t] \in Reading /\ pc'[t] = "idle" /\ todo[t] = << >>
      /\ todo'[t] = << >>
  BY DEF ReadInv, Types, CallKnows, Working, Reading
<1>3. /\ word' = word
      /\ UNCHANGED <<registered, created, sized, rx, tx, rxlock, txlock, ring, asked>>
  OBVIOUS
<1> HIDE DEF ReadReturn, At, Idle, Goto, Advance, shared, locals, history
<1>4. PlanKnows(t)'
  BY <1>2, PlansBegin DEF PlanKnows
<1>5. PlaceKnows(t)'
  BY <1>2 DEF PlaceKnows, AddPC, SendPC, Pairing, Early, Loop, Reading
<1>6. todo'[t] = << >> \/ Head(todo'[t]) = "ring"
  BY <1>2
<1>7. pc[t] \notin CreatePC \cup AddPC /\ pc'[t] \notin CreatePC \cup AddPC
  BY <1>2 DEF CreatePC, AddPC, Reading
<1>8. QED
  BY <1>1, <1>2, <1>3, <1>4, <1>5, <1>6, <1>7, Aside

\* A send has its ring.
LEMMA SendReturnPairs ==
  ASSUME ReadInv, CallerInv, PlaceInv, PairInv, NEW t \in Thread, SendReturn(t)
  PROVE  PlaceInv' /\ PairInv'
<1> USE DEF SendReturn, At, Idle, Goto, Advance, shared, locals, history
<1>1. \A u \in Thread \ {t} : Same(u)
  BY DEF ReadInv, Types, CallerInv, Same
<1>2. /\ pc[t] \in {"enqueue"} /\ pc'[t] = "idle" /\ todo[t] = << >>
      /\ todo'[t] = << >>
  BY DEF ReadInv, Types, CallKnows, Working, Reading
<1>3. /\ word' = word
      /\ UNCHANGED <<registered, created, sized, rx, tx, rxlock, txlock, ring, asked>>
  OBVIOUS
<1> HIDE DEF SendReturn, At, Idle, Goto, Advance, shared, locals, history
<1>4. PlanKnows(t)'
  BY <1>2, PlansBegin DEF PlanKnows
<1>5. PlaceKnows(t)'
  BY <1>2 DEF PlaceKnows, AddPC, SendPC, Pairing, Early, Loop, Reading
<1>6. todo'[t] = << >> \/ Head(todo'[t]) = "ring"
  BY <1>2
<1>7. pc[t] \notin CreatePC \cup AddPC /\ pc'[t] \notin CreatePC \cup AddPC
  BY <1>2 DEF CreatePC, AddPC, Reading
<1>8. QED
  BY <1>1, <1>2, <1>3, <1>4, <1>5, <1>6, <1>7, Aside

\* A send is called, between modules that are created.
LEMMA CallSendPairs ==
  ASSUME ReadInv, CallerInv, PlaceInv, PairInv, NEW t \in Thread, NEW s \in Module, NEW d \in Module, CallSend(t, s, d)
  PROVE  PlaceInv' /\ PairInv'
<1> USE DEF CallSend, At, Goto, Advance, shared, locals, history
<1>1. \A u \in Thread \ {t} : Same(u)
  BY DEF ReadInv, Types, CallerInv, Same
<1>2. /\ pc[t] \in {"idle"} /\ pc'[t] = "send" /\ todo[t] = << >>
      /\ todo'[t] = << >>
  BY DEF ReadInv, Types, CallKnows, Working, Reading
<1>3. /\ word' = word
      /\ UNCHANGED <<registered, created, sized, rx, tx, rxlock, txlock, ring, asked>>
  OBVIOUS
<1> HIDE DEF CallSend, At, Goto, Advance, shared, locals, history
<1>4. PlanKnows(t)'
  BY <1>2, PlansBegin DEF PlanKnows
<1>5. PlaceKnows(t)'
  <2>1. m'[t] \in created' \cup Strays /\ p'[t] \in created'
    BY <1>3 DEF CallSend, ReadInv, Types
  <2>2. QED
    BY <1>2, <2>1 DEF PlaceKnows, AddPC, SendPC, Pairing, Early, Loop
<1>6. todo'[t] = << >> \/ Head(todo'[t]) = "ring"
  BY <1>2
<1>7. pc[t] \notin CreatePC \cup AddPC /\ pc'[t] \notin CreatePC \cup AddPC
  BY <1>2 DEF CreatePC, AddPC, Reading
<1>8. QED
  BY <1>1, <1>2, <1>3, <1>4, <1>5, <1>6, <1>7, Aside

\* A send looks for the ring, and makes it first if there is none.
LEMMA FindRingPairs ==
  ASSUME ReadInv, CallerInv, PlaceInv, PairInv, NEW t \in Thread, FindRing(t)
  PROVE  PlaceInv' /\ PairInv'
<1> USE DEF FindRing, At, Goto, Advance, shared, locals, history
<1>1. \A u \in Thread \ {t} : Same(u)
  BY DEF ReadInv, Types, CallerInv, Same
<1>2. /\ pc[t] \in {"send"} /\ pc'[t] = "enqueue" /\ todo[t] = << >>
      /\ todo'[t] \in {<< >>, Ring \o RxSet \o TxSet}
  BY DEF ReadInv, Types, CallKnows, Working, Reading
<1>3. /\ word' = word
      /\ UNCHANGED <<registered, created, sized, rx, tx, rxlock, txlock, ring, asked>>
  OBVIOUS
<1> HIDE DEF FindRing, At, Goto, Advance, shared, locals, history
<1>4. PlanKnows(t)'
  BY <1>2, PlansBegin DEF PlanKnows
<1>5. PlaceKnows(t)'
  <2>1. m'[t] = m[t] /\ p'[t] = p[t]
    BY DEF FindRing, locals
  <2>2. PlaceKnows(t)
    BY DEF PlaceInv
  <2>3. QED
    BY <1>2, <1>3, <2>1, <2>2 DEF PlaceKnows, AddPC, SendPC, Pairing, Early, Loop
<1>6. todo'[t] = << >> \/ Head(todo'[t]) = "ring"
  <2>1. Ring \o RxSet \o TxSet # << >> /\ Head(Ring \o RxSet \o TxSet) = "ring"
    BY PlanHeads
  <2>2. QED
    BY <1>2, <2>1
<1>7. pc[t] \notin CreatePC \cup AddPC /\ pc'[t] \notin CreatePC \cup AddPC
  BY <1>2 DEF CreatePC, AddPC, Reading
<1>8. QED
  BY <1>1, <1>2, <1>3, <1>4, <1>5, <1>6, <1>7, Aside

-----------------------------------------------------------------------------
(* The operations on a pair.                                               *)

\* The pair a thread is at work on.
LEMMA PairModules ==
  ASSUME ReadInv, CallerInv, PlaceInv, NEW t \in Thread, todo[t] # << >>
  PROVE  /\ pc[t] \in Pairing \cup {"enqueue"}
         /\ Dst(t) \in Module /\ Src(t) \in Module
         /\ Dst(t) \in registered /\ (pc[t] \in Pairing => Src(t) \in registered)
         /\ Dst(t) \notin sized => /\ pc[t] = "add tx" /\ p[t] = Dst(t) /\ m[t] = Src(t)
                                   /\ Src(t) \in created
<1>1. pc[t] \in Pairing \cup {"enqueue"}
  BY CallModules
<1>2. /\ m[t] \in Module /\ p[t] \in registered /\ p[t] \in Module
      /\ pc[t] \in Pairing => m[t] \in registered
  BY <1>1, CallModules DEF Pairing, CreatePC, AddPC, SendPC
<1>3. PlaceKnows(t) /\ Modules
  BY DEF PlaceInv
<1>4. pc[t] = "create rx" => Dst(t) \in sized
  BY <1>3 DEF PlaceKnows, Loop, Dst, Inward
<1>5. ASSUME pc[t] = "create tx" PROVE Dst(t) \in sized
  <2>1. Dst(t) = p[t] /\ p[t] # m[t]
    BY <1>3, <1>5 DEF PlaceKnows, Pairing, Dst, Inward
  <2>2. p[t] \in created
    <3>1. ASSUME p[t] \notin created PROVE FALSE
      <4>1. PICK u \in Thread : pc[u] \in CreatePC /\ m[u] = p[t]
        BY <1>2, <1>3, <3>1 DEF Modules
      <4>2. u = t
        BY <1>5, <4>1 DEF CallerInv, OneCreator, CreatePC
      <4>3. QED
        BY <2>1, <4>1, <4>2
    <3>2. QED
      BY <3>1
  <2>3. QED
    BY <1>3, <2>1, <2>2 DEF Modules
<1>6. pc[t] = "add rx" => Dst(t) \in sized
  BY <1>3 DEF PlaceKnows, AddPC, Dst, Inward, Modules
<1>7. pc[t] = "enqueue" => Dst(t) \in sized
  BY <1>3 DEF PlaceKnows, SendPC, Dst, Inward, Modules
<1>8. pc[t] = "add tx" => Dst(t) = p[t] /\ Src(t) = m[t] /\ m[t] \in created
  BY <1>3 DEF PlaceKnows, AddPC, Dst, Src, Inward
<1>9. (Dst(t) = m[t] /\ Src(t) = p[t]) \/ (Dst(t) = p[t] /\ Src(t) = m[t])
  BY DEF Dst, Src
<1>10. /\ Dst(t) \in Module /\ Src(t) \in Module
       /\ pc[t] \in Pairing => Dst(t) \in registered /\ Src(t) \in registered
  BY <1>2, <1>9
<1>11. pc[t] = "enqueue" => Dst(t) \in registered
  BY <1>2 DEF Dst, Inward
<1>12. pc[t] \in {"create rx", "create tx", "add rx", "add tx", "enqueue"}
  BY <1>1 DEF Pairing
<1>13. Dst(t) \notin sized => pc[t] = "add tx"
  BY <1>4, <1>5, <1>6, <1>7, <1>12
<1>14. QED
  BY <1>1, <1>8, <1>10, <1>13, <1>11

\* An operation that makes no ring keeps what the invariant says of the pairs.
LEMMA PlanPairs ==
  ASSUME ReadInv, CallerInv, PlaceInv, PairInv, NEW t \in Thread, todo[t] # << >>,
         Head(todo[t]) # "ring", todo'[t] = Tail(todo[t]),
         pc'[t] = pc[t], m'[t] = m[t], p'[t] = p[t], rxarg'[t] = rxarg[t],
         txarg'[t] = txarg[t], \A u \in Thread \ {t} : Same(u),
         UNCHANGED <<registered, created, sized, ring, asked>>,
         Doing(t, "load rx") => word'[t] = rx[Dst(t)],
         Doing(t, "load tx") => word'[t] = tx[Src(t)],
         \A i \in Module \ created : rxlock[i] # None => rxlock'[i] = rxlock[i],
         \A d \in Module, s \in Source :
           /\ s \in rx[d] /\ (RxHeld(t, d) => s \in word[t]) => s \in rx'[d]
           /\ s \in rx'[d] => \/ s \in rx[d] \/ (RxHeld(t, d) /\ s \in word[t])
                              \/ Doing(t, "store rx") /\ d = Dst(t) /\ s = Src(t),
         \A d \in Module, s \in Source :
           /\ d \in tx[s] /\ (TxHeld(t, s) => d \in word[t]) => d \in tx'[s]
           /\ d \in tx'[s] => \/ d \in tx[s] \/ (TxHeld(t, s) /\ d \in word[t])
                              \/ Doing(t, "store tx") /\ d = Dst(t) /\ s = Src(t),
         Doing(t, "store rx") => Src(t) \in rx'[Dst(t)],
         \A u \in Thread \ {t} : pc[u] = "add tx" /\ Doing(u, "ring") /\ p[u] \notin sized
           /\ m[u] \in rx[p[u]] => m[u] \in rx'[p[u]]
  PROVE  PairInv'
<1> DEFINE op == Head(todo[t])
<1>1. /\ op \in OpsAt(pc[t])
      /\ todo'[t] # << >> => Head(todo'[t]) = After(pc[t], op)
      /\ todo'[t] = << >> <=> After(pc[t], op) = End
  BY Popped
<1>2. Dst(t)' = Dst(t) /\ Src(t)' = Src(t)
  BY DEF Dst, Src, Inward
<1>3. pc[t] \in Pairing \cup {"enqueue"} /\ Dst(t) \in Module /\ Src(t) \in Module
  BY PairModules
<1>4. pc[t] \in Pairing => todo'[t] # << >>
  BY <1>1, NextEnd
<1>5. pc[t] \in Pairing => Busy(t, Dst(t), Src(t))'
  BY <1>2, <1>4 DEF Busy
<1>6. pc[t] = "enqueue" => ring[Dst(t)][Src(t)] = "sized"
  BY DEF PairInv, MadeFirst, Dst, Src, Inward
<1>7. /\ \A d \in Module, s \in Source : d = Dst(t) /\ s = Src(t) =>
           ring'[d][s] = "sized" \/ Busy(t, d, s)'
      /\ \A d \in Module, s \in Source : Busy(t, d, s) =>
           (Busy(t, d, s)' /\ pc'[t] = pc[t]) \/ ring'[d][s] = "sized"
  <2>1. Busy(t, Dst(t), Src(t))' \/ ring'[Dst(t)][Src(t)] = "sized"
    BY <1>3, <1>5, <1>6
  <2>2. \A d \in Module, s \in Source : d = Dst(t) /\ s = Src(t) =>
          ring'[d][s] = "sized" \/ Busy(t, d, s)'
    <3>1. SUFFICES ASSUME NEW d \in Module, NEW s \in Source, d = Dst(t), s = Src(t)
                   PROVE  ring'[d][s] = "sized" \/ Busy(t, d, s)'
      OBVIOUS
    <3>2. Busy(t, Dst(t), Src(t))' => Busy(t, d, s)'
      BY <1>2, <3>1 DEF Busy
    <3>3. QED
      BY <2>1, <3>1, <3>2
  <2>3. \A d \in Module, s \in Source : Busy(t, d, s) => d = Dst(t) /\ s = Src(t)
    BY DEF Busy
  <2>4. QED
    BY <2>2, <2>3
<1>8. \A d \in Module : RxHeld(t, d)' => word'[t] = rx[d]
  <2>1. SUFFICES ASSUME NEW d \in Module, RxHeld(t, d)' PROVE word'[t] = rx[d]
    OBVIOUS
  <2>2. op = "load rx" /\ d = Dst(t)
    <3>1. todo'[t] # << >> /\ Head(todo'[t]) = "store rx" /\ Dst(t)' = d
      BY <2>1 DEF RxHeld, Doing
    <3>2. QED
      BY <1>1, <1>2, <3>1, NextStore
  <2>3. QED
    BY <2>2 DEF Doing
<1>9. \A s \in Source : TxHeld(t, s)' => word'[t] = tx[s]
  <2>1. SUFFICES ASSUME NEW s \in Source, TxHeld(t, s)' PROVE word'[t] = tx[s]
    OBVIOUS
  <2>2. op = "load tx" /\ s = Src(t)
    <3>1. todo'[t] # << >> /\ Head(todo'[t]) = "store tx" /\ Src(t)' = s
      BY <2>1 DEF TxHeld, Doing
    <3>2. QED
      BY <1>1, <1>2, <3>1, NextStore
  <2>3. QED
    BY <2>2 DEF Doing
<1>10. Unsized' /\ KnownMade' /\ AskedMade'
  <2>1. pc[t] \notin Early /\ pc'[t] \notin Early
    BY <1>3 DEF Pairing, Early
  <2>2. \A d \in Module, s \in Source :
          /\ Joins(t, d, s) => Joins(t, d, s)'
          /\ Adds(t, d, s) => Adds(t, d, s)' \/ ring'[d][s] = "sized"
    <3>1. SUFFICES ASSUME NEW d \in Module, NEW s \in Source
                   PROVE  /\ Joins(t, d, s) => Joins(t, d, s)'
                          /\ Adds(t, d, s) => Adds(t, d, s)' \/ ring'[d][s] = "sized"
      OBVIOUS
    <3>2. Busy(t, d, s) => Busy(t, d, s)' \/ ring'[d][s] = "sized"
      BY <1>7
    <3>3. Joins(t, d, s) => Joins(t, d, s)'
      BY DEF Joins, PassedIn, PassedOut
    <3>4. Adds(t, d, s) => Adds(t, d, s)' \/ ring'[d][s] = "sized"
      BY <3>2 DEF Adds
    <3>5. QED
      BY <3>3, <3>4
  <2>3. Unsized /\ KnownMade /\ AskedMade
    BY DEF PairInv
  <2>4. \A d \in Module, s \in Source :
          /\ s \in rx[d] /\ (RxHeld(t, d) => s \in word[t]) => s \in rx'[d]
          /\ s \in rx'[d] => \/ s \in rx[d] \/ (RxHeld(t, d) /\ s \in word[t])
                             \/ ring'[d][s] = "sized" \/ Busy(t, d, s)'
          /\ RxHeld(t, d)' => word'[t] = rx[d] \/ (RxHeld(t, d) /\ word'[t] = word[t])
    BY <1>7, <1>8
  <2>5. \A d \in Module, s \in Source :
          /\ d \in tx[s] /\ (TxHeld(t, s) => d \in word[t]) => d \in tx'[s]
          /\ d \in tx'[s] => \/ d \in tx[s] \/ (TxHeld(t, s) /\ d \in word[t])
                             \/ ring'[d][s] = "sized" \/ Busy(t, d, s)'
          /\ TxHeld(t, s)' => word'[t] = tx[s] \/ (TxHeld(t, s) /\ word'[t] = word[t])
    BY <1>7, <1>9
  <2>6. \A d \in Module, s \in Source :
          d # s /\ Joins(t, d, s) /\ {d, s} \subseteq registered \cup {0} =>
            \/ Joins(t, d, s)' \/ ring'[d][s] = "sized"
            \/ Busy(t, d, s)' /\ (m[t] = d => pc'[t] = "create rx")
            \/ s \notin rx[d] /\ d \notin tx[s]
    BY <2>2
  <2>7. \A d \in Module, s \in Source \ Strays :
          <<d, s>> \in asked /\ d \in created /\ s \in created /\ Adds(t, d, s) =>
            Adds(t, d, s)' \/ s \in rx[d] \/ d \in tx[s] \/ ring'[d][s] = "sized"
    BY <2>2
  <2>8. /\ \A d \in Module, s \in Source : ring'[d][s] = ring[d][s] \/ ring'[d][s] = "sized"
        /\ \A d \in Module, s \in Source : <<d, s>> \in asked' =>
             \/ <<d, s>> \in asked
             \/ d # s /\ d \in created' /\ s \in created' /\ Adds(t, d, s)'
        /\ \A d \in created' \ created, s \in Source : ring[d][s] # "unsized"
        /\ created \subseteq created'
    OBVIOUS
  <2>9. QED
    BY <1>7, <2>1, <2>3, <2>4, <2>5, <2>6, <2>7, <2>8, PairsKept
<1>11. \A u \in Thread : MadeFirst(u)' /\ BitFirst(u)'
  <2>1. \A u \in Thread \ {t} : MadeFirst(u)' /\ BitFirst(u)'
    BY OthersFirst
  <2>2. MadeFirst(t)'
    BY <1>6 DEF MadeFirst, Dst, Src, Inward
  <2>3. ASSUME pc[t] = "add tx", todo'[t] # << >>, Head(todo'[t]) = "ring"
        PROVE  m[t] \in rx'[p[t]]
    <3>1. op = "store rx"
      BY <1>1, <2>3, NextRing
    <3>2. QED
      BY <2>3, <3>1 DEF Doing, Dst, Src, Inward
  <2>4. BitFirst(t)'
    BY <2>3 DEF BitFirst, Doing
  <2>5. QED
    BY <2>1, <2>2, <2>4
<1>12. QED
  BY <1>10, <1>11 DEF PairInv

\* MOD_SET loads the word.
LEMMA LoadSetPairs ==
  ASSUME ReadInv, CallerInv, PlaceInv, PairInv, NEW t \in Thread, LoadSet(t)
  PROVE  PlaceInv' /\ PairInv'
<1> USE DEF LoadSet, Done, shared, locals, history
<1>1. \A u \in Thread \ {t} : Same(u)
  BY DEF ReadInv, Types, CallerInv, PlaceInv, PairTypes, Same
<1>2. /\ pc'[t] = pc[t] /\ m'[t] = m[t] /\ p'[t] = p[t]
      /\ rxarg'[t] = rxarg[t] /\ txarg'[t] = txarg[t]
      /\ todo[t] # << >> /\ Head(todo[t]) \in {"load rx", "load tx"}
      /\ todo'[t] = Tail(todo[t])
  BY DEF ReadInv, Types, Doing
<1>3. /\ Doing(t, "load rx") => word'[t] = rx[Dst(t)]
      /\ Doing(t, "load tx") => word'[t] = tx[Src(t)]
  BY DEF PlaceInv, PairTypes, Doing
<1>4. UNCHANGED <<registered, created, sized, rx, tx, rxlock, txlock, ring, asked>>
  OBVIOUS
<1>5. PairTypes'
  BY DEF PlaceInv, PairTypes
<1> HIDE DEF LoadSet, Done, shared, locals, history
<1>6. \A op \in {"unlock tx", "lock rx", "lock tx", "store rx", "store tx", "ring"} :
        ~Doing(t, op)
  BY <1>2 DEF Doing
<1>7. PlaceInv'
  BY <1>1, <1>2, <1>4, <1>5, <1>6, PlanStep
<1>8. \A d \in Module, s \in Source : ~RxHeld(t, d) /\ ~TxHeld(t, s)
  BY <1>6 DEF RxHeld, TxHeld
<1>9. PairInv'
  BY <1>1, <1>2, <1>3, <1>4, <1>6, <1>8, PlanPairs
<1>10. QED
  BY <1>7, <1>9

\* The peer's rwlock is taken.
LEMMA LockPeerPairs ==
  ASSUME ReadInv, CallerInv, PlaceInv, PairInv, NEW t \in Thread, LockPeer(t)
  PROVE  PlaceInv' /\ PairInv'
<1> USE DEF LockPeer, Done, shared, locals, history
<1>1. \A u \in Thread \ {t} : Same(u)
  BY DEF ReadInv, Types, CallerInv, PlaceInv, PairTypes, Same
<1>2. /\ pc'[t] = pc[t] /\ m'[t] = m[t] /\ p'[t] = p[t]
      /\ rxarg'[t] = rxarg[t] /\ txarg'[t] = txarg[t] /\ word' = word
      /\ todo[t] # << >> /\ Head(todo[t]) \in {"lock rx", "lock tx"}
      /\ todo'[t] = Tail(todo[t])
  BY DEF ReadInv, Types, Doing
<1>3. Dst(t) \in Module /\ Src(t) \in Module
  BY <1>2, PairModules
<1>4. UNCHANGED <<registered, created, sized, rx, tx, ring, asked>>
  OBVIOUS
<1>5. PairTypes'
  BY DEF PlaceInv, PairTypes
<1>6. /\ Doing(t, "lock rx") => rxlock'[Dst(t)] = t
      /\ Doing(t, "lock tx") => txlock'[Src(t)] = t
  BY <1>3 DEF PlaceInv, PairTypes, Doing
<1>7. \A i \in Module : /\ rxlock[i] # None => rxlock'[i] = rxlock[i]
                        /\ txlock[i] # None => txlock'[i] = txlock[i]
  BY <1>3 DEF PlaceInv, PairTypes, Free
<1> HIDE DEF LockPeer, Done, shared, locals, history
<1>8. \A op \in {"unlock tx", "load rx", "load tx", "store rx", "store tx", "ring"} :
        ~Doing(t, op)
  BY <1>2 DEF Doing
<1>9. PlaceInv'
  <2>1. \A i \in Module, u \in Thread : /\ rxlock[i] = u => rxlock'[i] = u
                                        /\ txlock[i] = u => txlock'[i] = u
    BY <1>7, CallsAssumption
  <2>2. QED
    BY <1>1, <1>2, <1>4, <1>5, <1>6, <1>8, <2>1, PlanStep
<1>10. \A d \in Module, s \in Source : ~RxHeld(t, d) /\ ~TxHeld(t, s)
  BY <1>8 DEF RxHeld, TxHeld
<1>11. PairInv'
  BY <1>1, <1>2, <1>4, <1>7, <1>8, <1>10, PlanPairs
<1>12. QED
  BY <1>9, <1>11

\* The peer's tx.rwlock is released.
LEMMA UnlockPeerPairs ==
  ASSUME ReadInv, CallerInv, PlaceInv, PairInv, NEW t \in Thread, UnlockPeer(t)
  PROVE  PlaceInv' /\ PairInv'
<1> USE DEF UnlockPeer, Done, shared, locals, history
<1>1. \A u \in Thread \ {t} : Same(u)
  BY DEF ReadInv, Types, CallerInv, PlaceInv, PairTypes, Same
<1>2. /\ pc'[t] = pc[t] /\ m'[t] = m[t] /\ p'[t] = p[t]
      /\ rxarg'[t] = rxarg[t] /\ txarg'[t] = txarg[t] /\ word' = word
      /\ todo[t] # << >> /\ Head(todo[t]) = "unlock tx" /\ todo'[t] = Tail(todo[t])
  BY DEF ReadInv, Types, Doing
<1>3. Dst(t) \in Module /\ Src(t) \in Module
  BY <1>2, PairModules
<1>4. UNCHANGED <<registered, created, sized, rx, tx, rxlock, ring, asked>>
  OBVIOUS
<1>5. PairTypes'
  BY DEF PlaceInv, PairTypes
<1>6. \A i \in Module, u \in Thread :
        txlock[i] = u /\ ~(Doing(t, "unlock tx") /\ i = Src(t)) => txlock'[i] = u
  BY <1>3 DEF PlaceInv, PairTypes
<1> HIDE DEF UnlockPeer, Done, shared, locals, history
<1>7. \A op \in {"lock rx", "lock tx", "load rx", "load tx", "store rx", "store tx", "ring"} :
        ~Doing(t, op)
  BY <1>2 DEF Doing
<1>8. txlock[Src(t)] = t
  <2>1. pc[t] = "add rx"
    BY <1>2, Popped DEF OpsAt, Plain
  <2>2. HoldsLocks(t)
    BY DEF PlaceInv
  <2>3. QED
    BY <1>2, <2>1, <2>2 DEF HoldsLocks, TxOps, Src, Inward
<1>9. PlaceInv'
  BY <1>1, <1>2, <1>4, <1>5, <1>6, <1>7, <1>8, PlanStep
<1>10. \A d \in Module, s \in Source : ~RxHeld(t, d) /\ ~TxHeld(t, s)
  BY <1>7 DEF RxHeld, TxHeld
<1>11. PairInv'
  BY <1>1, <1>2, <1>4, <1>7, <1>10, PlanPairs
<1>12. QED
  BY <1>9, <1>11

\* MOD_SET stores the word: who works on a module without sizes has its lock.
LEMMA StoreSetPairs ==
  ASSUME ReadInv, CallerInv, PlaceInv, PairInv, NEW t \in Thread, StoreSet(t)
  PROVE  PlaceInv' /\ PairInv'
<1> USE DEF StoreSet, Done, shared, locals, history
<1>1. \A u \in Thread \ {t} : Same(u)
  BY DEF ReadInv, Types, CallerInv, PlaceInv, PairTypes, Same
<1>2. /\ pc'[t] = pc[t] /\ m'[t] = m[t] /\ p'[t] = p[t]
      /\ rxarg'[t] = rxarg[t] /\ txarg'[t] = txarg[t]
      /\ todo[t] # << >> /\ Head(todo[t]) \in {"store rx", "store tx"}
      /\ todo'[t] = Tail(todo[t])
  BY DEF ReadInv, Types, Doing
<1>3. /\ Dst(t) \in Module /\ Src(t) \in Module /\ Src(t) \in Source
      /\ Dst(t) \in registered /\ Src(t) \in registered \cup Strays
  <2>1. pc[t] \in Pairing \/ pc[t] = "enqueue"
    BY <1>2, PairModules
  <2>2. ASSUME pc[t] = "enqueue" PROVE Src(t) \in created \cup Strays
    <3>1. Src(t) = m[t]
      BY <2>2 DEF Src, Inward
    <3>2. PlaceKnows(t)
      BY DEF PlaceInv
    <3>3. QED
      BY <2>2, <3>1, <3>2 DEF PlaceKnows, SendPC
  <2>3. created \subseteq registered
    BY DEF ReadInv, Types
  <2>4. QED
    BY <1>2, <2>1, <2>2, <2>3, PairModules, Slots
<1>4. UNCHANGED <<registered, created, sized, rxlock, txlock, ring, asked>>
  OBVIOUS
<1>5. PairTypes'
  BY DEF PlaceInv, PairTypes
<1>6. \A d \in Module :
        rx'[d] = IF Doing(t, "store rx") /\ d = Dst(t) THEN word[t] \cup {Src(t)} ELSE rx[d]
  BY <1>3 DEF PlaceInv, PairTypes, Doing
<1>7. \A s \in Source :
        tx'[s] = IF Doing(t, "store tx") /\ s = Src(t) THEN word[t] \cup {Dst(t)} ELSE tx[s]
  BY <1>3 DEF PlaceInv, PairTypes, Doing
<1> HIDE DEF StoreSet, Done, shared, locals, history
<1>8. \A op \in {"lock rx", "lock tx", "unlock tx", "load rx", "load tx", "ring"} :
        ~Doing(t, op)
  BY <1>2 DEF Doing
<1>9. PlaceInv'
  <2>1. /\ \A i \in Module \ registered : rx'[i] = rx[i]
        /\ \A i \in Source \ (registered \cup Strays) : tx'[i] = tx[i]
    BY <1>3, <1>6, <1>7
  <2>2. QED
    BY <1>1, <1>2, <1>4, <1>5, <1>8, <2>1, PlanStep
<1>10. \A d \in Module, s \in Source :
         /\ s \in rx[d] /\ (RxHeld(t, d) => s \in word[t]) => s \in rx'[d]
         /\ s \in rx'[d] => \/ s \in rx[d] \/ (RxHeld(t, d) /\ s \in word[t])
                            \/ Doing(t, "store rx") /\ d = Dst(t) /\ s = Src(t)
  BY <1>6 DEF RxHeld
<1>11. \A d \in Module, s \in Source :
         /\ d \in tx[s] /\ (TxHeld(t, s) => d \in word[t]) => d \in tx'[s]
         /\ d \in tx'[s] => \/ d \in tx[s] \/ (TxHeld(t, s) /\ d \in word[t])
                            \/ Doing(t, "store tx") /\ d = Dst(t) /\ s = Src(t)
  BY <1>7 DEF TxHeld
<1>12. Doing(t, "store rx") => Src(t) \in rx'[Dst(t)]
  BY <1>3, <1>6
<1>13. \A u \in Thread \ {t} : pc[u] = "add tx" /\ Doing(u, "ring") /\ p[u] \notin sized
         /\ m[u] \in rx[p[u]] => m[u] \in rx'[p[u]]
  <2>1. SUFFICES ASSUME NEW u \in Thread \ {t}, pc[u] = "add tx", Doing(u, "ring"),
                        p[u] \notin sized, m[u] \in rx[p[u]], m[u] \notin rx'[p[u]]
                 PROVE  FALSE
    OBVIOUS
  <2>2. p[u] \in Module
    BY <2>1, CallModules DEF Pairing
  <2>3. Doing(t, "store rx") /\ Dst(t) = p[u]
    BY <1>6, <2>1, <2>2
  <2>4. pc[t] = "add tx" /\ p[t] = p[u]
    BY <1>2, <2>1, <2>3, PairModules
  <2>5. HoldsLocks(t) /\ HoldsLocks(u)
    BY DEF PlaceInv
  <2>6. rxlock[p[t]] = t
    BY <2>3, <2>4, <2>5 DEF HoldsLocks, RxOps, Doing
  <2>7. rxlock[p[u]] = u
    BY <2>1, <2>5 DEF HoldsLocks, RxOps, Doing
  <2>8. QED
    BY <2>1, <2>4, <2>6, <2>7
<1>14. PairInv'
  BY <1>1, <1>2, <1>4, <1>8, <1>10, <1>11, <1>12, <1>13, PlanPairs
<1>15. QED
  BY <1>9, <1>14

\* The ring is made of a module that has its sizes.
LEMMA RingSized ==
  ASSUME ReadInv, CallerInv, PlaceInv, PairInv, NEW t \in Thread, Doing(t, "ring"),
         Dst(t) \in sized, todo'[t] = Tail(todo[t]),
         pc'[t] = pc[t], m'[t] = m[t], p'[t] = p[t], rxarg'[t] = rxarg[t],
         txarg'[t] = txarg[t], \A u \in Thread \ {t} : Same(u),
         UNCHANGED <<registered, created, sized, rx, tx, rxlock, asked>>,
         ring'[Dst(t)][Src(t)] = "sized",
         \A d \in Module, s \in Source : ring'[d][s] = ring[d][s] \/ ring'[d][s] = "sized"
  PROVE  PairInv'
<1>1. /\ todo[t] # << >> /\ Head(todo[t]) = "ring"
      /\ Head(todo[t]) \in OpsAt(pc[t])
      /\ todo'[t] # << >> => Head(todo'[t]) = After(pc[t], "ring")
      /\ todo'[t] = << >> <=> After(pc[t], "ring") = End
  BY Popped DEF Doing
<1>2. pc[t] \in Pairing \cup {"enqueue"} /\ Dst(t) \in Module /\ Src(t) \in Module
  BY <1>1, PairModules
<1>3. pc[t] \in Pairing => todo'[t] = << >>
  BY <1>1, NextEnd
<1>4. todo'[t] # << >> => Head(todo'[t]) \notin {"store rx", "store tx"}
  BY <1>1, NextStore
<1>5. \A d \in Module, s \in Source :
        ~RxHeld(t, d) /\ ~TxHeld(t, s) /\ ~RxHeld(t, d)' /\ ~TxHeld(t, s)'
  BY <1>1, <1>4 DEF RxHeld, TxHeld, Doing
<1>6. \A d \in Module, s \in Source : Busy(t, d, s) => ring'[d][s] = "sized"
  BY DEF Busy
<1>7. Unsized' /\ KnownMade' /\ AskedMade'
  <2>1. pc[t] \notin Early /\ pc'[t] \notin Early
    BY <1>2 DEF Pairing, Early
  <2>2. \A d \in Module, s \in Source :
          /\ Joins(t, d, s) => Joins(t, d, s)'
          /\ Adds(t, d, s) => Adds(t, d, s)' \/ ring'[d][s] = "sized"
    BY <1>6 DEF Joins, PassedIn, PassedOut, Adds
  <2>3. Unsized /\ KnownMade /\ AskedMade
    BY DEF PairInv
  <2>4. \A d \in Module, s \in Source :
          /\ s \in rx[d] /\ (RxHeld(t, d) => s \in word[t]) => s \in rx'[d]
          /\ s \in rx'[d] => \/ s \in rx[d] \/ (RxHeld(t, d) /\ s \in word[t])
                             \/ ring'[d][s] = "sized" \/ Busy(t, d, s)'
          /\ RxHeld(t, d)' => word'[t] = rx[d] \/ (RxHeld(t, d) /\ word'[t] = word[t])
    BY <1>5
  <2>5. \A d \in Module, s \in Source :
          /\ d \in tx[s] /\ (TxHeld(t, s) => d \in word[t]) => d \in tx'[s]
          /\ d \in tx'[s] => \/ d \in tx[s] \/ (TxHeld(t, s) /\ d \in word[t])
                             \/ ring'[d][s] = "sized" \/ Busy(t, d, s)'
          /\ TxHeld(t, s)' => word'[t] = tx[s] \/ (TxHeld(t, s) /\ word'[t] = word[t])
    BY <1>5
  <2>6. \A d \in Module, s \in Source :
          d # s /\ Joins(t, d, s) /\ {d, s} \subseteq registered \cup {0} =>
            \/ Joins(t, d, s)' \/ ring'[d][s] = "sized"
            \/ Busy(t, d, s)' /\ (m[t] = d => pc'[t] = "create rx")
            \/ s \notin rx[d] /\ d \notin tx[s]
    BY <2>2
  <2>7. \A d \in Module, s \in Source \ Strays :
          <<d, s>> \in asked /\ d \in created /\ s \in created /\ Adds(t, d, s) =>
            Adds(t, d, s)' \/ s \in rx[d] \/ d \in tx[s] \/ ring'[d][s] = "sized"
    BY <2>2
  <2>8. /\ \A d \in Module, s \in Source : Busy(t, d, s) =>
             (Busy(t, d, s)' /\ pc'[t] = pc[t]) \/ ring'[d][s] = "sized"
        /\ \A d \in Module, s \in Source : <<d, s>> \in asked' =>
             \/ <<d, s>> \in asked
             \/ d # s /\ d \in created' /\ s \in created' /\ Adds(t, d, s)'
        /\ \A d \in created' \ created, s \in Source : ring[d][s] # "unsized"
        /\ \A i \in Module \ created : rxlock[i] # None => rxlock'[i] = rxlock[i]
        /\ created \subseteq created'
    BY <1>6
  <2>9. QED
    BY <2>1, <2>3, <2>4, <2>5, <2>6, <2>7, <2>8, PairsKept
<1>8. \A u \in Thread : MadeFirst(u)' /\ BitFirst(u)'
  <2>1. \A d \in Module, s \in Source : ring[d][s] = "sized" => ring'[d][s] = "sized"
    OBVIOUS
  <2>2. \A u \in Thread \ {t} : MadeFirst(u)' /\ BitFirst(u)'
    BY <2>1, OthersFirst
  <2>3. MadeFirst(t)'
    BY DEF MadeFirst, Dst, Src, Inward
  <2>4. BitFirst(t)'
    BY <1>3 DEF BitFirst, Doing, Pairing
  <2>5. QED
    BY <2>2, <2>3, <2>4
<1>9. QED
  BY <1>7, <1>8 DEF PairInv

\* It is made of a module that has none: the creation of that module has yet to
\* begin its loop, and the bit that it will find is locked.
LEMMA RingUnsized ==
  ASSUME ReadInv, CallerInv, PlaceInv, PairInv, NEW t \in Thread, Doing(t, "ring"),
         Dst(t) \notin sized, todo'[t] = Tail(todo[t]),
         pc'[t] = pc[t], m'[t] = m[t], p'[t] = p[t], rxarg'[t] = rxarg[t],
         txarg'[t] = txarg[t], word' = word, \A u \in Thread \ {t} : Same(u),
         UNCHANGED <<registered, created, sized, rx, tx, rxlock, asked>>,
         \A d \in Module, s \in Source :
           ~(d = Dst(t) /\ s = Src(t)) => ring'[d][s] = ring[d][s]
  PROVE  PairInv'
<1>1. /\ todo[t] # << >> /\ Head(todo[t]) = "ring"
      /\ Head(todo[t]) \in OpsAt(pc[t])
      /\ todo'[t] = << >> <=> After(pc[t], "ring") = End
  BY Popped DEF Doing
<1>2. /\ Dst(t) \in Module /\ Src(t) \in Module /\ Src(t) \in Source
      /\ Dst(t) \in registered /\ Src(t) \in created
      /\ pc[t] = "add tx" /\ p[t] = Dst(t) /\ m[t] = Src(t)
  BY <1>1, PairModules, Slots
<1>3. todo'[t] = << >>
  BY <1>1, <1>2, NextEnd DEF Pairing
<1>4. /\ Dst(t) # Src(t) /\ Dst(t) \notin created /\ Src(t) \in rx[Dst(t)]
      /\ rxlock[Dst(t)] = t
  <2>1. PlaceKnows(t) /\ HoldsLocks(t) /\ Modules /\ BitFirst(t)
    BY DEF PlaceInv, PairInv
  <2>2. p[t] # m[t] /\ created \subseteq sized
    BY <1>2, <2>1 DEF PlaceKnows, Pairing, Modules
  <2>3. rxlock[p[t]] = t
    BY <1>1, <1>2, <2>1 DEF HoldsLocks, RxOps
  <2>4. m[t] \in rx[p[t]]
    BY <1>2, <2>1 DEF BitFirst
  <2>5. QED
    BY <1>2, <2>2, <2>3, <2>4
<1>5. \A d \in Module, s \in Source : /\ ~RxHeld(t, d)' /\ ~TxHeld(t, s)'
                                      /\ ~RxHeld(t, d) /\ ~TxHeld(t, s)
  BY <1>1, <1>3 DEF RxHeld, TxHeld, Doing
<1>6. ASSUME NEW u \in Thread, RxHeld(u, Dst(t)) PROVE FALSE
  <2>1. u # t /\ todo[u] # << >> /\ Head(todo[u]) = "store rx" /\ Dst(u) = Dst(t)
    BY <1>2, <1>5, <1>6 DEF RxHeld, Doing
  <2>2. pc[u] = "add tx" /\ p[u] = Dst(t)
    BY <2>1, PairModules
  <2>3. HoldsLocks(u)
    BY DEF PlaceInv
  <2>4. QED
    BY <1>4, <2>1, <2>2, <2>3 DEF HoldsLocks, RxOps
<1>7. ASSUME NEW d \in Module, NEW s \in Source, RxStays(d, s)
      PROVE  RxStays(d, s)'
  <2>1. /\ s \in rx'[d] /\ pc'[t] # "create sets"
        /\ \A u \in Thread \ {t} : pc[u] = "create sets" /\ m[u] = d /\ rxlock[d] # None
             => rxlock'[d] = rxlock[d]
        /\ RxHeld(t, d)' => s \in word'[t]
    BY <1>2, <1>5, <1>7 DEF RxStays
  <2>2. QED
    BY <1>7, <2>1, RxStill
<1>8. ASSUME NEW d \in Module, NEW s \in Source, TxStays(d, s)
      PROVE  TxStays(d, s)'
  <2>1. d \in tx'[s] /\ pc'[t] \notin Early /\ (TxHeld(t, s)' => d \in word'[t])
    BY <1>2, <1>5, <1>8 DEF TxStays, Early
  <2>2. QED
    BY <1>8, <2>1, TxStill
<1>9. RxStays(Dst(t), Src(t))
  <2>1. ASSUME NEW u \in Thread, pc[u] = "create sets" PROVE rxlock[Dst(t)] \notin {None, u}
    BY <1>2, <1>4, <2>1, CallsAssumption
  <2>2. QED
    BY <1>4, <1>6, <2>1 DEF RxStays, Free
<1>10. Ahead(Dst(t), Src(t))
  <2>1. Modules
    BY DEF PlaceInv
  <2>2. PICK u \in Thread : pc[u] \in CreatePC /\ m[u] = Dst(t)
    BY <1>2, <1>4, <2>1 DEF Modules
  <2>3. pc[u] \notin Loop
    BY <2>2 DEF PlaceInv, PlaceKnows
  <2>4. Joins(u, Dst(t), Src(t))
    BY <2>2, <2>3 DEF Joins, PassedIn
  <2>5. QED
    BY <2>4 DEF Ahead
<1>11. ASSUME NEW d \in Module, NEW s \in Source, Ahead(d, s)
       PROVE  Ahead(d, s)'
  <2>1. \A u \in Thread : Joins(u, d, s) => Joins(u, d, s)'
    <3>1. Joins(t, d, s) => Joins(t, d, s)'
      BY DEF Joins, PassedIn, PassedOut
    <3>2. QED
      BY <3>1, SameActs
  <2>2. QED
    BY <1>11, <2>1 DEF Ahead
<1>12. \A d \in Module, s \in Source :
         (d = Dst(t) /\ s = Src(t)) => d # s /\ d \notin created' /\ s \in created'
                                       /\ RxStays(d, s)' /\ Ahead(d, s)'
  <2>1. SUFFICES ASSUME NEW d \in Module, NEW s \in Source, d = Dst(t), s = Src(t)
                 PROVE  /\ d # s /\ d \notin created' /\ s \in created'
                        /\ RxStays(d, s)' /\ Ahead(d, s)'
    OBVIOUS
  <2>2. RxStays(d, s) /\ Ahead(d, s)
    BY <1>9, <1>10, <2>1
  <2>3. RxStays(d, s)' /\ Ahead(d, s)'
    BY <1>7, <1>11, <2>2
  <2>4. QED
    BY <1>2, <1>4, <2>1, <2>3
<1>13. ASSUME NEW d \in Module, NEW s \in Source, ~(d = Dst(t) /\ s = Src(t)),
              NEW u \in Thread
       PROVE  /\ Busy(u, d, s) => Busy(u, d, s)' /\ pc'[u] = pc[u]
              /\ Declares(u, d, s) => Declares(u, d, s)'
              /\ Adds(u, d, s) => Adds(u, d, s)'
  <2>1. CASE u = t
    <3>1. ~Busy(t, d, s)
      BY <1>13 DEF Busy
    <3>2. ~Declares(t, d, s)
      BY <1>2 DEF Declares, Early
    <3>3. Adds(t, d, s) => Adds(t, d, s)'
      BY <3>1 DEF Adds
    <3>4. QED
      BY <2>1, <3>1, <3>2, <3>3
  <2>2. CASE u # t
    <3>1. Same(u)
      BY <2>2
    <3>2. QED
      BY <3>1, SameActs DEF Same
  <2>3. QED
    BY <2>1, <2>2
<1>14. Unsized'
  <2>1. SUFFICES ASSUME NEW d \in Module, NEW s \in Source, ring'[d][s] = "unsized",
                        ~(d = Dst(t) /\ s = Src(t))
                 PROVE  /\ d # s /\ d \notin created' /\ s \in created' /\ RxStays(d, s)'
                        /\ \/ Ahead(d, s)'
                           \/ \E u \in Thread : pc'[u] = "create rx" /\ Busy(u, d, s)'
    BY <1>12 DEF Unsized
  <2>2. /\ d # s /\ d \notin created /\ s \in created /\ RxStays(d, s)
        /\ Ahead(d, s) \/ \E u \in Thread : pc[u] = "create rx" /\ Busy(u, d, s)
    BY <2>1 DEF PairInv, Unsized
  <2>3. QED
    BY <1>7, <1>11, <1>13, <2>1, <2>2
<1>15. KnownMade'
  <2>1. SUFFICES ASSUME NEW d \in Module, NEW s \in Source \ Strays, d # s, Known(d, s)',
                        ~(d = Dst(t) /\ s = Src(t))
                 PROVE  \/ ring'[d][s] = "sized" \/ AtWork(d, s)'
                        \/ Ahead(d, s)' /\ (RxStays(d, s)' \/ TxStays(d, s)')
    BY <1>12 DEF KnownMade
  <2>2. Known(d, s)
    <3>1. \A u \in Thread : /\ RxHeld(u, d)' => RxHeld(u, d)
                            /\ TxHeld(u, s)' => TxHeld(u, s)
      BY <1>5, SameActs
    <3>2. QED
      BY <2>1, <3>1 DEF Known
  <2>3. \/ ring[d][s] = "sized" \/ AtWork(d, s)
        \/ Ahead(d, s) /\ (RxStays(d, s) \/ TxStays(d, s))
    BY <2>1, <2>2 DEF PairInv, KnownMade
  <2>4. AtWork(d, s) => AtWork(d, s)'
    BY <1>13, <2>1 DEF AtWork
  <2>5. QED
    BY <1>7, <1>8, <1>11, <2>1, <2>3, <2>4
<1>16. AskedMade'
  <2>1. SUFFICES ASSUME NEW d \in Module, NEW s \in Source \ Strays, <<d, s>> \in asked',
                        ~(d = Dst(t) /\ s = Src(t))
                 PROVE  /\ d # s
                        /\ \/ ring'[d][s] = "sized" \/ AtWork(d, s)'
                           \/ Ahead(d, s)' /\ (RxStays(d, s)' \/ TxStays(d, s)')
                           \/ \E u \in Thread : Declares(u, d, s)'
                           \/ /\ d \in created' /\ s \in created'
                              /\ \E u \in Thread : Adds(u, d, s)'
    BY <1>12 DEF AskedMade
  <2>2. /\ d # s
        /\ \/ ring[d][s] = "sized" \/ AtWork(d, s)
           \/ Ahead(d, s) /\ (RxStays(d, s) \/ TxStays(d, s))
           \/ \E u \in Thread : Declares(u, d, s)
           \/ d \in created /\ s \in created /\ \E u \in Thread : Adds(u, d, s)
    BY <2>1 DEF PairInv, AskedMade
  <2>3. AtWork(d, s) => AtWork(d, s)'
    BY <1>13, <2>1 DEF AtWork
  <2>4. /\ (\E u \in Thread : Declares(u, d, s)) => \E u \in Thread : Declares(u, d, s)'
        /\ (\E u \in Thread : Adds(u, d, s)) => \E u \in Thread : Adds(u, d, s)'
    BY <1>13, <2>1
  <2>5. QED
    BY <1>7, <1>8, <1>11, <2>1, <2>2, <2>3, <2>4
<1>17. \A u \in Thread : MadeFirst(u)' /\ BitFirst(u)'
  <2>1. MadeFirst(t)' /\ BitFirst(t)'
    BY <1>2, <1>3 DEF MadeFirst, BitFirst, Doing
  <2>2. ASSUME NEW u \in Thread \ {t} PROVE MadeFirst(u)' /\ BitFirst(u)'
    <3>1. Same(u) /\ MadeFirst(u) /\ BitFirst(u)
      BY DEF PairInv
    <3>2. pc[u] = "enqueue" => p[u] \in created /\ p[u] \in Module /\ m[u] \in Source
      BY CallModules, Slots DEF PlaceInv, PlaceKnows, SendPC
    <3>3. pc[u] = "enqueue" => ring'[p[u]][m[u]] = ring[p[u]][m[u]]
      BY <1>4, <3>2
    <3>4. MadeFirst(u)'
      BY <3>1, <3>3 DEF MadeFirst, Same
    <3>5. BitFirst(u)'
      BY <3>1 DEF BitFirst, Doing, Same
    <3>6. QED
      BY <3>4, <3>5
  <2>3. QED
    BY <2>1, <2>2
<1>18. QED
  BY <1>14, <1>15, <1>16, <1>17 DEF PairInv

\* The ring is stored.
LEMMA StoreRingPairs ==
  ASSUME ReadInv, CallerInv, PlaceInv, PairInv, NEW t \in Thread, StoreRing(t)
  PROVE  PlaceInv' /\ PairInv'
<1> USE DEF StoreRing, Done, shared, locals, history
<1>1. \A u \in Thread \ {t} : Same(u)
  BY DEF ReadInv, Types, CallerInv, PlaceInv, PairTypes, Same
<1>2. /\ pc'[t] = pc[t] /\ m'[t] = m[t] /\ p'[t] = p[t]
      /\ rxarg'[t] = rxarg[t] /\ txarg'[t] = txarg[t] /\ word' = word
      /\ todo[t] # << >> /\ Head(todo[t]) = "ring" /\ todo'[t] = Tail(todo[t])
  BY DEF ReadInv, Types, Doing
<1>3. Dst(t) \in Module /\ Src(t) \in Module /\ Src(t) \in Source
  BY <1>2, PairModules, Slots
<1>4. UNCHANGED <<registered, created, sized, rx, tx, rxlock, txlock, asked>>
  OBVIOUS
<1>5. PairTypes'
  BY DEF PlaceInv, PairTypes
<1>6. ring'[Dst(t)][Src(t)] = IF Dst(t) \in sized THEN "sized" ELSE "unsized"
  BY <1>3 DEF ReadInv, Types
<1>7. \A d \in Module, s \in Source :
        ~(d = Dst(t) /\ s = Src(t)) => ring'[d][s] = ring[d][s]
  BY <1>3 DEF ReadInv, Types
<1> HIDE DEF StoreRing, Done, shared, locals, history
<1>8. PlaceInv'
  <2>1. \A op \in {"lock rx", "lock tx", "unlock tx"} : ~Doing(t, op)
    BY <1>2 DEF Doing
  <2>2. QED
    BY <1>1, <1>2, <1>4, <1>5, <2>1, PlanStep
<1>9. Doing(t, "ring")
  BY <1>2 DEF Doing
<1>10. CASE Dst(t) \in sized
  <2>1. \A d \in Module, s \in Source : ring'[d][s] = ring[d][s] \/ ring'[d][s] = "sized"
    BY <1>6, <1>7, <1>10
  <2>2. QED
    BY <1>1, <1>2, <1>4, <1>6, <1>8, <1>9, <1>10, <2>1, RingSized
<1>11. CASE Dst(t) \notin sized
  BY <1>1, <1>2, <1>4, <1>7, <1>8, <1>9, <1>11, RingUnsized
<1>12. QED
  BY <1>10, <1>11
-----------------------------------------------------------------------------
(* FastQCreateModule.                                                      *)

\* A step of the creation after the copies keeps both invariants, if who comes
\* past a pair has found it made, makes it or found no bit.
LEMMA CreateTurn ==
  ASSUME ReadInv, CallerInv, PlaceInv, PairInv, NEW t \in Thread,
         \A u \in Thread \ {t} : Same(u),
         pc[t] \in Loop \cup {"create size"}, pc'[t] \in Loop, m'[t] = m[t],
         m[t] \in sized', p'[t] >= 1, pc'[t] \in Pairing => p'[t] # m[t],
         todo[t] = << >>, PlanKnows(t)',
         todo'[t] = << >> \/ Head(todo'[t]) \in {"load rx", "load tx"},
         word' = word, sized \subseteq sized',
         UNCHANGED <<registered, created, rx, tx, rxlock, txlock, asked>>,
         \A d \in Module, s \in Source : ring'[d][s] = ring[d][s] \/ ring'[d][s] = "sized",
         \A d \in Module, s \in Source :
           d # s /\ Joins(t, d, s) /\ {d, s} \subseteq registered \cup {0} =>
             \/ Joins(t, d, s)' \/ ring'[d][s] = "sized"
             \/ Busy(t, d, s)' /\ (m[t] = d => pc'[t] = "create rx")
             \/ s \notin rx[d] /\ d \notin tx[s]
  PROVE  PlaceInv' /\ PairInv'
<1>1. /\ pc[t] \in CreatePC /\ pc'[t] \in CreatePC
      /\ pc[t] \notin Early /\ pc'[t] \notin Early
  BY DEF Loop, CreatePC, Early
<1>2. pc'[t] \notin AddPC \cup SendPC \cup {"add rx", "add tx", "add between", "create size"}
  BY DEF Loop, AddPC, SendPC
<1>3. PlaceInv'
  <2>1. PairTypes'
    BY DEF PlaceInv, PairTypes
  <2>2. PlaceKnows(t)'
    BY <1>1, <1>2 DEF PlaceKnows
  <2>3. HoldsLocks(t)'
    BY <1>2 DEF HoldsLocks
  <2>4. QED
    BY <1>1, <2>1, <2>2, <2>3, PlaceKept
<1>4. Unsized' /\ KnownMade' /\ AskedMade'
  <2>1. \A d \in Module, s \in Source : ~Adds(t, d, s)
    BY DEF Adds, AddPC, Loop
  <2>2. Unsized /\ KnownMade /\ AskedMade
    BY DEF PairInv
  <2>3. todo'[t] = << >> \/ Head(todo'[t]) \notin {"store rx", "store tx"}
    OBVIOUS
  <2>4. \A d \in Module, s \in Source \ Strays :
          <<d, s>> \in asked /\ d \in created /\ s \in created /\ Adds(t, d, s) =>
            Adds(t, d, s)' \/ s \in rx[d] \/ d \in tx[s] \/ ring'[d][s] = "sized"
    BY <2>1
  <2>5. /\ \A i \in Module \ created : rxlock[i] # None => rxlock'[i] = rxlock[i]
        /\ \A d \in Module, s \in Source : <<d, s>> \in asked' =>
             \/ <<d, s>> \in asked
             \/ d # s /\ d \in created' /\ s \in created' /\ Adds(t, d, s)'
        /\ \A d \in created' \ created, s \in Source : ring[d][s] # "unsized"
        /\ created \subseteq created'
    OBVIOUS
  <2>6. QED
    BY <1>1, <2>2, <2>3, <2>4, <2>5, PairsTurned
<1>5. \A u \in Thread : MadeFirst(u)' /\ BitFirst(u)'
  <2>1. \A d \in Module, s \in Source : ring[d][s] = "sized" => ring'[d][s] = "sized"
    OBVIOUS
  <2>2. \A u \in Thread \ {t} : MadeFirst(u)' /\ BitFirst(u)'
    BY <2>1, OthersFirst
  <2>3. MadeFirst(t)' /\ BitFirst(t)'
    BY <1>2 DEF MadeFirst, BitFirst, SendPC
  <2>4. QED
    BY <2>2, <2>3
<1>6. QED
  BY <1>3, <1>4, <1>5 DEF PairInv

\* The creation has yet to come to a pair, where it turns to the next peer.
LEMMA JoinsPeer ==
  ASSUME NEW t \in Thread, NEW d, NEW s, pc'[t] = "create peer", m'[t] = m[t],
         (m[t] = d /\ ~(s < p'[t])) \/ (m[t] = s /\ ~(d < p'[t]))
  PROVE  Joins(t, d, s)'
<1>1. pc'[t] \notin {"create rx", "create tx"} /\ pc'[t] \in CreatePC
  BY DEF CreatePC
<1>2. (m'[t] = d /\ ~PassedIn(t, s)') \/ (m'[t] = s /\ ~PassedOut(t, d)')
  BY <1>1 DEF PassedIn, PassedOut
<1>3. QED
  BY <1>1, <1>2 DEF Joins

\* Before the peer's own ring, and before the ring to it.
LEMMA JoinsRx ==
  ASSUME NEW t \in Thread, NEW d, NEW s, pc'[t] = "create rx", m'[t] = m[t],
         (m[t] = d /\ ~(s < p'[t] \/ s = p'[t])) \/ (m[t] = s /\ ~(d < p'[t]))
  PROVE  Joins(t, d, s)'
<1>1. pc'[t] # "create tx" /\ pc'[t] \in CreatePC
  BY DEF CreatePC
<1>2. (m'[t] = d /\ ~PassedIn(t, s)') \/ (m'[t] = s /\ ~PassedOut(t, d)')
  BY <1>1 DEF PassedIn, PassedOut
<1>3. QED
  BY <1>1, <1>2 DEF Joins

\* The same in the last step for the peer.
LEMMA JoinsTx ==
  ASSUME NEW t \in Thread, NEW d, NEW s, pc'[t] = "create tx", m'[t] = m[t],
         \/ m[t] = d /\ ~(s < p'[t] \/ s = p'[t])
         \/ m[t] = s /\ ~(d < p'[t] \/ d = p'[t])
  PROVE  Joins(t, d, s)'
<1>1. pc'[t] \in CreatePC
  BY DEF CreatePC
<1>2. (m'[t] = d /\ ~PassedIn(t, s)') \/ (m'[t] = s /\ ~PassedOut(t, d)')
  BY DEF PassedIn, PassedOut
<1>3. QED
  BY <1>1, <1>2 DEF Joins

\* The peer is taken, or passed over if it is no peer.
LEMMA CreatePeerPairs ==
  ASSUME ReadInv, CallerInv, PlaceInv, PairInv, NEW t \in Thread, CreatePeer(t)
  PROVE  PlaceInv' /\ PairInv'
<1> USE DEF CreatePeer, At, Goto, Advance, Over, shared, locals, history
<1>1. \A u \in Thread \ {t} : Same(u)
  BY DEF ReadInv, Types, CallerInv, Same
<1>2. pc[t] = "create peer" /\ m'[t] = m[t]
  BY DEF ReadInv, Types
<1>3. todo[t] = << >>
  OBVIOUS
<1>4. /\ word' = word
      /\ UNCHANGED <<registered, created, sized, rx, tx, rxlock, txlock, ring, asked>>
  OBVIOUS
<1>5. \/ /\ p[t] = m[t] \/ p[t] \notin registered
         /\ p'[t] = p[t] + 1 /\ pc'[t] = "create peer"
      \/ p[t] # m[t] /\ p'[t] = p[t] /\ pc'[t] = "create rx"
  BY DEF ReadInv, Types
<1>6. todo'[t] = IF pc'[t] = "create rx" /\ (p[t] \in rx[m[t]] \/ m[t] \in tx[p[t]])
                 THEN RxSet \o TxSet \o Ring ELSE << >>
  BY DEF ReadInv, Types
<1> HIDE DEF CreatePeer, At, Goto, Advance, Over, shared, locals, history
<1>7. /\ m[t] \in sized /\ p[t] >= 1 /\ p[t] \in Nat /\ m[t] \in Nat
      /\ \A i \in Module : i \in Nat
      /\ \A i \in Source : i \in Nat
  BY <1>2, CallModules, Slots DEF PlaceInv, PlaceKnows, Loop
<1>8. todo'[t] = << >> \/ Head(todo'[t]) = "load rx"
  BY <1>6, PlanHeads
<1>9. PlanKnows(t)'
  BY <1>5, <1>6, PlansBegin DEF PlanKnows
<1>10. p'[t] \in Nat /\ p'[t] >= 1
  <2>1. p'[t] = p[t] \/ p'[t] = p[t] + 1
    BY <1>5
  <2>2. QED
    BY <1>7, <2>1
<1>11. p'[t] >= 1
  BY <1>10
<1>12. pc'[t] \in Loop /\ pc[t] \in Loop /\ pc[t] \in Loop \cup {"create size"}
  BY <1>2, <1>5 DEF Loop
<1>13. pc'[t] \in Pairing => p'[t] # m[t]
  BY <1>2, <1>5 DEF Pairing
<1>14. ASSUME NEW d \in Module, NEW s \in Source, d # s, Joins(t, d, s),
             {d, s} \subseteq registered \cup {0}
      PROVE  \/ Joins(t, d, s)'
             \/ Busy(t, d, s)' /\ (m[t] = d => pc'[t] = "create rx")
             \/ s \notin rx[d] /\ d \notin tx[s]
  <2>1. (m[t] = d /\ ~(s < p[t])) \/ (m[t] = s /\ ~(d < p[t]))
    BY <1>2, <1>14 DEF Joins, PassedIn, PassedOut, Loop
  <2>2. d \in Nat /\ s \in Nat
    BY <1>7
  <2>3. CASE pc'[t] = "create peer"
    <3>1. (p[t] = m[t] \/ p[t] \notin registered) /\ p'[t] = p[t] + 1
      BY <1>5, <2>3
    <3>2. p[t] \notin {d, s} \ {m[t]} /\ p[t] # 0
      BY <1>7, <1>14, <3>1
    <3>3. (m[t] = d /\ s # p[t]) \/ (m[t] = s /\ d # p[t])
      BY <1>14, <2>1, <3>2
    <3>4. (m[t] = d /\ ~(s < p'[t])) \/ (m[t] = s /\ ~(d < p'[t]))
      BY <1>7, <1>10, <2>1, <2>2, <3>1, <3>3
    <3>5. QED
      BY <1>2, <2>3, <3>4, JoinsPeer
  <2>4. CASE pc'[t] = "create rx"
    <3>1. p'[t] = p[t]
      BY <1>5, <2>4
    <3>2. \/ m[t] = d /\ s = p[t]
          \/ m[t] = d /\ ~(s < p[t] \/ s = p[t])
          \/ m[t] = s /\ ~(d < p[t])
      BY <2>1
    <3>3. CASE (m[t] = d /\ ~(s < p'[t] \/ s = p'[t])) \/ (m[t] = s /\ ~(d < p'[t]))
      BY <1>2, <2>4, <3>3, JoinsRx
    <3>4. CASE m[t] = d /\ s = p[t]
      <4>1. todo'[t] = << >> => s \notin rx[d] /\ d \notin tx[s]
        BY <1>6, <2>4, <3>4, PlanHeads
      <4>2. todo'[t] # << >> => Busy(t, d, s)'
        BY <1>2, <2>4, <3>1, <3>4 DEF Busy, Pairing, Dst, Src, Inward
      <4>3. QED
        BY <2>4, <4>1, <4>2
    <3>5. QED
      BY <3>1, <3>2, <3>3, <3>4
  <2>5. QED
    BY <1>5, <2>3, <2>4
<1>15. QED
  <2>1. m'[t] = m[t]
    BY <1>2
  <2>2. m[t] \in sized' /\ sized \subseteq sized'
    BY <1>4, <1>7
  <2>3. UNCHANGED <<registered, created, rx, tx, rxlock, txlock, asked>> /\ word' = word
    BY <1>4
  <2>4. todo'[t] = << >> \/ Head(todo'[t]) \in {"load rx", "load tx"}
    BY <1>8
  <2>5. \A d \in Module, s \in Source : ring'[d][s] = ring[d][s] \/ ring'[d][s] = "sized"
    BY <1>4
  <2>6. \A d \in Module, s \in Source :
          d # s /\ Joins(t, d, s) /\ {d, s} \subseteq registered \cup {0} =>
            \/ Joins(t, d, s)' \/ ring'[d][s] = "sized"
            \/ Busy(t, d, s)' /\ (m[t] = d => pc'[t] = "create rx")
            \/ s \notin rx[d] /\ d \notin tx[s]
    BY <1>14
  <2>7. QED
    BY <1>1, <1>3, <1>9, <1>12, <1>11, <1>13, <2>1, <2>2, <2>3, <2>4, <2>5, <2>6, CreateTurn

\* The ring from the peer is made if there has to be one; now the one to it, if
\* there is none.
LEMMA CreateOutwardPairs ==
  ASSUME ReadInv, CallerInv, PlaceInv, PairInv, NEW t \in Thread, CreateOutward(t)
  PROVE  PlaceInv' /\ PairInv'
<1> USE DEF CreateOutward, At, Goto, shared, locals, history
<1>1. \A u \in Thread \ {t} : Same(u)
  BY DEF ReadInv, Types, CallerInv, Same
<1>2. pc[t] = "create rx" /\ m'[t] = m[t] /\ p'[t] = p[t] /\ pc'[t] = "create tx"
  BY DEF ReadInv, Types
<1>3. todo[t] = << >>
  OBVIOUS
<1>4. /\ word' = word
      /\ UNCHANGED <<registered, created, sized, rx, tx, rxlock, txlock, ring, asked>>
  OBVIOUS
<1>5. todo'[t] = IF ring[p[t]][m[t]] = "none" /\ (p[t] \in tx[m[t]] \/ m[t] \in rx[p[t]])
                 THEN TxSet \o RxSet \o Ring ELSE << >>
  BY DEF ReadInv, Types
<1> HIDE DEF CreateOutward, At, Goto, shared, locals, history
<1>6. /\ m[t] \in sized /\ p[t] >= 1 /\ p[t] # m[t] /\ p[t] \in Nat /\ m[t] \in Nat
      /\ \A i \in Module : i \in Nat
      /\ \A i \in Source : i \in Nat
  BY <1>2, CallModules, Slots DEF PlaceInv, PlaceKnows, Loop, Pairing
<1>7. todo'[t] = << >> \/ Head(todo'[t]) = "load tx"
  BY <1>5, PlanHeads
<1>8. PlanKnows(t)'
  BY <1>2, <1>5, PlansBegin DEF PlanKnows
<1>9. /\ pc'[t] \in Loop /\ p'[t] >= 1 /\ pc[t] \in Loop /\ p'[t] # m[t]
  BY <1>2, <1>6 DEF Loop
<1>10. ring[p[t]][m[t]] \in {"none", "sized"}
  <2>1. m[t] \notin created
    BY <1>2, NotCreated DEF CreatePC
  <2>2. p[t] \in Module /\ m[t] \in Source
    BY <1>2, CallModules, Slots DEF Pairing, CreatePC
  <2>3. ring[p[t]][m[t]] # "unsized"
    BY <2>1, <2>2 DEF PairInv, Unsized
  <2>4. ring[p[t]][m[t]] \in {"none", "sized", "unsized"}
    BY <2>2 DEF ReadInv, Types
  <2>5. QED
    BY <2>3, <2>4
<1>11. ASSUME NEW d \in Module, NEW s \in Source, d # s, Joins(t, d, s)
       PROVE  \/ Joins(t, d, s)' \/ ring'[d][s] = "sized"
              \/ Busy(t, d, s)' /\ (m[t] = d => pc'[t] = "create rx")
              \/ s \notin rx[d] /\ d \notin tx[s]
  <2>1. (m[t] = d /\ ~(s < p[t] \/ s = p[t])) \/ (m[t] = s /\ ~(d < p[t]))
    BY <1>2, <1>11 DEF Joins, PassedIn, PassedOut, Loop
  <2>2. \/ m[t] = d /\ ~(s < p[t] \/ s = p[t])
        \/ m[t] = s /\ ~(d < p[t] \/ d = p[t])
        \/ m[t] = s /\ d = p[t]
    BY <2>1
  <2>3. CASE \/ m[t] = d /\ ~(s < p[t] \/ s = p[t])
             \/ m[t] = s /\ ~(d < p[t] \/ d = p[t])
    BY <1>2, <2>3, JoinsTx
  <2>4. CASE m[t] = s /\ d = p[t]
    <3>1. todo'[t] = << >> => (s \notin rx[d] /\ d \notin tx[s]) \/ ring[d][s] = "sized"
      BY <1>5, <1>10, <2>4, PlanHeads
    <3>2. todo'[t] # << >> => Busy(t, d, s)'
      BY <1>2, <2>4 DEF Busy, Pairing, Dst, Src, Inward
    <3>3. QED
      BY <1>4, <1>11, <2>4, <3>1, <3>2
  <2>5. QED
    BY <2>2, <2>3, <2>4
<1>12. QED
  BY <1>1, <1>2, <1>3, <1>4, <1>6, <1>7, <1>8, <1>9, <1>11, CreateTurn

\* The next peer.
LEMMA CreateNextPairs ==
  ASSUME ReadInv, CallerInv, PlaceInv, PairInv, NEW t \in Thread, CreateNext(t)
  PROVE  PlaceInv' /\ PairInv'
<1> USE DEF CreateNext, At, Goto, Advance, shared, locals, history
<1>1. \A u \in Thread \ {t} : Same(u)
  BY DEF ReadInv, Types, CallerInv, Same
<1>2. /\ pc[t] = "create tx" /\ m'[t] = m[t] /\ p'[t] = p[t] + 1
      /\ pc'[t] = "create peer"
  BY DEF ReadInv, Types
<1>3. todo[t] = << >> /\ todo'[t] = << >>
  OBVIOUS
<1>4. /\ word' = word
      /\ UNCHANGED <<registered, created, sized, rx, tx, rxlock, txlock, ring, asked>>
  OBVIOUS
<1> HIDE DEF CreateNext, At, Goto, Advance, shared, locals, history
<1>5. /\ m[t] \in sized /\ p[t] >= 1 /\ p[t] \in Nat /\ m[t] \in Nat
      /\ \A i \in Module : i \in Nat
      /\ \A i \in Source : i \in Nat
  BY <1>2, CallModules, Slots DEF PlaceInv, PlaceKnows, Loop
<1>6. PlanKnows(t)'
  BY <1>3, PlansBegin DEF PlanKnows
<1>7. pc'[t] \in Loop /\ pc[t] \in Loop /\ pc'[t] \notin Pairing
  BY <1>2 DEF Loop, Pairing
<1>8. p'[t] = p[t] + 1 /\ p'[t] >= 1
  <2>1. p'[t] = p[t] + 1
    BY <1>2
  <2>2. QED
    BY <1>5, <2>1
<1>9. ASSUME NEW d \in Module, NEW s \in Source, Joins(t, d, s)
      PROVE  Joins(t, d, s)'
  <2>1. /\ \/ m[t] = d /\ ~(s < p[t] \/ s = p[t])
           \/ m[t] = s /\ ~(d < p[t] \/ d = p[t])
        /\ d \in Nat /\ s \in Nat
    BY <1>2, <1>5, <1>9 DEF Joins, PassedIn, PassedOut, Loop
  <2>2. (m[t] = d /\ ~(s < p'[t])) \/ (m[t] = s /\ ~(d < p'[t]))
    BY <1>5, <1>8, <2>1
  <2>3. QED
    BY <1>2, <2>2, JoinsPeer
<1>10. QED
  BY <1>1, <1>2, <1>3, <1>4, <1>5, <1>6, <1>7, <1>8, <1>9, CreateTurn

\* The modules and the sources are numbers, and 0 is a source.
LEMMA Slots0 ==
  /\ 0 \in Source /\ 0 \notin Module
  /\ \A i \in Module : i \in Nat /\ i >= 1
  /\ \A i \in Source : i \in Nat
BY CallsAssumption DEF Module, Source

\* The sizes are stored, and the ring of source 0 is made.
LEMMA StoreSizePairs ==
  ASSUME ReadInv, CallerInv, PlaceInv, PairInv, NEW t \in Thread, StoreSize(t)
  PROVE  PlaceInv' /\ PairInv'
<1> USE DEF StoreSize, At, Goto, shared, locals, history
<1>1. \A u \in Thread \ {t} : Same(u)
  BY DEF ReadInv, Types, CallerInv, Same
<1>2. /\ pc[t] = "create size" /\ m'[t] = m[t] /\ p'[t] = p[t]
      /\ pc'[t] = "create peer"
  BY DEF ReadInv, Types
<1>3. todo[t] = << >> /\ todo'[t] = << >>
  OBVIOUS
<1>4. /\ word' = word /\ sized' = sized \cup {m[t]}
      /\ UNCHANGED <<registered, created, rx, tx, rxlock, txlock, asked>>
  OBVIOUS
<1>5. /\ m[t] \in Module /\ 0 \in Source /\ 0 \notin Module
      /\ \A i \in Module : i \in Nat /\ i >= 1
      /\ \A i \in Source : i \in Nat
  <2>1. m[t] \in Module
    BY <1>2, CallModules DEF CreatePC
  <2>2. QED
    BY <2>1, Slots0
<1>6. /\ \A d \in Module, s \in Source : ring'[d][s] = ring[d][s] \/ ring'[d][s] = "sized"
      /\ 0 \in rx[m[t]] /\ ring[m[t]][0] = "none" => ring'[m[t]][0] = "sized"
  BY <1>5 DEF ReadInv, Types
<1> HIDE DEF StoreSize, At, Goto, shared, locals, history
<1>7. p[t] = 1
  BY <1>2 DEF PlaceInv, PlaceKnows
<1>8. PlanKnows(t)'
  BY <1>3, PlansBegin DEF PlanKnows
<1>9. pc'[t] \in Loop /\ m[t] \in sized' /\ pc'[t] \notin Pairing
  BY <1>2, <1>4 DEF Loop, Pairing
<1>10. p'[t] = 1 /\ p'[t] >= 1
  <2>1. p'[t] = 1
    BY <1>2, <1>7
  <2>2. QED
    BY <2>1
<1>11. 0 \notin rx[m[t]] \/ ring'[m[t]][0] = "sized"
  <2>1. ring[m[t]][0] # "unsized"
    <3>1. 0 \notin created
      BY <1>5 DEF ReadInv, Types
    <3>2. QED
      BY <1>5, <3>1 DEF PairInv, Unsized
  <2>2. ring[m[t]][0] \in {"none", "sized", "unsized"}
    BY <1>5 DEF ReadInv, Types
  <2>3. QED
    BY <1>5, <1>6, <2>1, <2>2
<1>12. tx[0] = {}
  <2>1. 0 \notin registered
    BY <1>5 DEF ReadInv, Types
  <2>2. 0 \notin Strays
    BY CallsAssumption, Slots
  <2>3. QED
    BY <1>5, <2>1, <2>2 DEF PlaceInv, Modules
<1>13. ASSUME NEW d \in Module, NEW s \in Source, Joins(t, d, s)
       PROVE  \/ Joins(t, d, s)' \/ ring'[d][s] = "sized"
              \/ s \notin rx[d] /\ d \notin tx[s]
  <2>1. CASE m[t] = d /\ s = 0
    BY <1>11, <1>12, <2>1
  <2>2. CASE (m[t] = d /\ s # 0) \/ m[t] = s
    <3>1. (m[t] = d /\ ~(s < p'[t])) \/ (m[t] = s /\ ~(d < p'[t]))
      BY <1>5, <1>10, <2>2
    <3>2. QED
      BY <1>2, <3>1, JoinsPeer
  <2>3. QED
    BY <1>13, <2>1, <2>2 DEF Joins
<1>14. QED
  BY <1>1, <1>2, <1>3, <1>4, <1>6, <1>8, <1>9, <1>10, <1>13, CreateTurn

\* The module is created: all the peers have been passed.
LEMMA CreateReturnPairs ==
  ASSUME ReadInv, CallerInv, PlaceInv, PairInv, NEW t \in Thread, CreateReturn(t)
  PROVE  PlaceInv' /\ PairInv'
<1> USE DEF CreateReturn, At, Idle, Goto, Over, shared, locals, history
<1>1. \A u \in Thread \ {t} : Same(u)
  BY DEF ReadInv, Types, CallerInv, Same
<1>2. pc[t] = "create peer" /\ pc'[t] = "idle"
  BY DEF ReadInv, Types
<1>3. todo[t] = << >> /\ todo'[t] = << >>
  OBVIOUS
<1>4. /\ created' = created \cup {m[t]}
      /\ UNCHANGED <<registered, sized, rx, tx, rxlock, txlock, ring, asked, word>>
  OBVIOUS
<1>5. p[t] > N
  OBVIOUS
<1> HIDE DEF CreateReturn, At, Idle, Goto, Over, shared, locals, history
<1>6. /\ pc[t] \in CreatePC /\ pc[t] \in Loop /\ m[t] \in sized
      /\ pc[t] \notin Early \cup {"create rx"}
      /\ pc'[t] \notin CreatePC \cup AddPC \cup SendPC \cup Pairing \cup Early \cup Loop
      /\ pc'[t] \notin {"add between", "add rx", "add tx", "create size", "create sets", "enqueue"}
  <2>1. pc[t] \in Loop
    BY <1>2 DEF Loop
  <2>2. m[t] \in sized
    BY <2>1 DEF PlaceInv, PlaceKnows
  <2>3. QED
    BY <1>2, <2>1, <2>2 DEF Loop, CreatePC, AddPC, SendPC, Pairing, Early
<1>7. \A u \in Thread : pc[u] \in CreatePC => u = t
  BY <1>6 DEF CallerInv, OneCreator
<1>8. \A d \in Module, s \in Source : ~Joins(t, d, s)
  <2>1. SUFFICES ASSUME NEW d \in Module, NEW s \in Source PROVE ~Joins(t, d, s)
    OBVIOUS
  <2>2. d < p[t] /\ s < p[t]
    <3>1. /\ p[t] \in Nat /\ N \in Nat /\ d \in Nat /\ s \in Nat /\ d <= N /\ s <= N
      BY CallModules, Slots
    <3>2. QED
      BY <1>5, <3>1
  <2>3. QED
    BY <1>6, <2>2 DEF Joins, PassedIn, PassedOut
<1>9. PlaceInv'
  <2>1. PairTypes'
    BY <1>4 DEF PlaceInv, PairTypes
  <2>2. Modules'
    <3>1. Modules
      BY DEF PlaceInv
    <3>2. \A i \in registered \ created : i = m[t]
      BY <1>7, <3>1 DEF Modules
    <3>3. QED
      BY <1>4, <1>6, <3>1, <3>2 DEF Modules
  <2>3. PlanKnows(t)' /\ PlaceKnows(t)' /\ HoldsLocks(t)'
    BY <1>3, <1>6, PlansBegin DEF PlanKnows, PlaceKnows, HoldsLocks
  <2>4. \A u \in Thread \ {t} : PlanKnows(u)' /\ PlaceKnows(u)' /\ HoldsLocks(u)'
    <3>1. /\ created \subseteq created' /\ sized \subseteq sized'
          /\ \A i \in Module, u \in Thread \ {t} : rxlock[i] = u => rxlock'[i] = u
          /\ \A i \in Module, u \in Thread \ {t} : txlock[i] = u => txlock'[i] = u
      BY <1>4
    <3>2. QED
      BY <1>1, <3>1, OthersPlaced
  <2>5. QED
    BY <2>1, <2>2, <2>3, <2>4 DEF PlaceInv
<1>10. Unsized' /\ KnownMade' /\ AskedMade'
  <2>1. \A d \in created' \ created, s \in Source : ring[d][s] # "unsized"
    <3>1. SUFFICES ASSUME NEW s \in Source, ring[m[t]][s] = "unsized" PROVE FALSE
      BY <1>4
    <3>2. m[t] \in registered /\ m[t] \in Module
      BY <1>6, CallModules
    <3>3. /\ s \in created
          /\ \/ Ahead(m[t], s)
             \/ \E u \in Thread : pc[u] = "create rx" /\ Busy(u, m[t], s)
      BY <3>1, <3>2 DEF PairInv, Unsized
    <3>4. s \in registered
      BY <3>3 DEF ReadInv, Types
    <3>5. ~Ahead(m[t], s)
      BY <1>7, <1>8, <3>2, <3>4 DEF Ahead, Joins
    <3>6. ~\E u \in Thread : pc[u] = "create rx" /\ Busy(u, m[t], s)
      BY <1>6, <1>7 DEF CreatePC
    <3>7. QED
      BY <3>3, <3>5, <3>6
  <2>2. Unsized /\ KnownMade /\ AskedMade
    BY DEF PairInv
  <2>3. \A d \in Module, s \in Source : ~Adds(t, d, s)
    BY <1>2 DEF Adds, AddPC
  <2>4. /\ \A d \in Module, s \in Source :
             <<d, s>> \in asked /\ d \in created /\ s \in created /\ Adds(t, d, s) =>
               Adds(t, d, s)' \/ s \in rx[d] \/ d \in tx[s] \/ ring'[d][s] = "sized"
        /\ \A d \in Module, s \in Source :
             d # s /\ Joins(t, d, s) /\ {d, s} \subseteq registered \cup {0} =>
               \/ Joins(t, d, s)' \/ ring'[d][s] = "sized"
               \/ Busy(t, d, s)' /\ (m[t] = d => pc'[t] = "create rx")
               \/ s \notin rx[d] /\ d \notin tx[s]
    BY <1>8, <2>3
  <2>5. /\ created \subseteq created' /\ registered' = registered /\ rx' = rx /\ tx' = tx
        /\ \A i \in Module \ created : rxlock[i] # None => rxlock'[i] = rxlock[i]
        /\ \A d \in Module, s \in Source : ring'[d][s] = ring[d][s] \/ ring'[d][s] = "sized"
        /\ \A d \in Module, s \in Source : <<d, s>> \in asked' =>
             \/ <<d, s>> \in asked
             \/ d # s /\ d \in created' /\ s \in created' /\ Adds(t, d, s)'
    BY <1>4
  <2>6. QED
    BY <1>1, <1>3, <1>6, <2>1, <2>2, <2>4, <2>5, PairsTurned
<1>11. \A u \in Thread : MadeFirst(u)' /\ BitFirst(u)'
  <2>1. \A u \in Thread \ {t} : MadeFirst(u)' /\ BitFirst(u)'
    BY <1>1, <1>4, OthersFirst
  <2>2. MadeFirst(t)' /\ BitFirst(t)'
    BY <1>6 DEF MadeFirst, BitFirst
  <2>3. QED
    BY <2>1, <2>2
<1>12. QED
  BY <1>9, <1>10, <1>11 DEF PairInv
-----------------------------------------------------------------------------
(* FastQAddSet.                                                            *)

\* A step between two plans keeps both invariants, if who comes past a pair has
\* found its bit or makes its ring.
LEMMA AddTurn ==
  ASSUME ReadInv, CallerInv, PlaceInv, PairInv, NEW t \in Thread,
         \A u \in Thread \ {t} : Same(u),
         pc[t] \in AddPC \cup {"idle"}, pc'[t] \in AddPC \cup {"idle"},
         pc'[t] \in AddPC => m'[t] \in created,
         pc'[t] \in Pairing \cup {"add between"} => p'[t] # m'[t],
         todo[t] = << >>, PlanKnows(t)', HoldsLocks(t)',
         todo'[t] = << >> \/ Head(todo'[t]) \in {"load rx", "load tx"},
         word' = word, UNCHANGED <<registered, created, sized, rx, tx, ring>>,
         rxlock' = [i \in Module |-> rxlock'[i]], txlock' = [i \in Module |-> txlock'[i]],
         \A i \in Module, u \in Thread \ {t} : rxlock[i] = u => rxlock'[i] = u,
         \A i \in Module, u \in Thread \ {t} : txlock[i] = u => txlock'[i] = u,
         \A i \in Module \ created : rxlock'[i] = rxlock[i],
         asked' \subseteq Module \X Source,
         \A d \in Module, s \in Source : <<d, s>> \in asked' =>
           \/ <<d, s>> \in asked
           \/ d # s /\ d \in created' /\ s \in created' /\ Adds(t, d, s)',
         \A d \in Module, s \in Source :
           d # s /\ d \in created /\ s \in created /\ Adds(t, d, s) =>
             Adds(t, d, s)' \/ s \in rx[d] \/ d \in tx[s]
  PROVE  PlaceInv' /\ PairInv'
<1>1. /\ pc[t] \notin CreatePC /\ pc'[t] \notin CreatePC
      /\ pc[t] \notin Early /\ pc'[t] \notin Early \cup {"create size"} \cup Loop \cup SendPC
  BY DEF AddPC, CreatePC, Early, Loop, SendPC
<1>2. PlaceInv'
  <2>1. PairTypes'
    BY DEF PlaceInv, PairTypes
  <2>2. PlaceKnows(t)'
    BY <1>1 DEF PlaceKnows
  <2>3. /\ \A i \in Module \ registered : rx'[i] = rx[i]
        /\ \A i \in Source \ (registered \cup Strays) : tx'[i] = tx[i]
    OBVIOUS
  <2>4. QED
    BY <1>1, <2>1, <2>2, <2>3, PlaceKept
<1>3. Unsized' /\ KnownMade' /\ AskedMade'
  <2>1. \A d \in Module, s \in Source : ~Joins(t, d, s)
    BY <1>1 DEF Joins
  <2>2. Unsized /\ KnownMade /\ AskedMade
    BY DEF PairInv
  <2>3. todo'[t] = << >> \/ Head(todo'[t]) \notin {"store rx", "store tx"}
    OBVIOUS
  <2>4. \A d \in Module, s \in Source \ Strays :
          <<d, s>> \in asked /\ d \in created /\ s \in created /\ Adds(t, d, s) =>
            Adds(t, d, s)' \/ s \in rx[d] \/ d \in tx[s] \/ ring'[d][s] = "sized"
    <3>1. \A d \in Module, s \in Source \ Strays : <<d, s>> \in asked => d # s
      BY <2>2 DEF AskedMade
    <3>2. SUFFICES ASSUME NEW d \in Module, NEW s \in Source \ Strays, <<d, s>> \in asked,
                          d \in created, s \in created, Adds(t, d, s)
                   PROVE  Adds(t, d, s)' \/ s \in rx[d] \/ d \in tx[s]
      OBVIOUS
    <3>3. d # s
      BY <3>1, <3>2
    <3>4. QED
      BY <3>2, <3>3
  <2>5. \A d \in Module, s \in Source :
          d # s /\ Joins(t, d, s) /\ {d, s} \subseteq registered \cup {0} =>
            \/ Joins(t, d, s)' \/ ring'[d][s] = "sized"
            \/ Busy(t, d, s)' /\ (m[t] = d => pc'[t] = "create rx")
            \/ s \notin rx[d] /\ d \notin tx[s]
    BY <2>1
  <2>6. /\ \A i \in Module \ created : rxlock[i] # None => rxlock'[i] = rxlock[i]
        /\ \A d \in Module, s \in Source : ring'[d][s] = ring[d][s] \/ ring'[d][s] = "sized"
        /\ \A d \in created' \ created, s \in Source : ring[d][s] # "unsized"
        /\ created \subseteq created'
    OBVIOUS
  <2>7. QED
    BY <1>1, <2>2, <2>3, <2>4, <2>5, <2>6, PairsTurned
<1>4. \A u \in Thread : MadeFirst(u)' /\ BitFirst(u)'
  <2>1. \A u \in Thread \ {t} : MadeFirst(u)' /\ BitFirst(u)'
    BY OthersFirst
  <2>2. MadeFirst(t)' /\ BitFirst(t)'
    BY <1>1 DEF MadeFirst, BitFirst, SendPC, Doing
  <2>3. QED
    BY <2>1, <2>2
<1>5. QED
  BY <1>2, <1>3, <1>4 DEF PairInv

\* Where FastQAddSet turns to a peer, and where it is between the two rings.
TurnPC == {"add spin", "add peer"}
BetweenPC == {"add rx", "add between"}

\* FastQAddSet has a pair before it where it turns to a peer, ...
LEMMA AddsPeer ==
  ASSUME NEW t \in Thread, NEW d, NEW s, pc'[t] \in TurnPC,
         \/ m'[t] = d /\ s \in rxarg'[t] /\ (s > p'[t] \/ s = p'[t])
         \/ m'[t] = s /\ d \in txarg'[t] /\ (d > p'[t] \/ d = p'[t])
  PROVE  Adds(t, d, s)'
<1>1. pc'[t] \in AddPC /\ pc'[t] # "add tx" /\ pc'[t] \in {"add spin", "add peer"}
  BY DEF AddPC, TurnPC
<1>2. QED
  BY <1>1 DEF Adds

\* ... between the two rings, ...
LEMMA AddsRx ==
  ASSUME NEW t \in Thread, NEW d, NEW s, pc'[t] \in BetweenPC,
         \/ m'[t] = d /\ s \in rxarg'[t] /\ s > p'[t]
         \/ m'[t] = s /\ d \in txarg'[t] /\ (d > p'[t] \/ d = p'[t])
  PROVE  Adds(t, d, s)'
<1>1. pc'[t] \in AddPC /\ pc'[t] # "add tx"
  BY DEF AddPC, BetweenPC
<1>2. QED
  BY <1>1 DEF Adds

\* ... and at the second.
LEMMA AddsTx ==
  ASSUME NEW t \in Thread, NEW d, NEW s, pc'[t] = "add tx",
         \/ m'[t] = d /\ s \in rxarg'[t] /\ s > p'[t]
         \/ m'[t] = s /\ d \in txarg'[t] /\ d > p'[t]
  PROVE  Adds(t, d, s)'
<1>1. pc'[t] \in AddPC
  BY DEF AddPC
<1>2. QED
  BY <1>1 DEF Adds

\* FastQAddSet is called.
LEMMA CallAddSetPairs ==
  ASSUME ReadInv, CallerInv, PlaceInv, PairInv, NEW t \in Thread,
         NEW i \in Module, NEW rxset \in Sets, NEW txset \in AddTxSets,
         CallAddSet(t, i, rxset, txset)
  PROVE  PlaceInv' /\ PairInv'
<1> USE DEF CallAddSet, At, Goto, shared, locals, history
<1>1. \A u \in Thread \ {t} : Same(u)
  BY DEF ReadInv, Types, CallerInv, Same
<1>2. pc[t] = "idle" /\ pc'[t] = "add spin"
  BY DEF ReadInv, Types
<1>3. todo[t] = << >> /\ todo'[t] = << >>
  BY <1>2 DEF ReadInv, CallKnows, Working
<1>4. /\ m'[t] = i /\ p'[t] = 1 /\ i \in created
      /\ rxarg'[t] = rxset /\ txarg'[t] = txset
  BY DEF ReadInv, Types, CallerInv
<1>5. /\ word' = word
      /\ UNCHANGED <<registered, created, sized, rx, tx, rxlock, txlock, ring>>
  OBVIOUS
<1>6. asked' = asked \cup ({i} \X ((rxset \cap created) \ {i}))
                     \cup (((txset \cap created) \ {i}) \X {i})
  OBVIOUS
<1> HIDE DEF CallAddSet, At, Goto, shared, locals, history
<1>7. PlanKnows(t)' /\ HoldsLocks(t)'
  BY <1>2, <1>3, PlansBegin DEF PlanKnows, HoldsLocks
<1>8. created \subseteq Module /\ created \subseteq Source
  BY Slots DEF ReadInv, Types
<1>9. /\ pc[t] \in AddPC \cup {"idle"} /\ pc'[t] \in AddPC \cup {"idle"}
      /\ pc'[t] \notin Pairing \cup {"add between"}
      /\ \A d \in Module, s \in Source : ~Adds(t, d, s)
  BY <1>2 DEF AddPC, Pairing, Adds
<1>10. ASSUME NEW d \in Module, NEW s \in Source, <<d, s>> \in asked', <<d, s>> \notin asked
       PROVE  d # s /\ d \in created' /\ s \in created' /\ Adds(t, d, s)'
  <2>1. \/ d = i /\ s \in rxset /\ s \in created /\ s # i
        \/ s = i /\ d \in txset /\ d \in created /\ d # i
    BY <1>6, <1>10
  <2>2. s \in created /\ d \in created /\ d # s
    BY <1>4, <2>1
  <2>3. \/ m'[t] = d /\ s \in rxarg'[t] /\ (s > p'[t] \/ s = p'[t])
        \/ m'[t] = s /\ d \in txarg'[t] /\ (d > p'[t] \/ d = p'[t])
    <3>1. \A j \in Module : j > 1 \/ j = 1
      BY Slots0
    <3>2. QED
      BY <1>4, <1>8, <2>1, <2>2, <3>1
  <2>4. pc'[t] \in TurnPC
    BY <1>2 DEF TurnPC
  <2>5. Adds(t, d, s)'
    BY <2>3, <2>4, AddsPeer
  <2>6. QED
    BY <1>5, <2>2, <2>5
<1>11. asked' \subseteq Module \X Source
  <2>1. asked \subseteq Module \X Source
    BY DEF PlaceInv, PairTypes
  <2>2. QED
    BY <1>4, <1>6, <1>8, <2>1
<1>12. rxlock' = [j \in Module |-> rxlock'[j]] /\ txlock' = [j \in Module |-> txlock'[j]]
  BY <1>5 DEF PlaceInv, PairTypes
<1>13. QED
  BY <1>1, <1>2, <1>3, <1>4, <1>5, <1>7, <1>9, <1>10, <1>11, <1>12, AddTurn

\* The compare-and-exchange of the status.
LEMMA AddModifyPairs ==
  ASSUME ReadInv, CallerInv, PlaceInv, PairInv, NEW t \in Thread, AddModify(t)
  PROVE  PlaceInv' /\ PairInv'
<1> USE DEF AddModify, At, Goto, shared, locals, history
<1>1. \A u \in Thread \ {t} : Same(u)
  BY DEF ReadInv, Types, CallerInv, Same
<1>2. pc[t] = "add spin" /\ pc'[t] = "add peer"
  BY DEF ReadInv, Types
<1>3. todo[t] = << >> /\ todo'[t] = << >>
  OBVIOUS
<1>4. m' = m /\ p' = p /\ rxarg' = rxarg /\ txarg' = txarg
  OBVIOUS
<1>5. /\ word' = word
      /\ UNCHANGED <<registered, created, sized, rx, tx, rxlock, txlock, ring, asked>>
  OBVIOUS
<1> HIDE DEF AddModify, At, Goto, shared, locals, history
<1>6. PlanKnows(t)' /\ HoldsLocks(t)'
  BY <1>2, <1>3, PlansBegin DEF PlanKnows, HoldsLocks
<1>7. /\ pc[t] \in AddPC /\ pc'[t] \in AddPC
      /\ pc'[t] \notin Pairing \cup {"add between"}
  BY <1>2 DEF AddPC, Pairing
<1>8. m[t] \in created
  BY <1>7 DEF PlaceInv, PlaceKnows
<1>9. ASSUME NEW d \in Module, NEW s \in Source, Adds(t, d, s)
      PROVE  Adds(t, d, s)'
  <2>1. \/ m[t] = d /\ s \in rxarg[t] /\ (s > p[t] \/ s = p[t])
        \/ m[t] = s /\ d \in txarg[t] /\ (d > p[t] \/ d = p[t])
    BY <1>9 DEF Adds
  <2>2. \/ m'[t] = d /\ s \in rxarg'[t] /\ (s > p'[t] \/ s = p'[t])
        \/ m'[t] = s /\ d \in txarg'[t] /\ (d > p'[t] \/ d = p'[t])
    BY <1>4, <2>1
  <2>3. pc'[t] \in TurnPC
    BY <1>2 DEF TurnPC
  <2>4. QED
    BY <2>2, <2>3, AddsPeer
<1>10. /\ rxlock' = [j \in Module |-> rxlock'[j]] /\ txlock' = [j \in Module |-> txlock'[j]]
       /\ asked' \subseteq Module \X Source
  BY <1>5 DEF PlaceInv, PairTypes
<1>11. QED
  BY <1>1, <1>3, <1>4, <1>5, <1>6, <1>7, <1>8, <1>9, <1>10, AddTurn

\* The peer is passed over, or taken with the lock of the receiver.
LEMMA AddInwardPairs ==
  ASSUME ReadInv, CallerInv, PlaceInv, PairInv, NEW t \in Thread, AddInward(t)
  PROVE  PlaceInv' /\ PairInv'
<1> DEFINE plan == RxSet \o <<"lock tx">> \o TxSet \o <<"unlock tx">> \o Ring
<1> USE DEF AddInward, AddPeer, At, Goto, Advance, Over, shared, locals, history
<1>1. \A u \in Thread \ {t} : Same(u)
  BY DEF ReadInv, Types, CallerInv, Same
<1>2. pc[t] = "add peer"
  OBVIOUS
<1>3. todo[t] = << >>
  OBVIOUS
<1>4. m' = m /\ rxarg' = rxarg /\ txarg' = txarg
  OBVIOUS
<1>5. /\ word' = word
      /\ UNCHANGED <<registered, created, sized, rx, tx, txlock, ring, asked>>
  OBVIOUS
<1>6. \/ /\ p[t] = m[t] \/ p[t] \notin registered
         /\ p'[t] = p[t] + 1 /\ pc'[t] = "add peer"
      \/ p[t] # m[t] /\ p'[t] = p[t] /\ pc'[t] = "add rx"
  BY DEF ReadInv, Types
<1>7. /\ pc'[t] = "add peer" => todo'[t] = << >> /\ rxlock' = rxlock
      /\ pc'[t] = "add rx" =>
           /\ todo'[t] = IF p[t] \in rxarg[t] \ rx[m[t]] THEN plan ELSE << >>
           /\ Free(rxlock[m[t]], t) /\ rxlock' = [rxlock EXCEPT ![m[t]] = t]
  BY DEF ReadInv, Types
<1> HIDE DEF AddInward, AddPeer, At, Goto, Advance, Over, shared, locals, history
<1>8. /\ pc[t] \in AddPC /\ pc'[t] \in AddPC
      /\ pc'[t] \in Pairing \cup {"add between"} => pc'[t] = "add rx"
  BY <1>2, <1>6 DEF AddPC, Pairing
<1>9. m[t] \in created /\ m[t] \in Module
  BY <1>8, CallModules DEF PlaceInv, PlaceKnows
<1>10. /\ rxlock' = [j \in Module |-> rxlock'[j]] /\ txlock' = [j \in Module |-> txlock'[j]]
       /\ asked' \subseteq Module \X Source
  BY <1>5, <1>6, <1>7 DEF PlaceInv, PairTypes
<1>11. /\ pc'[t] = "add rx" => rxlock'[m[t]] = t
       /\ \A i \in Module : rxlock'[i] = rxlock[i] \/ (i = m[t] /\ rxlock[i] \in {None, t})
  BY <1>6, <1>7, <1>9 DEF PlaceInv, PairTypes, Free
<1>12. todo'[t] = << >> \/ Head(todo'[t]) = "load rx"
  BY <1>6, <1>7, PlanHeads
<1>13. PlanKnows(t)' /\ HoldsLocks(t)'
  <2>1. PlanKnows(t)'
    BY <1>6, <1>7, PlansBegin DEF PlanKnows
  <2>2. HoldsLocks(t)'
    BY <1>4, <1>6, <1>11, <1>12 DEF HoldsLocks, TxOps
  <2>3. QED
    BY <2>1, <2>2
<1>14. /\ \A i \in Module, u \in Thread \ {t} : rxlock[i] = u => rxlock'[i] = u
       /\ \A i \in Module \ created : rxlock'[i] = rxlock[i]
  BY <1>9, <1>11, CallsAssumption
<1>15. ASSUME NEW d \in Module, NEW s \in Source, d # s, d \in created, s \in created,
              Adds(t, d, s)
       PROVE  Adds(t, d, s)' \/ s \in rx[d]
  <2>1. \/ m[t] = d /\ s \in rxarg[t] /\ (s > p[t] \/ s = p[t])
        \/ m[t] = s /\ d \in txarg[t] /\ (d > p[t] \/ d = p[t])
    BY <1>15 DEF Adds
  <2>2. CASE pc'[t] = "add peer"
    <3>1. (p[t] = m[t] \/ p[t] \notin registered) /\ p'[t] = p[t] + 1
      BY <1>6, <2>2
    <3>2. s \in registered /\ d \in registered
      BY <1>15 DEF ReadInv, Types
    <3>3. \/ m[t] = d /\ s \in rxarg[t] /\ s > p[t]
          \/ m[t] = s /\ d \in txarg[t] /\ d > p[t]
      BY <1>15, <2>1, <3>1, <3>2
    <3>4. s \in Nat /\ d \in Nat /\ p[t] \in Nat
      BY Slots0, CallModules
    <3>5. \/ m'[t] = d /\ s \in rxarg'[t] /\ (s > p'[t] \/ s = p'[t])
          \/ m'[t] = s /\ d \in txarg'[t] /\ (d > p'[t] \/ d = p'[t])
      BY <1>4, <3>1, <3>3, <3>4
    <3>6. pc'[t] \in TurnPC
      BY <2>2 DEF TurnPC
    <3>7. QED
      BY <3>5, <3>6, AddsPeer
  <2>3. CASE pc'[t] = "add rx"
    <3>1. p'[t] = p[t]
      BY <1>6, <2>3
    <3>2. CASE m[t] = d /\ s \in rxarg[t] /\ s = p[t]
      <4>1. s \in rx[d] \/ todo'[t] = plan
        BY <1>7, <2>3, <3>2
      <4>2. s \in rx[d] \/ Busy(t, d, s)'
        BY <1>4, <2>3, <3>1, <3>2, <4>1, PlanHeads DEF Busy, Pairing, Dst, Src, Inward
      <4>3. Busy(t, d, s)' => Adds(t, d, s)'
        BY <1>4, <1>8, <3>1, <3>2 DEF Adds
      <4>4. QED
        BY <4>2, <4>3
    <3>3. CASE \/ m[t] = d /\ s \in rxarg[t] /\ s > p[t]
               \/ m[t] = s /\ d \in txarg[t] /\ (d > p[t] \/ d = p[t])
      <4>1. \/ m'[t] = d /\ s \in rxarg'[t] /\ s > p'[t]
            \/ m'[t] = s /\ d \in txarg'[t] /\ (d > p'[t] \/ d = p'[t])
        BY <1>4, <3>1, <3>3
      <4>2. pc'[t] \in BetweenPC
        BY <2>3 DEF BetweenPC
      <4>3. QED
        BY <4>1, <4>2, AddsRx
    <3>4. QED
      BY <2>1, <3>2, <3>3
  <2>4. QED
    BY <1>6, <2>2, <2>3
<1>16. pc'[t] \in Pairing \cup {"add between"} => p'[t] # m'[t]
  BY <1>4, <1>6, <1>8
<1>17. QED
  BY <1>1, <1>3, <1>4, <1>5, <1>8, <1>9, <1>10, <1>12, <1>13, <1>14, <1>15, <1>16, AddTurn

\* The lock of the receiver is released.
LEMMA AddUnlockRxPairs ==
  ASSUME ReadInv, CallerInv, PlaceInv, PairInv, NEW t \in Thread, AddUnlockRx(t)
  PROVE  PlaceInv' /\ PairInv'
<1> USE DEF AddUnlockRx, At, Goto, shared, locals, history
<1>1. \A u \in Thread \ {t} : Same(u)
  BY DEF ReadInv, Types, CallerInv, Same
<1>2. pc[t] = "add rx" /\ pc'[t] = "add between"
  BY DEF ReadInv, Types
<1>3. todo[t] = << >> /\ todo'[t] = << >>
  OBVIOUS
<1>4. m' = m /\ p' = p /\ rxarg' = rxarg /\ txarg' = txarg
  OBVIOUS
<1>5. /\ word' = word /\ rxlock' = [rxlock EXCEPT ![m[t]] = None]
      /\ UNCHANGED <<registered, created, sized, rx, tx, txlock, ring, asked>>
  OBVIOUS
<1> HIDE DEF AddUnlockRx, At, Goto, shared, locals, history
<1>6. PlanKnows(t)' /\ HoldsLocks(t)'
  BY <1>2, <1>3, PlansBegin DEF PlanKnows, HoldsLocks
<1>7. pc[t] \in AddPC /\ pc'[t] \in AddPC /\ pc[t] \in Pairing
  BY <1>2 DEF AddPC, Pairing
<1>8. m[t] \in created /\ m[t] \in Module /\ p[t] # m[t] /\ rxlock[m[t]] = t
  BY <1>2, <1>7, CallModules DEF PlaceInv, PlaceKnows, HoldsLocks
<1>9. ASSUME NEW d \in Module, NEW s \in Source, Adds(t, d, s)
      PROVE  Adds(t, d, s)'
  <2>1. ~Busy(t, d, s)
    BY <1>3 DEF Busy
  <2>2. \/ m[t] = d /\ s \in rxarg[t] /\ s > p[t]
        \/ m[t] = s /\ d \in txarg[t] /\ (d > p[t] \/ d = p[t])
    BY <1>2, <1>9, <2>1 DEF Adds
  <2>3. \/ m'[t] = d /\ s \in rxarg'[t] /\ s > p'[t]
        \/ m'[t] = s /\ d \in txarg'[t] /\ (d > p'[t] \/ d = p'[t])
    BY <1>4, <2>2
  <2>4. pc'[t] \in BetweenPC
    BY <1>2 DEF BetweenPC
  <2>5. QED
    BY <2>3, <2>4, AddsRx
<1>10. /\ rxlock' = [j \in Module |-> rxlock'[j]] /\ txlock' = [j \in Module |-> txlock'[j]]
       /\ asked' \subseteq Module \X Source
  BY <1>5 DEF PlaceInv, PairTypes
<1>11. \A i \in Module : i # m[t] => rxlock'[i] = rxlock[i]
  BY <1>5 DEF PlaceInv, PairTypes
<1>12. /\ \A i \in Module, u \in Thread \ {t} : rxlock[i] = u => rxlock'[i] = u
       /\ \A i \in Module \ created : rxlock'[i] = rxlock[i]
  BY <1>8, <1>11
<1>13. QED
  BY <1>1, <1>3, <1>4, <1>5, <1>6, <1>7, <1>8, <1>9, <1>10, <1>12, AddTurn

\* The pair the other way round, with the lock of the sender.
LEMMA AddOutwardPairs ==
  ASSUME ReadInv, CallerInv, PlaceInv, PairInv, NEW t \in Thread, AddOutward(t)
  PROVE  PlaceInv' /\ PairInv'
<1> DEFINE plan == TxSet \o <<"lock rx">> \o RxSet \o Ring
<1> USE DEF AddOutward, At, Goto, shared, locals, history
<1>1. \A u \in Thread \ {t} : Same(u)
  BY DEF ReadInv, Types, CallerInv, Same
<1>2. pc[t] = "add between" /\ pc'[t] = "add tx"
  BY DEF ReadInv, Types
<1>3. todo[t] = << >>
  OBVIOUS
<1>4. m' = m /\ p' = p /\ rxarg' = rxarg /\ txarg' = txarg
  OBVIOUS
<1>5. /\ word' = word /\ Free(txlock[m[t]], t) /\ txlock' = [txlock EXCEPT ![m[t]] = t]
      /\ UNCHANGED <<registered, created, sized, rx, tx, rxlock, ring, asked>>
  OBVIOUS
<1>6. todo'[t] = IF p[t] \in txarg[t] \ tx[m[t]] THEN plan ELSE << >>
  BY DEF ReadInv, Types
<1> HIDE DEF AddOutward, At, Goto, shared, locals, history
<1>7. pc[t] \in AddPC /\ pc'[t] \in AddPC
  BY <1>2 DEF AddPC
<1>8. m[t] \in created /\ m[t] \in Module /\ p[t] # m[t]
  BY <1>2, <1>7, CallModules DEF PlaceInv, PlaceKnows
<1>9. todo'[t] = << >> \/ Head(todo'[t]) = "load tx"
  BY <1>6, PlanHeads
<1>10. /\ rxlock' = [j \in Module |-> rxlock'[j]] /\ txlock' = [j \in Module |-> txlock'[j]]
       /\ asked' \subseteq Module \X Source
  BY <1>5 DEF PlaceInv, PairTypes
<1>11. /\ txlock'[m[t]] = t
       /\ \A i \in Module : txlock'[i] = txlock[i] \/ (i = m[t] /\ txlock[i] \in {None, t})
  BY <1>5, <1>8 DEF PlaceInv, PairTypes, Free
<1>12. PlanKnows(t)' /\ HoldsLocks(t)'
  <2>1. PlanKnows(t)'
    BY <1>2, <1>6, PlansBegin DEF PlanKnows
  <2>2. HoldsLocks(t)'
    BY <1>2, <1>4, <1>9, <1>11 DEF HoldsLocks, RxOps
  <2>3. QED
    BY <2>1, <2>2
<1>13. \A i \in Module, u \in Thread \ {t} : txlock[i] = u => txlock'[i] = u
  BY <1>11, CallsAssumption
<1>14. ASSUME NEW d \in Module, NEW s \in Source, Adds(t, d, s)
       PROVE  Adds(t, d, s)' \/ d \in tx[s]
  <2>1. ~Busy(t, d, s)
    BY <1>3 DEF Busy
  <2>2. \/ m[t] = d /\ s \in rxarg[t] /\ s > p[t]
        \/ m[t] = s /\ d \in txarg[t] /\ d > p[t]
        \/ m[t] = s /\ d \in txarg[t] /\ d = p[t]
    BY <1>2, <1>14, <2>1 DEF Adds
  <2>3. CASE \/ m[t] = d /\ s \in rxarg[t] /\ s > p[t]
             \/ m[t] = s /\ d \in txarg[t] /\ d > p[t]
    <3>1. \/ m'[t] = d /\ s \in rxarg'[t] /\ s > p'[t]
          \/ m'[t] = s /\ d \in txarg'[t] /\ d > p'[t]
      BY <1>4, <2>3
    <3>2. QED
      BY <1>2, <3>1, AddsTx
  <2>4. CASE m[t] = s /\ d \in txarg[t] /\ d = p[t]
    <3>1. d \in tx[s] \/ todo'[t] = plan
      BY <1>6, <2>4
    <3>2. d \in tx[s] \/ Busy(t, d, s)'
      BY <1>2, <1>4, <2>4, <3>1, PlanHeads DEF Busy, Pairing, Dst, Src, Inward
    <3>3. Busy(t, d, s)' => Adds(t, d, s)'
      BY <1>4, <1>7, <2>4 DEF Adds
    <3>4. QED
      BY <3>2, <3>3
  <2>5. QED
    BY <2>2, <2>3, <2>4
<1>15. QED
  BY <1>1, <1>3, <1>4, <1>5, <1>7, <1>8, <1>9, <1>10, <1>12, <1>13, <1>14, AddTurn

\* The lock of the sender is released, and the next peer taken.
LEMMA AddUnlockTxPairs ==
  ASSUME ReadInv, CallerInv, PlaceInv, PairInv, NEW t \in Thread, AddUnlockTx(t)
  PROVE  PlaceInv' /\ PairInv'
<1> USE DEF AddUnlockTx, At, Goto, Advance, shared, locals, history
<1>1. \A u \in Thread \ {t} : Same(u)
  BY DEF ReadInv, Types, CallerInv, Same
<1>2. pc[t] = "add tx" /\ pc'[t] = "add peer"
  BY DEF ReadInv, Types
<1>3. todo[t] = << >> /\ todo'[t] = << >>
  OBVIOUS
<1>4. m' = m /\ rxarg' = rxarg /\ txarg' = txarg
  OBVIOUS
<1>5. /\ word' = word /\ txlock' = [txlock EXCEPT ![m[t]] = None]
      /\ UNCHANGED <<registered, created, sized, rx, tx, rxlock, ring, asked>>
  OBVIOUS
<1>6. p' = [p EXCEPT ![t] = @ + 1]
  OBVIOUS
<1> HIDE DEF AddUnlockTx, At, Goto, Advance, shared, locals, history
<1>7. p'[t] = p[t] + 1
  BY <1>6 DEF ReadInv, Types
<1>8. PlanKnows(t)' /\ HoldsLocks(t)'
  BY <1>2, <1>3, PlansBegin DEF PlanKnows, HoldsLocks
<1>9. /\ pc[t] \in AddPC /\ pc'[t] \in AddPC
      /\ pc'[t] \notin Pairing \cup {"add between"}
  BY <1>2 DEF AddPC, Pairing
<1>10. m[t] \in created /\ m[t] \in Module /\ txlock[m[t]] = t
  BY <1>2, <1>9, CallModules DEF PlaceInv, PlaceKnows, HoldsLocks
<1>11. ASSUME NEW d \in Module, NEW s \in Source, Adds(t, d, s)
       PROVE  Adds(t, d, s)'
  <2>1. ~Busy(t, d, s)
    BY <1>3 DEF Busy
  <2>2. \/ m[t] = d /\ s \in rxarg[t] /\ s > p[t]
        \/ m[t] = s /\ d \in txarg[t] /\ d > p[t]
    BY <1>2, <1>11, <2>1 DEF Adds
  <2>3. s \in Nat /\ d \in Nat /\ p[t] \in Nat
    BY Slots0, CallModules
  <2>4. \/ m'[t] = d /\ s \in rxarg'[t] /\ (s > p'[t] \/ s = p'[t])
        \/ m'[t] = s /\ d \in txarg'[t] /\ (d > p'[t] \/ d = p'[t])
    BY <1>4, <1>7, <2>2, <2>3
  <2>5. pc'[t] \in TurnPC
    BY <1>2 DEF TurnPC
  <2>6. QED
    BY <2>4, <2>5, AddsPeer
<1>12. /\ rxlock' = [j \in Module |-> rxlock'[j]] /\ txlock' = [j \in Module |-> txlock'[j]]
       /\ asked' \subseteq Module \X Source
  BY <1>5 DEF PlaceInv, PairTypes
<1>13. \A i \in Module : i # m[t] => txlock'[i] = txlock[i]
  BY <1>5 DEF PlaceInv, PairTypes
<1>14. \A i \in Module, u \in Thread \ {t} : txlock[i] = u => txlock'[i] = u
  BY <1>10, <1>13
<1>15. QED
  BY <1>1, <1>3, <1>4, <1>5, <1>8, <1>9, <1>10, <1>11, <1>12, <1>14, AddTurn

\* FastQAddSet returns: all the peers have been passed.
LEMMA AddReturnPairs ==
  ASSUME ReadInv, CallerInv, PlaceInv, PairInv, NEW t \in Thread, AddReturn(t)
  PROVE  PlaceInv' /\ PairInv'
<1> USE DEF AddReturn, At, Idle, Goto, Over, shared, locals, history
<1>1. \A u \in Thread \ {t} : Same(u)
  BY DEF ReadInv, Types, CallerInv, Same
<1>2. pc[t] = "add peer" /\ pc'[t] = "idle"
  BY DEF ReadInv, Types
<1>3. todo[t] = << >> /\ todo'[t] = << >>
  OBVIOUS
<1>4. p[t] > N
  OBVIOUS
<1>5. /\ word' = word
      /\ UNCHANGED <<registered, created, sized, rx, tx, rxlock, txlock, ring, asked>>
  OBVIOUS
<1> HIDE DEF AddReturn, At, Idle, Goto, Over, shared, locals, history
<1>6. PlanKnows(t)' /\ HoldsLocks(t)'
  BY <1>2, <1>3, PlansBegin DEF PlanKnows, HoldsLocks
<1>7. /\ pc[t] \in AddPC /\ pc'[t] \notin AddPC
      /\ pc'[t] \notin Pairing \cup {"add between"}
  BY <1>2 DEF AddPC, Pairing
<1>8. \A d \in Module, s \in Source : ~Adds(t, d, s)
  <2>1. SUFFICES ASSUME NEW d \in Module, NEW s \in Source, Adds(t, d, s) PROVE FALSE
    OBVIOUS
  <2>2. s > p[t] \/ s = p[t] \/ d > p[t] \/ d = p[t]
    BY <2>1 DEF Adds
  <2>3. /\ p[t] \in Nat /\ N \in Nat /\ d \in Nat /\ s \in Nat /\ d <= N /\ s <= N
    BY CallModules, Slots
  <2>4. QED
    BY <1>4, <2>2, <2>3
<1>9. /\ rxlock' = [j \in Module |-> rxlock'[j]] /\ txlock' = [j \in Module |-> txlock'[j]]
      /\ asked' \subseteq Module \X Source
  BY <1>5 DEF PlaceInv, PairTypes
<1>10. QED
  BY <1>1, <1>2, <1>3, <1>5, <1>6, <1>7, <1>8, <1>9, AddTurn
-----------------------------------------------------------------------------
(* The first steps of FastQCreateModule.                                   *)

\* A step that makes no ring and does nothing for a pair keeps what the
\* invariant says of the pairs, if it takes no creation and no bit away, and
\* if every pair that is new, or in an argument no more, is ahead and stays.
LEMMA PairsCarried ==
  ASSUME Unsized, KnownMade, AskedMade, NEW t \in Thread,
         \A u \in Thread \ {t} : Same(u),
         created' = created, ring' = ring, todo[t] = << >>, pc[t] \notin AddPC,
         \A d \in Module, s \in Source : Ahead(d, s) => Ahead(d, s)',
         \A d \in Module, s \in Source : RxStays(d, s) => RxStays(d, s)',
         \A d \in Module, s \in Source \ Strays : TxStays(d, s) => TxStays(d, s)',
         \A d \in Module, s \in Source \ Strays : Known(d, s)' =>
           Known(d, s) \/ (Ahead(d, s)' /\ (RxStays(d, s)' \/ TxStays(d, s)')),
         \A d \in Module, s \in Source : <<d, s>> \in asked' =>
           <<d, s>> \in asked \/ (d # s /\ Declares(t, d, s)'),
         \A d \in Module, s \in Source \ Strays : Declares(t, d, s) =>
           Declares(t, d, s)' \/ (Ahead(d, s)' /\ (RxStays(d, s)' \/ TxStays(d, s)'))
  PROVE  Unsized' /\ KnownMade' /\ AskedMade'
<1>1. \A d \in Module, s \in Source : ~Busy(t, d, s) /\ ~Adds(t, d, s)
  BY DEF Busy, Adds
<1>2. \A d \in Module, s \in Source : AtWork(d, s) => AtWork(d, s)'
  <2>1. SUFFICES ASSUME NEW d \in Module, NEW s \in Source, NEW u \in Thread, Busy(u, d, s)
                 PROVE  AtWork(d, s)'
    BY DEF AtWork
  <2>2. u # t
    BY <1>1, <2>1
  <2>3. Busy(u, d, s)'
    BY <2>1, <2>2, SameActs
  <2>4. QED
    BY <2>3 DEF AtWork
<1>3. KnownMade'
  <2>1. SUFFICES ASSUME NEW d \in Module, NEW s \in Source \ Strays, d # s, Known(d, s)'
                 PROVE  \/ ring'[d][s] = "sized" \/ AtWork(d, s)'
                        \/ Ahead(d, s)' /\ (RxStays(d, s)' \/ TxStays(d, s)')
    BY DEF KnownMade
  <2>2. \/ Known(d, s)
        \/ Ahead(d, s)' /\ (RxStays(d, s)' \/ TxStays(d, s)')
    BY <2>1
  <2>3. ASSUME Known(d, s)
        PROVE  \/ ring[d][s] = "sized" \/ AtWork(d, s)
               \/ Ahead(d, s) /\ (RxStays(d, s) \/ TxStays(d, s))
    BY <2>1, <2>3 DEF KnownMade
  <2>4. QED
    BY <1>2, <2>2, <2>3
<1>4. AskedMade'
  <2>1. SUFFICES ASSUME NEW d \in Module, NEW s \in Source \ Strays, <<d, s>> \in asked'
                 PROVE  /\ d # s
                        /\ \/ ring'[d][s] = "sized" \/ AtWork(d, s)'
                           \/ Ahead(d, s)' /\ (RxStays(d, s)' \/ TxStays(d, s)')
                           \/ \E u \in Thread : Declares(u, d, s)'
                           \/ /\ d \in created' /\ s \in created'
                              /\ \E u \in Thread : Adds(u, d, s)'
    BY DEF AskedMade
  <2>2. CASE <<d, s>> \notin asked
    BY <2>1, <2>2
  <2>3. CASE <<d, s>> \in asked
    <3>1. /\ d # s
          /\ \/ ring[d][s] = "sized" \/ AtWork(d, s)
             \/ Ahead(d, s) /\ (RxStays(d, s) \/ TxStays(d, s))
             \/ \E u \in Thread : Declares(u, d, s)
             \/ d \in created /\ s \in created /\ \E u \in Thread : Adds(u, d, s)
      BY <2>3 DEF AskedMade
    <3>2. ASSUME NEW u \in Thread, Declares(u, d, s)
          PROVE  \/ Declares(u, d, s)'
                 \/ Ahead(d, s)' /\ (RxStays(d, s)' \/ TxStays(d, s)')
      <4>1. CASE u = t
        BY <3>2, <4>1
      <4>2. CASE u # t
        BY <3>2, <4>2, SameActs
      <4>3. QED
        BY <4>1, <4>2
    <3>3. ASSUME NEW u \in Thread, Adds(u, d, s) PROVE Adds(u, d, s)'
      <4>1. u # t
        BY <1>1, <3>3
      <4>2. QED
        BY <3>3, <4>1, SameActs
    <3>4. QED
      BY <1>2, <3>1, <3>2, <3>3
  <2>4. QED
    BY <2>2, <2>3
<1>5. Unsized'
  <2>1. SUFFICES ASSUME NEW d \in Module, NEW s \in Source, ring'[d][s] = "unsized"
                 PROVE  /\ d # s /\ d \notin created' /\ s \in created' /\ RxStays(d, s)'
                        /\ \/ Ahead(d, s)'
                           \/ \E u \in Thread : pc'[u] = "create rx" /\ Busy(u, d, s)'
    BY DEF Unsized
  <2>2. /\ d # s /\ d \notin created /\ s \in created /\ RxStays(d, s)
        /\ Ahead(d, s) \/ \E u \in Thread : pc[u] = "create rx" /\ Busy(u, d, s)
    BY <2>1 DEF Unsized
  <2>3. ASSUME NEW u \in Thread, pc[u] = "create rx", Busy(u, d, s)
        PROVE  \E v \in Thread : pc'[v] = "create rx" /\ Busy(v, d, s)'
    <3>1. u # t
      BY <1>1, <2>3
    <3>2. pc'[u] = "create rx" /\ Busy(u, d, s)'
      BY <2>3, <3>1, SameActs DEF Same
    <3>3. QED
      BY <3>2
  <2>4. QED
    BY <2>2, <2>3
<1>6. QED
  BY <1>3, <1>4, <1>5

\* Nobody works on a set of a module whose lock is free while that module's
\* sets are still to be copied.
LEMMA NobodyHolds ==
  ASSUME ReadInv, CallerInv, PlaceInv, NEW t \in Thread, pc[t] \in Early, NEW u \in Thread
  PROVE  /\ Free(rxlock[m[t]], t) => /\ ~RxHeld(u, m[t])
                                     /\ ~(pc[u] = "add tx" /\ Doing(u, "ring") /\ p[u] = m[t])
         /\ Free(txlock[m[t]], t) /\ m[t] \notin Strays => ~TxHeld(u, m[t])
<1> DEFINE c == m[t]
<1>1. c \notin created /\ pc[t] \in CreatePC
  BY NotCreated DEF Early, CreatePC
<1>2. ASSUME u = t PROVE todo[u] = << >>
  BY <1>2, CallModules DEF Early, Pairing
<1>3. ASSUME u # t PROVE pc[u] \notin CreatePC
  BY <1>1, <1>3 DEF CallerInv, OneCreator
<1>4. u # None
  BY CallsAssumption
<1>5. PlaceKnows(u) /\ HoldsLocks(u)
  BY DEF PlaceInv
<1>6. ASSUME todo[u] # << >>, u # t PROVE pc[u] \in {"add rx", "add tx", "enqueue"}
  BY <1>3, <1>6, CallModules DEF Pairing, CreatePC
<1>7. ASSUME Free(rxlock[c], t), u # t, todo[u] # << >>, Head(todo[u]) \in RxOps,
             pc[u] = "add tx", p[u] = c
      PROVE  FALSE
  <2>1. rxlock[c] = u
    BY <1>5, <1>7 DEF HoldsLocks
  <2>2. QED
    BY <1>4, <1>7, <2>1 DEF Free
<1>8. ASSUME Free(txlock[c], t), u # t, todo[u] # << >>, Head(todo[u]) \in TxOps,
             pc[u] = "add rx", p[u] = c
      PROVE  FALSE
  <2>1. txlock[c] = u
    BY <1>5, <1>8 DEF HoldsLocks
  <2>2. QED
    BY <1>4, <1>8, <2>1 DEF Free
<1>9. ASSUME Free(rxlock[c], t), RxHeld(u, c) PROVE FALSE
  <2>1. todo[u] # << >> /\ Head(todo[u]) \in RxOps /\ Dst(u) = c /\ u # t
    BY <1>2, <1>9 DEF RxHeld, Doing, RxOps
  <2>2. CASE pc[u] = "add rx"
    BY <1>1, <1>5, <2>1, <2>2 DEF PlaceKnows, AddPC, Dst, Inward
  <2>3. CASE pc[u] = "enqueue"
    BY <1>1, <1>5, <2>1, <2>3 DEF PlaceKnows, SendPC, Dst, Inward
  <2>4. CASE pc[u] = "add tx"
    BY <1>7, <1>9, <2>1, <2>4 DEF Dst, Inward
  <2>5. QED
    BY <1>6, <2>1, <2>2, <2>3, <2>4
<1>10. ASSUME Free(txlock[c], t), c \notin Strays, TxHeld(u, c) PROVE FALSE
  <2>1. todo[u] # << >> /\ Head(todo[u]) \in TxOps /\ Src(u) = c /\ u # t
    BY <1>2, <1>10 DEF TxHeld, Doing, TxOps
  <2>2. CASE pc[u] = "add tx"
    BY <1>1, <1>5, <2>1, <2>2 DEF PlaceKnows, AddPC, Src, Inward
  <2>3. CASE pc[u] = "enqueue"
    BY <1>1, <1>5, <1>10, <2>1, <2>3 DEF PlaceKnows, SendPC, Src, Inward
  <2>4. CASE pc[u] = "add rx"
    BY <1>8, <1>10, <2>1, <2>4 DEF Src, Inward
  <2>5. QED
    BY <1>6, <2>1, <2>2, <2>3, <2>4
<1>11. ASSUME Free(rxlock[c], t), pc[u] = "add tx", Doing(u, "ring"), p[u] = c PROVE FALSE
  BY <1>2, <1>7, <1>11 DEF Doing, RxOps
<1>12. QED
  BY <1>9, <1>10, <1>11

\* A creation begins: all pairs of the module are ahead of it.
LEMMA CallCreatePairs ==
  ASSUME ReadInv, CallerInv, PlaceInv, PairInv, NEW t \in Thread,
         NEW i \in Module, NEW rxset \in Sets, NEW txset \in Sets,
         CallCreate(t, i, rxset, txset)
  PROVE  PlaceInv' /\ PairInv'
<1> USE DEF CallCreate, Goto
<1>1. \A u \in Thread \ {t} : Same(u)
  BY DEF ReadInv, Types, CallerInv, Same
<1>2. /\ pc[t] = "idle" /\ pc'[t] = "create sets" /\ m'[t] = i /\ p'[t] = 1
      /\ rxarg'[t] = rxset /\ txarg'[t] = txset
  BY DEF ReadInv, Types, CallerInv
<1>3. todo[t] = << >> /\ todo'[t] = << >>
  BY CallModules DEF Pairing
<1>4. /\ registered = created /\ registered' = registered \cup {i} /\ i \notin registered
      /\ asked' = asked \cup {<<i, s>> : s \in rxset \ {i}}
                        \cup {<<d, i>> : d \in (txset \cap Module) \ {i}}
      /\ UNCHANGED <<created, sized, rx, tx, rxlock, txlock, ring, word>>
  OBVIOUS
<1> HIDE DEF CallCreate, Goto
<1>5. i \in Source /\ rx[i] = {} /\ (i \notin Strays => tx[i] = {})
  BY <1>4, Slots DEF PlaceInv, Modules
<1>6. /\ pc[t] \notin CreatePC \cup AddPC \cup Early
      /\ pc'[t] \in CreatePC /\ pc'[t] \in Early /\ pc'[t] \notin Loop
      /\ pc'[t] \notin AddPC \cup SendPC \cup Pairing \cup {"add between", "add rx", "add tx"}
  BY <1>2 DEF CreatePC, AddPC, Early, Loop, SendPC, Pairing
<1>7. PlaceInv'
  <2>1. PairTypes'
    <3>1. {<<d, i>> : d \in (txset \cap Module) \ {i}} \subseteq Module \X Source
      BY <1>5
    <3>2. {<<i, s>> : s \in rxset \ {i}} \subseteq Module \X Source
      BY CallsAssumption
    <3>3. QED
      BY <1>4, <3>1, <3>2 DEF PlaceInv, PairTypes
  <2>2. Modules'
    BY <1>2, <1>4, <1>6 DEF PlaceInv, Modules
  <2>3. PlanKnows(t)' /\ PlaceKnows(t)' /\ HoldsLocks(t)'
    BY <1>2, <1>3, <1>6, PlansBegin DEF PlanKnows, PlaceKnows, HoldsLocks
  <2>4. \A u \in Thread \ {t} : PlanKnows(u)' /\ PlaceKnows(u)' /\ HoldsLocks(u)'
    <3>1. /\ created \subseteq created' /\ sized \subseteq sized'
          /\ \A j \in Module, u \in Thread \ {t} : rxlock[j] = u => rxlock'[j] = u
          /\ \A j \in Module, u \in Thread \ {t} : txlock[j] = u => txlock'[j] = u
      BY <1>4
    <3>2. QED
      BY <1>1, <3>1, OthersPlaced
  <2>5. QED
    BY <2>1, <2>2, <2>3, <2>4 DEF PlaceInv
<1>8. \A d, s : ~RxHeld(t, d)' /\ ~TxHeld(t, s)' /\ ~Joins(t, d, s) /\ ~Declares(t, d, s)
  BY <1>3, <1>6, <1>2 DEF RxHeld, TxHeld, Doing, Joins, Declares, Early
<1>9. \A d \in Module, s \in Source : Ahead(d, s) => Ahead(d, s)'
  <2>1. SUFFICES ASSUME NEW d \in Module, NEW s \in Source, Ahead(d, s)
                 PROVE  Ahead(d, s)'
    OBVIOUS
  <2>2. CASE d = i \/ s = i
    <3>1. Joins(t, d, s)'
      BY <1>2, <1>6, <2>2 DEF Joins, PassedIn, PassedOut
    <3>2. QED
      BY <3>1 DEF Ahead
  <2>3. CASE ~(d = i \/ s = i)
    <3>1. CASE ~({d, s} \subseteq registered \cup {0})
      BY <1>4, <2>3, <3>1 DEF Ahead
    <3>2. ASSUME NEW u \in Thread, Joins(u, d, s) PROVE Joins(u, d, s)'
      <4>1. u # t
        BY <1>8, <3>2
      <4>2. QED
        BY <1>1, <3>2, <4>1, SameActs
    <3>3. QED
      BY <2>1, <3>1, <3>2 DEF Ahead
  <2>4. QED
    BY <2>2, <2>3
<1>10. \A d \in Module, s \in Source : RxStays(d, s) => RxStays(d, s)'
  <2>1. SUFFICES ASSUME NEW d \in Module, NEW s \in Source, RxStays(d, s)
                 PROVE  RxStays(d, s)'
    OBVIOUS
  <2>2. d # i
    BY <1>5, <2>1 DEF RxStays
  <2>3. \A u \in Thread : RxHeld(u, d)' => s \in word'[u]
    <3>1. SUFFICES ASSUME NEW u \in Thread \ {t}, RxHeld(u, d)' PROVE s \in word'[u]
      BY <1>8
    <3>2. RxHeld(u, d)
      BY <1>1, <3>1, SameActs
    <3>3. QED
      BY <1>4, <2>1, <3>2 DEF RxStays
  <2>4. \A u \in Thread : pc'[u] = "create sets" /\ m'[u] = d => ~Free(rxlock'[d], u)
    BY <1>1, <1>2, <1>4, <2>1, <2>2 DEF Same, RxStays
  <2>5. QED
    BY <1>4, <2>1, <2>3, <2>4 DEF RxStays, Free
<1>11. \A d \in Module, s \in Source \ Strays : TxStays(d, s) => TxStays(d, s)'
  <2>1. SUFFICES ASSUME NEW d \in Module, NEW s \in Source \ Strays, TxStays(d, s)
                 PROVE  TxStays(d, s)'
    OBVIOUS
  <2>2. s # i
    BY <1>5, <2>1 DEF TxStays
  <2>3. \A u \in Thread : TxHeld(u, s)' => d \in word'[u]
    <3>1. SUFFICES ASSUME NEW u \in Thread \ {t}, TxHeld(u, s)' PROVE d \in word'[u]
      BY <1>8
    <3>2. TxHeld(u, s)
      BY <1>1, <3>1, SameActs
    <3>3. QED
      BY <1>4, <2>1, <3>2 DEF TxStays
  <2>4. \A u \in Thread : pc'[u] \in Early => m'[u] # s
    BY <1>1, <1>2, <2>1, <2>2 DEF Same, TxStays
  <2>5. QED
    BY <1>4, <2>1, <2>3, <2>4 DEF TxStays
<1>12. \A d \in Module, s \in Source : Known(d, s)' => Known(d, s)
  <2>1. SUFFICES ASSUME NEW d \in Module, NEW s \in Source, Known(d, s)'
                 PROVE  Known(d, s)
    OBVIOUS
  <2>2. \A u \in Thread : RxHeld(u, d)' => RxHeld(u, d)
    BY <1>1, <1>8, SameActs
  <2>3. \A u \in Thread : TxHeld(u, s)' => TxHeld(u, s)
    BY <1>1, <1>8, SameActs
  <2>4. QED
    BY <1>4, <2>1, <2>2, <2>3 DEF Known
<1>13. \A d \in Module, s \in Source : <<d, s>> \in asked' =>
         <<d, s>> \in asked \/ (d # s /\ Declares(t, d, s)')
  <2>1. SUFFICES ASSUME NEW d \in Module, NEW s \in Source,
                        <<d, s>> \in asked', <<d, s>> \notin asked
                 PROVE  d # s /\ Declares(t, d, s)'
    OBVIOUS
  <2>2. (d = i /\ s \in rxset \ {i}) \/ (s = i /\ d \in txset \ {i})
    BY <1>4, <2>1
  <2>3. QED
    BY <1>2, <1>6, <2>2 DEF Declares
<1>14. Unsized /\ KnownMade /\ AskedMade
  BY DEF PairInv
<1>15. Unsized' /\ KnownMade' /\ AskedMade'
  <2>1. \A d \in Module, s \in Source : Known(d, s)' =>
          Known(d, s) \/ (Ahead(d, s)' /\ (RxStays(d, s)' \/ TxStays(d, s)'))
    BY <1>12
  <2>2. \A d \in Module, s \in Source : Declares(t, d, s) =>
          Declares(t, d, s)' \/ (Ahead(d, s)' /\ (RxStays(d, s)' \/ TxStays(d, s)'))
    BY <1>8
  <2>3. created' = created /\ ring' = ring /\ pc[t] \notin AddPC
    BY <1>4, <1>6
  <2>4. QED
    BY <1>1, <1>3, <1>9, <1>10, <1>11, <1>13, <1>14, <2>1, <2>2, <2>3, PairsCarried
<1>16. \A u \in Thread : MadeFirst(u)' /\ BitFirst(u)'
  <2>1. \A u \in Thread \ {t} : MadeFirst(u)' /\ BitFirst(u)'
    BY <1>1, <1>4, OthersFirst
  <2>2. MadeFirst(t)' /\ BitFirst(t)'
    BY <1>2 DEF MadeFirst, BitFirst
  <2>3. QED
    BY <2>1, <2>2
<1>17. QED
  BY <1>7, <1>15, <1>16 DEF PairInv

\* rx.set is copied: the pairs it declares are there to stay.
LEMMA CopyRxPairs ==
  ASSUME ReadInv, CallerInv, PlaceInv, PairInv, NEW t \in Thread, CopyRx(t)
  PROVE  PlaceInv' /\ PairInv'
<1> USE DEF CopyRx, At, Goto, locals, history
<1>1. \A u \in Thread \ {t} : Same(u)
  BY DEF ReadInv, Types, CallerInv, Same
<1>2. /\ pc[t] = "create sets" /\ pc'[t] = "create tx set"
      /\ todo[t] = << >> /\ todo'[t] = << >>
      /\ m'[t] = m[t] /\ p'[t] = p[t] /\ rxarg'[t] = rxarg[t] /\ txarg'[t] = txarg[t]
  BY DEF ReadInv, Types
<1>3. Free(rxlock[m[t]], t)
  OBVIOUS
<1>4. rx' = [rx EXCEPT ![m[t]] = rxarg[t]]
  OBVIOUS
<1>5. UNCHANGED <<registered, created, sized, tx, rxlock, txlock, ring, word, asked>>
  OBVIOUS
<1> HIDE DEF CopyRx, At, Goto, locals, history
<1>6. /\ pc[t] \in CreatePC /\ pc[t] \in Early /\ pc[t] \notin AddPC \cup Loop
      /\ pc'[t] \in CreatePC /\ pc'[t] \in Early
      /\ pc'[t] \notin Loop \cup AddPC \cup SendPC \cup Pairing
      /\ pc'[t] \notin {"add between", "add rx", "add tx", "enqueue", "create sets"}
  BY <1>2 DEF CreatePC, AddPC, Early, Loop, SendPC, Pairing
<1>7. m[t] \in registered /\ m[t] \in Module
  BY <1>6, CallModules
<1>8. /\ rx'[m[t]] = rxarg[t]
      /\ \A d \in Module : d # m[t] => rx'[d] = rx[d]
  BY <1>4, <1>7 DEF PlaceInv, PairTypes
<1>9. \A u \in Thread : /\ ~RxHeld(u, m[t])
                        /\ ~(pc[u] = "add tx" /\ Doing(u, "ring") /\ p[u] = m[t])
  BY <1>3, <1>6, NobodyHolds
<1>10. \A d, s : ~RxHeld(t, d)' /\ ~TxHeld(t, s)'
  BY <1>2 DEF RxHeld, TxHeld, Doing
<1>11. PlaceInv'
  <2>1. PairTypes'
    BY <1>4, <1>5 DEF PlaceInv, PairTypes
  <2>2. PlanKnows(t)' /\ PlaceKnows(t)' /\ HoldsLocks(t)'
    <3>1. PlanKnows(t)' /\ HoldsLocks(t)'
      BY <1>2, <1>6, PlansBegin DEF PlanKnows, HoldsLocks
    <3>2. p[t] = 1
      BY <1>6 DEF PlaceInv, PlaceKnows
    <3>3. PlaceKnows(t)'
      BY <1>2, <1>6, <3>2 DEF PlaceKnows
    <3>4. QED
      BY <3>1, <3>3
  <2>3. /\ \A i \in Module, u \in Thread \ {t} : rxlock[i] = u => rxlock'[i] = u
        /\ \A i \in Module, u \in Thread \ {t} : txlock[i] = u => txlock'[i] = u
        /\ \A i \in Module \ registered : rx'[i] = rx[i]
        /\ \A i \in Source \ (registered \cup Strays) : tx'[i] = tx[i]
    BY <1>5, <1>7, <1>8
  <2>4. /\ registered' = registered /\ created' = created /\ sized \subseteq sized'
        /\ pc[t] \in CreatePC => pc'[t] \in CreatePC /\ m'[t] = m[t]
    BY <1>2, <1>5, <1>6
  <2>5. QED
    BY <1>1, <2>1, <2>2, <2>3, <2>4, PlaceKept
<1>12. \A d \in Module, s \in Source : Ahead(d, s) => Ahead(d, s)'
  <2>1. \A d \in Module, s \in Source, u \in Thread : Joins(u, d, s) => Joins(u, d, s)'
    <3>1. SUFFICES ASSUME NEW d \in Module, NEW s \in Source, NEW u \in Thread,
                          Joins(u, d, s)
                   PROVE  Joins(u, d, s)'
      OBVIOUS
    <3>2. CASE u = t
      BY <1>2, <1>6, <3>1, <3>2 DEF Joins, PassedIn, PassedOut
    <3>3. CASE u # t
      BY <1>1, <3>1, <3>3, SameActs
    <3>4. QED
      BY <3>2, <3>3
  <2>2. QED
    BY <1>5, <2>1 DEF Ahead
<1>13. \A d \in Module, s \in Source : RxStays(d, s) => RxStays(d, s)'
  <2>1. SUFFICES ASSUME NEW d \in Module, NEW s \in Source, RxStays(d, s)
                 PROVE  RxStays(d, s)'
    OBVIOUS
  <2>2. d # m[t]
    BY <1>2, <1>3, <2>1 DEF RxStays
  <2>3. s \in rx'[d]
    BY <1>8, <2>1, <2>2 DEF RxStays
  <2>4. QED
    BY <1>1, <1>5, <1>6, <1>10, <2>1, <2>3, RxStill
<1>14. \A d \in Module, s \in Source : TxStays(d, s) => TxStays(d, s)'
  <2>1. SUFFICES ASSUME NEW d \in Module, NEW s \in Source, TxStays(d, s)
                 PROVE  TxStays(d, s)'
    OBVIOUS
  <2>2. \A u \in Thread : TxHeld(u, s)' => d \in word'[u]
    <3>1. SUFFICES ASSUME NEW u \in Thread \ {t}, TxHeld(u, s)' PROVE d \in word'[u]
      BY <1>10
    <3>2. TxHeld(u, s)
      BY <1>1, <3>1, SameActs
    <3>3. QED
      BY <1>5, <2>1, <3>2 DEF TxStays
  <2>3. \A u \in Thread : pc'[u] \in Early => m'[u] # s
    BY <1>1, <1>2, <1>6, <2>1 DEF Same, TxStays
  <2>4. QED
    BY <1>5, <2>1, <2>2, <2>3 DEF TxStays
<1>15. \A d \in Module, s \in Source : d = m[t] /\ s \in rxarg[t] =>
         Ahead(d, s)' /\ RxStays(d, s)'
  <2>1. SUFFICES ASSUME NEW d \in Module, NEW s \in Source, d = m[t], s \in rxarg[t]
                 PROVE  Ahead(d, s)' /\ RxStays(d, s)'
    OBVIOUS
  <2>2. Joins(t, d, s)'
    BY <1>2, <1>6, <2>1 DEF Joins, PassedIn
  <2>3. Ahead(d, s)'
    BY <2>2 DEF Ahead
  <2>4. \A u \in Thread : ~RxHeld(u, d)'
    <3>1. SUFFICES ASSUME NEW u \in Thread \ {t}, RxHeld(u, d)' PROVE FALSE
      BY <1>10
    <3>2. RxHeld(u, d)
      BY <1>1, <3>1, SameActs
    <3>3. QED
      BY <1>9, <2>1, <3>2
  <2>5. \A u \in Thread : ~(pc'[u] = "create sets" /\ m'[u] = d)
    <3>1. SUFFICES ASSUME NEW u \in Thread \ {t}, pc'[u] = "create sets" PROVE FALSE
      BY <1>6
    <3>2. pc[u] \in CreatePC
      BY <1>1, <3>1 DEF Same, CreatePC
    <3>3. QED
      BY <1>6, <3>2 DEF CallerInv, OneCreator
  <2>6. s \in rx'[d]
    BY <1>8, <2>1
  <2>7. RxStays(d, s)'
    BY <2>4, <2>5, <2>6 DEF RxStays
  <2>8. QED
    BY <2>3, <2>7
<1>16. \A d \in Module, s \in Source : Known(d, s)' =>
         Known(d, s) \/ (Ahead(d, s)' /\ (RxStays(d, s)' \/ TxStays(d, s)'))
  <2>1. SUFFICES ASSUME NEW d \in Module, NEW s \in Source, Known(d, s)'
                 PROVE  Known(d, s) \/ (Ahead(d, s)' /\ (RxStays(d, s)' \/ TxStays(d, s)'))
    OBVIOUS
  <2>2. \A u \in Thread : RxHeld(u, d)' => RxHeld(u, d)
    BY <1>1, <1>10, SameActs
  <2>3. \A u \in Thread : TxHeld(u, s)' => TxHeld(u, s)
    BY <1>1, <1>10, SameActs
  <2>4. CASE d = m[t] /\ s \in rx'[d]
    BY <1>8, <1>15, <2>4
  <2>5. CASE ~(d = m[t] /\ s \in rx'[d])
    <3>1. s \in rx'[d] => s \in rx[d]
      BY <1>8, <2>5
    <3>2. QED
      BY <1>5, <2>1, <2>2, <2>3, <3>1 DEF Known
  <2>6. QED
    BY <2>4, <2>5
<1>17. \A d \in Module, s \in Source : Declares(t, d, s) =>
         Declares(t, d, s)' \/ (Ahead(d, s)' /\ (RxStays(d, s)' \/ TxStays(d, s)'))
  BY <1>2, <1>6, <1>15 DEF Declares
<1>18. Unsized /\ KnownMade /\ AskedMade
  BY DEF PairInv
<1>19. Unsized' /\ KnownMade' /\ AskedMade'
  <2>1. created' = created /\ ring' = ring /\ pc[t] \notin AddPC /\ todo[t] = << >>
    BY <1>2, <1>5, <1>6
  <2>2. \A d \in Module, s \in Source : <<d, s>> \in asked' =>
          <<d, s>> \in asked \/ (d # s /\ Declares(t, d, s)')
    BY <1>5
  <2>3. QED
    BY <1>1, <1>12, <1>13, <1>14, <1>16, <1>17, <1>18, <2>1, <2>2, PairsCarried
<1>20. \A u \in Thread : MadeFirst(u)' /\ BitFirst(u)'
  <2>1. \A u \in Thread \ {t} : pc[u] = "add tx" /\ Doing(u, "ring") /\ p[u] \notin sized
          /\ m[u] \in rx[p[u]] => m[u] \in rx'[p[u]]
    <3>1. SUFFICES ASSUME NEW u \in Thread \ {t}, pc[u] = "add tx", Doing(u, "ring"),
                          m[u] \in rx[p[u]]
                   PROVE  m[u] \in rx'[p[u]]
      OBVIOUS
    <3>2. p[u] # m[t]
      BY <1>9, <3>1
    <3>3. p[u] \in Module
      BY <3>1, CallModules DEF Pairing
    <3>4. QED
      BY <1>8, <3>1, <3>2, <3>3
  <2>2. \A u \in Thread \ {t} : MadeFirst(u)' /\ BitFirst(u)'
    BY <1>1, <1>5, <2>1, OthersFirst
  <2>3. MadeFirst(t)' /\ BitFirst(t)'
    BY <1>6 DEF MadeFirst, BitFirst
  <2>4. QED
    BY <2>2, <2>3
<1>21. QED
  BY <1>11, <1>19, <1>20 DEF PairInv

\* tx.set is copied: the pairs it declares are there to stay as well.
LEMMA CopyTxPairs ==
  ASSUME ReadInv, CallerInv, PlaceInv, PairInv, NEW t \in Thread, CopyTx(t)
  PROVE  PlaceInv' /\ PairInv'
<1> USE DEF CopyTx, At, Goto, locals, history
<1>1. \A u \in Thread \ {t} : Same(u)
  BY DEF ReadInv, Types, CallerInv, Same
<1>2. /\ pc[t] = "create tx set" /\ pc'[t] = "create size"
      /\ todo[t] = << >> /\ todo'[t] = << >>
      /\ m'[t] = m[t] /\ p'[t] = p[t] /\ rxarg'[t] = rxarg[t] /\ txarg'[t] = txarg[t]
  BY DEF ReadInv, Types
<1>3. Free(txlock[m[t]], t)
  OBVIOUS
<1>4. tx' = [tx EXCEPT ![m[t]] = txarg[t]]
  OBVIOUS
<1>5. UNCHANGED <<registered, created, sized, rx, rxlock, txlock, ring, word, asked>>
  OBVIOUS
<1> HIDE DEF CopyTx, At, Goto, locals, history
<1>6. /\ pc[t] \in CreatePC /\ pc[t] \in Early /\ pc[t] \notin AddPC \cup Loop
      /\ pc'[t] \in CreatePC /\ pc'[t] \in Early \cup {"create size"}
      /\ pc'[t] \notin Early \cup Loop \cup AddPC \cup SendPC \cup Pairing
      /\ pc'[t] \notin {"add between", "add rx", "add tx", "enqueue", "create sets"}
  BY <1>2 DEF CreatePC, AddPC, Early, Loop, SendPC, Pairing
<1>7. m[t] \in registered /\ m[t] \in Module /\ m[t] \in Source
  BY <1>6, CallModules, Slots
<1>8. /\ tx'[m[t]] = txarg[t]
      /\ \A s \in Source : s # m[t] => tx'[s] = tx[s]
  BY <1>4, <1>7 DEF PlaceInv, PairTypes
<1>9. m[t] \notin Strays => \A u \in Thread : ~TxHeld(u, m[t])
  BY <1>3, <1>6, NobodyHolds
<1>10. \A d, s : ~RxHeld(t, d)' /\ ~TxHeld(t, s)'
  BY <1>2 DEF RxHeld, TxHeld, Doing
<1>11. PlaceInv'
  <2>1. PairTypes'
    BY <1>4, <1>5 DEF PlaceInv, PairTypes
  <2>2. PlanKnows(t)' /\ PlaceKnows(t)' /\ HoldsLocks(t)'
    <3>1. PlanKnows(t)' /\ HoldsLocks(t)'
      BY <1>2, <1>6, PlansBegin DEF PlanKnows, HoldsLocks
    <3>2. p[t] = 1
      BY <1>6 DEF PlaceInv, PlaceKnows
    <3>3. PlaceKnows(t)'
      BY <1>2, <1>6, <3>2 DEF PlaceKnows
    <3>4. QED
      BY <3>1, <3>3
  <2>3. /\ \A i \in Module, u \in Thread \ {t} : rxlock[i] = u => rxlock'[i] = u
        /\ \A i \in Module, u \in Thread \ {t} : txlock[i] = u => txlock'[i] = u
        /\ \A i \in Module \ registered : rx'[i] = rx[i]
        /\ \A i \in Source \ (registered \cup Strays) : tx'[i] = tx[i]
    BY <1>5, <1>7, <1>8
  <2>4. /\ registered' = registered /\ created' = created /\ sized \subseteq sized'
        /\ pc[t] \in CreatePC => pc'[t] \in CreatePC /\ m'[t] = m[t]
    BY <1>2, <1>5, <1>6
  <2>5. QED
    BY <1>1, <2>1, <2>2, <2>3, <2>4, PlaceKept
<1>12. \A d \in Module, s \in Source : Ahead(d, s) => Ahead(d, s)'
  <2>1. \A d \in Module, s \in Source, u \in Thread : Joins(u, d, s) => Joins(u, d, s)'
    <3>1. SUFFICES ASSUME NEW d \in Module, NEW s \in Source, NEW u \in Thread,
                          Joins(u, d, s)
                   PROVE  Joins(u, d, s)'
      OBVIOUS
    <3>2. CASE u = t
      BY <1>2, <1>6, <3>1, <3>2 DEF Joins, PassedIn, PassedOut
    <3>3. CASE u # t
      BY <1>1, <3>1, <3>3, SameActs
    <3>4. QED
      BY <3>2, <3>3
  <2>2. QED
    BY <1>5, <2>1 DEF Ahead
<1>13. \A d \in Module, s \in Source : RxStays(d, s) => RxStays(d, s)'
  <2>1. SUFFICES ASSUME NEW d \in Module, NEW s \in Source, RxStays(d, s)
                 PROVE  RxStays(d, s)'
    OBVIOUS
  <2>2. s \in rx'[d]
    BY <1>5, <2>1 DEF RxStays
  <2>3. QED
    BY <1>1, <1>5, <1>6, <1>10, <2>1, <2>2, RxStill
<1>14. \A d \in Module, s \in Source : TxStays(d, s) => TxStays(d, s)'
  <2>1. SUFFICES ASSUME NEW d \in Module, NEW s \in Source, TxStays(d, s)
                 PROVE  TxStays(d, s)'
    OBVIOUS
  <2>2. s # m[t]
    BY <1>6, <2>1 DEF TxStays
  <2>3. d \in tx'[s]
    BY <1>8, <2>1, <2>2 DEF TxStays
  <2>4. QED
    BY <1>1, <1>6, <1>10, <2>1, <2>3, TxStill
<1>15. \A d \in Module, s \in Source \ Strays : s = m[t] /\ d \in txarg[t] =>
         Ahead(d, s)' /\ TxStays(d, s)'
  <2>1. SUFFICES ASSUME NEW d \in Module, NEW s \in Source \ Strays, s = m[t], d \in txarg[t]
                 PROVE  Ahead(d, s)' /\ TxStays(d, s)'
    OBVIOUS
  <2>2. Joins(t, d, s)'
    BY <1>2, <1>6, <2>1 DEF Joins, PassedOut
  <2>3. Ahead(d, s)'
    BY <2>2 DEF Ahead
  <2>4. \A u \in Thread : ~TxHeld(u, s)'
    <3>1. SUFFICES ASSUME NEW u \in Thread \ {t}, TxHeld(u, s)' PROVE FALSE
      BY <1>10
    <3>2. TxHeld(u, s)
      BY <1>1, <3>1, SameActs
    <3>3. QED
      BY <1>9, <2>1, <3>2
  <2>5. \A u \in Thread : pc'[u] \in Early => m'[u] # s
    <3>1. SUFFICES ASSUME NEW u \in Thread \ {t}, pc'[u] \in Early PROVE FALSE
      BY <1>6
    <3>2. pc[u] \in CreatePC
      BY <1>1, <3>1 DEF Same, CreatePC, Early
    <3>3. QED
      BY <1>6, <3>2 DEF CallerInv, OneCreator
  <2>6. d \in tx'[s]
    BY <1>8, <2>1
  <2>7. TxStays(d, s)'
    BY <2>4, <2>5, <2>6 DEF TxStays
  <2>8. QED
    BY <2>3, <2>7
<1>16. \A d \in Module, s \in Source \ Strays : Known(d, s)' =>
         Known(d, s) \/ (Ahead(d, s)' /\ (RxStays(d, s)' \/ TxStays(d, s)'))
  <2>1. SUFFICES ASSUME NEW d \in Module, NEW s \in Source \ Strays, Known(d, s)'
                 PROVE  Known(d, s) \/ (Ahead(d, s)' /\ (RxStays(d, s)' \/ TxStays(d, s)'))
    OBVIOUS
  <2>2. \A u \in Thread : RxHeld(u, d)' => RxHeld(u, d)
    BY <1>1, <1>10, SameActs
  <2>3. \A u \in Thread : TxHeld(u, s)' => TxHeld(u, s)
    BY <1>1, <1>10, SameActs
  <2>4. CASE s = m[t] /\ d \in tx'[s]
    BY <1>8, <1>15, <2>4
  <2>5. CASE ~(s = m[t] /\ d \in tx'[s])
    <3>1. d \in tx'[s] => d \in tx[s]
      BY <1>8, <2>5
    <3>2. QED
      BY <1>5, <2>1, <2>2, <2>3, <3>1 DEF Known
  <2>6. QED
    BY <2>4, <2>5
<1>17. \A d \in Module, s \in Source \ Strays : Declares(t, d, s) =>
         Declares(t, d, s)' \/ (Ahead(d, s)' /\ (RxStays(d, s)' \/ TxStays(d, s)'))
  BY <1>2, <1>6, <1>15 DEF Declares, Early
<1>18. Unsized /\ KnownMade /\ AskedMade
  BY DEF PairInv
<1>19. Unsized' /\ KnownMade' /\ AskedMade'
  <2>1. created' = created /\ ring' = ring /\ pc[t] \notin AddPC /\ todo[t] = << >>
    BY <1>2, <1>5, <1>6
  <2>2. \A d \in Module, s \in Source : <<d, s>> \in asked' =>
          <<d, s>> \in asked \/ (d # s /\ Declares(t, d, s)')
    BY <1>5
  <2>3. QED
    BY <1>1, <1>12, <1>13, <1>14, <1>16, <1>17, <1>18, <2>1, <2>2, PairsCarried
<1>20. \A u \in Thread : MadeFirst(u)' /\ BitFirst(u)'
  <2>1. \A u \in Thread \ {t} : MadeFirst(u)' /\ BitFirst(u)'
    BY <1>1, <1>5, OthersFirst
  <2>2. MadeFirst(t)' /\ BitFirst(t)'
    BY <1>6 DEF MadeFirst, BitFirst
  <2>3. QED
    BY <2>1, <2>2
<1>21. QED
  BY <1>11, <1>19, <1>20 DEF PairInv

-----------------------------------------------------------------------------
(* The theorem.                                                            *)

\* Nothing is declared, set or made at the start.
LEMMA InitPlaceInv == Init => PlaceInv /\ PairInv
<1> SUFFICES ASSUME Init PROVE PlaceInv /\ PairInv
  OBVIOUS
<1>1. \A t \in Thread : /\ pc[t] = "idle" /\ todo[t] = << >>
  BY DEF Init
<1>2. PairTypes /\ Modules
  BY DEF Init, PairTypes, Modules
<1>3. ASSUME NEW t \in Thread PROVE PlanKnows(t) /\ PlaceKnows(t) /\ HoldsLocks(t)
  BY <1>1, PlansBegin DEF PlanKnows, PlaceKnows, HoldsLocks, AddPC, SendPC, Pairing, Early, Loop
<1>4. \A t \in Thread : MadeFirst(t) /\ BitFirst(t)
  BY <1>1 DEF MadeFirst, BitFirst
<1>5. \A d \in Module, s \in Source : ~Known(d, s) /\ ring[d][s] = "none" /\ asked = {}
  BY <1>1 DEF Init, Known, RxHeld, TxHeld, Doing
<1>6. Unsized /\ KnownMade /\ AskedMade
  BY <1>5 DEF Unsized, KnownMade, AskedMade
<1>7. QED
  BY <1>2, <1>3, <1>4, <1>6 DEF PlaceInv, PairInv

\* A stuttering step changes nothing that the invariant speaks of.
LEMMA PairStutter ==
  ASSUME PlaceInv, PairInv, UNCHANGED vars
  PROVE  PlaceInv' /\ PairInv'
<1>1. PlaceInv'
  BY DEF vars, shared, locals, history, PlaceInv, PairTypes, Modules, PlanKnows,
         PlaceKnows, HoldsLocks
<1>2. \A t \in Thread : Same(t)
  BY DEF vars, locals, Same
<1>3. \A t \in Thread : MadeFirst(t)' /\ BitFirst(t)'
  BY DEF vars, shared, locals, PairInv, MadeFirst, BitFirst, Doing
<1>4. /\ rx' = rx /\ tx' = tx /\ rxlock' = rxlock /\ registered' = registered
      /\ created' = created /\ asked' = asked /\ ring' = ring
  BY DEF vars, shared, history
<1>5. \A t \in Thread : \A d \in Module, s \in Source :
        /\ Busy(t, d, s)' <=> Busy(t, d, s)
        /\ RxHeld(t, d)' <=> RxHeld(t, d)
        /\ TxHeld(t, s)' <=> TxHeld(t, s)
        /\ Joins(t, d, s)' <=> Joins(t, d, s)
        /\ Declares(t, d, s)' <=> Declares(t, d, s)
        /\ Adds(t, d, s)' <=> Adds(t, d, s)
  BY <1>2, SameActs
<1>6. \A d \in Module, s \in Source :
        /\ RxStays(d, s)' <=> RxStays(d, s)
        /\ TxStays(d, s)' <=> TxStays(d, s)
        /\ Known(d, s)' <=> Known(d, s)
        /\ Ahead(d, s)' <=> Ahead(d, s)
        /\ AtWork(d, s)' <=> AtWork(d, s)
  <2>1. SUFFICES ASSUME NEW d \in Module, NEW s \in Source
                 PROVE  /\ RxStays(d, s)' <=> RxStays(d, s)
                        /\ TxStays(d, s)' <=> TxStays(d, s)
                        /\ Known(d, s)' <=> Known(d, s)
                        /\ Ahead(d, s)' <=> Ahead(d, s)
                        /\ AtWork(d, s)' <=> AtWork(d, s)
    OBVIOUS
  <2>2. RxStays(d, s)' <=> RxStays(d, s)
    BY <1>2, <1>4, <1>5 DEF RxStays, Free, Same
  <2>3. TxStays(d, s)' <=> TxStays(d, s)
    BY <1>2, <1>4, <1>5 DEF TxStays, Same
  <2>4. Known(d, s)' <=> Known(d, s)
    BY <1>2, <1>4, <1>5 DEF Known, Same
  <2>5. Ahead(d, s)' <=> Ahead(d, s)
    BY <1>4, <1>5 DEF Ahead
  <2>6. AtWork(d, s)' <=> AtWork(d, s)
    BY <1>5 DEF AtWork
  <2>7. QED
    BY <2>2, <2>3, <2>4, <2>5, <2>6
<1>7. Unsized'
  <2>1. Unsized
    BY DEF PairInv
  <2>2. \A t \in Thread : pc'[t] = pc[t]
    BY <1>2 DEF Same
  <2>3. QED
    BY <1>4, <1>5, <1>6, <2>1, <2>2 DEF Unsized
<1>8. KnownMade'
  BY <1>4, <1>6 DEF PairInv, KnownMade
<1>9. AskedMade'
  <2>1. AskedMade
    BY DEF PairInv
  <2>2. QED
    BY <1>4, <1>5, <1>6, <2>1 DEF AskedMade
<1>10. QED
  BY <1>1, <1>3, <1>7, <1>8, <1>9 DEF PairInv

\* Every step keeps the two invariants.
LEMMA PairInvStep ==
  ReadInv /\ CallerInv /\ PlaceInv /\ PairInv /\ [Next]_vars => PlaceInv' /\ PairInv'
<1> SUFFICES ASSUME ReadInv, CallerInv, PlaceInv, PairInv, [Next]_vars
             PROVE  PlaceInv' /\ PairInv'
  OBVIOUS
<1>1. ASSUME NEW t \in Thread, OnPair(t) PROVE PlaceInv' /\ PairInv'
  BY <1>1, LoadSetPairs, StoreSetPairs, StoreRingPairs, LockPeerPairs, UnlockPeerPairs
     DEF OnPair
<1>2. ASSUME NEW t \in Thread, Create(t) PROVE PlaceInv' /\ PairInv'
  BY <1>2, CallCreatePairs, CopyRxPairs, CopyTxPairs, StoreSizePairs, CreatePeerPairs,
     CreateOutwardPairs, CreateNextPairs, CreateReturnPairs
     DEF Create
<1>3. ASSUME NEW t \in Thread, Add(t) PROVE PlaceInv' /\ PairInv'
  BY <1>3, CallAddSetPairs, AddModifyPairs, AddInwardPairs, AddUnlockRxPairs,
     AddOutwardPairs, AddUnlockTxPairs, AddReturnPairs
     DEF Add
<1>4. ASSUME NEW t \in Thread, Send(t) PROVE PlaceInv' /\ PairInv'
  BY <1>4, CallSendPairs, FindRingPairs, SendReturnPairs DEF Send
<1>5. ASSUME NEW t \in Thread, Reader(t) PROVE PlaceInv' /\ PairInv'
  BY <1>5, CallStatPairs, CallDumpPairs, ReadPairPairs, ReadEndPairs, ReadReturnPairs
     DEF Reader
<1>6. CASE UNCHANGED vars
  BY <1>6, PairStutter
<1>7. QED
  BY <1>1, <1>2, <1>3, <1>4, <1>5, <1>6 DEF Next

\* When both modules of a pair are created nothing is ahead of it, and nobody
\* works on it but a FastQAddSet that was given it.
LEMMA NothingAhead ==
  ASSUME ReadInv, CallerInv, PlaceInv, NEW d \in Module, NEW s \in Source,
         d \in created, s \in created \cup {0}
  PROVE  /\ ~Ahead(d, s)
         /\ AtWork(d, s) => <<d, s>> \in Adding
         /\ \A t \in Thread : ~Declares(t, d, s)
         /\ \A t \in Thread : Adds(t, d, s) => <<d, s>> \in Adding
<1>1. \A t \in Thread : pc[t] \in CreatePC => m[t] \in registered \ created
  BY NotCreated
<1>2. 0 \notin registered /\ created \subseteq registered
  BY Slots DEF ReadInv, Types
<1>3. ~Ahead(d, s)
  BY <1>1, <1>2 DEF Ahead, Joins
<1>4. \A t \in Thread : ~Declares(t, d, s)
  BY <1>1, <1>2 DEF Declares, Early, CreatePC
<1>5. ASSUME NEW t \in Thread, Adds(t, d, s) PROVE <<d, s>> \in Adding
  <2>1. (m[t] = d /\ s \in rxarg[t]) \/ (m[t] = s /\ d \in txarg[t])
    BY <1>5 DEF Adds
  <2>2. <<d, s>> \in ({m[t]} \X rxarg[t]) \cup (txarg[t] \X {m[t]})
    BY <2>1
  <2>3. QED
    BY <2>2 DEF Adding
<1>6. ASSUME NEW t \in Thread, Busy(t, d, s) PROVE <<d, s>> \in Adding
  <2>1. pc[t] \in Pairing /\ todo[t] # << >> /\ Dst(t) = d /\ Src(t) = s
    BY <1>6 DEF Busy
  <2>3. CASE pc[t] \in {"create rx", "create tx"}
    <3>1. m[t] \in registered \ created
      BY <1>1, <2>3 DEF CreatePC
    <3>2. m[t] = d \/ m[t] = s
      BY <2>1 DEF Dst, Src
    <3>3. QED
      BY <1>2, <3>1, <3>2
  <2>4. CASE pc[t] \in {"add rx", "add tx"}
    <3>1. CallerKnows(t)
      BY DEF CallerInv
    <3>2. <<d, s>> \in ({m[t]} \X rxarg[t]) \cup (txarg[t] \X {m[t]})
      BY <2>1, <2>4, <3>1 DEF CallerKnows, Dst, Src, Inward
    <3>3. QED
      BY <3>2 DEF Adding
  <2>5. QED
    BY <2>1, <2>3, <2>4 DEF Pairing
<1>7. QED
  BY <1>3, <1>4, <1>5, <1>6 DEF AtWork

\* The invariants imply the property.
LEMMA NoneMissed ==
  ASSUME ReadInv, CallerInv, PlaceInv, PairInv
  PROVE  NoPairMissed
<1> SUFFICES ASSUME NEW pair \in asked \ Adding,
                    pair[1] \in created, pair[2] \in (created \cup {0}) \ Strays
             PROVE  ring[pair[1]][pair[2]] = "sized"
  BY DEF NoPairMissed
<1> DEFINE d == pair[1]
           s == pair[2]
<1>1. d \in Module /\ s \in Source \ Strays /\ pair = <<d, s>>
  BY DEF PlaceInv, PairTypes
<1>2. \/ ring[d][s] = "sized" \/ AtWork(d, s)
      \/ Ahead(d, s) /\ (RxStays(d, s) \/ TxStays(d, s))
      \/ \E t \in Thread : Declares(t, d, s)
      \/ d \in created /\ s \in created /\ \E t \in Thread : Adds(t, d, s)
  BY <1>1 DEF PairInv, AskedMade
<1> HIDE DEF d, s
<1>3. <<d, s>> \notin Adding /\ d \in created /\ s \in created \cup {0}
  BY <1>1 DEF d, s
<1>4. /\ ~Ahead(d, s) /\ ~AtWork(d, s)
      /\ \A t \in Thread : ~Declares(t, d, s) /\ ~Adds(t, d, s)
  BY <1>1, <1>3, NothingAhead
<1>5. ring[d][s] = "sized"
  BY <1>2, <1>4
<1>6. QED
  BY <1>5 DEF d, s

(* A pair that FastQCreateModule declared, and one that FastQAddSet was    *)
(* asked for between modules that exist, has its ring, with the receiver's *)
(* sizes, as soon as the calls that declared it are over, whatever bits of *)
(* the sets are lost to overlapping MOD_SETs, unless its source is sent    *)
(* from while it is not created.                                           *)
THEOREM EveryPairMade == Spec => []NoPairMissed
<1>1. ReadInv /\ CallerInv /\ PlaceInv /\ PairInv => NoPairMissed
  BY NoneMissed
<1>2. QED
  BY InitReadInv, ReadInvStep, InitCallerInv, CallerInvStep, InitPlaceInv, PairInvStep, <1>1,
     PTL DEF Spec
=============================================================================
