---------------------------- MODULE FastQRegistry ----------------------------
(***************************************************************************)
(* The module registry of fastq, _AllModulesRings: which modules are       *)
(* registered, the sets of modules each one may receive from (rx.set) and  *)
(* send to (tx.set), and the matrix of rings, _ring[src] of the            *)
(* destination's slot.                                                     *)
(*                                                                         *)
(* A step is one whole call of the interface: FastQCreateModule,           *)
(* FastQAddSet, FastQDeleteModule, or the first FastQSend on a pair that   *)
(* has no ring yet.  The calls do not overlap here.  The loops over the    *)
(* peers are stated on sets: iteration i reads and writes only what the    *)
(* calling module and peer i have about each other, so the iterations      *)
(* commute.                                                                *)
(*                                                                         *)
(* The interface demands that both ends of a send are registered (fastq.h: *)
(* 222), and no send by ID tests it.  Slot 0 stands for a source that is   *)
(* no module (the comment at fastq.c:571).  The modules in Strays send by  *)
(* ID whether they are registered or not, as the senders of test.c do      *)
(* (lines 71 and 77) after their modules are deleted (351).  Destinations  *)
(* are registered, in test.c as well: a module that never was has no       *)
(* ring_size, and the memory behind a ring of size 0 is overwritten.       *)
(***************************************************************************)
EXTENDS Naturals

CONSTANTS
  N,        \* FASTQ_ID_MAX
  Sets,     \* the mod_set values callers pass, as sets of module IDs
  NoSet,    \* the NULL that may be passed in the place of a mod_set
  Shape,    \* the (ring_size, msg_size) pairs modules are created with
  NoShape,  \* ring_size = msg_size = 0: never created
  NoRing,   \* a NULL ring pointer
  Strays    \* the modules that send although they may not be registered

Module == 1 .. N
Source == 0 .. N

ASSUME RegistryAssumption ==
  /\ N \in Nat \ {0}
  /\ Sets \subseteq SUBSET Source
  /\ NoSet \notin Sets
  /\ NoShape \notin Shape /\ NoRing \notin Shape
  /\ Strays \subseteq Module

VARIABLES
  registered,  \* already_register
  rx, tx,      \* rx.set and tx.set
  shape,       \* ring_size and msg_size of a module
  ring,        \* ring[d][s]: the shape that _ring[s] of d was made with
  lost         \* history: the pairs whose ring was overwritten by a new one

vars == <<registered, rx, tx, shape, ring, lost>>

Init ==
  /\ registered = {}
  /\ rx = [m \in Module |-> {}]
  /\ tx = [s \in Source |-> {}]
  /\ shape = [m \in Module |-> NoShape]
  /\ ring = [d \in Module |-> [s \in Source |-> NoRing]]
  /\ lost = {}

-----------------------------------------------------------------------------
Arg == Sets \cup {NoSet}

\* The set a mod_set argument denotes; NULL adds nothing.
Elements(set) == IF set = NoSet THEN {} ELSE set

\* The registered modules other than m.
Peers(m) == registered \ {m}

\* Variant: a ring gets the sizes of the module whose call creates it.
WithRingsOwnShape(m, in, out, newShape) ==
  [d \in Module |-> [s \in Source |->
     IF (d = m /\ s \in in) \/ (s = m /\ d \in out)
     THEN newShape[m] ELSE ring[d][s]]]

\* __fastq_create_ring for the pairs in `in` (towards m) and `out` (from m).
\* A ring gets the sizes its destination has at that moment.
WithRings(m, in, out, newShape) ==
  [d \in Module |-> [s \in Source |->
     IF (d = m /\ s \in in) \/ (s = m /\ d \in out)
     THEN newShape[d] ELSE ring[d][s]]]

\* The ones of those pairs that had a ring: its memory and its eventfd leak.
Overwritten(m, in, out) ==
  {e \in Module \X Source :
     /\ ring[e[1]][e[2]] # NoRing
     /\ (e[1] = m /\ e[2] \in in) \/ (e[2] = m /\ e[1] \in out)}

\* __fastq_destroy_ring for the same pairs.
WithoutRings(m, in, out) ==
  [d \in Module |-> [s \in Source |->
     IF (d = m /\ s \in in) \/ (s = m /\ d \in out)
     THEN NoRing ELSE ring[d][s]]]

\* Adds m to the sets of the peers in P.
Joined(sets, m, P) == [p \in DOMAIN sets |->
  IF p \in P THEN sets[p] \cup {m} ELSE sets[p]]

-----------------------------------------------------------------------------
\* Variant: only the sets of the new module itself are looked at.
CreateModuleOwnSets(m, rxset, txset, newShape) ==
  LET rx0   == IF rxset = NoSet THEN rx[m] ELSE rxset
      tx0   == IF txset = NoSet THEN tx[m] ELSE txset
      zero  == IF 0 \in rx0 /\ ring[m][0] = NoRing THEN {0} ELSE {}
      in    == Peers(m) \cap rx0
      out   == {p \in Peers(m) \cap tx0 : ring[p][m] = NoRing}
  IN  /\ m \notin registered
      /\ registered' = registered \cup {m}
      /\ shape' = [shape EXCEPT ![m] = newShape]
      /\ rx' = Joined([rx EXCEPT ![m] = rx0 \cup in], m, out)
      /\ tx' = Joined([tx EXCEPT ![m] = tx0 \cup out], m, in)
      /\ ring' = WithRings(m, in \cup zero, out, shape')
      /\ lost' = lost \cup Overwritten(m, in, out)

\* FastQCreateModule.  A module that is registered aborts the program.
CreateModule(m, rxset, txset, newShape) ==
  LET rx0   == IF rxset = NoSet THEN rx[m] ELSE rxset
      tx0   == IF txset = NoSet THEN tx[m] ELSE txset
      zero  == IF 0 \in rx0 /\ ring[m][0] = NoRing THEN {0} ELSE {}
      in    == {p \in Peers(m) : p \in rx0 \/ m \in tx[p]}
      out   == {p \in Peers(m) : /\ ring[p][m] = NoRing
                                 /\ p \in tx0 \/ m \in rx[p]}
  IN  /\ m \notin registered
      /\ registered' = registered \cup {m}
      /\ shape' = [shape EXCEPT ![m] = newShape]
      /\ rx' = Joined([rx EXCEPT ![m] = rx0 \cup in], m, out)
      /\ tx' = Joined([tx EXCEPT ![m] = tx0 \cup out], m, in)
      /\ ring' = WithRings(m, in \cup zero, out, shape')
      /\ lost' = lost \cup Overwritten(m, in, out)

\* Variant: FastQAddSet does not look whether the peer is in the set already.
AddSetAgain(m, rxset, txset) ==
  LET in  == Peers(m) \cap Elements(rxset)
      out == Peers(m) \cap Elements(txset)
  IN  /\ m \in registered
      /\ rx' = Joined([rx EXCEPT ![m] = @ \cup in], m, out)
      /\ tx' = Joined([tx EXCEPT ![m] = @ \cup out], m, in)
      /\ ring' = WithRings(m, in, out, shape)
      /\ lost' = lost \cup Overwritten(m, in, out)
      /\ UNCHANGED <<registered, shape>>

\* FastQAddSet.  It returns false unless m is registered and some set is
\* given; peers that are not registered are skipped.
AddSet(m, rxset, txset) ==
  LET in  == {p \in Peers(m) : p \in Elements(rxset) /\ p \notin rx[m]}
      out == {p \in Peers(m) : p \in Elements(txset) /\ p \notin tx[m]}
  IN  /\ m \in registered
      /\ rx' = Joined([rx EXCEPT ![m] = @ \cup in], m, out)
      /\ tx' = Joined([tx EXCEPT ![m] = @ \cup out], m, in)
      /\ ring' = WithRings(m, in, out, shape)
      /\ lost' = lost \cup Overwritten(m, in, out)
      /\ UNCHANGED <<registered, shape>>

\* Variant: only the rings that m receives from are destroyed.
DeleteModuleRxOnly(m) ==
  LET in == Peers(m) \cap rx[m]
  IN  /\ m \in registered
      /\ ring' = WithoutRings(m, in \cup (rx[m] \cap {0}), {})
      /\ rx' = [rx EXCEPT ![m] = {}]
      /\ tx' = [tx EXCEPT ![m] = {}]
      /\ registered' = registered \ {m}
      /\ UNCHANGED <<shape, lost>>

\* Variant: the final memset of the two sets is missing.
DeleteModuleKeepsSets(m) ==
  LET in  == Peers(m) \cap rx[m]
      out == Peers(m) \cap tx[m]
  IN  /\ m \in registered
      /\ ring' = WithoutRings(m, in \cup (rx[m] \cap {0}), out)
      /\ rx' = [rx EXCEPT ![m] = @ \ in]
      /\ tx' = [tx EXCEPT ![m] = @ \ out]
      /\ registered' = registered \ {m}
      /\ UNCHANGED <<shape, lost>>

\* FastQDeleteModule.  The peers keep m in their own sets, the ring of m to
\* itself stays, and so do the sizes of m.
DeleteModule(m) ==
  LET in   == Peers(m) \cap rx[m]
      out  == Peers(m) \cap tx[m]
      zero == rx[m] \cap {0}
  IN  /\ m \in registered
      /\ ring' = WithoutRings(m, in \cup zero, out)
      /\ rx' = [rx EXCEPT ![m] = {}]
      /\ tx' = [tx EXCEPT ![m] = {}]
      /\ registered' = registered \ {m}
      /\ UNCHANGED <<shape, lost>>

\* FastQSend or FastQTrySend on a pair without a ring:
\* __create_ring_when_send.  A module may send to itself.
SendCreatesRing(s, d) ==
  /\ s \in registered \cup Strays \cup {0} /\ d \in registered
  /\ ring[d][s] = NoRing
  /\ ring' = [ring EXCEPT ![d][s] = shape[d]]
  /\ rx' = [rx EXCEPT ![d] = @ \cup {s}]
  /\ tx' = [tx EXCEPT ![s] = @ \cup {d}]
  /\ UNCHANGED <<registered, shape, lost>>

-----------------------------------------------------------------------------
Next ==
  \E m \in Module :
    \/ \E rxset \in Arg, txset \in Arg, sh \in Shape :
         CreateModule(m, rxset, txset, sh)
    \/ \E rxset \in Arg, txset \in Arg : AddSet(m, rxset, txset)
    \/ DeleteModule(m)
    \/ \E s \in Source : SendCreatesRing(s, m)

Spec == Init /\ [][Next]_vars

-----------------------------------------------------------------------------
(* Properties.                                                             *)

TypeOK ==
  /\ registered \subseteq Module
  /\ rx \in [Module -> SUBSET Source]
  /\ tx \in [Source -> SUBSET Source]
  /\ shape \in [Module -> Shape \cup {NoShape}]
  /\ ring \in [Module -> [Source -> Shape \cup {NoRing}]]
  /\ lost \subseteq Module \X Source

\* A bit in rx.set or tx.set between two registered modules always has its
\* ring, strays included: FastQDeleteModule and FastQMsgNum dereference
\* _ring[i] wherever a bit says so.  A ring has both bits, unless a stray is
\* its source: FastQDeleteModule finds its rings by the bits, and FastQCreate-
\* Module and FastQAddSet store a new ring where they see no bit.
SetsMatchRings ==
  \A d, s \in registered : d # s =>
    /\ s \in rx[d] \/ d \in tx[s] => ring[d][s] # NoRing
    /\ ring[d][s] # NoRing /\ s \notin Strays => s \in rx[d] /\ d \in tx[s]

\* No ring outlives the modules it joins, except the one from a module to
\* itself and those from a stray, which a send made while it was deleted:
\* FastQDeleteModule has destroyed it from whichever end went first.
\* Slot 0 counts as registered.
RingsJoinRegistered ==
  \A d \in Module, s \in Source \ Strays :
    d # s /\ ring[d][s] # NoRing =>
      d \in registered /\ s \in registered \cup {0}

\* A ring has the node count and node size its destination was created with
\* last, however often the two ends were deleted and created again: a send
\* that respects the module's msgSize fits a node.
RingsKeepShape ==
  \A d \in registered, s \in Source \ Strays :
    s # d /\ ring[d][s] # NoRing => ring[d][s] = shape[d]

\* No call ever stores a new ring over a live one, whose memory and eventfd
\* would leak while the readset still selects it: although neither FastQ-
\* AddSet nor the receiving half of FastQCreateModule looks at the pointer
\* first, the sets tell them.  Only the rings of strays can be lost.
NoRingOverwritten == lost \subseteq Module \X Strays

\* The inductive invariant.
RegistryInv ==
  /\ TypeOK
  /\ \A m \in Module \ registered : rx[m] = {} /\ (m \notin Strays => tx[m] = {})
  /\ \A m \in registered : shape[m] \in Shape
  /\ SetsMatchRings
  /\ RingsJoinRegistered
  /\ \A d \in Module : ring[d][0] # NoRing => 0 \in rx[d]
  /\ RingsKeepShape
  /\ NoRingOverwritten

\* FastQMsgNum reads _ring[i] for every i in the rx.set of its module, the
\* bits of modules that are not registered among them.
MsgNumFindsRings ==
  \A d \in registered : \A s \in rx[d] \ {0, d} : ring[d][s] # NoRing

\* The ring from a module to itself has the module's sizes, too.
SelfRingKeepsShape ==
  \A d \in registered : ring[d][d] # NoRing => ring[d][d] = shape[d]
=============================================================================
