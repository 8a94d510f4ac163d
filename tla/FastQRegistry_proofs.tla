------------------------- MODULE FastQRegistry_proofs -------------------------
(***************************************************************************)
(* Proofs about the module registry, for every FASTQ_ID_MAX, every family  *)
(* of sets the callers pass, every choice of sizes and every set of        *)
(* modules that send although they are not registered: RegistryInv is an   *)
(* invariant, so no call of the interface dereferences a NULL ring while   *)
(* deleting, and none but the rings of those modules is left behind or     *)
(* overwritten.                                                            *)
(*                                                                         *)
(* Each action is shown to keep the typing first.  Then, for each pair     *)
(* (d, s), the new sets and the new ring are compared with the old ones;   *)
(* the pairs that do not contain the calling module keep what they had.    *)
(***************************************************************************)
EXTENDS FastQRegistry, TLAPS

\* The matrix after __fastq_create_ring has run for the pairs of a call.
LEMMA CreatedRings ==
  ASSUME TypeOK, NEW m \in Module, NEW in, NEW out, NEW sizes,
         \A d \in out \cup {m} : sizes[d] \in Shape
  PROVE  /\ WithRings(m, in, out, sizes)
              \in [Module -> [Source -> Shape \cup {NoRing}]]
         /\ \A d \in Module, s \in Source :
              WithRings(m, in, out, sizes)[d][s] =
                IF (d = m /\ s \in in) \/ (s = m /\ d \in out)
                THEN sizes[d] ELSE ring[d][s]
  BY DEF WithRings, TypeOK

\* The matrix after __fastq_destroy_ring has run for the pairs of a call.
LEMMA DestroyedRings ==
  ASSUME TypeOK, NEW m \in Module, NEW in, NEW out
  PROVE  /\ WithoutRings(m, in, out)
              \in [Module -> [Source -> Shape \cup {NoRing}]]
         /\ \A d \in Module, s \in Source :
              WithoutRings(m, in, out)[d][s] =
                IF (d = m /\ s \in in) \/ (s = m /\ d \in out)
                THEN NoRing ELSE ring[d][s]
  BY DEF WithoutRings, TypeOK

\* A call that stores no ring over one of a module that is no stray loses
\* rings of strays at most.
LEMMA StraysLost ==
  ASSUME NEW m \in Module, NEW in, NEW out,
         \A s \in (in \cap Source) \ Strays : ring[m][s] = NoRing,
         m \notin Strays => \A d \in out \cap Module : ring[d][m] = NoRing
  PROVE  Overwritten(m, in, out) \subseteq Module \X Strays
  BY DEF Overwritten

-----------------------------------------------------------------------------
LEMMA CreateModuleKeeps ==
  ASSUME RegistryInv, NEW m \in Module, NEW rxset \in Arg, NEW txset \in Arg,
         NEW sh \in Shape, CreateModule(m, rxset, txset, sh)
  PROVE  RegistryInv'
  <1> DEFINE rx0  == IF rxset = NoSet THEN rx[m] ELSE rxset
             tx0  == IF txset = NoSet THEN tx[m] ELSE txset
             zero == IF 0 \in rx0 /\ ring[m][0] = NoRing THEN {0} ELSE {}
             in   == {p \in Peers(m) : p \in rx0 \/ m \in tx[p]}
             out  == {p \in Peers(m) : /\ ring[p][m] = NoRing
                                       /\ p \in tx0 \/ m \in rx[p]}
             rx1  == [rx EXCEPT ![m] = rx0 \cup in]
             tx1  == [tx EXCEPT ![m] = tx0 \cup out]
  <1>0. /\ m \notin registered /\ registered' = registered \cup {m}
        /\ shape' = [shape EXCEPT ![m] = sh]
        /\ rx' = Joined(rx1, m, out) /\ tx' = Joined(tx1, m, in)
        /\ ring' = WithRings(m, in \cup zero, out, shape')
        /\ lost' = lost \cup Overwritten(m, in, out)
    BY DEF CreateModule
  <1>1. /\ Module \subseteq Source /\ m \in Source /\ 0 \in Source
        /\ 0 \notin Module /\ Strays \subseteq Module
    BY RegistryAssumption DEF Module, Source
  <1>2. /\ in \subseteq registered /\ out \subseteq registered
        /\ in \subseteq Module /\ out \subseteq Module
        /\ rx0 \subseteq Source /\ tx0 \subseteq Source
        /\ m \notin in /\ m \notin out /\ 0 \notin in /\ 0 \notin out
        /\ zero \subseteq {0} /\ (0 \in zero => 0 \in rx0)
        /\ \A p \in Peers(m) : (p \in in) <=> (p \in rx0 \/ m \in tx[p])
        /\ \A p \in Peers(m) : (p \in out) <=>
             /\ ring[p][m] = NoRing
             /\ p \in tx0 \/ m \in rx[p]
    BY <1>1, RegistryAssumption DEF RegistryInv, TypeOK, Peers, Arg
  <1>3. /\ rx1 \in [Module -> SUBSET Source]
        /\ \A p \in Module : rx1[p] = IF p = m THEN rx0 \cup in ELSE rx[p]
        /\ tx1 \in [Source -> SUBSET Source]
        /\ \A p \in Source : tx1[p] = IF p = m THEN tx0 \cup out ELSE tx[p]
    <2> HIDE DEF rx0, tx0, in, out
    <2> QED BY <1>1, <1>2 DEF RegistryInv, TypeOK
  <1> HIDE DEF rx0, tx0, zero, in, out, rx1, tx1
  <1>4. /\ rx' \in [Module -> SUBSET Source]
        /\ \A p \in Module : rx'[p] =
             IF p = m THEN rx0 \cup in
             ELSE IF p \in out THEN rx[p] \cup {m} ELSE rx[p]
    BY <1>0, <1>1, <1>2, <1>3 DEF Joined
  <1>5. /\ tx' \in [Source -> SUBSET Source]
        /\ \A p \in Source : tx'[p] =
             IF p = m THEN tx0 \cup out
             ELSE IF p \in in THEN tx[p] \cup {m} ELSE tx[p]
    BY <1>0, <1>1, <1>2, <1>3 DEF Joined
  <1>6. /\ shape' \in [Module -> Shape \cup {NoShape}]
        /\ shape'[m] = sh
        /\ \A p \in Module : p # m => shape'[p] = shape[p]
        /\ \A p \in registered \cup {m} : shape'[p] \in Shape
    BY <1>0 DEF RegistryInv, TypeOK
  <1>7. /\ ring' \in [Module -> [Source -> Shape \cup {NoRing}]]
        /\ \A d \in Module, s \in Source : ring'[d][s] =
             IF (d = m /\ s \in in \cup zero) \/ (s = m /\ d \in out)
             THEN shape'[d] ELSE ring[d][s]
    <2>1. \A d \in out \cup {m} : shape'[d] \in Shape
      BY <1>2, <1>6
    <2>2. TypeOK
      BY DEF RegistryInv
    <2> DEFINE sizes == shape'
               created == WithRings(m, in \cup zero, out, sizes)
    <2> HIDE DEF sizes
    <2>3. /\ created \in [Module -> [Source -> Shape \cup {NoRing}]]
          /\ \A d \in Module, s \in Source : created[d][s] =
               IF (d = m /\ s \in in \cup zero) \/ (s = m /\ d \in out)
               THEN sizes[d] ELSE ring[d][s]
      BY <2>1, <2>2 DEF WithRings, TypeOK, sizes
    <2> QED BY <1>0, <2>3 DEF sizes
  \* m was not registered: no ring but those of strays joined it to another
  \* module.
  <1>8. /\ \A p \in Module \ Strays : p # m => ring[m][p] = NoRing
        /\ m \notin Strays =>
             \A p \in Module : p # m => ring[p][m] = NoRing
        /\ ring[m][0] = NoRing
    <2>1. /\ m \notin registered \cup {0}
          /\ \A d \in Module, s \in Source \ Strays : d # s /\ ring[d][s] # NoRing
               => d \in registered /\ s \in registered \cup {0}
      BY <1>0, <1>1 DEF RegistryInv, RingsJoinRegistered
    <2>2. ASSUME NEW p \in Module \ Strays, p # m
          PROVE  ring[m][p] = NoRing
      BY <1>1, <2>1, <2>2
    <2>3. ASSUME m \notin Strays, NEW p \in Module, p # m
          PROVE  ring[p][m] = NoRing
      BY <1>1, <2>1, <2>3
    <2>4. ring[m][0] = NoRing
      BY <1>1, <2>1
    <2> QED BY <2>2, <2>3, <2>4
  <1>9. lost' \subseteq Module \X Strays
    <2>1. Overwritten(m, in, out) \subseteq Module \X Strays
      BY <1>2, <1>8, StraysLost
    <2> QED BY <1>0, <2>1 DEF RegistryInv, NoRingOverwritten
  <1>10. TypeOK'
    <2>1. Module \X Strays \subseteq Module \X Source
      BY <1>1
    <2> QED BY <1>0, <1>4, <1>5, <1>6, <1>7, <1>9, <2>1 DEF RegistryInv, TypeOK
  <1>11. \A p \in Module \ registered' :
           rx'[p] = {} /\ (p \notin Strays => tx'[p] = {})
    BY <1>0, <1>1, <1>2, <1>4, <1>5 DEF RegistryInv
  <1>12. SetsMatchRings'
    <2> SUFFICES ASSUME NEW d \in registered', NEW s \in registered', d # s
                 PROVE  /\ s \in rx'[d] \/ d \in tx'[s] => ring'[d][s] # NoRing
                        /\ ring'[d][s] # NoRing /\ s \notin Strays
                             => s \in rx'[d] /\ d \in tx'[s]
      BY DEF SetsMatchRings
    <2>0. /\ d \in Module /\ s \in Module /\ s \in Source /\ d \in Source
          /\ s # 0 /\ shape'[d] # NoRing
      BY <1>0, <1>1, <1>6, RegistryAssumption DEF RegistryInv, TypeOK
    <2>1. CASE d = m
      <3>1. s \in registered /\ s \in Peers(m)
        BY <2>1, <1>0 DEF Peers
      <3>2. (s \in rx'[d]) <=> s \in in
        BY <2>0, <2>1, <3>1, <1>2, <1>4
      <3>3. (d \in tx'[s]) <=> s \in in
        BY <2>0, <2>1, <3>1, <1>2, <1>5
      <3>4. /\ s \in in => ring'[d][s] # NoRing
            /\ ring'[d][s] # NoRing /\ s \notin Strays => s \in in
        BY <2>0, <2>1, <1>2, <1>7, <1>8
      <3> QED BY <3>2, <3>3, <3>4
    <2>2. CASE s = m
      <3>1. d \in registered /\ d \in Peers(m)
        BY <2>0, <2>2, <1>0 DEF Peers
      <3>2. (s \in rx'[d]) <=> (d \in out \/ m \in rx[d])
        BY <2>0, <2>2, <3>1, <1>2, <1>4
      <3>3. (d \in tx'[s]) <=> (d \in out \/ d \in tx0)
        BY <2>0, <2>2, <3>1, <1>2, <1>5
      <3>4. (ring'[d][s] # NoRing) <=> (d \in out \/ ring[d][m] # NoRing)
        BY <2>0, <2>2, <1>2, <1>7
      <3>5. /\ m \in rx[d] \/ d \in tx0 => d \in out \/ ring[d][m] # NoRing
            /\ m \notin Strays => ring[d][m] = NoRing
        BY <2>0, <2>2, <3>1, <1>2, <1>8
      <3>6. d \in out => s \in rx'[d] /\ d \in tx'[s]
        BY <3>2, <3>3
      <3> QED BY <2>2, <3>2, <3>3, <3>4, <3>5, <3>6
    <2>3. CASE d # m /\ s # m
      <3>1. d \in registered /\ s \in registered
        BY <2>3, <1>0
      <3>2. ring'[d][s] = ring[d][s]
        BY <2>0, <2>3, <1>7
      <3>3. (s \in rx'[d]) <=> (s \in rx[d])
        BY <2>0, <2>3, <1>4
      <3>4. (d \in tx'[s]) <=> (d \in tx[s])
        BY <2>0, <2>3, <1>5
      <3> QED BY <3>1, <3>2, <3>3, <3>4 DEF RegistryInv, SetsMatchRings
    <2> QED BY <2>1, <2>2, <2>3
  <1>13. RingsJoinRegistered'
    <2> SUFFICES ASSUME NEW d \in Module, NEW s \in Source \ Strays,
                        d # s, ring'[d][s] # NoRing
                 PROVE  d \in registered' /\ s \in registered' \cup {0}
      BY DEF RingsJoinRegistered
    <2>1. CASE (d = m /\ s \in in \cup zero) \/ (s = m /\ d \in out)
      BY <2>1, <1>0, <1>2
    <2>2. CASE ~((d = m /\ s \in in \cup zero) \/ (s = m /\ d \in out))
      <3>1. ring[d][s] # NoRing
        BY <2>2, <1>7
      <3> QED BY <3>1, <1>0 DEF RegistryInv, RingsJoinRegistered
    <2> QED BY <2>1, <2>2
  <1>14. \A d \in Module : ring'[d][0] # NoRing => 0 \in rx'[d]
    <2> SUFFICES ASSUME NEW d \in Module, ring'[d][0] # NoRing
                 PROVE  0 \in rx'[d]
      OBVIOUS
    <2>1. m # 0
      BY <1>1
    <2>2. CASE d = m
      BY <2>1, <2>2, <1>1, <1>2, <1>4, <1>7, <1>8
    <2>3. CASE d # m
      <3>1. ring[d][0] # NoRing
        BY <2>1, <2>3, <1>1, <1>7
      <3> QED BY <2>3, <3>1, <1>4 DEF RegistryInv
    <2> QED BY <2>2, <2>3
  <1>15. RingsKeepShape'
    <2> SUFFICES ASSUME NEW d \in registered', NEW s \in Source \ Strays,
                        s # d, ring'[d][s] # NoRing
                 PROVE  ring'[d][s] = shape'[d]
      BY DEF RingsKeepShape
    <2>1. d \in Module
      BY <1>0 DEF RegistryInv, TypeOK
    <2>2. CASE (d = m /\ s \in in \cup zero) \/ (s = m /\ d \in out)
      BY <2>1, <2>2, <1>7
    <2>3. CASE ~((d = m /\ s \in in \cup zero) \/ (s = m /\ d \in out))
      <3>1. ring'[d][s] = ring[d][s]
        BY <2>1, <2>3, <1>7
      <3>2. d \in registered /\ d # m
        BY <2>1, <3>1, <1>0 DEF RegistryInv, RingsJoinRegistered
      <3> QED BY <2>1, <3>1, <3>2, <1>6 DEF RegistryInv, RingsKeepShape
    <2> QED BY <2>2, <2>3
  <1> QED
    BY <1>0, <1>6, <1>9, <1>10, <1>11, <1>12, <1>13, <1>14, <1>15
       DEF RegistryInv, NoRingOverwritten

LEMMA AddSetKeeps ==
  ASSUME RegistryInv, NEW m \in Module, NEW rxset \in Arg, NEW txset \in Arg,
         AddSet(m, rxset, txset)
  PROVE  RegistryInv'
  <1> DEFINE in  == {p \in Peers(m) : p \in Elements(rxset) /\ p \notin rx[m]}
             out == {p \in Peers(m) : p \in Elements(txset) /\ p \notin tx[m]}
             rx1 == [rx EXCEPT ![m] = @ \cup in]
             tx1 == [tx EXCEPT ![m] = @ \cup out]
  <1>0. /\ m \in registered /\ registered' = registered /\ shape' = shape
        /\ rx' = Joined(rx1, m, out) /\ tx' = Joined(tx1, m, in)
        /\ ring' = WithRings(m, in, out, shape)
        /\ lost' = lost \cup Overwritten(m, in, out)
    BY DEF AddSet
  <1>1. /\ Module \subseteq Source /\ m \in Source /\ 0 \in Source
        /\ 0 \notin Module /\ registered \subseteq Module
        /\ Strays \subseteq Module
    BY RegistryAssumption DEF Module, Source, RegistryInv, TypeOK
  <1>2. /\ in \subseteq registered /\ out \subseteq registered
        /\ in \subseteq Module /\ out \subseteq Module
        /\ m \notin in /\ m \notin out
        /\ \A p \in in : p \notin rx[m]
        /\ \A p \in out : p \notin tx[m]
    BY <1>1 DEF Peers
  <1>3. /\ rx1 \in [Module -> SUBSET Source]
        /\ \A p \in Module : rx1[p] = IF p = m THEN rx[m] \cup in ELSE rx[p]
        /\ tx1 \in [Source -> SUBSET Source]
        /\ \A p \in Source : tx1[p] = IF p = m THEN tx[m] \cup out ELSE tx[p]
    <2> HIDE DEF in, out
    <2> QED BY <1>1, <1>2 DEF RegistryInv, TypeOK
  <1> HIDE DEF in, out, rx1, tx1
  <1>4. /\ rx' \in [Module -> SUBSET Source]
        /\ \A p \in Module : rx'[p] =
             IF p = m THEN rx[m] \cup in
             ELSE IF p \in out THEN rx[p] \cup {m} ELSE rx[p]
    BY <1>0, <1>1, <1>2, <1>3 DEF Joined
  <1>5. /\ tx' \in [Source -> SUBSET Source]
        /\ \A p \in Source : tx'[p] =
             IF p = m THEN tx[m] \cup out
             ELSE IF p \in in THEN tx[p] \cup {m} ELSE tx[p]
    BY <1>0, <1>1, <1>2, <1>3 DEF Joined
  <1>6. /\ ring' \in [Module -> [Source -> Shape \cup {NoRing}]]
        /\ \A d \in Module, s \in Source : ring'[d][s] =
             IF (d = m /\ s \in in) \/ (s = m /\ d \in out)
             THEN shape[d] ELSE ring[d][s]
    <2>1. \A d \in out \cup {m} : shape[d] \in Shape
      BY <1>0, <1>2 DEF RegistryInv
    <2> QED BY <1>0, <2>1, CreatedRings DEF RegistryInv
  \* Where a set lacks the peer, SetsMatchRings says that the ring is NULL or
  \* that of a stray.
  <1>7. /\ \A s \in in \ Strays : ring[m][s] = NoRing
        /\ m \notin Strays => \A d \in out : ring[d][m] = NoRing
    BY <1>0, <1>2 DEF RegistryInv, SetsMatchRings
  <1>8. lost' \subseteq Module \X Strays
    <2>1. Overwritten(m, in, out) \subseteq Module \X Strays
      BY <1>7, StraysLost
    <2> QED BY <1>0, <2>1 DEF RegistryInv, NoRingOverwritten
  <1>9. TypeOK'
    <2>1. Module \X Strays \subseteq Module \X Source
      BY <1>1
    <2> QED BY <1>0, <1>4, <1>5, <1>6, <1>8, <2>1 DEF RegistryInv, TypeOK
  <1>10. \A p \in Module \ registered' :
           rx'[p] = {} /\ (p \notin Strays => tx'[p] = {})
    BY <1>0, <1>1, <1>2, <1>4, <1>5 DEF RegistryInv
  <1>11. SetsMatchRings'
    <2> SUFFICES ASSUME NEW d \in registered, NEW s \in registered, d # s
                 PROVE  /\ s \in rx'[d] \/ d \in tx'[s] => ring'[d][s] # NoRing
                        /\ ring'[d][s] # NoRing /\ s \notin Strays
                             => s \in rx'[d] /\ d \in tx'[s]
      BY <1>0 DEF SetsMatchRings
    <2>1. /\ d \in Module /\ s \in Module /\ s \in Source /\ shape[d] # NoRing
      BY <1>0, <1>1, RegistryAssumption DEF RegistryInv
    <2>2. /\ s \in rx[d] \/ d \in tx[s] => ring[d][s] # NoRing
          /\ ring[d][s] # NoRing /\ s \notin Strays => s \in rx[d] /\ d \in tx[s]
      BY DEF RegistryInv, SetsMatchRings
    <2>3. CASE (d = m /\ s \in in) \/ (s = m /\ d \in out)
      <3>1. ring'[d][s] # NoRing
        BY <2>1, <2>3, <1>6
      <3>2. s \in rx'[d] /\ d \in tx'[s]
        BY <2>1, <2>3, <1>2, <1>4, <1>5
      <3> QED BY <3>1, <3>2
    <2>4. CASE ~((d = m /\ s \in in) \/ (s = m /\ d \in out))
      <3>1. ring'[d][s] = ring[d][s]
        BY <2>1, <2>4, <1>6
      <3>2. (s \in rx'[d]) <=> (s \in rx[d])
        BY <2>1, <2>4, <1>4
      <3>3. (d \in tx'[s]) <=> (d \in tx[s])
        BY <2>1, <2>4, <1>5
      <3> QED BY <2>2, <3>1, <3>2, <3>3
    <2> QED BY <2>3, <2>4
  <1>12. RingsJoinRegistered'
    BY <1>0, <1>2, <1>6 DEF RegistryInv, RingsJoinRegistered
  <1>13. \A d \in Module : ring'[d][0] # NoRing => 0 \in rx'[d]
    <2> SUFFICES ASSUME NEW d \in Module, ring'[d][0] # NoRing
                 PROVE  0 \in rx'[d]
      OBVIOUS
    <2>1. ring[d][0] # NoRing
      BY <1>1, <1>2, <1>6
    <2> QED BY <2>1, <1>4 DEF RegistryInv
  <1>14. RingsKeepShape'
    BY <1>0, <1>1, <1>6 DEF RegistryInv, RingsKeepShape
  <1> QED
    BY <1>0, <1>8, <1>9, <1>10, <1>11, <1>12, <1>13, <1>14
       DEF RegistryInv, NoRingOverwritten

LEMMA DeleteModuleKeeps ==
  ASSUME RegistryInv, NEW m \in Module, DeleteModule(m)
  PROVE  RegistryInv'
  <1> DEFINE in  == (Peers(m) \cap rx[m]) \cup (rx[m] \cap {0})
             out == Peers(m) \cap tx[m]
  <1>0. /\ m \in registered /\ registered' = registered \ {m}
        /\ shape' = shape /\ lost' = lost
        /\ rx' = [rx EXCEPT ![m] = {}] /\ tx' = [tx EXCEPT ![m] = {}]
        /\ ring' = WithoutRings(m, in, out)
    BY DEF DeleteModule
  <1>1. /\ Module \subseteq Source /\ m \in Source /\ 0 \in Source
        /\ 0 \notin Module /\ registered \subseteq Module
        /\ Strays \subseteq Module
    BY RegistryAssumption DEF Module, Source, RegistryInv, TypeOK
  <1>2. /\ \A p \in registered \ {m} : p \in in <=> p \in rx[m]
        /\ \A p \in registered \ {m} : p \in out <=> p \in tx[m]
        /\ 0 \in in <=> 0 \in rx[m]
    BY <1>1 DEF Peers
  <1> HIDE DEF in, out
  <1>3. /\ ring' \in [Module -> [Source -> Shape \cup {NoRing}]]
        /\ \A d \in Module, s \in Source : ring'[d][s] =
             IF (d = m /\ s \in in) \/ (s = m /\ d \in out)
             THEN NoRing ELSE ring[d][s]
    BY <1>0, DestroyedRings DEF RegistryInv
  <1>4. TypeOK'
    BY <1>0, <1>3 DEF RegistryInv, TypeOK
  <1>5. \A p \in Module \ registered' :
           rx'[p] = {} /\ (p \notin Strays => tx'[p] = {})
    BY <1>0, <1>1 DEF RegistryInv, TypeOK
  <1>6. SetsMatchRings'
    <2> SUFFICES ASSUME NEW d \in registered \ {m}, NEW s \in registered \ {m},
                        d # s
                 PROVE  /\ s \in rx'[d] \/ d \in tx'[s] => ring'[d][s] # NoRing
                        /\ ring'[d][s] # NoRing /\ s \notin Strays
                             => s \in rx'[d] /\ d \in tx'[s]
      BY <1>0 DEF SetsMatchRings
    <2>1. /\ s \in rx[d] \/ d \in tx[s] => ring[d][s] # NoRing
          /\ ring[d][s] # NoRing /\ s \notin Strays => s \in rx[d] /\ d \in tx[s]
      BY DEF RegistryInv, SetsMatchRings
    <2>2. rx'[d] = rx[d] /\ tx'[s] = tx[s] /\ ring'[d][s] = ring[d][s]
      BY <1>0, <1>1, <1>3 DEF RegistryInv, TypeOK
    <2> QED BY <2>1, <2>2
  \* Every ring that joined m to a registered module was in one of its sets.
  <1>7. RingsJoinRegistered'
    <2> SUFFICES ASSUME NEW d \in Module, NEW s \in Source \ Strays,
                        d # s, ring'[d][s] # NoRing
                 PROVE  d \in registered \ {m} /\ s \in (registered \ {m}) \cup {0}
      BY <1>0 DEF RingsJoinRegistered
    <2>1. /\ ring[d][s] # NoRing
          /\ ~(d = m /\ s \in in) /\ ~(s = m /\ d \in out)
      BY <1>3
    <2>2. d \in registered /\ s \in registered \cup {0}
      BY <2>1 DEF RegistryInv, RingsJoinRegistered
    <2>3. CASE d = m
      <3>1. s \in rx[m]
        <4>1. CASE s = 0
          BY <2>1, <2>3, <4>1 DEF RegistryInv
        <4>2. CASE s \in registered
          BY <2>1, <2>2, <2>3, <4>2 DEF RegistryInv, SetsMatchRings
        <4> QED BY <2>2, <4>1, <4>2
      <3> QED BY <2>1, <2>2, <2>3, <3>1, <1>2
    <2>4. CASE s = m
      <3>1. d \in tx[m]
        BY <2>1, <2>2, <2>4, <1>0 DEF RegistryInv, SetsMatchRings
      <3> QED BY <2>1, <2>2, <2>4, <3>1, <1>2
    <2> QED BY <2>2, <2>3, <2>4
  <1>8. \A d \in Module : ring'[d][0] # NoRing => 0 \in rx'[d]
    <2> SUFFICES ASSUME NEW d \in Module, ring'[d][0] # NoRing
                 PROVE  0 \in rx'[d]
      OBVIOUS
    <2>1. 0 \in rx[d] /\ d # m
      BY <1>1, <1>2, <1>3 DEF RegistryInv
    <2> QED BY <2>1, <1>0 DEF RegistryInv, TypeOK
  <1>9. RingsKeepShape'
    BY <1>0, <1>1, <1>3 DEF RegistryInv, RingsKeepShape
  <1> QED
    BY <1>0, <1>4, <1>5, <1>6, <1>7, <1>8, <1>9
       DEF RegistryInv, NoRingOverwritten

LEMMA SendCreatesRingKeeps ==
  ASSUME RegistryInv, NEW s \in Source, NEW d \in Module, SendCreatesRing(s, d)
  PROVE  RegistryInv'
  <1>0. /\ s \in registered \cup Strays \cup {0} /\ d \in registered
        /\ ring[d][s] = NoRing
        /\ registered' = registered /\ shape' = shape /\ lost' = lost
    BY DEF SendCreatesRing
  <1>1. /\ Module \subseteq Source /\ 0 \in Source /\ 0 \notin Module
        /\ registered \subseteq Module /\ shape[d] \in Shape
        /\ shape[d] # NoRing
    BY <1>0, RegistryAssumption DEF Module, Source, RegistryInv, TypeOK
  <1>2. /\ ring' \in [Module -> [Source -> Shape \cup {NoRing}]]
        /\ \A e \in Module, r \in Source : ring'[e][r] =
             IF e = d /\ r = s THEN shape[d] ELSE ring[e][r]
    BY <1>1 DEF SendCreatesRing, RegistryInv, TypeOK
  <1>3. /\ rx' \in [Module -> SUBSET Source]
        /\ \A p \in Module : rx'[p] = IF p = d THEN rx[p] \cup {s} ELSE rx[p]
    BY DEF SendCreatesRing, RegistryInv, TypeOK
  <1>4. /\ tx' \in [Source -> SUBSET Source]
        /\ \A p \in Source : tx'[p] = IF p = s THEN tx[p] \cup {d} ELSE tx[p]
    BY <1>1 DEF SendCreatesRing, RegistryInv, TypeOK
  <1>5. TypeOK'
    BY <1>0, <1>2, <1>3, <1>4 DEF RegistryInv, TypeOK
  <1>6. \A p \in Module \ registered' :
           rx'[p] = {} /\ (p \notin Strays => tx'[p] = {})
    BY <1>0, <1>1, <1>3, <1>4 DEF RegistryInv
  <1>7. SetsMatchRings'
    <2> SUFFICES ASSUME NEW e \in registered, NEW r \in registered, e # r
                 PROVE  /\ r \in rx'[e] \/ e \in tx'[r] => ring'[e][r] # NoRing
                        /\ ring'[e][r] # NoRing /\ r \notin Strays
                             => r \in rx'[e] /\ e \in tx'[r]
      BY <1>0 DEF SetsMatchRings
    <2>1. e \in Module /\ r \in Module /\ r \in Source
      BY <1>1
    <2>2. /\ r \in rx[e] \/ e \in tx[r] => ring[e][r] # NoRing
          /\ ring[e][r] # NoRing /\ r \notin Strays => r \in rx[e] /\ e \in tx[r]
      BY DEF RegistryInv, SetsMatchRings
    <2>3. CASE e = d /\ r = s
      BY <2>1, <2>3, <1>1, <1>2, <1>3, <1>4
    <2>4. CASE ~(e = d /\ r = s)
      BY <2>1, <2>2, <2>4, <1>2, <1>3, <1>4
    <2> QED BY <2>3, <2>4
  <1>8. RingsJoinRegistered'
    BY <1>0, <1>2 DEF RegistryInv, RingsJoinRegistered
  <1>9. \A e \in Module : ring'[e][0] # NoRing => 0 \in rx'[e]
    <2> SUFFICES ASSUME NEW e \in Module, ring'[e][0] # NoRing
                 PROVE  0 \in rx'[e]
      OBVIOUS
    <2>1. CASE e = d /\ s = 0
      BY <2>1, <1>3
    <2>2. CASE ~(e = d /\ s = 0)
      <3>1. ring[e][0] # NoRing
        BY <2>2, <1>1, <1>2
      <3> QED BY <3>1, <1>3 DEF RegistryInv
    <2> QED BY <2>1, <2>2
  <1>10. RingsKeepShape'
    BY <1>0, <1>1, <1>2 DEF RegistryInv, RingsKeepShape
  <1> QED
    BY <1>0, <1>5, <1>6, <1>7, <1>8, <1>9, <1>10
       DEF RegistryInv, NoRingOverwritten

-----------------------------------------------------------------------------
\* The inductive invariant of the registry: __FastQInitCtor establishes it
\* and every call keeps it.
THEOREM RegistryInvariant == Spec => []RegistryInv
  <1>1. Init => RegistryInv
    BY RegistryAssumption
       DEF Init, RegistryInv, TypeOK, SetsMatchRings, RingsJoinRegistered,
           RingsKeepShape, NoRingOverwritten, Module, Source
  <1>2. RegistryInv /\ [Next]_vars => RegistryInv'
    <2> SUFFICES ASSUME RegistryInv, [Next]_vars
                 PROVE  RegistryInv'
      OBVIOUS
    <2>1. ASSUME NEW m \in Module, NEW rxset \in Arg, NEW txset \in Arg,
                 NEW sh \in Shape, CreateModule(m, rxset, txset, sh)
          PROVE  RegistryInv'
      BY <2>1, CreateModuleKeeps
    <2>2. ASSUME NEW m \in Module, NEW rxset \in Arg, NEW txset \in Arg,
                 AddSet(m, rxset, txset)
          PROVE  RegistryInv'
      BY <2>2, AddSetKeeps
    <2>3. ASSUME NEW m \in Module, DeleteModule(m)
          PROVE  RegistryInv'
      BY <2>3, DeleteModuleKeeps
    <2>4. ASSUME NEW m \in Module, NEW s \in Source, SendCreatesRing(s, m)
          PROVE  RegistryInv'
      BY <2>4, SendCreatesRingKeeps
    <2>5. CASE UNCHANGED vars
      BY <2>5 DEF vars, RegistryInv, TypeOK, SetsMatchRings,
         RingsJoinRegistered, RingsKeepShape, NoRingOverwritten
    <2> QED BY <2>1, <2>2, <2>3, <2>4, <2>5 DEF Next
  <1> QED BY <1>1, <1>2, PTL DEF Spec

\* FastQDeleteModule only dereferences rings that exist, whoever sends
\* without being registered; and between registered modules that do not, the
\* sets name every ring.
THEOREM DeleteFindsRings == Spec => []SetsMatchRings
  <1>1. RegistryInv => SetsMatchRings
    BY DEF RegistryInv
  <1> QED BY <1>1, RegistryInvariant, PTL

\* Deleting a module takes its rings with it, whoever created them, but for
\* those of the strays.
THEOREM NoRingLeftBehind == Spec => []RingsJoinRegistered
  <1>1. RegistryInv => RingsJoinRegistered
    BY DEF RegistryInv
  <1> QED BY <1>1, RegistryInvariant, PTL

\* No ring between two modules is older than its receiver's sizes, unless a
\* stray is its source.
THEOREM ShapesAreCurrent == Spec => []RingsKeepShape
  <1>1. RegistryInv => RingsKeepShape
    BY DEF RegistryInv
  <1> QED BY <1>1, RegistryInvariant, PTL

\* No call stores a new ring over a live one that is not a stray's.
THEOREM NoRingLeaks == Spec => []NoRingOverwritten
  <1>1. RegistryInv => NoRingOverwritten
    BY DEF RegistryInv
  <1> QED BY <1>1, RegistryInvariant, PTL
=============================================================================
