------------------------ MODULE FastQReceiver_proofs ------------------------
(***************************************************************************)
(* Proofs about FastQReceiver, for any set of sources, any number of       *)
(* descriptors and any ring capacity, in both builds.                      *)
(*                                                                         *)
(* The argument: an eventfd belongs to one ring from the moment it is      *)
(* opened (OneOwner), so its counter and the receiver's `cnt` together     *)
(* count the messages of that ring (Counted), and a ring that the copies   *)
(* of select() miss has its creator at the notify eventfd, or the notify   *)
(* eventfd already written (Covered).                                      *)
(***************************************************************************)
EXTENDS FastQReceiver, TLAPS

-----------------------------------------------------------------------------
(* Descriptors and counters.                                               *)

\* Descriptors are numbers, from the notify eventfd upwards.
LEMMA Descriptors ==
  /\ Notify \in Fd
  /\ \A f \in Fd : f \in Nat /\ f >= Notify
BY ReceiverAssumption DEF Fd, Notify

\* The next descriptor is one, if the table is not full.
LEMMA NextDescriptor ==
  ASSUME nextFd \in Notify + 1 .. MaxFd + 1, nextFd <= MaxFd
  PROVE  /\ nextFd \in Fd /\ nextFd # Notify
         /\ nextFd + 1 \in Notify + 1 .. MaxFd + 1
BY ReceiverAssumption DEF Fd, Notify

\* eventfd_write keeps the counters numbers.
LEMMA EventType ==
  ASSUME NEW f \in Fd, event \in [Fd -> Nat], Write(f)
  PROVE  event' \in [Fd -> Nat]
BY DEF Write

-----------------------------------------------------------------------------
(* The steps of the sources.                                               *)

\* A call of FastQSend changes nothing but where its thread is.
LEMMA CallSendStep ==
  ASSUME ReceiverInv, NEW s \in Source, CallSend(s)
  PROVE  ReceiverInv'
<1> USE DEF ReceiverInv, CallSend, setup, receiver, Goto
<1>1. TypeOK'
  BY DEF TypeOK, SourcePC
<1>2. Progress'
  BY DEF TypeOK, Progress, Counted
<1>3. OneOwner'
  BY DEF OneOwner
<1>4. WatchedHaveRings'
  BY DEF WatchedHaveRings
<1>5. Counted'
  <2>1. \A u \in Source : Owes(u)' <=> Owes(u)
    BY DEF Owes
  <2>2. \A u \in Source : spc'[u] = "event" <=> spc[u] = "event"
    OBVIOUS
  <2>3. QED
    BY <2>1, <2>2 DEF Counted, Announced
<1>6. ReceiverNeverStuck'
  BY DEF ReceiverNeverStuck
<1>7. Covered'
  BY DEF Covered
<1>8. PassSound'
  BY DEF PassSound
<1>9. QED
  BY <1>1, <1>2, <1>3, <1>4, <1>5, <1>6, <1>7, <1>8

\* Neither does a call that creates the ring; only the calls of Creators do.
LEMMA CallCreateStep ==
  ASSUME ReceiverInv, NEW s \in Source, NEW c \in {"FastQCreateModule", "FastQAddSet"}, CallCreate(s, c)
  PROVE  ReceiverInv'
<1> USE DEF ReceiverInv, CallCreate, setup, receiver, Goto
<1>1. TypeOK'
  BY DEF TypeOK, SourcePC
<1>2. Progress'
  BY DEF TypeOK, Progress, Counted
<1>3. OneOwner'
  BY DEF OneOwner
<1>4. WatchedHaveRings'
  BY DEF WatchedHaveRings
<1>5. Counted'
  <2>1. \A u \in Source : Owes(u)' <=> Owes(u)
    BY DEF Owes
  <2>2. \A u \in Source : spc'[u] = "event" <=> spc[u] = "event"
    OBVIOUS
  <2>3. QED
    BY <2>1, <2>2 DEF Counted, Announced
<1>6. ReceiverNeverStuck'
  BY DEF ReceiverNeverStuck
<1>7. Covered'
  BY DEF Covered
<1>8. PassSound'
  BY DEF PassSound
<1>9. QED
  BY <1>1, <1>2, <1>3, <1>4, <1>5, <1>6, <1>7, <1>8

\* The new descriptor is nobody else's, and nothing is counted on it yet.
LEMMA OpenEventfdStep ==
  ASSUME ReceiverInv, NEW s \in Source, OpenEventfd(s)
  PROVE  ReceiverInv'
<1> USE DEF ReceiverInv, OpenEventfd, receiver, Goto
<1>1. TypeOK'
  <2>1. nextFd \in Fd /\ nextFd' \in Notify + 1 .. MaxFd + 1
    BY NextDescriptor DEF TypeOK
  <2>2. QED
    BY <2>1 DEF TypeOK, SourcePC
<1>2. Progress'
  BY DEF TypeOK, Progress
<1>3. OneOwner'
  <2>1. /\ nextFd \in Fd /\ nextFd # Notify /\ nextFd' = nextFd + 1
        /\ ringFd' = [ringFd EXCEPT ![s] = nextFd] /\ ringFd[s] = Notify
    BY NextDescriptor DEF TypeOK, Progress
  <2>2. \A u \in Source : ringFd[u] \in Nat /\ ringFd[u] < nextFd /\ nextFd \in Nat
    BY Descriptors, <2>1 DEF TypeOK, OneOwner
  <2>3. \A f \in Fd : tlb[f] # NoSource => tlb[f] \in Source /\ tlb[f] # s
    BY <2>1 DEF TypeOK, OneOwner
  <2>4. \A u \in Source : ringFd'[u] < nextFd'
    BY <2>1, <2>2
  <2>5. \A u, v \in Source : ringFd'[u] = ringFd'[v] => ringFd'[u] = Notify \/ u = v
    BY <2>1, <2>2 DEF OneOwner
  <2>6. \A u \in Source :
          ringFd'[u] # Notify /\ spc'[u] # "tlb" => tlb'[ringFd'[u]] = u
    BY <2>1 DEF TypeOK, OneOwner
  <2>7. \A f \in Fd : tlb'[f] # NoSource => f # Notify /\ ringFd'[tlb'[f]] = f
    BY <2>1, <2>3 DEF OneOwner
  <2>8. QED
    BY <2>4, <2>5, <2>6, <2>7 DEF OneOwner
<1>4. WatchedHaveRings'
  <2>1. ringFd[s] = Notify /\ ringFd' = [ringFd EXCEPT ![s] = nextFd]
    BY DEF Progress
  <2>2. ASSUME NEW f \in (readset \cup ready) \ {Notify}
        PROVE  tlb[f] # NoSource /\ ringFd'[tlb[f]] = f
    BY <2>1 DEF WatchedHaveRings
  <2>3. QED
    BY <2>2 DEF WatchedHaveRings
<1>5. Counted'
  <2>1. \A u \in Source : Owes(u)' <=> Owes(u)
    BY DEF Owes
  <2>2. \A u \in Source : spc'[u] = "event" <=> spc[u] = "event"
    OBVIOUS
  <2>3. nextFd \in Fd /\ nextFd # Notify /\ ringFd'[s] = nextFd
    BY NextDescriptor DEF TypeOK
  <2>4. event[nextFd] = 0
    BY <2>3, Descriptors DEF Counted
  <2>5. queue[s] = 0 /\ ~Owes(s)
    <3>1. queue[s] = 0 /\ ringFd[s] = Notify
      BY DEF Progress
    <3>2. tlb[curr] # NoSource => ringFd[tlb[curr]] # Notify
      BY DEF TypeOK, OneOwner
    <3>3. QED
      BY <3>1, <3>2 DEF PassSound, Owes
  <2>6. ASSUME NEW u \in Source
        PROVE  queue'[u] = IF ringFd'[u] = Notify THEN 0 ELSE Announced(u)'
    <3>1. CASE u = s
      BY <3>1, <2>1, <2>2, <2>3, <2>4, <2>5 DEF Announced, One
    <3>2. CASE u # s
      BY <3>2, <2>1, <2>2 DEF Counted, Announced
    <3>3. QED
      BY <3>1, <3>2
  <2>7. \A f \in Fd : f >= nextFd' => event'[f] = 0
    BY Descriptors DEF Counted, TypeOK
  <2>8. QED
    BY <2>6, <2>7 DEF Counted
<1>6. ReceiverNeverStuck'
  BY DEF ReceiverNeverStuck
<1>7. Covered'
  BY Descriptors DEF TypeOK, Progress, Covered
<1>8. PassSound'
  BY DEF PassSound
<1>9. QED
  BY <1>1, <1>2, <1>3, <1>4, <1>5, <1>6, <1>7, <1>8

\* The descriptor leads to its ring; it led nowhere before.
LEMMA StoreTlbStep ==
  ASSUME ReceiverInv, NEW s \in Source, StoreTlb(s)
  PROVE  ReceiverInv'
<1> USE DEF ReceiverInv, StoreTlb, receiver, Goto
<1>1. TypeOK'
  BY DEF TypeOK, SourcePC
<1>2. Progress'
  BY DEF Progress
<1>3. OneOwner'
  <2>1. /\ ringFd[s] \in Fd /\ ringFd[s] # Notify
        /\ \A u \in Source : ringFd[u] \in Fd
        /\ \A f \in Fd : tlb'[f] = IF f = ringFd[s] THEN s ELSE tlb[f]
        /\ \A u \in Source : spc'[u] # "tlb" => u = s \/ spc[u] # "tlb"
    BY DEF TypeOK, Progress
  <2>2. /\ \A u \in Source : ringFd[u] < nextFd
        /\ \A u, v \in Source : ringFd[u] = ringFd[v] => ringFd[u] = Notify \/ u = v
        /\ \A u \in Source : ringFd[u] # Notify /\ spc[u] # "tlb" => tlb[ringFd[u]] = u
        /\ \A f \in Fd : tlb[f] # NoSource => f # Notify /\ ringFd[tlb[f]] = f
    BY DEF OneOwner
  <2>3. ringFd' = ringFd /\ nextFd' = nextFd
    OBVIOUS
  <2> HIDE DEF ReceiverInv, StoreTlb
  <2>4. \A u \in Source : ringFd[u] # Notify /\ spc'[u] # "tlb" => tlb'[ringFd[u]] = u
    BY <2>1, <2>2
  <2>5. \A f \in Fd : tlb'[f] # NoSource => f # Notify /\ ringFd[tlb'[f]] = f
    BY <2>1, <2>2
  <2>6. QED
    BY ONLY <2>2, <2>3, <2>4, <2>5 DEF OneOwner
<1>4. WatchedHaveRings'
  BY DEF TypeOK, OneOwner, WatchedHaveRings
<1>5. Counted'
  <2>1. \A u \in Source : Owes(u)' <=> Owes(u)
    BY DEF TypeOK, OneOwner, PassSound, Owes
  <2>2. \A u \in Source : spc'[u] = "event" <=> spc[u] = "event"
    OBVIOUS
  <2>3. QED
    BY <2>1, <2>2 DEF Counted, Announced
<1>6. ReceiverNeverStuck'
  BY DEF TypeOK, OneOwner, PassSound, ReceiverNeverStuck
<1>7. Covered'
  BY DEF Covered
<1>8. PassSound'
  BY DEF TypeOK, OneOwner, PassSound
<1>9. QED
  BY <1>1, <1>2, <1>3, <1>4, <1>5, <1>6, <1>7, <1>8

\* What is watched from now on is in _evtfd_to_ring.
LEMMA WatchStep ==
  ASSUME ReceiverInv, NEW s \in Source, Watch(s)
  PROVE  ReceiverInv'
<1> USE DEF ReceiverInv, Watch, receiver, Goto
<1>1. TypeOK'
  BY DEF TypeOK, SourcePC
<1>2. Progress'
  BY DEF TypeOK, Progress
<1>3. OneOwner'
  BY DEF TypeOK, OneOwner
<1>4. WatchedHaveRings'
  <2>1. tlb[ringFd[s]] = s
    BY DEF TypeOK, Progress, OneOwner
  <2>2. ASSUME NEW f \in (readset' \cup ready) \ {Notify}
        PROVE  tlb[f] # NoSource /\ ringFd[tlb[f]] = f
    <3>1. CASE f = ringFd[s]
      BY <2>1, <3>1, ReceiverAssumption
    <3>2. CASE f # ringFd[s]
      BY <3>2 DEF WatchedHaveRings
    <3>3. QED
      BY <3>1, <3>2
  <2>3. QED
    BY <2>2 DEF WatchedHaveRings
<1>5. Counted'
  <2>1. \A u \in Source : Owes(u)' <=> Owes(u)
    BY DEF Owes
  <2>2. \A u \in Source : spc'[u] = "event" <=> spc[u] = "event"
    BY DEF TypeOK
  <2>3. QED
    BY <2>1, <2>2 DEF Counted, Announced
<1>6. ReceiverNeverStuck'
  BY DEF ReceiverNeverStuck
<1>7. Covered'
  BY DEF TypeOK, Covered
<1>8. PassSound'
  BY DEF PassSound
<1>9. QED
  BY <1>1, <1>2, <1>3, <1>4, <1>5, <1>6, <1>7, <1>8

\* maxfd covers the new descriptor from here on.
LEMMA StoreMaxfdStep ==
  ASSUME ReceiverInv, NEW s \in Source, StoreMaxfd(s)
  PROVE  ReceiverInv'
<1> USE DEF ReceiverInv, StoreMaxfd, receiver, Goto
<1>1. TypeOK'
  BY DEF TypeOK, SourcePC
<1>2. Progress'
  BY DEF Progress
<1>3. OneOwner'
  BY DEF OneOwner
<1>4. WatchedHaveRings'
  BY DEF WatchedHaveRings
<1>5. Counted'
  <2>1. \A u \in Source : Owes(u)' <=> Owes(u)
    BY DEF Owes
  <2>2. \A u \in Source : spc'[u] = "event" <=> spc[u] = "event"
    OBVIOUS
  <2>3. QED
    BY <2>1, <2>2 DEF Counted, Announced
<1>6. ReceiverNeverStuck'
  BY DEF ReceiverNeverStuck
<1>7. Covered'
  <2>1. /\ maxfd \in Nat /\ maxfd' \in Nat /\ maxfd <= maxfd' /\ ringFd[s] <= maxfd'
        /\ \A u \in Source : ringFd[u] \in Nat
    BY Descriptors DEF TypeOK
  <2>2. \A u \in Source : u # s => spc'[u] = spc[u]
    OBVIOUS
  <2>3. \A u \in Source : build = "select" /\ (u \in ring \/ spc'[u] = "ring") =>
          ringFd[u] <= maxfd'
    BY <2>1, <2>2 DEF Covered
  <2>4. QED
    BY <2>2, <2>3 DEF Covered
<1>8. PassSound'
  BY DEF PassSound
<1>9. QED
  BY <1>1, <1>2, <1>3, <1>4, <1>5, <1>6, <1>7, <1>8

\* A ring is published watched and empty, before the notify eventfd is written.
LEMMA StoreRingStep ==
  ASSUME ReceiverInv, NEW s \in Source, StoreRing(s)
  PROVE  ReceiverInv'
<1> USE DEF ReceiverInv, StoreRing, receiver, Goto
<1>1. TypeOK'
  BY DEF TypeOK, SourcePC
<1>2. Progress'
  BY DEF TypeOK, Progress
<1>3. OneOwner'
  BY DEF OneOwner
<1>4. WatchedHaveRings'
  BY DEF WatchedHaveRings
<1>5. Counted'
  <2>1. \A u \in Source : Owes(u)' <=> Owes(u)
    BY DEF Owes
  <2>2. \A u \in Source : spc'[u] = "event" <=> spc[u] = "event"
    OBVIOUS
  <2>3. QED
    BY <2>1, <2>2 DEF Counted, Announced
<1>6. ReceiverNeverStuck'
  BY DEF ReceiverNeverStuck
<1>7. Covered'
  BY DEF TypeOK, Progress, Covered
<1>8. PassSound'
  BY DEF PassSound
<1>9. QED
  BY <1>1, <1>2, <1>3, <1>4, <1>5, <1>6, <1>7, <1>8

\* The announcement ends the wait that misses the ring.
LEMMA WriteNotifyStep ==
  ASSUME ReceiverInv, NEW s \in Source, WriteNotify(s)
  PROVE  ReceiverInv'
<1> USE DEF ReceiverInv, WriteNotify, setup, receiver, Goto
<1>1. TypeOK'
  <2>1. event' \in [Fd -> Nat]
    BY EventType, Descriptors DEF TypeOK
  <2>2. QED
    BY <2>1 DEF TypeOK, SourcePC
<1>2. Progress'
  BY DEF Progress
<1>3. OneOwner'
  BY DEF OneOwner
<1>4. WatchedHaveRings'
  BY DEF WatchedHaveRings
<1>5. Counted'
  BY Descriptors DEF TypeOK, Counted, Announced, Owes, Write
<1>6. ReceiverNeverStuck'
  BY DEF TypeOK, ReceiverNeverStuck, Write
<1>7. Covered'
  BY Descriptors DEF TypeOK, Covered, Write
<1>8. PassSound'
  BY DEF TypeOK, PassSound, Write
<1>9. QED
  BY <1>1, <1>2, <1>3, <1>4, <1>5, <1>6, <1>7, <1>8

\* The message is in the ring, its event is owed by the sender.
LEMMA EnqueueStep ==
  ASSUME ReceiverInv, NEW s \in Source, Enqueue(s)
  PROVE  ReceiverInv'
<1> USE DEF ReceiverInv, Enqueue, setup, receiver, Goto
<1>1. TypeOK'
  <2>1. queue[s] + 1 \in 0 .. Capacity
    BY ReceiverAssumption DEF TypeOK
  <2>2. QED
    BY <2>1 DEF TypeOK, SourcePC
<1>2. Progress'
  BY DEF Progress
<1>3. OneOwner'
  BY DEF OneOwner
<1>4. WatchedHaveRings'
  BY DEF WatchedHaveRings
<1>5. Counted'
  <2>1. \A u \in Source : Owes(u)' <=> Owes(u)
    BY DEF Owes
  <2>2. ringFd[s] # Notify /\ queue[s] = Announced(s)
    BY DEF TypeOK, Progress, Counted
  <2>3. ASSUME NEW u \in Source
        PROVE  queue'[u] = IF ringFd'[u] = Notify THEN 0 ELSE Announced(u)'
    <3>1. CASE u = s
      BY <3>1, <2>1, <2>2 DEF TypeOK, Announced, One
    <3>2. CASE u # s
      BY <3>2, <2>1 DEF Counted, Announced
    <3>3. QED
      BY <3>1, <3>2
  <2>4. QED
    BY <2>3 DEF Counted
<1>6. ReceiverNeverStuck'
  BY DEF TypeOK, ReceiverNeverStuck
<1>7. Covered'
  BY DEF Covered
<1>8. PassSound'
  BY DEF PassSound
<1>9. QED
  BY <1>1, <1>2, <1>3, <1>4, <1>5, <1>6, <1>7, <1>8

\* The event is counted on the eventfd of the ring of s and on no other.
LEMMA WriteEventStep ==
  ASSUME ReceiverInv, NEW s \in Source, WriteEvent(s)
  PROVE  ReceiverInv'
<1> USE DEF ReceiverInv, WriteEvent, setup, receiver, Goto
<1>1. TypeOK'
  <2>1. event' \in [Fd -> Nat]
    BY EventType DEF TypeOK
  <2>2. QED
    BY <2>1 DEF TypeOK, SourcePC
<1>2. Progress'
  BY DEF Progress
<1>3. OneOwner'
  BY DEF OneOwner
<1>4. WatchedHaveRings'
  BY DEF WatchedHaveRings
<1>5. Counted'
  BY Descriptors DEF TypeOK, OneOwner, Counted, Announced, Owes, One, Write
<1>6. ReceiverNeverStuck'
  BY DEF TypeOK, ReceiverNeverStuck, Write
<1>7. Covered'
  BY DEF TypeOK, Covered, Write
<1>8. PassSound'
  BY DEF TypeOK, PassSound, Write
<1>9. QED
  BY <1>1, <1>2, <1>3, <1>4, <1>5, <1>6, <1>7, <1>8

-----------------------------------------------------------------------------
(* The steps of the receiver.                                              *)

\* The copy has every published ring.
LEMMA LoadReadsetStep ==
  ASSUME ReceiverInv, LoadReadset
  PROVE  ReceiverInv'
<1> USE DEF ReceiverInv, LoadReadset, setup, sender
<1>1. TypeOK'
  BY DEF TypeOK, ReceiverPC
<1>2. Progress'
  BY DEF Progress
<1>3. OneOwner'
  BY DEF OneOwner
<1>4. WatchedHaveRings'
  BY DEF WatchedHaveRings
<1>5. Counted'
  BY DEF Counted, Announced, Owes
<1>6. ReceiverNeverStuck'
  BY DEF ReceiverNeverStuck
<1>7. Covered'
  BY DEF TypeOK, Covered
<1>8. PassSound'
  BY DEF PassSound
<1>9. QED
  BY <1>1, <1>2, <1>3, <1>4, <1>5, <1>6, <1>7, <1>8

\* So has the copy of maxfd.
LEMMA LoadMaxfdStep ==
  ASSUME ReceiverInv, LoadMaxfd
  PROVE  ReceiverInv'
<1> USE DEF ReceiverInv, LoadMaxfd, setup, sender
<1>1. TypeOK'
  BY Descriptors DEF TypeOK, ReceiverPC
<1>2. Progress'
  BY DEF Progress
<1>3. OneOwner'
  BY DEF OneOwner
<1>4. WatchedHaveRings'
  BY DEF WatchedHaveRings
<1>5. Counted'
  BY DEF Counted, Announced, Owes
<1>6. ReceiverNeverStuck'
  BY DEF ReceiverNeverStuck
<1>7. Covered'
  BY DEF TypeOK, Covered
<1>8. PassSound'
  BY DEF PassSound
<1>9. QED
  BY <1>1, <1>2, <1>3, <1>4, <1>5, <1>6, <1>7, <1>8

\* The descriptors that are returned are watched and counted on.
LEMMA WaitStep ==
  ASSUME ReceiverInv, Wait
  PROVE  ReceiverInv'
<1> USE DEF ReceiverInv, Wait, setup, sender
<1>1. TypeOK'
  BY DEF TypeOK, ReceiverPC, Watched
<1>2. Progress'
  BY DEF Progress
<1>3. OneOwner'
  BY DEF OneOwner
<1>4. WatchedHaveRings'
  BY DEF WatchedHaveRings, Watched
<1>5. Counted'
  BY DEF Counted, Announced, Owes
<1>6. ReceiverNeverStuck'
  BY DEF ReceiverNeverStuck
<1>7. Covered'
  BY DEF Covered
<1>8. PassSound'
  BY DEF PassSound
<1>9. QED
  BY <1>1, <1>2, <1>3, <1>4, <1>5, <1>6, <1>7, <1>8

\* The notify eventfd is drained after the wait, never before it.
LEMMA ScanNotifyStep ==
  ASSUME ReceiverInv, ScanNotify
  PROVE  ReceiverInv'
<1> USE DEF ReceiverInv, ScanNotify, setup, sender
<1>1. TypeOK'
  BY Descriptors DEF TypeOK
<1>2. Progress'
  BY DEF Progress
<1>3. OneOwner'
  BY DEF OneOwner
<1>4. WatchedHaveRings'
  BY DEF WatchedHaveRings
<1>5. Counted'
  BY DEF Counted, Announced, Owes
<1>6. ReceiverNeverStuck'
  BY DEF ReceiverNeverStuck
<1>7. Covered'
  BY DEF Covered
<1>8. PassSound'
  BY DEF PassSound
<1>9. QED
  BY <1>1, <1>2, <1>3, <1>4, <1>5, <1>6, <1>7, <1>8

\* The descriptor that is found leads to a ring whose event is counted.
LEMMA ScanRingStep ==
  ASSUME ReceiverInv, NEW f \in Fd, ScanRing(f)
  PROVE  ReceiverInv'
<1> USE DEF ReceiverInv, ScanRing, setup, sender
<1>1. TypeOK'
  BY DEF TypeOK, ReceiverPC
<1>2. Progress'
  BY DEF Progress
<1>3. OneOwner'
  BY DEF OneOwner
<1>4. WatchedHaveRings'
  BY DEF WatchedHaveRings
<1>5. Counted'
  BY DEF Counted, Announced, Owes
<1>6. ReceiverNeverStuck'
  BY DEF PassSound, ReceiverNeverStuck, IsNext
<1>7. Covered'
  BY DEF Covered
<1>8. PassSound'
  BY DEF PassSound
<1>9. QED
  BY <1>1, <1>2, <1>3, <1>4, <1>5, <1>6, <1>7, <1>8

\* Nothing is left of the pass.
LEMMA ScanEndStep ==
  ASSUME ReceiverInv, ScanEnd
  PROVE  ReceiverInv'
<1> USE DEF ReceiverInv, ScanEnd, setup, sender
<1>1. TypeOK'
  BY Descriptors DEF TypeOK, ReceiverPC
<1>2. Progress'
  BY DEF Progress
<1>3. OneOwner'
  BY DEF OneOwner
<1>4. WatchedHaveRings'
  BY DEF WatchedHaveRings
<1>5. Counted'
  BY DEF Counted, Announced, Owes
<1>6. ReceiverNeverStuck'
  BY DEF ReceiverNeverStuck
<1>7. Covered'
  BY DEF Covered
<1>8. PassSound'
  BY DEF PassSound
<1>9. QED
  BY <1>1, <1>2, <1>3, <1>4, <1>5, <1>6, <1>7, <1>8

\* The count moves from the eventfd to the receiver.
LEMMA ReadEventStep ==
  ASSUME ReceiverInv, ReadEvent
  PROVE  ReceiverInv'
<1> USE DEF ReceiverInv, ReadEvent, setup, sender
<1>1. TypeOK'
  BY DEF TypeOK, ReceiverPC
<1>2. Progress'
  BY DEF Progress
<1>3. OneOwner'
  BY DEF OneOwner
<1>4. WatchedHaveRings'
  BY DEF WatchedHaveRings
<1>5. Counted'
  BY DEF TypeOK, OneOwner, PassSound, Counted, Announced, Owes
<1>6. ReceiverNeverStuck'
  BY DEF TypeOK, OneOwner, PassSound, Counted, Announced, One,
     ReceiverNeverStuck
<1>7. Covered'
  BY DEF Covered
<1>8. PassSound'
  BY DEF PassSound
<1>9. QED
  BY <1>1, <1>2, <1>3, <1>4, <1>5, <1>6, <1>7, <1>8

\* One message and one of the count.
LEMMA DeliverStep ==
  ASSUME ReceiverInv, Deliver
  PROVE  ReceiverInv'
<1> USE DEF ReceiverInv, Deliver, setup, sender
<1>1. TypeOK'
  <2>1. tlb[curr] \in Source
    BY DEF TypeOK, PassSound
  <2>2. queue[tlb[curr]] - 1 \in 0 .. Capacity /\ cnt - 1 \in Nat
    BY <2>1, ReceiverAssumption DEF TypeOK
  <2>3. QED
    BY <2>1, <2>2 DEF TypeOK, ReceiverPC
<1>2. Progress'
  BY DEF Progress
<1>3. OneOwner'
  BY DEF OneOwner
<1>4. WatchedHaveRings'
  BY DEF WatchedHaveRings
<1>5. Counted'
  BY DEF TypeOK, Counted, Announced, Owes, One
<1>6. ReceiverNeverStuck'
  BY DEF ReceiverNeverStuck
<1>7. Covered'
  BY DEF Covered
<1>8. PassSound'
  BY DEF PassSound
<1>9. QED
  BY <1>1, <1>2, <1>3, <1>4, <1>5, <1>6, <1>7, <1>8

\* The handler runs between two messages.
LEMMA HandlerStep ==
  ASSUME ReceiverInv, Handler
  PROVE  ReceiverInv'
<1> USE DEF ReceiverInv, Handler, setup, sender
<1>1. TypeOK'
  BY DEF TypeOK, ReceiverPC
<1>2. Progress'
  BY DEF Progress
<1>3. OneOwner'
  BY DEF OneOwner
<1>4. WatchedHaveRings'
  BY DEF WatchedHaveRings
<1>5. Counted'
  BY DEF Counted, Announced, Owes
<1>6. ReceiverNeverStuck'
  BY DEF TypeOK, OneOwner, PassSound, Counted, Announced, Owes, One,
     ReceiverNeverStuck
<1>7. Covered'
  BY DEF Covered
<1>8. PassSound'
  BY DEF PassSound
<1>9. QED
  BY <1>1, <1>2, <1>3, <1>4, <1>5, <1>6, <1>7, <1>8

\* The count is used up: the receiver owes nothing.
LEMMA DeliverEndStep ==
  ASSUME ReceiverInv, DeliverEnd
  PROVE  ReceiverInv'
<1> USE DEF ReceiverInv, DeliverEnd, setup, sender
<1>1. TypeOK'
  BY DEF TypeOK, ReceiverPC
<1>2. Progress'
  BY DEF Progress
<1>3. OneOwner'
  BY DEF OneOwner
<1>4. WatchedHaveRings'
  BY DEF WatchedHaveRings
<1>5. Counted'
  BY DEF Counted, Announced
<1>6. ReceiverNeverStuck'
  BY DEF ReceiverNeverStuck
<1>7. Covered'
  BY DEF Covered
<1>8. PassSound'
  BY DEF PassSound
<1>9. QED
  BY <1>1, <1>2, <1>3, <1>4, <1>5, <1>6, <1>7, <1>8

-----------------------------------------------------------------------------
(* The theorems.                                                           *)

\* No ring is there at first.
LEMMA InitReceiverInv == Init => ReceiverInv
<1> SUFFICES ASSUME Init PROVE ReceiverInv
  OBVIOUS
<1> USE DEF Init, ReceiverInv
<1>1. TypeOK
  <2>1. nextFd \in Notify + 1 .. MaxFd + 1
    BY ReceiverAssumption DEF Notify
  <2>2. QED
    BY <2>1, Descriptors, ReceiverAssumption DEF TypeOK, SourcePC, ReceiverPC
<1>2. Progress /\ OneOwner /\ WatchedHaveRings
  BY Descriptors DEF Progress, OneOwner, WatchedHaveRings
<1>3. Counted /\ PassSound /\ ReceiverNeverStuck /\ Covered
  BY DEF Counted, PassSound, ReceiverNeverStuck, Covered
<1>4. QED
  BY <1>1, <1>2, <1>3

\* A step that changes nothing keeps the invariant.
LEMMA StutterStep ==
  ASSUME ReceiverInv, UNCHANGED vars
  PROVE  ReceiverInv'
<1> USE DEF vars, setup, sender, receiver, ReceiverInv
<1>1. TypeOK' /\ Progress' /\ OneOwner' /\ WatchedHaveRings'
  BY DEF TypeOK, Progress, OneOwner, WatchedHaveRings
<1>2. Counted' /\ PassSound' /\ ReceiverNeverStuck' /\ Covered'
  BY DEF Counted, Announced, Owes, PassSound, ReceiverNeverStuck, Covered
<1>3. QED
  BY <1>1, <1>2

\* Every step of the program keeps the invariant.
LEMMA ReceiverInvStep == ReceiverInv /\ [Next]_vars => ReceiverInv'
<1> SUFFICES ASSUME ReceiverInv, [Next]_vars PROVE ReceiverInv'
  OBVIOUS
<1>1. ASSUME NEW s \in Source, CallSend(s) \/ SourceStep(s)
      PROVE  ReceiverInv'
  BY <1>1, CallSendStep, OpenEventfdStep, StoreTlbStep, WatchStep,
     StoreMaxfdStep, StoreRingStep, WriteNotifyStep, EnqueueStep,
     WriteEventStep DEF SourceStep
<1>2. ASSUME NEW s \in Source,
             NEW c \in {"FastQCreateModule", "FastQAddSet"}, CallCreate(s, c)
      PROVE  ReceiverInv'
  BY <1>2, CallCreateStep
<1>3. CASE RecvStep
  BY <1>3, LoadReadsetStep, LoadMaxfdStep, WaitStep, ScanNotifyStep,
     ScanRingStep, ScanEndStep, ReadEventStep, DeliverStep, HandlerStep,
     DeliverEndStep DEF RecvStep
<1>4. CASE UNCHANGED vars
  BY <1>4, StutterStep
<1>5. QED
  BY <1>1, <1>2, <1>3, <1>4 DEF Next

\* FastQRecv and the threads that create rings and send keep the invariant of
\* the receiving side: for any number of sources and descriptors, any ring
\* capacity, both builds.
THEOREM ReceiverInvariant == Spec => []ReceiverInv
<1>1. QED
  BY InitReceiverInv, ReceiverInvStep, PTL DEF Spec

\* The variables of the receiving side keep their types: no descriptor, count
\* or queue leaves its range.
THEOREM ReceiverTypeOK == Spec => []TypeOK
<1>1. ReceiverInv => TypeOK
  BY DEF ReceiverInv
<1>2. QED
  BY <1>1, ReceiverInvariant, PTL

\* Every message of a published ring is announced once, on the eventfd of that
\* ring: FastQSend writes after __FastQSend, FastQRecv takes as many as it read.
THEOREM MessagesAreAnnounced == Spec => []EventsMatchMessages
<1>1. ReceiverInv => EventsMatchMessages
  BY DEF ReceiverInv, TypeOK, Progress, Counted, EventsMatchMessages
<1>2. QED
  BY <1>1, ReceiverInvariant, PTL

\* Inside a pass of its scan FastQRecv is never left polling an empty ring or
\* blocked in eventfd_read.
THEOREM PassNeverStuck == Spec => []ReceiverNeverStuck
<1>1. ReceiverInv => ReceiverNeverStuck
  BY DEF ReceiverInv
<1>2. QED
  BY <1>1, ReceiverInvariant, PTL

\* A descriptor that select() or epoll_wait() may return leads, through
\* _evtfd_to_ring, to the ring that it belongs to.
THEOREM WatchedLeadToRings == Spec => []WatchedHaveRings
<1>1. ReceiverInv => WatchedHaveRings
  BY DEF ReceiverInv
<1>2. QED
  BY <1>1, ReceiverInvariant, PTL

\* The notify eventfd makes up for the stale copy that select() waits on, if
\* every call that creates a ring writes it, as __create_ring_when_send and
\* FastQCreateModule do and FastQAddSet does not.
THEOREM WakeupIsKept ==
  ASSUME <<"select", "FastQAddSet">> \notin Creators
  PROVE  Spec => []NoLostWakeup
<1>1. ReceiverInv => NoLostWakeup
  <2> SUFFICES ASSUME ReceiverInv, rpc = "wait",
                      NEW s \in ring, event[ringFd[s]] > 0
               PROVE  ringFd[s] \in Watched \/ event[Notify] > 0
    BY DEF NoLostWakeup
  <2>1. build \in {"select", "epoll"} /\ s \in Source /\ ringFd[s] # Notify
    BY ReceiverAssumption DEF ReceiverInv, TypeOK, Progress
  <2>2. spc[s] # "notify"
    <3>1. queue[s] = Announced(s) /\ ~Owes(s)
      BY <2>1 DEF ReceiverInv, Counted, Owes
    <3>2. queue[s] # 0
      BY <2>1, <3>1 DEF ReceiverInv, TypeOK, Announced, One
    <3>3. QED
      BY <2>1, <3>2 DEF ReceiverInv, Progress
  <2>3. CASE build = "epoll"
    BY <2>1, <2>3 DEF ReceiverInv, Covered, Watched
  <2>4. CASE build = "select"
    BY <2>1, <2>2, <2>4 DEF ReceiverInv, Covered, Watched
  <2>5. QED
    BY <2>1, <2>3, <2>4
<1>2. QED
  BY <1>1, ReceiverInvariant, PTL
=============================================================================
