--------------------------- MODULE FastQRing_proofs ---------------------------
(***************************************************************************)
(* Proofs about FastQRing, for every ring size, every counter width and    *)
(* every set of messages.                                                  *)
(*                                                                         *)
(* The argument: each thread acts on an old value of the index the other   *)
(* one stores (sh, rt), and an old value is always on the safe side.  With *)
(* the count kept by the eventfd this makes the ring hold, in order, what  *)
(* was accepted and not yet taken (RingInv).                               *)
(***************************************************************************)
EXTENDS FastQRing, TLAPS

-----------------------------------------------------------------------------
(* Index arithmetic: `& _size` wraps one step past either end.             *)

\* `(i + 1) & _size` is the next node, the first one after the last.
LEMMA NextIndexWraps ==
  ASSUME NEW i \in Index
  PROVE  NextIndex(i) = IF i + 1 = RingSize THEN 0 ELSE i + 1
BY RingAssumption DEF NextIndex, Index

\* `(i - 1) & _size` is the previous node, the last one before the first.
LEMMA PrevIndexWraps ==
  ASSUME NEW i \in Index
  PROVE  PrevIndex(i) = IF i = 0 THEN RingSize - 1 ELSE i - 1
BY RingAssumption DEF PrevIndex, Index

\* A statistics counter wraps to zero at the end of its width.
LEMMA CountUpWraps ==
  ASSUME NEW n \in 0 .. CounterMod - 1
  PROVE  CountUp(n) = IF n + 1 = CounterMod THEN 0 ELSE n + 1
BY RingAssumption DEF CountUp

\* The unsigned difference of two counters, without the modulus.
LEMMA CounterDifference ==
  ASSUME NEW e \in 0 .. CounterMod - 1, NEW d \in 0 .. CounterMod - 1
  PROVE  (e - d) % CounterMod = IF e >= d THEN e - d ELSE e - d + CounterMod
BY RingAssumption

\* Counting a message up moves the difference by one, within the width.
LEMMA EnqueueCounted ==
  ASSUME NEW e \in 0 .. CounterMod - 1, NEW d \in 0 .. CounterMod - 1,
         (e - d) % CounterMod < CounterMod - 1
  PROVE  (CountUp(e) - d) % CounterMod = ((e - d) % CounterMod) + 1
<1>1. CountUp(e) \in 0 .. CounterMod - 1
  BY CountUpWraps, RingAssumption
<1>2. (CountUp(e) - d) % CounterMod
        = IF CountUp(e) >= d THEN CountUp(e) - d ELSE CountUp(e) - d + CounterMod
  BY <1>1, CounterDifference
<1>3. (e - d) % CounterMod = IF e >= d THEN e - d ELSE e - d + CounterMod
  BY CounterDifference
<1>4. QED
  BY <1>2, <1>3, CountUpWraps, RingAssumption

\* Counting a message down, of at least one.
LEMMA DequeueCounted ==
  ASSUME NEW e \in 0 .. CounterMod - 1, NEW d \in 0 .. CounterMod - 1,
         (e - d) % CounterMod > 0
  PROVE  (e - CountUp(d)) % CounterMod = ((e - d) % CounterMod) - 1
<1>1. CountUp(d) \in 0 .. CounterMod - 1
  BY CountUpWraps, RingAssumption
<1>2. (e - CountUp(d)) % CounterMod
        = IF e >= CountUp(d) THEN e - CountUp(d) ELSE e - CountUp(d) + CounterMod
  BY <1>1, CounterDifference
<1>3. (e - d) % CounterMod = IF e >= d THEN e - d ELSE e - d + CounterMod
  BY CounterDifference
<1>4. QED
  BY <1>2, <1>3, CountUpWraps, RingAssumption

\* Storing the next tail adds one occupied node, if the ring is not full.
LEMMA DistanceGrows ==
  ASSUME NEW a \in Index, NEW b \in Index, Distance(a, b) < RingSize - 1
  PROVE  Distance(a, NextIndex(b)) = Distance(a, b) + 1
BY NextIndexWraps, RingAssumption DEF Distance, Index

\* Storing the next head frees one node, if the ring is not empty.
LEMMA DistanceShrinks ==
  ASSUME NEW a \in Index, NEW b \in Index, Distance(a, b) > 0
  PROVE  Distance(NextIndex(a), b) = Distance(a, b) - 1
BY NextIndexWraps, RingAssumption DEF Distance, Index

\* An index of the ring is the index of a node.
LEMMA SlotInRing ==
  ASSUME NEW i \in Index
  PROVE  Slot(i) \in 1 .. RingSize
BY RingAssumption DEF Slot, Index

\* The occupied nodes are nodes of the ring, and the one at the tail, which
\* comes right after them, is not one of them.
LEMMA OccupiedNodes ==
  ASSUME head \in Index, tail \in Index
  PROVE  /\ Occupied \in 0 .. RingSize - 1
         /\ \A k \in 0 .. RingSize - 1 : NodeAt(k) \in 1 .. RingSize
         /\ \A k \in 0 .. RingSize - 1 : k < Occupied => NodeAt(k) # Slot(tail)
         /\ NodeAt(Occupied) = Slot(tail)
BY RingAssumption DEF Index, Occupied, Distance, NodeAt, Slot

-----------------------------------------------------------------------------
(* Each step of each thread keeps the inductive invariant.  The conjuncts a *)
(* step cannot disturb share a leaf.                                       *)

\* A call starts: no field of the ring moves.
LEMMA SendCallKeeps ==
  ASSUME RingInv, NEW f \in {"FastQSend", "FastQTrySend"}, NEW m \in Msg,
         SendCall(f, m)
  PROVE  RingInv'
<1> USE RingAssumption DEF RingInv, SendCall, ring_unchanged, receiver
<1>1. TypeOK'
  BY DEF TypeOK, SenderPC, Item
<1>2. SenderInv'
  BY DEF SenderInv, Occupied
<1>3. ReceiverInv' /\ EventsMatchMessages' /\ RingHoldsPending' /\ StatsMatch'
  BY DEF ReceiverInv, Occupied, EventsMatchMessages, Receiving,
         RingHoldsPending, NodeAt, StatsMatch, One
<1>4. QED
  BY <1>1, <1>2, <1>3

\* The head read now is the one that bounds the room later on.
LEMMA SendLoadHeadKeeps ==
  ASSUME RingInv, SendLoadHead
  PROVE  RingInv'
<1> USE RingAssumption DEF RingInv, SendLoadHead, ring_unchanged, receiver
<1>1. TypeOK'
  BY PrevIndexWraps DEF TypeOK, SenderPC, Index
<1>2. SenderInv'
  BY PrevIndexWraps DEF SenderInv, Occupied, TypeOK, Index, Distance
<1>3. ReceiverInv' /\ EventsMatchMessages' /\ RingHoldsPending' /\ StatsMatch'
  BY DEF ReceiverInv, Occupied, EventsMatchMessages, Receiving,
         RingHoldsPending, NodeAt, StatsMatch, One
<1>4. QED
  BY <1>1, <1>2, <1>3

\* The ring is not full for the head that was read, so it is not full.
LEMMA SendLoadTailKeeps ==
  ASSUME RingInv, SendLoadTail
  PROVE  RingInv'
<1> USE RingAssumption DEF RingInv, SendLoadTail, ring_unchanged, receiver
<1>1. TypeOK'
  BY DEF TypeOK, SenderPC
<1>2. SenderInv'
  BY DEF SenderInv, Occupied, TypeOK, Index, Distance, IsFull
<1>3. ReceiverInv' /\ EventsMatchMessages' /\ RingHoldsPending' /\ StatsMatch'
  BY DEF ReceiverInv, Occupied, EventsMatchMessages, Receiving,
         RingHoldsPending, NodeAt, StatsMatch, One
<1>4. QED
  BY <1>1, <1>2, <1>3

\* A refusal touches nothing of the ring.
LEMMA SendRefusedKeeps ==
  ASSUME RingInv, SendRefused
  PROVE  RingInv'
<1> USE RingAssumption DEF RingInv, SendRefused, ring_unchanged, receiver
<1>1. TypeOK'
  BY DEF TypeOK, SenderPC, Item, Index
<1>2. SenderInv'
  BY DEF SenderInv, Occupied
<1>3. ReceiverInv' /\ EventsMatchMessages' /\ RingHoldsPending' /\ StatsMatch'
  BY DEF ReceiverInv, Occupied, EventsMatchMessages, Receiving,
         RingHoldsPending, NodeAt, StatsMatch, One
<1>4. QED
  BY <1>1, <1>2, <1>3

\* The sender writes the node at the tail, which neither the accepted
\* messages nor the receiver use.
LEMMA SendCopyHeaderKeeps ==
  ASSUME RingInv, SendCopyHeader
  PROVE  RingInv'
<1> USE RingAssumption DEF RingInv, SendCopyHeader, receiver
<1>1. TypeOK'
  BY DEF TypeOK, SenderPC, Node, Index, Slot
<1>2. SenderInv'
  BY DEF SenderInv, Occupied, TypeOK, Index, Slot
<1>3. ReceiverInv'
  <2>1. /\ st = tail /\ tail \in Index /\ head \in Index
        /\ rpc \in {"copyHeader", "copyBody", "count", "publish"}
             => rh = head /\ Occupied > 0
    BY OccupiedNodes
       DEF TypeOK, SenderInv, ReceiverInv, EventsMatchMessages, Receiving, One
  <2>2. rpc \in {"copyHeader", "copyBody", "count", "publish"}
          => Slot(st) # Slot(rh)
    BY <2>1 DEF Occupied, Distance, Slot, Index
  <2>3. rpc \in {"copyHeader", "copyBody", "count", "publish"}
          => ringData'[Slot(rh)] = ringData[Slot(rh)]
    BY <2>1, <2>2 DEF TypeOK, Slot, Index
  <2>4. QED
    BY <2>3 DEF ReceiverInv, Occupied
<1>4. EventsMatchMessages' /\ StatsMatch'
  BY DEF EventsMatchMessages, Receiving, Occupied, StatsMatch
<1>5. RingHoldsPending'
  <2>1. st = tail /\ tail \in Index /\ UNCHANGED <<head, tail, rpc, pending>>
    BY DEF TypeOK, SenderInv
  <2>2. \A i \in 1 .. RingSize : i # Slot(tail) => ringData'[i] = ringData[i]
    BY <2>1 DEF TypeOK
  <2>3. \A k \in 0 .. RingSize - 1 : k < Occupied =>
          ringData'[NodeAt(k)] = ringData[NodeAt(k)]
    BY <2>1, <2>2, OccupiedNodes DEF TypeOK
  <2>4. QED
    BY <2>1, <2>3 DEF RingHoldsPending, Occupied, NodeAt
<1>6. QED
  BY <1>1, <1>2, <1>3, <1>4, <1>5

\* The same for the body, which completes the node.
LEMMA SendCopyBodyKeeps ==
  ASSUME RingInv, SendCopyBody
  PROVE  RingInv'
<1> USE RingAssumption DEF RingInv, SendCopyBody, receiver
<1>1. TypeOK'
  BY DEF TypeOK, SenderPC, Node, Index, Slot
<1>2. SenderInv'
  BY DEF SenderInv, Occupied, TypeOK, Index, Slot, Node, Whole
<1>3. ReceiverInv'
  <2>1. /\ st = tail /\ tail \in Index /\ head \in Index
        /\ rpc \in {"copyHeader", "copyBody", "count", "publish"}
             => rh = head /\ Occupied > 0
    BY OccupiedNodes
       DEF TypeOK, SenderInv, ReceiverInv, EventsMatchMessages, Receiving, One
  <2>2. rpc \in {"copyHeader", "copyBody", "count", "publish"}
          => Slot(st) # Slot(rh)
    BY <2>1 DEF Occupied, Distance, Slot, Index
  <2>3. rpc \in {"copyHeader", "copyBody", "count", "publish"}
          => ringData'[Slot(rh)] = ringData[Slot(rh)]
    BY <2>1, <2>2 DEF TypeOK, Slot, Index
  <2>4. QED
    BY <2>3 DEF ReceiverInv, Occupied
<1>4. EventsMatchMessages' /\ StatsMatch'
  BY DEF EventsMatchMessages, Receiving, Occupied, StatsMatch
<1>5. RingHoldsPending'
  <2>1. st = tail /\ tail \in Index /\ UNCHANGED <<head, tail, rpc, pending>>
    BY DEF TypeOK, SenderInv
  <2>2. \A i \in 1 .. RingSize : i # Slot(tail) => ringData'[i] = ringData[i]
    BY <2>1 DEF TypeOK
  <2>3. \A k \in 0 .. RingSize - 1 : k < Occupied =>
          ringData'[NodeAt(k)] = ringData[NodeAt(k)]
    BY <2>1, <2>2, OccupiedNodes DEF TypeOK
  <2>4. QED
    BY <2>1, <2>3 DEF RingHoldsPending, Occupied, NodeAt
<1>6. QED
  BY <1>1, <1>2, <1>3, <1>4, <1>5

\* The counter runs one ahead of the tail.
LEMMA SendCountKeeps ==
  ASSUME RingInv, SendCount
  PROVE  RingInv'
<1> USE RingAssumption DEF RingInv, SendCount, receiver
<1>1. TypeOK'
  BY CountUpWraps DEF TypeOK, SenderPC
<1>2. SenderInv'
  BY DEF SenderInv, Occupied
<1>3. ReceiverInv' /\ EventsMatchMessages' /\ RingHoldsPending'
  BY DEF ReceiverInv, Occupied, EventsMatchMessages, Receiving,
         RingHoldsPending, NodeAt, One
<1>4. StatsMatch'
  <2>1. Occupied \in 0 .. RingSize - 2 /\ Occupied' = Occupied
    BY OccupiedNodes DEF TypeOK, SenderInv, Occupied
  <2>2. (nr_enqueue - nr_dequeue) % CounterMod = Occupied - One(rpc = "publish")
    BY <2>1 DEF StatsMatch, One
  <2>3. (nr_enqueue - nr_dequeue) % CounterMod < CounterMod - 1
    BY <2>1, <2>2 DEF One
  <2>4. nr_enqueue \in 0 .. CounterMod - 1 /\ nr_dequeue \in 0 .. CounterMod - 1
    BY DEF TypeOK
  <2>5. (nr_enqueue' - nr_dequeue) % CounterMod
          = Occupied - One(rpc = "publish") + 1
    BY <2>1, <2>2, <2>3, <2>4, EnqueueCounted DEF One
  <2>6. QED
    BY <2>1, <2>5 DEF StatsMatch, One
<1>5. QED
  BY <1>1, <1>2, <1>3, <1>4

\* The store of the tail adds the sender's node to the occupied ones.
LEMMA SendPublishKeeps ==
  ASSUME RingInv, SendPublish
  PROVE  RingInv'
<1> USE RingAssumption DEF RingInv, SendPublish, receiver
<1>0. /\ st = tail /\ tail \in Index /\ head \in Index /\ tail' \in Index
      /\ Occupied \in 0 .. RingSize - 2 /\ Occupied' = Occupied + 1
      /\ pending \in Seq(Msg) /\ smsg \in Msg
      /\ ringData[Slot(tail)] = Whole(smsg)
  <2>1. /\ st = tail /\ tail \in Index /\ head \in Index
        /\ Occupied < RingSize - 1 /\ head' = head /\ tail' = NextIndex(tail)
        /\ pending \in Seq(Msg) /\ smsg \in Msg
        /\ ringData[Slot(tail)] = Whole(smsg)
    BY DEF TypeOK, SenderInv
  <2>2. Occupied \in 0 .. RingSize - 2
    BY <2>1, OccupiedNodes DEF Index
  <2>3. Occupied' = Occupied + 1
    BY <2>1, DistanceGrows DEF Occupied
  <2>4. tail' \in Index
    BY <2>1, NextIndexWraps DEF Index
  <2>5. QED
    BY <2>1, <2>2, <2>3, <2>4
<1>1. TypeOK'
  BY <1>0 DEF TypeOK, Index, SenderPC
<1>2. SenderInv'
  BY <1>0 DEF SenderInv
<1>3. ReceiverInv'
  BY <1>0 DEF ReceiverInv, TypeOK, Index, Distance
<1>4. EventsMatchMessages'
  BY <1>0 DEF EventsMatchMessages, Receiving, One, TypeOK
<1>5. RingHoldsPending'
  <2> DEFINE taken == One(rpc = "handler")
  <2>1. /\ taken \in {0, 1} /\ Len(pending) = Occupied + taken
        /\ Len(pending') = Occupied' + taken
    BY <1>0 DEF RingHoldsPending, One
  <2>2. ASSUME NEW k \in 0 .. RingSize - 1, k < Occupied'
        PROVE  ringData[NodeAt(k)] = Whole(pending'[k + 1 + taken])
    <3>1. CASE k < Occupied
      BY <3>1, <2>1, <1>0 DEF RingHoldsPending
    <3>2. CASE k = Occupied
      BY <3>2, <2>1, <1>0, OccupiedNodes
    <3>3. k < Occupied \/ k = Occupied
      BY <2>2, <1>0
    <3>4. QED
      BY <3>1, <3>2, <3>3
  <2>3. QED
    BY <2>1, <2>2 DEF RingHoldsPending, NodeAt
<1>6. StatsMatch'
  BY <1>0 DEF StatsMatch, One
<1>7. QED
  BY <1>1, <1>2, <1>3, <1>4, <1>5, <1>6

\* The eventfd takes over the message that was in flight.
LEMMA SendNotifyKeeps ==
  ASSUME RingInv, SendNotify
  PROVE  RingInv'
<1> USE RingAssumption DEF RingInv, SendNotify, ring_unchanged, receiver
<1>1. TypeOK'
  BY DEF TypeOK, SenderPC, Item
<1>2. SenderInv'
  BY DEF SenderInv, Occupied
<1>3. EventsMatchMessages'
  BY DEF EventsMatchMessages, Receiving, Occupied, One, TypeOK
<1>4. ReceiverInv' /\ RingHoldsPending' /\ StatsMatch'
  BY DEF ReceiverInv, Occupied, RingHoldsPending, NodeAt, StatsMatch, One
<1>5. QED
  BY <1>1, <1>2, <1>3, <1>4

\* The multiplexer only reports.
LEMMA RecvSelectKeeps ==
  ASSUME RingInv, RecvSelect
  PROVE  RingInv'
<1> USE RingAssumption DEF RingInv, RecvSelect, ring_unchanged, sender
<1>1. TypeOK'
  BY DEF TypeOK, ReceiverPC
<1>2. ReceiverInv'
  BY DEF ReceiverInv, Occupied
<1>3. SenderInv' /\ EventsMatchMessages' /\ RingHoldsPending' /\ StatsMatch'
  BY DEF SenderInv, Occupied, EventsMatchMessages, Receiving,
         RingHoldsPending, NodeAt, StatsMatch, One
<1>4. QED
  BY <1>1, <1>2, <1>3

\* The count moves from the eventfd to the receiver.
LEMMA RecvReadEventKeeps ==
  ASSUME RingInv, RecvReadEvent
  PROVE  RingInv'
<1> USE RingAssumption DEF RingInv, RecvReadEvent, ring_unchanged, sender
<1>1. TypeOK'
  BY DEF TypeOK, ReceiverPC
<1>2. ReceiverInv'
  BY DEF ReceiverInv, Occupied
<1>3. EventsMatchMessages'
  BY DEF EventsMatchMessages, Receiving, Occupied, One, TypeOK, ReceiverInv
<1>4. SenderInv' /\ RingHoldsPending' /\ StatsMatch'
  BY DEF SenderInv, Occupied, RingHoldsPending, NodeAt, StatsMatch, One
<1>5. QED
  BY <1>1, <1>2, <1>3, <1>4

\* One of the announced messages is now being received.
LEMMA RecvNextMessageKeeps ==
  ASSUME RingInv, RecvNextMessage
  PROVE  RingInv'
<1> USE RingAssumption DEF RingInv, RecvNextMessage, ring_unchanged, sender
<1>1. TypeOK'
  BY DEF TypeOK, ReceiverPC
<1>2. ReceiverInv'
  BY DEF ReceiverInv, Occupied
<1>3. EventsMatchMessages'
  BY DEF EventsMatchMessages, Receiving, Occupied, One, TypeOK
<1>4. SenderInv' /\ RingHoldsPending' /\ StatsMatch'
  BY DEF SenderInv, Occupied, RingHoldsPending, NodeAt, StatsMatch, One
<1>5. QED
  BY <1>1, <1>2, <1>3, <1>4

\* There is a message, since one was announced: the tail read is ahead of
\* the head.
LEMMA RecvLoadTailKeeps ==
  ASSUME RingInv, RecvLoadTail
  PROVE  RingInv'
<1> USE RingAssumption DEF RingInv, RecvLoadTail, ring_unchanged, sender
<1>1. TypeOK'
  BY DEF TypeOK, ReceiverPC
<1>2. ReceiverInv'
  BY OccupiedNodes
     DEF ReceiverInv, Occupied, TypeOK, EventsMatchMessages, Receiving, One
<1>3. SenderInv' /\ EventsMatchMessages' /\ RingHoldsPending' /\ StatsMatch'
  BY DEF SenderInv, Occupied, EventsMatchMessages, Receiving,
         RingHoldsPending, NodeAt, StatsMatch, One
<1>4. QED
  BY <1>1, <1>2, <1>3

\* Head and tail differ, so the head is an occupied node.
LEMMA RecvLoadHeadKeeps ==
  ASSUME RingInv, RecvLoadHead
  PROVE  RingInv'
<1> USE RingAssumption DEF RingInv, RecvLoadHead, ring_unchanged, sender
<1>1. TypeOK'
  BY DEF TypeOK, ReceiverPC, Index
<1>2. ReceiverInv'
  BY DEF ReceiverInv, Occupied, TypeOK, Index, Distance
<1>3. SenderInv' /\ EventsMatchMessages' /\ RingHoldsPending' /\ StatsMatch'
  BY DEF SenderInv, Occupied, EventsMatchMessages, Receiving,
         RingHoldsPending, NodeAt, StatsMatch, One
<1>4. QED
  BY <1>1, <1>2, <1>3

\* The receiver copies the header of the node at the head.
LEMMA RecvCopyHeaderKeeps ==
  ASSUME RingInv, RecvCopyHeader
  PROVE  RingInv'
<1> USE RingAssumption DEF RingInv, RecvCopyHeader, ring_unchanged, sender
<1>1. TypeOK'
  <2>1. Slot(rh) \in 1 .. RingSize
    BY SlotInRing DEF TypeOK
  <2>2. ringData[Slot(rh)] \in Node
    BY <2>1 DEF TypeOK
  <2>3. QED
    BY <2>2 DEF TypeOK, ReceiverPC, Node
<1>2. ReceiverInv'
  BY DEF ReceiverInv, Occupied, TypeOK, Node
<1>3. SenderInv' /\ EventsMatchMessages' /\ RingHoldsPending' /\ StatsMatch'
  BY DEF SenderInv, Occupied, EventsMatchMessages, Receiving,
         RingHoldsPending, NodeAt, StatsMatch, One
<1>4. QED
  BY <1>1, <1>2, <1>3

\* The body comes from the node its header came from.
LEMMA RecvCopyBodyKeeps ==
  ASSUME RingInv, RecvCopyBody
  PROVE  RingInv'
<1> USE RingAssumption DEF RingInv, RecvCopyBody, ring_unchanged, sender
<1>1. TypeOK'
  <2>1. Slot(rh) \in 1 .. RingSize
    BY SlotInRing DEF TypeOK
  <2>2. ringData[Slot(rh)] \in Node
    BY <2>1 DEF TypeOK
  <2>3. QED
    BY <2>2 DEF TypeOK, ReceiverPC, Node
<1>2. ReceiverInv'
  <2>1. Slot(rh) \in 1 .. RingSize /\ addr \in Node
    BY SlotInRing DEF TypeOK
  <2>2. ringData[Slot(rh)] \in Node
    BY <2>1 DEF TypeOK
  <2>3. QED
    BY <2>1, <2>2 DEF ReceiverInv, Occupied, Node
<1>3. SenderInv' /\ EventsMatchMessages' /\ RingHoldsPending' /\ StatsMatch'
  BY DEF SenderInv, Occupied, EventsMatchMessages, Receiving,
         RingHoldsPending, NodeAt, StatsMatch, One
<1>4. QED
  BY <1>1, <1>2, <1>3

\* The counter runs one ahead of the head.
LEMMA RecvCountKeeps ==
  ASSUME RingInv, RecvCount
  PROVE  RingInv'
<1> USE RingAssumption DEF RingInv, RecvCount, sender
<1>1. TypeOK'
  BY CountUpWraps DEF TypeOK, ReceiverPC
<1>2. ReceiverInv'
  BY DEF ReceiverInv, Occupied
<1>3. SenderInv' /\ EventsMatchMessages' /\ RingHoldsPending'
  BY DEF SenderInv, Occupied, EventsMatchMessages, Receiving,
         RingHoldsPending, NodeAt, One
<1>4. StatsMatch'
  <2>1. Occupied \in 1 .. RingSize - 1 /\ Occupied' = Occupied
    BY OccupiedNodes DEF TypeOK, EventsMatchMessages, Receiving, One, Occupied
  <2>2. (nr_enqueue - nr_dequeue) % CounterMod = Occupied + One(spc = "publish")
    BY <2>1 DEF StatsMatch, One
  <2>3. (nr_enqueue - nr_dequeue) % CounterMod > 0
    BY <2>1, <2>2 DEF One
  <2>4. nr_enqueue \in 0 .. CounterMod - 1 /\ nr_dequeue \in 0 .. CounterMod - 1
    BY DEF TypeOK
  <2>5. (nr_enqueue - nr_dequeue') % CounterMod
          = Occupied + One(spc = "publish") - 1
    BY <2>1, <2>2, <2>3, <2>4, DequeueCounted DEF One
  <2>6. QED
    BY <2>1, <2>5 DEF StatsMatch, One
<1>5. QED
  BY <1>1, <1>2, <1>3, <1>4

\* The store of the head gives the node back; its message is in addr.
LEMMA RecvPublishKeeps ==
  ASSUME RingInv, RecvPublish
  PROVE  RingInv'
<1> USE RingAssumption DEF RingInv, RecvPublish, sender
<1>0. /\ rh = head /\ tail \in Index /\ head \in Index /\ head' \in Index
      /\ Occupied \in 1 .. RingSize - 1 /\ Occupied' = Occupied - 1
      /\ head' = IF head + 1 = RingSize THEN 0 ELSE head + 1
      /\ pending \in Seq(Msg) /\ addr = ringData[Slot(head)]
  <2>1. Occupied \in 1 .. RingSize - 1
    BY OccupiedNodes DEF TypeOK, EventsMatchMessages, Receiving, One
  <2>2. QED
    BY <2>1, DistanceShrinks, NextIndexWraps DEF TypeOK, ReceiverInv, Occupied, Index
<1>1. TypeOK'
  BY <1>0 DEF TypeOK, Index, ReceiverPC
<1>2. SenderInv'
  BY <1>0 DEF SenderInv, TypeOK, Index, Distance
<1>3. ReceiverInv'
  <2>1. NodeAt(0) = Slot(head) /\ Len(pending) = Occupied
    BY <1>0 DEF NodeAt, Slot, Index, RingHoldsPending, One
  <2>2. pending # <<>> /\ addr = Whole(pending[1])
    BY <2>1, <1>0 DEF RingHoldsPending, One
  <2>3. QED
    BY <2>2 DEF ReceiverInv
<1>4. EventsMatchMessages'
  BY <1>0 DEF EventsMatchMessages, Receiving, One, TypeOK
<1>5. RingHoldsPending'
  <2>1. ASSUME NEW k \in 0 .. RingSize - 1, k < Occupied'
        PROVE  k + 1 < Occupied /\ NodeAt(k)' = NodeAt(k + 1)
    BY <2>1, <1>0 DEF NodeAt, Slot, Index
  <2>2. QED
    BY <2>1, <1>0 DEF RingHoldsPending, One
<1>6. StatsMatch'
  BY <1>0 DEF StatsMatch, One
<1>7. QED
  BY <1>1, <1>2, <1>3, <1>4, <1>5, <1>6

\* The message given to the handler is no longer pending.
LEMMA RecvHandlerKeeps ==
  ASSUME RingInv, RecvHandler
  PROVE  RingInv'
<1> USE RingAssumption DEF RingInv, RecvHandler, ring_unchanged, sender
<1>1. TypeOK'
  BY DEF TypeOK, ReceiverPC, Item, Node, Whole, ReceiverInv
<1>2. ReceiverInv'
  BY DEF ReceiverInv, Occupied
<1>3. RingHoldsPending'
  <2>1. pending \in Seq(Msg) /\ pending' = Tail(pending) /\ pending # <<>>
    BY DEF TypeOK, ReceiverInv
  <2>2. /\ Occupied \in 0 .. RingSize - 1 /\ Occupied' = Occupied
        /\ Len(pending) = Occupied + 1
    BY OccupiedNodes DEF TypeOK, RingHoldsPending, One, Occupied
  <2>3. \A k \in 0 .. RingSize - 1 : k < Occupied =>
          ringData[NodeAt(k)] = Whole(pending[k + 2])
    BY DEF RingHoldsPending, One
  <2>4. \A k \in 0 .. RingSize - 1 : k < Occupied =>
          pending'[k + 1] = pending[k + 2]
    BY <2>1, <2>2
  <2>5. QED
    BY <2>1, <2>2, <2>3, <2>4 DEF RingHoldsPending, One, NodeAt
<1>4. SenderInv' /\ EventsMatchMessages' /\ StatsMatch'
  BY DEF SenderInv, Occupied, EventsMatchMessages, Receiving, StatsMatch, One
<1>5. QED
  BY <1>1, <1>2, <1>3, <1>4

-----------------------------------------------------------------------------
(* The theorems.                                                           *)

\* The inductive invariant holds of the ring with its two threads, whatever
\* the interleaving, the ring size and the width of the counters.
THEOREM RingInvariant == Spec => []RingInv
<1>1. Init => RingInv
  <2> SUFFICES ASSUME Init PROVE RingInv
    OBVIOUS
  <2>1. Occupied = 0
    BY DEF Init, Occupied, Distance
  <2>2. TypeOK
    BY RingAssumption
       DEF Init, TypeOK, Index, Node, Item, Whole, SenderPC, ReceiverPC
  <2>3. SenderInv /\ ReceiverInv
    BY DEF Init, SenderInv, ReceiverInv
  <2>4. EventsMatchMessages /\ RingHoldsPending
    BY <2>1 DEF Init, EventsMatchMessages, Receiving, One, RingHoldsPending
  <2>5. StatsMatch
    BY <2>1, RingAssumption DEF Init, StatsMatch, One
  <2>6. QED
    BY <2>2, <2>3, <2>4, <2>5 DEF RingInv
<1>2. RingInv /\ [Next]_vars => RingInv'
  <2> SUFFICES ASSUME RingInv, [Next]_vars PROVE RingInv'
    OBVIOUS
  <2>1. ASSUME NEW f \in {"FastQSend", "FastQTrySend"}, NEW m \in Msg,
               SendCall(f, m)
        PROVE  RingInv'
    BY <2>1, SendCallKeeps
  <2>2. CASE SendLoadHead
    BY <2>2, SendLoadHeadKeeps
  <2>3. CASE SendLoadTail
    BY <2>3, SendLoadTailKeeps
  <2>4. CASE SendRefused
    BY <2>4, SendRefusedKeeps
  <2>5. CASE SendCopyHeader
    BY <2>5, SendCopyHeaderKeeps
  <2>6. CASE SendCopyBody
    BY <2>6, SendCopyBodyKeeps
  <2>7. CASE SendCount
    BY <2>7, SendCountKeeps
  <2>8. CASE SendPublish
    BY <2>8, SendPublishKeeps
  <2>9. CASE SendNotify
    BY <2>9, SendNotifyKeeps
  <2>10. CASE RecvSelect
    BY <2>10, RecvSelectKeeps
  <2>11. CASE RecvReadEvent
    BY <2>11, RecvReadEventKeeps
  <2>12. CASE RecvNextMessage
    BY <2>12, RecvNextMessageKeeps
  <2>13. CASE RecvLoadTail
    BY <2>13, RecvLoadTailKeeps
  <2>14. CASE RecvLoadHead
    BY <2>14, RecvLoadHeadKeeps
  <2>15. CASE RecvCopyHeader
    BY <2>15, RecvCopyHeaderKeeps
  <2>16. CASE RecvCopyBody
    BY <2>16, RecvCopyBodyKeeps
  <2>17. CASE RecvCount
    BY <2>17, RecvCountKeeps
  <2>18. CASE RecvPublish
    BY <2>18, RecvPublishKeeps
  <2>19. CASE RecvHandler
    BY <2>19, RecvHandlerKeeps
  <2>20. CASE UNCHANGED vars
    BY <2>20
       DEF vars, sender, receiver, RingInv, TypeOK, SenderInv, ReceiverInv,
           EventsMatchMessages, RingHoldsPending, StatsMatch, Receiving,
           Occupied, Distance, NodeAt
  <2>21. QED
    BY <2>1, <2>2, <2>3, <2>4, <2>5, <2>6, <2>7, <2>8, <2>9, <2>10, <2>11,
       <2>12, <2>13, <2>14, <2>15, <2>16, <2>17, <2>18, <2>19, <2>20
       DEF Next, Call, SendStep, RecvStep
<1>3. QED
  BY <1>1, <1>2, PTL DEF Spec

\* Every index and counter stays in its range (the `& _size` of __FastQSend
\* and __FastQRecv, the width of the counters).
THEOREM TypeCorrect == Spec => []TypeOK
<1>1. RingInv => TypeOK
  BY DEF RingInv
<1>2. QED
  BY <1>1, RingInvariant, PTL

\* The eventfd announces each published message exactly once.
THEOREM EventsAreMessages == Spec => []EventsMatchMessages
<1>1. RingInv => EventsMatchMessages
  BY DEF RingInv
<1>2. QED
  BY <1>1, RingInvariant, PTL

\* FastQRecv never polls an empty ring.
THEOREM NeverSpins == Spec => []RecvNeverSpins
<1>1. RingInv => RecvNeverSpins
  BY DEF RingInv, ReceiverInv, RecvNeverSpins, TypeOK, Index, Distance
<1>2. QED
  BY <1>1, RingInvariant, PTL

\* The handler is called with the oldest accepted message, whole.
THEOREM HandlerInOrder == Spec => []HandedInOrder
<1>1. RingInv => HandedInOrder
  BY DEF RingInv, ReceiverInv, HandedInOrder, TypeOK
<1>2. QED
  BY <1>1, RingInvariant, PTL

\* The two threads never work on the same node.
THEOREM NodesNotShared == Spec => []NoNodeRace
<1>1. RingInv => NoNodeRace
  <2> SUFFICES ASSUME RingInv,
                      spc \in {"copyHeader", "copyBody", "count", "publish"},
                      rpc \in {"copyHeader", "copyBody"}
               PROVE  st # rh
    BY DEF NoNodeRace
  <2>1. st = tail /\ rh = head /\ head \in Index /\ tail \in Index
    BY DEF RingInv, SenderInv, ReceiverInv, TypeOK
  <2>2. Occupied > 0
    BY <2>1, OccupiedNodes
       DEF RingInv, TypeOK, EventsMatchMessages, Receiving, One
  <2>3. QED
    BY <2>1, <2>2 DEF Occupied, Distance, Index
<1>2. QED
  BY <1>1, RingInvariant, PTL

\* The difference of the two counters is a possible number of messages,
\* whenever it is computed from values read at one instant.
THEOREM StatsInCapacity == Spec => []StatsWithinCapacity
<1>1. RingInv => StatsWithinCapacity
  <2> SUFFICES ASSUME RingInv PROVE StatsWithinCapacity
    OBVIOUS
  <2>1. Occupied \in 0 .. RingSize - 1
    BY OccupiedNodes DEF RingInv, TypeOK
  <2>2. spc = "publish" => Occupied < RingSize - 1
    BY DEF RingInv, SenderInv
  <2>3. QED
    BY <2>1, <2>2, RingAssumption
       DEF RingInv, StatsMatch, StatsWithinCapacity, One
<1>2. QED
  BY <1>1, RingInvariant, PTL

-----------------------------------------------------------------------------
(* The ring with its two threads implements the bounded channel, for every *)
(* ring size: each step of FastQRing is a step of FastQChannel or leaves   *)
(* the channel alone.  Three steps carry the argument.  The store of _tail *)
(* accepts a message, the store of _head takes one, and a call that will   *)
(* be refused finds the channel full at the load of _head: the tail is its *)
(* own, so what it then compares is what held at that load.                *)

\* As many messages are in the channel as nodes are occupied.
LEMMA QueueLength ==
  ASSUME RingInv
  PROVE  /\ Occupied \in 0 .. RingSize - 1
         /\ Len(RingQueue) = Occupied
<1>1. Occupied \in 0 .. RingSize - 1
  BY OccupiedNodes DEF RingInv, TypeOK
<1>2. QED
  BY <1>1 DEF RingQueue

\* The queue only depends on the indices and on the occupied nodes.
LEMMA QueueSame ==
  ASSUME RingInv, UNCHANGED <<head, tail>>,
         \A k \in 0 .. RingSize - 1 : k < Occupied =>
           ringData'[NodeAt(k)].body = ringData[NodeAt(k)].body
  PROVE  RingQueue' = RingQueue
<1>1. Occupied' = Occupied /\ \A k : NodeAt(k)' = NodeAt(k)
  BY DEF Occupied, Distance, NodeAt
<1>2. \A k \in 1 .. Occupied : k - 1 \in 0 .. RingSize - 1 /\ k - 1 < Occupied
  BY QueueLength, RingAssumption
<1>3. QED
  BY <1>1, <1>2 DEF RingQueue

\* A step that leaves the ring and the receiver's hand alone.
LEMMA RingUntouched ==
  ASSUME UNCHANGED <<head, tail, ringData>>
  PROVE  RingQueue' = RingQueue
BY DEF RingQueue, Occupied, Distance, NodeAt

\* The ring starts as the empty channel.
LEMMA InitRefines ==
  ASSUME Init
  PROVE  Channel!Init
<1>1. Occupied = 0
  BY DEF Init, Occupied, Distance
<1>2. RingQueue = <<>>
  BY <1>1 DEF RingQueue
<1>3. QED
  BY <1>2 DEF Init, Channel!Init, RingHand, CallPhase

\* The load of _head decides the fate of an attempt: if the index before it
\* is the tail, the channel holds its capacity at this very step.
LEMMA SendLoadHeadRefines ==
  ASSUME RingInv, SendLoadHead
  PROVE  [Channel!Next]_(Channel!vars)
<1>1. RingQueue' = RingQueue /\ RingHand' = RingHand
  BY RingUntouched DEF SendLoadHead, ring_unchanged, RingHand, receiver
<1>2. CASE IsFull(sh', tail)
  <2>1. tail = PrevIndex(head) /\ head \in Index
    BY <1>2 DEF IsFull, SendLoadHead, RingInv, TypeOK
  <2>2. Occupied = RingSize - 1
    BY <2>1, PrevIndexWraps, RingAssumption DEF Occupied, Distance, Index
  <2>3. Channel!Refuse
    BY <1>1, <1>2, <2>2, QueueLength
       DEF Channel!Refuse, SendLoadHead, CallPhase, ring_unchanged, IsFull
  <2>4. QED
    BY <2>3 DEF Channel!Next
<1>3. CASE ~IsFull(sh', tail)
  BY <1>1, <1>3
     DEF Channel!vars, SendLoadHead, CallPhase, ring_unchanged, IsFull
<1>4. QED
  BY <1>2, <1>3

\* The store of _tail accepts the message: it joins the end of the queue.
LEMMA SendPublishRefines ==
  ASSUME RingInv, SendPublish
  PROVE  Channel!Accept
<1>1. /\ tail \in Index /\ head \in Index
      /\ Occupied \in 0 .. RingSize - 2 /\ Occupied' = Occupied + 1
      /\ ringData[Slot(tail)].body = smsg
  BY OccupiedNodes, DistanceGrows, RingAssumption
     DEF RingInv, TypeOK, SenderInv, SendPublish, Occupied, Whole
<1>2. RingQueue' = Append(RingQueue, smsg)
  BY <1>1, OccupiedNodes DEF RingQueue, SendPublish, NodeAt
<1>3. Len(RingQueue) < RingSize - 1
  <2>1. Len(RingQueue) = Occupied /\ Occupied \in 0 .. RingSize - 2
    BY <1>1, QueueLength
  <2>2. QED
    BY <2>1, RingAssumption
<1>4. QED
  BY <1>2, <1>3
     DEF SendPublish, Channel!Accept, CallPhase, RingHand, receiver

\* The store of _head takes the oldest message out of the queue.
LEMMA RecvPublishRefines ==
  ASSUME RingInv, RecvPublish
  PROVE  Channel!Take
<1>1. /\ head \in Index /\ tail \in Index
      /\ Occupied \in 1 .. RingSize - 1 /\ addr = ringData[Slot(head)]
      /\ head' = NextIndex(head) /\ UNCHANGED <<tail, ringData>>
  BY OccupiedNodes, RingAssumption
     DEF RingInv, TypeOK, EventsMatchMessages, Receiving, One, ReceiverInv,
         RecvPublish
<1>2. Occupied' = Occupied - 1
  BY <1>1, DistanceShrinks DEF Occupied
<1>3. RingQueue # <<>> /\ Head(RingQueue) = addr.body
  <2>1. NodeAt(0) = Slot(head)
    BY <1>1, RingAssumption DEF NodeAt, Index
  <2>2. RingQueue[1] = addr.body
    BY <1>1, <2>1 DEF RingQueue
  <2>3. QED
    BY <1>1, <2>2, QueueLength
<1>4. RingQueue' = Tail(RingQueue)
  <2>1. \A k \in 1 .. Occupied' : NodeAt(k - 1)' = NodeAt(k)
    BY <1>1, <1>2, NextIndexWraps, RingAssumption DEF NodeAt, Slot, Index
  <2>2. RingQueue' = [k \in 1 .. Occupied' |-> ringData[NodeAt(k)].body]
    BY <1>1, <2>1 DEF RingQueue
  <2>3. QED
    BY <1>1, <1>2, <2>2 DEF RingQueue
<1>5. QED
  BY <1>3, <1>4
     DEF RecvPublish, Channel!Take, CallPhase, RingHand, sender, IsFull

\* Every step of the two threads is one of the channel, or none.
LEMMA StepRefines ==
  ASSUME RingInv, [Next]_vars
  PROVE  [Channel!Next]_(Channel!vars)
<1>1. ASSUME NEW f \in {"FastQSend", "FastQTrySend"}, NEW m \in Msg,
             SendCall(f, m)
      PROVE  Channel!Next
  <2>1. RingQueue' = RingQueue
    BY <1>1, RingUntouched DEF SendCall, ring_unchanged
  <2>2. Channel!Call(f, m)
    BY <1>1, <2>1
       DEF SendCall, Channel!Call, CallPhase, RingHand, receiver
  <2>3. QED
    BY <2>2 DEF Channel!Next
<1>2. CASE SendLoadHead
  BY <1>2, SendLoadHeadRefines
<1>3. CASE SendLoadTail
  BY <1>3, RingUntouched
     DEF SendLoadTail, ring_unchanged, Channel!vars, CallPhase, RingHand,
         receiver
<1>4. CASE SendRefused
  <2>1. RingQueue' = RingQueue
    BY <1>4, RingUntouched DEF SendRefused, ring_unchanged
  <2>2. Channel!Retry \/ Channel!ReturnFalse
    BY <1>4, <2>1
       DEF SendRefused, Channel!Retry, Channel!ReturnFalse, CallPhase,
           RingHand, receiver
  <2>3. QED
    BY <2>2 DEF Channel!Next
<1>5. ASSUME SendCopyHeader \/ SendCopyBody
      PROVE  UNCHANGED Channel!vars
  <2>1. st = tail /\ tail \in Index /\ UNCHANGED <<head, tail>>
    BY <1>5 DEF SendCopyHeader, SendCopyBody, RingInv, TypeOK, SenderInv
  <2>2. \A i \in 1 .. RingSize :
          i # Slot(tail) => ringData'[i] = ringData[i]
    BY <1>5, <2>1 DEF SendCopyHeader, SendCopyBody, RingInv, TypeOK
  <2>3. \A k \in 0 .. RingSize - 1 : k < Occupied =>
          ringData'[NodeAt(k)].body = ringData[NodeAt(k)].body
    BY <2>2, OccupiedNodes DEF RingInv, TypeOK
  <2>4. RingQueue' = RingQueue
    BY <2>1, <2>3, QueueSame
  <2>5. QED
    BY <1>5, <2>4
       DEF SendCopyHeader, SendCopyBody, Channel!vars, CallPhase, RingHand,
           receiver
<1>6. CASE SendCount
  BY <1>6, RingUntouched
     DEF SendCount, Channel!vars, CallPhase, RingHand, receiver
<1>7. CASE SendPublish
  BY <1>7, SendPublishRefines DEF Channel!Next
<1>8. CASE SendNotify
  <2>1. Channel!ReturnTrue
    BY <1>8, RingUntouched
       DEF SendNotify, ring_unchanged, Channel!ReturnTrue, CallPhase,
           RingHand, receiver
  <2>2. QED
    BY <2>1 DEF Channel!Next
<1>9. ASSUME \/ RecvSelect \/ RecvReadEvent \/ RecvNextMessage
             \/ RecvLoadTail \/ RecvLoadHead \/ RecvCopyHeader
             \/ RecvCopyBody \/ RecvCount
      PROVE  UNCHANGED Channel!vars
  <2>1. /\ UNCHANGED <<head, tail, ringData, sender, handled>>
        /\ rpc # "handler" /\ rpc' # "handler"
    BY <1>9
       DEF RecvSelect, RecvReadEvent, RecvNextMessage, RecvLoadTail,
           RecvLoadHead, RecvCopyHeader, RecvCopyBody, RecvCount,
           ring_unchanged
  <2>2. QED
    BY <2>1, RingUntouched
       DEF Channel!vars, CallPhase, RingHand, sender, IsFull
<1>10. CASE RecvPublish
  BY <1>10, RecvPublishRefines DEF Channel!Next
<1>11. CASE RecvHandler
  <2>1. RingQueue' = RingQueue
    BY <1>11, RingUntouched DEF RecvHandler, ring_unchanged
  <2>2. Channel!Deliver
    BY <1>11, <2>1
       DEF RecvHandler, ring_unchanged, sender, Channel!Deliver, CallPhase,
           RingHand, IsFull
  <2>3. QED
    BY <2>2 DEF Channel!Next
<1>12. CASE UNCHANGED vars
  BY <1>12, RingUntouched
     DEF vars, sender, receiver, Channel!vars, CallPhase, RingHand, IsFull
<1>13. QED
  BY <1>1, <1>2, <1>3, <1>4, <1>5, <1>6, <1>7, <1>8, <1>9, <1>10, <1>11,
     <1>12
     DEF Next, Call, SendStep, RecvStep

\* The ring delivers what the channel promises: every message FastQSend or
\* FastQTrySend accepted, once, in order and whole, and a refusal only when
\* the ring held one message less than it has nodes.
THEOREM RingImplementsChannel == Spec => ImplementsChannel
<1>1. RingInv /\ [Next]_vars => [Channel!Next]_(Channel!vars)
  BY StepRefines
<1>2. Init => Channel!Init
  BY InitRefines
<1>3. QED
  BY <1>1, <1>2, RingInvariant, PTL DEF Spec, ImplementsChannel, Channel!Spec
=============================================================================
