------------------------------ MODULE FastQRing ------------------------------
(***************************************************************************)
(* One ring of fastq: the FastQRing that carries the messages of ONE       *)
(* source module to ONE destination module, the eventfd that announces     *)
(* them, the sender thread inside FastQSend or FastQTrySend and the        *)
(* receiver thread inside the loop of FastQRecv.                           *)
(*                                                                         *)
(* Every access to a field the two threads share is a step of its own, in  *)
(* the program order of fastq.c: __FastQSend reads _head before _tail,     *)
(* __FastQRecv reads _tail before _head, a message is copied in two pieces *)
(* (the size / type / code / sub-code words, then the body), the counters  *)
(* are bumped before the index is stored, and the eventfd is written only  *)
(* after __FastQSend has returned.  The build is x86-64 only (utils.h:1):  *)
(* plain loads and stores of an aligned word are atomic and the stores of  *)
(* a thread become visible in program order, so steps interleave.          *)
(*                                                                         *)
(* The ring exists for the whole behaviour: its creation and its           *)
(* destruction belong to the module registry.                              *)
(***************************************************************************)
EXTENDS Integers, Sequences

CONSTANTS
  RingSize,    \* nodes of the ring: __power_of_2(msgMax)
  CounterMod,  \* modulus of the statistics counters (2^64 in the code)
  Msg,         \* what a caller may send
  NoMsg        \* the zeroed content of a node that was never written

\* `& _size` keeps the low bits of an index: it is the remainder modulo the
\* number of nodes, which __power_of_2 makes a power of two of at least 1.
ASSUME RingAssumption ==
  /\ RingSize \in Nat \ {0}
  /\ CounterMod \in Nat /\ CounterMod >= RingSize
  /\ NoMsg \notin Msg

VARIABLES
  head,        \* _head, stored by the receiver only
  tail,        \* _tail, stored by the sender only
  ringData,    \* _ring_data: the nodes, node i at position i + 1
  nr_enqueue,  \* statistics, modulo CounterMod
  nr_dequeue,
  evtFd,       \* the counter of _evt_fd
  spc,         \* where the sender thread is
  api,         \* the function it called: "FastQSend" or "FastQTrySend"
  smsg,        \* the message of that call
  sh, st,      \* the locals h and t of __FastQSend
  rpc,         \* where the receiver thread is
  cnt,         \* the local cnt of FastQRecv
  rt, rh,      \* the locals t and h of __FastQRecv
  addr,        \* the buffer addr of FastQRecv, a header and a body
  pending,     \* history: accepted messages not yet given to the handler
  handled      \* history: what the handler was last called with

sender   == <<spc, api, smsg, sh, st>>
receiver == <<rpc, cnt, rt, rh, addr>>
vars == <<head, tail, ringData, nr_enqueue, nr_dequeue, evtFd, sender,
          receiver, pending, handled>>

Index == 0 .. RingSize - 1
Item  == Msg \cup {NoMsg}
Node  == [header : Item, body : Item]

Whole(m) == [header |-> m, body |-> m]

SenderPC   == {"idle", "loadHead", "loadTail", "copyHeader", "copyBody",
               "count", "publish", "notify"}
ReceiverPC == {"select", "readEvent", "nextMessage", "loadTail", "loadHead",
               "copyHeader", "copyBody", "count", "publish", "handler"}

-----------------------------------------------------------------------------
(* Index arithmetic.                                                       *)

\* Variant: the `& _size` is forgotten.
NextIndexUnmasked(i) == i + 1

NextIndex(i) == (i + 1) % RingSize
PrevIndex(i) == (i - 1) % RingSize

\* Variant: the ring counts as full one node too early.
IsFullEarly(h, t) == t = h \/ NextIndex(t) = h

\* The node before the head stays empty, so that full differs from empty.
IsFull(h, t) == t = h

\* How far one index is behind another, going forward around the ring.
Distance(from, to) == IF to >= from THEN to - from ELSE to - from + RingSize

\* Number of published messages that still occupy a node.
Occupied == Distance(head, tail)

\* The node with index i: `&_ring_data[i * _msg_size]`, i nodes further than
\* the first one.
Slot(i) == i + 1

\* The k-th occupied node, counting from 0 at the head.
NodeAt(k) ==
  Slot(IF head + k < RingSize THEN head + k ELSE head + k - RingSize)

CountUp(n) == (n + 1) % CounterMod

-----------------------------------------------------------------------------
(* The ring is zeroed by __fastq_create_ring, no call is in progress.      *)

Init ==
  /\ head = 0 /\ tail = 0
  /\ ringData = [i \in 1 .. RingSize |-> Whole(NoMsg)]
  /\ nr_enqueue = 0 /\ nr_dequeue = 0
  /\ evtFd = 0
  /\ spc = "idle" /\ api = "FastQSend" /\ smsg = NoMsg /\ sh = 0 /\ st = 0
  /\ rpc = "select" /\ cnt = 0 /\ rt = 0 /\ rh = 0 /\ addr = Whole(NoMsg)
  /\ pending = <<>>
  /\ handled = NoMsg

-----------------------------------------------------------------------------
(* The sender thread.  The locals of __FastQSend die with its return.      *)

ring_unchanged == UNCHANGED <<head, tail, ringData, nr_enqueue, nr_dequeue>>

\* A thread calls FastQSend or FastQTrySend with a message.
SendCall(f, m) ==
  /\ spc = "idle"
  /\ api' = f
  /\ smsg' = m
  /\ spc' = "loadHead"
  /\ ring_unchanged
  /\ UNCHANGED <<sh, st, evtFd, receiver, pending, handled>>

\* h = (ring->_head - 1) & ring->_size
SendLoadHead ==
  /\ spc = "loadHead"
  /\ sh' = PrevIndex(head)
  /\ spc' = "loadTail"
  /\ ring_unchanged
  /\ UNCHANGED <<api, smsg, st, evtFd, receiver, pending, handled>>

\* Variant: the full test is dropped.
SendLoadTailUnchecked ==
  /\ spc = "loadTail"
  /\ st' = tail
  /\ spc' = "copyHeader"
  /\ ring_unchanged
  /\ UNCHANGED <<api, smsg, sh, evtFd, receiver, pending, handled>>

\* t = ring->_tail, and there is room.
SendLoadTail ==
  /\ spc = "loadTail"
  /\ ~IsFull(sh, tail)
  /\ st' = tail
  /\ spc' = "copyHeader"
  /\ ring_unchanged
  /\ UNCHANGED <<api, smsg, sh, evtFd, receiver, pending, handled>>

\* Variant: FastQTrySend writes the eventfd whatever __FastQSend returned.
SendRefusedNotifies ==
  /\ spc = "loadTail"
  /\ IsFull(sh, tail)
  /\ \/ api = "FastQSend" /\ spc' = "loadHead"
     \/ api = "FastQTrySend" /\ spc' = "notify"
  /\ sh' = 0 /\ st' = 0
  /\ ring_unchanged
  /\ UNCHANGED <<api, smsg, evtFd, receiver, pending, handled>>

\* Variant: the load of _head is hoisted out of the polling loop.
SendRefusedKeepsHead ==
  /\ spc = "loadTail"
  /\ IsFull(sh, tail)
  /\ \/ api = "FastQSend" /\ UNCHANGED <<spc, smsg, sh>>
     \/ api = "FastQTrySend" /\ spc' = "idle" /\ smsg' = NoMsg /\ sh' = 0
  /\ st' = 0
  /\ ring_unchanged
  /\ UNCHANGED <<api, evtFd, receiver, pending, handled>>

\* t == h: __FastQSend returns false.  FastQSend relaxes and tries again,
\* FastQTrySend hands the refusal to its caller.
SendRefused ==
  /\ spc = "loadTail"
  /\ IsFull(sh, tail)
  /\ \/ api = "FastQSend" /\ spc' = "loadHead" /\ UNCHANGED smsg
     \/ api = "FastQTrySend" /\ spc' = "idle" /\ smsg' = NoMsg
  /\ sh' = 0 /\ st' = 0
  /\ ring_unchanged
  /\ UNCHANGED <<api, evtFd, receiver, pending, handled>>

\* Variant: the new tail is stored before the message is copied.
SendCopyHeaderPublishes ==
  /\ spc = "copyHeader"
  /\ ringData' = [ringData EXCEPT ![Slot(st)].header = smsg]
  /\ tail' = NextIndex(st)
  /\ spc' = "copyBody"
  /\ UNCHANGED <<head, nr_enqueue, nr_dequeue, evtFd, api, smsg, sh, st,
                 receiver, pending, handled>>

\* The four memcpy of size, msgType, msgCode and msgSubCode.
SendCopyHeader ==
  /\ spc = "copyHeader"
  /\ ringData' = [ringData EXCEPT ![Slot(st)].header = smsg]
  /\ spc' = "copyBody"
  /\ UNCHANGED <<head, tail, nr_enqueue, nr_dequeue, evtFd, api, smsg, sh, st,
                 receiver, pending, handled>>

\* The memcpy of the message, and the store barrier.
SendCopyBody ==
  /\ spc = "copyBody"
  /\ ringData' = [ringData EXCEPT ![Slot(st)].body = smsg]
  /\ spc' = "count"
  /\ UNCHANGED <<head, tail, nr_enqueue, nr_dequeue, evtFd, api, smsg, sh, st,
                 receiver, pending, handled>>

SendCount ==
  /\ spc = "count"
  /\ nr_enqueue' = CountUp(nr_enqueue)
  /\ spc' = "publish"
  /\ UNCHANGED <<head, tail, ringData, nr_dequeue, evtFd, api, smsg, sh, st,
                 receiver, pending, handled>>

\* ring->_tail = (t + 1) & ring->_size: the message is accepted.
SendPublish ==
  /\ spc = "publish"
  /\ tail' = NextIndex(st)
  /\ pending' = Append(pending, smsg)
  /\ spc' = "notify"
  /\ sh' = 0 /\ st' = 0
  /\ UNCHANGED <<head, ringData, nr_enqueue, nr_dequeue, evtFd, api, smsg,
                 receiver, handled>>

\* Variant: the eventfd_write is forgotten.
SendNotifyNothing ==
  /\ spc = "notify"
  /\ spc' = "idle"
  /\ smsg' = NoMsg
  /\ ring_unchanged
  /\ UNCHANGED <<evtFd, api, sh, st, receiver, pending, handled>>

\* eventfd_write(ring->_evt_fd, 1), and the call returns true.
SendNotify ==
  /\ spc = "notify"
  /\ evtFd' = evtFd + 1
  /\ spc' = "idle"
  /\ smsg' = NoMsg
  /\ ring_unchanged
  /\ UNCHANGED <<api, sh, st, receiver, pending, handled>>

-----------------------------------------------------------------------------
(* The receiver thread.  select() or epoll_wait() is level triggered.      *)

\* The multiplexer returns: the eventfd of the ring is readable.
RecvSelect ==
  /\ rpc = "select"
  /\ evtFd > 0
  /\ rpc' = "readEvent"
  /\ ring_unchanged
  /\ UNCHANGED <<evtFd, sender, cnt, rt, rh, addr, pending, handled>>

\* Variant: one message is received per eventfd_read, whatever it returned.
RecvReadEventOnce ==
  /\ rpc = "readEvent"
  /\ cnt' = 1
  /\ evtFd' = 0
  /\ rpc' = "nextMessage"
  /\ ring_unchanged
  /\ UNCHANGED <<sender, rt, rh, addr, pending, handled>>

\* eventfd_read() returns the counter and resets it.
RecvReadEvent ==
  /\ rpc = "readEvent"
  /\ cnt' = evtFd
  /\ evtFd' = 0
  /\ rpc' = "nextMessage"
  /\ ring_unchanged
  /\ UNCHANGED <<sender, rt, rh, addr, pending, handled>>

\* for (; cnt--;)
RecvNextMessage ==
  /\ rpc = "nextMessage"
  /\ \/ cnt > 0 /\ cnt' = cnt - 1 /\ rpc' = "loadTail"
     \/ cnt = 0 /\ rpc' = "select" /\ UNCHANGED cnt
  /\ ring_unchanged
  /\ UNCHANGED <<evtFd, sender, rt, rh, addr, pending, handled>>

RecvLoadTail ==
  /\ rpc = "loadTail"
  /\ rt' = tail
  /\ rpc' = "loadHead"
  /\ ring_unchanged
  /\ UNCHANGED <<evtFd, sender, cnt, rh, addr, pending, handled>>

\* h = ring->_head; when h == t __FastQRecv returns false and FastQRecv
\* relaxes and calls it again.
RecvLoadHead ==
  /\ rpc = "loadHead"
  /\ \/ head # rt /\ rh' = head /\ rpc' = "copyHeader" /\ UNCHANGED rt
     \/ head = rt /\ rt' = 0 /\ rpc' = "loadTail" /\ UNCHANGED rh
  /\ ring_unchanged
  /\ UNCHANGED <<evtFd, sender, cnt, addr, pending, handled>>

RecvCopyHeader ==
  /\ rpc = "copyHeader"
  /\ addr' = [addr EXCEPT !.header = ringData[Slot(rh)].header]
  /\ rpc' = "copyBody"
  /\ ring_unchanged
  /\ UNCHANGED <<evtFd, sender, cnt, rt, rh, pending, handled>>

RecvCopyBody ==
  /\ rpc = "copyBody"
  /\ addr' = [addr EXCEPT !.body = ringData[Slot(rh)].body]
  /\ rpc' = "count"
  /\ ring_unchanged
  /\ UNCHANGED <<evtFd, sender, cnt, rt, rh, pending, handled>>

\* Variant: the dequeue is not counted.
RecvCountNothing ==
  /\ rpc = "count"
  /\ rpc' = "publish"
  /\ ring_unchanged
  /\ UNCHANGED <<evtFd, sender, cnt, rt, rh, addr, pending, handled>>

RecvCount ==
  /\ rpc = "count"
  /\ nr_dequeue' = CountUp(nr_dequeue)
  /\ rpc' = "publish"
  /\ UNCHANGED <<head, tail, ringData, nr_enqueue, evtFd, sender, cnt, rt, rh,
                 addr, pending, handled>>

\* ring->_head = (h + 1) & ring->_size: the node is given back.
RecvPublish ==
  /\ rpc = "publish"
  /\ head' = NextIndex(rh)
  /\ rpc' = "handler"
  /\ rt' = 0 /\ rh' = 0
  /\ UNCHANGED <<tail, ringData, nr_enqueue, nr_dequeue, evtFd, sender, cnt,
                 addr, pending, handled>>

\* handler(ring->src, ring->dst, type, code, subcode, addr, size)
RecvHandler ==
  /\ rpc = "handler"
  /\ handled' = addr.body
  /\ addr' = Whole(NoMsg)
  /\ pending' = Tail(pending)
  /\ rpc' = "nextMessage"
  /\ ring_unchanged
  /\ UNCHANGED <<evtFd, sender, cnt, rt, rh>>

-----------------------------------------------------------------------------
SendStep ==
  \/ SendLoadHead \/ SendLoadTail \/ SendRefused \/ SendCopyHeader
  \/ SendCopyBody \/ SendCount \/ SendPublish \/ SendNotify

RecvStep ==
  \/ RecvSelect \/ RecvReadEvent \/ RecvNextMessage \/ RecvLoadTail
  \/ RecvLoadHead \/ RecvCopyHeader \/ RecvCopyBody \/ RecvCount
  \/ RecvPublish \/ RecvHandler

Call == \E f \in {"FastQSend", "FastQTrySend"}, m \in Msg : SendCall(f, m)

Next == Call \/ SendStep \/ RecvStep

Spec == Init /\ [][Next]_vars

\* Both threads are scheduled; nobody has to call FastQSend.
Fairness == WF_vars(SendStep) /\ WF_vars(RecvStep)

FairSpec == Spec /\ Fairness
-----------------------------------------------------------------------------
(* Properties.                                                             *)

\* The type invariant: every index the two threads store or hold stays
\* inside the ring (the `& _size` of __FastQSend and __FastQRecv), and the
\* counters stay in their width.
TypeOK ==
  /\ head \in Index /\ tail \in Index
  /\ ringData \in [1 .. RingSize -> Node]
  /\ nr_enqueue \in 0 .. CounterMod - 1 /\ nr_dequeue \in 0 .. CounterMod - 1
  /\ evtFd \in Nat
  /\ spc \in SenderPC /\ api \in {"FastQSend", "FastQTrySend"}
  /\ smsg \in Item /\ sh \in Index /\ st \in Index
  /\ rpc \in ReceiverPC /\ cnt \in Nat
  /\ rt \in Index /\ rh \in Index /\ addr \in Node
  /\ pending \in Seq(Msg)
  /\ handled \in Item

\* The receiver is between `cnt--` and the store of _head.
Receiving == rpc \in {"loadTail", "loadHead", "copyHeader", "copyBody",
                      "count", "publish"}

One(b) == IF b THEN 1 ELSE 0

\* Every published message is announced exactly once: what occupies the ring
\* is what the eventfd counts, plus what the receiver read from it and still
\* owes, plus the message whose eventfd_write has not happened yet.
\* (FastQSend writes the eventfd after the ring, FastQRecv trusts its count.)
EventsMatchMessages ==
  Occupied = evtFd + cnt + One(Receiving) + One(spc = "notify")

\* FastQRecv never polls an empty ring in vain: each time __FastQRecv
\* compares _head with the _tail it read, there is a message.
RecvNeverSpins == rpc = "loadHead" => head # rt

\* The handler is called with the oldest accepted message, whole: its header
\* words and its body come from the same send.
HandedInOrder ==
  rpc = "handler" => pending # <<>> /\ addr = Whole(Head(pending))

\* The two threads are never inside the same node: the sender does not write
\* a node the receiver is reading.
NoNodeRace ==
  (/\ spc \in {"copyHeader", "copyBody", "count", "publish"}
   /\ rpc \in {"copyHeader", "copyBody"}) => st # rh

\* Whenever FastQMsgNum could read the two counters at one instant, their
\* unsigned difference is a possible number of messages: neither a wrapped
\* value nor more than the ring can hold.
StatsWithinCapacity == (nr_enqueue - nr_dequeue) % CounterMod <= RingSize - 1

\* What the sender's locals say of the ring.  The head it read may be old by
\* now: then there is more room than it believes, never less.
SenderInv ==
  /\ spc # "idle" => smsg \in Msg
  /\ spc = "loadTail" => Distance(tail, sh) <= RingSize - 1 - Occupied
  /\ spc \in {"copyHeader", "copyBody", "count", "publish"}
       => st = tail /\ Occupied < RingSize - 1
  /\ spc = "copyBody" => ringData[Slot(st)].header = smsg
  /\ spc \in {"count", "publish"} => ringData[Slot(st)] = Whole(smsg)

\* What the receiver's locals say of the ring.  The tail it read may be old:
\* then there are more messages than it believes, never fewer.
ReceiverInv ==
  /\ rpc \in {"select", "readEvent"} => cnt = 0
  /\ rpc = "loadHead" => Distance(head, rt) \in 1 .. Occupied
  /\ rpc \in {"copyHeader", "copyBody", "count", "publish"} => rh = head
  /\ rpc = "copyBody" => addr.header = ringData[Slot(rh)].header
  /\ rpc \in {"count", "publish"} => addr = ringData[Slot(rh)]
  /\ rpc = "handler" => pending # <<>> /\ addr = Whole(pending[1])

\* The occupied nodes hold, in ring order, the accepted messages that the
\* receiver has not taken.
RingHoldsPending ==
  LET taken == One(rpc = "handler")
  IN  /\ Len(pending) = Occupied + taken
      /\ \A k \in 0 .. RingSize - 1 : k < Occupied =>
           ringData[NodeAt(k)] = Whole(pending[k + 1 + taken])

\* The counters differ by the messages in the ring, give or take the ones
\* counted but not yet published by either thread.
StatsMatch ==
  (nr_enqueue - nr_dequeue) % CounterMod
    = Occupied + One(spc = "publish") - One(rpc = "publish")

\* The inductive invariant: everything above holds because all of it does.
RingInv ==
  /\ TypeOK
  /\ SenderInv
  /\ ReceiverInv
  /\ EventsMatchMessages
  /\ RingHoldsPending
  /\ StatsMatch

\* What the ring means as a channel: its queue is what the occupied nodes
\* hold, in ring order; a call that has seen a full ring is refused.
RingQueue == [k \in 1 .. Occupied |-> ringData[NodeAt(k - 1)].body]
RingHand  == IF rpc = "handler" THEN <<addr.body>> ELSE <<>>
CallPhase == CASE spc = "idle" -> "idle"
               [] spc = "notify" -> "accepted"
               [] spc = "loadTail" /\ IsFull(sh, tail) -> "refused"
               [] OTHER -> "sending"

\* The ring with its two threads implements the abstract channel, with one
\* node less than the ring has as its capacity.
Channel == INSTANCE FastQChannel WITH
  Capacity <- RingSize - 1, queue <- RingQueue, inHand <- RingHand,
  out <- handled, phase <- CallPhase, msg <- smsg

ImplementsChannel     == Channel!Spec
ImplementsFairChannel == Channel!FairSpec

\* FastQSend polls until it succeeds and FastQTrySend gives up: either way a
\* call that was made returns, because the receiver keeps draining.
SendReturns == spc # "idle" ~> spc = "idle"

\* A message in the ring is eventually taken to the handler, even if its
\* sender never sends again.
EventuallyHandled == pending # <<>> ~> rpc = "handler"
=============================================================================
