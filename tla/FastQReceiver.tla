---------------------------- MODULE FastQReceiver ----------------------------
(***************************************************************************)
(* The receiving side of one module: the loop of FastQRecv over all the    *)
(* rings of its module, while other threads create more of them, announce  *)
(* them on the module's notify eventfd, and send.                          *)
(*                                                                         *)
(* Both builds are covered.  With select() the loop copies the module's    *)
(* readset and maxfd, without the lock that the creators take, and waits   *)
(* on the copy: a ring that is created during the wait goes unnoticed      *)
(* until something in the copy becomes readable, which is what the notify  *)
(* eventfd is for.  With epoll the kernel's interest list is the one that  *)
(* __fastq_create_ring changes.                                            *)
(*                                                                         *)
(* A ring is what FastQRing proves it to be, a bounded channel: here only  *)
(* the number of its messages is kept.  A ring is created at the first     *)
(* send, when the peer is created (FastQCreateModule), or by FastQAddSet.  *)
(* Rings are not destroyed here.                                           *)
(***************************************************************************)
EXTENDS Naturals

CONSTANTS
  Source,     \* the modules that send to this one
  NoSource,   \* a NULL pointer in _evtfd_to_ring
  Capacity,   \* messages a ring can hold
  MaxFd,      \* bound: the largest file descriptor
  Builds,     \* subset of {"select", "epoll"}
  Creators    \* the pairs <<build, call>> of calls that may create a ring
              \* while the receiver runs, besides the first FastQSend

Notify == 3            \* notify_new_enqueue_evt_fd, opened first
Fd     == Notify .. MaxFd

ASSUME ReceiverAssumption ==
  /\ NoSource \notin Source
  /\ Capacity \in Nat \ {0}
  /\ MaxFd \in Nat /\ MaxFd >= Notify
  /\ Builds \subseteq {"select", "epoll"}
  /\ Creators \subseteq Builds \X {"FastQCreateModule", "FastQAddSet"}

VARIABLES
  build,      \* the multiplexer the program was compiled for
  nextFd,     \* the descriptor the next eventfd() returns
  ringFd,     \* _evt_fd of the ring of a source; Notify: no ring yet
  ring,       \* the sources whose ring pointer is in _ring[]
  tlb,        \* _evtfd_to_ring
  readset,    \* selector.readset, or the interest list of epfd
  maxfd,      \* selector.maxfd
  lock,       \* the source whose thread holds selector.rwlock
  event,      \* the counters of the eventfds
  queue,      \* messages in the ring of a source
  spc, call,  \* per source: where its thread is, in which call
  rpc,        \* where the receiver thread is
  ready,      \* its local readset (events[] of the epoll build)
  rmax,       \* its local max_fd
  curr,       \* its local curr_event_fd
  cnt         \* its local cnt

setup    == <<nextFd, ringFd, ring, tlb, readset, maxfd, lock>>
sender   == <<spc, call>>
receiver == <<rpc, ready, rmax, curr, cnt>>
vars == <<build, setup, event, queue, sender, receiver>>

Init ==
  /\ build \in Builds
  /\ nextFd = Notify + 1
  /\ ringFd = [s \in Source |-> Notify]
  /\ ring = {}
  /\ tlb = [f \in Fd |-> NoSource]
  /\ readset = {Notify} /\ maxfd = Notify
  /\ lock = NoSource
  /\ event = [f \in Fd |-> 0]
  /\ queue = [s \in Source |-> 0]
  /\ spc = [s \in Source |-> "idle"]
  /\ call = [s \in Source |-> "FastQSend"]
  /\ rpc = "loadReadset" /\ ready = {} /\ rmax = 0 /\ curr = Notify /\ cnt = 0

-----------------------------------------------------------------------------
(* The thread of a source: creating the ring.                              *)

Goto(s, l) == spc' = [spc EXCEPT ![s] = l]
Write(f) == event' = [event EXCEPT ![f] = @ + 1]

\* FastQSend finds a ring, or NULL: then it creates one.
CallSend(s) ==
  /\ spc[s] = "idle"
  /\ call' = [call EXCEPT ![s] = "FastQSend"]
  /\ Goto(s, IF s \in ring THEN "enqueue" ELSE "eventfd")
  /\ UNCHANGED <<build, setup, event, queue, receiver>>

\* FastQCreateModule of the source, or FastQAddSet of either end, while the
\* receiver runs.
CallCreate(s, c) ==
  /\ spc[s] = "idle" /\ s \notin ring /\ <<build, c>> \in Creators
  /\ call' = [call EXCEPT ![s] = c]
  /\ Goto(s, "eventfd")
  /\ UNCHANGED <<build, setup, event, queue, receiver>>

\* Variant: the eventfd is watched before it is in _evtfd_to_ring.
OpenEventfdWatches(s) ==
  /\ spc[s] = "eventfd" /\ nextFd <= MaxFd
  /\ ringFd' = [ringFd EXCEPT ![s] = nextFd]
  /\ readset' = readset \cup {nextFd}
  /\ nextFd' = nextFd + 1
  /\ Goto(s, "tlb")
  /\ UNCHANGED <<build, ring, tlb, maxfd, lock, event, queue, call, receiver>>

\* __fastq_create_ring: eventfd(0, EFD_CLOEXEC) into the new ring.
OpenEventfd(s) ==
  /\ spc[s] = "eventfd" /\ nextFd <= MaxFd
  /\ ringFd' = [ringFd EXCEPT ![s] = nextFd]
  /\ nextFd' = nextFd + 1
  /\ Goto(s, "tlb")
  /\ UNCHANGED <<build, ring, tlb, readset, maxfd, lock, event, queue, call,
                 receiver>>

StoreTlb(s) ==
  /\ spc[s] = "tlb"
  /\ tlb' = [tlb EXCEPT ![ringFd[s]] = s]
  /\ Goto(s, "watch")
  /\ UNCHANGED <<build, nextFd, ringFd, ring, readset, maxfd, lock, event,
                 queue, call, receiver>>

\* epoll_ctl(EPOLL_CTL_ADD), or FD_SET with the selector's lock taken.
Watch(s) ==
  /\ spc[s] = "watch"
  /\ \/ build = "epoll" /\ UNCHANGED lock /\ Goto(s, "ring")
     \/ build = "select" /\ lock = NoSource /\ lock' = s /\ Goto(s, "maxfd")
  /\ readset' = readset \cup {ringFd[s]}
  /\ UNCHANGED <<build, nextFd, ringFd, ring, tlb, maxfd, event, queue, call,
                 receiver>>

\* Variant: the new descriptor does not raise maxfd.
StoreMaxfdNothing(s) ==
  /\ spc[s] = "maxfd"
  /\ lock' = NoSource
  /\ Goto(s, "ring")
  /\ UNCHANGED <<build, nextFd, ringFd, ring, tlb, readset, maxfd, event,
                 queue, call, receiver>>

StoreMaxfd(s) ==
  /\ spc[s] = "maxfd"
  /\ maxfd' = IF ringFd[s] > maxfd THEN ringFd[s] ELSE maxfd
  /\ lock' = NoSource
  /\ Goto(s, "ring")
  /\ UNCHANGED <<build, nextFd, ringFd, ring, tlb, readset, event, queue,
                 call, receiver>>

\* Variant: the thread that created the ring never writes the notify eventfd.
StoreRingSilently(s) ==
  /\ spc[s] = "ring"
  /\ ring' = ring \cup {s}
  /\ Goto(s, IF call[s] = "FastQSend" THEN "enqueue" ELSE "idle")
  /\ UNCHANGED <<build, nextFd, ringFd, tlb, readset, maxfd, lock, event,
                 queue, call, receiver>>

\* The ring pointer is published.  FastQAddSet is done.
StoreRing(s) ==
  /\ spc[s] = "ring"
  /\ ring' = ring \cup {s}
  /\ Goto(s, IF call[s] = "FastQAddSet" THEN "idle" ELSE "notify")
  /\ UNCHANGED <<build, nextFd, ringFd, tlb, readset, maxfd, lock, event,
                 queue, call, receiver>>

\* eventfd_write(notify_new_enqueue_evt_fd, 1)
WriteNotify(s) ==
  /\ spc[s] = "notify"
  /\ Write(Notify)
  /\ Goto(s, IF call[s] = "FastQSend" THEN "enqueue" ELSE "idle")
  /\ UNCHANGED <<build, setup, queue, call, receiver>>

-----------------------------------------------------------------------------
(* The thread of a source: sending.                                        *)

\* Variant: a full ring is not noticed.
EnqueueUnchecked(s) ==
  /\ spc[s] = "enqueue"
  /\ queue' = [queue EXCEPT ![s] = @ + 1]
  /\ Goto(s, "event")
  /\ UNCHANGED <<build, setup, event, call, receiver>>

\* Variant: __FastQSend writes the eventfd, and its caller does again.
EnqueueAnnounces(s) ==
  /\ spc[s] = "enqueue" /\ queue[s] < Capacity
  /\ queue' = [queue EXCEPT ![s] = @ + 1]
  /\ Write(ringFd[s])
  /\ Goto(s, "event")
  /\ UNCHANGED <<build, setup, call, receiver>>

\* __FastQSend, polled until the ring has room.
Enqueue(s) ==
  /\ spc[s] = "enqueue" /\ queue[s] < Capacity
  /\ queue' = [queue EXCEPT ![s] = @ + 1]
  /\ Goto(s, "event")
  /\ UNCHANGED <<build, setup, event, call, receiver>>

\* eventfd_write(ring->_evt_fd, 1)
WriteEvent(s) ==
  /\ spc[s] = "event"
  /\ Write(ringFd[s])
  /\ Goto(s, "idle")
  /\ UNCHANGED <<build, setup, queue, call, receiver>>

-----------------------------------------------------------------------------
(* The receiver thread.                                                    *)

\* readset = this_module->selector.readset
LoadReadset ==
  /\ rpc = "loadReadset"
  /\ \/ build = "select" /\ ready' = readset /\ rpc' = "loadMaxfd"
     \/ build = "epoll" /\ rpc' = "wait" /\ UNCHANGED ready
  /\ UNCHANGED <<build, setup, event, queue, sender, rmax, curr, cnt>>

\* max_fd = this_module->selector.maxfd
LoadMaxfd ==
  /\ rpc = "loadMaxfd"
  /\ rmax' = maxfd
  /\ rpc' = "wait"
  /\ UNCHANGED <<build, setup, event, queue, sender, ready, curr, cnt>>

\* The descriptors the kernel looks at, at this moment of the wait.
Watched == IF build = "epoll" THEN readset ELSE {f \in ready : f <= rmax}

\* select() or epoll_wait() returns everything that is readable.
Wait ==
  /\ rpc = "wait"
  /\ \E f \in Watched : event[f] > 0
  /\ ready' = {f \in Watched : event[f] > 0}
  /\ rpc' = "scan"
  /\ UNCHANGED <<build, setup, event, queue, sender, rmax, curr, cnt>>

\* The scan goes up from descriptor 3 (select) or through events[] (epoll).
IsNext(f) ==
  /\ f \in ready
  /\ build = "select" => \A g \in ready : f <= g

\* The notify eventfd is only drained: it has done its work by ending the wait.
ScanNotify ==
  /\ rpc = "scan" /\ IsNext(Notify)
  /\ ready' = ready \ {Notify}
  /\ event' = [event EXCEPT ![Notify] = 0]
  /\ UNCHANGED <<build, setup, queue, sender, rpc, rmax, curr, cnt>>

\* The ring is looked up in _evtfd_to_ring.
ScanRing(f) ==
  /\ rpc = "scan" /\ IsNext(f) /\ f # Notify
  /\ ready' = ready \ {f}
  /\ IF tlb[f] = NoSource
     THEN UNCHANGED <<rpc, curr>>
     ELSE curr' = f /\ rpc' = "read"
  /\ UNCHANGED <<build, setup, event, queue, sender, rmax, cnt>>

ScanEnd ==
  /\ rpc = "scan" /\ ready = {}
  /\ rpc' = "loadReadset"
  /\ rmax' = 0 /\ curr' = Notify
  /\ UNCHANGED <<build, setup, event, queue, sender, ready, cnt>>

\* Variant: the counter is read but not reset, as with EFD_SEMAPHORE.
ReadEventKeeps ==
  /\ rpc = "read" /\ event[curr] > 0
  /\ cnt' = event[curr]
  /\ rpc' = "deliver"
  /\ UNCHANGED <<build, setup, event, queue, sender, ready, rmax, curr>>

\* eventfd_read blocks while the counter is zero (the flags are EFD_CLOEXEC
\* only).
ReadEvent ==
  /\ rpc = "read" /\ event[curr] > 0
  /\ cnt' = event[curr]
  /\ event' = [event EXCEPT ![curr] = 0]
  /\ rpc' = "deliver"
  /\ UNCHANGED <<build, setup, queue, sender, ready, rmax, curr>>

\* Variant: one message per pass of the scan.
DeliverOnce ==
  /\ rpc = "deliver" /\ cnt > 0 /\ queue[tlb[curr]] > 0
  /\ queue' = [queue EXCEPT ![tlb[curr]] = @ - 1]
  /\ cnt' = 0
  /\ rpc' = "handler"
  /\ UNCHANGED <<build, setup, event, sender, ready, rmax, curr>>

\* __FastQRecv, polled until the ring has a message.
Deliver ==
  /\ rpc = "deliver" /\ cnt > 0 /\ queue[tlb[curr]] > 0
  /\ queue' = [queue EXCEPT ![tlb[curr]] = @ - 1]
  /\ cnt' = cnt - 1
  /\ rpc' = "handler"
  /\ UNCHANGED <<build, setup, event, sender, ready, rmax, curr>>

Handler ==
  /\ rpc = "handler"
  /\ rpc' = "deliver"
  /\ UNCHANGED <<build, setup, event, queue, sender, ready, rmax, curr, cnt>>

DeliverEnd ==
  /\ rpc = "deliver" /\ cnt = 0
  /\ rpc' = "scan"
  /\ UNCHANGED <<build, setup, event, queue, sender, ready, rmax, curr, cnt>>

-----------------------------------------------------------------------------
SourceStep(s) ==
  \/ OpenEventfd(s) \/ StoreTlb(s) \/ Watch(s) \/ StoreMaxfd(s)
  \/ StoreRing(s) \/ WriteNotify(s) \/ Enqueue(s) \/ WriteEvent(s)

RecvStep ==
  \/ LoadReadset \/ LoadMaxfd \/ Wait
  \/ ScanNotify \/ (\E f \in Fd : ScanRing(f)) \/ ScanEnd
  \/ ReadEvent \/ Deliver \/ Handler \/ DeliverEnd

Next ==
  \/ \E s \in Source : CallSend(s) \/ SourceStep(s)
  \/ \E s \in Source, c \in {"FastQCreateModule", "FastQAddSet"} :
       CallCreate(s, c)
  \/ RecvStep

Spec == Init /\ [][Next]_vars

\* Every thread is scheduled; nobody has to call FastQSend.
Fairness == WF_vars(RecvStep) /\ \A s \in Source : WF_vars(SourceStep(s))

FairSpec == Spec /\ Fairness

-----------------------------------------------------------------------------
(* Properties.                                                             *)

SourcePC == {"idle", "eventfd", "tlb", "watch", "maxfd", "ring", "notify",
             "enqueue", "event"}
ReceiverPC == {"loadReadset", "loadMaxfd", "wait", "scan", "read", "deliver",
               "handler"}

TypeOK ==
  /\ build \in Builds
  /\ nextFd \in Notify + 1 .. MaxFd + 1
  /\ ringFd \in [Source -> Fd]
  /\ ring \subseteq Source
  /\ tlb \in [Fd -> Source \cup {NoSource}]
  /\ readset \subseteq Fd /\ maxfd \in Fd
  /\ lock \in Source \cup {NoSource}
  /\ event \in [Fd -> Nat]
  /\ queue \in [Source -> 0 .. Capacity]
  /\ spc \in [Source -> SourcePC]
  /\ call \in [Source -> {"FastQSend", "FastQCreateModule", "FastQAddSet"}]
  /\ rpc \in ReceiverPC
  /\ ready \subseteq Fd /\ rmax \in Nat /\ curr \in Fd /\ cnt \in Nat

One(b) == IF b THEN 1 ELSE 0

\* The receiver has read the eventfd of s and still owes `cnt` messages.
Owes(s) == rpc \in {"deliver", "handler"} /\ tlb[curr] = s

\* What is announced of the ring of s: counted on its eventfd, read from it by
\* the receiver, or about to be written to it.
Announced(s) == event[ringFd[s]] + (IF Owes(s) THEN cnt ELSE 0)
                  + One(spc[s] = "event")

\* Every message is announced once, on the eventfd of its own ring.
EventsMatchMessages == \A s \in ring : queue[s] = Announced(s)

\* The receiver is never stuck inside a pass of its scan: eventfd_read finds
\* a count, and the ring the messages that the count promises.
ReceiverNeverStuck ==
  /\ rpc = "read" => event[curr] > 0
  /\ rpc = "deliver" /\ cnt > 0 => queue[tlb[curr]] > 0

\* A descriptor the receiver may be told about leads to the ring that owns
\* it: rings are entered in _evtfd_to_ring before they are watched.
WatchedHaveRings ==
  \A f \in (readset \cup ready) \ {Notify} :
    tlb[f] # NoSource /\ ringFd[tlb[f]] = f

\* No wakeup is lost: while the receiver waits and the eventfd of a ring is
\* pending, the wait covers that eventfd, or it is about to end because of
\* the notify eventfd.
NoLostWakeup ==
  rpc = "wait" =>
    \A s \in ring : event[ringFd[s]] > 0 =>
      ringFd[s] \in Watched \/ event[Notify] > 0

\* How far the thread of s has come with its ring.
Progress ==
  \A s \in Source :
    /\ spc[s] \in IF s \in ring THEN {"idle", "notify", "enqueue", "event"}
                 ELSE {"idle", "eventfd", "tlb", "watch", "maxfd", "ring"}
    /\ ringFd[s] = Notify <=> s \notin ring /\ spc[s] \in {"idle", "eventfd"}
    /\ spc[s] \in {"eventfd", "tlb", "watch", "maxfd", "ring", "notify"} =>
         /\ queue[s] = 0
         /\ call[s] # "FastQSend" => <<build, call[s]>> \in Creators

\* An eventfd belongs to one ring; _evtfd_to_ring leads to it once the
\* creator of the ring has stored it there.
OneOwner ==
  /\ \A s \in Source : ringFd[s] < nextFd
  /\ \A s, u \in Source : ringFd[s] = ringFd[u] => ringFd[s] = Notify \/ s = u
  /\ \A s \in Source :
       ringFd[s] # Notify /\ spc[s] # "tlb" => tlb[ringFd[s]] = s
  /\ \A f \in Fd : tlb[f] # NoSource => f # Notify /\ ringFd[tlb[f]] = f

\* What is counted on an eventfd is in its ring, also before the ring is
\* published.
Counted ==
  /\ \A s \in Source :
       queue[s] = IF ringFd[s] = Notify THEN 0 ELSE Announced(s)
  /\ \A f \in Fd : f >= nextFd => event[f] = 0

\* What a pass of the scan has still to do: the descriptors that are left are
\* counted on, and the one at hand has its ring and is not left.
PassSound ==
  /\ rpc \in {"scan", "read", "deliver", "handler"} =>
       \A f \in ready : event[f] > 0
  /\ rpc \in {"read", "deliver", "handler"} =>
       tlb[curr] # NoSource /\ curr \notin ready

\* A published ring is watched, and with select() the receiver's copies miss
\* only rings that are announced.
Covered ==
  /\ \A s \in Source :
       /\ s \in ring \/ spc[s] \in {"maxfd", "ring"} => ringFd[s] \in readset
       /\ build = "select" /\ (s \in ring \/ spc[s] = "ring") => ringFd[s] <= maxfd
  /\ build = "epoll" => rpc # "loadMaxfd"
  /\ build = "select" /\ rpc \in {"loadMaxfd", "wait"}
       /\ <<"select", "FastQAddSet">> \notin Creators =>
         \A s \in ring :
           \/ ringFd[s] \in ready /\ (rpc = "wait" => ringFd[s] <= rmax)
           \/ event[Notify] > 0
           \/ spc[s] = "notify"

\* The inductive invariant.  Beyond the properties above: why they hold while
\* a ring is being made, which the eventfd that it will be announced on is
\* part of.
ReceiverInv ==
  /\ TypeOK
  /\ Progress /\ OneOwner /\ WatchedHaveRings
  /\ Counted /\ PassSound /\ ReceiverNeverStuck /\ Covered

\* A message in a ring is eventually handed to the handler, also when its
\* source never sends again.
EventuallyHandled ==
  \A s \in Source : queue[s] > 0 ~> rpc = "handler" /\ tlb[curr] = s

\* A send returns: the receiver does not neglect a ring that is full.
SendReturns == \A s \in Source : spc[s] = "enqueue" ~> spc[s] = "idle"
=============================================================================
