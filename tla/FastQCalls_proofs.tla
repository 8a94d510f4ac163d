------------------------- MODULE FastQCalls_proofs -------------------------
(***************************************************************************)
(* Proofs about FastQCalls, for any number of modules, any threads and any *)
(* sets: the readers miss no ring, one call changes a module at a time,    *)
(* and the calls do not block each other.                                  *)
(*                                                                         *)
(* The first argument: a ring is only made for a destination that is       *)
(* registered (MadeByRegistered), because every call that makes one has    *)
(* tested that or registered the module itself (CallKnows), and no step    *)
(* takes a ring or a registration away.  So a reader that passes over a    *)
(* module that is not registered misses no ring, and what it has still to  *)
(* report lies ahead of it (ReaderKnows).                                  *)
(*                                                                         *)
(* The section after it keeps for FastQCallsPairs_proofs what the calls    *)
(* know of their arguments, and that only one creation is under way        *)
(* (CallerInv); the last one is about the status and the locks.            *)
(***************************************************************************)
EXTENDS FastQCalls, TLAPS, FiniteSetTheorems, SequenceTheorems

\* Where a call is at work on a pair, and where a reader is.
Working == {"create rx", "create tx", "add rx", "add tx", "enqueue"}
Reading == {"stat", "dump", "told"}

\* The types of what the argument is about.
Types ==
  /\ pc = [t \in Thread |-> pc[t]] /\ todo = [t \in Thread |-> todo[t]]
  /\ m \in [Thread -> Nat] /\ p \in [Thread -> Nat] /\ bufIdx \in [Thread -> Nat]
  /\ unseen \in [Thread -> SUBSET (Module \X Source)]
  /\ ring \in [Module -> [Source -> {"none", "sized", "unsized"}]]
  /\ registered \subseteq Module /\ created \subseteq registered

\* The module of a call is registered, unless it is the source of a send, and so
\* is the peer it has chosen.
CallKnows(t) ==
  /\ pc[t] \notin Working => todo[t] = << >>
  /\ pc[t] = "idle" => p[t] = 0
  /\ pc[t] \notin Reading \cup {"idle", "send", "enqueue"} => m[t] \in registered
  /\ pc[t] \in {"send", "enqueue"} => m[t] \in Module
  /\ pc[t] \in Working \cup {"add between", "send"} => p[t] \in registered

\* A ring has a destination that is registered.
MadeByRegistered ==
  \A d \in Module, s \in Source : ring[d][s] # "none" => d \in registered

\* What a reader has still to report is there and lies ahead of it.
ReaderKnows(t) ==
  /\ pc[t] \in {"stat", "dump"} => p[t] <= N
  /\ pc[t] \notin Reading => unseen[t] = {} /\ bufIdx[t] = 0
  /\ pc[t] # "told" => bufIdx[t] < BufSize
  /\ \A d \in Module, s \in Source : <<d, s>> \in unseen[t] =>
       /\ ring[d][s] # "none"
       /\ m[t] < d \/ (m[t] = d /\ p[t] <= s)

\* The first inductive invariant.
ReadInv ==
  /\ Types /\ MadeByRegistered
  /\ \A t \in Thread : CallKnows(t) /\ ReaderKnows(t)

-----------------------------------------------------------------------------
(* What a step does not disturb.                                           *)

\* The modules are 1 .. N, and the sources 0 .. N.
LEMMA Slots ==
  /\ N \in Nat \ {0} /\ BufSize \in Nat \ {0}
  /\ \A d : d \in Module <=> d \in Nat /\ d >= 1 /\ d <= N
  /\ \A s : s \in Source <=> s \in Nat /\ s <= N
BY CallsAssumption DEF Module, Source

\* A step of a thread leaves what the others know as it was, if it takes no
\* registration and no ring away.
LEMMA OthersKept ==
  ASSUME ReadInv, NEW t \in Thread,
         \A u \in Thread \ {t} : /\ pc'[u] = pc[u] /\ todo'[u] = todo[u]
                                 /\ m'[u] = m[u] /\ p'[u] = p[u]
                                 /\ unseen'[u] = unseen[u] /\ bufIdx'[u] = bufIdx[u],
         registered \subseteq registered',
         \A d \in Module, s \in Source : ring[d][s] # "none" => ring'[d][s] # "none"
  PROVE  \A u \in Thread \ {t} : CallKnows(u)' /\ ReaderKnows(u)'
<1> SUFFICES ASSUME NEW u \in Thread \ {t} PROVE CallKnows(u)' /\ ReaderKnows(u)'
  OBVIOUS
<1>1. CallKnows(u)'
  BY DEF ReadInv, CallKnows
<1>2. ReaderKnows(u)'
  BY DEF ReadInv, ReaderKnows
<1>3. QED
  BY <1>1, <1>2

\* A thread that is no reader has nothing to report.
LEMMA MineKept ==
  ASSUME ReadInv, NEW t \in Thread, pc[t] \notin Reading, pc'[t] \notin Reading,
         unseen' = unseen, bufIdx' = bufIdx
  PROVE  ReaderKnows(t)'
<1>1. unseen'[t] = {} /\ bufIdx'[t] = 0
  BY DEF ReadInv, ReaderKnows
<1>2. QED
  BY <1>1, Slots DEF ReaderKnows, Reading

\* The next peer is a number again.
LEMMA AdvanceCounts ==
  ASSUME NEW t \in Thread, p \in [Thread -> Nat], Advance(t)
  PROVE  p' \in [Thread -> Nat]
<1>1. p[t] + 1 \in Nat
  OBVIOUS
<1>2. p' = [p EXCEPT ![t] = p[t] + 1]
  BY DEF Advance
<1>3. QED
  BY <1>1, <1>2

-----------------------------------------------------------------------------
(* The steps.                                                              *)

\* The ring of the pair is stored: both its modules are registered.
LEMMA StoreRingStep ==
  ASSUME ReadInv, NEW t \in Thread, StoreRing(t)
  PROVE  ReadInv'
<1> USE DEF StoreRing, At, Doing, Done, Goto, Advance, Over, shared, locals, history
<1>1. Types'
  <2>1. ring' \in [Module -> [Source -> {"none", "sized", "unsized"}]]
    BY DEF ReadInv, Types
  <2>2. QED
    BY <2>1 DEF ReadInv, Types
<1>2. MadeByRegistered'
  <2>1. todo[t] # << >> => pc[t] \in Working
    BY DEF ReadInv, CallKnows
  <2>2. Dst(t) \in registered
    BY <2>1 DEF ReadInv, CallKnows, Working, Reading, Dst, Inward
  <2>3. QED
    BY <2>2 DEF ReadInv, Types, MadeByRegistered
<1>3. \A u \in Thread \ {t} : CallKnows(u)' /\ ReaderKnows(u)'
  BY OthersKept DEF ReadInv, Types
<1>4. CallKnows(t)'
  BY DEF ReadInv, Types, CallKnows, Working, Reading
<1>5. ReaderKnows(t)'
  BY MineKept DEF ReadInv, Types, CallKnows, Working, Reading
<1>6. QED
  BY <1>1, <1>2, <1>3, <1>4, <1>5 DEF ReadInv

\* MOD_SET loads the word.
LEMMA LoadSetStep ==
  ASSUME ReadInv, NEW t \in Thread, LoadSet(t)
  PROVE  ReadInv'
<1> USE DEF LoadSet, At, Doing, Done, Goto, Advance, Over, shared, locals, history
<1>1. Types'
  BY Slots DEF ReadInv, Types
<1>2. MadeByRegistered'
  BY DEF ReadInv, MadeByRegistered
<1>3. \A u \in Thread \ {t} : CallKnows(u)' /\ ReaderKnows(u)'
  BY OthersKept DEF ReadInv, Types
<1>4. CallKnows(t)'
  BY DEF ReadInv, Types, CallKnows, Working, Reading
<1>5. ReaderKnows(t)'
  BY MineKept DEF ReadInv, Types, CallKnows, Working, Reading
<1>6. QED
  BY <1>1, <1>2, <1>3, <1>4, <1>5 DEF ReadInv

\* MOD_SET stores it.
LEMMA StoreSetStep ==
  ASSUME ReadInv, NEW t \in Thread, StoreSet(t)
  PROVE  ReadInv'
<1> USE DEF StoreSet, At, Doing, Done, Goto, Advance, Over, shared, locals, history
<1>1. Types'
  BY Slots DEF ReadInv, Types
<1>2. MadeByRegistered'
  BY DEF ReadInv, MadeByRegistered
<1>3. \A u \in Thread \ {t} : CallKnows(u)' /\ ReaderKnows(u)'
  BY OthersKept DEF ReadInv, Types
<1>4. CallKnows(t)'
  BY DEF ReadInv, Types, CallKnows, Working, Reading
<1>5. ReaderKnows(t)'
  BY MineKept DEF ReadInv, Types, CallKnows, Working, Reading
<1>6. QED
  BY <1>1, <1>2, <1>3, <1>4, <1>5 DEF ReadInv

\* FastQAddSet takes a lock of the peer.
LEMMA LockPeerStep ==
  ASSUME ReadInv, NEW t \in Thread, LockPeer(t)
  PROVE  ReadInv'
<1> USE DEF LockPeer, At, Doing, Done, Goto, Advance, Over, shared, locals, history
<1>1. Types'
  BY Slots DEF ReadInv, Types
<1>2. MadeByRegistered'
  BY DEF ReadInv, MadeByRegistered
<1>3. \A u \in Thread \ {t} : CallKnows(u)' /\ ReaderKnows(u)'
  BY OthersKept DEF ReadInv, Types
<1>4. CallKnows(t)'
  BY DEF ReadInv, Types, CallKnows, Working, Reading
<1>5. ReaderKnows(t)'
  BY MineKept DEF ReadInv, Types, CallKnows, Working, Reading
<1>6. QED
  BY <1>1, <1>2, <1>3, <1>4, <1>5 DEF ReadInv

\* FastQAddSet releases it.
LEMMA UnlockPeerStep ==
  ASSUME ReadInv, NEW t \in Thread, UnlockPeer(t)
  PROVE  ReadInv'
<1> USE DEF UnlockPeer, At, Doing, Done, Goto, Advance, Over, shared, locals, history
<1>1. Types'
  BY Slots DEF ReadInv, Types
<1>2. MadeByRegistered'
  BY DEF ReadInv, MadeByRegistered
<1>3. \A u \in Thread \ {t} : CallKnows(u)' /\ ReaderKnows(u)'
  BY OthersKept DEF ReadInv, Types
<1>4. CallKnows(t)'
  BY DEF ReadInv, Types, CallKnows, Working, Reading
<1>5. ReaderKnows(t)'
  BY MineKept DEF ReadInv, Types, CallKnows, Working, Reading
<1>6. QED
  BY <1>1, <1>2, <1>3, <1>4, <1>5 DEF ReadInv

\* FastQCreateModule copies the rxset.
LEMMA CopyRxStep ==
  ASSUME ReadInv, NEW t \in Thread, CopyRx(t)
  PROVE  ReadInv'
<1> USE DEF CopyRx, At, Doing, Done, Goto, Advance, Over, shared, locals, history
<1>1. Types'
  BY Slots DEF ReadInv, Types
<1>2. MadeByRegistered'
  BY DEF ReadInv, MadeByRegistered
<1>3. \A u \in Thread \ {t} : CallKnows(u)' /\ ReaderKnows(u)'
  BY OthersKept DEF ReadInv, Types
<1>4. CallKnows(t)'
  BY DEF ReadInv, Types, CallKnows, Working, Reading
<1>5. ReaderKnows(t)'
  BY MineKept DEF ReadInv, Types, CallKnows, Working, Reading
<1>6. QED
  BY <1>1, <1>2, <1>3, <1>4, <1>5 DEF ReadInv

\* FastQCreateModule copies the txset.
LEMMA CopyTxStep ==
  ASSUME ReadInv, NEW t \in Thread, CopyTx(t)
  PROVE  ReadInv'
<1> USE DEF CopyTx, At, Doing, Done, Goto, Advance, Over, shared, locals, history
<1>1. Types'
  BY Slots DEF ReadInv, Types
<1>2. MadeByRegistered'
  BY DEF ReadInv, MadeByRegistered
<1>3. \A u \in Thread \ {t} : CallKnows(u)' /\ ReaderKnows(u)'
  BY OthersKept DEF ReadInv, Types
<1>4. CallKnows(t)'
  BY DEF ReadInv, Types, CallKnows, Working, Reading
<1>5. ReaderKnows(t)'
  BY MineKept DEF ReadInv, Types, CallKnows, Working, Reading
<1>6. QED
  BY <1>1, <1>2, <1>3, <1>4, <1>5 DEF ReadInv

\* FastQCreateModule turns to a peer.
LEMMA CreatePeerStep ==
  ASSUME ReadInv, NEW t \in Thread, CreatePeer(t)
  PROVE  ReadInv'
<1> USE DEF CreatePeer, At, Doing, Done, Goto, Advance, Over, shared, locals, history
<1>1. Types'
  <2>1. p' \in [Thread -> Nat]
    BY AdvanceCounts DEF ReadInv, Types
  <2>2. pc' = [u \in Thread |-> pc'[u]] /\ todo' = [u \in Thread |-> todo'[u]]
    BY DEF ReadInv, Types
  <2>3. QED
    BY <2>1, <2>2 DEF ReadInv, Types
<1>2. MadeByRegistered'
  BY DEF ReadInv, MadeByRegistered
<1>3. \A u \in Thread \ {t} : CallKnows(u)' /\ ReaderKnows(u)'
  BY OthersKept DEF ReadInv, Types
<1>4. CallKnows(t)'
  BY DEF ReadInv, Types, CallKnows, Working, Reading
<1>5. ReaderKnows(t)'
  BY MineKept DEF ReadInv, Types, CallKnows, Working, Reading
<1>6. QED
  BY <1>1, <1>2, <1>3, <1>4, <1>5 DEF ReadInv

\* FastQCreateModule turns to the ring to the peer.
LEMMA CreateOutwardStep ==
  ASSUME ReadInv, NEW t \in Thread, CreateOutward(t)
  PROVE  ReadInv'
<1> USE DEF CreateOutward, At, Doing, Done, Goto, Advance, Over, shared, locals, history
<1>1. Types'
  BY Slots DEF ReadInv, Types
<1>2. MadeByRegistered'
  BY DEF ReadInv, MadeByRegistered
<1>3. \A u \in Thread \ {t} : CallKnows(u)' /\ ReaderKnows(u)'
  BY OthersKept DEF ReadInv, Types
<1>4. CallKnows(t)'
  BY DEF ReadInv, Types, CallKnows, Working, Reading
<1>5. ReaderKnows(t)'
  BY MineKept DEF ReadInv, Types, CallKnows, Working, Reading
<1>6. QED
  BY <1>1, <1>2, <1>3, <1>4, <1>5 DEF ReadInv

\* FastQCreateModule goes on to the next peer.
LEMMA CreateNextStep ==
  ASSUME ReadInv, NEW t \in Thread, CreateNext(t)
  PROVE  ReadInv'
<1> USE DEF CreateNext, At, Doing, Done, Goto, Advance, Over, shared, locals, history
<1>1. Types'
  <2>1. p' \in [Thread -> Nat]
    BY AdvanceCounts DEF ReadInv, Types
  <2>2. pc' = [u \in Thread |-> pc'[u]] /\ todo' = [u \in Thread |-> todo'[u]]
    BY DEF ReadInv, Types
  <2>3. QED
    BY <2>1, <2>2 DEF ReadInv, Types
<1>2. MadeByRegistered'
  BY DEF ReadInv, MadeByRegistered
<1>3. \A u \in Thread \ {t} : CallKnows(u)' /\ ReaderKnows(u)'
  BY OthersKept DEF ReadInv, Types
<1>4. CallKnows(t)'
  BY DEF ReadInv, Types, CallKnows, Working, Reading
<1>5. ReaderKnows(t)'
  BY MineKept DEF ReadInv, Types, CallKnows, Working, Reading
<1>6. QED
  BY <1>1, <1>2, <1>3, <1>4, <1>5 DEF ReadInv

\* FastQCreateModule stores the size, and the ring from anyone.
LEMMA StoreSizeStep ==
  ASSUME ReadInv, NEW t \in Thread, StoreSize(t)
  PROVE  ReadInv'
<1> USE DEF StoreSize, At, Doing, Done, Goto, Advance, Over, shared, locals, history
<1>1. Types'
  <2>1. ring' \in [Module -> [Source -> {"none", "sized", "unsized"}]]
    BY DEF ReadInv, Types
  <2>2. QED
    BY <2>1 DEF ReadInv, Types
<1>2. MadeByRegistered'
  <2>1. m[t] \in registered
    BY DEF ReadInv, CallKnows, Reading
  <2>2. QED
    BY <2>1 DEF ReadInv, Types, MadeByRegistered
<1>3. \A u \in Thread \ {t} : CallKnows(u)' /\ ReaderKnows(u)'
  BY OthersKept DEF ReadInv, Types
<1>4. CallKnows(t)'
  BY DEF ReadInv, Types, CallKnows, Working, Reading
<1>5. ReaderKnows(t)'
  BY MineKept DEF ReadInv, Types, CallKnows, Working, Reading
<1>6. QED
  BY <1>1, <1>2, <1>3, <1>4, <1>5 DEF ReadInv

\* FastQCreateModule is called, and registers the module.
LEMMA CallCreateStep ==
  ASSUME ReadInv, NEW t \in Thread, NEW i \in Module, NEW rxset, NEW txset, CallCreate(t, i, rxset, txset)
  PROVE  ReadInv'
<1> USE DEF CallCreate, At, Doing, Done, Goto, Advance, Over, shared, locals, history
<1>1. Types'
  BY Slots DEF ReadInv, Types
<1>2. MadeByRegistered'
  BY DEF ReadInv, MadeByRegistered
<1>3. \A u \in Thread \ {t} : CallKnows(u)' /\ ReaderKnows(u)'
  BY OthersKept DEF ReadInv, Types
<1>4. CallKnows(t)'
  BY DEF ReadInv, Types, CallKnows, Working, Reading
<1>5. ReaderKnows(t)'
  BY MineKept DEF ReadInv, Types, CallKnows, Working, Reading
<1>6. QED
  BY <1>1, <1>2, <1>3, <1>4, <1>5 DEF ReadInv

\* FastQCreateModule returns.
LEMMA CreateReturnStep ==
  ASSUME ReadInv, NEW t \in Thread, CreateReturn(t)
  PROVE  ReadInv'
<1> USE DEF CreateReturn, At, Doing, Done, Goto, Advance, Over, shared, locals, history, Idle
<1>1. Types'
  <2>1. created' \subseteq registered
    BY DEF ReadInv, Types, CallKnows, Reading
  <2>2. QED
    BY <2>1 DEF ReadInv, Types
<1>2. MadeByRegistered'
  BY DEF ReadInv, MadeByRegistered
<1>3. \A u \in Thread \ {t} : CallKnows(u)' /\ ReaderKnows(u)'
  BY OthersKept DEF ReadInv, Types
<1>4. CallKnows(t)'
  BY DEF ReadInv, Types, CallKnows, Working, Reading
<1>5. ReaderKnows(t)'
  BY MineKept DEF ReadInv, Types, CallKnows, Working, Reading
<1>6. QED
  BY <1>1, <1>2, <1>3, <1>4, <1>5 DEF ReadInv

\* FastQAddSet is called.
LEMMA CallAddSetStep ==
  ASSUME ReadInv, NEW t \in Thread, NEW i \in Module, NEW rxset, NEW txset, CallAddSet(t, i, rxset, txset)
  PROVE  ReadInv'
<1> USE DEF CallAddSet, At, Doing, Done, Goto, Advance, Over, shared, locals, history
<1>1. Types'
  BY Slots DEF ReadInv, Types
<1>2. MadeByRegistered'
  BY DEF ReadInv, MadeByRegistered
<1>3. \A u \in Thread \ {t} : CallKnows(u)' /\ ReaderKnows(u)'
  BY OthersKept DEF ReadInv, Types
<1>4. CallKnows(t)'
  BY DEF ReadInv, Types, CallKnows, Working, Reading
<1>5. ReaderKnows(t)'
  BY MineKept DEF ReadInv, Types, CallKnows, Working, Reading
<1>6. QED
  BY <1>1, <1>2, <1>3, <1>4, <1>5 DEF ReadInv

\* FastQAddSet sets the status.
LEMMA AddModifyStep ==
  ASSUME ReadInv, NEW t \in Thread, AddModify(t)
  PROVE  ReadInv'
<1> USE DEF AddModify, At, Doing, Done, Goto, Advance, Over, shared, locals, history
<1>1. Types'
  BY Slots DEF ReadInv, Types
<1>2. MadeByRegistered'
  BY DEF ReadInv, MadeByRegistered
<1>3. \A u \in Thread \ {t} : CallKnows(u)' /\ ReaderKnows(u)'
  BY OthersKept DEF ReadInv, Types
<1>4. CallKnows(t)'
  BY DEF ReadInv, Types, CallKnows, Working, Reading
<1>5. ReaderKnows(t)'
  BY MineKept DEF ReadInv, Types, CallKnows, Working, Reading
<1>6. QED
  BY <1>1, <1>2, <1>3, <1>4, <1>5 DEF ReadInv

\* FastQAddSet releases the module's own rx.rwlock.
LEMMA AddUnlockRxStep ==
  ASSUME ReadInv, NEW t \in Thread, AddUnlockRx(t)
  PROVE  ReadInv'
<1> USE DEF AddUnlockRx, At, Doing, Done, Goto, Advance, Over, shared, locals, history
<1>1. Types'
  BY Slots DEF ReadInv, Types
<1>2. MadeByRegistered'
  BY DEF ReadInv, MadeByRegistered
<1>3. \A u \in Thread \ {t} : CallKnows(u)' /\ ReaderKnows(u)'
  BY OthersKept DEF ReadInv, Types
<1>4. CallKnows(t)'
  BY DEF ReadInv, Types, CallKnows, Working, Reading
<1>5. ReaderKnows(t)'
  BY MineKept DEF ReadInv, Types, CallKnows, Working, Reading
<1>6. QED
  BY <1>1, <1>2, <1>3, <1>4, <1>5 DEF ReadInv

\* FastQAddSet takes the module's own tx.rwlock.
LEMMA AddOutwardStep ==
  ASSUME ReadInv, NEW t \in Thread, AddOutward(t)
  PROVE  ReadInv'
<1> USE DEF AddOutward, At, Doing, Done, Goto, Advance, Over, shared, locals, history
<1>1. Types'
  BY Slots DEF ReadInv, Types
<1>2. MadeByRegistered'
  BY DEF ReadInv, MadeByRegistered
<1>3. \A u \in Thread \ {t} : CallKnows(u)' /\ ReaderKnows(u)'
  BY OthersKept DEF ReadInv, Types
<1>4. CallKnows(t)'
  BY DEF ReadInv, Types, CallKnows, Working, Reading
<1>5. ReaderKnows(t)'
  BY MineKept DEF ReadInv, Types, CallKnows, Working, Reading
<1>6. QED
  BY <1>1, <1>2, <1>3, <1>4, <1>5 DEF ReadInv

\* FastQAddSet releases it and goes on to the next peer.
LEMMA AddUnlockTxStep ==
  ASSUME ReadInv, NEW t \in Thread, AddUnlockTx(t)
  PROVE  ReadInv'
<1> USE DEF AddUnlockTx, At, Doing, Done, Goto, Advance, Over, shared, locals, history
<1>1. Types'
  <2>1. p' \in [Thread -> Nat]
    BY AdvanceCounts DEF ReadInv, Types
  <2>2. pc' = [u \in Thread |-> pc'[u]] /\ todo' = [u \in Thread |-> todo'[u]]
    BY DEF ReadInv, Types
  <2>3. QED
    BY <2>1, <2>2 DEF ReadInv, Types
<1>2. MadeByRegistered'
  BY DEF ReadInv, MadeByRegistered
<1>3. \A u \in Thread \ {t} : CallKnows(u)' /\ ReaderKnows(u)'
  BY OthersKept DEF ReadInv, Types
<1>4. CallKnows(t)'
  BY DEF ReadInv, Types, CallKnows, Working, Reading
<1>5. ReaderKnows(t)'
  BY MineKept DEF ReadInv, Types, CallKnows, Working, Reading
<1>6. QED
  BY <1>1, <1>2, <1>3, <1>4, <1>5 DEF ReadInv

\* FastQAddSet turns to a peer.
LEMMA AddInwardStep ==
  ASSUME ReadInv, NEW t \in Thread, AddInward(t)
  PROVE  ReadInv'
<1> USE DEF AddInward, At, Doing, Done, Goto, Advance, Over, shared, locals, history, AddPeer
<1>1. Types'
  <2>1. p' \in [Thread -> Nat]
    BY AdvanceCounts DEF ReadInv, Types
  <2>2. pc' = [u \in Thread |-> pc'[u]] /\ todo' = [u \in Thread |-> todo'[u]]
    BY DEF ReadInv, Types
  <2>3. QED
    BY <2>1, <2>2 DEF ReadInv, Types
<1>2. MadeByRegistered'
  BY DEF ReadInv, MadeByRegistered
<1>3. \A u \in Thread \ {t} : CallKnows(u)' /\ ReaderKnows(u)'
  BY OthersKept DEF ReadInv, Types
<1>4. CallKnows(t)'
  BY DEF ReadInv, Types, CallKnows, Working, Reading
<1>5. ReaderKnows(t)'
  BY MineKept DEF ReadInv, Types, CallKnows, Working, Reading
<1>6. QED
  BY <1>1, <1>2, <1>3, <1>4, <1>5 DEF ReadInv

\* FastQAddSet returns.
LEMMA AddReturnStep ==
  ASSUME ReadInv, NEW t \in Thread, AddReturn(t)
  PROVE  ReadInv'
<1> USE DEF AddReturn, At, Doing, Done, Goto, Advance, Over, shared, locals, history, Idle
<1>1. Types'
  BY Slots DEF ReadInv, Types
<1>2. MadeByRegistered'
  BY DEF ReadInv, MadeByRegistered
<1>3. \A u \in Thread \ {t} : CallKnows(u)' /\ ReaderKnows(u)'
  BY OthersKept DEF ReadInv, Types
<1>4. CallKnows(t)'
  BY DEF ReadInv, Types, CallKnows, Working, Reading
<1>5. ReaderKnows(t)'
  BY MineKept DEF ReadInv, Types, CallKnows, Working, Reading
<1>6. QED
  BY <1>1, <1>2, <1>3, <1>4, <1>5 DEF ReadInv

\* A send is called.
LEMMA CallSendStep ==
  ASSUME ReadInv, NEW t \in Thread, NEW s \in Module, NEW d \in Module, CallSend(t, s, d)
  PROVE  ReadInv'
<1> USE DEF CallSend, At, Doing, Done, Goto, Advance, Over, shared, locals, history
<1>1. Types'
  BY Slots DEF ReadInv, Types
<1>2. MadeByRegistered'
  BY DEF ReadInv, MadeByRegistered
<1>3. \A u \in Thread \ {t} : CallKnows(u)' /\ ReaderKnows(u)'
  BY OthersKept DEF ReadInv, Types
<1>4. CallKnows(t)'
  BY DEF ReadInv, Types, CallKnows, Working, Reading
<1>5. ReaderKnows(t)'
  BY MineKept DEF ReadInv, Types, CallKnows, Working, Reading
<1>6. QED
  BY <1>1, <1>2, <1>3, <1>4, <1>5 DEF ReadInv

\* A send looks for the ring of its pair.
LEMMA FindRingStep ==
  ASSUME ReadInv, NEW t \in Thread, FindRing(t)
  PROVE  ReadInv'
<1> USE DEF FindRing, At, Doing, Done, Goto, Advance, Over, shared, locals, history
<1>1. Types'
  BY Slots DEF ReadInv, Types
<1>2. MadeByRegistered'
  BY DEF ReadInv, MadeByRegistered
<1>3. \A u \in Thread \ {t} : CallKnows(u)' /\ ReaderKnows(u)'
  BY OthersKept DEF ReadInv, Types
<1>4. CallKnows(t)'
  BY DEF ReadInv, Types, CallKnows, Working, Reading
<1>5. ReaderKnows(t)'
  BY MineKept DEF ReadInv, Types, CallKnows, Working, Reading
<1>6. QED
  BY <1>1, <1>2, <1>3, <1>4, <1>5 DEF ReadInv

\* A send returns.
LEMMA SendReturnStep ==
  ASSUME ReadInv, NEW t \in Thread, SendReturn(t)
  PROVE  ReadInv'
<1> USE DEF SendReturn, At, Doing, Done, Goto, Advance, Over, shared, locals, history, Idle
<1>1. Types'
  BY Slots DEF ReadInv, Types
<1>2. MadeByRegistered'
  BY DEF ReadInv, MadeByRegistered
<1>3. \A u \in Thread \ {t} : CallKnows(u)' /\ ReaderKnows(u)'
  BY OthersKept DEF ReadInv, Types
<1>4. CallKnows(t)'
  BY DEF ReadInv, Types, CallKnows, Working, Reading
<1>5. ReaderKnows(t)'
  BY MineKept DEF ReadInv, Types, CallKnows, Working, Reading
<1>6. QED
  BY <1>1, <1>2, <1>3, <1>4, <1>5 DEF ReadInv

\* FastQMsgStatInfo begins: nothing of what is there has been reported.
LEMMA CallStatStep ==
  ASSUME ReadInv, NEW t \in Thread, CallStat(t)
  PROVE  ReadInv'
<1> USE DEF CallStat, At, Doing, Done, Goto, Advance, Over, shared, locals, history
<1>1. Types'
  BY DEF ReadInv, Types, Pairs
<1>2. MadeByRegistered'
  BY DEF ReadInv, MadeByRegistered
<1>3. \A u \in Thread \ {t} : CallKnows(u)' /\ ReaderKnows(u)'
  BY OthersKept DEF ReadInv, Types
<1>4. CallKnows(t)'
  BY DEF ReadInv, Types, CallKnows, Working, Reading
<1>5. ReaderKnows(t)'
  <2>1. /\ unseen'[t] = Pairs
        /\ m'[t] = 1 /\ p'[t] = 0 /\ pc'[t] = "stat" /\ bufIdx'[t] = 0
    BY DEF ReadInv, Types, CallKnows, ReaderKnows, Reading
  <2>2. ASSUME NEW d \in Module, NEW s \in Source, <<d, s>> \in unseen'[t]
        PROVE  ring'[d][s] # "none" /\ (m'[t] < d \/ (m'[t] = d /\ p'[t] <= s))
    BY <2>1, <2>2, Slots DEF Pairs
  <2>3. QED
    BY <2>1, <2>2, Slots DEF ReaderKnows, Reading
<1>6. QED
  BY <1>1, <1>2, <1>3, <1>4, <1>5 DEF ReadInv

\* FastQDump begins, with all modules or with one.
LEMMA CallDumpStep ==
  ASSUME ReadInv, NEW t \in Thread, NEW i, CallDump(t, i)
  PROVE  ReadInv'
<1> USE DEF CallDump, At, Doing, Done, Goto, Advance, Over, shared, locals, history
<1>1. Types'
  BY Slots DEF ReadInv, Types, Pairs
<1>2. MadeByRegistered'
  BY DEF ReadInv, MadeByRegistered
<1>3. \A u \in Thread \ {t} : CallKnows(u)' /\ ReaderKnows(u)'
  BY OthersKept DEF ReadInv, Types
<1>4. CallKnows(t)'
  BY DEF ReadInv, Types, CallKnows, Working, Reading
<1>5. ReaderKnows(t)'
  <2>1. p'[t] = 0 /\ pc'[t] = "dump" /\ bufIdx'[t] = 0
    BY DEF ReadInv, Types, CallKnows, ReaderKnows, Reading
  <2>2. ASSUME NEW d \in Module, NEW s \in Source, <<d, s>> \in unseen'[t]
        PROVE  ring'[d][s] # "none" /\ m'[t] <= d
    <3>1. CASE i \in Module
      <4>1. m'[t] = i /\ unseen'[t] = {pair \in Pairs : pair[1] = i}
        BY <3>1 DEF ReadInv, Types
      <4>2. QED
        BY <2>2, <4>1, Slots DEF Pairs
    <3>2. CASE i \notin Module
      <4>1. m'[t] = 1 /\ unseen'[t] = Pairs
        BY <3>2 DEF ReadInv, Types
      <4>2. QED
        BY <2>2, <4>1, Slots DEF Pairs
    <3>3. QED
      BY <3>1, <3>2
  <2>3. m'[t] \in Nat
    BY Slots DEF ReadInv, Types
  <2>4. ASSUME NEW d \in Module, NEW s \in Source, <<d, s>> \in unseen'[t]
        PROVE  m'[t] < d \/ (m'[t] = d /\ p'[t] <= s)
    <3>1. m'[t] <= d
      BY <2>2, <2>4
    <3>2. d \in Nat /\ s \in Nat /\ p'[t] = 0
      BY <2>1, Slots
    <3>3. m'[t] < d \/ m'[t] = d
      BY <3>1, <3>2, <2>3
    <3>4. QED
      BY <3>2, <3>3
  <2>5. bufIdx'[t] < BufSize /\ p'[t] <= N
    BY <2>1, Slots
  <2>6. QED
    BY <2>1, <2>2, <2>4, <2>5 DEF ReaderKnows, Reading
<1>6. QED
  BY <1>1, <1>2, <1>3, <1>4, <1>5 DEF ReadInv

\* A reader passes a pair, or a module that is not registered and so has
\* no ring.
LEMMA ReadPairStep ==
  ASSUME ReadInv, NEW t \in Thread, ReadPair(t)
  PROVE  ReadInv'
<1> USE DEF ReadPair, At, Doing, Done, Goto, Advance, Over, shared, locals, history, Read
<1>1. Types'
  BY Slots DEF ReadInv, Types
<1>2. MadeByRegistered'
  BY DEF ReadInv, MadeByRegistered
<1>3. \A u \in Thread \ {t} : CallKnows(u)' /\ ReaderKnows(u)'
  BY OthersKept DEF ReadInv, Types
<1>4. CallKnows(t)'
  BY DEF ReadInv, Types, CallKnows, Working, Reading
<1>5. ReaderKnows(t)'
  <2> DEFINE skip == p[t] = 0 /\ m[t] \notin registered
             found == ~skip /\ ring[m[t]][p[t]] # "none"
             counts == found /\ pc[t] = "stat"
  <2>1. /\ pc[t] \in {"stat", "dump"} /\ p[t] <= N /\ bufIdx[t] < BufSize
        /\ m[t] \in Nat /\ p[t] \in Nat /\ bufIdx[t] \in Nat
    BY DEF ReadInv, Types, ReaderKnows
  <2>2. /\ unseen'[t] = IF found THEN unseen[t] \ {<<m[t], p[t]>>} ELSE unseen[t]
        /\ bufIdx'[t] = IF counts THEN bufIdx[t] + 1 ELSE bufIdx[t]
    BY DEF ReadInv, Types
  <2>3. pc'[t] = IF counts /\ bufIdx[t] + 1 = BufSize THEN "told" ELSE pc[t]
    BY DEF ReadInv, Types
  <2>4. IF skip \/ p[t] = N THEN m'[t] = m[t] + 1 /\ p'[t] = 0
                            ELSE m'[t] = m[t] /\ p'[t] = p[t] + 1
    BY DEF ReadInv, Types
  <2>5. p'[t] <= N
    BY <2>1, <2>4, Slots
  <2>6. pc'[t] # "told" => bufIdx'[t] < BufSize
    BY <2>1, <2>2, <2>3, Slots
  <2>7. ASSUME NEW d \in Module, NEW s \in Source, <<d, s>> \in unseen'[t]
        PROVE  ring'[d][s] # "none" /\ (m'[t] < d \/ (m'[t] = d /\ p'[t] <= s))
    <3>1. /\ <<d, s>> \in unseen[t] /\ ring[d][s] # "none" /\ d \in registered
          /\ m[t] < d \/ (m[t] = d /\ p[t] <= s)
      BY <2>2, <2>7 DEF ReadInv, ReaderKnows, MadeByRegistered
    <3>2. CASE m[t] < d
      BY <3>1, <3>2, <2>1, <2>4, Slots
    <3>3. CASE m[t] = d
      <4>1. ~skip /\ p[t] # s
        BY <3>1, <3>3, <2>2, <2>7
      <4>2. QED
        BY <3>1, <3>3, <4>1, <2>1, <2>4, Slots
    <3>4. QED
      BY <3>1, <3>2, <3>3
  <2>8. QED
    BY <2>1, <2>3, <2>5, <2>6, <2>7 DEF ReaderKnows, Reading
<1>6. QED
  BY <1>1, <1>2, <1>3, <1>4, <1>5 DEF ReadInv

\* A reader comes to the end of its loops.
LEMMA ReadEndStep ==
  ASSUME ReadInv, NEW t \in Thread, ReadEnd(t)
  PROVE  ReadInv'
<1> USE DEF ReadEnd, At, Doing, Done, Goto, Advance, Over, shared, locals, history
<1>1. Types'
  BY Slots DEF ReadInv, Types
<1>2. MadeByRegistered'
  BY DEF ReadInv, MadeByRegistered
<1>3. \A u \in Thread \ {t} : CallKnows(u)' /\ ReaderKnows(u)'
  BY OthersKept DEF ReadInv, Types
<1>4. CallKnows(t)'
  BY DEF ReadInv, Types, CallKnows, Working, Reading
<1>5. ReaderKnows(t)'
  BY Slots DEF ReadInv, Types, CallKnows, ReaderKnows, MadeByRegistered, Reading, Pairs
<1>6. QED
  BY <1>1, <1>2, <1>3, <1>4, <1>5 DEF ReadInv

\* A reader returns.
LEMMA ReadReturnStep ==
  ASSUME ReadInv, NEW t \in Thread, ReadReturn(t)
  PROVE  ReadInv'
<1> USE DEF ReadReturn, At, Doing, Done, Goto, Advance, Over, shared, locals, history, Idle
<1>1. Types'
  BY Slots DEF ReadInv, Types
<1>2. MadeByRegistered'
  BY DEF ReadInv, MadeByRegistered
<1>3. \A u \in Thread \ {t} : CallKnows(u)' /\ ReaderKnows(u)'
  BY OthersKept DEF ReadInv, Types
<1>4. CallKnows(t)'
  BY DEF ReadInv, Types, CallKnows, Working, Reading
<1>5. ReaderKnows(t)'
  <2>1. unseen'[t] = {} /\ bufIdx'[t] = 0 /\ pc'[t] = "idle"
    BY DEF ReadInv, Types
  <2>2. QED
    BY <2>1, Slots DEF ReaderKnows
<1>6. QED
  BY <1>1, <1>2, <1>3, <1>4, <1>5 DEF ReadInv

\* At the beginning nobody has been called.
LEMMA InitReadInv == Init => ReadInv
<1> SUFFICES ASSUME Init PROVE ReadInv
  OBVIOUS
<1>1. Types /\ MadeByRegistered
  BY DEF Init, Types, MadeByRegistered
<1>2. ASSUME NEW t \in Thread PROVE CallKnows(t) /\ ReaderKnows(t)
  <2>1. pc[t] = "idle" /\ p[t] = 0 /\ todo[t] = << >> /\ unseen[t] = {} /\ bufIdx[t] = 0
    BY DEF Init
  <2>2. CallKnows(t)
    BY <2>1 DEF CallKnows, Working, Reading
  <2>3. ReaderKnows(t)
    BY <2>1, Slots DEF ReaderKnows
  <2>4. QED
    BY <2>2, <2>3
<1>3. QED
  BY <1>1, <1>2 DEF ReadInv

\* A step in which nothing changes.
LEMMA ReadStutter ==
  ASSUME ReadInv, UNCHANGED vars
  PROVE  ReadInv'
<1>1. /\ UNCHANGED <<registered, created, ring, pc, todo, m, p, bufIdx, unseen>>
      /\ Types /\ MadeByRegistered /\ \A t \in Thread : CallKnows(t) /\ ReaderKnows(t)
  BY DEF vars, shared, locals, history, ReadInv
<1>2. Types' /\ MadeByRegistered'
  BY ONLY <1>1 DEF Types, MadeByRegistered
<1>3. \A t \in Thread : CallKnows(t)'
  BY ONLY <1>1 DEF CallKnows
<1>4. \A t \in Thread : ReaderKnows(t)'
  BY ONLY <1>1 DEF ReaderKnows
<1>5. QED
  BY <1>2, <1>3, <1>4 DEF ReadInv

\* Every step keeps the invariant.
LEMMA ReadInvStep == ReadInv /\ [Next]_vars => ReadInv'
<1> SUFFICES ASSUME ReadInv, [Next]_vars PROVE ReadInv'
  OBVIOUS
<1>1. ASSUME NEW t \in Thread, OnPair(t) PROVE ReadInv'
  BY <1>1, LoadSetStep, StoreSetStep, StoreRingStep, LockPeerStep, UnlockPeerStep DEF OnPair
<1>2. ASSUME NEW t \in Thread, Create(t) PROVE ReadInv'
  BY <1>2, CallCreateStep, CopyRxStep, CopyTxStep, StoreSizeStep, CreatePeerStep,
     CreateOutwardStep, CreateNextStep, CreateReturnStep DEF Create
<1>3. ASSUME NEW t \in Thread, Add(t) PROVE ReadInv'
  BY <1>3, CallAddSetStep, AddModifyStep, AddInwardStep, AddUnlockRxStep,
     AddOutwardStep, AddUnlockTxStep, AddReturnStep DEF Add
<1>4. ASSUME NEW t \in Thread, Send(t) PROVE ReadInv'
  BY <1>4, CallSendStep, FindRingStep, SendReturnStep DEF Send
<1>5. ASSUME NEW t \in Thread, Reader(t) PROVE ReadInv'
  BY <1>5, CallStatStep, CallDumpStep, ReadPairStep, ReadEndStep, ReadReturnStep DEF Reader
<1>6. CASE UNCHANGED vars
  BY <1>6, ReadStutter
<1>7. QED
  BY <1>1, <1>2, <1>3, <1>4, <1>5, <1>6 DEF Next

-----------------------------------------------------------------------------
\* FastQMsgStatInfo and FastQDump look at the rings one by one while others
\* make more: a ring that was there when they were called is not missed.
THEOREM StatIsComplete == Spec => []StatComplete
<1>1. ReadInv => StatComplete
  <2> SUFFICES ASSUME ReadInv, NEW t \in Thread
               PROVE  /\ \A pair \in unseen[t] :
                           m[t] < pair[1] \/ (m[t] = pair[1] /\ p[t] <= pair[2])
                      /\ bufIdx[t] < BufSize \/ pc[t] = "told"
    BY DEF StatComplete
  <2>1. ASSUME NEW pair \in unseen[t]
        PROVE  m[t] < pair[1] \/ (m[t] = pair[1] /\ p[t] <= pair[2])
    <3>1. PICK d \in Module, s \in Source : pair = <<d, s>>
      BY DEF ReadInv, Types
    <3>2. QED
      BY <3>1 DEF ReadInv, ReaderKnows
  <2>2. QED
    BY <2>1 DEF ReadInv, ReaderKnows
<1>2. QED
  BY InitReadInv, ReadInvStep, <1>1, PTL DEF Spec

-----------------------------------------------------------------------------
(* What the calls know of their arguments and of each other.               *)

\* Where a thread is in FastQCreateModule, in FastQAddSet and in a send.
CreatePC == {"create sets", "create tx set", "create size", "create peer",
             "create rx", "create tx"}
AddPC == {"add spin", "add peer", "add rx", "add between", "add tx"}

SendPC == {"send", "enqueue"}

\* The operations on a pair that take no lock.
Plain == {"load rx", "store rx", "load tx", "store tx", "ring"}

\* Only a creation and FastQAddSet have sets as arguments; the module of a
\* creation is not created yet, and FastQAddSet is at work on peers it was given.
CallerKnows(t) ==
  /\ pc[t] \notin CreatePC \cup AddPC => rxarg[t] = {} /\ txarg[t] = {}
  /\ pc[t] \in CreatePC => m[t] \in registered \ created
  /\ pc[t] = "add rx" /\ todo[t] # << >> => p[t] \in rxarg[t]
  /\ pc[t] = "add tx" /\ todo[t] # << >> => p[t] \in txarg[t]

\* One creation at a time.
OneCreator == \A t, u \in Thread : pc[t] \in CreatePC /\ pc[u] \in CreatePC => t = u

\* The second inductive invariant.
CallerInv ==
  /\ rxarg = [t \in Thread |-> rxarg[t]] /\ txarg = [t \in Thread |-> txarg[t]]
  /\ OneCreator
  /\ \A t \in Thread : CallerKnows(t)

-----------------------------------------------------------------------------
(* What a step does not disturb.                                           *)

\* A step that is not the call of a creation leaves one creator at most.
LEMMA CreatorKept ==
  ASSUME OneCreator, NEW t \in Thread, \A u \in Thread \ {t} : pc'[u] = pc[u],
         pc'[t] \in CreatePC => pc[t] \in CreatePC
  PROVE  OneCreator'
BY DEF OneCreator

\* A step of a thread leaves what the others know as it was, if it takes no
\* registration away and ends no creation.
LEMMA OthersCall ==
  ASSUME CallerInv, NEW t \in Thread,
         \A u \in Thread \ {t} : /\ pc'[u] = pc[u] /\ todo'[u] = todo[u]
                                 /\ m'[u] = m[u] /\ p'[u] = p[u]
                                 /\ rxarg'[u] = rxarg[u] /\ txarg'[u] = txarg[u],
         registered \subseteq registered', created' = created
  PROVE  \A u \in Thread \ {t} : CallerKnows(u)'
<1> SUFFICES ASSUME NEW u \in Thread \ {t} PROVE CallerKnows(u)'
  OBVIOUS
<1>1. CallerKnows(u)
  BY DEF CallerInv
<1>2. QED
  BY <1>1 DEF CallerKnows

-----------------------------------------------------------------------------
(* The steps.                                                              *)

\* MOD_SET loads the word.
LEMMA LoadSetCaller ==
  ASSUME ReadInv, ReadInv', CallerInv, NEW t \in Thread, LoadSet(t)
  PROVE  CallerInv'
<1> USE DEF LoadSet, At, Done, Goto, Advance, Over, shared, locals, history
<1>1. rxarg' = [u \in Thread |-> rxarg'[u]] /\ txarg' = [u \in Thread |-> txarg'[u]]
  BY DEF CallerInv
<1>2. OneCreator'
  <2>1. \A u \in Thread \ {t} : pc'[u] = pc[u]
    BY DEF ReadInv, Types
  <2>2. pc'[t] \in CreatePC => pc[t] \in CreatePC
    BY DEF ReadInv, Types, CreatePC
  <2>3. QED
    BY <2>1, <2>2, CreatorKept DEF CallerInv
<1>3. \A u \in Thread \ {t} : CallerKnows(u)'
  BY OthersCall DEF ReadInv, Types, CallerInv
<1>4. CallerKnows(t)'
  <2>1. /\ pc'[t] = pc[t] /\ m'[t] = m[t] /\ p'[t] = p[t]
        /\ rxarg'[t] = rxarg[t] /\ txarg'[t] = txarg[t] /\ todo[t] # << >>
    BY DEF ReadInv, Types, Doing
  <2>2. CallerKnows(t)
    BY DEF CallerInv
  <2>3. QED
    BY <2>1, <2>2 DEF CallerKnows
<1>5. QED
  BY <1>1, <1>2, <1>3, <1>4 DEF CallerInv

\* MOD_SET stores it.
LEMMA StoreSetCaller ==
  ASSUME ReadInv, ReadInv', CallerInv, NEW t \in Thread, StoreSet(t)
  PROVE  CallerInv'
<1> USE DEF StoreSet, At, Done, Goto, Advance, Over, shared, locals, history
<1>1. rxarg' = [u \in Thread |-> rxarg'[u]] /\ txarg' = [u \in Thread |-> txarg'[u]]
  BY DEF CallerInv
<1>2. OneCreator'
  <2>1. \A u \in Thread \ {t} : pc'[u] = pc[u]
    BY DEF ReadInv, Types
  <2>2. pc'[t] \in CreatePC => pc[t] \in CreatePC
    BY DEF ReadInv, Types, CreatePC
  <2>3. QED
    BY <2>1, <2>2, CreatorKept DEF CallerInv
<1>3. \A u \in Thread \ {t} : CallerKnows(u)'
  BY OthersCall DEF ReadInv, Types, CallerInv
<1>4. CallerKnows(t)'
  <2>1. /\ pc'[t] = pc[t] /\ m'[t] = m[t] /\ p'[t] = p[t]
        /\ rxarg'[t] = rxarg[t] /\ txarg'[t] = txarg[t] /\ todo[t] # << >>
    BY DEF ReadInv, Types, Doing
  <2>2. CallerKnows(t)
    BY DEF CallerInv
  <2>3. QED
    BY <2>1, <2>2 DEF CallerKnows
<1>5. QED
  BY <1>1, <1>2, <1>3, <1>4 DEF CallerInv

\* FastQAddSet takes a lock of the peer.
LEMMA LockPeerCaller ==
  ASSUME ReadInv, ReadInv', CallerInv, NEW t \in Thread, LockPeer(t)
  PROVE  CallerInv'
<1> USE DEF LockPeer, At, Done, Goto, Advance, Over, shared, locals, history
<1>1. rxarg' = [u \in Thread |-> rxarg'[u]] /\ txarg' = [u \in Thread |-> txarg'[u]]
  BY DEF CallerInv
<1>2. OneCreator'
  <2>1. \A u \in Thread \ {t} : pc'[u] = pc[u]
    BY DEF ReadInv, Types
  <2>2. pc'[t] \in CreatePC => pc[t] \in CreatePC
    BY DEF ReadInv, Types, CreatePC
  <2>3. QED
    BY <2>1, <2>2, CreatorKept DEF CallerInv
<1>3. \A u \in Thread \ {t} : CallerKnows(u)'
  BY OthersCall DEF ReadInv, Types, CallerInv
<1>4. CallerKnows(t)'
  <2>1. /\ pc'[t] = pc[t] /\ m'[t] = m[t] /\ p'[t] = p[t]
        /\ rxarg'[t] = rxarg[t] /\ txarg'[t] = txarg[t] /\ todo[t] # << >>
    BY DEF ReadInv, Types, Doing
  <2>2. CallerKnows(t)
    BY DEF CallerInv
  <2>3. QED
    BY <2>1, <2>2 DEF CallerKnows
<1>5. QED
  BY <1>1, <1>2, <1>3, <1>4 DEF CallerInv

\* FastQAddSet releases it.
LEMMA UnlockPeerCaller ==
  ASSUME ReadInv, ReadInv', CallerInv, NEW t \in Thread, UnlockPeer(t)
  PROVE  CallerInv'
<1> USE DEF UnlockPeer, At, Done, Goto, Advance, Over, shared, locals, history
<1>1. rxarg' = [u \in Thread |-> rxarg'[u]] /\ txarg' = [u \in Thread |-> txarg'[u]]
  BY DEF CallerInv
<1>2. OneCreator'
  <2>1. \A u \in Thread \ {t} : pc'[u] = pc[u]
    BY DEF ReadInv, Types
  <2>2. pc'[t] \in CreatePC => pc[t] \in CreatePC
    BY DEF ReadInv, Types, CreatePC
  <2>3. QED
    BY <2>1, <2>2, CreatorKept DEF CallerInv
<1>3. \A u \in Thread \ {t} : CallerKnows(u)'
  BY OthersCall DEF ReadInv, Types, CallerInv
<1>4. CallerKnows(t)'
  <2>1. /\ pc'[t] = pc[t] /\ m'[t] = m[t] /\ p'[t] = p[t]
        /\ rxarg'[t] = rxarg[t] /\ txarg'[t] = txarg[t] /\ todo[t] # << >>
    BY DEF ReadInv, Types, Doing
  <2>2. CallerKnows(t)
    BY DEF CallerInv
  <2>3. QED
    BY <2>1, <2>2 DEF CallerKnows
<1>5. QED
  BY <1>1, <1>2, <1>3, <1>4 DEF CallerInv

\* The ring of a pair is stored.
LEMMA StoreRingCaller ==
  ASSUME ReadInv, ReadInv', CallerInv, NEW t \in Thread, StoreRing(t)
  PROVE  CallerInv'
<1> USE DEF StoreRing, At, Done, Goto, Advance, Over, shared, locals, history
<1>1. rxarg' = [u \in Thread |-> rxarg'[u]] /\ txarg' = [u \in Thread |-> txarg'[u]]
  BY DEF CallerInv
<1>2. OneCreator'
  <2>1. \A u \in Thread \ {t} : pc'[u] = pc[u]
    BY DEF ReadInv, Types
  <2>2. pc'[t] \in CreatePC => pc[t] \in CreatePC
    BY DEF ReadInv, Types, CreatePC
  <2>3. QED
    BY <2>1, <2>2, CreatorKept DEF CallerInv
<1>3. \A u \in Thread \ {t} : CallerKnows(u)'
  BY OthersCall DEF ReadInv, Types, CallerInv
<1>4. CallerKnows(t)'
  <2>1. /\ pc'[t] = pc[t] /\ m'[t] = m[t] /\ p'[t] = p[t]
        /\ rxarg'[t] = rxarg[t] /\ txarg'[t] = txarg[t] /\ todo[t] # << >>
    BY DEF ReadInv, Types, Doing
  <2>2. CallerKnows(t)
    BY DEF CallerInv
  <2>3. QED
    BY <2>1, <2>2 DEF CallerKnows
<1>5. QED
  BY <1>1, <1>2, <1>3, <1>4 DEF CallerInv

\* FastQCreateModule turns to a peer.
LEMMA CreatePeerCaller ==
  ASSUME ReadInv, ReadInv', CallerInv, NEW t \in Thread, CreatePeer(t)
  PROVE  CallerInv'
<1> USE DEF CreatePeer, At, Done, Goto, Advance, Over, shared, locals, history
<1>1. rxarg' = [u \in Thread |-> rxarg'[u]] /\ txarg' = [u \in Thread |-> txarg'[u]]
  BY DEF CallerInv
<1>2. OneCreator'
  <2>1. \A u \in Thread \ {t} : pc'[u] = pc[u]
    BY DEF ReadInv, Types
  <2>2. pc'[t] \in CreatePC => pc[t] \in CreatePC
    BY DEF ReadInv, Types, CreatePC
  <2>3. QED
    BY <2>1, <2>2, CreatorKept DEF CallerInv
<1>3. \A u \in Thread \ {t} : CallerKnows(u)'
  BY OthersCall DEF ReadInv, Types, CallerInv
<1>4. CallerKnows(t)'
  <2>1. CallerKnows(t) /\ pc[t] = "create peer"
    BY DEF CallerInv
  <2>2. pc'[t] \in {"create peer", "create rx"} /\ m'[t] = m[t]
    BY <2>1 DEF ReadInv, Types
  <2>3. QED
    BY <2>1, <2>2 DEF CallerKnows, CreatePC
<1>5. QED
  BY <1>1, <1>2, <1>3, <1>4 DEF CallerInv

\* FastQCreateModule copies the rxset.
LEMMA CopyRxCaller ==
  ASSUME ReadInv, ReadInv', CallerInv, NEW t \in Thread, CopyRx(t)
  PROVE  CallerInv'
<1> USE DEF CopyRx, At, Done, Goto, Advance, Over, shared, locals, history
<1>1. rxarg' = [u \in Thread |-> rxarg'[u]] /\ txarg' = [u \in Thread |-> txarg'[u]]
  BY DEF CallerInv
<1>2. OneCreator'
  <2>1. \A u \in Thread \ {t} : pc'[u] = pc[u]
    BY DEF ReadInv, Types
  <2>2. pc'[t] \in CreatePC => pc[t] \in CreatePC
    BY DEF ReadInv, Types, CreatePC
  <2>3. QED
    BY <2>1, <2>2, CreatorKept DEF CallerInv
<1>3. \A u \in Thread \ {t} : CallerKnows(u)'
  BY OthersCall DEF ReadInv, Types, CallerInv
<1>4. CallerKnows(t)'
  BY DEF ReadInv, Types, CallKnows, Working, Reading, CallerInv, CallerKnows, Doing,
     CreatePC, AddPC
<1>5. QED
  BY <1>1, <1>2, <1>3, <1>4 DEF CallerInv

\* FastQCreateModule copies the txset.
LEMMA CopyTxCaller ==
  ASSUME ReadInv, ReadInv', CallerInv, NEW t \in Thread, CopyTx(t)
  PROVE  CallerInv'
<1> USE DEF CopyTx, At, Done, Goto, Advance, Over, shared, locals, history
<1>1. rxarg' = [u \in Thread |-> rxarg'[u]] /\ txarg' = [u \in Thread |-> txarg'[u]]
  BY DEF CallerInv
<1>2. OneCreator'
  <2>1. \A u \in Thread \ {t} : pc'[u] = pc[u]
    BY DEF ReadInv, Types
  <2>2. pc'[t] \in CreatePC => pc[t] \in CreatePC
    BY DEF ReadInv, Types, CreatePC
  <2>3. QED
    BY <2>1, <2>2, CreatorKept DEF CallerInv
<1>3. \A u \in Thread \ {t} : CallerKnows(u)'
  BY OthersCall DEF ReadInv, Types, CallerInv
<1>4. CallerKnows(t)'
  BY DEF ReadInv, Types, CallKnows, Working, Reading, CallerInv, CallerKnows, Doing,
     CreatePC, AddPC
<1>5. QED
  BY <1>1, <1>2, <1>3, <1>4 DEF CallerInv

\* FastQCreateModule turns to the ring to the peer.
LEMMA CreateOutwardCaller ==
  ASSUME ReadInv, ReadInv', CallerInv, NEW t \in Thread, CreateOutward(t)
  PROVE  CallerInv'
<1> USE DEF CreateOutward, At, Done, Goto, Advance, Over, shared, locals, history
<1>1. rxarg' = [u \in Thread |-> rxarg'[u]] /\ txarg' = [u \in Thread |-> txarg'[u]]
  BY DEF CallerInv
<1>2. OneCreator'
  <2>1. \A u \in Thread \ {t} : pc'[u] = pc[u]
    BY DEF ReadInv, Types
  <2>2. pc'[t] \in CreatePC => pc[t] \in CreatePC
    BY DEF ReadInv, Types, CreatePC
  <2>3. QED
    BY <2>1, <2>2, CreatorKept DEF CallerInv
<1>3. \A u \in Thread \ {t} : CallerKnows(u)'
  BY OthersCall DEF ReadInv, Types, CallerInv
<1>4. CallerKnows(t)'
  BY DEF ReadInv, Types, CallKnows, Working, Reading, CallerInv, CallerKnows, Doing,
     CreatePC, AddPC
<1>5. QED
  BY <1>1, <1>2, <1>3, <1>4 DEF CallerInv

\* FastQCreateModule goes on to the next peer.
LEMMA CreateNextCaller ==
  ASSUME ReadInv, ReadInv', CallerInv, NEW t \in Thread, CreateNext(t)
  PROVE  CallerInv'
<1> USE DEF CreateNext, At, Done, Goto, Advance, Over, shared, locals, history
<1>1. rxarg' = [u \in Thread |-> rxarg'[u]] /\ txarg' = [u \in Thread |-> txarg'[u]]
  BY DEF CallerInv
<1>2. OneCreator'
  <2>1. \A u \in Thread \ {t} : pc'[u] = pc[u]
    BY DEF ReadInv, Types
  <2>2. pc'[t] \in CreatePC => pc[t] \in CreatePC
    BY DEF ReadInv, Types, CreatePC
  <2>3. QED
    BY <2>1, <2>2, CreatorKept DEF CallerInv
<1>3. \A u \in Thread \ {t} : CallerKnows(u)'
  BY OthersCall DEF ReadInv, Types, CallerInv
<1>4. CallerKnows(t)'
  BY DEF ReadInv, Types, CallKnows, Working, Reading, CallerInv, CallerKnows, Doing,
     CreatePC, AddPC
<1>5. QED
  BY <1>1, <1>2, <1>3, <1>4 DEF CallerInv

\* FastQCreateModule stores the size, and the ring from anyone.
LEMMA StoreSizeCaller ==
  ASSUME ReadInv, ReadInv', CallerInv, NEW t \in Thread, StoreSize(t)
  PROVE  CallerInv'
<1> USE DEF StoreSize, At, Done, Goto, Advance, Over, shared, locals, history
<1>1. rxarg' = [u \in Thread |-> rxarg'[u]] /\ txarg' = [u \in Thread |-> txarg'[u]]
  BY DEF CallerInv
<1>2. OneCreator'
  <2>1. \A u \in Thread \ {t} : pc'[u] = pc[u]
    BY DEF ReadInv, Types
  <2>2. pc'[t] \in CreatePC => pc[t] \in CreatePC
    BY DEF ReadInv, Types, CreatePC
  <2>3. QED
    BY <2>1, <2>2, CreatorKept DEF CallerInv
<1>3. \A u \in Thread \ {t} : CallerKnows(u)'
  BY OthersCall DEF ReadInv, Types, CallerInv
<1>4. CallerKnows(t)'
  BY DEF ReadInv, Types, CallKnows, Working, Reading, CallerInv, CallerKnows, Doing,
     CreatePC, AddPC
<1>5. QED
  BY <1>1, <1>2, <1>3, <1>4 DEF CallerInv

\* FastQCreateModule is called, when no other creation is under way.
LEMMA CallCreateCaller ==
  ASSUME ReadInv, ReadInv', CallerInv, NEW t \in Thread, NEW i \in Module, NEW rxset,
     NEW txset, CallCreate(t, i, rxset, txset)
  PROVE  CallerInv'
<1> USE DEF CallCreate, At, Done, Goto, Advance, Over, shared, locals, history
<1>1. rxarg' = [u \in Thread |-> rxarg'[u]] /\ txarg' = [u \in Thread |-> txarg'[u]]
  BY DEF CallerInv
<1>2. OneCreator'
  <2>1. \A u \in Thread : pc[u] \notin CreatePC
    BY DEF CallerInv, CallerKnows
  <2>2. QED
    BY <2>1 DEF ReadInv, Types, OneCreator
<1>3. \A u \in Thread \ {t} : CallerKnows(u)'
  BY OthersCall DEF ReadInv, Types, CallerInv
<1>4. CallerKnows(t)'
  <2>1. /\ pc'[t] = "create sets" /\ m'[t] = i /\ i \notin created /\ i \in registered'
        /\ created' = created
    BY DEF ReadInv, Types
  <2>2. QED
    BY <2>1 DEF CallerKnows, CreatePC, AddPC
<1>5. QED
  BY <1>1, <1>2, <1>3, <1>4 DEF CallerInv

\* FastQCreateModule returns.
LEMMA CreateReturnCaller ==
  ASSUME ReadInv, ReadInv', CallerInv, NEW t \in Thread, CreateReturn(t)
  PROVE  CallerInv'
<1> USE DEF CreateReturn, At, Done, Goto, Advance, Over, shared, locals, history, Idle
<1>1. rxarg' = [u \in Thread |-> rxarg'[u]] /\ txarg' = [u \in Thread |-> txarg'[u]]
  BY DEF CallerInv
<1>2. OneCreator'
  <2>1. \A u \in Thread \ {t} : pc'[u] = pc[u]
    BY DEF ReadInv, Types
  <2>2. pc'[t] \in CreatePC => pc[t] \in CreatePC
    BY DEF ReadInv, Types, CreatePC
  <2>3. QED
    BY <2>1, <2>2, CreatorKept DEF CallerInv
<1>3. \A u \in Thread \ {t} : CallerKnows(u)'
  <2> SUFFICES ASSUME NEW u \in Thread \ {t} PROVE CallerKnows(u)'
    OBVIOUS
  <2>1. CallerKnows(u) /\ pc[u] \notin CreatePC
    BY DEF CallerInv, OneCreator, CreatePC
  <2>2. QED
    BY <2>1 DEF ReadInv, Types, CallerInv, CallerKnows, Doing
<1>4. CallerKnows(t)'
  BY DEF ReadInv, Types, CallKnows, Working, Reading, CallerInv, CallerKnows, Doing,
     CreatePC, AddPC
<1>5. QED
  BY <1>1, <1>2, <1>3, <1>4 DEF CallerInv

\* FastQAddSet is called.
LEMMA CallAddSetCaller ==
  ASSUME ReadInv, ReadInv', CallerInv, NEW t \in Thread, NEW i \in Module, NEW rxset,
     NEW txset, CallAddSet(t, i, rxset, txset)
  PROVE  CallerInv'
<1> USE DEF CallAddSet, At, Done, Goto, Advance, Over, shared, locals, history
<1>1. rxarg' = [u \in Thread |-> rxarg'[u]] /\ txarg' = [u \in Thread |-> txarg'[u]]
  BY DEF CallerInv
<1>2. OneCreator'
  <2>1. \A u \in Thread \ {t} : pc'[u] = pc[u]
    BY DEF ReadInv, Types
  <2>2. pc'[t] \in CreatePC => pc[t] \in CreatePC
    BY DEF ReadInv, Types, CreatePC
  <2>3. QED
    BY <2>1, <2>2, CreatorKept DEF CallerInv
<1>3. \A u \in Thread \ {t} : CallerKnows(u)'
  BY OthersCall DEF ReadInv, Types, CallerInv
<1>4. CallerKnows(t)'
  <2>1. pc'[t] = "add spin"
    BY DEF ReadInv, Types, CallerInv
  <2>2. QED
    BY <2>1 DEF CallerKnows, CreatePC, AddPC
<1>5. QED
  BY <1>1, <1>2, <1>3, <1>4 DEF CallerInv

\* FastQAddSet sets the status.
LEMMA AddModifyCaller ==
  ASSUME ReadInv, ReadInv', CallerInv, NEW t \in Thread, AddModify(t)
  PROVE  CallerInv'
<1> USE DEF AddModify, At, Done, Goto, Advance, Over, shared, locals, history
<1>1. rxarg' = [u \in Thread |-> rxarg'[u]] /\ txarg' = [u \in Thread |-> txarg'[u]]
  BY DEF CallerInv
<1>2. OneCreator'
  <2>1. \A u \in Thread \ {t} : pc'[u] = pc[u]
    BY DEF ReadInv, Types
  <2>2. pc'[t] \in CreatePC => pc[t] \in CreatePC
    BY DEF ReadInv, Types, CreatePC
  <2>3. QED
    BY <2>1, <2>2, CreatorKept DEF CallerInv
<1>3. \A u \in Thread \ {t} : CallerKnows(u)'
  BY OthersCall DEF ReadInv, Types, CallerInv
<1>4. CallerKnows(t)'
  BY DEF ReadInv, Types, CallKnows, Working, Reading, CallerInv, CallerKnows, Doing,
     CreatePC, AddPC
<1>5. QED
  BY <1>1, <1>2, <1>3, <1>4 DEF CallerInv

\* FastQAddSet releases the module's own rx.rwlock.
LEMMA AddUnlockRxCaller ==
  ASSUME ReadInv, ReadInv', CallerInv, NEW t \in Thread, AddUnlockRx(t)
  PROVE  CallerInv'
<1> USE DEF AddUnlockRx, At, Done, Goto, Advance, Over, shared, locals, history
<1>1. rxarg' = [u \in Thread |-> rxarg'[u]] /\ txarg' = [u \in Thread |-> txarg'[u]]
  BY DEF CallerInv
<1>2. OneCreator'
  <2>1. \A u \in Thread \ {t} : pc'[u] = pc[u]
    BY DEF ReadInv, Types
  <2>2. pc'[t] \in CreatePC => pc[t] \in CreatePC
    BY DEF ReadInv, Types, CreatePC
  <2>3. QED
    BY <2>1, <2>2, CreatorKept DEF CallerInv
<1>3. \A u \in Thread \ {t} : CallerKnows(u)'
  BY OthersCall DEF ReadInv, Types, CallerInv
<1>4. CallerKnows(t)'
  BY DEF ReadInv, Types, CallKnows, Working, Reading, CallerInv, CallerKnows, Doing,
     CreatePC, AddPC
<1>5. QED
  BY <1>1, <1>2, <1>3, <1>4 DEF CallerInv

\* FastQAddSet takes the module's own tx.rwlock.
LEMMA AddOutwardCaller ==
  ASSUME ReadInv, ReadInv', CallerInv, NEW t \in Thread, AddOutward(t)
  PROVE  CallerInv'
<1> USE DEF AddOutward, At, Done, Goto, Advance, Over, shared, locals, history
<1>1. rxarg' = [u \in Thread |-> rxarg'[u]] /\ txarg' = [u \in Thread |-> txarg'[u]]
  BY DEF CallerInv
<1>2. OneCreator'
  <2>1. \A u \in Thread \ {t} : pc'[u] = pc[u]
    BY DEF ReadInv, Types
  <2>2. pc'[t] \in CreatePC => pc[t] \in CreatePC
    BY DEF ReadInv, Types, CreatePC
  <2>3. QED
    BY <2>1, <2>2, CreatorKept DEF CallerInv
<1>3. \A u \in Thread \ {t} : CallerKnows(u)'
  BY OthersCall DEF ReadInv, Types, CallerInv
<1>4. CallerKnows(t)'
  BY DEF ReadInv, Types, CallKnows, Working, Reading, CallerInv, CallerKnows, Doing,
     CreatePC, AddPC
<1>5. QED
  BY <1>1, <1>2, <1>3, <1>4 DEF CallerInv

\* FastQAddSet releases it and goes on to the next peer.
LEMMA AddUnlockTxCaller ==
  ASSUME ReadInv, ReadInv', CallerInv, NEW t \in Thread, AddUnlockTx(t)
  PROVE  CallerInv'
<1> USE DEF AddUnlockTx, At, Done, Goto, Advance, Over, shared, locals, history
<1>1. rxarg' = [u \in Thread |-> rxarg'[u]] /\ txarg' = [u \in Thread |-> txarg'[u]]
  BY DEF CallerInv
<1>2. OneCreator'
  <2>1. \A u \in Thread \ {t} : pc'[u] = pc[u]
    BY DEF ReadInv, Types
  <2>2. pc'[t] \in CreatePC => pc[t] \in CreatePC
    BY DEF ReadInv, Types, CreatePC
  <2>3. QED
    BY <2>1, <2>2, CreatorKept DEF CallerInv
<1>3. \A u \in Thread \ {t} : CallerKnows(u)'
  BY OthersCall DEF ReadInv, Types, CallerInv
<1>4. CallerKnows(t)'
  BY DEF ReadInv, Types, CallKnows, Working, Reading, CallerInv, CallerKnows, Doing,
     CreatePC, AddPC
<1>5. QED
  BY <1>1, <1>2, <1>3, <1>4 DEF CallerInv

\* FastQAddSet turns to a peer.
LEMMA AddInwardCaller ==
  ASSUME ReadInv, ReadInv', CallerInv, NEW t \in Thread, AddInward(t)
  PROVE  CallerInv'
<1> USE DEF AddInward, At, Done, Goto, Advance, Over, shared, locals, history, AddPeer
<1>1. rxarg' = [u \in Thread |-> rxarg'[u]] /\ txarg' = [u \in Thread |-> txarg'[u]]
  BY DEF CallerInv
<1>2. OneCreator'
  <2>1. pc'[t] \notin CreatePC
    BY DEF ReadInv, Types, CreatePC
  <2>2. QED
    BY <2>1 DEF ReadInv, Types, CallerInv, OneCreator
<1>3. \A u \in Thread \ {t} : CallerKnows(u)'
  BY OthersCall DEF ReadInv, Types, CallerInv
<1>4. CallerKnows(t)'
  <2>1. CallerKnows(t) /\ pc[t] = "add peer" /\ m'[t] = m[t] /\ todo[t] = << >>
    BY DEF CallerInv
  <2>2. CASE pc'[t] = "add peer"
    BY <2>1, <2>2 DEF CallerKnows, CreatePC, AddPC
  <2>3. CASE pc'[t] = "add rx"
    <3>1. p'[t] = p[t] /\ (todo'[t] # << >> => p[t] \in rxarg[t])
      BY <2>1, <2>3 DEF ReadInv, Types
    <3>2. QED
      BY <2>1, <2>3, <3>1 DEF CallerKnows, CreatePC, AddPC
  <2>4. QED
    BY <2>2, <2>3, <2>1 DEF ReadInv, Types
<1>5. QED
  BY <1>1, <1>2, <1>3, <1>4 DEF CallerInv

\* FastQAddSet returns.
LEMMA AddReturnCaller ==
  ASSUME ReadInv, ReadInv', CallerInv, NEW t \in Thread, AddReturn(t)
  PROVE  CallerInv'
<1> USE DEF AddReturn, At, Done, Goto, Advance, Over, shared, locals, history, Idle
<1>1. rxarg' = [u \in Thread |-> rxarg'[u]] /\ txarg' = [u \in Thread |-> txarg'[u]]
  BY DEF CallerInv
<1>2. OneCreator'
  <2>1. \A u \in Thread \ {t} : pc'[u] = pc[u]
    BY DEF ReadInv, Types
  <2>2. pc'[t] \in CreatePC => pc[t] \in CreatePC
    BY DEF ReadInv, Types, CreatePC
  <2>3. QED
    BY <2>1, <2>2, CreatorKept DEF CallerInv
<1>3. \A u \in Thread \ {t} : CallerKnows(u)'
  BY OthersCall DEF ReadInv, Types, CallerInv
<1>4. CallerKnows(t)'
  BY DEF ReadInv, Types, CallKnows, Working, Reading, CallerInv, CallerKnows, Doing,
     CreatePC, AddPC
<1>5. QED
  BY <1>1, <1>2, <1>3, <1>4 DEF CallerInv

\* A send is called.
LEMMA CallSendCaller ==
  ASSUME ReadInv, ReadInv', CallerInv, NEW t \in Thread, NEW s \in Module,
     NEW d \in Module, CallSend(t, s, d)
  PROVE  CallerInv'
<1> USE DEF CallSend, At, Done, Goto, Advance, Over, shared, locals, history
<1>1. rxarg' = [u \in Thread |-> rxarg'[u]] /\ txarg' = [u \in Thread |-> txarg'[u]]
  BY DEF CallerInv
<1>2. OneCreator'
  <2>1. \A u \in Thread \ {t} : pc'[u] = pc[u]
    BY DEF ReadInv, Types
  <2>2. pc'[t] \in CreatePC => pc[t] \in CreatePC
    BY DEF ReadInv, Types, CreatePC
  <2>3. QED
    BY <2>1, <2>2, CreatorKept DEF CallerInv
<1>3. \A u \in Thread \ {t} : CallerKnows(u)'
  BY OthersCall DEF ReadInv, Types, CallerInv
<1>4. CallerKnows(t)'
  BY DEF ReadInv, Types, CallKnows, Working, Reading, CallerInv, CallerKnows, Doing,
     CreatePC, AddPC
<1>5. QED
  BY <1>1, <1>2, <1>3, <1>4 DEF CallerInv

\* A send finds the ring of its pair, or plans to make it.
LEMMA FindRingCaller ==
  ASSUME ReadInv, ReadInv', CallerInv, NEW t \in Thread, FindRing(t)
  PROVE  CallerInv'
<1> USE DEF FindRing, At, Done, Goto, Advance, Over, shared, locals, history
<1>1. rxarg' = [u \in Thread |-> rxarg'[u]] /\ txarg' = [u \in Thread |-> txarg'[u]]
  BY DEF CallerInv
<1>2. OneCreator'
  <2>1. \A u \in Thread \ {t} : pc'[u] = pc[u]
    BY DEF ReadInv, Types
  <2>2. pc'[t] \in CreatePC => pc[t] \in CreatePC
    BY DEF ReadInv, Types, CreatePC
  <2>3. QED
    BY <2>1, <2>2, CreatorKept DEF CallerInv
<1>3. \A u \in Thread \ {t} : CallerKnows(u)'
  BY OthersCall DEF ReadInv, Types, CallerInv
<1>4. CallerKnows(t)'
  <2>1. CallerKnows(t) /\ pc[t] = "send" /\ pc'[t] = "enqueue"
    BY DEF CallerInv, ReadInv, Types
  <2>2. QED
    BY <2>1 DEF CallerKnows, CreatePC, AddPC
<1>5. QED
  BY <1>1, <1>2, <1>3, <1>4 DEF CallerInv

\* A send returns.
LEMMA SendReturnCaller ==
  ASSUME ReadInv, ReadInv', CallerInv, NEW t \in Thread, SendReturn(t)
  PROVE  CallerInv'
<1> USE DEF SendReturn, At, Done, Goto, Advance, Over, shared, locals, history, Idle
<1>1. rxarg' = [u \in Thread |-> rxarg'[u]] /\ txarg' = [u \in Thread |-> txarg'[u]]
  BY DEF CallerInv
<1>2. OneCreator'
  <2>1. \A u \in Thread \ {t} : pc'[u] = pc[u]
    BY DEF ReadInv, Types
  <2>2. pc'[t] \in CreatePC => pc[t] \in CreatePC
    BY DEF ReadInv, Types, CreatePC
  <2>3. QED
    BY <2>1, <2>2, CreatorKept DEF CallerInv
<1>3. \A u \in Thread \ {t} : CallerKnows(u)'
  BY OthersCall DEF ReadInv, Types, CallerInv
<1>4. CallerKnows(t)'
  BY DEF ReadInv, Types, CallKnows, Working, Reading, CallerInv, CallerKnows, Doing,
     CreatePC, AddPC
<1>5. QED
  BY <1>1, <1>2, <1>3, <1>4 DEF CallerInv

\* FastQMsgStatInfo begins.
LEMMA CallStatCaller ==
  ASSUME ReadInv, ReadInv', CallerInv, NEW t \in Thread, CallStat(t)
  PROVE  CallerInv'
<1> USE DEF CallStat, At, Done, Goto, Advance, Over, shared, locals, history
<1>1. rxarg' = [u \in Thread |-> rxarg'[u]] /\ txarg' = [u \in Thread |-> txarg'[u]]
  BY DEF CallerInv
<1>2. OneCreator'
  <2>1. \A u \in Thread \ {t} : pc'[u] = pc[u]
    BY DEF ReadInv, Types
  <2>2. pc'[t] \in CreatePC => pc[t] \in CreatePC
    BY DEF ReadInv, Types, CreatePC
  <2>3. QED
    BY <2>1, <2>2, CreatorKept DEF CallerInv
<1>3. \A u \in Thread \ {t} : CallerKnows(u)'
  BY OthersCall DEF ReadInv, Types, CallerInv
<1>4. CallerKnows(t)'
  BY DEF ReadInv, Types, CallKnows, Working, Reading, CallerInv, CallerKnows, Doing,
     CreatePC, AddPC
<1>5. QED
  BY <1>1, <1>2, <1>3, <1>4 DEF CallerInv

\* FastQDump begins.
LEMMA CallDumpCaller ==
  ASSUME ReadInv, ReadInv', CallerInv, NEW t \in Thread, NEW i, CallDump(t, i)
  PROVE  CallerInv'
<1> USE DEF CallDump, At, Done, Goto, Advance, Over, shared, locals, history
<1>1. rxarg' = [u \in Thread |-> rxarg'[u]] /\ txarg' = [u \in Thread |-> txarg'[u]]
  BY DEF CallerInv
<1>2. OneCreator'
  <2>1. \A u \in Thread \ {t} : pc'[u] = pc[u]
    BY DEF ReadInv, Types
  <2>2. pc'[t] \in CreatePC => pc[t] \in CreatePC
    BY DEF ReadInv, Types, CreatePC
  <2>3. QED
    BY <2>1, <2>2, CreatorKept DEF CallerInv
<1>3. \A u \in Thread \ {t} : CallerKnows(u)'
  BY OthersCall DEF ReadInv, Types, CallerInv
<1>4. CallerKnows(t)'
  BY DEF ReadInv, Types, CallKnows, Working, Reading, CallerInv, CallerKnows, Doing,
     CreatePC, AddPC
<1>5. QED
  BY <1>1, <1>2, <1>3, <1>4 DEF CallerInv

\* A reader passes a pair.
LEMMA ReadPairCaller ==
  ASSUME ReadInv, ReadInv', CallerInv, NEW t \in Thread, ReadPair(t)
  PROVE  CallerInv'
<1> USE DEF ReadPair, At, Done, Goto, Advance, Over, shared, locals, history, Read
<1>1. rxarg' = [u \in Thread |-> rxarg'[u]] /\ txarg' = [u \in Thread |-> txarg'[u]]
  BY DEF CallerInv
<1>2. OneCreator'
  <2>1. \A u \in Thread \ {t} : pc'[u] = pc[u]
    BY DEF ReadInv, Types
  <2>2. pc'[t] \in CreatePC => pc[t] \in CreatePC
    <3>1. pc[t] \in {"stat", "dump"} /\ (pc'[t] = pc[t] \/ pc'[t] = "told")
      BY DEF ReadInv, Types
    <3>2. QED
      BY <3>1 DEF CreatePC
  <2>3. QED
    BY ONLY <2>1, <2>2, CallerInv, t \in Thread, CreatorKept DEF CallerInv
<1>3. \A u \in Thread \ {t} : CallerKnows(u)'
  BY OthersCall DEF ReadInv, Types, CallerInv
<1>4. CallerKnows(t)'
  <2>1. CallerKnows(t) /\ pc[t] \in {"stat", "dump"} /\ rxarg' = rxarg /\ txarg' = txarg
    BY DEF CallerInv
  <2>2. rxarg'[t] = {} /\ txarg'[t] = {}
    BY <2>1 DEF CallerKnows, CreatePC, AddPC
  <2>3. pc'[t] \in Reading
    BY <2>1 DEF ReadInv, Types, Reading
  <2>4. QED
    BY <2>2, <2>3 DEF CallerKnows, CreatePC, AddPC, Reading
<1>5. QED
  BY <1>1, <1>2, <1>3, <1>4 DEF CallerInv

\* A reader comes to the end of its loops.
LEMMA ReadEndCaller ==
  ASSUME ReadInv, ReadInv', CallerInv, NEW t \in Thread, ReadEnd(t)
  PROVE  CallerInv'
<1> USE DEF ReadEnd, At, Done, Goto, Advance, Over, shared, locals, history
<1>1. rxarg' = [u \in Thread |-> rxarg'[u]] /\ txarg' = [u \in Thread |-> txarg'[u]]
  BY DEF CallerInv
<1>2. OneCreator'
  <2>1. \A u \in Thread \ {t} : pc'[u] = pc[u]
    BY DEF ReadInv, Types
  <2>2. pc'[t] \in CreatePC => pc[t] \in CreatePC
    BY DEF ReadInv, Types, CreatePC
  <2>3. QED
    BY <2>1, <2>2, CreatorKept DEF CallerInv
<1>3. \A u \in Thread \ {t} : CallerKnows(u)'
  BY OthersCall DEF ReadInv, Types, CallerInv
<1>4. CallerKnows(t)'
  BY DEF ReadInv, Types, CallKnows, Working, Reading, CallerInv, CallerKnows, Doing,
     CreatePC, AddPC
<1>5. QED
  BY <1>1, <1>2, <1>3, <1>4 DEF CallerInv

\* A reader returns.
LEMMA ReadReturnCaller ==
  ASSUME ReadInv, ReadInv', CallerInv, NEW t \in Thread, ReadReturn(t)
  PROVE  CallerInv'
<1> USE DEF ReadReturn, At, Done, Goto, Advance, Over, shared, locals, history, Idle
<1>1. rxarg' = [u \in Thread |-> rxarg'[u]] /\ txarg' = [u \in Thread |-> txarg'[u]]
  BY DEF CallerInv
<1>2. OneCreator'
  <2>1. \A u \in Thread \ {t} : pc'[u] = pc[u]
    BY DEF ReadInv, Types
  <2>2. pc'[t] \in CreatePC => pc[t] \in CreatePC
    BY DEF ReadInv, Types, CreatePC
  <2>3. QED
    BY <2>1, <2>2, CreatorKept DEF CallerInv
<1>3. \A u \in Thread \ {t} : CallerKnows(u)'
  BY OthersCall DEF ReadInv, Types, CallerInv
<1>4. CallerKnows(t)'
  BY DEF ReadInv, Types, CallKnows, Working, Reading, CallerInv, CallerKnows, Doing,
     CreatePC, AddPC
<1>5. QED
  BY <1>1, <1>2, <1>3, <1>4 DEF CallerInv

\* At the beginning no thread is in a call.
LEMMA InitCallerInv == Init => CallerInv
BY DEF Init, CallerInv, CallerKnows, OneCreator, CreatePC, AddPC

\* A step in which nothing changes.
LEMMA CallerStutter ==
  ASSUME CallerInv, UNCHANGED vars
  PROVE  CallerInv'
BY DEF vars, shared, locals, history, CallerInv, CallerKnows, OneCreator

\* Every step keeps the invariant.
LEMMA CallerInvStep ==
  ASSUME ReadInv, ReadInv', CallerInv, [Next]_vars
  PROVE  CallerInv'
<1>1. ASSUME NEW t \in Thread, OnPair(t) PROVE CallerInv'
  BY <1>1, LoadSetCaller, StoreSetCaller, StoreRingCaller, LockPeerCaller,
     UnlockPeerCaller DEF OnPair
<1>2. ASSUME NEW t \in Thread, Create(t) PROVE CallerInv'
  BY <1>2, CallCreateCaller, CopyRxCaller, CopyTxCaller, StoreSizeCaller, CreatePeerCaller,
     CreateOutwardCaller, CreateNextCaller, CreateReturnCaller DEF Create
<1>3. ASSUME NEW t \in Thread, Add(t) PROVE CallerInv'
  BY <1>3, CallAddSetCaller, AddModifyCaller, AddInwardCaller, AddUnlockRxCaller,
     AddOutwardCaller, AddUnlockTxCaller, AddReturnCaller DEF Add
<1>4. ASSUME NEW t \in Thread, Send(t) PROVE CallerInv'
  BY <1>4, CallSendCaller, FindRingCaller, SendReturnCaller DEF Send
<1>5. ASSUME NEW t \in Thread, Reader(t) PROVE CallerInv'
  BY <1>5, CallStatCaller, CallDumpCaller, ReadPairCaller, ReadEndCaller,
     ReadReturnCaller DEF Reader
<1>6. CASE UNCHANGED vars
  BY <1>6, CallerStutter
<1>7. QED
  BY <1>1, <1>2, <1>3, <1>4, <1>5, <1>6 DEF Next

-----------------------------------------------------------------------------
(* The status and the locks: as long as FastQAddSet gets no txset they are *)
(* consistent and the calls do not block each other, for any number of     *)
(* modules and threads and any rxsets.  With a txset both fail: the peer's *)
(* rx.rwlock, which fastq.c:742 locks a second time instead of unlocking   *)
(* it, stays with the thread.                                              *)
(*                                                                         *)
(* The argument: one thread changes a module at a time (OneChanges), as    *)
(* its status says (StatusFits).  It owns the module's own locks only at   *)
(* the steps between lock and unlock, and a peer's tx.rwlock only while    *)
(* the unlock is in its plan (OwnersKnown, PlanFits).  So the owner of a   *)
(* tx.rwlock never waits, that of an rx.rwlock waits for a tx.rwlock at    *)
(* most, and who waits for a status waits for a thread that waits for a    *)
(* lock at most.                                                           *)


\* Where a thread changes a module.
ChangePC == {"create sets", "create tx set", "create size", "create peer",
             "create rx", "create tx", "add peer", "add rx", "add between", "add tx"}

\* The steps of a peer's tx.rwlock from its lock to its release, and what is
\* left of the plan of FastQAddSet for a peer.
Held == {"load tx", "store tx", "unlock tx"}
Op == Plain \cup Held \cup {"lock tx"}
AddPlan == RxSet \o <<"lock tx">> \o TxSet \o <<"unlock tx">> \o Ring
Rest(k) == SubSeq(AddPlan, k, 7)
AddRests == {Rest(k) : k \in 1 .. 8}

\* A thread's plan fits the place where it is.
PlanFits(t) ==
  /\ pc[t] # "add rx" => todo[t] \in Seq(Plain)
  /\ pc[t] = "add rx" => todo[t] \in AddRests
  /\ pc[t] = "add tx" => todo[t] = << >>
  /\ pc[t] \in AddPC => txarg[t] = {}

\* One thread changes a module at a time, its status says so, and the owner of
\* a lock is where it may own it.
OneChanges ==
  \A t, u \in Thread : pc[t] \in ChangePC /\ pc[u] \in ChangePC /\ m[t] = m[u] => t = u
StatusFits ==
  /\ \A t \in Thread : pc[t] \in ChangePC => status[m[t]] = "MODIFY"
  /\ \A i \in Module : status[i] # "OK" => \E t \in Thread : pc[t] \in ChangePC /\ m[t] = i
OwnersKnown ==
  /\ \A i \in Module, t \in Thread : rxlock[i] = t => pc[t] = "add rx" /\ m[t] = i
  /\ \A i \in Module, t \in Thread : txlock[i] = t =>
       \/ pc[t] = "add tx" /\ m[t] = i
       \/ pc[t] = "add rx" /\ p[t] = i /\ todo[t] # << >> /\ Head(todo[t]) \in Held
LockTypes ==
  /\ status \in [Module -> {"OK", "MODIFY"}]
  /\ rxlock \in [Module -> Thread \cup {None}] /\ txlock \in [Module -> Thread \cup {None}]
  /\ txarg = [t \in Thread |-> txarg[t]]

\* The inductive invariant.
LockInv ==
  /\ LockTypes /\ OneChanges /\ StatusFits /\ OwnersKnown
  /\ \A t \in Thread : PlanFits(t)

-----------------------------------------------------------------------------
(* The plans.                                                              *)

\* The plan of FastQAddSet for a peer, step by step.
LEMMA AddPlanIs ==
  /\ AddPlan \in Seq(Op) /\ Len(AddPlan) = 7
  /\ AddPlan[1] = "load rx" /\ AddPlan[2] = "store rx" /\ AddPlan[3] = "lock tx"
  /\ AddPlan[4] = "load tx" /\ AddPlan[5] = "store tx" /\ AddPlan[6] = "unlock tx"
  /\ AddPlan[7] = "ring"
<1>1. /\ RxSet \in Seq(Op) /\ <<"lock tx">> \in Seq(Op) /\ TxSet \in Seq(Op)
      /\ <<"unlock tx">> \in Seq(Op) /\ Ring \in Seq(Op)
  BY DEF RxSet, TxSet, Ring, Op, Plain, Held
<1>2. AddPlan \in Seq(Op)
  <2>1. RxSet \o <<"lock tx">> \in Seq(Op)
    BY <1>1, ConcatProperties
  <2>2. RxSet \o <<"lock tx">> \o TxSet \in Seq(Op)
    BY <1>1, <2>1, ConcatProperties
  <2>3. RxSet \o <<"lock tx">> \o TxSet \o <<"unlock tx">> \in Seq(Op)
    BY <1>1, <2>2, ConcatProperties
  <2>4. QED
    BY <1>1, <2>3, ConcatProperties DEF AddPlan
<1> DEFINE a == "load rx"   b == "store rx"   c == "lock tx"   d == "load tx"
           e == "store tx"  f == "unlock tx"  g == "ring"
           s == <<a, b>> \o <<c>> \o <<d, e>> \o <<f>> \o <<g>>
<1> HIDE DEF a, b, c, d, e, f, g
<1>3. /\ Len(s) = 7 /\ s[1] = a /\ s[2] = b /\ s[3] = c /\ s[4] = d /\ s[5] = e
      /\ s[6] = f /\ s[7] = g
  OBVIOUS
<1>4. s = AddPlan
  BY DEF a, b, c, d, e, f, g, AddPlan, RxSet, TxSet, Ring
<1> HIDE DEF s
<1>5. QED
  BY <1>2, <1>3, <1>4 DEF a, b, c, d, e, f, g

\* What is left of it after a step.
LEMMA RestStep ==
  /\ Rest(8) = << >>
  /\ \A k \in 1 .. 7 : /\ Rest(k) # << >> /\ Head(Rest(k)) = AddPlan[k]
                       /\ Tail(Rest(k)) = Rest(k + 1)
<1>1. Rest(8) = << >>
  BY SubSeqEmpty DEF Rest
<1>2. ASSUME NEW k \in 1 .. 7
      PROVE  Rest(k) # << >> /\ Head(Rest(k)) = AddPlan[k] /\ Tail(Rest(k)) = Rest(k + 1)
  <2>0. AddPlan \in Seq(Op) /\ Len(AddPlan) = 7
    BY AddPlanIs
  <2>1. AddPlan \in Seq(Op) /\ k \in 1 .. Len(AddPlan) /\ 7 \in k .. Len(AddPlan)
    BY <2>0
  <2>2. /\ Head(SubSeq(AddPlan, k, 7)) = AddPlan[k]
        /\ Tail(SubSeq(AddPlan, k, 7)) = SubSeq(AddPlan, k + 1, 7)
    BY <2>1, HeadTailOfSubSeq
  <2>3. \A i \in k .. 7 : AddPlan[i] \in Op
    <3>1. \A i \in 1 .. Len(AddPlan) : AddPlan[i] \in Op
      BY <2>1, ElementOfSeq
    <3>2. QED
      BY <2>0, <3>1
  <2>4. Len(SubSeq(AddPlan, k, 7)) = 7 - k + 1
    <3>1. k \in Int /\ 7 \in Int /\ k <= 7
      OBVIOUS
    <3>2. Len(SubSeq(AddPlan, k, 7)) = IF k <= 7 THEN 7 - k + 1 ELSE 0
      BY <2>3, <3>1, SubSeqProperties
    <3>3. QED
      BY <3>1, <3>2
  <2>5. SubSeq(AddPlan, k, 7) # << >>
    <3>1. 7 - k + 1 # 0 /\ Len(<< >>) = 0
      OBVIOUS
    <3>2. QED
      BY <2>4, <3>1
  <2>6. QED
    BY <2>2, <2>5 DEF Rest
<1>3. QED
  BY <1>1, <1>2

\* The lock of the peer is followed by the MOD_SET of tx.set and the unlock.
LEMMA AddPlanNext ==
  ASSUME NEW s \in AddRests, s # << >>
  PROVE  /\ Tail(s) \in AddRests /\ Head(s) # "lock rx"
         /\ Head(s) = "lock tx" => Tail(s) # << >> /\ Head(Tail(s)) = "load tx"
         /\ Head(s) = "load tx" => Tail(s) # << >> /\ Head(Tail(s)) = "store tx"
         /\ Head(s) = "store tx" => Tail(s) # << >> /\ Head(Tail(s)) = "unlock tx"
<1>1. PICK k \in 1 .. 8 : s = Rest(k)
  BY DEF AddRests
<1>2. k \in 1 .. 7 /\ k + 1 \in 1 .. 8
  <2>1. k # 8
    BY <1>1, RestStep
  <2>2. QED
    BY <2>1
<1>3. Head(s) = AddPlan[k] /\ Tail(s) = Rest(k + 1)
  BY <1>1, <1>2, RestStep
<1>4. k < 7 => Tail(s) # << >> /\ Head(Tail(s)) = AddPlan[k + 1]
  <2>1. k < 7 => k + 1 \in 1 .. 7
    BY <1>2
  <2>2. QED
    BY <1>3, <2>1, RestStep
<1>5. Tail(s) \in AddRests
  BY <1>2, <1>3 DEF AddRests
<1>6. \/ k = 1 \/ k = 2 \/ k = 3 \/ k = 4 \/ k = 5 \/ k = 6 \/ k = 7
  BY <1>2
<1>7. /\ k = 1 => Head(s) = "load rx"
      /\ k = 2 => Head(s) = "store rx"
      /\ k = 3 => Head(s) = "lock tx" /\ AddPlan[k + 1] = "load tx"
      /\ k = 4 => Head(s) = "load tx" /\ AddPlan[k + 1] = "store tx"
      /\ k = 5 => Head(s) = "store tx" /\ AddPlan[k + 1] = "unlock tx"
      /\ k = 6 => Head(s) = "unlock tx"
      /\ k = 7 => Head(s) = "ring"
  <2>1. 3 + 1 = 4 /\ 4 + 1 = 5 /\ 5 + 1 = 6
    OBVIOUS
  <2>2. QED
    BY <1>3, <2>1, AddPlanIs
<1>8. QED
  <2>1. k \in {3, 4, 5} => k < 7
    OBVIOUS
  <2>2. QED
    BY <1>4, <1>5, <1>6, <1>7, <2>1

\* A plan that has begun, and one that is over, are rests of the plan.
LEMMA AddPlanStart == << >> \in AddRests /\ AddPlan \in AddRests
<1>1. Rest(8) \in AddRests /\ Rest(1) \in AddRests
  BY DEF AddRests
<1>2. Rest(1) = AddPlan
  BY AddPlanIs, SubSeqFull DEF Rest
<1>3. QED
  BY <1>1, <1>2, RestStep

\* The other plans take no lock.
LEMMA PlainPlan ==
  /\ RxSet \o TxSet \o Ring \in Seq(Plain) /\ TxSet \o RxSet \o Ring \in Seq(Plain)
  /\ Ring \o RxSet \o TxSet \in Seq(Plain) /\ << >> \in Seq(Plain)
<1>1. Ring \in Seq(Plain) /\ RxSet \in Seq(Plain) /\ TxSet \in Seq(Plain)
  BY DEF RxSet, TxSet, Ring, Plain
<1>2. QED
  BY <1>1
\* What is left of them takes none either.
LEMMA PlainNext ==
  ASSUME NEW s \in Seq(Plain), s # << >>
  PROVE  Head(s) \in Plain /\ Tail(s) \in Seq(Plain)
BY HeadTailProperties
-----------------------------------------------------------------------------
(* What a step does not disturb.                                           *)

\* A step of a thread leaves the plans of the others alone.
LEMMA OthersFit ==
  ASSUME LockInv, NEW t \in Thread,
         \A u \in Thread \ {t} : /\ pc'[u] = pc[u] /\ todo'[u] = todo[u]
                                 /\ txarg'[u] = txarg[u]
  PROVE  \A u \in Thread \ {t} : PlanFits(u)'
BY DEF LockInv, PlanFits

\* A step that neither begins nor ends a change of a module.
LEMMA ChangersKept ==
  ASSUME LockInv, NEW t \in Thread,
         \A u \in Thread \ {t} : pc'[u] = pc[u] /\ m'[u] = m[u],
         status' = status,
         pc[t] \in ChangePC <=> pc'[t] \in ChangePC,
         pc[t] \in ChangePC => m'[t] = m[t]
  PROVE  OneChanges' /\ StatusFits'
<1>1. \A u \in Thread : /\ pc[u] \in ChangePC <=> pc'[u] \in ChangePC
                        /\ pc[u] \in ChangePC => m'[u] = m[u]
  OBVIOUS
<1>2. OneChanges'
  BY <1>1 DEF LockInv, OneChanges
<1>3. ASSUME NEW u \in Thread, pc'[u] \in ChangePC PROVE status'[m'[u]] = "MODIFY"
  BY <1>1, <1>3 DEF LockInv, StatusFits
<1>4. ASSUME NEW i \in Module, status'[i] # "OK"
      PROVE  \E u \in Thread : pc'[u] \in ChangePC /\ m'[u] = i
  <2>1. PICK u \in Thread : pc[u] \in ChangePC /\ m[u] = i
    BY <1>4 DEF LockInv, StatusFits
  <2>2. QED
    BY <1>1, <2>1
<1>5. QED
  BY <1>2, <1>3, <1>4 DEF StatusFits

\* A step that begins a change of a module nobody is changing.
LEMMA ChangeBegins ==
  ASSUME LockInv, NEW t \in Thread, NEW i \in Module,
         \A u \in Thread \ {t} : pc'[u] = pc[u] /\ m'[u] = m[u],
         \A u \in Thread \ {t} : pc[u] \in ChangePC => m[u] # i,
         pc[t] \notin ChangePC, pc'[t] \in ChangePC, m'[t] = i,
         status' = [status EXCEPT ![i] = "MODIFY"]
  PROVE  OneChanges' /\ StatusFits'
<1>1. OneChanges'
  BY DEF LockInv, OneChanges
<1>2. status'[i] = "MODIFY" /\ \A j \in Module \ {i} : status'[j] = status[j]
  BY DEF LockInv, LockTypes
<1>3. ASSUME NEW u \in Thread, pc'[u] \in ChangePC PROVE status'[m'[u]] = "MODIFY"
  <2>1. CASE u = t
    BY <2>1, <1>2
  <2>2. CASE u # t
    BY <2>2, <1>3 DEF LockInv, LockTypes, StatusFits
  <2>3. QED
    BY <2>1, <2>2
<1>4. ASSUME NEW j \in Module, status'[j] # "OK"
      PROVE  \E u \in Thread : pc'[u] \in ChangePC /\ m'[u] = j
  <2>1. CASE j = i
    BY <2>1
  <2>2. CASE j # i
    <3>1. PICK u \in Thread : pc[u] \in ChangePC /\ m[u] = j
      BY <1>2, <1>4, <2>2 DEF LockInv, StatusFits
    <3>2. QED
      BY <3>1
  <2>3. QED
    BY <2>1, <2>2
<1>5. QED
  BY <1>1, <1>3, <1>4 DEF StatusFits

\* A step that ends a change.
LEMMA ChangeEnds ==
  ASSUME LockInv, NEW t \in Thread, m[t] \in Module,
         \A u \in Thread \ {t} : pc'[u] = pc[u] /\ m'[u] = m[u],
         pc[t] \in ChangePC, pc'[t] \notin ChangePC,
         status' = [status EXCEPT ![m[t]] = "OK"]
  PROVE  OneChanges' /\ StatusFits'
<1>1. OneChanges'
  BY DEF LockInv, OneChanges
<1>2. status'[m[t]] = "OK" /\ \A j \in Module \ {m[t]} : status'[j] = status[j]
  BY DEF LockInv, LockTypes
<1>3. ASSUME NEW u \in Thread, pc'[u] \in ChangePC PROVE status'[m'[u]] = "MODIFY"
  <2>1. u # t /\ m[u] # m[t]
    BY <1>3 DEF LockInv, OneChanges
  <2>2. QED
    BY <2>1, <1>3 DEF LockInv, LockTypes, StatusFits
<1>4. ASSUME NEW j \in Module, status'[j] # "OK"
      PROVE  \E u \in Thread : pc'[u] \in ChangePC /\ m'[u] = j
  <2>1. j # m[t]
    BY <1>2, <1>4
  <2>2. PICK u \in Thread : pc[u] \in ChangePC /\ m[u] = j
    BY <1>2, <1>4, <2>1 DEF LockInv, StatusFits
  <2>3. QED
    BY <2>1, <2>2
<1>5. QED
  BY <1>1, <1>3, <1>4 DEF StatusFits

\* A step that gives no lock to others, and to the thread itself only where it
\* may have it.
LEMMA OwnersKept ==
  ASSUME LockInv, NEW t \in Thread,
         \A u \in Thread \ {t} : /\ pc'[u] = pc[u] /\ todo'[u] = todo[u]
                                 /\ m'[u] = m[u] /\ p'[u] = p[u],
         \A i \in Module, u \in Thread \ {t} :
            (rxlock'[i] = u => rxlock[i] = u) /\ (txlock'[i] = u => txlock[i] = u),
         \A i \in Module : rxlock'[i] = t => pc'[t] = "add rx" /\ m'[t] = i,
         \A i \in Module : txlock'[i] = t =>
            \/ pc'[t] = "add tx" /\ m'[t] = i
            \/ pc'[t] = "add rx" /\ p'[t] = i /\ todo'[t] # << >> /\ Head(todo'[t]) \in Held
  PROVE  OwnersKnown'
<1>1. ASSUME NEW i \in Module, NEW u \in Thread, rxlock'[i] = u
      PROVE  pc'[u] = "add rx" /\ m'[u] = i
  <2>1. CASE u = t
    BY <1>1, <2>1
  <2>2. CASE u # t
    <3>1. rxlock[i] = u
      BY <1>1, <2>2
    <3>2. \A j \in Module, v \in Thread : rxlock[j] = v => pc[v] = "add rx" /\ m[v] = j
      BY DEF LockInv, OwnersKnown
    <3>3. pc[u] = "add rx" /\ m[u] = i
      BY ONLY <3>1, <3>2, i \in Module, u \in Thread, Zenon
    <3>4. pc'[u] = pc[u] /\ m'[u] = m[u]
      BY <2>2
    <3>5. QED
      BY ONLY <3>3, <3>4
  <2>3. QED
    BY ONLY <2>1, <2>2
<1>2. ASSUME NEW i \in Module, NEW u \in Thread, txlock'[i] = u
      PROVE  \/ pc'[u] = "add tx" /\ m'[u] = i
             \/ pc'[u] = "add rx" /\ p'[u] = i /\ todo'[u] # << >> /\ Head(todo'[u]) \in Held
  <2>1. CASE u = t
    BY <1>2, <2>1
  <2>2. CASE u # t
    <3>1. txlock[i] = u
      BY <1>2, <2>2
    <3> DEFINE TxOwner(v, j) ==
          \/ pc[v] = "add tx" /\ m[v] = j
          \/ pc[v] = "add rx" /\ p[v] = j /\ todo[v] # << >> /\ Head(todo[v]) \in Held
    <3>0. \A j \in Module, v \in Thread : txlock[j] = v => TxOwner(v, j)
      BY DEF LockInv, OwnersKnown
    <3>2. TxOwner(u, i)
      <4> HIDE DEF TxOwner
      <4> QED BY ONLY <3>0, <3>1, i \in Module, u \in Thread
    <3>3. pc'[u] = pc[u] /\ m'[u] = m[u] /\ p'[u] = p[u] /\ todo'[u] = todo[u]
      BY <2>2
    <3>4. QED
      BY ONLY <3>2, <3>3
  <2>3. QED
    BY ONLY <2>1, <2>2
<1>3. QED
  BY ONLY <1>1, <1>2 DEF OwnersKnown

\* A step outside the locks that neither begins nor ends a change.
LEMMA Frame ==
  ASSUME ReadInv, LockInv, NEW t \in Thread,
         \A u \in Thread \ {t} : /\ pc'[u] = pc[u] /\ todo'[u] = todo[u]
                                 /\ m'[u] = m[u] /\ p'[u] = p[u]
                                 /\ txarg'[u] = txarg[u],
         status' = status, rxlock' = rxlock, txlock' = txlock,
         txarg' = [u \in Thread |-> txarg'[u]],
         pc[t] \notin {"add rx", "add tx"},
         pc[t] \in ChangePC <=> pc'[t] \in ChangePC,
         pc[t] \in ChangePC => m'[t] = m[t],
         PlanFits(t)'
  PROVE  LockInv'
<1>1. LockTypes'
  BY DEF LockInv, LockTypes
<1>2. OneChanges' /\ StatusFits'
  BY ChangersKept
<1>3. \A i \in Module : rxlock[i] # t /\ txlock[i] # t
  <2>1. OwnersKnown /\ pc[t] # "add rx" /\ pc[t] # "add tx"
    BY DEF LockInv
  <2>2. ASSUME NEW i \in Module, rxlock[i] = t PROVE FALSE
    BY ONLY <2>1, <2>2, t \in Thread, Zenon DEF OwnersKnown
  <2>3. ASSUME NEW i \in Module, txlock[i] = t PROVE FALSE
    BY ONLY <2>1, <2>3, t \in Thread, Zenon DEF OwnersKnown
  <2>4. QED
    BY ONLY <2>2, <2>3, Zenon
<1>4. \A u \in Thread \ {t} : /\ pc'[u] = pc[u] /\ todo'[u] = todo[u]
                              /\ m'[u] = m[u] /\ p'[u] = p[u]
  OBVIOUS
<1>5. /\ \A i \in Module, u \in Thread \ {t} :
            (rxlock'[i] = u => rxlock[i] = u) /\ (txlock'[i] = u => txlock[i] = u)
      /\ \A i \in Module : rxlock'[i] # t /\ txlock'[i] # t
  BY <1>3
<1>6. OwnersKnown'
  BY <1>4, <1>5, OwnersKept
<1>7. \A u \in Thread : PlanFits(u)'
  BY OthersFit
<1>8. QED
  BY <1>1, <1>2, <1>6, <1>7 DEF LockInv

\* A step of a plan that is no lock or unlock: the owner of a lock of the peer
\* comes nearer to its release.
LEMMA PairKept ==
  ASSUME ReadInv, LockInv, NEW t \in Thread,
         todo[t] # << >>, Head(todo[t]) # "unlock tx",
         todo' = [todo EXCEPT ![t] = Tail(todo[t])],
         UNCHANGED <<pc, m, p, txarg, status, rxlock, txlock>>
  PROVE  LockInv'
<1>1. LockTypes' /\ OneChanges' /\ StatusFits'
  BY DEF LockInv, LockTypes, OneChanges, StatusFits
<1>2. /\ todo'[t] = Tail(todo[t])
      /\ \A u \in Thread \ {t} : todo'[u] = todo[u]
  BY DEF ReadInv, Types
<1>3. OwnersKnown'
  <2>1. ASSUME pc[t] = "add rx", Head(todo[t]) \in Held
        PROVE  todo'[t] # << >> /\ Head(todo'[t]) \in Held
    <3>1. todo[t] \in AddRests
      BY <2>1 DEF LockInv, PlanFits
    <3>2. Head(todo[t]) \in {"load tx", "store tx"}
      BY <2>1 DEF Held
    <3>3. QED
      BY <1>2, <3>1, <3>2, AddPlanNext DEF Held
  <2>2. pc[t] = "add tx" => todo[t] = << >>
    BY DEF LockInv, PlanFits
  <2>3. \A i \in Module : rxlock[i] = t => pc[t] = "add rx" /\ m[t] = i
    BY DEF LockInv, OwnersKnown
  <2>4. \A i \in Module : txlock[i] = t =>
           pc[t] = "add rx" /\ p[t] = i /\ todo'[t] # << >> /\ Head(todo'[t]) \in Held
    BY <2>1, <2>2 DEF LockInv, OwnersKnown
  <2>5. QED
    BY <1>2, <2>3, <2>4, OwnersKept
<1>4. PlanFits(t)'
  <2>1. PlanFits(t)
    BY DEF LockInv
  <2>2. CASE pc[t] = "add rx"
    BY <1>2, <2>1, <2>2, AddPlanNext DEF PlanFits
  <2>3. CASE pc[t] # "add rx"
    BY <1>2, <2>1, <2>3, PlainNext DEF PlanFits
  <2>4. QED
    BY <2>2, <2>3
<1>5. \A u \in Thread : PlanFits(u)'
  BY <1>2, <1>4, OthersFit
<1>6. QED
  BY <1>1, <1>3, <1>5 DEF LockInv

\* Only FastQAddSet locks a peer, and it locks the peer's tx.rwlock.
LEMMA WhoWaits ==
  ASSUME ReadInv, LockInv, NEW t \in Thread
  PROVE  /\ ~Doing(t, "lock rx")
         /\ Doing(t, "lock tx") \/ Doing(t, "unlock tx") => pc[t] = "add rx" /\ Src(t) = p[t]
         /\ pc[t] \notin Reading \cup {"idle"} => m[t] \in Module
         /\ pc[t] \in {"add rx", "add between", "add tx"} => p[t] \in Module
<1>1. PlanFits(t)
  BY DEF LockInv
<1>2. pc[t] # "add rx" /\ todo[t] # << >> => Head(todo[t]) \in Plain
  BY <1>1, PlainNext DEF PlanFits
<1>3. pc[t] = "add rx" /\ todo[t] # << >> => Head(todo[t]) # "lock rx"
  BY <1>1, AddPlanNext DEF PlanFits
<1>4. ~Doing(t, "lock rx")
  BY <1>2, <1>3 DEF Doing, Plain
<1>5. Doing(t, "lock tx") \/ Doing(t, "unlock tx") => pc[t] = "add rx" /\ Src(t) = p[t]
  BY <1>2 DEF Doing, Plain, Src, Inward
<1>6. pc[t] \notin Reading \cup {"idle"} => m[t] \in Module
  BY DEF ReadInv, Types, CallKnows
<1>7. pc[t] \in {"add rx", "add between", "add tx"} => p[t] \in Module
  BY DEF ReadInv, Types, CallKnows, Working
<1>8. QED
  BY <1>4, <1>5, <1>6, <1>7

-----------------------------------------------------------------------------
(* The steps.                                                              *)

\* MOD_SET loads the word.
LEMMA LoadSetLocks ==
  ASSUME ReadInv, LockInv, NEW t \in Thread, LoadSet(t)
  PROVE  LockInv'
BY PairKept DEF LoadSet, Doing, Done, shared

\* MOD_SET stores it.
LEMMA StoreSetLocks ==
  ASSUME ReadInv, LockInv, NEW t \in Thread, StoreSet(t)
  PROVE  LockInv'
BY PairKept DEF StoreSet, Doing, Done

\* The ring of the pair is stored.
LEMMA StoreRingLocks ==
  ASSUME ReadInv, LockInv, NEW t \in Thread, StoreRing(t)
  PROVE  LockInv'
BY PairKept DEF StoreRing, Doing, Done

\* FastQCreateModule copies the rxset.
LEMMA CopyRxLocks ==
  ASSUME ReadInv, LockInv, NEW t \in Thread, CopyRx(t)
  PROVE  LockInv'
<1> USE DEF CopyRx, At, Done, Goto, Advance, Over, shared, locals, history, Idle
<1>1. PlanFits(t)'
  BY PlainPlan DEF ReadInv, Types, CallKnows, Working, LockInv, LockTypes, PlanFits, AddPC
<1>2. txarg' = [u \in Thread |-> txarg'[u]]
  BY DEF LockInv, LockTypes
<1>3. QED
  BY <1>1, <1>2, Frame DEF ReadInv, Types, ChangePC

\* FastQCreateModule copies the txset.
LEMMA CopyTxLocks ==
  ASSUME ReadInv, LockInv, NEW t \in Thread, CopyTx(t)
  PROVE  LockInv'
<1> USE DEF CopyTx, At, Done, Goto, Advance, Over, shared, locals, history, Idle
<1>1. PlanFits(t)'
  BY PlainPlan DEF ReadInv, Types, CallKnows, Working, LockInv, LockTypes, PlanFits, AddPC
<1>2. txarg' = [u \in Thread |-> txarg'[u]]
  BY DEF LockInv, LockTypes
<1>3. QED
  BY <1>1, <1>2, Frame DEF ReadInv, Types, ChangePC

\* FastQCreateModule stores the size, and the ring from anyone.
LEMMA StoreSizeLocks ==
  ASSUME ReadInv, LockInv, NEW t \in Thread, StoreSize(t)
  PROVE  LockInv'
<1> USE DEF StoreSize, At, Done, Goto, Advance, Over, shared, locals, history, Idle
<1>1. PlanFits(t)'
  BY PlainPlan DEF ReadInv, Types, CallKnows, Working, LockInv, LockTypes, PlanFits, AddPC
<1>2. txarg' = [u \in Thread |-> txarg'[u]]
  BY DEF LockInv, LockTypes
<1>3. QED
  BY <1>1, <1>2, Frame DEF ReadInv, Types, ChangePC

\* FastQCreateModule turns to a peer.
LEMMA CreatePeerLocks ==
  ASSUME ReadInv, LockInv, NEW t \in Thread, CreatePeer(t)
  PROVE  LockInv'
<1> USE DEF CreatePeer, At, Done, Goto, Advance, Over, shared, locals, history, Idle
<1>1. PlanFits(t)'
  BY PlainPlan DEF ReadInv, Types, CallKnows, Working, LockInv, LockTypes, PlanFits, AddPC
<1>2. txarg' = [u \in Thread |-> txarg'[u]]
  BY DEF LockInv, LockTypes
<1>3. QED
  BY <1>1, <1>2, Frame DEF ReadInv, Types, ChangePC

\* FastQCreateModule turns to the ring to the peer.
LEMMA CreateOutwardLocks ==
  ASSUME ReadInv, LockInv, NEW t \in Thread, CreateOutward(t)
  PROVE  LockInv'
<1> USE DEF CreateOutward, At, Done, Goto, Advance, Over, shared, locals, history, Idle
<1>1. PlanFits(t)'
  BY PlainPlan DEF ReadInv, Types, CallKnows, Working, LockInv, LockTypes, PlanFits, AddPC
<1>2. txarg' = [u \in Thread |-> txarg'[u]]
  BY DEF LockInv, LockTypes
<1>3. QED
  BY <1>1, <1>2, Frame DEF ReadInv, Types, ChangePC

\* FastQCreateModule goes on to the next peer.
LEMMA CreateNextLocks ==
  ASSUME ReadInv, LockInv, NEW t \in Thread, CreateNext(t)
  PROVE  LockInv'
<1> USE DEF CreateNext, At, Done, Goto, Advance, Over, shared, locals, history, Idle
<1>1. PlanFits(t)'
  BY PlainPlan DEF ReadInv, Types, CallKnows, Working, LockInv, LockTypes, PlanFits, AddPC
<1>2. txarg' = [u \in Thread |-> txarg'[u]]
  BY DEF LockInv, LockTypes
<1>3. QED
  BY <1>1, <1>2, Frame DEF ReadInv, Types, ChangePC

\* A send looks for the ring of its pair.
LEMMA FindRingLocks ==
  ASSUME ReadInv, LockInv, NEW t \in Thread, FindRing(t)
  PROVE  LockInv'
<1> USE DEF FindRing, At, Done, Goto, Advance, Over, shared, locals, history, Idle
<1>1. PlanFits(t)'
  BY PlainPlan DEF ReadInv, Types, CallKnows, Working, LockInv, LockTypes, PlanFits, AddPC
<1>2. txarg' = [u \in Thread |-> txarg'[u]]
  BY DEF LockInv, LockTypes
<1>3. QED
  BY <1>1, <1>2, Frame DEF ReadInv, Types, ChangePC

\* A send returns.
LEMMA SendReturnLocks ==
  ASSUME ReadInv, LockInv, NEW t \in Thread, SendReturn(t)
  PROVE  LockInv'
<1> USE DEF SendReturn, At, Done, Goto, Advance, Over, shared, locals, history, Idle
<1>1. PlanFits(t)'
  BY PlainPlan DEF ReadInv, Types, CallKnows, Working, LockInv, LockTypes, PlanFits, AddPC
<1>2. txarg' = [u \in Thread |-> txarg'[u]]
  BY DEF LockInv, LockTypes
<1>3. QED
  BY <1>1, <1>2, Frame DEF ReadInv, Types, ChangePC

\* FastQMsgStatInfo begins.
LEMMA CallStatLocks ==
  ASSUME ReadInv, LockInv, NEW t \in Thread, CallStat(t)
  PROVE  LockInv'
<1> USE DEF CallStat, At, Done, Goto, Advance, Over, shared, locals, history, Idle
<1>1. PlanFits(t)'
  BY PlainPlan DEF ReadInv, Types, CallKnows, Working, LockInv, LockTypes, PlanFits, AddPC
<1>2. txarg' = [u \in Thread |-> txarg'[u]]
  BY DEF LockInv, LockTypes
<1>3. QED
  BY <1>1, <1>2, Frame DEF ReadInv, Types, ChangePC

\* A reader comes to the end of its loops.
LEMMA ReadEndLocks ==
  ASSUME ReadInv, LockInv, NEW t \in Thread, ReadEnd(t)
  PROVE  LockInv'
<1> USE DEF ReadEnd, At, Done, Goto, Advance, Over, shared, locals, history, Idle
<1>1. PlanFits(t)'
  BY PlainPlan DEF ReadInv, Types, CallKnows, Working, LockInv, LockTypes, PlanFits, AddPC
<1>2. txarg' = [u \in Thread |-> txarg'[u]]
  BY DEF LockInv, LockTypes
<1>3. QED
  BY <1>1, <1>2, Frame DEF ReadInv, Types, ChangePC

\* A reader returns.
LEMMA ReadReturnLocks ==
  ASSUME ReadInv, LockInv, NEW t \in Thread, ReadReturn(t)
  PROVE  LockInv'
<1> USE DEF ReadReturn, At, Done, Goto, Advance, Over, shared, locals, history, Idle
<1>1. PlanFits(t)'
  BY PlainPlan DEF ReadInv, Types, CallKnows, Working, LockInv, LockTypes, PlanFits, AddPC
<1>2. txarg' = [u \in Thread |-> txarg'[u]]
  BY DEF LockInv, LockTypes
<1>3. QED
  BY <1>1, <1>2, Frame DEF ReadInv, Types, ChangePC

\* FastQAddSet is called without a txset.
LEMMA CallAddSetLocks ==
  ASSUME ReadInv, LockInv, NEW t \in Thread, NEW i, NEW rxset, CallAddSet(t, i, rxset, {})
  PROVE  LockInv'
<1> USE DEF CallAddSet, At, Done, Goto, Advance, Over, shared, locals, history, Idle
<1>1. PlanFits(t)'
  BY PlainPlan DEF ReadInv, Types, CallKnows, Working, LockInv, LockTypes, PlanFits, AddPC
<1>2. txarg' = [u \in Thread |-> txarg'[u]]
  BY DEF LockInv, LockTypes
<1>3. QED
  BY <1>1, <1>2, Frame DEF ReadInv, Types, ChangePC

\* A send is called.
LEMMA CallSendLocks ==
  ASSUME ReadInv, LockInv, NEW t \in Thread, NEW s, NEW d, CallSend(t, s, d)
  PROVE  LockInv'
<1> USE DEF CallSend, At, Done, Goto, Advance, Over, shared, locals, history, Idle
<1>1. PlanFits(t)'
  BY PlainPlan DEF ReadInv, Types, CallKnows, Working, LockInv, LockTypes, PlanFits, AddPC
<1>2. txarg' = [u \in Thread |-> txarg'[u]]
  BY DEF LockInv, LockTypes
<1>3. QED
  BY <1>1, <1>2, Frame DEF ReadInv, Types, ChangePC

\* A reader passes a pair.
LEMMA ReadPairLocks ==
  ASSUME ReadInv, LockInv, NEW t \in Thread, ReadPair(t)
  PROVE  LockInv'
<1> USE DEF ReadPair, Read, At, Done, Goto, Advance, Over, shared, locals, history, Idle
<1>1. PlanFits(t)'
  BY DEF ReadInv, Types, CallKnows, Working, LockInv, LockTypes, PlanFits, AddPC
<1>2. txarg' = [u \in Thread |-> txarg'[u]]
  BY DEF LockInv, LockTypes
<1>3. QED
  BY <1>1, <1>2, Frame DEF ReadInv, Types, ChangePC

\* FastQDump begins.
LEMMA CallDumpLocks ==
  ASSUME ReadInv, LockInv, NEW t \in Thread, NEW i, CallDump(t, i)
  PROVE  LockInv'
<1> USE DEF CallDump, At, Done, Goto, Advance, Over, shared, locals, history, Idle
<1>1. PlanFits(t)'
  BY PlainPlan DEF ReadInv, Types, CallKnows, Working, LockInv, LockTypes, PlanFits, AddPC
<1>2. txarg' = [u \in Thread |-> txarg'[u]]
  BY DEF LockInv, LockTypes
<1>3. QED
  BY <1>1, <1>2, Frame DEF ReadInv, Types, ChangePC

\* FastQCreateModule is called: nobody changes a module that is not registered.
LEMMA CallCreateLocks ==
  ASSUME ReadInv, LockInv, NEW t \in Thread, NEW i \in Module, NEW rxset, NEW txset,
         CallCreate(t, i, rxset, txset)
  PROVE  LockInv'
<1> USE DEF CallCreate, At, Done, Goto, Advance, Over, shared, locals, history, Idle
<1>1. None \notin Thread
  BY CallsAssumption
<1>2. /\ LockTypes'
      /\ \A u \in Thread \ {t} : /\ pc'[u] = pc[u] /\ todo'[u] = todo[u]
                                /\ m'[u] = m[u] /\ p'[u] = p[u]
                                /\ txarg'[u] = txarg[u]
  BY <1>1 DEF ReadInv, Types, LockInv, LockTypes
<1>3. OneChanges' /\ StatusFits'
  <2>1. pc[t] \notin ChangePC /\ pc'[t] \in ChangePC /\ m'[t] = i
    BY DEF ReadInv, Types, ChangePC
  <2>2. \A u \in Thread : pc[u] \in ChangePC => m[u] # i
    BY DEF ReadInv, CallKnows, Reading, ChangePC
  <2>3. QED
    BY <1>2, <2>1, <2>2, ChangeBegins
<1>4. OwnersKnown'
  <2>1. \A j \in Module : rxlock[j] # t /\ txlock[j] # t
    BY DEF LockInv, OwnersKnown
  <2>2. QED
    BY <1>2, <2>1, OwnersKept
<1>5. PlanFits(t)'
  BY PlainPlan DEF ReadInv, Types, CallKnows, Working, LockInv, LockTypes, PlanFits, AddPC
<1>6. \A u \in Thread : PlanFits(u)'
  BY <1>2, <1>5, OthersFit
<1>7. QED
  BY <1>2, <1>3, <1>4, <1>6 DEF LockInv

\* FastQAddSet sets the status, which was OK: nobody changes the module.
LEMMA AddModifyLocks ==
  ASSUME ReadInv, LockInv, NEW t \in Thread, AddModify(t)
  PROVE  LockInv'
<1> USE DEF AddModify, At, Done, Goto, Advance, Over, shared, locals, history, Idle
<1>1. None \notin Thread /\ m[t] \in Module
  BY CallsAssumption, WhoWaits DEF Reading
<1>2. /\ LockTypes'
      /\ \A u \in Thread \ {t} : /\ pc'[u] = pc[u] /\ todo'[u] = todo[u]
                                /\ m'[u] = m[u] /\ p'[u] = p[u]
                                /\ txarg'[u] = txarg[u]
  BY <1>1 DEF ReadInv, Types, LockInv, LockTypes
<1>3. OneChanges' /\ StatusFits'
  <2>1. pc[t] \notin ChangePC /\ pc'[t] \in ChangePC /\ m'[t] = m[t]
    BY DEF ReadInv, Types, ChangePC
  <2>2. \A u \in Thread : pc[u] \in ChangePC => m[u] # m[t]
    BY DEF LockInv, StatusFits
  <2>3. QED
    BY <1>1, <1>2, <2>1, <2>2, ChangeBegins
<1>4. OwnersKnown'
  <2>1. \A i \in Module : rxlock[i] # t /\ txlock[i] # t
    BY DEF LockInv, OwnersKnown
  <2>2. QED
    BY <1>2, <2>1, OwnersKept
<1>5. PlanFits(t)'
  BY PlainPlan DEF ReadInv, Types, CallKnows, Working, LockInv, LockTypes, PlanFits, AddPC
<1>6. \A u \in Thread : PlanFits(u)'
  BY <1>2, <1>5, OthersFit
<1>7. QED
  BY <1>2, <1>3, <1>4, <1>6 DEF LockInv

\* FastQCreateModule returns.
LEMMA CreateReturnLocks ==
  ASSUME ReadInv, LockInv, NEW t \in Thread, CreateReturn(t)
  PROVE  LockInv'
<1> USE DEF CreateReturn, At, Done, Goto, Advance, Over, shared, locals, history, Idle
<1>1. None \notin Thread /\ m[t] \in Module
  BY CallsAssumption, WhoWaits DEF Reading
<1>2. /\ LockTypes'
      /\ \A u \in Thread \ {t} : /\ pc'[u] = pc[u] /\ todo'[u] = todo[u]
                                /\ m'[u] = m[u] /\ p'[u] = p[u]
                                /\ txarg'[u] = txarg[u]
  BY <1>1 DEF ReadInv, Types, LockInv, LockTypes
<1>3. OneChanges' /\ StatusFits'
  <2>1. pc[t] \in ChangePC /\ pc'[t] \notin ChangePC
    BY DEF ReadInv, Types, ChangePC
  <2>2. QED
    BY <1>1, <1>2, <2>1, ChangeEnds
<1>4. OwnersKnown'
  <2>1. \A i \in Module : rxlock[i] # t /\ txlock[i] # t
    BY DEF LockInv, OwnersKnown
  <2>2. QED
    BY <1>2, <2>1, OwnersKept
<1>5. PlanFits(t)'
  BY PlainPlan DEF ReadInv, Types, CallKnows, Working, LockInv, LockTypes, PlanFits, AddPC
<1>6. \A u \in Thread : PlanFits(u)'
  BY <1>2, <1>5, OthersFit
<1>7. QED
  BY <1>2, <1>3, <1>4, <1>6 DEF LockInv

\* FastQAddSet returns.
LEMMA AddReturnLocks ==
  ASSUME ReadInv, LockInv, NEW t \in Thread, AddReturn(t)
  PROVE  LockInv'
<1> USE DEF AddReturn, At, Done, Goto, Advance, Over, shared, locals, history, Idle
<1>1. None \notin Thread /\ m[t] \in Module
  BY CallsAssumption, WhoWaits DEF Reading
<1>2. /\ LockTypes'
      /\ \A u \in Thread \ {t} : /\ pc'[u] = pc[u] /\ todo'[u] = todo[u]
                                /\ m'[u] = m[u] /\ p'[u] = p[u]
                                /\ txarg'[u] = txarg[u]
  <2>1. \A u \in Thread \ {t} : /\ pc'[u] = pc[u] /\ todo'[u] = todo[u]
                                /\ m'[u] = m[u] /\ p'[u] = p[u]
                                /\ txarg'[u] = txarg[u]
    BY <1>1 DEF ReadInv, Types, LockInv, LockTypes
  <2>2. LockTypes'
    BY <1>1 DEF ReadInv, Types, LockInv, LockTypes
  <2>3. QED
    BY <2>1, <2>2
<1>3. OneChanges' /\ StatusFits'
  <2>1. pc[t] \in ChangePC /\ pc'[t] \notin ChangePC
    BY DEF ReadInv, Types, ChangePC
  <2>2. QED
    BY <1>1, <1>2, <2>1, ChangeEnds
<1>4. OwnersKnown'
  <2>1. \A i \in Module : rxlock[i] # t /\ txlock[i] # t
    BY DEF LockInv, OwnersKnown
  <2>2. QED
    BY <1>2, <2>1, OwnersKept
<1>5. PlanFits(t)'
  <2>1. pc'[t] = "idle" /\ todo'[t] = << >>
    BY DEF ReadInv, Types
  <2>2. QED
    BY ONLY <2>1, PlainPlan DEF PlanFits, AddPC
<1>6. \A u \in Thread : PlanFits(u)'
  BY <1>2, <1>5, OthersFit
<1>7. QED
  BY <1>2, <1>3, <1>4, <1>6 DEF LockInv

\* FastQAddSet takes the tx.rwlock of the peer.
LEMMA LockPeerLocks ==
  ASSUME ReadInv, LockInv, NEW t \in Thread, LockPeer(t)
  PROVE  LockInv'
<1> USE DEF LockPeer, At, Done, Goto, Advance, Over, shared, locals, history, Idle
<1>1. None \notin Thread
  BY CallsAssumption
<1>2. /\ LockTypes'
      /\ \A u \in Thread \ {t} : /\ pc'[u] = pc[u] /\ todo'[u] = todo[u]
                                /\ m'[u] = m[u] /\ p'[u] = p[u]
                                /\ txarg'[u] = txarg[u]
  <2>1. \A u \in Thread \ {t} : /\ pc'[u] = pc[u] /\ todo'[u] = todo[u]
                                /\ m'[u] = m[u] /\ p'[u] = p[u]
                                /\ txarg'[u] = txarg[u]
    BY DEF ReadInv, Types
  <2>2. LockTypes'
    BY <1>1 DEF LockInv, LockTypes
  <2>3. QED
    BY <2>1, <2>2
<1>3. OneChanges' /\ StatusFits'
  <2>1. /\ pc[t] \in ChangePC <=> pc'[t] \in ChangePC
        /\ m'[t] = m[t]
    BY DEF ReadInv, Types, ChangePC
  <2>2. QED
    BY <1>2, <2>1, ChangersKept
<1>4. OwnersKnown'
  <2>1. Src(t) = p[t] /\ pc[t] = "add rx" /\ pc'[t] = "add rx" /\ p'[t] = p[t] /\ m'[t] = m[t]
    BY WhoWaits
  <2>2. todo'[t] # << >> /\ Head(todo'[t]) \in Held
    <3>1. todo[t] \in AddRests /\ todo[t] # << >> /\ Head(todo[t]) = "lock tx"
      BY <2>1, WhoWaits DEF LockInv, PlanFits, Doing
    <3>2. todo'[t] = Tail(todo[t])
      BY DEF ReadInv, Types
    <3>3. QED
      BY <3>1, <3>2, AddPlanNext DEF Held
  <2>3. /\ rxlock' = rxlock /\ txlock' = [txlock EXCEPT ![p[t]] = t]
        /\ Head(todo[t]) = "lock tx"
    BY <2>1, WhoWaits DEF Doing
  <2>4. \A i \in Module : txlock[i] # t
    BY <2>1, <2>3 DEF LockInv, OwnersKnown, Held
  <2>5. \A i \in Module : rxlock[i] = t => m[t] = i
    BY DEF LockInv, OwnersKnown
  <2>6. \A i \in Module : /\ i # p[t] => txlock'[i] = txlock[i]
                          /\ i = p[t] => txlock'[i] = t
    BY <2>3 DEF LockInv, LockTypes
  <2>7. \A i \in Module, u \in Thread \ {t} :
           (rxlock'[i] = u => rxlock[i] = u) /\ (txlock'[i] = u => txlock[i] = u)
    BY <2>3, <2>6
  <2>8. \A i \in Module : rxlock'[i] = t => pc'[t] = "add rx" /\ m'[t] = i
    BY <2>1, <2>3, <2>5
  <2>9. \A i \in Module : txlock'[i] = t => i = p'[t]
    BY <2>1, <2>4, <2>6
  <2>10. QED
    BY <1>2, <2>1, <2>2, <2>7, <2>8, <2>9, OwnersKept
<1>5. PlanFits(t)'
  <2>1. pc[t] = "add rx" /\ todo[t] \in AddRests /\ todo[t] # << >>
    BY WhoWaits DEF LockInv, PlanFits, Doing
  <2>2. todo'[t] = Tail(todo[t]) /\ pc'[t] = pc[t] /\ txarg'[t] = txarg[t]
    BY DEF ReadInv, Types
  <2>3. QED
    BY <2>1, <2>2, AddPlanNext DEF LockInv, PlanFits, AddPC
<1>6. \A u \in Thread : PlanFits(u)'
  BY <1>2, <1>5, OthersFit
<1>7. QED
  BY <1>2, <1>3, <1>4, <1>6 DEF LockInv

\* FastQAddSet releases it.
LEMMA UnlockPeerLocks ==
  ASSUME ReadInv, LockInv, NEW t \in Thread, UnlockPeer(t)
  PROVE  LockInv'
<1> USE DEF UnlockPeer, At, Done, Goto, Advance, Over, shared, locals, history, Idle
<1>1. None \notin Thread
  BY CallsAssumption
<1>2. /\ LockTypes'
      /\ \A u \in Thread \ {t} : /\ pc'[u] = pc[u] /\ todo'[u] = todo[u]
                                /\ m'[u] = m[u] /\ p'[u] = p[u]
                                /\ txarg'[u] = txarg[u]
  BY <1>1 DEF ReadInv, Types, LockInv, LockTypes
<1>3. OneChanges' /\ StatusFits'
  <2>1. /\ pc[t] \in ChangePC <=> pc'[t] \in ChangePC
        /\ m'[t] = m[t]
    BY DEF ReadInv, Types, ChangePC
  <2>2. QED
    BY <1>2, <2>1, ChangersKept
<1>4. OwnersKnown'
  <2>1. Src(t) = p[t] /\ pc[t] = "add rx" /\ p[t] \in Module
    BY WhoWaits
  <2>2. /\ rxlock' = rxlock /\ txlock' = [txlock EXCEPT ![p[t]] = None]
        /\ pc'[t] = pc[t] /\ m'[t] = m[t]
    BY <2>1
  <2>3. \A i \in Module : (rxlock[i] = t => m[t] = i) /\ (txlock[i] = t => p[t] = i)
    BY <2>1 DEF LockInv, OwnersKnown
  <2>4. \A i \in Module : /\ i # p[t] => txlock'[i] = txlock[i]
                          /\ i = p[t] => txlock'[i] = None
    BY <2>2 DEF LockInv, LockTypes
  <2>5. \A i \in Module : txlock'[i] # t
    BY <1>1, <2>3, <2>4
  <2>6. \A i \in Module, u \in Thread \ {t} :
           (rxlock'[i] = u => rxlock[i] = u) /\ (txlock'[i] = u => txlock[i] = u)
    BY <1>1, <2>2, <2>4
  <2>7. \A i \in Module : rxlock'[i] = t => pc'[t] = "add rx" /\ m'[t] = i
    BY <2>1, <2>2, <2>3
  <2>8. QED
    BY <1>2, <2>5, <2>6, <2>7, OwnersKept
<1>5. PlanFits(t)'
  <2>1. pc[t] = "add rx" /\ todo[t] \in AddRests /\ todo[t] # << >>
    BY WhoWaits DEF LockInv, PlanFits, Doing
  <2>2. todo'[t] = Tail(todo[t]) /\ pc'[t] = pc[t] /\ txarg'[t] = txarg[t]
    BY DEF ReadInv, Types
  <2>3. QED
    BY <2>1, <2>2, AddPlanNext DEF LockInv, PlanFits, AddPC
<1>6. \A u \in Thread : PlanFits(u)'
  BY <1>2, <1>5, OthersFit
<1>7. QED
  BY <1>2, <1>3, <1>4, <1>6 DEF LockInv

\* FastQAddSet releases the module's own rx.rwlock.
LEMMA AddUnlockRxLocks ==
  ASSUME ReadInv, LockInv, NEW t \in Thread, AddUnlockRx(t)
  PROVE  LockInv'
<1> USE DEF AddUnlockRx, At, Done, Goto, Advance, Over, shared, locals, history, Idle
<1>1. None \notin Thread /\ m[t] \in Module
  BY CallsAssumption, WhoWaits DEF Reading
<1>2. /\ LockTypes'
      /\ \A u \in Thread \ {t} : /\ pc'[u] = pc[u] /\ todo'[u] = todo[u]
                                /\ m'[u] = m[u] /\ p'[u] = p[u]
                                /\ txarg'[u] = txarg[u]
  BY <1>1 DEF ReadInv, Types, LockInv, LockTypes
<1>3. OneChanges' /\ StatusFits'
  <2>1. /\ pc[t] \in ChangePC <=> pc'[t] \in ChangePC
        /\ m'[t] = m[t]
    BY DEF ReadInv, Types, ChangePC
  <2>2. QED
    BY <1>2, <2>1, ChangersKept
<1>4. OwnersKnown'
  <2>1. \A i \in Module : (rxlock[i] = t => m[t] = i) /\ txlock[i] # t
    BY DEF LockInv, OwnersKnown
  <2>2. \A i \in Module : /\ i # m[t] => rxlock'[i] = rxlock[i]
                          /\ i = m[t] => rxlock'[i] = None
    BY DEF LockInv, LockTypes
  <2>3. /\ \A i \in Module : rxlock'[i] # t
        /\ \A i \in Module, u \in Thread \ {t} : rxlock'[i] = u => rxlock[i] = u
    BY <1>1, <2>1, <2>2
  <2>4. QED
    BY <1>2, <2>1, <2>3, OwnersKept
<1>5. PlanFits(t)'
  BY PlainPlan DEF ReadInv, Types, CallKnows, Working, LockInv, LockTypes, PlanFits, AddPC
<1>6. \A u \in Thread : PlanFits(u)'
  BY <1>2, <1>5, OthersFit
<1>7. QED
  BY <1>2, <1>3, <1>4, <1>6 DEF LockInv

\* FastQAddSet takes the module's own tx.rwlock.
LEMMA AddOutwardLocks ==
  ASSUME ReadInv, LockInv, NEW t \in Thread, AddOutward(t)
  PROVE  LockInv'
<1> USE DEF AddOutward, At, Done, Goto, Advance, Over, shared, locals, history, Idle
<1>1. None \notin Thread /\ m[t] \in Module
  BY CallsAssumption, WhoWaits DEF Reading
<1>2. /\ LockTypes'
      /\ \A u \in Thread \ {t} : /\ pc'[u] = pc[u] /\ todo'[u] = todo[u]
                                /\ m'[u] = m[u] /\ p'[u] = p[u]
                                /\ txarg'[u] = txarg[u]
  BY <1>1 DEF ReadInv, Types, LockInv, LockTypes
<1>3. OneChanges' /\ StatusFits'
  <2>1. /\ pc[t] \in ChangePC <=> pc'[t] \in ChangePC
        /\ m'[t] = m[t]
    BY DEF ReadInv, Types, ChangePC
  <2>2. QED
    BY <1>2, <2>1, ChangersKept
<1>4. OwnersKnown'
  <2>1. \A i \in Module : rxlock[i] # t /\ txlock[i] # t
    BY DEF LockInv, OwnersKnown
  <2>2. \A i \in Module : /\ i # m[t] => txlock'[i] = txlock[i]
                          /\ i = m[t] => txlock'[i] = t
    BY DEF LockInv, LockTypes
  <2>3. pc'[t] = "add tx" /\ m'[t] = m[t]
    BY DEF ReadInv, Types
  <2>4. \A i \in Module, u \in Thread \ {t} :
           (rxlock'[i] = u => rxlock[i] = u) /\ (txlock'[i] = u => txlock[i] = u)
    BY <2>2
  <2>5. \A i \in Module : rxlock'[i] # t /\ (txlock'[i] = t => m'[t] = i)
    BY <2>1, <2>2, <2>3
  <2>6. QED
    BY <1>2, <2>3, <2>4, <2>5, OwnersKept
<1>5. PlanFits(t)'
  BY PlainPlan DEF ReadInv, Types, CallKnows, Working, LockInv, LockTypes, PlanFits, AddPC
<1>6. \A u \in Thread : PlanFits(u)'
  BY <1>2, <1>5, OthersFit
<1>7. QED
  BY <1>2, <1>3, <1>4, <1>6 DEF LockInv

\* FastQAddSet releases it and goes on to the next peer.
LEMMA AddUnlockTxLocks ==
  ASSUME ReadInv, LockInv, NEW t \in Thread, AddUnlockTx(t)
  PROVE  LockInv'
<1> USE DEF AddUnlockTx, At, Done, Goto, Advance, Over, shared, locals, history, Idle
<1>1. None \notin Thread /\ m[t] \in Module
  BY CallsAssumption, WhoWaits DEF Reading
<1>2. /\ LockTypes'
      /\ \A u \in Thread \ {t} : /\ pc'[u] = pc[u] /\ todo'[u] = todo[u]
                                /\ m'[u] = m[u] /\ p'[u] = p[u]
                                /\ txarg'[u] = txarg[u]
  BY <1>1 DEF ReadInv, Types, LockInv, LockTypes
<1>3. OneChanges' /\ StatusFits'
  <2>1. /\ pc[t] \in ChangePC <=> pc'[t] \in ChangePC
        /\ m'[t] = m[t]
    BY DEF ReadInv, Types, ChangePC
  <2>2. QED
    BY <1>2, <2>1, ChangersKept
<1>4. OwnersKnown'
  <2>1. \A i \in Module : rxlock[i] # t /\ (txlock[i] = t => m[t] = i)
    BY DEF LockInv, OwnersKnown
  <2>2. \A i \in Module : /\ i # m[t] => txlock'[i] = txlock[i]
                          /\ i = m[t] => txlock'[i] = None
    BY DEF LockInv, LockTypes
  <2>3. /\ \A i \in Module : txlock'[i] # t
        /\ \A i \in Module, u \in Thread \ {t} : txlock'[i] = u => txlock[i] = u
    BY <1>1, <2>1, <2>2
  <2>4. QED
    BY <1>2, <2>1, <2>3, OwnersKept
<1>5. PlanFits(t)'
  BY PlainPlan DEF ReadInv, Types, CallKnows, Working, LockInv, LockTypes, PlanFits, AddPC
<1>6. \A u \in Thread : PlanFits(u)'
  BY <1>2, <1>5, OthersFit
<1>7. QED
  BY <1>2, <1>3, <1>4, <1>6 DEF LockInv

\* FastQAddSet turns to a peer, and takes the module's own rx.rwlock for it.
LEMMA AddInwardLocks ==
  ASSUME ReadInv, LockInv, NEW t \in Thread, AddInward(t)
  PROVE  LockInv'
<1> USE DEF At, Goto
<1>1. /\ pc[t] = "add peer" /\ todo[t] = << >> /\ UNCHANGED <<status, txlock, m, txarg>>
      /\ \/ /\ Advance(t) /\ UNCHANGED <<pc, rxlock, todo>>
         \/ /\ rxlock' = [rxlock EXCEPT ![m[t]] = t] /\ rxlock[m[t]] \in {None, t}
            /\ pc' = [pc EXCEPT ![t] = "add rx"] /\ UNCHANGED p
            /\ todo' = [todo EXCEPT ![t] = AddPlan] \/ todo' = [todo EXCEPT ![t] = << >>]
  BY DEF AddInward, AddPeer, AddPlan, Free
<1>2. None \notin Thread /\ m[t] \in Module /\ txarg' = [u \in Thread |-> txarg'[u]]
  BY <1>1, CallsAssumption, WhoWaits DEF Reading, LockInv, LockTypes
<1>3. CASE Advance(t) /\ UNCHANGED <<pc, rxlock, todo>>
  <2>1. PlanFits(t)'
    BY <1>1, <1>3 DEF LockInv, PlanFits
  <2>2. QED
    BY <1>1, <1>2, <1>3, <2>1, Frame DEF Advance, ReadInv, Types
<1>4. CASE /\ rxlock' = [rxlock EXCEPT ![m[t]] = t] /\ rxlock[m[t]] \in {None, t}
           /\ pc' = [pc EXCEPT ![t] = "add rx"] /\ UNCHANGED p
           /\ todo' = [todo EXCEPT ![t] = AddPlan] \/ todo' = [todo EXCEPT ![t] = << >>]
  <2>1. /\ LockTypes'
        /\ \A u \in Thread \ {t} : /\ pc'[u] = pc[u] /\ todo'[u] = todo[u]
                                   /\ m'[u] = m[u] /\ p'[u] = p[u]
                                   /\ txarg'[u] = txarg[u]
        /\ pc'[t] = "add rx" /\ todo'[t] \in {AddPlan, << >>}
    BY <1>1, <1>2, <1>4 DEF ReadInv, Types, LockInv, LockTypes
  <2>2. OneChanges' /\ StatusFits'
    BY <1>1, <2>1, ChangersKept DEF ChangePC
  <2>3. OwnersKnown'
    <3>1. \A i \in Module : rxlock[i] # t /\ txlock[i] # t
      BY <1>1 DEF LockInv, OwnersKnown
    <3>2. \A i \in Module : /\ i # m[t] => rxlock'[i] = rxlock[i]
                            /\ i = m[t] => rxlock'[i] = t
      BY <1>4 DEF LockInv, LockTypes
    <3>3. \A i \in Module, u \in Thread \ {t} :
             (rxlock'[i] = u => rxlock[i] = u) /\ (txlock'[i] = u => txlock[i] = u)
      BY <1>1, <3>2
    <3>4. \A i \in Module : txlock'[i] # t /\ (rxlock'[i] = t => m'[t] = i)
      BY <1>1, <3>1, <3>2
    <3>5. QED
      BY <2>1, <3>3, <3>4, OwnersKept
  <2>4. PlanFits(t)'
    <3>1. txarg[t] = {}
      BY <1>1 DEF LockInv, PlanFits, AddPC
    <3>2. QED
      BY <1>1, <2>1, <3>1, AddPlanStart DEF PlanFits
  <2>5. \A u \in Thread : PlanFits(u)'
    BY <2>1, <2>4, OthersFit
  <2>6. QED
    BY <2>1, <2>2, <2>3, <2>5 DEF LockInv
<1>5. QED
  BY <1>1, <1>3, <1>4

\* At the beginning no lock is held and no module is changed.
LEMMA InitLockInv == Init => LockInv
<1> SUFFICES ASSUME Init PROVE LockInv
  OBVIOUS
<1>1. LockTypes /\ OneChanges /\ StatusFits
  BY DEF Init, LockTypes, OneChanges, StatusFits, ChangePC
<1>2. OwnersKnown
  BY CallsAssumption DEF Init, OwnersKnown
<1>3. \A t \in Thread : pc[t] = "idle" /\ todo[t] = << >>
  BY DEF Init
<1>4. \A t \in Thread : PlanFits(t)
  BY <1>3, PlainPlan DEF PlanFits, AddPC
<1>5. QED
  BY <1>1, <1>2, <1>4 DEF LockInv

\* A step in which nothing changes.
LEMMA LockStutter ==
  ASSUME LockInv, UNCHANGED vars
  PROVE  LockInv'
<1> USE DEF vars, shared, locals
<1>1. LockTypes' /\ OneChanges' /\ StatusFits'
  BY DEF LockInv, LockTypes, OneChanges, StatusFits
<1>2. OwnersKnown'
  <2>1. /\ OwnersKnown
        /\ pc' = pc /\ m' = m /\ p' = p /\ todo' = todo /\ rxlock' = rxlock /\ txlock' = txlock
    BY DEF LockInv
  <2> DEFINE Owner(pcs, ps, plans, v, i) ==
        pcs[v] = "add rx" /\ ps[v] = i /\ plans[v] # << >> /\ Head(plans[v]) \in Held
  <2>2. /\ \A i \in Module, t \in Thread : rxlock[i] = t => pc[t] = "add rx" /\ m[t] = i
        /\ \A i \in Module, t \in Thread : txlock[i] = t =>
             (pc[t] = "add tx" /\ m[t] = i) \/ Owner(pc, p, todo, t, i)
    BY <2>1 DEF OwnersKnown
  <2>3. /\ \A i \in Module, t \in Thread : rxlock'[i] = t => pc'[t] = "add rx" /\ m'[t] = i
        /\ \A i \in Module, t \in Thread : txlock'[i] = t =>
             (pc'[t] = "add tx" /\ m'[t] = i) \/ Owner(pc', p', todo', t, i)
    <3> HIDE DEF Owner
    <3> QED BY ONLY <2>1, <2>2, Zenon
  <2>4. QED
    BY ONLY <2>3 DEF OwnersKnown
<1>3. \A t \in Thread : PlanFits(t)'
  BY DEF LockInv, PlanFits
<1>4. QED
  BY <1>1, <1>2, <1>3 DEF LockInv

\* Every step keeps the invariant, if FastQAddSet gets no txset.
LEMMA LockInvStep ==
  ASSUME AddTxSets \subseteq {{}}, ReadInv, LockInv, [Next]_vars
  PROVE  LockInv'
<1>1. ASSUME NEW t \in Thread, OnPair(t) PROVE LockInv'
  BY <1>1, LoadSetLocks, StoreSetLocks, StoreRingLocks, LockPeerLocks, UnlockPeerLocks
     DEF OnPair
<1>2. ASSUME NEW t \in Thread, Create(t) PROVE LockInv'
  BY <1>2, CallCreateLocks, CopyRxLocks, CopyTxLocks, StoreSizeLocks, CreatePeerLocks,
     CreateOutwardLocks, CreateNextLocks, CreateReturnLocks DEF Create
<1>3. ASSUME NEW t \in Thread, Add(t) PROVE LockInv'
  <2>1. ASSUME NEW i \in Module, NEW rxset \in Sets, NEW txset \in AddTxSets,
               CallAddSet(t, i, rxset, txset)
        PROVE  LockInv'
    <3>1. txset = {}
      OBVIOUS
    <3>2. QED
      BY <2>1, <3>1, CallAddSetLocks
  <2>2. QED
    BY <1>3, <2>1, AddModifyLocks, AddInwardLocks, AddUnlockRxLocks, AddOutwardLocks,
       AddUnlockTxLocks, AddReturnLocks DEF Add
<1>4. ASSUME NEW t \in Thread, Send(t) PROVE LockInv'
  BY <1>4, CallSendLocks, FindRingLocks, SendReturnLocks DEF Send
<1>5. ASSUME NEW t \in Thread, Reader(t) PROVE LockInv'
  BY <1>5, CallStatLocks, CallDumpLocks, ReadPairLocks, ReadEndLocks, ReadReturnLocks
     DEF Reader
<1>6. CASE UNCHANGED vars
  BY <1>6, LockStutter
<1>7. QED
  BY <1>1, <1>2, <1>3, <1>4, <1>5, <1>6 DEF Next

-----------------------------------------------------------------------------
(* Somebody goes on.                                                       *)

\* The owner of a tx.rwlock never waits.
LEMMA TxOwnerGoesOn ==
  ASSUME ReadInv, LockInv, NEW i \in Module, NEW o \in Thread, txlock[i] = o
  PROVE  pc[o] # "idle" /\ ~Waits(o)
<1>1. ~Doing(o, "lock rx")
  BY WhoWaits
<1>2. \/ pc[o] = "add tx" /\ todo[o] = << >>
      \/ pc[o] = "add rx" /\ todo[o] # << >> /\ Head(todo[o]) \in Held
  <2>1. \A j \in Module, t \in Thread : txlock[j] = t =>
           \/ pc[t] = "add tx" /\ m[t] = j
           \/ pc[t] = "add rx" /\ p[t] = j /\ todo[t] # << >> /\ Head(todo[t]) \in Held
    BY DEF LockInv, OwnersKnown
  <2>2. pc[o] = "add tx" => todo[o] = << >>
    BY DEF LockInv, PlanFits
  <2>3. QED
    BY <2>1, <2>2
<1>3. QED
  BY <1>1, <1>2 DEF Waits, At, Doing, Held

\* So who waits for a tx.rwlock waits for a thread that goes on.
LEMMA TxFreed ==
  ASSUME ReadInv, LockInv, NEW t \in Thread, NEW i \in Module, ~Free(txlock[i], t)
  PROVE  \E u \in Thread : pc[u] # "idle" /\ ~Waits(u)
<1>1. txlock[i] \in Thread
  BY DEF LockInv, LockTypes, Free
<1>2. QED
  BY <1>1, TxOwnerGoesOn

\* The owner of an rx.rwlock waits for a tx.rwlock at most.
LEMMA RxFreed ==
  ASSUME ReadInv, LockInv, NEW t \in Thread, NEW i \in Module, ~Free(rxlock[i], t)
  PROVE  \E u \in Thread : pc[u] # "idle" /\ ~Waits(u)
<1>1. PICK o \in Thread : rxlock[i] = o
  BY DEF LockInv, LockTypes, Free
<1>2. pc[o] = "add rx"
  BY <1>1 DEF LockInv, OwnersKnown
<1>3. CASE Waits(o)
  <2>1. Doing(o, "lock tx") /\ ~Free(txlock[Src(o)], o)
    BY <1>2, <1>3, WhoWaits DEF Waits, At
  <2>2. Src(o) \in Module
    BY <1>2, <2>1, WhoWaits
  <2>3. QED
    BY <2>1, <2>2, TxFreed
<1>4. CASE ~Waits(o)
  BY <1>2, <1>4
<1>5. QED
  BY <1>3, <1>4

\* Whatever lock a thread waits for, somebody goes on.
LEMMA LocksFreed ==
  ASSUME ReadInv, LockInv, NEW t \in Thread, Waits(t), pc[t] # "add spin"
  PROVE  \E u \in Thread : pc[u] # "idle" /\ ~Waits(u)
<1>1. ~Doing(t, "lock rx")
  BY WhoWaits
<1>2. CASE Doing(t, "lock tx") /\ ~Free(txlock[Src(t)], t)
  <2>1. Src(t) \in Module
    BY <1>2, WhoWaits
  <2>2. QED
    BY <1>2, <2>1, TxFreed
<1>3. CASE /\ pc[t] \in {"create sets", "create tx set", "add peer", "add between"}
           /\ ~Free(rxlock[m[t]], t) \/ ~Free(txlock[m[t]], t)
  <2>1. m[t] \in Module
    BY <1>3, WhoWaits DEF Reading
  <2>2. QED
    BY <1>3, <2>1, TxFreed, RxFreed
<1>4. QED
  BY <1>1, <1>2, <1>3 DEF Waits, At

\* Who waits for the status waits for a thread that is changing the module,
\* which waits for a lock at most.
LEMMA SomeoneGoesOn ==
  ASSUME ReadInv, LockInv
  PROVE  CallsProceed
<1> SUFFICES ASSUME NEW t \in Thread, pc[t] # "idle"
             PROVE  \E u \in Thread : pc[u] # "idle" /\ ~Waits(u)
  BY DEF CallsProceed
<1>1. CASE ~Waits(t)
  BY <1>1
<1>2. CASE Waits(t) /\ pc[t] # "add spin"
  BY <1>2, LocksFreed
<1>3. CASE Waits(t) /\ pc[t] = "add spin"
  <2>1. status[m[t]] # "OK"
    <3>1. ~Doing(t, "lock tx") /\ ~Doing(t, "lock rx")
      BY <1>3, WhoWaits
    <3>2. QED
      BY <1>3, <3>1 DEF Waits, At
  <2>2. m[t] \in Module
    BY <1>3, WhoWaits DEF Reading
  <2>3. PICK u \in Thread : pc[u] \in ChangePC /\ m[u] = m[t]
    BY <2>1, <2>2 DEF LockInv, StatusFits
  <2>4. pc[u] # "idle" /\ pc[u] # "add spin"
    BY <2>3 DEF ChangePC
  <2>5. QED
    BY <2>4, LocksFreed
<1>4. QED
  BY <1>1, <1>2, <1>3

-----------------------------------------------------------------------------
(* The types of the data.                                                  *)

\* The sets, the arguments and the counters.
DataTypes ==
  /\ sized \subseteq registered
  /\ rx \in [Module -> SUBSET Source] /\ tx \in [Source -> SUBSET Source]
  /\ word \in [Thread -> SUBSET Source]
  /\ rxarg \in [Thread -> SUBSET Source] /\ txarg \in [Thread -> SUBSET Source]
  /\ last \in [Thread -> 0 .. N]
  /\ m \in [Thread -> 0 .. N + 1] /\ p \in [Thread -> 0 .. N + 1]

\* The modules and the counters of the loops are numbers up to N and N + 1.
LEMMA Numbers ==
  /\ N \in Nat \ {0} /\ 0 \in 0 .. N + 1 /\ 1 \in 0 .. N + 1 /\ N \in 0 .. N
  /\ \A i \in Module : i \in 0 .. N /\ i \in 0 .. N + 1 /\ i \in Source
  /\ \A i \in Nat : i <= N => i \in 0 .. N + 1 /\ i + 1 \in 0 .. N + 1
BY CallsAssumption DEF Module, Source

\* The modules a call is at work on.
LEMMA CallPlaces ==
  ASSUME ReadInv, NEW t \in Thread
  PROVE  /\ pc[t] \notin Reading \cup {"idle"} => m[t] \in Module
         /\ pc[t] \notin Reading \cup {"idle"} \cup SendPC => m[t] \in registered
         /\ pc[t] \in Working \cup {"add between", "send"} => p[t] \in Module
         /\ todo[t] # << >> => Dst(t) \in Module /\ Src(t) \in Module
         /\ pc[t] \in {"stat", "dump"} => p[t] <= N
BY DEF ReadInv, Types, CallKnows, ReaderKnows, Working, Reading, SendPC, Dst, Src

\* MOD_SET loads the word.
LEMMA LoadSetTypes ==
  ASSUME ReadInv, DataTypes, NEW t \in Thread, LoadSet(t)
  PROVE  DataTypes'
BY Numbers, CallPlaces
   DEF LoadSet, DataTypes, At, Doing, Done, Goto, Advance, Over, Idle, shared, locals,
       history, Reading, Working

\* The ring of the pair is stored.
LEMMA StoreRingTypes ==
  ASSUME ReadInv, DataTypes, NEW t \in Thread, StoreRing(t)
  PROVE  DataTypes'
BY Numbers, CallPlaces
   DEF StoreRing, DataTypes, At, Doing, Done, Goto, Advance, Over, Idle, shared, locals,
       history, Reading, Working

\* FastQAddSet takes the tx.rwlock of the peer.
LEMMA LockPeerTypes ==
  ASSUME ReadInv, DataTypes, NEW t \in Thread, LockPeer(t)
  PROVE  DataTypes'
BY Numbers, CallPlaces
   DEF LockPeer, DataTypes, At, Doing, Done, Goto, Advance, Over, Idle, shared, locals,
       history, Reading, Working

\* FastQAddSet releases it.
LEMMA UnlockPeerTypes ==
  ASSUME ReadInv, DataTypes, NEW t \in Thread, UnlockPeer(t)
  PROVE  DataTypes'
BY Numbers, CallPlaces
   DEF UnlockPeer, DataTypes, At, Doing, Done, Goto, Advance, Over, Idle, shared, locals,
       history, Reading, Working

\* FastQCreateModule copies the rxset.
LEMMA CopyRxTypes ==
  ASSUME ReadInv, DataTypes, NEW t \in Thread, CopyRx(t)
  PROVE  DataTypes'
BY Numbers, CallPlaces
   DEF CopyRx, DataTypes, At, Doing, Done, Goto, Advance, Over, Idle, shared, locals,
       history, Reading, Working

\* FastQCreateModule copies the txset.
LEMMA CopyTxTypes ==
  ASSUME ReadInv, DataTypes, NEW t \in Thread, CopyTx(t)
  PROVE  DataTypes'
BY Numbers, CallPlaces
   DEF CopyTx, DataTypes, At, Doing, Done, Goto, Advance, Over, Idle, shared, locals,
       history, Reading, Working

\* FastQCreateModule stores the size.
LEMMA StoreSizeTypes ==
  ASSUME ReadInv, DataTypes, NEW t \in Thread, StoreSize(t)
  PROVE  DataTypes'
BY Numbers, CallPlaces
   DEF StoreSize, DataTypes, At, Doing, Done, Goto, Advance, Over, Idle, shared, locals,
       history, Reading, Working, SendPC

\* FastQCreateModule turns to the ring to the peer.
LEMMA CreateOutwardTypes ==
  ASSUME ReadInv, DataTypes, NEW t \in Thread, CreateOutward(t)
  PROVE  DataTypes'
BY Numbers, CallPlaces
   DEF CreateOutward, DataTypes, At, Doing, Done, Goto, Advance, Over, Idle, shared, locals,
       history, Reading, Working

\* FastQCreateModule returns.
LEMMA CreateReturnTypes ==
  ASSUME ReadInv, DataTypes, NEW t \in Thread, CreateReturn(t)
  PROVE  DataTypes'
BY Numbers, CallPlaces
   DEF CreateReturn, DataTypes, At, Doing, Done, Goto, Advance, Over, Idle, shared, locals,
       history, Reading, Working

\* FastQAddSet sets the status.
LEMMA AddModifyTypes ==
  ASSUME ReadInv, DataTypes, NEW t \in Thread, AddModify(t)
  PROVE  DataTypes'
BY Numbers, CallPlaces
   DEF AddModify, DataTypes, At, Doing, Done, Goto, Advance, Over, Idle, shared, locals,
       history, Reading, Working

\* FastQAddSet releases the module's own rx.rwlock.
LEMMA AddUnlockRxTypes ==
  ASSUME ReadInv, DataTypes, NEW t \in Thread, AddUnlockRx(t)
  PROVE  DataTypes'
BY Numbers, CallPlaces
   DEF AddUnlockRx, DataTypes, At, Doing, Done, Goto, Advance, Over, Idle, shared, locals,
       history, Reading, Working

\* FastQAddSet takes the module's own tx.rwlock.
LEMMA AddOutwardTypes ==
  ASSUME ReadInv, DataTypes, NEW t \in Thread, AddOutward(t)
  PROVE  DataTypes'
BY Numbers, CallPlaces
   DEF AddOutward, DataTypes, At, Doing, Done, Goto, Advance, Over, Idle, shared, locals,
       history, Reading, Working

\* FastQAddSet returns.
LEMMA AddReturnTypes ==
  ASSUME ReadInv, DataTypes, NEW t \in Thread, AddReturn(t)
  PROVE  DataTypes'
BY Numbers, CallPlaces
   DEF AddReturn, DataTypes, At, Doing, Done, Goto, Advance, Over, Idle, shared, locals,
       history, Reading, Working

\* A send looks for the ring of its pair.
LEMMA FindRingTypes ==
  ASSUME ReadInv, DataTypes, NEW t \in Thread, FindRing(t)
  PROVE  DataTypes'
BY Numbers, CallPlaces
   DEF FindRing, DataTypes, At, Doing, Done, Goto, Advance, Over, Idle, shared, locals,
       history, Reading, Working

\* A send returns.
LEMMA SendReturnTypes ==
  ASSUME ReadInv, DataTypes, NEW t \in Thread, SendReturn(t)
  PROVE  DataTypes'
BY Numbers, CallPlaces
   DEF SendReturn, DataTypes, At, Doing, Done, Goto, Advance, Over, Idle, shared, locals,
       history, Reading, Working

\* FastQMsgStatInfo begins.
LEMMA CallStatTypes ==
  ASSUME ReadInv, DataTypes, NEW t \in Thread, CallStat(t)
  PROVE  DataTypes'
BY Numbers, CallPlaces
   DEF CallStat, DataTypes, At, Doing, Done, Goto, Advance, Over, Idle, shared, locals,
       history, Reading, Working

\* A reader comes to the end of its loops.
LEMMA ReadEndTypes ==
  ASSUME ReadInv, DataTypes, NEW t \in Thread, ReadEnd(t)
  PROVE  DataTypes'
BY Numbers, CallPlaces
   DEF ReadEnd, DataTypes, At, Doing, Done, Goto, Advance, Over, Idle, shared, locals,
       history, Reading, Working

\* A reader returns.
LEMMA ReadReturnTypes ==
  ASSUME ReadInv, DataTypes, NEW t \in Thread, ReadReturn(t)
  PROVE  DataTypes'
BY Numbers, CallPlaces
   DEF ReadReturn, DataTypes, At, Doing, Done, Goto, Advance, Over, Idle, shared, locals,
       history, Reading, Working

\* FastQCreateModule is called.
LEMMA CallCreateTypes ==
  ASSUME ReadInv, DataTypes, NEW t \in Thread, NEW i \in Module,
         NEW rxset \in SUBSET Source, NEW txset \in SUBSET Source,
         CallCreate(t, i, rxset, txset)
  PROVE  DataTypes'
BY Numbers, CallPlaces
   DEF CallCreate, DataTypes, At, Doing, Done, Goto, Advance, Over, Idle, shared, locals,
       history, Reading, Working

\* FastQAddSet is called without a txset.
LEMMA CallAddSetTypes ==
  ASSUME ReadInv, DataTypes, NEW t \in Thread, NEW i \in Module,
         NEW rxset \in SUBSET Source, NEW txset \in SUBSET Source,
         CallAddSet(t, i, rxset, txset)
  PROVE  DataTypes'
BY Numbers, CallPlaces
   DEF CallAddSet, DataTypes, At, Doing, Done, Goto, Advance, Over, Idle, shared, locals,
       history, Reading, Working

\* A send is called.
LEMMA CallSendTypes ==
  ASSUME ReadInv, DataTypes, NEW t \in Thread, NEW s \in Module, NEW d \in Module,
         CallSend(t, s, d)
  PROVE  DataTypes'
BY Numbers, CallPlaces
   DEF CallSend, DataTypes, At, Doing, Done, Goto, Advance, Over, Idle, shared, locals,
       history, Reading, Working

\* FastQDump begins.
LEMMA CallDumpTypes ==
  ASSUME ReadInv, DataTypes, NEW t \in Thread, NEW i, CallDump(t, i)
  PROVE  DataTypes'
BY Numbers, CallPlaces
   DEF CallDump, DataTypes, At, Doing, Done, Goto, Advance, Over, Idle, shared, locals,
       history, Reading, Working

\* The next peer is at most N + 1.
LEMMA AdvanceTypes ==
  ASSUME p \in [Thread -> 0 .. N + 1], NEW t \in Thread, p[t] <= N, Advance(t)
  PROVE  p' \in [Thread -> 0 .. N + 1]
<1>1. p[t] \in Nat /\ p[t] + 1 \in 0 .. N + 1
  BY Numbers
<1>2. QED
  BY <1>1 DEF Advance

\* FastQCreateModule turns to a peer.
LEMMA CreatePeerTypes ==
  ASSUME ReadInv, DataTypes, NEW t \in Thread, CreatePeer(t)
  PROVE  DataTypes'
<1> USE DEF CreatePeer, At, Goto, Over, shared, history
<1>1. p[t] \in Nat /\ p[t] <= N
  <2>1. p[t] \in Nat /\ N \in Nat /\ ~(p[t] > N)
    BY CallsAssumption DEF ReadInv, Types
  <2> HIDE DEF CreatePeer
  <2>2. QED
    BY <2>1
<1>2. p' \in [Thread -> 0 .. N + 1]
  BY <1>1, AdvanceTypes DEF DataTypes
<1>3. QED
  BY <1>2 DEF DataTypes

\* FastQCreateModule goes on to the next peer.
LEMMA CreateNextTypes ==
  ASSUME ReadInv, DataTypes, NEW t \in Thread, CreateNext(t)
  PROVE  DataTypes'
<1> USE DEF CreateNext, At, Goto, Over, shared, history
<1>1. p[t] \in Nat /\ p[t] <= N
  <2>1. p[t] \in Module /\ N \in Nat
    BY CallsAssumption, CallPlaces DEF Working
  <2> HIDE DEF CreateNext
  <2>2. QED
    BY <2>1 DEF Module
<1>2. p' \in [Thread -> 0 .. N + 1]
  BY <1>1, AdvanceTypes DEF DataTypes
<1>3. QED
  BY <1>2 DEF DataTypes

\* FastQAddSet releases it and goes on to the next peer.
LEMMA AddUnlockTxTypes ==
  ASSUME ReadInv, DataTypes, NEW t \in Thread, AddUnlockTx(t)
  PROVE  DataTypes'
<1> USE DEF AddUnlockTx, At, Goto, Over, shared, history
<1>1. p[t] \in Nat /\ p[t] <= N
  <2>1. p[t] \in Module /\ N \in Nat
    BY CallsAssumption, CallPlaces DEF Working
  <2> HIDE DEF AddUnlockTx
  <2>2. QED
    BY <2>1 DEF Module
<1>2. p' \in [Thread -> 0 .. N + 1]
  BY <1>1, AdvanceTypes DEF DataTypes
<1>3. QED
  BY <1>2 DEF DataTypes

\* FastQAddSet turns to a peer.
LEMMA AddInwardTypes ==
  ASSUME ReadInv, DataTypes, NEW t \in Thread, AddInward(t)
  PROVE  DataTypes'
<1> USE DEF AddInward, At, Goto, Over, shared, history, AddPeer
<1>1. p[t] \in Nat /\ p[t] <= N
  <2>1. p[t] \in Nat /\ N \in Nat /\ ~(p[t] > N)
    BY CallsAssumption DEF ReadInv, Types
  <2> HIDE DEF AddInward, AddPeer
  <2>2. QED
    BY <2>1
<1>2. p' \in [Thread -> 0 .. N + 1]
  BY <1>1, AdvanceTypes DEF DataTypes
<1>3. QED
  BY <1>2 DEF DataTypes

\* MOD_SET stores it.
LEMMA StoreSetTypes ==
  ASSUME ReadInv, DataTypes, NEW t \in Thread, StoreSet(t)
  PROVE  DataTypes'
<1> USE DEF StoreSet, history
<1>1. Dst(t) \in Module /\ Src(t) \in Module /\ Dst(t) \in Source /\ Src(t) \in Source
  BY Numbers, CallPlaces DEF Doing
<1>2. word[t] \cup {Src(t)} \in SUBSET Source /\ word[t] \cup {Dst(t)} \in SUBSET Source
  BY <1>1 DEF DataTypes
<1>3. rx \in [Module -> SUBSET Source] /\ tx \in [Source -> SUBSET Source]
  BY DEF DataTypes
<1>4. \/ UNCHANGED rx
      \/ rx' = [rx EXCEPT ![Dst(t)] = word[t] \cup {Src(t)}]
  OBVIOUS
<1>5. \/ UNCHANGED tx
      \/ tx' = [tx EXCEPT ![Src(t)] = word[t] \cup {Dst(t)}]
  OBVIOUS
<1>6. word' \in [Thread -> SUBSET Source]
  BY DEF DataTypes
<1>7. rx' \in [Module -> SUBSET Source]
  <2> HIDE DEF StoreSet
  <2> QED BY <1>1, <1>2, <1>3, <1>4
<1>8. tx' \in [Source -> SUBSET Source]
  <2> HIDE DEF StoreSet
  <2> QED BY <1>1, <1>2, <1>3, <1>5
<1>9. QED
  BY <1>6, <1>7, <1>8 DEF DataTypes

\* A reader passes a pair.
LEMMA ReadPairTypes ==
  ASSUME ReadInv, DataTypes, NEW t \in Thread, ReadPair(t)
  PROVE  DataTypes'
<1> USE DEF ReadPair, Read, shared
<1>1. p[t] \in Nat /\ p[t] <= N /\ m[t] \in Nat /\ m[t] <= N
  <2>1. p[t] \in Nat /\ m[t] \in Nat /\ N \in Nat /\ last[t] \in 0 .. N
    BY CallsAssumption DEF ReadInv, Types, DataTypes
  <2>2. p[t] <= N
    BY CallPlaces
  <2>3. QED
    BY <2>1, <2>2
<1>2. m[t] + 1 \in 0 .. N + 1 /\ 0 \in 0 .. N + 1
  BY <1>1, Numbers
<1>3. Advance(t) => p' \in [Thread -> 0 .. N + 1]
  BY <1>1, AdvanceTypes DEF DataTypes
<1>4. p' \in [Thread -> 0 .. N + 1] /\ m' \in [Thread -> 0 .. N + 1]
  BY <1>2, <1>3 DEF DataTypes
<1>5. QED
  BY <1>4 DEF DataTypes

\* At the beginning everything is empty.
LEMMA InitDataTypes == Init => DataTypes
BY Numbers DEF Init, DataTypes

\* Every step keeps the types.
LEMMA DataTypesStep ==
  ASSUME ReadInv, DataTypes, [Next]_vars
  PROVE  DataTypes'
<1>0. \A S \in Sets : S \in SUBSET Source
  BY CallsAssumption
<1>1. \A S \in AddTxSets : S \in SUBSET Source
  BY Numbers, CallsAssumption
<1>2. ASSUME NEW t \in Thread, OnPair(t) PROVE DataTypes'
  BY <1>2, LoadSetTypes, StoreSetTypes, StoreRingTypes, LockPeerTypes, UnlockPeerTypes
     DEF OnPair
<1>3. ASSUME NEW t \in Thread, Create(t) PROVE DataTypes'
  BY <1>0, <1>3, CallCreateTypes, CopyRxTypes, CopyTxTypes, StoreSizeTypes, CreatePeerTypes,
     CreateOutwardTypes, CreateNextTypes, CreateReturnTypes DEF Create
<1>4. ASSUME NEW t \in Thread, Add(t) PROVE DataTypes'
  BY <1>0, <1>1, <1>4, CallAddSetTypes, AddModifyTypes, AddInwardTypes, AddUnlockRxTypes,
     AddOutwardTypes, AddUnlockTxTypes, AddReturnTypes DEF Add
<1>5. ASSUME NEW t \in Thread, Send(t) PROVE DataTypes'
  BY <1>5, CallSendTypes, FindRingTypes, SendReturnTypes DEF Send
<1>6. ASSUME NEW t \in Thread, Reader(t) PROVE DataTypes'
  BY <1>6, CallStatTypes, CallDumpTypes, ReadPairTypes, ReadEndTypes, ReadReturnTypes
     DEF Reader
<1>7. CASE UNCHANGED vars
  BY <1>7 DEF vars, shared, locals, DataTypes
<1>8. QED
  BY <1>2, <1>3, <1>4, <1>5, <1>6, <1>7 DEF Next

\* One thread changes a module at a time, counted.
LEMMA OneChanger ==
  ASSUME LockInv, NEW i \in Module
  PROVE  Cardinality(Changing(i)) <= 1
<1>1. \A t \in Thread : t \in Changing(i) <=> pc[t] \in ChangePC /\ m[t] = i
  BY DEF Changing, ChangePC
<1>2. CASE Changing(i) = {}
  BY <1>2, FS_EmptySet
<1>3. CASE Changing(i) # {}
  <2>1. PICK t \in Thread : t \in Changing(i)
    BY <1>3 DEF Changing
  <2>2. Changing(i) = {t}
    <3>1. \A u \in Thread : u \in Changing(i) => u = t
      BY <1>1, <2>1 DEF LockInv, OneChanges
    <3>2. QED
      BY <2>1, <3>1 DEF Changing
  <2>3. Cardinality({t}) = 1
    BY FS_Singleton
  <2>4. QED
    BY <2>2, <2>3
<1>4. QED
  BY <1>2, <1>3

\* The property follows.
LEMMA ConsistentState ==
  ASSUME ReadInv, LockInv, DataTypes
  PROVE  CallsInv
<1>1. TypeOK
  BY DEF ReadInv, Types, LockInv, LockTypes, DataTypes, TypeOK
<1>2. ASSUME NEW i \in Module
      PROVE  /\ Cardinality(Changing(i)) <= 1
             /\ status[i] = "MODIFY" <=> Changing(i) # {}
             /\ rxlock[i] # None => rxlock[i] \in Changing(i) /\ pc[rxlock[i]] = "add rx"
             /\ txlock[i] # None =>
                  LET t == txlock[i] IN
                  \/ t \in Changing(i) /\ pc[t] = "add tx"
                  \/ /\ pc[t] = "add rx" /\ p[t] = i
                     /\ Head(todo[t]) \in {"load tx", "store tx", "unlock tx"}
  <2>1. \A t \in Thread : t \in Changing(i) <=> pc[t] \in ChangePC /\ m[t] = i
    BY DEF Changing, ChangePC
  <2>2. Cardinality(Changing(i)) <= 1
    BY OneChanger
  <2>3. status[i] = "MODIFY" => Changing(i) # {}
    <3>1. ASSUME status[i] = "MODIFY" PROVE Changing(i) # {}
      <4>1. PICK t \in Thread : pc[t] \in ChangePC /\ m[t] = i
        BY <3>1 DEF LockInv, StatusFits
      <4>2. QED
        BY <2>1, <4>1
    <3>2. QED
      BY <3>1
  <2>4. Changing(i) # {} => status[i] = "MODIFY"
    <3>1. \A t \in Changing(i) : t \in Thread
      BY DEF Changing
    <3>2. QED
      BY <2>1, <3>1 DEF LockInv, StatusFits
  <2>5. ASSUME NEW t \in Thread, rxlock[i] = t
        PROVE  t \in Changing(i) /\ pc[t] = "add rx"
    <3>1. \A j \in Module, u \in Thread : rxlock[j] = u => pc[u] = "add rx" /\ m[u] = j
      BY DEF LockInv, OwnersKnown
    <3>2. QED
      BY <2>1, <2>5, <3>1 DEF ChangePC
  <2>6. ASSUME NEW t \in Thread, txlock[i] = t
        PROVE  \/ t \in Changing(i) /\ pc[t] = "add tx"
               \/ pc[t] = "add rx" /\ p[t] = i /\ Head(todo[t]) \in Held
    <3>1. \A j \in Module, u \in Thread : txlock[j] = u =>
             \/ pc[u] = "add tx" /\ m[u] = j
             \/ pc[u] = "add rx" /\ p[u] = j /\ todo[u] # << >> /\ Head(todo[u]) \in Held
      BY DEF LockInv, OwnersKnown
    <3>2. QED
      BY <2>1, <2>6, <3>1 DEF ChangePC
  <2>7. rxlock[i] \in Thread \cup {None} /\ txlock[i] \in Thread \cup {None}
    BY DEF LockInv, LockTypes
  <2>8. QED
    BY <2>2, <2>3, <2>4, <2>5, <2>6, <2>7 DEF Held
<1>3. QED
  BY <1>1, <1>2 DEF CallsInv

-----------------------------------------------------------------------------
\* The status and the locks fit what the threads are doing: one call changes a
\* module, and locks are held inside such a call only.
THEOREM CallsConsistent ==
  ASSUME AddTxSets \subseteq {{}}
  PROVE  Spec => []CallsInv
<1>1. ReadInv /\ LockInv /\ [Next]_vars => LockInv'
  BY LockInvStep
<1>2. ReadInv /\ DataTypes /\ [Next]_vars => DataTypes'
  BY DataTypesStep
<1>3. ReadInv /\ LockInv /\ DataTypes => CallsInv
  BY ConsistentState
<1>4. QED
  BY InitReadInv, ReadInvStep, InitLockInv, InitDataTypes, <1>1, <1>2, <1>3, PTL DEF Spec

\* The status and the locks of FastQCreateModule and FastQAddSet block nobody
\* for good: as long as a thread is in a call, one of those that are goes on.
THEOREM CallsGoOn ==
  ASSUME AddTxSets \subseteq {{}}
  PROVE  Spec => []CallsProceed
<1>1. ReadInv /\ LockInv /\ [Next]_vars => LockInv'
  BY LockInvStep
<1>2. ReadInv /\ LockInv => CallsProceed
  BY SomeoneGoesOn
<1>3. QED
  BY InitReadInv, ReadInvStep, InitLockInv, <1>1, <1>2, PTL DEF Spec
=============================================================================
