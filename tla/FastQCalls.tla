----------------------------- MODULE FastQCalls -----------------------------
(***************************************************************************)
(* Calls of the interface that overlap: FastQCreateModule, FastQAddSet,    *)
(* sends that find no ring yet, and the readers FastQMsgStatInfo and       *)
(* FastQDump, each in the steps in which it touches what all modules       *)
(* share.  FastQRegistry has the same calls, and FastQDeleteModule, one    *)
(* at a time and with all their arguments.                                 *)
(*                                                                         *)
(* Making the ring of a pair takes the same few operations everywhere, in  *)
(* an order of its own in each call: MOD_SET on rx.set of the destination  *)
(* and on tx.set of the source, each of them a load and a store of a word  *)
(* that others use as well, the ring itself, and in FastQAddSet the locks. *)
(* A thread carries the operations it still has to do for a pair in        *)
(* `todo`.                                                                 *)
(*                                                                         *)
(* Clients send to modules whose creation has returned, as fastq.h:222     *)
(* asks, one thread for each source.  The source may be a module that is   *)
(* not created, if it is one of Strays: the sends by ID of test.c:71 go on *)
(* while test.c:351 has deleted their module.  FastQAddSet is called       *)
(* whenever its module is created, during sends as well.  Modules are      *)
(* created one at a time: the comment at fastq.c:313 has a lock for it,    *)
(* which only FastQDeleteModule takes.                                     *)
(*                                                                         *)
(* A thread that takes a rwlock it owns already gets EDEADLK, which        *)
(* nobody looks at, and goes on: so glibc does it.                         *)
(***************************************************************************)
EXTENDS Integers, Sequences, FiniteSets

CONSTANTS
  N,        \* FASTQ_ID_MAX
  Sets,     \* the sets of modules that clients pass
  AddTxSets, \* those that they pass to FastQAddSet as the txset
  DumpIDs,  \* the values of module_id that they pass to FastQDump
  Thread,   \* the threads that call
  None,     \* no thread
  BufSize,  \* buf_mod_size of FastQMsgStatInfo
  Strays    \* the modules from which is sent whether they are created or not

Module == 1 .. N
Source == 0 .. N

ASSUME CallsAssumption ==
  /\ N \in Nat \ {0} /\ BufSize \in Nat \ {0}
  /\ Sets \subseteq SUBSET Source /\ AddTxSets \subseteq SUBSET Module
  /\ DumpIDs \subseteq Nat /\ None \notin Thread /\ Strays \subseteq Module

VARIABLES
  registered,      \* already_register
  status,          \* "OK" or "MODIFY"
  rx, tx,          \* rx.set and tx.set
  rxlock, txlock,  \* the owners of their rwlocks
  sized,           \* the modules whose ring_size is stored
  ring,            \* ring[d][s]: "none", "sized", or "unsized" if it was made
                   \* with ring_size 0
  pc,              \* where each thread is
  m, p,            \* the module of its call, and the peer or destination
  rxarg, txarg,    \* the arguments of FastQCreateModule, FastQAddSet
  todo,            \* what it still does for the pair of m and p
  word,            \* the set it has loaded
  last,            \* FastQDump: the last module it prints
  bufIdx,          \* FastQMsgStatInfo: the number of pairs reported
  created,         \* history: the modules whose creation has returned
  asked,           \* history: the pairs declared by FastQCreateModule, and by
                   \* FastQAddSet between modules that exist
  unseen           \* history: what a reader has not reported of the rings that
                   \* were there when it began

shared  == <<registered, status, rx, tx, rxlock, txlock, sized, ring>>
locals  == <<m, p, rxarg, txarg, todo, word, last, bufIdx>>
history == <<created, asked, unseen>>
vars == <<shared, pc, locals, history>>

Init ==
  /\ registered = {} /\ sized = {}
  /\ status = [i \in Module |-> "OK"]
  /\ rx = [i \in Module |-> {}] /\ tx = [i \in Source |-> {}]
  /\ rxlock = [i \in Module |-> None] /\ txlock = [i \in Module |-> None]
  /\ ring = [d \in Module |-> [s \in Source |-> "none"]]
  /\ pc = [t \in Thread |-> "idle"]
  /\ m = [t \in Thread |-> 0] /\ p = [t \in Thread |-> 0]
  /\ rxarg = [t \in Thread |-> {}] /\ txarg = rxarg /\ word = rxarg
  /\ todo = [t \in Thread |-> << >>]
  /\ bufIdx = [t \in Thread |-> 0] /\ last = [t \in Thread |-> N]
  /\ created = {} /\ asked = {}
  /\ unseen = [t \in Thread |-> {}]

At(t, here) == pc[t] = here /\ todo[t] = << >>
Goto(t, there) == pc' = [pc EXCEPT ![t] = there]

Pairs == {pair \in Module \X Source : ring[pair[1]][pair[2]] # "none"}

\* The pairs of the FastQAddSet calls in progress.
Adding == UNION {({m[t]} \X rxarg[t]) \cup (txarg[t] \X {m[t]}) : t \in Thread}

\* The next peer of a loop over 1 .. FASTQ_ID_MAX, and the end of the loop.
Advance(t) == p' = [p EXCEPT ![t] = @ + 1]
Over(t) == p[t] > N

\* The pair a thread is at work on: destination and source.
Inward(t) == pc[t] \in {"create rx", "add rx"}
Dst(t) == IF Inward(t) THEN m[t] ELSE p[t]
Src(t) == IF Inward(t) THEN p[t] ELSE m[t]

-----------------------------------------------------------------------------
(* The operations on a pair.                                               *)

Doing(t, op) == todo[t] # << >> /\ Head(todo[t]) = op
Done(t) == todo' = [todo EXCEPT ![t] = Tail(@)]

\* MOD_SET reads the word ...
LoadSet(t) ==
  \/ /\ Doing(t, "load rx")
     /\ word' = [word EXCEPT ![t] = rx[Dst(t)]]
     /\ Done(t)
     /\ UNCHANGED <<shared, pc, m, p, rxarg, txarg, last, bufIdx, history>>
  \/ /\ Doing(t, "load tx")
     /\ word' = [word EXCEPT ![t] = tx[Src(t)]]
     /\ Done(t)
     /\ UNCHANGED <<shared, pc, m, p, rxarg, txarg, last, bufIdx, history>>

\* ... and writes it back with one more bit.
StoreSet(t) ==
  /\ \/ /\ Doing(t, "store rx")
        /\ rx' = [rx EXCEPT ![Dst(t)] = word[t] \cup {Src(t)}]
        /\ UNCHANGED tx
     \/ /\ Doing(t, "store tx")
        /\ tx' = [tx EXCEPT ![Src(t)] = word[t] \cup {Dst(t)}]
        /\ UNCHANGED rx
  /\ word' = [word EXCEPT ![t] = {}]
  /\ Done(t)
  /\ UNCHANGED <<registered, status, rxlock, txlock, sized, ring, pc,
                 m, p, rxarg, txarg, last, bufIdx, history>>

\* __fastq_create_ring: ring_size is read, the ring made, the pointer stored.
StoreRing(t) ==
  /\ Doing(t, "ring")
  /\ ring' = [ring EXCEPT ![Dst(t)][Src(t)] =
                IF Dst(t) \in sized THEN "sized" ELSE "unsized"]
  /\ Done(t)
  /\ UNCHANGED <<registered, status, rx, tx, rxlock, txlock, sized, pc,
                 m, p, rxarg, txarg, word, last, bufIdx, history>>

\* The peer's rwlock in FastQAddSet.
Free(lock, t) == lock \in {None, t}

LockPeer(t) ==
  /\ IF Doing(t, "lock rx")
     THEN /\ Free(rxlock[Dst(t)], t)
          /\ rxlock' = [rxlock EXCEPT ![Dst(t)] = t] /\ UNCHANGED txlock
     ELSE /\ Doing(t, "lock tx") /\ Free(txlock[Src(t)], t)
          /\ txlock' = [txlock EXCEPT ![Src(t)] = t] /\ UNCHANGED rxlock
  /\ Done(t)
  /\ UNCHANGED <<registered, status, rx, tx, sized, ring, pc,
                 m, p, rxarg, txarg, word, last, bufIdx, history>>

UnlockPeer(t) ==
  /\ Doing(t, "unlock tx")
  /\ txlock' = [txlock EXCEPT ![Src(t)] = None]
  /\ Done(t)
  /\ UNCHANGED <<registered, status, rx, tx, rxlock, sized, ring, pc,
                 m, p, rxarg, txarg, word, last, bufIdx, history>>

RxSet == <<"load rx", "store rx">>
TxSet == <<"load tx", "store tx">>
Ring  == <<"ring">>

-----------------------------------------------------------------------------
(* FastQCreateModule.                                                      *)

CallCreate(t, i, rxset, txset) ==
  /\ pc[t] = "idle" /\ i \notin registered
  /\ registered = created
  /\ registered' = registered \cup {i}
  /\ status' = [status EXCEPT ![i] = "MODIFY"]
  /\ asked' = asked \cup {<<i, s>> : s \in rxset \ {i}}
                    \cup {<<d, i>> : d \in (txset \cap Module) \ {i}}
  /\ m' = [m EXCEPT ![t] = i] /\ p' = [p EXCEPT ![t] = 1]
  /\ rxarg' = [rxarg EXCEPT ![t] = rxset] /\ txarg' = [txarg EXCEPT ![t] = txset]
  /\ Goto(t, "create sets")
  /\ UNCHANGED <<rx, tx, rxlock, txlock, sized, ring, todo, word, last, bufIdx,
                 created, unseen>>

\* memcpy of the sets, under their locks.
CopyRx(t) ==
  /\ At(t, "create sets") /\ Free(rxlock[m[t]], t)
  /\ rx' = [rx EXCEPT ![m[t]] = rxarg[t]]
  /\ Goto(t, "create tx set")
  /\ UNCHANGED <<registered, status, tx, rxlock, txlock, sized, ring, locals,
                 history>>

CopyTx(t) ==
  /\ At(t, "create tx set") /\ Free(txlock[m[t]], t)
  /\ tx' = [tx EXCEPT ![m[t]] = txarg[t]]
  /\ Goto(t, "create size")
  /\ UNCHANGED <<registered, status, rx, rxlock, txlock, sized, ring, locals,
                 history>>

\* The sizes, and the ring of source 0, which no other call makes.
StoreSize(t) ==
  /\ At(t, "create size")
  /\ sized' = sized \cup {m[t]}
  /\ ring' = IF 0 \in rx[m[t]] /\ ring[m[t]][0] = "none"
             THEN [ring EXCEPT ![m[t]][0] = "sized"] ELSE ring
  /\ Goto(t, "create peer")
  /\ UNCHANGED <<registered, status, rx, tx, rxlock, txlock, locals, history>>

\* Variant: a peer that declared the pair itself is left to that peer.
CreatePeerOwn(t) ==
  /\ At(t, "create peer") /\ ~Over(t)
  /\ IF p[t] = m[t] \/ p[t] \notin registered
     THEN Advance(t) /\ UNCHANGED <<pc, todo>>
     ELSE /\ Goto(t, "create rx")
          /\ todo' = [todo EXCEPT ![t] =
               IF p[t] \in rx[m[t]] THEN RxSet \o TxSet \o Ring ELSE << >>]
          /\ UNCHANGED p
  /\ UNCHANGED <<shared, m, rxarg, txarg, word, last, bufIdx, history>>

\* The ring from the peer: whether it exists already is not asked.
CreatePeer(t) ==
  /\ At(t, "create peer") /\ ~Over(t)
  /\ IF p[t] = m[t] \/ p[t] \notin registered
     THEN Advance(t) /\ UNCHANGED <<pc, todo>>
     ELSE /\ Goto(t, "create rx")
          /\ todo' = [todo EXCEPT ![t] =
               IF p[t] \in rx[m[t]] \/ m[t] \in tx[p[t]]
               THEN RxSet \o TxSet \o Ring ELSE << >>]
          /\ UNCHANGED p
  /\ UNCHANGED <<shared, m, rxarg, txarg, word, last, bufIdx, history>>

\* The ring to the peer, if there is none.
CreateOutward(t) ==
  /\ At(t, "create rx")
  /\ Goto(t, "create tx")
  /\ todo' = [todo EXCEPT ![t] =
       IF /\ ring[p[t]][m[t]] = "none"
          /\ p[t] \in tx[m[t]] \/ m[t] \in rx[p[t]]
       THEN TxSet \o RxSet \o Ring ELSE << >>]
  /\ UNCHANGED <<shared, m, p, rxarg, txarg, word, last, bufIdx, history>>

CreateNext(t) ==
  /\ At(t, "create tx")
  /\ Advance(t)
  /\ Goto(t, "create peer")
  /\ UNCHANGED <<shared, m, rxarg, txarg, todo, word, last, bufIdx, history>>

Idle(t) ==
  /\ Goto(t, "idle")
  /\ m' = [m EXCEPT ![t] = 0] /\ p' = [p EXCEPT ![t] = 0]
  /\ rxarg' = [rxarg EXCEPT ![t] = {}] /\ txarg' = [txarg EXCEPT ![t] = {}]
  /\ last' = [last EXCEPT ![t] = N]
  /\ UNCHANGED <<todo, word>>

CreateReturn(t) ==
  /\ At(t, "create peer") /\ Over(t)
  /\ status' = [status EXCEPT ![m[t]] = "OK"]
  /\ created' = created \cup {m[t]}
  /\ Idle(t)
  /\ UNCHANGED <<registered, rx, tx, rxlock, txlock, sized, ring, bufIdx,
                 asked, unseen>>

-----------------------------------------------------------------------------
(* FastQAddSet.                                                            *)

CallAddSet(t, i, rxset, txset) ==
  /\ pc[t] = "idle" /\ i \in created
  /\ asked' = asked \cup ({i} \X ((rxset \cap created) \ {i}))
                    \cup (((txset \cap created) \ {i}) \X {i})
  /\ m' = [m EXCEPT ![t] = i] /\ p' = [p EXCEPT ![t] = 1]
  /\ rxarg' = [rxarg EXCEPT ![t] = rxset] /\ txarg' = [txarg EXCEPT ![t] = txset]
  /\ Goto(t, "add spin")
  /\ UNCHANGED <<shared, todo, word, last, bufIdx, created, unseen>>

\* Variant: the store does not wait for the status.
AddModifyNow(t) ==
  /\ At(t, "add spin")
  /\ status' = [status EXCEPT ![m[t]] = "MODIFY"]
  /\ Goto(t, "add peer")
  /\ UNCHANGED <<registered, rx, tx, rxlock, txlock, sized, ring, locals, history>>

\* The compare-and-exchange of status that ends the spinning.
AddModify(t) ==
  /\ At(t, "add spin") /\ status[m[t]] = "OK"
  /\ status' = [status EXCEPT ![m[t]] = "MODIFY"]
  /\ Goto(t, "add peer")
  /\ UNCHANGED <<registered, rx, tx, rxlock, txlock, sized, ring, locals, history>>

(* For a peer that is registered: rx.rwlock of the module, the pair if it  *)
(* is new, and the same for tx.                                            *)
AddPeer(t, ops) ==
  /\ At(t, "add peer") /\ ~Over(t)
  /\ IF p[t] = m[t] \/ p[t] \notin registered
     THEN Advance(t) /\ UNCHANGED <<pc, rxlock, todo>>
     ELSE /\ Free(rxlock[m[t]], t)
          /\ rxlock' = [rxlock EXCEPT ![m[t]] = t]
          /\ Goto(t, "add rx")
          /\ todo' = [todo EXCEPT ![t] = IF p[t] \in rxarg[t] \ rx[m[t]]
                                         THEN ops ELSE << >>]
          /\ UNCHANGED p
  /\ UNCHANGED <<registered, status, rx, tx, txlock, sized, ring,
                 m, rxarg, txarg, word, last, bufIdx, history>>

\* Variant: the peer's tx.rwlock is not released.
AddInwardLocked(t) == AddPeer(t, RxSet \o <<"lock tx">> \o TxSet \o Ring)

AddInward(t) ==
  AddPeer(t, RxSet \o <<"lock tx">> \o TxSet \o <<"unlock tx">> \o Ring)

AddUnlockRx(t) ==
  /\ At(t, "add rx")
  /\ rxlock' = [rxlock EXCEPT ![m[t]] = None]
  /\ Goto(t, "add between")
  /\ UNCHANGED <<registered, status, rx, tx, txlock, sized, ring, locals, history>>

\* The second wrlock of the peer's rx.rwlock, where an unlock should be,
\* changes nothing: the thread owns the lock and keeps it.
AddOutward(t) ==
  /\ At(t, "add between") /\ Free(txlock[m[t]], t)
  /\ txlock' = [txlock EXCEPT ![m[t]] = t]
  /\ Goto(t, "add tx")
  /\ todo' = [todo EXCEPT ![t] = IF p[t] \in txarg[t] \ tx[m[t]]
                                 THEN TxSet \o <<"lock rx">> \o RxSet \o Ring
                                 ELSE << >>]
  /\ UNCHANGED <<registered, status, rx, tx, rxlock, sized, ring,
                 m, p, rxarg, txarg, word, last, bufIdx, history>>

AddUnlockTx(t) ==
  /\ At(t, "add tx")
  /\ txlock' = [txlock EXCEPT ![m[t]] = None]
  /\ Advance(t)
  /\ Goto(t, "add peer")
  /\ UNCHANGED <<registered, status, rx, tx, rxlock, sized, ring,
                 m, rxarg, txarg, todo, word, last, bufIdx, history>>

AddReturn(t) ==
  /\ At(t, "add peer") /\ Over(t)
  /\ status' = [status EXCEPT ![m[t]] = "OK"]
  /\ Idle(t)
  /\ UNCHANGED <<registered, rx, tx, rxlock, txlock, sized, ring, bufIdx, history>>

-----------------------------------------------------------------------------
(* FastQSend(s, d, ...) and FastQTrySend, up to the ring they use.         *)

CallSend(t, s, d) ==
  /\ pc[t] = "idle" /\ s \in created \cup Strays /\ d \in created
  /\ ~\E u \in Thread : m[u] = s /\ pc[u] \in {"send", "enqueue"}
  /\ m' = [m EXCEPT ![t] = s] /\ p' = [p EXCEPT ![t] = d]
  /\ Goto(t, "send")
  /\ UNCHANGED <<shared, rxarg, txarg, todo, word, last, bufIdx, history>>

\* __create_ring_when_send makes the ring before it sets the bits.
FindRing(t) ==
  /\ At(t, "send")
  /\ todo' = [todo EXCEPT ![t] =
       IF ring[p[t]][m[t]] = "none" THEN Ring \o RxSet \o TxSet ELSE << >>]
  /\ Goto(t, "enqueue")
  /\ UNCHANGED <<shared, m, p, rxarg, txarg, word, last, bufIdx, history>>

SendReturn(t) ==
  /\ At(t, "enqueue")
  /\ Idle(t)
  /\ UNCHANGED <<shared, bufIdx, history>>

-----------------------------------------------------------------------------
(* The readers.  FastQDump prints one module or all of them; its sources   *)
(* and those of FastQMsgStatInfo start at 0.                               *)

CallStat(t) ==
  /\ pc[t] = "idle"
  /\ m' = [m EXCEPT ![t] = 1]
  /\ unseen' = [unseen EXCEPT ![t] = Pairs]
  /\ Goto(t, "stat")
  /\ UNCHANGED <<shared, p, rxarg, txarg, todo, word, last, bufIdx,
                 created, asked>>

CallDump(t, i) ==
  /\ pc[t] = "idle"
  /\ LET single == i \in Module IN
     /\ m' = [m EXCEPT ![t] = IF single THEN i ELSE 1]
     /\ last' = [last EXCEPT ![t] = IF single THEN i ELSE N]
     /\ unseen' = [unseen EXCEPT ![t] = {pair \in Pairs : single => pair[1] = i}]
  /\ Goto(t, "dump")
  /\ UNCHANGED <<shared, p, rxarg, txarg, todo, word, bufIdx,
                 created, asked>>

\* One turn of the loops: a module that is not registered is passed over,
\* and FastQMsgStatInfo stops when its buffer is full.
Read(t, skip) ==
  /\ pc[t] \in {"stat", "dump"} /\ m[t] <= last[t]
  /\ LET found == ~skip /\ ring[m[t]][p[t]] # "none"
         counts == found /\ pc[t] = "stat"
     IN
     /\ unseen' = [unseen EXCEPT ![t] = IF found THEN @ \ {<<m[t], p[t]>>} ELSE @]
     /\ bufIdx' = [bufIdx EXCEPT ![t] = IF counts THEN @ + 1 ELSE @]
     /\ IF counts /\ bufIdx[t] + 1 = BufSize THEN Goto(t, "told") ELSE UNCHANGED pc
  /\ IF skip \/ p[t] = N
     THEN m' = [m EXCEPT ![t] = @ + 1] /\ p' = [p EXCEPT ![t] = 0]
     ELSE Advance(t) /\ UNCHANGED m
  /\ UNCHANGED <<shared, rxarg, txarg, todo, word, last,
                 created, asked>>

\* Variant: a module that declared no sources is passed over too.
ReadPairDeclared(t) == Read(t, p[t] = 0 /\ (m[t] \notin registered \/ rx[m[t]] = {}))

ReadPair(t) == Read(t, p[t] = 0 /\ m[t] \notin registered)

ReadEnd(t) ==
  /\ pc[t] \in {"stat", "dump"} /\ m[t] > last[t]
  /\ Goto(t, "told")
  /\ UNCHANGED <<shared, locals, history>>

ReadReturn(t) ==
  /\ At(t, "told")
  /\ bufIdx' = [bufIdx EXCEPT ![t] = 0] /\ unseen' = [unseen EXCEPT ![t] = {}]
  /\ Idle(t)
  /\ UNCHANGED <<shared, created, asked>>

-----------------------------------------------------------------------------
OnPair(t) ==
  LoadSet(t) \/ StoreSet(t) \/ StoreRing(t) \/ LockPeer(t) \/ UnlockPeer(t)

Create(t) ==
  \/ \E i \in Module, rxset, txset \in Sets : CallCreate(t, i, rxset, txset)
  \/ CopyRx(t) \/ CopyTx(t) \/ StoreSize(t) \/ CreatePeer(t)
  \/ CreateOutward(t) \/ CreateNext(t) \/ CreateReturn(t)

Add(t) ==
  \/ \E i \in Module, rxset \in Sets, txset \in AddTxSets :
        CallAddSet(t, i, rxset, txset)
  \/ AddModify(t) \/ AddInward(t) \/ AddUnlockRx(t)
  \/ AddOutward(t) \/ AddUnlockTx(t) \/ AddReturn(t)

Send(t) ==
  \/ \E s, d \in Module : CallSend(t, s, d)
  \/ FindRing(t) \/ SendReturn(t)

Reader(t) ==
  \/ CallStat(t) \/ \E i \in DumpIDs : CallDump(t, i)
  \/ ReadPair(t) \/ ReadEnd(t) \/ ReadReturn(t)

Next == \E t \in Thread : OnPair(t) \/ Create(t) \/ Add(t) \/ Send(t) \/ Reader(t)

Spec == Init /\ [][Next]_vars

-----------------------------------------------------------------------------
TypeOK ==
  /\ created \subseteq registered /\ sized \subseteq registered
  /\ registered \subseteq Module
  /\ status \in [Module -> {"OK", "MODIFY"}]
  /\ rx \in [Module -> SUBSET Source] /\ tx \in [Source -> SUBSET Source]
  /\ rxlock \in [Module -> Thread \cup {None}]
  /\ txlock \in [Module -> Thread \cup {None}]
  /\ ring \in [Module -> [Source -> {"none", "sized", "unsized"}]]
  /\ m \in [Thread -> 0 .. N + 1] /\ p \in [Thread -> 0 .. N + 1]

\* The threads that are changing module i.
Changing(i) ==
  {t \in Thread : m[t] = i /\ pc[t] \in {"create sets", "create tx set", "create size",
     "create peer", "create rx", "create tx",
     "add peer", "add rx", "add between", "add tx"}}

(* A module's status is MODIFY as long as one call changes it, and never   *)
(* two do; a module's own locks are held between the two steps of such a   *)
(* call only, a peer's tx.rwlock for the one MOD_SET of tx.set.            *)
CallsInv ==
  /\ TypeOK
  /\ \A i \in Module :
       /\ Cardinality(Changing(i)) <= 1
       /\ status[i] = "MODIFY" <=> Changing(i) # {}
       /\ rxlock[i] # None => rxlock[i] \in Changing(i) /\ pc[rxlock[i]] = "add rx"
       /\ txlock[i] # None =>
            LET t == txlock[i] IN
            \/ t \in Changing(i) /\ pc[t] = "add tx"
            \/ /\ pc[t] = "add rx" /\ p[t] = i
               /\ Head(todo[t]) \in {"load tx", "store tx", "unlock tx"}

(* A pair that a module declared when it was created, and one that         *)
(* FastQAddSet was asked for between modules that exist, has its ring as   *)
(* soon as the calls that declared it are over, and one that was made with *)
(* the receiver's sizes, whatever bits of the sets are lost to overlapping *)
(* MOD_SETs and whatever is half created meanwhile.  Not so for a source   *)
(* that is sent from while it is not created: a MOD_SET of its tx.set that *)
(* began before the memcpy may undo it.                                    *)
NoPairMissed ==
  \A pair \in asked \ Adding :
    pair[1] \in created /\ pair[2] \in (created \cup {0}) \ Strays
      => ring[pair[1]][pair[2]] = "sized"

(* A send puts its message into the ring that it found or made, and        *)
(* FastQMsgNum adds up the counters of the rings in the table, nr_enqueues *)
(* to the total of fastq.h:319.  So the ring that a send is about to use   *)
(* must stay in the table.                                                 *)
SendersRingStays ==
  \A t, u \in Thread :
    At(t, "enqueue") /\ Doing(u, "ring") => <<Dst(u), Src(u)>> # <<p[t], m[t]>>

(* FastQMsgStatInfo and FastQDump look at the rings one by one while       *)
(* others make more: a ring that was there when they were called is not    *)
(* missed, and they end with all of them or with a full buffer.            *)
StatComplete ==
  \A t \in Thread :
    /\ \A pair \in unseen[t] :
         m[t] < pair[1] \/ (m[t] = pair[1] /\ p[t] <= pair[2])
    /\ bufIdx[t] < BufSize \/ pc[t] = "told"

\* What a thread can wait for: a lock, or the status of its module.
Waits(t) ==
  \/ At(t, "add spin") /\ status[m[t]] # "OK"
  \/ At(t, "create sets") /\ ~Free(rxlock[m[t]], t)
  \/ At(t, "create tx set") /\ ~Free(txlock[m[t]], t)
  \/ /\ At(t, "add peer") /\ ~Over(t) /\ p[t] \in registered \ {m[t]}
     /\ ~Free(rxlock[m[t]], t)
  \/ At(t, "add between") /\ ~Free(txlock[m[t]], t)
  \/ Doing(t, "lock tx") /\ ~Free(txlock[Src(t)], t)
  \/ Doing(t, "lock rx") /\ ~Free(rxlock[Dst(t)], t)

(* The calls do not block each other for good: as long as a thread is in   *)
(* a call, one of those that are does not wait.                            *)
CallsProceed ==
  LET inside == {t \in Thread : pc[t] # "idle"}
  IN inside # {} => \E t \in inside : ~Waits(t)
=============================================================================
