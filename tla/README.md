# A TLA+ model of fastq

fastq is a C library that passes small messages between *modules* of one
process: every pair (source module, destination module) gets a lock-free ring,
an `eventfd` announces the messages, and one thread per module sits in
`FastQRecv`, multiplexes the eventfds of its rings with `select()` (the default
build) or `epoll`, and calls a handler for each message. This directory holds
the TLA+ modules that model it, the TLC configurations that check them and the
TLAPS proofs. `PROJECT.json` maps every definition to the lines it models.

Run `tlc -workers 2 -config <run>.cfg <MC module>.tla` for a run of the table
below and `tlapm <module>.tla` for a `*_proofs` module.

## 1. The system

| Component | State | Operations | What makes it correct |
|---|---|---|---|
| **Message ring** (`fastq.c` 98-117, 388-444, 871-1057) | `_head`, `_tail`, `_size`, the nodes, `nr_enqueue`, `nr_dequeue`, the eventfd | `__FastQSend`, `__FastQRecv`, called by `FastQSend`, `FastQTrySend`, `FastQRecv` | messages arrive whole, once, in order; a sender refuses only a full ring; events and messages stay matched |
| **Module registry** (120-155, 331-382, 483-830, 905-921) | per module: `already_register`, `status`, `rx.set`, `tx.set`, sizes, `_ring[]`, selector, notify eventfd | `FastQCreateModule`, `FastQAddSet`, `FastQDeleteModule`, ring creation by the first send | sets and rings agree; no NULL ring is used, no ring is leaked or left behind |
| **Receive loop** (1069-1167) | local `readset`/`events`, `max_fd`, `cnt`; `_evtfd_to_ring` | `FastQRecv` | every message of every ring is handed over; no lost wakeup; the loop never blocks inside a pass |
| **Statistics and dump** (1188-1343) | the counters of the rings | `FastQMsgNum`, `FastQMsgStatInfo`, `FastQDump` | numbers that a moment of the run could have had; no NULL ring |
| **Module names** (158-229, 754-829, 832-866, the `...ByName` calls) | `dictModuleNameID`, `dict_spinlock`, `name`, `name_attached` | `FastQAttachName`, `FastQDeleteModule`, `FastQSendByName`, `FastQTrySendByName`, `FastQRecvByName` | a name leads to the registered module it was attached to; the dictionary is used by one thread at a time |
| **Name dictionary** (`hiredis/dict.c`) | two hash tables, a rehash index, open iterators | add, replace, delete, find, expand, resize, rehash, iterate, scan, sample | what was added and not deleted is found, walked over and sampled, at every point of a rehash |
| **Strings** (`hiredis/sds.c`) | header (type, length, allocation), buffer | create, grow, shrink, append, copy, cut, split, join, escape, parse | header and buffer agree; no byte is lost when the header changes its type |
| Hash, random numbers, allocator (`siphash`, `mt19937-64`, `zmalloc`) | none of interest | | not modelled |
| Test program (`test.c`) | | creates one receiver and three senders, deletes and creates the senders in a loop, a handler sends to its own module | the source of scenarios |

How they interact. A send looks up `_ring[src]` in the destination's slot of the
registry and creates the ring if it is NULL; then it works on the ring alone and
writes the ring's eventfd. The receive loop reads the readset and maxfd of its
module (which the creators of rings change), finds the ring of a readable eventfd
in `_evtfd_to_ring` and takes as many messages from it as the eventfd counted.
The creator of a ring writes the destination's *notify* eventfd to end a
`select()` that waits on an older copy of the readset. The statistics read the
counters that both threads of a ring keep bumping. The `...ByName` calls go
through the dictionary and then use the ID. The dictionary itself rehashes step by
step, lookups included, but fastq creates it large enough for all modules (line 195),
so that the names never make it do so; `Dict` models it as it stands.

What is hard. Two threads per ring without a lock; a count in the eventfd that is
trusted as a number of messages; readset and maxfd read without the lock their
writers take; bits of deleted modules that stay in their peers' sets; sends that go
on while their module is deleted (`test.c` makes them); interface
calls that publish `already_register` before the rest; deletion while senders and
the receiver hold ring pointers; descriptors that are closed, reused, and still in
a readset. `PROJECT.json` ("hazards") lists each at its line, with the properties
that cover it or the reason why none does.

## 2. The modules

| Module | Models | Checked by | Proved in |
|---|---|---|---|
| `FastQChannel` | abstract: what a ring promises, a bounded FIFO channel with blocking and non-blocking send | `ring` | |
| `FastQRing` | one ring, its eventfd, the sender inside `FastQSend`/`FastQTrySend`, the receiver inside `FastQRecv` | `ring` | `FastQRing_proofs` |
| `FastQRegistry` | the registry, one step per interface call | `registry_safety`, `registry_msg_num`, `registry_self_ring` | `FastQRegistry_proofs` |
| `FastQCalls` | creation, `FastQAddSet`, first sends and the statistics as overlapping calls of several threads | `calls`, `calls_add_set`, `calls_replaced` | `FastQCalls_proofs`, `FastQCallsPairs_proofs` |
| `FastQReceiver` | `FastQRecv` over several rings while they are created | `receiver`, `receiver_add_set` | `FastQReceiver_proofs` |
| `FastQNames` | attaching and removing names, the `...ByName` calls | `names` | `FastQNames_proofs` |
| `Dict` | the hash table with incremental rehashing, iterators, scan and sampling | `dict` | `Dict_proofs` |
| `DictMap` | abstract: a map from keys to values | `dict` | `Dict_proofs` |
| `Sds` | one string with its five header types, through any sequence of calls | `sds` | `Sds_proofs` |
| `SdsParts` | splitting, joining, printing and parsing texts | `sds` | |

The `MC*` modules only define the values of constants for TLC. Operators whose
comment starts with "Variant:" are deliberate mistakes, each beside the
definition it would replace; they are not used by any specification and exist to
show that the property they are paired with notices them.

### FastQRing

The state is the struct's fields plus the locals of the two threads (`sh`, `st`
are `h`, `t` of `__FastQSend`; `rt`, `rh`, `addr`, `cnt` those of the receiver).
Each access to a shared field is one action, in program order:

| Action | Code |
|---|---|
| `SendCall`, `SendLoadHead`, `SendLoadTail` | entry of `FastQSend`/`FastQTrySend`; `h = (_head - 1) & _size`; `t = _tail` and room |
| `SendRefused` | `t == h`: `FastQSend` polls again, `FastQTrySend` returns false |
| `SendCopyHeader`, `SendCopyBody`, `SendCount`, `SendPublish`, `SendNotify` | the memcpy's, `atomic64_inc`, the store of `_tail`, `eventfd_write` |
| `RecvSelect`, `RecvReadEvent`, `RecvNextMessage` | the eventfd is readable; `eventfd_read`; `for (; cnt--;)` |
| `RecvLoadTail`, `RecvLoadHead`, `RecvCopyHeader`, `RecvCopyBody`, `RecvCount`, `RecvPublish`, `RecvHandler` | `__FastQRecv` and the call of the handler |

Locals that are dead are reset, which only keeps the state space small. A message
is one value, copied as header and body, so that a torn copy is visible. The
history variables `pending` (accepted, not yet handled) and `handled` exist for the
properties. `ringData` is a sequence: node `i` of the code is element `Slot(i)`.
Interleaving single accesses is faithful because the code is x86-64 only
(`utils.h:1`): stores of one thread become visible in order, aligned words are
read and written whole, `_head` and `_tail` are volatile, and the copies are kept
in place by the barriers at lines 896 and 1051. The one reordering x86 allows, a
load before an earlier store to another address, concerns at most the load of
`_head` or `_tail` at the start of a call moving before the previous call's last
store; both loops tolerate old values of the other side's index, and the
`eventfd_write`/`eventfd_read` calls (locked kernel operations) lie between
successive calls that succeed. One thread sends for a source and one receives
for a destination, as in `test.c`; the ring is not meant for more.

### FastQRegistry

`rx`, `tx`, `registered`, `shape` (the sizes) and `ring` are the fields of
`_AllModulesRings`; `ring[d][s]` holds the shape the ring was made with, or
`NoRing`. One action is one call, calls do not overlap. The loops over the peers
are stated on sets: iteration `i` touches only what the calling module and peer `i`
keep about each other, so the iterations commute. Kept as they are in the code:
`FastQAddSet` skips peers that are not registered, `FastQCreateModule` tests the
pointer only before it creates a ring towards a peer, `FastQDeleteModule` leaves
the deleted module in its peers' sets, leaves its sizes and skips its ring to
itself. Slot 0 is a source (comment at line 571), never a module. `lost` is a
history variable: pairs whose ring was overwritten.

No send by ID looks whether its ends are registered (905-921, 941-944); the header
asks clients for it (`fastq.h:222`), and `test.c` does not keep to it: its threads
go on sending (71, 77) while `test.c:351` has deleted their modules. The constant
`Strays` is the set of modules from which is sent at any time, registered or not. Such
a send makes the ring and both bits again. When its module is created again, the memcpy
of an empty txset (530) takes one bit away, the other half of the pair is passed over
because the ring exists (661), the next deletion does not find the ring, and
`FastQAddSet` may store another one over it. The properties say what holds all the
same, and for whom: a bit between registered modules has its ring always, so that nothing
is dereferenced that is NULL; that a ring has both bits, joins registered modules, has
the current sizes and is never overwritten is true for all sources but the strays.
The destination of a send is registered, in `test.c` too: before its first creation
a module has `ring_size` 0, for which the ring has no memory to write to.

### FastQReceiver

One module's receive loop and, per source, a thread that creates the ring (through
its first send, `FastQCreateModule` or `FastQAddSet`) and sends. The steps of
`__fastq_create_ring` are separate actions in the order of the code: `OpenEventfd`,
`StoreTlb`, `Watch` (FD_SET under `selector.rwlock`, or `epoll_ctl`), `StoreMaxfd`,
`StoreRing`; then `WriteNotify`. The receiver copies `readset` and `maxfd` in two
steps without the lock, waits, scans upwards (`select`) or in any order (`epoll`),
drains the notify eventfd, or looks the ring up, reads its count and takes that
many messages. `build` is chosen in the initial state. A ring is only the number
of its messages here: that it is a FIFO channel is what `FastQRing` shows. The
enqueue of `FastQSend` is one step, and `FastQTrySend` on a full ring changes
nothing. Descriptors count up from 3; none is closed in this module.

### FastQCalls

The same calls as in `FastQRegistry`, cut into the accesses to what modules share.
Every call that makes a ring for a pair does the same few operations in an order of
its own: the load and the store of `MOD_SET` on `rx.set` and on `tx.set` (two
steps, because the macro is a read-modify-write without a lock), the ring, and in
`FastQAddSet` the locks. A thread carries what it still has to do for the current
pair in `todo`.

| Action | Code |
|---|---|
| `LoadSet`, `StoreSet`, `StoreRing`, `LockPeer`, `UnlockPeer` | `MOD_SET`, `__fastq_create_ring`, the peer's rwlock calls at 728, 730 and 740 (742 changes nothing) |
| `CallCreate`, `CopyRx`, `CopyTx`, `StoreSize`, `CreatePeer`, `CreateOutward`, `CreateNext`, `CreateReturn` | `FastQCreateModule` |
| `CallAddSet`, `AddModify`, `AddInward`, `AddUnlockRx`, `AddOutward`, `AddUnlockTx`, `AddReturn` | `FastQAddSet`; `AddModify` is the compare-and-swap that spins on `status` |
| `CallSend`, `FindRing`, `SendReturn` | `FastQSend` up to the ring, with `__create_ring_when_send` |
| `CallStat`, `CallDump`, `ReadPair`, `ReadEnd`, `ReadReturn` | the loops of `FastQMsgStatInfo` and `FastQDump` |

A ring is "sized" or "unsized", the latter if it was made before the destination
stored its sizes. `created`, `asked` and `unseen` are history
variables. What the environment may do: creations follow one another (the comment
at 313 speaks of a lock for that, which `FastQCreateModule` does not take); one
thread sends for a source, to modules whose creation has returned; the source's has
too, unless it is one of `Strays` (as in `FastQRegistry`); `FastQAddSet` is called
for any pair at any time, also while the pair is sent on or created; nothing is
deleted. The sets of `FastQCreateModule` are never NULL here (`FastQRegistry` has
NULL), and the ring of slot 0 is made in the step that stores the sizes, since no
other call makes it.

`NoPairMissed` leaves strays out as sources: a `MOD_SET` of such a send can begin
before the memcpy of its module's txset and undo it. That takes a third module, so that
the run, with two, would not show it. What the overlap of a first send with
`FastQAddSet` of the same pair does is the question of `calls_replaced`: the one makes
the ring before it sets the bits, the other looks at the bits, and the ring that is
about to be used is replaced. A thread that takes a rwlock it holds already goes on, as
glibc's `EDEADLK` lets it, because the code ignores the result.

### FastQNames

Each module has a manager that creates it, attaches a name and deletes it, in that
order and over and over; clients send and receive by name meanwhile. `dict_spinlock`
is taken and released as in the code, the dictionary is its set of entries, and a
key is the *address* of the copy `strdup` made, so that a freed or leaked copy is
visible. A name that is taken fails the assertion at 203 and ends the process
(`aborted`). The hash takes `sdslen` of strings that are no sds (159): it reads the byte
in front of them. In front of a small chunk of `malloc` that byte is zero, so all
lengths agree; in front of a literal it may be anything, and the name may be looked for
in another bucket. The comparison is `strcasecmp` (173), which is exact up to case.
`String` keeps that byte, and `NamedAreFound` says what it decides. (A call by name
can therefore return false, and it does so for an unknown name as well, although
`fastq.h` documents `FastQSendByName` as polling until it succeeds.)

### Dict and DictMap

The dictionary is one record (`ht[0]`, `ht[1]`, `rehashidx`, `pauserehash`), a call
is a composition of operators on it in the order of the code: `Rehash` with its
limit of empty buckets, the rehash step that finds, adds and deletes do first,
`ExpandIfNeeded`, `AddRaw` into the second table while rehashing, `GenericDelete`,
safe and unsafe iterators, `dictScan` with the reversed cursor over one or two
tables, `dictGetRandomKey`, `dictGetSomeKeys` and `dictGetFairRandomKey`. One walk
at a time is open. An unsafe iterator is used as its comment demands: nothing but
`dictNext` meanwhile. `DictMap` is what a dictionary promises, and `ImplementsMap`
the refinement.

### Sds

One string and any sequence of calls on it. The buffer is a function from offsets to
bytes, `Junk` where nothing was written, and every access behind its end would leave
a buffer with a wrong domain (`HeaderTrue`). `text` follows what the comments
promise. The pure functions that take strings apart and put them together are a
module of their own, `SdsParts`, because they recurse; they are compared with each
other on a bounded set (`PartsMakeWhole`), in the state without a string. Two
oddities of the code are kept: `sdstrim` takes NUL for a member of every set,
because `strchr` finds the terminator, and `sdsIncrLen` by nothing fails its
assertion on a type-5 string, so that it is not called. A trailing `%` in a format
makes `sdscatfmt` read behind the format; formats here have none.

## 3. The runs

| Run | Question | Result |
|---|---|---|
| `ring` | 4 nodes, counters modulo 8, 2 messages: type and index bounds, `EventsMatchMessages`, `RecvNeverSpins`, `HandedInOrder`, `NoNodeRace`, `StatsWithinCapacity`, the inductive invariant; the ring implements `FastQChannel` with fairness, calls return, messages are handled | holds |
| `registry_safety` | 2 modules, one of which sends while it is deleted, and slot 0, 2 shapes: bits have rings, rings have bits, nothing left behind, outdated or overwritten, the inductive invariant | holds |
| `registry_msg_num` | does `FastQMsgNum` only read rings that exist? | **violated**: an `rx.set` may name another module that is not registered |
| `registry_self_ring` | has the ring of a module to itself the module's sizes? | **violated**: it survives deletion with the old sizes |
| `receiver` | 2 sources, both builds, rings created while the loop runs: events match messages, the loop never blocks inside a pass, watched descriptors have rings, no lost wakeup, the inductive invariant; messages are handled, sends return | holds |
| `receiver_add_set` | the same with rings that `FastQAddSet` creates, `select()` build: are messages handled? | **violated**: no notification, the messages stay in the ring |
| `calls` | 2 threads on 2 modules and slot 0: one call at a time changes a module, no declared pair is left without a ring of the right size, readers miss nothing, callers do not block each other for good | holds |
| `calls_add_set` | the same with a txset passed to `FastQAddSet`: do callers proceed? | **violated**: it keeps the peer's `rx.rwlock` (742) |
| `calls_replaced` | does a ring that a send is about to use stay in the table? | **violated**: `FastQAddSet` of the same pair replaces it (732) |
| `names` | 2 modules, 2 names, a client: the dictionary is exclusive, entries, flags and copies agree, names that stay are found, the inductive invariant | holds |
| `dict` | 3 keys, tables of 1 to 8 buckets: the table holds together, lookups, iterators, scans and samples are complete, it implements `DictMap` | holds |
| `sds` | headers of 1, 3, 7 and 15 bytes, texts up to 8: header and buffer agree, no byte is lost, splitting and escaping can be undone | holds |

The violated runs are the `findings` of `PROJECT.json`, with the documentation
they contradict. Type correctness is the first conjunct of the inductive invariants
(`RegistryInv`, `ReceiverInv`, `NamesInv`) and of `CallsInv` and `DictInv`. No run is
needed for msgMax 0 or 1: `__power_of_2` makes it a ring of one node, whose capacity
is zero, so that `FastQSend` polls for ever.

**Bounds and why they are enough.** *Ring*: four nodes let the ring be empty, partly
full and full, and wrap several times; the indices only matter modulo the size and
the proofs cover every size. Counters modulo 8 wrap in the run; the code's wrap at
2^64. Two messages suffice to tell the right from the wrong one. The refinement has
the same four nodes, a channel of capacity three. *Registry*: the records of a pair of
modules depend on no third one, so two modules and slot 0 show every case, and the proof
covers any number. The sets are {}, {1} and {0, 2}: a member may be unregistered, the
module itself or slot 0. One module is a stray and one is not, so that each property is
checked for the pairs it speaks of in the presence of the others; the two violated
runs need no stray and have none. *Receiver*: two sources give contention on the lock, two
rings ready in one pass, and a ring created while another is drained; capacity two
allows a count above one and a full ring. `MaxFd = 5` is exactly notify plus two.
*Calls*: `N = 2` with slot 0 has every kind of pair (two modules, a module with
itself, slot 0); two threads suffice for every overlap of two calls, and what a call leaves
behind meets every later one. Sets are empty or full, a full
one contains what an ID can be wrong about (itself, an unregistered peer, slot 0).
Module 2 is a stray; what two modules do to each other is the same with the
numbers exchanged, so the pairs with source 1 show what holds for the others.
`BufSize = 2` is smaller than the number of rings, so that `FastQMsgStatInfo` also
stops with a full buffer. *Names*: two names with two copies let a name move from
one module to the other, and let both want the same. *Dict*: the constants of the
code are scaled down (`DICT_HT_INITIAL_SIZE` 4 to 1, the ratio that forces growth 5
to 1, 10 empty visits to 2, batches of 100 buckets to 2, cursors of 64 bits to 3),
so that three keys, two of which collide in all tables but the largest, make tables
grow, shrink and skip sizes with a rehash under way. *Sds*: the widths 1, 3, 7, 15 in
place of 31, 2^8-1, 2^16-1, 2^32-1, and a preallocation limit of 4 in place of 1 MB,
let a text of eight bytes pass three boundaries of types and both rules of growth;
two bytes, NUL among them, tell a shifted text from the right one.

**Fairness.** Weak fairness of each thread: the OS schedules it. Nobody is obliged
to call a send. `FastQChannel` asks for strong fairness of `Accept`: the sender
polls (line 945) and the receiver drains the whole ring between two polls at the
latest when the ring is full, which run `ring` confirms from weak fairness
of the two threads. In `FastQReceiver` weak fairness suffices: each creator takes
the lock once.

## 4. The proofs

**Assumptions**: `RingAssumption` (at least one node, counters at least as wide as
the ring), `RegistryAssumption` (the arguments are sets of IDs; markers differ from
values), `ReceiverAssumption`, `NamesAssumption` and `CallsAssumption` (the same for
their constants), `SdsAssumption` (the widths of the header types grow, the arguments
are texts, a piece of a format is a verb with a text or one character),
`DictAssumption` (hash functions give numbers, sizes and limits are positive) and, for scans
only, `CursorAssumption` (the initial size is a power of two, fewer keys than cursors).
TLC checks each in the runs of its module.

**FastQRing_proofs**: `Spec => []RingInv` for every ring size. `RecvNeverSpins`,
`HandedInOrder` and `NoNodeRace` are not inductive: that the receiver finds a
message depends on what the eventfd still owes (`EventsMatchMessages`), on its copy
of `_tail` being at most as far as the real one (`ReceiverInv`), and on the sender's
copy of `_head` being at most as far as the real one (`SenderInv`: the real ring has
at least the room the sender believes in). `RingHoldsPending` says what the occupied
nodes contain and `StatsMatch` relates the wrapping counters to the occupancy.
`RingInv` is their conjunction; one lemma per action shows that it keeps it, over
lemmas on index arithmetic (`DistanceGrows`, `OccupiedNodes`, ...). The theorems
`TypeCorrect`, `EventsAreMessages`, `NeverSpins`, `HandlerInOrder`, `NodesNotShared`
and `StatsInCapacity` follow.

It also proves the refinement `RingImplementsChannel`, `Spec => Channel!Spec`. The queue
is what the occupied nodes hold in ring order, the message in the receiver's hands
is `addr` while it calls the handler. Only `SendLoadHead` (which may be the moment
a full channel is seen), `SendPublish` (accept) and `RecvPublish` (take) and the
ends of the calls move the channel; every other step stutters.

**FastQRegistry_proofs**: `Spec => []RegistryInv` for any number of modules and any
set of strays among them. No single property is inductive: creation looks at the bits of
modules that may have been deleted, so one needs that a deleted module's own sets are
empty (a stray's rx.set, while its sends may fill its tx.set), that no ring
joins it to another module unless it is a stray's, and that between registered modules a
bit has its ring, and a ring its bits. Then the unchecked creation in
`FastQCreateModule` and `FastQAddSet` never overwrites a ring of a source that keeps to
the contract, and deletion never meets NULL, whoever sends.

**FastQReceiver_proofs**: `Spec => []ReceiverInv` for any number of sources and any
capacity. That the loop never blocks in `eventfd_read` rests on a pass having
collected only descriptors whose count nobody else takes (`PassSound`) and on every
source using a descriptor of its own (`OneOwner`, `Progress`); that a message is
announced rests on the account of each counter (`Counted`: what is in the eventfd,
what the receiver holds and what is still to be written are the messages in the
ring). `NoLostWakeup` needs `Covered`: while the receiver is about to wait, a ring
that its copy of the readset or of maxfd misses has a notification that is written
or still to be written. It is proved for creators that send one, `WakeupIsKept`
assumes that `FastQAddSet` is not among them in the `select()` build, which is what
`receiver_add_set` shows to be necessary.

**FastQNames_proofs**: `Spec => []NamesInv` for any sets of modules, names, copies and
clients: the thread in a critical section is the owner of the lock (`LockHeld`), the
manager is the only one to change what its module has (`ManagersKnow`), a copy has
one owner (`CopiesOwned`), so an entry has one too (`EntriesOwned`), and a name that
is attached during a call stays with its bearer until the call returns
(`ClientKnows`). `DictionaryIsExclusive`, `NamesDoAgree` and `AttachedNamesAreFound`
follow.

**FastQCalls_proofs**: `StatIsComplete` for any number of modules and threads. A
reader that passes over a module that is not registered misses no ring because
rings are only made for registered destinations (`MadeByRegistered`), which depends
on what every call knows of its module and its peer (`CallKnows`); the rest is that
what a reader has still to report lies ahead of it (`ReaderKnows`).

The second section of the module is what `FastQCallsPairs_proofs` needs of the callers:
one creation at a time, and what a call for a pair was asked for (`CallerInv`).

The third section proves `Spec => []CallsInv` and `Spec => []CallsProceed` for any number
of modules and threads and any rxsets, if `AddTxSets` holds the empty set at most. The
assumption is the limit of the code, not of the proof: with a txset `FastQAddSet` keeps
the peer's `rx.rwlock` (742), which run `calls_add_set` shows. The invariant says that
one thread changes a module at a time (`OneChanges`), as its status says
(`StatusFits`), and that a lock is owned only where its release is still ahead
(`OwnersKnown`, `PlanFits`). The owner of a `tx.rwlock` therefore never waits, that of
an `rx.rwlock` waits for a `tx.rwlock` at most, and who spins on a status waits for a
thread that waits for a lock at most: there is no cycle.

**FastQCallsPairs_proofs**: `Spec => []NoPairMissed` for any number of modules and
threads and any rxsets and txsets. The difficulty is that a bit of `rx.set` or `tx.set`
can be lost: `MOD_SET` reads a word and writes it back later, and two of them overlap,
so the code cannot rely on what it finds in a set, nor can the proof. The bits that
matter cannot be lost: what a module declared at its creation is copied into its sets
before any other call can begin a `MOD_SET` of them, so that every word on its way back
contains it (`RxStays`, `TxStays`; not so the tx.set of a stray, whose sends do not wait
for its creation, which is why the theorem leaves strays out as sources), and as long as
the creation that will join the pair is `Ahead` of it, that is where it will find the
bit. A bit that was set otherwise was set together with the ring or by a call with the
ring in its plan (`AtWork`). `KnownMade` says this of every bit that a call may find in
a set, `AskedMade` of every pair that was declared, `Unsized` of the rings that
`FastQAddSet` makes of a module that has no sizes yet, which the creation of that module
makes again. The invariant is in two layers: `PlaceInv` (where the calls are, what is
left of their plans, which locks `FastQAddSet` holds; itself inductive) and on top of it
`PairInv`. Unlike `CallsGoOn` it needs no assumption about `AddTxSets`: a call that is
stuck for ever never gets to the point where the property claims something.

**Sds_proofs**: `Spec => []HeaderTrue` and `Spec => []TextKept` for any header widths
that grow with the type, any preallocation, any texts and formats, and texts of any
length (`MaxLen` only bounds the runs). Between two calls the header fits its block, the
buffer begins with the text and the terminator is behind it (`SdsInv`, from `Holds` and
`Closed`); inside of a call the terminator may be missing, so one lemma per call of
`sds.c` starts from what still holds (`CatHolds`, `ShiftHolds`, `PieceHolds`, ...). What
carries them is that `sdsalloc` never exceeds what the type can hold: `sdssetlen` then
stores a length as it is (`SetLenFits`), and no `memcpy` leaves the block (`WriteFits`).
The places that `sdstrim`, `sdsrange` and `strlen` look for are compared with the texts of
the specification by their characters. `sdscatfmt` is an induction over its format:
the library's induction theorems take an operator and cannot be used here, but that `<` is
well founded on the natural numbers gives a least number of any set
(`LeastNumber`), and with it induction over a set of numbers (`AllNumbers`) and
the values of the recursive functions `Written` and `Texts`.

**Dict_proofs**: `Spec => []DictInv`, `Spec => []LookupFindsAll`,
`Spec => []IteratorExact`, `Spec => []ScanMissesNothing`, `Spec => []SamplingReachesAll` and the refinement `Spec => ImplementsMap` for any keys and values (finitely many or not), any hash
function, any sizes and limits: nothing about `Index` is used but that a key has one
place in a table. The inductive invariant `DictKept` is about the dictionary as a value
(`DictHolds`): each table counts its entries and has a key once, in the bucket of its
hash (`TableHolds`); no key is in both; the buckets before `rehashidx` are empty; both
tables exist during a rehash (`PartsHold`). Each operator of the model keeps that
(`RehashHolds`, `ExpandHolds`, `AddRawHolds`, `ReplacedHolds`, `DeletedHolds`, ...), and
says what it makes of the entries: nothing, if it only resizes or moves (`Same`), or one
key. What changes one chain is reduced to `BucketChanged`. The loops of the code are
recursive functions (`Before`, `PushAll`, the rounds of `Rehash`, `NextPower`); their
values come from an induction over a set of numbers as in `Sds_proofs` (`AllNumbers`),
and that a next bucket exists, from the least of a set (`NextExists`). A step then keeps
the map or changes it as `DictMap` allows (`MapChanged`).
A walk needs a second invariant on top (`WalkKept`). What an iterator has still to
return (`Left`) is the rest of its chain, the buckets behind it and, from the first
table, the second one, all of it entries of the dictionary, with the next entry where
the iterator looks for it (`Placed`). Rehashing is paused, so what the user calls in
between disturbs no other key than the one it adds or takes out
(`CallsUndisturbed`), and `dictNext` takes exactly one key from what is left
(`NextTakes`). A key that stays is thus at every moment either returned or left,
never both, and at the end nothing is left.

`Spec => []SamplingReachesAll` follows from `DictKept` alone. A sample goes around the
buckets of the larger table from any index (`Forth` up to the end, `Around` from the
beginning on). The keys it has are exactly those of the places it has passed
(`Walks`): a place adds what both tables have there (`PlaceVisited`), no key of one place
is in another (`Places`), and what the walk jumps over on its way to `rehashidx` is
empty in both tables (`TargetPlace`). So it has a key twice only if it passes a place twice, which
it does not: once it is around it has as many keys as it was asked for, and ends
(`TargetFresh`, from `PartOfEntries`: different entries are as many as there are only if
they are all). The step of the rehash that comes first is needed: after it a rehash that
goes on has a bucket left to move, so that the jump stays inside the table (`StepAhead`).
The property names the two ways to get less: the walk goes on from a random index
(`Jumps`), or there are more than ten buckets for each key, and `dictGetSomeKeys` gives up.
The run has no table that large, so there it is checked without the second way out.

`Spec => []ScanMissesNothing` has a third invariant (`ScanKept`): while a scan goes on,
every key that was there all the time and whose hash comes before the cursor has been
given to the callback. Cursors are ordered by their reversed bits (`Rev`), as
`dictScan` counts them. In that order the cursors that end in the same m bits follow
each other, whatever m is (`ReversedBlock`), so the bucket of a cursor in a table of 2^m
buckets is a stretch of cursors, and a larger or smaller table only cuts the stretches
finer or coarser. `Increment` gives the first cursor behind the stretch
(`NextCursor`); in the middle of a rehash the loop over the larger table ends at the
first cursor behind the stretch of the smaller one (`ExpansionsPassed`, from the values
of the recursive function `ScanExpansions`, `ExpansionSteps`). A call thus emits every
key between its own cursor and the next (`ScanPasses`), and a scan that is back at 0 has
passed all of them. All this needs tables of a power of two buckets, no more than there
are cursors (`Fits`, kept by every operator that makes or moves a table: `Sizes`).
It follows from `CursorAssumption`: the initial size is a power of two (`DICT_HT_INITIAL_SIZE`
is 4), and there are fewer keys than cursors (2^64 in the code, where every key takes
memory). No other theorem uses that assumption. The lemmas on bits (`BitByBit`,
`ReversedBit`, `SameBits`, `TwiceReversed`) are proved from `rev` as a recursive function.

**Only model-checked**: everything about liveness (`SendReturns`, `EventuallyHandled`, the
fairness part of the refinement); and `SdsParts`, which parses with recursive operators.

## 5. Not modelled

*Undefined or outside*: running out of memory; a failing `eventfd` (its -1 passes the
assertion at 414) and descriptors beyond `FD_SETSIZE`; signals, which end `FastQRecv`
through the -1 of `select()`; the log file; message sizes inside a node and
`__power_of_2`.

*Registry and receive loop*: deletion that overlaps other calls (it frees rings that
others hold pointers to, after which anything can happen; the threads of `test.c` are
exposed to it, of their sends the model has those that begin after the deletion or end
before it); sends to a module that is not registered; creations that overlap
each other; descriptors that are closed and reused (the notify eventfd of a deleted
module stays in its readset); handlers that send, which deadlock on a full ring
without any interleaving. The window in `FastQCreateModule` between publishing
`already_register` and storing the status (518-520) is one step.

*Statistics*: `FastQMsgNum` reads two counters one after the other, and the code
promises no bound on what they show; the text of `FastQDump`.

*Names*: two threads that attach names to one module at the same time, and a build
without assertions.

*Dictionary*: the fingerprint that checks unsafe iterators, `expandAllowed` (NULL in
every `dictType` here), the formatting of its statistics, its benchmark, `dictEmpty`
with an iterator open. fastq itself uses only `dictCreate`, `dictExpand`, `dictAdd`,
`dictDelete` and `dictFind`.

*Strings*: `sdscatvprintf`, conversion of numbers, `sdscmp`, `sdstemplate`.

*Helpers*: siphash, the Mersenne twister and zmalloc are arithmetic on words and
wrappers of malloc; `Dict` is checked for a hash function that is a constant (and proved for every one), and
`Sds` takes an allocator that returns what it is asked for.

## 6. Plan

What would add most, in this order:

1. `FastQDescriptors`: `FastQRegistry` with the descriptors that calls open and close
   (lowest free number, a readset that keeps the closed notify eventfd,
   `_evtfd_to_ring`), composed with a `FastQRecv` of each module.
2. Deletion as one more call of `FastQCalls`, with rings that are freed under their
   users as an explicit error state.
3. Handlers that send, in `FastQReceiver`.
