-------------------------------- MODULE Dict --------------------------------
(***************************************************************************)
(* The hash table of hiredis/dict.c, in which fastq keeps the names of its *)
(* modules: chained buckets, tables whose sizes are powers of two, and a   *)
(* second table into which the entries of the first are moved a bucket at  *)
(* a time, by the calls that happen to come by, while the dictionary is in *)
(* use.  Two ways to walk through it are modelled as well: iterators,      *)
(* which stop the moving (pauserehash), and dictScan, whose cursor must    *)
(* survive any resizing between its calls.                                 *)
(*                                                                         *)
(* The dictionary is one record, d, and a call is a composition of         *)
(* operators on such records, in the order of the code.  A chain is the    *)
(* sequence of its entries, the head first.                                *)
(***************************************************************************)
EXTENDS Integers, SequencesExt

CONSTANTS
  Key,          \* the keys, up to the equality of keyCompare
  Values,       \* Values[k]: the values that clients store under k
  NoKey,        \* a NULL dictEntry pointer
  Hashes,       \* the hash functions checked: functions from Key to Nat
  InitialSize,  \* DICT_HT_INITIAL_SIZE
  ForceRatio,   \* dict_force_resize_ratio
  EmptyVisits,  \* empty buckets dictRehash passes for each bucket it moves
  Batch,        \* buckets dictRehashMilliseconds moves between two looks at
                \* the clock
  Bits,         \* bits of a cursor
  ExpandSizes,  \* the sizes clients pass to dictExpand
  MaxSize       \* bound: the largest table

\* 2^n
Power(n) ==
  LET power[k \in 0 .. n] == IF k = 0 THEN 1 ELSE 2 * power[k - 1]
  IN  power[n]

ASSUME DictAssumption ==
  /\ Hashes \subseteq [Key -> Nat]
  /\ NoKey \notin Key
  /\ {InitialSize, EmptyVisits, Batch, Bits, MaxSize} \subseteq Nat \ {0}
  /\ ForceRatio \in Nat /\ ExpandSizes \subseteq Nat
  /\ MaxSize <= Power(Bits)

\* The tables that dictScan walks: DICT_HT_INITIAL_SIZE is a power of two, and
\* every bucket that the keys can need has a cursor.
ASSUME CursorAssumption ==
  /\ \E i \in 0 .. Bits : InitialSize = Power(i)
  /\ IsFiniteSet(Key) /\ Cardinality(Key) < Power(Bits)

VARIABLES
  hash,       \* hashFunction of the dictType; never changes
  canResize,  \* dict_can_resize
  d,          \* the dict: ht[0], ht[1], rehashidx, pauserehash
  walk,       \* "none", "iterator" or "scan": a walk is under way
  iter,       \* the dictIterator
  cursor,     \* what the last dictScan returned
  stable,     \* history: the keys that were there during the whole walk
  seen, again \* history: the keys the walk returned, and returned twice

walkVars == <<walk, iter, cursor, stable, seen, again>>
vars == <<hash, canResize, d, walkVars>>

-----------------------------------------------------------------------------
(* Tables.                                                                 *)

\* _dictReset
NoTable == [size |-> 0, table |-> << >>, used |-> 0]

EmptyTable(n) == [size |-> n, table |-> [i \in 0 .. n - 1 |-> << >>], used |-> 0]

\* _dictNextPower: the first power of two from InitialSize on.
NextPower(n) ==
  LET double[k \in 0 .. n] ==
        IF k = 0 THEN InitialSize ELSE 2 * double[k - 1]
  IN  double[CHOOSE k \in 0 .. n :
               double[k] >= n /\ \A j \in 0 .. k - 1 : double[j] < n]

IsRehashing(dd) == dd.rehashidx # -1
Size(dd) == dd.ht[0].used + dd.ht[1].used

Entry == UNION {[key : {k}, val : Values[k]] : k \in Key}

\* The entries in the two tables, and their keys.
TableEntries(t) == UNION {ToSet(t.table[j]) : j \in DOMAIN t.table}
Entries(dd) == TableEntries(dd.ht[0]) \cup TableEntries(dd.ht[1])
Keys(dd) == {e.key : e \in Entries(dd)}

\* The tables that a lookup goes through.
Tables(dd) == IF IsRehashing(dd) THEN 0 .. 1 ELSE {0}

\* hash & sizemask
Index(t, k) == hash[k] % t.size

Chain(t, k) == t.table[Index(t, k)]

\* The places in a chain where k is: one at most.
At(chain, k) == {i \in DOMAIN chain : chain[i].key = k}

\* An entry goes to the head of its chain.
Push(t, e) == [t EXCEPT !.table[Index(t, e.key)] = <<e>> \o @, !.used = @ + 1]

\* The numbers of entries in the buckets before each bucket.
Before(t) ==
  LET before[j \in 0 .. t.size] ==
        IF j = 0 THEN 0 ELSE before[j - 1] + Len(t.table[j - 1])
  IN  before

\* _dictGetStatsHt: the buckets in use, the longest chain, and the entries.
Stats(t) ==
  LET len == [j \in DOMAIN t.table |-> Len(t.table[j])]
  IN  [slots       |-> Cardinality({j \in DOMAIN len : len[j] > 0}),
       maxchainlen |-> Max({0} \cup Range(len)),
       totchainlen |-> Before(t)[t.size]]

\* The entries that _dictClear frees: whole chains, until it has freed `used`
\* entries.
Freed(t) ==
  UNION {ToSet(t.table[j]) : j \in {i \in DOMAIN t.table : Before(t)[i] < t.used}}

-----------------------------------------------------------------------------
(* Resizing.                                                               *)

\* _dictExpand.  It refuses during a rehash, and sizes that are too small or
\* change nothing.
ExpandRefuses(dd, n) ==
  \/ IsRehashing(dd) \/ dd.ht[0].used > n
  \/ NextPower(n) = dd.ht[0].size

Expand(dd, n) ==
  IF ExpandRefuses(dd, n) THEN dd
  ELSE IF dd.ht[0].size = 0
       THEN [dd EXCEPT !.ht[0] = EmptyTable(NextPower(n))]
       ELSE [dd EXCEPT !.ht[1] = EmptyTable(NextPower(n)), !.rehashidx = 0]

\* _dictExpandIfNeeded
ExpandIfNeeded(dd) ==
  LET t == dd.ht[0] IN
  IF IsRehashing(dd) THEN dd
  ELSE IF t.size = 0 THEN Expand(dd, InitialSize)
  ELSE IF t.used >= t.size /\ (canResize \/ t.used \div t.size > ForceRatio)
       THEN Expand(dd, t.used + 1) ELSE dd

\* The table without the chain of bucket i.
Emptied(t, i) == [t EXCEPT !.table[i] = << >>, !.used = @ - Len(t.table[i])]

\* Variant: the index is set past the bucket, whose chain is moved without
\* its tail.
MoveHeadOnly(dd, i) ==
  [dd EXCEPT !.ht[0] = Emptied(@, i),
             !.ht[1] = Push(@, Head(dd.ht[0].table[i])),
             !.rehashidx = i + 1]

\* The table with the entries of a chain pushed to it, the head first.
PushAll(t, chain) ==
  LET pushed[n \in 0 .. Len(chain)] ==
        IF n = 0 THEN t ELSE Push(pushed[n - 1], chain[n])
  IN  pushed[Len(chain)]

\* Moves the chain of bucket i to the second table.
MoveBucket(dd, i) ==
  [dd EXCEPT !.ht[0] = Emptied(@, i),
             !.ht[1] = PushAll(@, dd.ht[0].table[i]),
             !.rehashidx = i + 1]

\* Once the first table is empty the second takes its place.
Finish(dd) ==
  IF dd.ht[0].used # 0 THEN dd
  ELSE [dd EXCEPT !.ht[0] = dd.ht[1], !.ht[1] = NoTable, !.rehashidx = -1]

\* A round of the loop of dictRehash: it passes the empty buckets, as long as
\* it may visit more of them, and moves the next bucket.
Round(s) ==
  LET t    == s.d.ht[0]
      r    == s.d.rehashidx
      next == CHOOSE i \in r .. t.size - 1 :
                t.table[i] # << >> /\ \A j \in r .. i - 1 : t.table[j] = << >>
  IN  IF t.used = 0 \/ s.visits = 0 THEN s
      ELSE IF next - r >= s.visits
      THEN [d |-> [s.d EXCEPT !.rehashidx = r + s.visits], visits |-> 0]
      ELSE [d |-> MoveBucket(s.d, next), visits |-> s.visits - (next - r)]

\* dictRehash: up to n rounds.
Rehash(dd, n) ==
  LET rounds[k \in 0 .. n] ==
        IF k = 0 THEN [d |-> dd, visits |-> n * EmptyVisits]
        ELSE Round(rounds[k - 1])
  IN  IF IsRehashing(dd) THEN Finish(rounds[n].d) ELSE dd

\* Variant: a step is made although an iterator has paused the rehashing.
RehashStepUnpaused(dd) == Rehash(dd, 1)

\* _dictRehashStep
RehashStep(dd) == IF dd.pauserehash = 0 THEN Rehash(dd, 1) ELSE dd

-----------------------------------------------------------------------------
(* Looking up, adding and deleting.                                        *)

\* Variant: only the first table is searched.
LookupFirst(dd, k) ==
  IF Size(dd) = 0 THEN {}
  ELSE UNION {{Chain(dd.ht[i], k)[j] : j \in At(Chain(dd.ht[i], k), k)} : i \in {0}}

\* The search loop of dictFind, _dictKeyIndex, dictGenericDelete and
\* dictFindEntryRefByPtrAndHash: one chain of each table.
Lookup(dd, k) ==
  IF Size(dd) = 0 THEN {}
  ELSE UNION {{Chain(dd.ht[i], k)[j] : j \in At(Chain(dd.ht[i], k), k)} :
                i \in Tables(dd)}

\* A lookup, an addition and a deletion do a step of the rehash first, unless
\* the dictionary is empty.
Stepped(dd) == IF Size(dd) = 0 THEN dd ELSE RehashStep(dd)

\* Variant: the entry goes to the first table.
AddRawFirst(dd, e) ==
  LET ready == ExpandIfNeeded(RehashStep(dd)) IN
  IF Lookup(ready, e.key) # {} THEN ready
  ELSE [ready EXCEPT !.ht[0] = Push(@, e)]

\* dictAddRaw: during a rehash new entries go to the second table.
AddRaw(dd, e) ==
  LET ready == ExpandIfNeeded(RehashStep(dd)) IN
  IF Lookup(ready, e.key) # {} THEN ready
  ELSE [ready EXCEPT !.ht[IF IsRehashing(ready) THEN 1 ELSE 0] = Push(@, e)]

\* The first of the tables that has k in its chain.
Holder(dd, k) == IF At(Chain(dd.ht[0], k), k) # {} THEN 0 ELSE 1

\* The table in which the key of e has the value of e.
Revalued(t, e) ==
  [t EXCEPT !.table[Index(t, e.key)] =
     [j \in DOMAIN @ |-> IF @[j].key = e.key THEN e ELSE @[j]]]

\* dictReplace: what dictAddRaw refuses gets the new value in place.
Replaced(dd, e) ==
  LET ready == AddRaw(dd, e)
  IN  [ready EXCEPT !.ht[Holder(ready, e.key)] = Revalued(@, e)]

\* The table without the entry of k, which is unlinked from its chain.
Unlinked(t, k) ==
  [t EXCEPT !.table[Index(t, k)] = RemoveAt(@, CHOOSE j \in At(@, k) : TRUE),
            !.used = @ - 1]

\* dictGenericDelete: from the first table that has it.
GenericDelete(dd, k) ==
  LET ready == Stepped(dd)
  IN  IF Lookup(ready, k) = {} THEN ready
      ELSE [ready EXCEPT !.ht[Holder(ready, k)] = Unlinked(@, k)]

-----------------------------------------------------------------------------
(* Iterators.                                                              *)

\* dictGetIterator: positioned before the first bucket.
NewIterator(safe) == [safe |-> safe, table |-> 0, index |-> -1,
                      next |-> NoKey, ended |-> FALSE]

Started(it) == it.index # -1 \/ it.table # 0

\* The first bucket from i on that is not empty, as a set with one element
\* at most.
FirstFrom(t, i) ==
  {j \in i .. t.size - 1 : /\ t.table[j] # << >>
                           /\ \A l \in i .. j - 1 : t.table[l] = << >>}

\* What follows the entry of k in its chain: iter->nextEntry.
After(chain, k) ==
  LET at == CHOOSE i \in DOMAIN chain : chain[i].key = k
  IN  IF at = Len(chain) THEN NoKey ELSE chain[at + 1].key

\* Where dictNext goes at the end of a chain: onwards in its table, and from
\* the first table to the second if a rehash is under way.
NextBucket(dd, it) ==
  LET here  == {<<it.table, i>> : i \in FirstFrom(dd.ht[it.table], it.index + 1)}
      there == {<<1, i>> : i \in FirstFrom(dd.ht[1], 0)}
  IN  IF here # {} \/ it.table = 1 \/ ~IsRehashing(dd) THEN here ELSE there

\* The entry that dictNext returns, or NoKey.
Returned(dd, it) ==
  IF it.next # NoKey THEN it.next
  ELSE IF NextBucket(dd, it) = {} THEN NoKey
  ELSE LET b == CHOOSE b \in NextBucket(dd, it) : TRUE
       IN  Head(dd.ht[b[1]].table[b[2]]).key

\* The iterator afterwards: it keeps the follower of the entry it returned,
\* because its user may delete that entry.
Advanced(dd, it) ==
  LET bucket == IF it.next # NoKey THEN {<<it.table, it.index>>}
                ELSE NextBucket(dd, it)
      b    == CHOOSE b \in bucket : TRUE
      last == IF IsRehashing(dd) THEN 1 ELSE 0
  IN  IF bucket = {}
      THEN [it EXCEPT !.ended = TRUE, !.table = last,
                      !.index = dd.ht[last].size]
      ELSE [it EXCEPT !.table = b[1], !.index = b[2],
                      !.next = After(dd.ht[b[1]].table[b[2]], Returned(dd, it))]

-----------------------------------------------------------------------------
(* dictScan.                                                               *)

\* The lowest n bits of v, in the opposite order.
Reversed(v, n) ==
  LET bits[i \in 0 .. n] ==
        IF i = 0 THEN 0 ELSE 2 * bits[i - 1] + ((v \div Power(i - 1)) % 2)
  IN  bits[n]

\* rev
Rev(v) == Reversed(v, Bits)

\* v |= ~mask; v = rev(v); v++; v = rev(v)
Increment(v, size) ==
  LET unmasked == (Power(Bits) - size) + (v % size)
  IN  Rev((Rev(unmasked) + 1) % Power(Bits))

Bucket(t, v) == {e.key : e \in ToSet(t.table[v % t.size])}

\* Variant: one bucket of the larger table only.
ScanExpansionsOne(small, large, v) ==
  [emitted |-> Bucket(large, v), cursor |-> Increment(v, small.size)]

\* The loop over the buckets of the larger table that the bucket at the
\* cursor in the smaller one expands to.
ScanExpansions(small, large, v) ==
  LET cursors[n \in 0 .. large.size \div small.size] ==
        IF n = 0 THEN v ELSE Increment(cursors[n - 1], large.size)
      last == CHOOSE n \in 1 .. large.size \div small.size :
                LET Over(i) == (cursors[i] % large.size) \div small.size = 0
                IN  Over(n) /\ \A i \in 1 .. n - 1 : ~Over(i)
  IN  [emitted |-> UNION {Bucket(large, cursors[n]) : n \in 0 .. last - 1},
       cursor  |-> cursors[last]]

\* What a call with cursor v emits, and the cursor it returns.
Scan(dd, v) ==
  LET small == IF dd.ht[0].size > dd.ht[1].size THEN dd.ht[1] ELSE dd.ht[0]
      large == IF dd.ht[0].size > dd.ht[1].size THEN dd.ht[0] ELSE dd.ht[1]
      rest  == ScanExpansions(small, large, v)
  IN  IF Size(dd) = 0 THEN [emitted |-> {}, cursor |-> 0]
      ELSE IF ~IsRehashing(dd)
      THEN [emitted |-> Bucket(dd.ht[0], v), cursor |-> Increment(v, dd.ht[0].size)]
      ELSE [emitted |-> Bucket(small, v) \cup rest.emitted, cursor |-> rest.cursor]

-----------------------------------------------------------------------------
(* Samples.                                                                *)

\* The keys that dictGetRandomKey may draw: it retries until the bucket it
\* drew is not empty, and draws none before rehashidx.
RandomKeys(dd) ==
  LET ready == Stepped(dd)
      first == IF IsRehashing(ready) THEN ready.rehashidx ELSE 0
      drawn == UNION {ToSet(ready.ht[0].table[h]) : h \in first .. ready.ht[0].size - 1}
  IN  {e.key : e \in drawn \cup TableEntries(ready.ht[1])}

\* The steps of the rehash that dictGetSomeKeys does: one for each key asked.
SampleSteps(dd, count) ==
  LET steps[n \in 0 .. count] == IF n = 0 THEN dd ELSE RehashStep(steps[n - 1])
  IN  steps[count]

\* One bucket of the walk: it counts the empty buckets in a row, or takes the
\* chain until it has all the keys it was asked for.
Collect(s, i, chain, count) ==
  IF chain = << >> THEN [s EXCEPT !.i = i, !.emptylen = @ + 1]
  ELSE [i |-> i, emptylen |-> 0,
        keys |-> SubSeq(s.keys \o chain, 1,
                        Min({count, Len(s.keys) + Len(chain)}))]

\* Variant: the walk jumps to rehashidx although the second table may have
\* entries before it.
SampleBucketJumps(dd, count, s, j) ==
  LET i == IF IsRehashing(dd) /\ j = 0 /\ s.i < dd.rehashidx
           THEN dd.rehashidx ELSE s.i
  IN  IF i >= dd.ht[j].size THEN [s EXCEPT !.i = i]
      ELSE Collect(s, i, dd.ht[j].table[i], count)

\* dictGetSomeKeys at index s.i of table j.  The buckets before rehashidx are
\* passed over: all at once where the second table is shorter than that.
SampleBucket(dd, count, s, j) ==
  LET passed == IsRehashing(dd) /\ j = 0 /\ s.i < dd.rehashidx
      i      == IF passed /\ s.i >= dd.ht[1].size THEN dd.rehashidx ELSE s.i
  IN  IF (passed /\ s.i < dd.ht[1].size) \/ i >= dd.ht[j].size
      THEN [s EXCEPT !.i = i]
      ELSE Collect(s, i, dd.ht[j].table[i], count)

\* After five empty buckets in a row, or as many as keys asked for, the walk
\* goes on from a random index; it is followed here until then.
Jumps(s, count) == s.emptylen >= 5 /\ s.emptylen > count

\* The buckets of the larger table.
Slots(dd) == Max({dd.ht[i].size : i \in 0 .. 1})

\* One round of the walk: the bucket of each table, unless it is complete.
SampleRound(dd, count, s) ==
  LET s0 == SampleBucket(dd, count, s, 0)
      s1 == IF IsRehashing(dd) /\ ~Jumps(s0, count)
            THEN SampleBucket(dd, count, s0, 1) ELSE s0
  IN  IF Len(s.keys) = count \/ Jumps(s, count) THEN s
      ELSE IF Jumps(s1, count) THEN s1
      ELSE [s1 EXCEPT !.i = (@ + 1) % Slots(dd)]

\* The walk from index `start`, in at most ten rounds for each key.
Sample(dd, count, start) ==
  LET ready == SampleSteps(dd, count)
      walked[n \in 0 .. 10 * count] ==
        IF n = 0 THEN [i |-> start % Slots(ready), emptylen |-> 0, keys |-> << >>]
        ELSE SampleRound(ready, count, walked[n - 1])
  IN  walked[10 * count]

\* dictGetFairRandomKey, which asks for more keys than there are here, and
\* draws one from all the keys if its sample is empty.
FairRandomKeys(dd, start) ==
  LET sample == Sample(dd, Size(dd), start)
  IN  IF sample.keys = << >> THEN RandomKeys(SampleSteps(dd, Size(dd)))
      ELSE {e.key : e \in ToSet(sample.keys)}

-----------------------------------------------------------------------------
(* The calls.                                                              *)

\* dictCreate
Init ==
  /\ hash \in Hashes
  /\ canResize = TRUE
  /\ d = [ht |-> [i \in 0 .. 1 |-> NoTable], rehashidx |-> -1, pauserehash |-> 0]
  /\ walk = "none" /\ iter = NewIterator(FALSE) /\ cursor = 0
  /\ stable = {} /\ seen = {} /\ again = {}

\* While an unsafe iterator is open its user only calls dictNext (dict.h:75).
Free == walk # "iterator" \/ iter.safe

Add(e) ==
  /\ Free
  /\ d' = AddRaw(d, e)
  /\ UNCHANGED <<hash, canResize, walkVars>>

\* dictReplace
Replace(e) ==
  /\ Free
  /\ d' = Replaced(d, e)
  /\ UNCHANGED <<hash, canResize, walkVars>>

\* dictDelete and dictUnlink.  The user of an iterator deletes no entry but
\* the one it was given: the iterator holds a pointer to the next one.
Delete(k) ==
  /\ Free /\ (walk = "iterator" => k # iter.next)
  /\ d' = GenericDelete(d, k)
  /\ stable' = stable \ {k}
  /\ UNCHANGED <<hash, canResize, walk, iter, cursor, seen, again>>

\* dictFind, and the other lookups and samplings that do a step of the rehash.
Find ==
  /\ Free
  /\ d' = Stepped(d)
  /\ UNCHANGED <<hash, canResize, walkVars>>

\* dictGetSomeKeys, as far as the dictionary is concerned.
GetSomeKeys(count) ==
  /\ Free
  /\ d' = SampleSteps(d, IF count < Size(d) THEN count ELSE Size(d))
  /\ UNCHANGED <<hash, canResize, walkVars>>

\* dictExpand, and dictTryExpand when the allocation succeeds.
ExpandTo(n) ==
  /\ Free /\ NextPower(n) <= MaxSize
  /\ d' = Expand(d, n)
  /\ UNCHANGED <<hash, canResize, walkVars>>

\* dictResize
Resize ==
  /\ Free /\ canResize /\ ~IsRehashing(d)
  /\ d' = Expand(d, IF d.ht[0].used < InitialSize THEN InitialSize
                    ELSE d.ht[0].used)
  /\ UNCHANGED <<hash, canResize, walkVars>>

\* dictEnableResize, dictDisableResize
SetCanResize(b) ==
  /\ canResize' = b
  /\ UNCHANGED <<hash, d, walkVars>>

\* dictRehashMilliseconds, until the time is up or nothing is left to move.
RehashMilliseconds ==
  /\ Free /\ d.pauserehash = 0
  /\ d' = Rehash(d, Batch)
  /\ UNCHANGED <<hash, canResize, walkVars>>

\* dictEmpty: _dictClear of both tables.  Not while an iterator is open: it
\* frees what the iterator points to, and leaves pauserehash at -1 once that is
\* released.
Empty ==
  /\ walk # "iterator"
  /\ d' = [ht |-> [i \in 0 .. 1 |-> NoTable], rehashidx |-> -1, pauserehash |-> 0]
  /\ stable' = {}
  /\ UNCHANGED <<hash, canResize, walk, iter, cursor, seen, again>>

\* dictGetIterator, dictGetSafeIterator
GetIterator(safe) ==
  /\ walk = "none"
  /\ walk' = "iterator"
  /\ iter' = NewIterator(safe)
  /\ UNCHANGED <<hash, canResize, d, cursor, stable, seen, again>>

\* dictNext.  A safe iterator pauses the rehashing when it starts.
DictNext ==
  LET k == Returned(d, iter) IN
  /\ walk = "iterator" /\ ~iter.ended
  /\ d' = [d EXCEPT !.pauserehash = IF iter.safe /\ ~Started(iter)
                                     THEN @ + 1 ELSE @]
  /\ iter' = Advanced(d, iter)
  /\ stable' = IF Started(iter) THEN stable ELSE Keys(d)
  /\ seen' = seen \cup ({k} \ {NoKey})
  /\ again' = again \cup (seen \cap {k})
  /\ UNCHANGED <<hash, canResize, walk, cursor>>

EndWalk ==
  /\ walk' = "none" /\ iter' = NewIterator(FALSE) /\ cursor' = 0
  /\ stable' = {} /\ seen' = {} /\ again' = {}

\* dictReleaseIterator
ReleaseIterator ==
  /\ walk = "iterator"
  /\ d' = [d EXCEPT !.pauserehash = IF iter.safe /\ Started(iter)
                                     THEN @ - 1 ELSE @]
  /\ EndWalk
  /\ UNCHANGED <<hash, canResize>>

\* dictScan, called again with the cursor it returned, the first time with 0.
\* It pauses the rehashing only for the time of the call.
DictScan ==
  LET v    == IF walk = "none" THEN 0 ELSE cursor
      step == Scan(d, v)
  IN  /\ walk \in {"none", "scan"}
      /\ walk' = IF step.cursor = 0 THEN "scanned" ELSE "scan"
      /\ cursor' = step.cursor
      /\ stable' = IF walk = "none" THEN Keys(d) ELSE stable
      /\ seen' = seen \cup step.emitted
      /\ UNCHANGED <<hash, canResize, d, iter, again>>

\* The caller has finished the scan, or gives it up: the dictionary does not
\* know about it.
LeaveScan ==
  /\ walk \in {"scan", "scanned"}
  /\ EndWalk
  /\ UNCHANGED <<hash, canResize, d>>

Next ==
  \/ \E e \in Entry : Add(e) \/ Replace(e)
  \/ \E k \in Key : Delete(k)
  \/ Find \/ RehashMilliseconds \/ Resize \/ Empty
  \/ \E n \in ExpandSizes : ExpandTo(n)
  \/ \E n \in 1 .. Cardinality(Key) : GetSomeKeys(n)
  \/ \E b \in BOOLEAN : SetCanResize(b) \/ GetIterator(b)
  \/ DictNext \/ ReleaseIterator
  \/ DictScan \/ LeaveScan

Spec == Init /\ [][Next]_vars

-----------------------------------------------------------------------------
(* Properties.                                                             *)

TypeOK ==
  /\ hash \in Hashes /\ canResize \in BOOLEAN
  /\ DOMAIN d.ht = 0 .. 1
  /\ \A i \in 0 .. 1 : LET t == d.ht[i] IN
       /\ t.size = 0 \/ t.size = NextPower(t.size)
       /\ DOMAIN t.table = 0 .. t.size - 1
       /\ \A j \in DOMAIN t.table : t.table[j] \in Seq(Entry)
  /\ d.rehashidx \in -1 .. d.ht[0].size
  /\ walk \in {"none", "iterator", "scan", "scanned"}

\* The table holds together at every point of a rehash: the counts are those
\* of the chains (so that clearing the table frees every entry), no key is
\* there twice (in either table), every key is in the bucket of its hash, the
\* buckets before rehashidx are empty and, until the first table is empty, the
\* next one to move exists (the assertion at dict.c:216).  The rehashing is
\* paused only by a safe iterator at work.
DictInv ==
  /\ TypeOK
  /\ \A i \in 0 .. 1 : LET t == d.ht[i] IN
       /\ t.used = Stats(t).totchainlen /\ Freed(t) = TableEntries(t)
       /\ \A j \in DOMAIN t.table : \A e \in ToSet(t.table[j]) : Index(t, e.key) = j
  /\ Cardinality(Keys(d)) = Size(d)
  /\ IF IsRehashing(d)
     THEN /\ d.ht[1].size > 0
          /\ d.ht[0].used > 0 => d.rehashidx < d.ht[0].size
          /\ \A j \in 0 .. d.rehashidx - 1 : d.ht[0].table[j] = << >>
     ELSE d.ht[1] = NoTable
  /\ d.pauserehash = IF walk = "iterator" /\ iter.safe /\ Started(iter)
                     THEN 1 ELSE 0

\* A lookup finds exactly the entries that are there, whichever table they are
\* in and whatever the step of the rehash that it does first moves, and so
\* does dictFindEntryRefByPtrAndHash, which does no step.
LookupFindsAll ==
  \A k \in Key :
    LET entry == {e \in Entries(d) : e.key = k}
    IN  Lookup(Stepped(d), k) = entry /\ Lookup(d, k) = entry

\* A walk with an iterator returns every key that stays, and none of them
\* twice, although the user of a safe iterator adds and deletes keys and the
\* table starts to grow or shrink on the way.
IteratorExact ==
  /\ walk = "iterator" => again \cap stable = {}
  /\ walk = "iterator" /\ iter.ended => stable \subseteq seen

\* A complete scan, from cursor 0 to cursor 0, has returned every key that
\* was there all the time, however the table was resized and rehashed between
\* the calls (the promise at dict.c:808); the cursors in between fit.
ScanMissesNothing ==
  /\ cursor \in 0 .. Power(Bits) - 1
  /\ walk = "scanned" => stable \subseteq seen

\* Sampling reaches everything: dictGetRandomKey can return any key (so its
\* retries can end), and dictGetSomeKeys, asked for as many keys as there are,
\* has each of them once, wherever it starts and in the middle of a rehash
\* from a small table to a large one or back, unless it goes on from a random
\* index; until then it has no key twice.  It may give up (dict.c:687) only
\* where there are more than ten buckets for each key.  dictGetFairRandomKey
\* always has a key to return.
SamplingReachesAll ==
  walk = "none" /\ Size(d) > 0 =>
    /\ RandomKeys(d) = Keys(d)
    /\ \A start \in 0 .. d.ht[0].size + d.ht[1].size - 1 :
         LET sample == Sample(d, Size(d), start)
         IN  /\ IsInjective(sample.keys)
             /\ \/ ToSet(sample.keys) = Entries(d)
                \/ Jumps(sample, Size(d))
                \/ 10 * Size(d) < Slots(SampleSteps(d, Size(d)))
             /\ FairRandomKeys(d, start) \cap Keys(d) # {}

\* What the dictionary is for: a map from keys to values, changed only by the
\* calls that say so and untouched by the rehashing.
Map == INSTANCE DictMap WITH
  map <- LET entries == Entries(d)
         IN  [k \in {e.key : e \in entries} |->
                (CHOOSE e \in entries : e.key = k).val]
ImplementsMap == Map!Spec
=============================================================================
