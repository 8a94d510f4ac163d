----------------------------- MODULE Dict_proofs ----------------------------
(***************************************************************************)
(* Proofs about Dict, for any keys, values and hash function and any       *)
(* sizes: the table holds together, a lookup finds what is there, the      *)
(* dictionary implements a map, an iterator returns every key that stays,  *)
(* once, a scan misses none, and a sample has every key once.              *)
(*                                                                         *)
(* The argument.  A dictionary holds together (DictHolds) if each of its   *)
(* tables counts its entries and has each key once, in the bucket of its   *)
(* hash (TableHolds), no key is in both tables, and the buckets before     *)
(* rehashidx are empty (PartsHold).  Every operator that the calls are     *)
(* composed of keeps that, and either leaves the entries as they are       *)
(* (Same) or changes those of one key.  The chain of a bucket is what      *)
(* changes in the end (BucketChanged).  The loops of the code are          *)
(* recursive functions; their values come from induction over a set of     *)
(* numbers (AllNumbers).                                                   *)
(*                                                                         *)
(* What an iterator has still to return (Left) is the rest of its chain,   *)
(* the buckets behind it and the second table.  A call while it is at work *)
(* disturbs no key but the one it adds or takes out (Undisturbed), since   *)
(* the rehashing is paused, and dictNext takes one key from what is left   *)
(* (NextTakes); so a key that stays is returned or left, and not both      *)
(* (WalkKept).                                                             *)
(*                                                                         *)
(* A scan goes through the cursors in the order of their reversed bits     *)
(* (Rev).  In that order the cursors that share a bucket of a table of 2^m *)
(* buckets, the lowest m bits, follow each other, whatever m is            *)
(* (ReversedBlock), and the next cursor is the first behind them           *)
(* (NextCursor); so a call emits every key whose hash comes before the     *)
(* next cursor and not before its own (ScanPasses), in one table as in     *)
(* two (ExpansionsPassed), and those before the cursor have been returned, *)
(* if they were there all the time (ScanKept).  The sizes of the tables    *)
(* are powers of two that the cursors reach (Fits), because the keys need  *)
(* no more buckets (CursorAssumption).                                     *)
(*                                                                         *)
(* A sample goes around the buckets of the larger table.  The keys it has  *)
(* found are those of the places it has passed, all of them and no other   *)
(* (Forth, Around), and where it passes over buckets they are empty        *)
(* (TargetPlace); so it comes to a place again only if it has every key,   *)
(* and then it ends (TargetFresh).                                         *)
(***************************************************************************)
EXTENDS Dict, TLAPS, WellFoundedInduction, FiniteSetTheorems, SequenceTheorems

-----------------------------------------------------------------------------
(* Induction.  A set of numbers has a least element, because < is well     *)
(* founded on Nat; so a set that has 0, and the successor of each of its   *)
(* numbers, has them all.                                                  *)

\* The order of the numbers, as a set of pairs.
Less == {ss \in Nat \X Nat : ss[1] < ss[2]}

\* There is no descending sequence of natural numbers.
LEMMA LessWellFounded == IsWellFoundedOn(Less, Nat)
  BY NatLessThanWellFounded DEF OpToRel, Less

\* Every nonempty set of natural numbers has a least element.
LEMMA LeastNumber ==
  ASSUME NEW T \in SUBSET Nat, T # {}
  PROVE  \E x \in T : \A y \in T : x <= y
<1>1. PICK x \in T : \A y \in T : ~(<<y, x>> \in Less)
  BY LessWellFounded, WFMin
<1>2. \A y \in T : ~(y < x)
  BY <1>1 DEF Less
<1>3. QED
  BY <1>2

\* Induction over the natural numbers.
LEMMA AllNumbers ==
  ASSUME NEW T, 0 \in T, \A n \in Nat : n \in T => n + 1 \in T
  PROVE  \A n \in Nat : n \in T
<1>1. SUFFICES ASSUME Nat \ T # {} PROVE FALSE
  OBVIOUS
<1>2. PICK x \in Nat \ T : \A y \in Nat \ T : x <= y
  BY <1>1, LeastNumber
<1>3. x # 0 /\ x - 1 \in Nat
  BY <1>2
<1>4. x - 1 \in T
  BY <1>2, <1>3
<1>5. x - 1 + 1 = x
  BY <1>2
<1>6. QED
  BY <1>2, <1>3, <1>4, <1>5


\* Induction over the numbers up to n.
LEMMA UpTo ==
  ASSUME NEW n \in Nat, NEW T, 0 \in T,
         \A m \in Nat : m + 1 <= n /\ m \in T => m + 1 \in T
  PROVE  \A m \in 0 .. n : m \in T
<1> DEFINE U == {m \in Nat : m <= n => m \in T}
<1>1. 0 \in U
  OBVIOUS
<1>2. \A m \in Nat : m \in U => m + 1 \in U
  OBVIOUS
<1>3. \A m \in Nat : m \in U
  <2> HIDE DEF U
  <2> QED BY <1>1, <1>2, AllNumbers
<1>4. QED
  BY <1>3

-----------------------------------------------------------------------------
(* Chains.                                                                 *)

\* No key is in the chain twice.
OneOfEach(c) == \A p, q \in DOMAIN c : c[p].key = c[q].key => p = q

\* An entry is a key with one of its values.
LEMMA EntryKey == \A e \in Entry : e.key \in Key
  BY DEF Entry

\* A chain without entries.
LEMMA EmptyChain ==
  /\ << >> \in Seq(Entry) /\ Len(<< >>) = 0 /\ ToSet(<< >>) = {} /\ OneOfEach(<< >>)
  BY DEF ToSet, OneOfEach

\* A chain has its entries from 1 on.
LEMMA ChainEntries ==
  ASSUME NEW c \in Seq(Entry)
  PROVE  /\ Len(c) \in Nat /\ DOMAIN c = 1 .. Len(c)
         /\ \A p \in 1 .. Len(c) : c[p] \in Entry
         /\ ToSet(c) = {c[p] : p \in 1 .. Len(c)}
         /\ ToSet(c) \subseteq Entry
         /\ Len(c) = 0 <=> c = << >>
  BY DEF ToSet

\* Two chains, one after the other.
LEMMA JoinedChain ==
  ASSUME NEW a \in Seq(Entry), NEW b \in Seq(Entry)
  PROVE  /\ a \o b \in Seq(Entry) /\ Len(a \o b) = Len(a) + Len(b)
         /\ \A p \in 1 .. Len(a) + Len(b) :
              (a \o b)[p] = IF p <= Len(a) THEN a[p] ELSE b[p - Len(a)]
  OBVIOUS

\* An entry before a chain that does not have its key.
LEMMA PushedChain ==
  ASSUME NEW c \in Seq(Entry), NEW e \in Entry, OneOfEach(c),
         \A f \in ToSet(c) : f.key # e.key
  PROVE  /\ <<e>> \o c \in Seq(Entry) /\ Len(<<e>> \o c) = Len(c) + 1
         /\ ToSet(<<e>> \o c) = {e} \cup ToSet(c)
         /\ OneOfEach(<<e>> \o c)
<1> DEFINE n == Len(c)
           r == <<e>> \o c
<1>1. n \in Nat /\ DOMAIN c = 1 .. n /\ ToSet(c) = {c[p] : p \in 1 .. n}
  BY ChainEntries
<1>2. /\ r \in Seq(Entry) /\ Len(r) = n + 1 /\ r[1] = e
      /\ \A p \in 2 .. n + 1 : r[p] = c[p - 1]
  OBVIOUS
<1>3. DOMAIN r = 1 .. n + 1 /\ ToSet(r) = {r[p] : p \in 1 .. n + 1}
  BY <1>2, ChainEntries
<1> HIDE DEF n, r
<1>4. \A p \in 1 .. n : p + 1 \in 2 .. n + 1 /\ (p + 1) - 1 = p
  BY <1>1
<1>5. \A p \in 1 .. n : r[p + 1] = c[p]
  BY <1>2, <1>4
<1>6. \A p \in 2 .. n + 1 : p - 1 \in 1 .. n
  BY <1>1
<1>7. {r[p] : p \in 1 .. n + 1} = {e} \cup {c[p] : p \in 1 .. n}
  <2>1. ASSUME NEW p \in 1 .. n + 1 PROVE r[p] \in {e} \cup {c[i] : i \in 1 .. n}
    BY <1>1, <1>2, <1>6
  <2>2. ASSUME NEW p \in 1 .. n PROVE c[p] \in {r[i] : i \in 1 .. n + 1}
    BY <1>1, <1>4, <1>5
  <2>3. e \in {r[i] : i \in 1 .. n + 1}
    BY <1>1, <1>2
  <2>4. QED
    BY <2>1, <2>2, <2>3
<1>8. OneOfEach(r)
  <2> SUFFICES ASSUME NEW p \in 1 .. n + 1, NEW q \in 1 .. n + 1, r[p].key = r[q].key
               PROVE  p = q
    BY <1>3 DEF OneOfEach
  <2>1. \A i \in 1 .. n : c[i].key # e.key
    BY <1>1
  <2>2. \A i, j \in 1 .. n : c[i].key = c[j].key => i = j
    BY <1>1 DEF OneOfEach
  <2>3. p = 1 \/ (p \in 2 .. n + 1 /\ p - 1 \in 1 .. n)
    BY <1>1
  <2>4. q = 1 \/ (q \in 2 .. n + 1 /\ q - 1 \in 1 .. n)
    BY <1>1
  <2>5. CASE p = 1
    BY <1>2, <2>1, <2>4, <2>5
  <2>6. CASE q = 1
    BY <1>2, <2>1, <2>3, <2>6
  <2>7. CASE p # 1 /\ q # 1
    <3>1. p - 1 = q - 1
      BY <1>2, <2>2, <2>3, <2>4, <2>7
    <3>2. QED
      BY <1>1, <3>1
  <2>8. QED
    BY <2>5, <2>6, <2>7
<1>9. QED
  BY <1>1, <1>2, <1>3, <1>7, <1>8 DEF n, r

\* What is in front of an entry of a chain, and what is behind it.
LEMMA ChainCut ==
  ASSUME NEW c \in Seq(Entry), NEW j \in DOMAIN c
  PROVE  LET front == SubSeq(c, 1, j - 1)
             back == SubSeq(c, j + 1, Len(c))
         IN  /\ front \in Seq(Entry) /\ Len(front) = j - 1
             /\ \A p \in 1 .. j - 1 : front[p] = c[p]
             /\ back \in Seq(Entry) /\ Len(back) = Len(c) - j
             /\ \A p \in 1 .. Len(c) - j : back[p] = c[j + p]
<1> DEFINE n == Len(c)
           e == j - 1
           f == j + 1
           front == SubSeq(c, 1, e)
           back == SubSeq(c, f, n)
<1>1. n \in Nat /\ j \in 1 .. n /\ \A p \in 1 .. n : c[p] \in Entry
  BY ChainEntries
<1>2. e \in Nat /\ e <= n /\ e - 1 + 1 = e /\ \A p \in 1 .. e : p \in 1 .. n /\ 1 + p - 1 = p
  <2>1. e \in Nat /\ e <= n
    BY <1>1
  <2> HIDE DEF e, n
  <2>2. QED
    BY <1>1, <2>1
<1>3. f \in 1 .. n + 1 /\ n - f + 1 = n - j /\ \A p \in f .. n : p \in 1 .. n
  <2>1. f \in 1 .. n + 1 /\ n - f + 1 = n - j
    BY <1>1
  <2> HIDE DEF f, n
  <2>2. QED
    BY <1>1, <2>1
<1>4. front \in Seq(Entry) /\ Len(front) = j - 1 /\ \A p \in 1 .. j - 1 : front[p] = c[p]
  <2>1. /\ e \in Int /\ (~1 <= e => e = 0)
        /\ \A p \in 1 .. e : c[p] \in Entry
    BY <1>1, <1>2
  <2> HIDE DEF e
  <2>2. /\ front \in Seq(Entry) /\ Len(front) = IF 1 <= e THEN e - 1 + 1 ELSE 0
        /\ \A p \in 1 .. e - 1 + 1 : front[p] = c[1 + p - 1]
    BY <2>1, SubSeqProperties
  <2> HIDE DEF front
  <2>3. Len(front) = e /\ \A p \in 1 .. e : front[p] = c[p]
    BY <1>2, <2>1, <2>2
  <2>4. QED
    BY <2>2, <2>3 DEF e
<1>5. back \in Seq(Entry) /\ Len(back) = n - j /\ \A p \in 1 .. n - j : back[p] = c[j + p]
  <2>1. n \in Int /\ f \in Int /\ \A p \in f .. n : c[p] \in Entry
    BY <1>1, <1>3
  <2> HIDE DEF f, n
  <2>2. /\ back \in Seq(Entry) /\ Len(back) = IF f <= n THEN n - f + 1 ELSE 0
        /\ \A p \in 1 .. n - f + 1 : back[p] = c[f + p - 1]
    BY <2>1, SubSeqProperties
  <2> HIDE DEF back
  <2>3. Len(back) = n - j
    BY <1>1, <1>3, <2>2
  <2>4. ASSUME NEW p \in 1 .. n - j
        PROVE  back[p] = c[j + p]
    <3>1. p \in 1 .. n - f + 1 /\ f + p - 1 = j + p
      BY <1>1, <1>3 DEF f
    <3>2. QED
      BY <2>2, <3>1
  <2>5. QED
    BY <2>2, <2>3, <2>4
<1>6. QED
  BY <1>4, <1>5

\* A chain without one of its entries.
LEMMA RemovedChain ==
  ASSUME NEW c \in Seq(Entry), NEW j \in DOMAIN c, OneOfEach(c)
  PROVE  /\ RemoveAt(c, j) \in Seq(Entry) /\ Len(RemoveAt(c, j)) = Len(c) - 1
         /\ ToSet(RemoveAt(c, j)) = ToSet(c) \ {c[j]}
         /\ OneOfEach(RemoveAt(c, j))
<1> DEFINE n == Len(c)
           r == RemoveAt(c, j)
           a == SubSeq(c, 1, j - 1)
           b == SubSeq(c, j + 1, n)
<1>1. n \in Nat /\ DOMAIN c = 1 .. n /\ ToSet(c) = {c[p] : p \in 1 .. n} /\ j \in 1 .. n
  BY ChainEntries
<1>2. a \in Seq(Entry) /\ Len(a) = j - 1 /\ \A p \in 1 .. j - 1 : a[p] = c[p]
  BY ChainCut
<1>3. b \in Seq(Entry) /\ Len(b) = n - j /\ \A p \in 1 .. n - j : b[p] = c[j + p]
  BY ChainCut
<1>4. r = a \o b
  BY DEF RemoveAt
<1> HIDE DEF n, a, b, r
<1>5. /\ r \in Seq(Entry) /\ Len(r) = n - 1
      /\ \A p \in 1 .. n - 1 : r[p] = IF p <= j - 1 THEN a[p] ELSE b[p - (j - 1)]
  <2>1. Len(a) + Len(b) = n - 1
    BY <1>1, <1>2, <1>3
  <2>2. /\ r \in Seq(Entry) /\ Len(r) = Len(a) + Len(b)
        /\ \A p \in 1 .. Len(a) + Len(b) : r[p] = IF p <= Len(a) THEN a[p] ELSE b[p - Len(a)]
    BY <1>2, <1>3, <1>4, JoinedChain
  <2>3. QED
    BY <1>2, <2>1, <2>2
<1>6. \A p \in 1 .. n - 1 : r[p] = IF p < j THEN c[p] ELSE c[p + 1]
  <2> SUFFICES ASSUME NEW p \in 1 .. n - 1 PROVE r[p] = IF p < j THEN c[p] ELSE c[p + 1]
    OBVIOUS
  <2>1. CASE p < j
    BY <1>1, <1>2, <1>5, <2>1
  <2>2. CASE ~(p < j)
    <3>1. p - (j - 1) \in 1 .. n - j /\ j + (p - (j - 1)) = p + 1 /\ ~(p <= j - 1)
      BY <1>1, <2>2
    <3>2. r[p] = b[p - (j - 1)]
      BY <1>5, <3>1
    <3>3. QED
      BY <1>3, <2>2, <3>1, <3>2
  <2>3. QED
    BY <2>1, <2>2
<1>7. DOMAIN r = 1 .. n - 1 /\ ToSet(r) = {r[p] : p \in 1 .. n - 1}
  BY <1>5, ChainEntries
<1>8. \A i, k \in 1 .. n : c[i].key = c[k].key => i = k
  BY <1>1 DEF OneOfEach
<1>9. {r[p] : p \in 1 .. n - 1} = {c[p] : p \in 1 .. n} \ {c[j]}
  <2>1. ASSUME NEW p \in 1 .. n - 1 PROVE r[p] \in {c[i] : i \in 1 .. n} \ {c[j]}
    <3>1. CASE p < j
      BY <1>1, <1>6, <1>8, <3>1
    <3>2. CASE ~(p < j)
      <4>1. p + 1 \in 1 .. n /\ p + 1 # j /\ r[p] = c[p + 1]
        BY <1>1, <1>6, <3>2
      <4>2. QED
        BY <1>1, <1>8, <4>1
    <3>3. QED
      BY <3>1, <3>2
  <2>2. ASSUME NEW i \in 1 .. n, c[i] # c[j] PROVE c[i] \in {r[p] : p \in 1 .. n - 1}
    <3>1. CASE i < j
      <4>1. i \in 1 .. n - 1
        BY <1>1, <3>1
      <4>2. QED
        BY <1>6, <3>1, <4>1
    <3>2. CASE ~(i < j)
      <4>1. i # j
        BY <2>2
      <4>2. i - 1 \in 1 .. n - 1 /\ ~(i - 1 < j) /\ (i - 1) + 1 = i
        BY <1>1, <3>2, <4>1
      <4>3. r[i - 1] = c[i]
        BY <1>6, <4>2
      <4>4. QED
        BY <4>2, <4>3
    <3>3. QED
      BY <3>1, <3>2
  <2>3. QED
    BY <2>1, <2>2
<1>10. OneOfEach(r)
  <2> SUFFICES ASSUME NEW p \in 1 .. n - 1, NEW q \in 1 .. n - 1, r[p].key = r[q].key
               PROVE  p = q
    BY <1>7 DEF OneOfEach
  <2> DEFINE At1(i) == IF i < j THEN i ELSE i + 1
  <2>1. \A i \in 1 .. n - 1 : At1(i) \in 1 .. n /\ r[i] = c[At1(i)]
    BY <1>1, <1>6
  <2>2. At1(p) = At1(q)
    <3> HIDE DEF At1
    <3> QED BY <1>8, <2>1
  <2>3. QED
    BY <1>1, <2>2
<1>11. QED
  BY <1>1, <1>5, <1>7, <1>9, <1>10 DEF n, r

\* A chain in which one entry gets another value.
LEMMA ReplacedChain ==
  ASSUME NEW c \in Seq(Entry), NEW e \in Entry, OneOfEach(c),
         NEW f \in ToSet(c), f.key = e.key
  PROVE  LET r == [j \in DOMAIN c |-> IF c[j].key = e.key THEN e ELSE c[j]] IN
         /\ r \in Seq(Entry) /\ Len(r) = Len(c)
         /\ ToSet(r) = (ToSet(c) \ {f}) \cup {e}
         /\ OneOfEach(r)
<1> DEFINE n == Len(c)
           r == [j \in DOMAIN c |-> IF c[j].key = e.key THEN e ELSE c[j]]
<1>1. n \in Nat /\ DOMAIN c = 1 .. n /\ ToSet(c) = {c[p] : p \in 1 .. n}
      /\ \A p \in 1 .. n : c[p] \in Entry
  BY ChainEntries
<1>2. r = [j \in 1 .. n |-> IF c[j].key = e.key THEN e ELSE c[j]]
  BY <1>1
<1>3. \A j \in 1 .. n : r[j] = IF c[j].key = e.key THEN e ELSE c[j]
  BY <1>2
<1>4. r \in [1 .. n -> Entry]
  BY <1>1, <1>2
<1>5. r \in Seq(Entry) /\ Len(r) = n /\ DOMAIN r = 1 .. n /\ ToSet(r) = {r[p] : p \in 1 .. n}
  <2> HIDE DEF r, n
  <2>1. r \in Seq(Entry)
    BY <1>1, <1>4
  <2>2. DOMAIN r = 1 .. n
    BY <1>4
  <2>3. Len(r) = n
    BY <1>1, <2>1, <2>2, ChainEntries
  <2>4. QED
    BY <2>1, <2>2, <2>3, ChainEntries
<1> HIDE DEF n, r
<1>6. \A i, k \in 1 .. n : c[i].key = c[k].key => i = k
  BY <1>1 DEF OneOfEach
<1>7. PICK m \in 1 .. n : c[m] = f
  BY <1>1
<1>8. \A i \in 1 .. n : c[i].key = e.key <=> i = m
  BY <1>6, <1>7
<1>9. \A i \in 1 .. n : r[i] = IF i = m THEN e ELSE c[i]
  BY <1>3, <1>8
<1>10. {r[p] : p \in 1 .. n} = ({c[p] : p \in 1 .. n} \ {f}) \cup {e}
  <2>1. ASSUME NEW p \in 1 .. n
        PROVE  r[p] \in ({c[i] : i \in 1 .. n} \ {f}) \cup {e}
    BY <1>6, <1>7, <1>9
  <2>2. ASSUME NEW p \in 1 .. n, c[p] # f PROVE c[p] \in {r[i] : i \in 1 .. n}
    BY <1>7, <1>9, <2>2
  <2>3. e \in {r[i] : i \in 1 .. n}
    BY <1>7, <1>9
  <2>4. QED
    BY <2>1, <2>2, <2>3
<1>11. OneOfEach(r)
  <2>1. \A i \in 1 .. n : r[i].key = c[i].key
    BY <1>7, <1>9
  <2>2. QED
    BY <1>5, <1>6, <2>1 DEF OneOfEach
<1>12. QED
  BY <1>1, <1>5, <1>10, <1>11 DEF n, r

-----------------------------------------------------------------------------
(* Tables.                                                                 *)

\* A table has a chain in each bucket.
IsTable(t) ==
  /\ t \in [size : Nat, table : {t.table}, used : Nat]
  /\ t.table \in [0 .. t.size - 1 -> Seq(Entry)]

\* The table holds together: it counts its entries, and each is in the bucket
\* of its key, once.
TableHolds(t) ==
  /\ IsTable(t)
  /\ t.used = Before(t)[t.size]
  /\ \A j \in 0 .. t.size - 1 :
       OneOfEach(t.table[j]) /\ \A e \in ToSet(t.table[j]) : Index(t, e.key) = j

\* The numbers of entries in front of the buckets, one bucket after the other.
LEMMA BeforeSteps ==
  ASSUME NEW t, NEW n \in Nat, t.size = n
  PROVE  /\ Before(t)[0] = 0
         /\ \A j \in 1 .. n : Before(t)[j] = Before(t)[j - 1] + Len(t.table[j - 1])
<1> DEFINE Upto(j) == \E r : r = [k \in 0 .. j |-> IF k = 0 THEN 0
                                                   ELSE r[k - 1] + Len(t.table[k - 1])]
           T == {j \in Nat : Upto(j)}
           W == Before(t)
<1>1. W = CHOOSE r : r = [k \in 0 .. n |-> IF k = 0 THEN 0 ELSE r[k - 1] + Len(t.table[k - 1])]
  BY DEF Before
<1> HIDE DEF W
<1>2. 0 \in T
  <2> DEFINE r == [k \in 0 .. 0 |-> 0]
  <2>1. r = [k \in 0 .. 0 |-> IF k = 0 THEN 0 ELSE r[k - 1] + Len(t.table[k - 1])]
    OBVIOUS
  <2> HIDE DEF r
  <2>2. Upto(0)
    BY <2>1
  <2>3. QED
    BY <2>2
<1>3. ASSUME NEW j \in Nat, j \in T PROVE j + 1 \in T
  <2>1. PICK r : r = [k \in 0 .. j |-> IF k = 0 THEN 0 ELSE r[k - 1] + Len(t.table[k - 1])]
    BY <1>3
  <2> DEFINE v == r[j] + Len(t.table[j])
             q == [k \in 0 .. j + 1 |-> IF k = j + 1 THEN v ELSE r[k]]
  <2>2. ASSUME NEW k \in 0 .. j + 1
        PROVE  q[k] = IF k = 0 THEN 0 ELSE q[k - 1] + Len(t.table[k - 1])
    <3>1. CASE k = j + 1
      <4>1. k - 1 = j /\ j # j + 1 /\ k # 0 /\ j \in 0 .. j + 1
        BY <3>1
      <4>2. q[k - 1] = r[j]
        BY <4>1
      <4>3. QED
        BY <3>1, <4>1, <4>2
    <3>2. CASE k # j + 1
      <4>1. k \in 0 .. j /\ (k # 0 => k - 1 \in 0 .. j + 1 /\ k - 1 # j + 1)
        BY <3>2
      <4>2. q[k] = r[k] /\ (k # 0 => q[k - 1] = r[k - 1])
        BY <3>2, <4>1
      <4>3. r[k] = IF k = 0 THEN 0 ELSE r[k - 1] + Len(t.table[k - 1])
        BY ONLY <2>1, <4>1
      <4>4. QED
        BY <4>2, <4>3
    <3>3. QED
      BY <3>1, <3>2
  <2>3. q = [k \in 0 .. j + 1 |-> q[k]]
    OBVIOUS
  <2> HIDE DEF q, v
  <2>4. q = [k \in 0 .. j + 1 |-> IF k = 0 THEN 0 ELSE q[k - 1] + Len(t.table[k - 1])]
    BY <2>2, <2>3
  <2>5. Upto(j + 1)
    BY ONLY <2>4, Zenon
  <2>6. j + 1 \in Nat
    OBVIOUS
  <2> HIDE DEF Upto
  <2>7. QED
    BY ONLY <2>5, <2>6
<1>4. Upto(n)
  <2>1. n \in T
    <3> HIDE DEF T
    <3> QED BY <1>2, <1>3, AllNumbers
  <2>2. QED
    BY <2>1
<1>5. W = [k \in 0 .. n |-> IF k = 0 THEN 0 ELSE W[k - 1] + Len(t.table[k - 1])]
  BY <1>1, <1>4
<1>6. W[0] = 0
  BY <1>5
<1>7. \A j \in 1 .. n : W[j] = W[j - 1] + Len(t.table[j - 1])
  BY <1>5
<1>8. QED
  BY <1>6, <1>7 DEF W

\* The chains of a table.
LEMMA TableChains ==
  ASSUME NEW t, IsTable(t)
  PROVE  /\ t.size \in Nat /\ t.used \in Nat /\ DOMAIN t.table = 0 .. t.size - 1
         /\ \A j \in 0 .. t.size - 1 :
              /\ t.table[j] \in Seq(Entry) /\ Len(t.table[j]) \in Nat
              /\ ToSet(t.table[j]) \subseteq Entry
              /\ Len(t.table[j]) = 0 <=> t.table[j] = << >>
  BY ChainEntries DEF IsTable

\* These numbers grow.
LEMMA BeforeGrows ==
  ASSUME NEW t, IsTable(t)
  PROVE  /\ \A j \in 0 .. t.size : Before(t)[j] \in Nat /\ Before(t)[j] <= Before(t)[t.size]
         /\ \A j \in 0 .. t.size - 1 :
              /\ Before(t)[j + 1] = Before(t)[j] + Len(t.table[j])
              /\ Before(t)[j] + Len(t.table[j]) <= Before(t)[t.size]
<1> DEFINE n == t.size
           B == Before(t)
           T == {j \in Nat : j <= n => B[j] \in Nat}
           U == {j \in Nat : j <= n => B[n - j] <= B[n]}
<1>1. n \in Nat /\ \A j \in 0 .. n - 1 : Len(t.table[j]) \in Nat
  BY TableChains
<1>2. B[0] = 0 /\ \A j \in 1 .. n : B[j] = B[j - 1] + Len(t.table[j - 1])
  <2> HIDE DEF B
  <2> QED BY <1>1, BeforeSteps DEF B
<1> HIDE DEF B, n
<1>3. \A j \in 0 .. n - 1 : B[j + 1] = B[j] + Len(t.table[j])
  <2> SUFFICES ASSUME NEW j \in 0 .. n - 1 PROVE B[j + 1] = B[j] + Len(t.table[j])
    OBVIOUS
  <2>1. j + 1 \in 1 .. n /\ (j + 1) - 1 = j
    BY <1>1
  <2>2. QED
    BY <1>2, <2>1
<1>4. \A j \in Nat : j \in T
  <2>1. 0 \in T
    BY <1>2
  <2>2. ASSUME NEW j \in Nat, j \in T PROVE j + 1 \in T
    <3>1. j + 1 <= n => j \in 0 .. n - 1
      BY <1>1
    <3>2. QED
      BY <1>1, <1>3, <2>2, <3>1
  <2>3. QED
    <3> HIDE DEF T
    <3> QED BY <2>1, <2>2, AllNumbers
<1>5. \A j \in 0 .. n : B[j] \in Nat
  BY <1>1, <1>4
<1>6. \A j \in Nat : j \in U
  <2>1. 0 \in U
    BY <1>1, <1>5
  <2>2. ASSUME NEW j \in Nat, j \in U PROVE j + 1 \in U
    <3> SUFFICES ASSUME j + 1 <= n PROVE B[n - (j + 1)] <= B[n]
      OBVIOUS
    <3> DEFINE i == n - (j + 1)
    <3>1. i \in 0 .. n - 1 /\ i + 1 = n - j /\ j <= n /\ i \in 0 .. n /\ n - j \in 0 .. n
      BY <1>1
    <3>2. B[i + 1] = B[i] + Len(t.table[i])
      BY <1>3, <3>1
    <3>3. B[n - j] <= B[n]
      BY <2>2, <3>1
    <3> HIDE DEF i
    <3>4. Len(t.table[i]) \in Nat /\ B[i] \in Nat /\ B[n - j] \in Nat /\ B[n] \in Nat
      BY <1>1, <1>5, <3>1
    <3>5. B[i] <= B[n]
      BY <3>1, <3>2, <3>3, <3>4
    <3>6. QED
      BY <3>5 DEF i
  <2>3. QED
    <3> HIDE DEF U
    <3> QED BY <2>1, <2>2, AllNumbers
<1>7. \A j \in 0 .. n : B[j] <= B[n]
  <2> SUFFICES ASSUME NEW j \in 0 .. n PROVE B[j] <= B[n]
    OBVIOUS
  <2>1. n - j \in Nat /\ n - j <= n /\ n - (n - j) = j
    BY <1>1
  <2>2. QED
    BY <1>6, <2>1
<1>8. \A j \in 0 .. n - 1 : B[j] + Len(t.table[j]) <= B[n]
  <2> SUFFICES ASSUME NEW j \in 0 .. n - 1 PROVE B[j] + Len(t.table[j]) <= B[n]
    OBVIOUS
  <2>1. j + 1 \in 0 .. n
    BY <1>1
  <2>2. QED
    BY <1>3, <1>7, <2>1
<1>9. QED
  BY <1>3, <1>5, <1>7, <1>8 DEF B, n

\* Where two tables differ in one bucket, so do these numbers from there on.
LEMMA BeforeChanged ==
  ASSUME NEW t, NEW u, IsTable(t), IsTable(u), u.size = t.size,
         NEW b \in 0 .. t.size - 1,
         \A j \in 0 .. t.size - 1 : j # b => u.table[j] = t.table[j]
  PROVE  Before(u)[t.size] = Before(t)[t.size] + Len(u.table[b]) - Len(t.table[b])
<1> DEFINE n == t.size
           B == Before(t)
           C == Before(u)
           x == Len(t.table[b])
           y == Len(u.table[b])
           T == {j \in Nat : j <= n => C[j] = IF j <= b THEN B[j] ELSE B[j] + y - x}
<1>1. /\ n \in Nat /\ u.size = n
      /\ \A j \in 0 .. n - 1 : Len(t.table[j]) \in Nat /\ Len(u.table[j]) \in Nat
  BY TableChains
<1>2. /\ B[0] = 0 /\ \A j \in 0 .. n - 1 : B[j + 1] = B[j] + Len(t.table[j])
      /\ \A j \in 0 .. n : B[j] \in Nat
  BY <1>1, BeforeGrows, BeforeSteps
<1>3. /\ C[0] = 0 /\ \A j \in 0 .. n - 1 : C[j + 1] = C[j] + Len(u.table[j])
      /\ \A j \in 0 .. n : C[j] \in Nat
  BY <1>1, BeforeGrows, BeforeSteps
<1>4. /\ n \in Nat /\ b \in 0 .. n - 1 /\ x \in Nat /\ y \in Nat
      /\ B[0] = 0 /\ C[0] = 0
      /\ \A j \in 0 .. n : B[j] \in Nat
      /\ B[b + 1] = B[b] + x /\ C[b + 1] = C[b] + y
  BY <1>1, <1>2, <1>3
<1>5. ASSUME NEW j \in 0 .. n - 1, j # b
      PROVE  \E z \in Nat : B[j + 1] = B[j] + z /\ C[j + 1] = C[j] + z
  <2>1. Len(u.table[j]) = Len(t.table[j]) /\ Len(t.table[j]) \in Nat
    BY <1>1, <1>5
  <2>2. B[j + 1] = B[j] + Len(t.table[j]) /\ C[j + 1] = C[j] + Len(t.table[j])
    BY <1>2, <1>3, <2>1
  <2>3. QED
    BY <2>1, <2>2
<1> HIDE DEF B, C, n, x, y
<1>6. 0 \in T
  BY <1>4
<1>7. ASSUME NEW j \in Nat, j \in T PROVE j + 1 \in T
  <2> SUFFICES ASSUME j + 1 <= n
               PROVE  C[j + 1] = IF j + 1 <= b THEN B[j + 1] ELSE B[j + 1] + y - x
    OBVIOUS
  <2>1. j \in 0 .. n - 1 /\ j <= n /\ j \in 0 .. n
    BY <1>4
  <2>2. C[j] = IF j <= b THEN B[j] ELSE B[j] + y - x
    BY <1>7, <2>1
  <2>3. CASE j = b
    BY <1>4, <2>1, <2>2, <2>3
  <2>4. CASE j # b
    <3>1. PICK z \in Nat : B[j + 1] = B[j] + z /\ C[j + 1] = C[j] + z
      BY <1>5, <2>1, <2>4
    <3>2. j <= b <=> j + 1 <= b
      BY <1>4, <2>4
    <3>3. B[j] \in Nat
      BY <1>4, <2>1
    <3>4. QED
      BY <1>4, <2>2, <3>1, <3>2, <3>3
  <2>5. QED
    BY <2>3, <2>4
<1>8. n \in T
  <2> HIDE DEF T
  <2> QED BY <1>4, <1>6, <1>7, AllNumbers
<1>9. C[n] = B[n] + y - x
  BY <1>4, <1>8
<1>10. QED
  BY <1>9 DEF B, C, n, x, y

\* The entries of a table, bucket by bucket.
LEMMA EntriesByBucket ==
  ASSUME NEW t, IsTable(t)
  PROVE  /\ \A e : e \in TableEntries(t) <=> \E j \in 0 .. t.size - 1 : e \in ToSet(t.table[j])
         /\ TableEntries(t) \subseteq Entry
  BY TableChains DEF TableEntries

\* The table with another chain and another count.
WithBucket(t, b, c, w) == [size |-> t.size, table |-> [t.table EXCEPT ![b] = c], used |-> w]

\* A bucket gets another chain, of the same index, and is counted.
LEMMA BucketChanged ==
  ASSUME NEW t, TableHolds(t), NEW b \in 0 .. t.size - 1,
         NEW c \in Seq(Entry), OneOfEach(c), \A e \in ToSet(c) : Index(t, e.key) = b,
         NEW w, w = t.used + Len(c) - Len(t.table[b])
  PROVE  LET u == WithBucket(t, b, c, w) IN
         /\ TableHolds(u)
         /\ TableEntries(u) = (TableEntries(t) \ ToSet(t.table[b])) \cup ToSet(c)
         /\ u.size = t.size /\ u.used = w
<1> DEFINE u == WithBucket(t, b, c, w)
<1>1. /\ t.size \in Nat /\ t.used \in Nat /\ DOMAIN t.table = 0 .. t.size - 1
      /\ \A j \in 0 .. t.size - 1 : t.table[j] \in Seq(Entry) /\ Len(t.table[j]) \in Nat
  BY TableChains DEF TableHolds
<1>2. Len(c) \in Nat /\ ToSet(c) \subseteq Entry
  BY ChainEntries
<1>3. t.used = Before(t)[t.size] /\ IsTable(t)
  BY DEF TableHolds
<1>4. Len(t.table[b]) <= t.used
  <2> DEFINE B == Before(t)
             l == Len(t.table[b])
  <2>1. B[b] \in Nat /\ B[b] + l <= B[t.size]
    <3>1. b \in 0 .. t.size
      BY <1>1
    <3>2. QED
      BY <1>3, <3>1, BeforeGrows
  <2>2. l \in Nat /\ B[t.size] = t.used
    BY <1>1, <1>3
  <2> HIDE DEF B, l
  <2>3. l <= t.used
    BY <1>1, <2>1, <2>2
  <2>4. QED
    BY <2>3 DEF l
<1>5. /\ u.size = t.size /\ u.used = t.used + Len(c) - Len(t.table[b]) /\ u.used \in Nat
      /\ u.table[b] = c /\ \A j \in 0 .. t.size - 1 : j # b => u.table[j] = t.table[j]
      /\ u.table \in [0 .. t.size - 1 -> Seq(Entry)]
  <2>1. u.size = t.size /\ u.used = w /\ u.table = [t.table EXCEPT ![b] = c]
    BY DEF WithBucket
  <2>2. t.table \in [0 .. t.size - 1 -> Seq(Entry)]
    BY <1>3 DEF IsTable
  <2>3. u.used \in Nat
    BY <1>1, <1>2, <1>4, <2>1
  <2>4. QED
    BY <2>1, <2>2, <2>3
<1>6. IsTable(u)
  BY <1>1, <1>5 DEF IsTable, WithBucket
<1> HIDE DEF u
<1>7. Before(u)[u.size] = u.used
  <2>1. Before(u)[t.size] = Before(t)[t.size] + Len(u.table[b]) - Len(t.table[b])
    <3>1. /\ IsTable(t) /\ IsTable(u) /\ u.size = t.size /\ b \in 0 .. t.size - 1
          /\ \A j \in 0 .. t.size - 1 : j # b => u.table[j] = t.table[j]
      BY <1>3, <1>5, <1>6
    <3>2. QED
      BY ONLY <3>1, BeforeChanged
  <2>2. QED
    BY <1>3, <1>5, <2>1
<1>8. \A k : Index(u, k) = Index(t, k)
  BY <1>5 DEF Index
<1>9. \A j \in 0 .. t.size - 1 :
        OneOfEach(t.table[j]) /\ \A e \in ToSet(t.table[j]) : Index(t, e.key) = j
  BY DEF TableHolds
<1>10. TableHolds(u)
  BY <1>5, <1>6, <1>7, <1>8, <1>9 DEF TableHolds
<1>11. ASSUME NEW e
       PROVE  e \in TableEntries(u)
                <=> (e \in TableEntries(t) /\ e \notin ToSet(t.table[b])) \/ e \in ToSet(c)
  <2>1. e \in TableEntries(t) <=> \E j \in 0 .. t.size - 1 : e \in ToSet(t.table[j])
    BY <1>3, EntriesByBucket
  <2>2. e \in TableEntries(u) <=> \E j \in 0 .. t.size - 1 : e \in ToSet(u.table[j])
    BY <1>5, <1>6, EntriesByBucket
  <2>3. \A j \in 0 .. t.size - 1 : e \in ToSet(t.table[j]) => Index(t, e.key) = j
    BY <1>9
  <2>4. QED
    BY <1>5, <2>1, <2>2, <2>3
<1>12. QED
  BY <1>5, <1>10, <1>11 DEF u

\* A new entry is pushed to its chain.
LEMMA PushHolds ==
  ASSUME hash \in [Key -> Nat],
         NEW t, TableHolds(t), t.size > 0, NEW e \in Entry,
         \A f \in TableEntries(t) : f.key # e.key
  PROVE  /\ TableHolds(Push(t, e))
         /\ TableEntries(Push(t, e)) = TableEntries(t) \cup {e}
         /\ Push(t, e).size = t.size /\ Push(t, e).used = t.used + 1
<1> DEFINE b == Index(t, e.key)
           c == t.table[b]
           r == <<e>> \o c
           u == Push(t, e)
<1>1. b \in 0 .. t.size - 1
  <2>1. hash[e.key] \in Nat /\ t.size \in Nat
    BY EntryKey, TableChains DEF TableHolds
  <2>2. \A x \in Nat, y \in Nat : y > 0 => x % y \in 0 .. y - 1
    OBVIOUS
  <2>3. QED
    BY <2>1, <2>2 DEF Index
<1>2. /\ c \in Seq(Entry) /\ OneOfEach(c) /\ \A f \in ToSet(c) : Index(t, f.key) = b
      /\ t.used \in Nat /\ Len(c) \in Nat
  BY <1>1, TableChains DEF TableHolds
<1>3. ToSet(c) \subseteq TableEntries(t)
  BY <1>1, EntriesByBucket DEF TableHolds
<1>4. /\ r \in Seq(Entry) /\ Len(r) = Len(c) + 1 /\ ToSet(r) = {e} \cup ToSet(c)
      /\ OneOfEach(r)
  <2>1. \A f \in ToSet(c) : f.key # e.key
    BY <1>3
  <2> HIDE DEF c
  <2>2. QED
    BY <1>2, <2>1, PushedChain
<1>5. t \in [size : Nat, table : {t.table}, used : Nat] /\ DOMAIN t.table = 0 .. t.size - 1
  BY TableChains DEF TableHolds, IsTable
<1>6. u = [size |-> t.size, table |-> [t.table EXCEPT ![b] = r], used |-> t.used + 1]
  <2>1. u = [t EXCEPT !.table[b] = <<e>> \o @, !.used = @ + 1]
    BY DEF Push
  <2>2. u = [t EXCEPT !.table[b] = r, !.used = t.used + 1]
    BY <1>1, <1>5, <2>1
  <2> HIDE DEF u, r, b
  <2>3. QED
    BY <1>1, <1>5, <2>2
<1>7. t.used + 1 = t.used + Len(r) - Len(t.table[b])
  BY <1>2, <1>4
<1>8. \A f \in ToSet(r) : Index(t, f.key) = b
  BY <1>2, <1>4
<1> HIDE DEF r, u
<1>9. TableHolds(u) /\ TableEntries(u) = (TableEntries(t) \ ToSet(c)) \cup ToSet(r)
  <2> HIDE DEF b
  <2> DEFINE w == t.used + 1
  <2>1. w = t.used + Len(r) - Len(t.table[b])
    BY <1>7
  <2>2. u = WithBucket(t, b, r, w)
    BY <1>6 DEF WithBucket
  <2> HIDE DEF w
  <2>3. /\ TableHolds(t) /\ b \in 0 .. t.size - 1 /\ r \in Seq(Entry) /\ OneOfEach(r)
        /\ \A f \in ToSet(r) : Index(t, f.key) = b
    BY <1>1, <1>4, <1>8
  <2>4. LET z == WithBucket(t, b, r, w) IN
        /\ TableHolds(z)
        /\ TableEntries(z) = (TableEntries(t) \ ToSet(t.table[b])) \cup ToSet(r)
    BY ONLY <2>1, <2>3, BucketChanged
  <2>5. QED
    BY <2>2, <2>4
<1>10. TableEntries(u) = TableEntries(t) \cup {e}
  <2> HIDE DEF c
  <2> QED BY <1>3, <1>4, <1>9
<1>11. u.size = t.size /\ u.used = t.used + 1
  BY <1>6
<1>12. QED
  BY <1>9, <1>10, <1>11 DEF u

\* A table that has been made, and one that has not.
LEMMA EmptyTableHolds ==
  ASSUME NEW n \in Nat
  PROVE  /\ TableHolds(EmptyTable(n)) /\ TableEntries(EmptyTable(n)) = {}
         /\ EmptyTable(n).size = n /\ EmptyTable(n).used = 0
<1> DEFINE t == EmptyTable(n)
           B == Before(t)
           T == {j \in Nat : j <= n => B[j] = 0}
<1>1. t = [size |-> n, table |-> [i \in 0 .. n - 1 |-> << >>], used |-> 0]
  BY DEF EmptyTable
<1>2. t.size = n /\ t.used = 0 /\ \A j \in 0 .. n - 1 : t.table[j] = << >>
  BY <1>1
<1>3. IsTable(t)
  BY <1>1, EmptyChain DEF IsTable
<1>4. B[0] = 0 /\ \A j \in 0 .. n - 1 : B[j + 1] = B[j]
  <2>1. B[0] = 0
    BY <1>2, BeforeSteps
  <2>2. ASSUME NEW j \in 0 .. n - 1 PROVE B[j + 1] = B[j]
    <3>1. B[j + 1] = B[j] + Len(t.table[j]) /\ B[j] \in Nat
      <4>1. j \in 0 .. t.size - 1 /\ j \in 0 .. t.size
        BY <1>2
      <4> HIDE DEF t
      <4>2. QED
        BY <1>3, <4>1, BeforeGrows
    <3>2. Len(t.table[j]) = 0
      BY <1>2, EmptyChain
    <3>3. QED
      BY <3>1, <3>2
  <2>3. QED
    BY <2>1, <2>2
<1> HIDE DEF t, B
<1>5. \A j \in Nat : j \in T
  <2>1. 0 \in T
    BY <1>4
  <2>2. ASSUME NEW j \in Nat, j \in T PROVE j + 1 \in T
    BY <1>4, <2>2
  <2>3. QED
    <3> HIDE DEF T
    <3> QED BY <2>1, <2>2, AllNumbers
<1>6. B[n] = 0
  BY <1>5
<1>7. TableHolds(t)
  BY <1>2, <1>3, <1>6, EmptyChain DEF TableHolds, B
<1>8. TableEntries(t) = {}
  BY <1>2, <1>3, EmptyChain, EntriesByBucket
<1>9. QED
  BY <1>2, <1>7, <1>8 DEF t

LEMMA NoTableHolds ==
  /\ TableHolds(NoTable) /\ TableEntries(NoTable) = {}
  /\ NoTable.size = 0 /\ NoTable.used = 0
<1>1. NoTable = EmptyTable(0)
  BY DEF NoTable, EmptyTable
<1>2. QED
  BY <1>1, EmptyTableHolds

\* The chains of a chain's entries: pushed one after the other.
LEMMA PushAllSteps ==
  ASSUME NEW t, NEW c, NEW n \in Nat, Len(c) = n
  PROVE  \E s : /\ PushAll(t, c) = s[n] /\ s[0] = t
                /\ \A k \in 1 .. n : s[k] = Push(s[k - 1], c[k])
<1> DEFINE Upto(j) == \E r : r = [k \in 0 .. j |-> IF k = 0 THEN t ELSE Push(r[k - 1], c[k])]
           T == {j \in Nat : Upto(j)}
           W == CHOOSE r : r = [k \in 0 .. n |-> IF k = 0 THEN t ELSE Push(r[k - 1], c[k])]
<1>1. PushAll(t, c) = W[n]
  BY DEF PushAll
<1>2. 0 \in T
  <2> DEFINE r == [k \in 0 .. 0 |-> t]
  <2>1. r = [k \in 0 .. 0 |-> IF k = 0 THEN t ELSE Push(r[k - 1], c[k])]
    OBVIOUS
  <2> HIDE DEF r
  <2>2. Upto(0)
    BY <2>1
  <2>3. QED
    BY <2>2
<1>3. ASSUME NEW j \in Nat, j \in T PROVE j + 1 \in T
  <2>1. PICK r : r = [k \in 0 .. j |-> IF k = 0 THEN t ELSE Push(r[k - 1], c[k])]
    BY <1>3
  <2> DEFINE v == Push(r[j], c[j + 1])
             q == [k \in 0 .. j + 1 |-> IF k = j + 1 THEN v ELSE r[k]]
  <2>2. ASSUME NEW k \in 0 .. j + 1
        PROVE  q[k] = IF k = 0 THEN t ELSE Push(q[k - 1], c[k])
    <3>1. CASE k = j + 1
      <4>1. k - 1 = j /\ j # j + 1 /\ k # 0 /\ j \in 0 .. j + 1
        BY <3>1
      <4>2. q[k - 1] = r[j]
        BY <4>1
      <4>3. QED
        BY <3>1, <4>1, <4>2
    <3>2. CASE k # j + 1
      <4>1. k \in 0 .. j /\ (k # 0 => k - 1 \in 0 .. j + 1 /\ k - 1 # j + 1)
        BY <3>2
      <4>2. q[k] = r[k] /\ (k # 0 => q[k - 1] = r[k - 1])
        BY <3>2, <4>1
      <4>3. r[k] = IF k = 0 THEN t ELSE Push(r[k - 1], c[k])
        BY ONLY <2>1, <4>1
      <4>4. QED
        BY <4>2, <4>3
    <3>3. QED
      BY <3>1, <3>2
  <2>3. q = [k \in 0 .. j + 1 |-> q[k]]
    OBVIOUS
  <2> HIDE DEF q, v
  <2>4. q = [k \in 0 .. j + 1 |-> IF k = 0 THEN t ELSE Push(q[k - 1], c[k])]
    BY <2>2, <2>3
  <2>5. Upto(j + 1)
    BY <2>4
  <2>6. QED
    BY <2>5
<1>4. Upto(n)
  <2>1. n \in T
    <3> HIDE DEF T
    <3> QED BY <1>2, <1>3, AllNumbers
  <2>2. QED
    BY <2>1
<1>5. W = [k \in 0 .. n |-> IF k = 0 THEN t ELSE Push(W[k - 1], c[k])]
  BY <1>4
<1> HIDE DEF W
<1>6. W[0] = t
  BY <1>5
<1>7. \A k \in 1 .. n : W[k] = Push(W[k - 1], c[k])
  BY <1>5
<1>8. QED
  BY <1>1, <1>6, <1>7

\* A chain of new entries is pushed to their chains.
LEMMA PushAllHolds ==
  ASSUME hash \in [Key -> Nat],
         NEW t, TableHolds(t), t.size > 0, NEW c \in Seq(Entry), OneOfEach(c),
         \A e \in ToSet(c), f \in TableEntries(t) : f.key # e.key
  PROVE  LET u == PushAll(t, c) IN
         /\ TableHolds(u) /\ TableEntries(u) = TableEntries(t) \cup ToSet(c)
         /\ u.size = t.size /\ u.used = t.used + Len(c)
<1> DEFINE n == Len(c)
           New(m) == {c[p] : p \in 1 .. m}
<1>1. /\ n \in Nat /\ DOMAIN c = 1 .. n /\ \A p \in 1 .. n : c[p] \in Entry
      /\ ToSet(c) = New(n)
  BY ChainEntries
<1>2. t.size \in Nat /\ t.used \in Nat
  BY TableChains DEF TableHolds
<1>3. PICK s : /\ PushAll(t, c) = s[n] /\ s[0] = t
               /\ \A k \in 1 .. n : s[k] = Push(s[k - 1], c[k])
  <2>1. n \in Nat /\ Len(c) = n
    BY <1>1
  <2>2. QED
    BY ONLY <2>1, PushAllSteps
<1> DEFINE Good(m) == /\ TableHolds(s[m]) /\ TableEntries(s[m]) = TableEntries(t) \cup New(m)
                      /\ s[m].size = t.size /\ s[m].used = t.used + m
           T == {m \in Nat : Good(m)}
<1>4. 0 \in T
  <2>1. New(0) = {}
    OBVIOUS
  <2>2. QED
    BY <1>2, <1>3, <2>1
<1>5. ASSUME NEW m \in Nat, m + 1 <= n /\ m \in T PROVE m + 1 \in T
  <2>1. m + 1 \in 1 .. n /\ (m + 1) - 1 = m
    BY <1>1, <1>5
  <2> DEFINE e == c[m + 1]
             v == s[m]
  <2>2. Good(m)
    BY <1>5
  <2>3. e \in Entry /\ s[m + 1] = Push(v, e)
    BY <1>1, <1>3, <2>1
  <2>4. \A f \in TableEntries(v) : f.key # e.key
    <3> SUFFICES ASSUME NEW f \in TableEntries(v) PROVE f.key # e.key
      OBVIOUS
    <3>1. CASE f \in TableEntries(t)
      <4>1. e \in ToSet(c)
        BY <1>1, <2>1
      <4>2. QED
        BY <3>1, <4>1
    <3>2. CASE f \in New(m)
      <4>1. PICK p \in 1 .. m : f = c[p]
        BY <3>2
      <4>2. p \in 1 .. n /\ p # m + 1
        BY <2>1
      <4>3. QED
        BY <1>1, <2>1, <4>1, <4>2 DEF OneOfEach
    <3>3. QED
      BY <2>2, <3>1, <3>2
  <2>5. TableHolds(v) /\ v.size > 0 /\ v.size = t.size /\ v.used = t.used + m
    BY <2>2
  <2>6. New(m + 1) = New(m) \cup {e}
    <3>1. 1 .. m + 1 = (1 .. m) \cup {m + 1}
      BY <2>1
    <3>2. QED
      BY <3>1
  <2>7. TableEntries(v) = TableEntries(t) \cup New(m)
    BY <2>2
  <2> HIDE DEF v, e, New
  <2>8. /\ TableHolds(Push(v, e)) /\ TableEntries(Push(v, e)) = TableEntries(v) \cup {e}
        /\ Push(v, e).size = v.size /\ Push(v, e).used = v.used + 1
    BY <2>3, <2>4, <2>5, PushHolds
  <2>9. /\ TableHolds(s[m + 1]) /\ TableEntries(s[m + 1]) = TableEntries(t) \cup New(m + 1)
        /\ s[m + 1].size = t.size
    BY <2>3, <2>5, <2>6, <2>7, <2>8
  <2>10. s[m + 1].used = t.used + (m + 1)
    <3>1. s[m + 1].used = v.used + 1
      BY <2>3, <2>8
    <3>2. v.used = t.used + m
      BY <2>5
    <3>3. QED
      BY ONLY <1>2, <3>1, <3>2, m \in Nat
  <2>11. QED
    BY <2>9, <2>10
<1>6. n \in T
  <2> HIDE DEF T, n
  <2> QED BY <1>1, <1>4, <1>5, UpTo
<1>7. QED
  BY <1>1, <1>3, <1>6

-----------------------------------------------------------------------------
(* The sizes of tables.                                                    *)

\* d doubles from the initial size on, n times.
Doubles(f, n) == f[0] = InitialSize /\ \A k \in 1 .. n : f[k] = 2 * f[k - 1]

\* What _dictNextPower returns: the first of these numbers that is enough.
LEMMA NextPowerSteps ==
  ASSUME NEW n \in Nat
  PROVE  \E f : /\ Doubles(f, n)
                /\ NextPower(n) = f[CHOOSE k \in 0 .. n :
                                      f[k] >= n /\ \A j \in 0 .. k - 1 : f[j] < n]
<1> DEFINE Upto(j) == \E r : r = [k \in 0 .. j |-> IF k = 0 THEN InitialSize ELSE 2 * r[k - 1]]
           T == {j \in Nat : Upto(j)}
           W == CHOOSE r : r = [k \in 0 .. n |-> IF k = 0 THEN InitialSize ELSE 2 * r[k - 1]]
<1>1. NextPower(n) = W[CHOOSE k \in 0 .. n : W[k] >= n /\ \A j \in 0 .. k - 1 : W[j] < n]
  BY DEF NextPower
<1>2. 0 \in T
  <2> DEFINE r == [k \in 0 .. 0 |-> InitialSize]
  <2>1. r = [k \in 0 .. 0 |-> IF k = 0 THEN InitialSize ELSE 2 * r[k - 1]]
    OBVIOUS
  <2> HIDE DEF r
  <2>2. Upto(0)
    BY <2>1
  <2>3. QED
    BY <2>2
<1>3. ASSUME NEW j \in Nat, j \in T PROVE j + 1 \in T
  <2>1. PICK r : r = [k \in 0 .. j |-> IF k = 0 THEN InitialSize ELSE 2 * r[k - 1]]
    BY <1>3
  <2> DEFINE v == 2 * r[j]
             q == [k \in 0 .. j + 1 |-> IF k = j + 1 THEN v ELSE r[k]]
  <2>2. ASSUME NEW k \in 0 .. j + 1
        PROVE  q[k] = IF k = 0 THEN InitialSize ELSE 2 * q[k - 1]
    <3>1. CASE k = j + 1
      <4>1. k - 1 = j /\ j # j + 1 /\ k # 0 /\ j \in 0 .. j + 1
        BY <3>1
      <4>2. q[k - 1] = r[j]
        BY <4>1
      <4>3. QED
        BY <3>1, <4>1, <4>2
    <3>2. CASE k # j + 1
      <4>1. k \in 0 .. j /\ (k # 0 => k - 1 \in 0 .. j + 1 /\ k - 1 # j + 1)
        BY <3>2
      <4>2. q[k] = r[k] /\ (k # 0 => q[k - 1] = r[k - 1])
        BY <3>2, <4>1
      <4>3. r[k] = IF k = 0 THEN InitialSize ELSE 2 * r[k - 1]
        BY ONLY <2>1, <4>1
      <4>4. QED
        BY <4>2, <4>3
    <3>3. QED
      BY <3>1, <3>2
  <2>3. q = [k \in 0 .. j + 1 |-> q[k]]
    OBVIOUS
  <2> HIDE DEF q, v
  <2>4. q = [k \in 0 .. j + 1 |-> IF k = 0 THEN InitialSize ELSE 2 * q[k - 1]]
    BY <2>2, <2>3
  <2>5. Upto(j + 1)
    BY <2>4
  <2>6. QED
    BY <2>5
<1>4. Upto(n)
  <2>1. n \in T
    <3> HIDE DEF T
    <3> QED BY <1>2, <1>3, AllNumbers
  <2>2. QED
    BY <2>1
<1>5. W = [k \in 0 .. n |-> IF k = 0 THEN InitialSize ELSE 2 * W[k - 1]]
  BY <1>4
<1> HIDE DEF W
<1>6. Doubles(W, n)
  <2>1. W[0] = InitialSize
    BY <1>5
  <2>2. \A k \in 1 .. n : W[k] = 2 * W[k - 1]
    BY <1>5
  <2>3. QED
    BY <2>1, <2>2 DEF Doubles
<1>7. QED
  BY <1>1, <1>6

\* These numbers grow faster than their places.
LEMMA DoublesGrow ==
  ASSUME NEW n \in Nat, NEW f, Doubles(f, n)
  PROVE  \A k \in 0 .. n : f[k] \in Nat /\ k < f[k]
<1> DEFINE T == {k \in Nat : f[k] \in Nat /\ k < f[k]}
<1>1. 0 \in T
  BY DictAssumption DEF Doubles
<1>2. ASSUME NEW k \in Nat, k + 1 <= n /\ k \in T PROVE k + 1 \in T
  <2>1. k + 1 \in 1 .. n /\ (k + 1) - 1 = k
    BY <1>2
  <2>2. f[k + 1] = 2 * f[k]
    BY <2>1 DEF Doubles
  <2>3. f[k] \in Nat /\ k < f[k]
    BY <1>2
  <2>4. QED
    BY <2>2, <2>3
<1>3. \A k \in 0 .. n : k \in T
  <2> HIDE DEF T
  <2> QED BY <1>1, <1>2, UpTo
<1>4. QED
  BY <1>3

\* Doubling has one outcome.
LEMMA DoublesSame ==
  ASSUME NEW n \in Nat, NEW m \in Nat, NEW f, NEW g, Doubles(f, n), Doubles(g, m),
         NEW l \in Nat, l <= n, l <= m
  PROVE  \A k \in 0 .. l : f[k] = g[k]
<1> DEFINE T == {k \in Nat : f[k] = g[k]}
<1>1. 0 \in T
  BY DEF Doubles
<1>2. ASSUME NEW k \in Nat, k + 1 <= l /\ k \in T PROVE k + 1 \in T
  <2>1. k + 1 \in 1 .. n /\ k + 1 \in 1 .. m /\ (k + 1) - 1 = k
    BY <1>2
  <2>2. f[k + 1] = 2 * f[k] /\ g[k + 1] = 2 * g[k]
    BY <2>1 DEF Doubles
  <2>3. QED
    BY <1>2, <2>2
<1>3. \A k \in 0 .. l : k \in T
  <2> HIDE DEF T
  <2> QED BY <1>1, <1>2, UpTo
<1>4. QED
  BY <1>3

\* The first that is enough is the last but one that is not, doubled.
LEMMA NextPowerPlace ==
  ASSUME NEW n \in Nat
  PROVE  \E f : \E k \in 0 .. n :
           Doubles(f, n) /\ NextPower(n) = f[k] /\ f[k] >= n /\ \A j \in 0 .. k - 1 : f[j] < n
<1>1. PICK f : /\ Doubles(f, n)
               /\ NextPower(n) = f[CHOOSE k \in 0 .. n :
                                     f[k] >= n /\ \A j \in 0 .. k - 1 : f[j] < n]
  BY NextPowerSteps
<1>2. \A k \in 0 .. n : f[k] \in Nat /\ k < f[k]
  BY <1>1, DoublesGrow
<1> DEFINE T == {k \in 0 .. n : f[k] >= n}
<1>3. T \in SUBSET Nat /\ T # {}
  BY <1>2
<1>4. PICK k \in T : \A y \in T : k <= y
  <2> HIDE DEF T
  <2> QED BY <1>3, LeastNumber
<1>5. k \in 0 .. n /\ f[k] >= n /\ \A j \in 0 .. k - 1 : f[j] < n
  <2>1. ASSUME NEW j \in 0 .. k - 1 PROVE f[j] < n
    <3>1. j \in 0 .. n /\ j \notin T
      BY <1>4
    <3>2. QED
      BY <1>2, <3>1
  <2>2. QED
    BY <1>4, <2>1
<1> DEFINE P(i) == i \in 0 .. n /\ f[i] >= n /\ \A j \in 0 .. i - 1 : f[j] < n
           h == CHOOSE i \in 0 .. n : f[i] >= n /\ \A j \in 0 .. i - 1 : f[j] < n
<1>6. P(h)
  BY <1>5
<1>7. NextPower(n) = f[h]
  BY <1>1
<1> HIDE DEF h
<1>8. QED
  BY <1>1, <1>6, <1>7 DEF P

LEMMA NextPowerSize ==
  ASSUME NEW n \in Nat
  PROVE  /\ NextPower(n) \in Nat /\ NextPower(n) > 0 /\ NextPower(n) >= n
         /\ NextPower(NextPower(n)) = NextPower(n)
<1>1. PICK f : \E k \in 0 .. n :
           Doubles(f, n) /\ NextPower(n) = f[k] /\ f[k] >= n /\ \A j \in 0 .. k - 1 : f[j] < n
  BY NextPowerPlace
<1>2. PICK k \in 0 .. n :
           Doubles(f, n) /\ NextPower(n) = f[k] /\ f[k] >= n /\ \A j \in 0 .. k - 1 : f[j] < n
  BY <1>1
<1>3. \A j \in 0 .. n : f[j] \in Nat /\ j < f[j]
  BY <1>2, DoublesGrow
<1> DEFINE m == f[k]
<1>4. m \in Nat /\ m > 0 /\ m >= n /\ k < m /\ NextPower(n) = m
  BY <1>2, <1>3
<1> HIDE DEF m
<1>5. PICK g : \E l \in 0 .. m :
          Doubles(g, m) /\ NextPower(m) = g[l] /\ g[l] >= m /\ \A j \in 0 .. l - 1 : g[j] < m
  BY <1>4, NextPowerPlace
<1>6. PICK l \in 0 .. m :
           Doubles(g, m) /\ NextPower(m) = g[l] /\ g[l] >= m /\ \A j \in 0 .. l - 1 : g[j] < m
  BY <1>5
<1>7. \A j \in 0 .. k : f[j] = g[j]
  <2>1. k \in Nat /\ k <= n /\ k <= m
    BY <1>4
  <2>2. QED
    BY <1>2, <1>4, <1>6, <2>1, DoublesSame
<1>8. g[k] = m
  BY <1>7 DEF m
<1>9. ~(k < l)
  <2> SUFFICES ASSUME k < l PROVE FALSE
    OBVIOUS
  <2>1. k \in 0 .. l - 1
    BY <1>4
  <2>2. QED
    BY <1>4, <1>6, <1>8, <2>1
<1>10. ~(l < k)
  <2> SUFFICES ASSUME l < k PROVE FALSE
    OBVIOUS
  <2>1. l \in 0 .. k - 1 /\ l \in 0 .. k /\ l \in 0 .. n
    BY <1>4
  <2>2. f[l] < n /\ f[l] = g[l] /\ f[l] \in Nat
    BY <1>2, <1>3, <1>7, <2>1
  <2>3. QED
    BY <1>4, <1>6, <2>2
<1>11. l = k
  BY <1>4, <1>9, <1>10
<1>12. QED
  BY <1>4, <1>6, <1>8, <1>11

-----------------------------------------------------------------------------
(* Dictionaries.                                                           *)

\* The dictionary with the tables t and u.
Dict2(t, u, r, p) ==
  [ht |-> [i \in 0 .. 1 |-> IF i = 0 THEN t ELSE u], rehashidx |-> r, pauserehash |-> p]

\* It is empty, or _dictNextPower has chosen its size.
Sized(t) == t.size = 0 \/ t.size = NextPower(t.size)

KeysOf(E) == {e.key : e \in E}

\* The keys are counted.
Counted(E, n) == IsFiniteSet(KeysOf(E)) /\ Cardinality(KeysOf(E)) = n

\* The tables hold together, no key is in both, and the buckets of the first
\* before r have been moved.
PartsHold(t, u, r) ==
  /\ TableHolds(t) /\ TableHolds(u) /\ Sized(t) /\ Sized(u)
  /\ \A e \in TableEntries(t), f \in TableEntries(u) : e.key # f.key
  /\ Counted(TableEntries(t) \cup TableEntries(u), t.used + u.used)
  /\ r \in -1 .. t.size
  /\ r = -1 => u = NoTable
  /\ r # -1 => /\ t.size > 0 /\ u.size > 0
               /\ \A j \in 0 .. r - 1 : t.table[j] = << >>

DictHolds(x) ==
  /\ x = Dict2(x.ht[0], x.ht[1], x.rehashidx, x.pauserehash)
  /\ x.pauserehash \in Int
  /\ PartsHold(x.ht[0], x.ht[1], x.rehashidx)

\* A dictionary and its parts.
LEMMA DictParts ==
  ASSUME NEW t, NEW u, NEW r, NEW p, NEW x, x = Dict2(t, u, r, p)
  PROVE  /\ x.ht[0] = t /\ x.ht[1] = u /\ x.rehashidx = r /\ x.pauserehash = p
         /\ Entries(x) = TableEntries(t) \cup TableEntries(u)
         /\ Size(x) = t.used + u.used /\ (IsRehashing(x) <=> r # -1)
         /\ x = Dict2(x.ht[0], x.ht[1], x.rehashidx, x.pauserehash)
<1>1. x.ht[0] = t /\ x.ht[1] = u /\ x.rehashidx = r /\ x.pauserehash = p
  BY DEF Dict2
<1>2. x = Dict2(x.ht[0], x.ht[1], x.rehashidx, x.pauserehash)
  BY <1>1
<1>3. QED
  BY <1>1, <1>2 DEF Entries, Size, IsRehashing

\* Another table, another index.
WithFirst(x, v)  == [x EXCEPT !.ht[0] = v]
WithSecond(x, v) == [x EXCEPT !.ht[1] = v]
WithIndex(x, v)  == [x EXCEPT !.rehashidx = v]
WithPause(x, v)  == [x EXCEPT !.pauserehash = v]

LEMMA SetFirst ==
  ASSUME NEW t, NEW u, NEW r, NEW p, NEW v
  PROVE  WithFirst(Dict2(t, u, r, p), v) = Dict2(v, u, r, p)
<1> DEFINE x == Dict2(t, u, r, p)
           h == [i \in 0 .. 1 |-> IF i = 0 THEN t ELSE u]
           g == [i \in 0 .. 1 |-> IF i = 0 THEN v ELSE u]
<1>1. x = [ht |-> h, rehashidx |-> r, pauserehash |-> p]
  BY DEF Dict2
<1>2. Dict2(v, u, r, p) = [ht |-> g, rehashidx |-> r, pauserehash |-> p]
  BY DEF Dict2
<1>3. h = [i \in 0 .. 1 |-> IF i = 0 THEN t ELSE u] /\ g = [i \in 0 .. 1 |-> IF i = 0 THEN v ELSE u]
  OBVIOUS
<1> HIDE DEF x, h, g
<1>4. [h EXCEPT ![0] = v] = g
  BY ONLY <1>3
<1>5. x \in [ht : {h}, rehashidx : {r}, pauserehash : {p}]
  BY <1>1
<1>6. [x EXCEPT !.ht[0] = v] = [ht |-> [h EXCEPT ![0] = v], rehashidx |-> r, pauserehash |-> p]
  BY ONLY <1>5
<1>7. QED
  BY <1>2, <1>4, <1>6 DEF WithFirst, x

LEMMA SetSecond ==
  ASSUME NEW t, NEW u, NEW r, NEW p, NEW v
  PROVE  WithSecond(Dict2(t, u, r, p), v) = Dict2(t, v, r, p)
<1> DEFINE x == Dict2(t, u, r, p)
           h == [i \in 0 .. 1 |-> IF i = 0 THEN t ELSE u]
           g == [i \in 0 .. 1 |-> IF i = 0 THEN t ELSE v]
<1>1. x = [ht |-> h, rehashidx |-> r, pauserehash |-> p]
  BY DEF Dict2
<1>2. Dict2(t, v, r, p) = [ht |-> g, rehashidx |-> r, pauserehash |-> p]
  BY DEF Dict2
<1>3. h = [i \in 0 .. 1 |-> IF i = 0 THEN t ELSE u] /\ g = [i \in 0 .. 1 |-> IF i = 0 THEN t ELSE v]
  OBVIOUS
<1> HIDE DEF x, h, g
<1>4. [h EXCEPT ![1] = v] = g
  BY ONLY <1>3
<1>5. x \in [ht : {h}, rehashidx : {r}, pauserehash : {p}]
  BY <1>1
<1>6. [x EXCEPT !.ht[1] = v] = [ht |-> [h EXCEPT ![1] = v], rehashidx |-> r, pauserehash |-> p]
  BY ONLY <1>5
<1>7. QED
  BY <1>2, <1>4, <1>6 DEF WithSecond, x

LEMMA SetIndex ==
  ASSUME NEW t, NEW u, NEW r, NEW p, NEW v
  PROVE  WithIndex(Dict2(t, u, r, p), v) = Dict2(t, u, v, p)
<1> DEFINE x == Dict2(t, u, r, p)
           h == [i \in 0 .. 1 |-> IF i = 0 THEN t ELSE u]
<1>1. x = [ht |-> h, rehashidx |-> r, pauserehash |-> p]
      /\ Dict2(t, u, v, p) = [ht |-> h, rehashidx |-> v, pauserehash |-> p]
  BY DEF Dict2
<1> HIDE DEF x, h
<1>2. x \in [ht : {h}, rehashidx : {r}, pauserehash : {p}]
  BY <1>1
<1>3. [x EXCEPT !.rehashidx = v] = [ht |-> h, rehashidx |-> v, pauserehash |-> p]
  BY ONLY <1>2
<1>4. QED
  BY <1>1, <1>3 DEF WithIndex, x

LEMMA SetPause ==
  ASSUME NEW t, NEW u, NEW r, NEW p, NEW v
  PROVE  WithPause(Dict2(t, u, r, p), v) = Dict2(t, u, r, v)
<1> DEFINE x == Dict2(t, u, r, p)
           h == [i \in 0 .. 1 |-> IF i = 0 THEN t ELSE u]
<1>1. x = [ht |-> h, rehashidx |-> r, pauserehash |-> p]
      /\ Dict2(t, u, r, v) = [ht |-> h, rehashidx |-> r, pauserehash |-> v]
  BY DEF Dict2
<1> HIDE DEF x, h
<1>2. x \in [ht : {h}, rehashidx : {r}, pauserehash : {p}]
  BY <1>1
<1>3. [x EXCEPT !.pauserehash = v] = [ht |-> h, rehashidx |-> r, pauserehash |-> v]
  BY ONLY <1>2
<1>4. QED
  BY <1>1, <1>3 DEF WithPause, x

LEMMA DictMade ==
  ASSUME NEW t, NEW u, NEW r, NEW p \in Int, PartsHold(t, u, r)
  PROVE  DictHolds(Dict2(t, u, r, p))
<1> DEFINE x == Dict2(t, u, r, p)
<1> HIDE DEF x
<1>1. /\ x.ht[0] = t /\ x.ht[1] = u /\ x.rehashidx = r /\ x.pauserehash = p
      /\ x = Dict2(x.ht[0], x.ht[1], x.rehashidx, x.pauserehash)
  BY DictParts DEF x
<1>2. QED
  BY <1>1 DEF DictHolds, x

\* What a dictionary that holds together is made of.
LEMMA DictTaken ==
  ASSUME NEW x, DictHolds(x)
  PROVE  /\ x = Dict2(x.ht[0], x.ht[1], x.rehashidx, x.pauserehash)
         /\ PartsHold(x.ht[0], x.ht[1], x.rehashidx) /\ x.pauserehash \in Int
         /\ Entries(x) = TableEntries(x.ht[0]) \cup TableEntries(x.ht[1])
         /\ Size(x) = x.ht[0].used + x.ht[1].used
         /\ IsRehashing(x) <=> x.rehashidx # -1
  BY DEF DictHolds, Entries, Size, IsRehashing

\* Without entries there is nothing to count.
LEMMA UsedEntries ==
  ASSUME NEW t, TableHolds(t)
  PROVE  t.used = 0 <=> TableEntries(t) = {}
<1> DEFINE n == t.size
           B == Before(t)
<1>1. /\ n \in Nat /\ t.used = B[n] /\ t.used \in Nat /\ IsTable(t)
      /\ \A j \in 0 .. n - 1 : /\ t.table[j] \in Seq(Entry) /\ Len(t.table[j]) \in Nat
                               /\ Len(t.table[j]) = 0 <=> t.table[j] = << >>
  <2>1. IsTable(t) /\ t.used = Before(t)[t.size]
    BY DEF TableHolds
  <2>2. QED
    BY <2>1, TableChains
<1>2. /\ B[0] = 0
      /\ \A j \in 0 .. n : B[j] \in Nat
      /\ \A j \in 0 .. n - 1 : B[j + 1] = B[j] + Len(t.table[j])
      /\ \A j \in 0 .. n - 1 : B[j] + Len(t.table[j]) <= B[n]
  BY <1>1, BeforeGrows, BeforeSteps
<1>3. \A e : e \in TableEntries(t) <=> \E j \in 0 .. n - 1 : e \in ToSet(t.table[j])
  BY <1>1, EntriesByBucket
<1> HIDE DEF B, n
<1>4. ASSUME t.used = 0 PROVE TableEntries(t) = {}
  <2> SUFFICES ASSUME NEW j \in 0 .. n - 1 PROVE ToSet(t.table[j]) = {}
    BY <1>3
  <2>1. j \in 0 .. n
    BY <1>1
  <2>2. Len(t.table[j]) = 0
    BY <1>1, <1>2, <1>4, <2>1
  <2>3. t.table[j] = << >>
    BY <1>1, <2>2
  <2>4. QED
    BY <2>3, EmptyChain
<1>5. ASSUME TableEntries(t) = {} PROVE t.used = 0
  <2> DEFINE T == {j \in Nat : B[j] = 0}
  <2>1. 0 \in T
    BY <1>2
  <2>2. ASSUME NEW j \in Nat, j + 1 <= n /\ j \in T PROVE j + 1 \in T
    <3>1. j \in 0 .. n - 1
      BY <1>1, <2>2
    <3>2. Len(t.table[j]) = 0
      <4>1. ToSet(t.table[j]) = {} /\ t.table[j] \in Seq(Entry)
        BY <1>1, <1>3, <1>5, <3>1
      <4>2. \A c \in Seq(Entry) : ToSet(c) = {} => Len(c) = 0
        <5> SUFFICES ASSUME NEW c \in Seq(Entry), ToSet(c) = {} PROVE Len(c) = 0
          OBVIOUS
        <5>1. Len(c) \in Nat /\ ToSet(c) = {c[p] : p \in 1 .. Len(c)}
          BY ChainEntries
        <5>2. Len(c) # 0 => 1 \in 1 .. Len(c)
          BY <5>1
        <5>3. QED
          BY <5>1, <5>2
      <4>3. QED
        BY <4>1, <4>2
    <3>3. QED
      BY <1>2, <2>2, <3>1, <3>2
  <2>3. \A j \in 0 .. n : j \in T
    <3> HIDE DEF T
    <3> QED BY <1>1, <2>1, <2>2, UpTo
  <2>4. QED
    BY <1>1, <2>3
<1>6. QED
  BY <1>4, <1>5

\* In a table of no bucket there is no entry.
LEMMA NoBuckets ==
  ASSUME NEW t, TableHolds(t), t.size = 0
  PROVE  t.used = 0 /\ TableEntries(t) = {}
<1>1. TableEntries(t) = {}
  BY EntriesByBucket DEF TableHolds
<1>2. QED
  BY <1>1, UsedEntries

\* The first table with entries has a bucket to move.
LEMMA NextExists ==
  ASSUME NEW t, NEW u, NEW r, PartsHold(t, u, r), r # -1, t.used # 0
  PROVE  /\ r \in 0 .. t.size - 1
         /\ \E i \in r .. t.size - 1 :
              t.table[i] # << >> /\ \A j \in r .. i - 1 : t.table[j] = << >>
<1>1. /\ t.size \in Nat /\ r \in 0 .. t.size /\ TableHolds(t) /\ IsTable(t)
      /\ \A j \in 0 .. r - 1 : t.table[j] = << >>
  BY TableChains DEF PartsHold, TableHolds
<1>2. PICK e : e \in TableEntries(t)
  BY <1>1, UsedEntries
<1>3. PICK b \in 0 .. t.size - 1 : e \in ToSet(t.table[b])
  BY <1>1, <1>2, EntriesByBucket
<1>4. t.table[b] # << >>
  BY <1>3, EmptyChain
<1>5. b \in r .. t.size - 1
  BY <1>1, <1>4
<1> DEFINE T == {i \in r .. t.size - 1 : t.table[i] # << >>}
<1>6. T \in SUBSET Nat /\ T # {}
  BY <1>1, <1>4, <1>5
<1>7. PICK i \in T : \A y \in T : i <= y
  <2> HIDE DEF T
  <2> QED BY <1>6, LeastNumber
<1>8. \A j \in r .. i - 1 : t.table[j] = << >>
  <2> SUFFICES ASSUME NEW j \in r .. i - 1 PROVE t.table[j] = << >>
    OBVIOUS
  <2>1. j \in r .. t.size - 1 /\ ~(i <= j)
    BY <1>1
  <2>2. QED
    BY <1>7, <2>1
<1>9. QED
  BY <1>1, <1>5, <1>7, <1>8

-----------------------------------------------------------------------------
(* Resizing.                                                               *)

\* The keys and the values are the same, and so is the pausing.
Same(x, y) == Entries(y) = Entries(x) /\ y.pauserehash = x.pauserehash

\* No table of another size has been made.
Sizes(x)        == {x.ht[0].size, x.ht[1].size}
SizesFrom(x, y) == Sizes(y) \subseteq Sizes(x) \cup {0}

\* A key is in a table once.
LEMMA KeyOnce ==
  ASSUME NEW t, TableHolds(t), NEW e \in TableEntries(t), NEW f \in TableEntries(t),
         e.key = f.key
  PROVE  e = f
<1>1. PICK i \in 0 .. t.size - 1 : e \in ToSet(t.table[i])
  BY EntriesByBucket DEF TableHolds
<1>2. PICK j \in 0 .. t.size - 1 : f \in ToSet(t.table[j])
  BY EntriesByBucket DEF TableHolds
<1>3. i = j
  BY <1>1, <1>2 DEF TableHolds
<1>4. t.table[i] \in Seq(Entry) /\ OneOfEach(t.table[i])
  BY TableChains DEF TableHolds
<1>5. PICK p \in DOMAIN t.table[i] : e = t.table[i][p]
  BY <1>1 DEF ToSet
<1>6. PICK q \in DOMAIN t.table[i] : f = t.table[i][q]
  BY <1>2, <1>3 DEF ToSet
<1>7. QED
  BY <1>4, <1>5, <1>6 DEF OneOfEach

\* _dictExpand makes a first table, or a second one to move the entries to.
LEMMA ExpandHolds ==
  ASSUME NEW x, DictHolds(x), NEW n \in Nat
  PROVE  LET y == Expand(x, n) IN
         /\ DictHolds(y) /\ Same(x, y)
         /\ x.ht[0].size > 0 => y.ht[0].size > 0
         /\ n = InitialSize => y.ht[0].size > 0
<1> DEFINE y == Expand(x, n)
           N == NextPower(n)
           t == x.ht[0]
           u == x.ht[1]
           r == x.rehashidx
           p == x.pauserehash
           e == EmptyTable(N)
<1>1. /\ x = Dict2(t, u, r, p) /\ PartsHold(t, u, r) /\ p \in Int
      /\ Entries(x) = TableEntries(t) \cup TableEntries(u)
      /\ Size(x) = t.used + u.used /\ (IsRehashing(x) <=> r # -1)
  BY DictTaken
<1>2. /\ N \in Nat /\ N > 0 /\ N >= n /\ NextPower(N) = N
      /\ TableHolds(e) /\ TableEntries(e) = {} /\ e.size = N /\ e.used = 0 /\ Sized(e)
  BY NextPowerSize, EmptyTableHolds DEF Sized
<1>3. t.size \in Nat /\ t.used \in Nat /\ TableHolds(t)
  BY <1>1, TableChains DEF PartsHold, TableHolds
<1>4. CASE ExpandRefuses(x, n)
  <2>1. y = x
    BY <1>4 DEF Expand
  <2>2. n = InitialSize => x.ht[0].size > 0
    <3> SUFFICES ASSUME n = InitialSize, t.size = 0 PROVE FALSE
      BY <1>3
    <3>1. r = -1
      BY <1>1 DEF PartsHold
    <3>2. t.used = 0
      BY <1>3, NoBuckets
    <3>3. N # t.size
      BY <1>2
    <3>4. QED
      BY <1>1, <1>4, <3>1, <3>2, <3>3 DEF ExpandRefuses
  <2>3. QED
    BY <2>1, <2>2 DEF Same
<1>5. CASE ~ExpandRefuses(x, n)
  <2>1. r = -1 /\ u = NoTable
    BY <1>1, <1>5 DEF ExpandRefuses, PartsHold
  <2>2. CASE t.size = 0
    <3>1. y = Dict2(e, u, r, p)
      <4>1. y = WithFirst(x, e)
        BY <1>5, <2>2 DEF Expand, WithFirst
      <4> HIDE DEF t, u, r, p, e, y
      <4>2. QED
        BY <1>1, <4>1, SetFirst
    <3>2. t.used = 0 /\ TableEntries(t) = {}
      BY <1>3, <2>2, NoBuckets
    <3> HIDE DEF e, t, u, r, p, N, y
    <3>3. PartsHold(e, u, r)
      BY <1>1, <1>2, <2>1, <3>2 DEF PartsHold
    <3>4. DictHolds(y)
      BY <1>1, <3>1, <3>3, DictMade
    <3>5. Entries(y) = TableEntries(e) \cup TableEntries(u) /\ y.pauserehash = p /\ y.ht[0] = e
      BY ONLY <3>1, DictParts
    <3>6. Entries(y) = Entries(x)
      BY <1>1, <1>2, <3>2, <3>5
    <3>7. QED
      BY <1>2, <3>4, <3>5, <3>6 DEF Same, y, p
  <2>3. CASE t.size # 0
    <3> DEFINE o == 0
    <3>1. y = Dict2(t, e, o, p)
      <4>1. y = WithIndex(WithSecond(x, e), o)
        BY <1>5, <2>3 DEF Expand, WithIndex, WithSecond
      <4> HIDE DEF t, u, r, p, e, y, o
      <4>2. QED
        BY <1>1, <4>1, SetSecond, SetIndex
    <3>2. NoTable.used = 0 /\ TableEntries(NoTable) = {}
      BY NoTableHolds
    <3> HIDE DEF e, t, u, r, p, N, y
    <3>3. PartsHold(t, e, o)
      BY <1>1, <1>2, <1>3, <2>1, <2>3, <3>2 DEF PartsHold
    <3> HIDE DEF o
    <3>4. DictHolds(y)
      BY <1>1, <3>1, <3>3, DictMade
    <3>5. Entries(y) = TableEntries(t) \cup TableEntries(e) /\ y.pauserehash = p /\ y.ht[0] = t
      BY ONLY <3>1, DictParts
    <3>6. Entries(y) = Entries(x) /\ y.pauserehash = p /\ y.ht[0] = t
      BY <1>1, <1>2, <2>1, <3>2, <3>5
    <3>7. QED
      BY <1>3, <2>3, <3>4, <3>6 DEF Same, t, p, y
  <2>4. QED
    BY <2>2, <2>3
<1>6. QED
  BY <1>4, <1>5

\* _dictExpandIfNeeded: afterwards there is a bucket to add to.
LEMMA ExpandIfNeededHolds ==
  ASSUME NEW x, DictHolds(x)
  PROVE  LET y == ExpandIfNeeded(x) IN DictHolds(y) /\ Same(x, y) /\ y.ht[0].size > 0
<1>1. /\ PartsHold(x.ht[0], x.ht[1], x.rehashidx) /\ (IsRehashing(x) <=> x.rehashidx # -1)
      /\ x.ht[0].size \in Nat /\ x.ht[0].used \in Nat
  BY DictTaken, TableChains DEF PartsHold, TableHolds
<1>2. CASE IsRehashing(x)
  BY <1>1, <1>2 DEF ExpandIfNeeded, PartsHold, Same
<1>3. CASE ~IsRehashing(x) /\ x.ht[0].size = 0
  <2>1. ExpandIfNeeded(x) = Expand(x, InitialSize)
    BY <1>3 DEF ExpandIfNeeded
  <2>2. InitialSize \in Nat
    BY DictAssumption
  <2>3. QED
    BY <2>1, <2>2, ExpandHolds
<1>4. CASE ~IsRehashing(x) /\ x.ht[0].size # 0
  <2> DEFINE n == x.ht[0].used + 1
  <2>1. ExpandIfNeeded(x) = x \/ ExpandIfNeeded(x) = Expand(x, n)
    BY <1>4 DEF ExpandIfNeeded
  <2>2. n \in Nat /\ x.ht[0].size > 0
    BY <1>1, <1>4
  <2> HIDE DEF n
  <2>3. DictHolds(Expand(x, n)) /\ Same(x, Expand(x, n)) /\ Expand(x, n).ht[0].size > 0
    BY <2>2, ExpandHolds
  <2>4. QED
    BY <2>1, <2>2, <2>3 DEF Same
<1>5. QED
  BY <1>2, <1>3, <1>4

\* A bucket is moved.
LEMMA MoveBucketHolds ==
  ASSUME hash \in [Key -> Nat],
         NEW x, DictHolds(x), IsRehashing(x),
         NEW i \in x.rehashidx .. x.ht[0].size - 1,
         \A j \in x.rehashidx .. i - 1 : x.ht[0].table[j] = << >>
  PROVE  LET y == MoveBucket(x, i) IN
         DictHolds(y) /\ Same(x, y) /\ SizesFrom(x, y) /\ IsRehashing(y)
<1> DEFINE y == MoveBucket(x, i)
           t == x.ht[0]
           u == x.ht[1]
           r == x.rehashidx
           p == x.pauserehash
           c == t.table[i]
           l == Len(c)
           w == t.used - l
           v == WithBucket(t, i, << >>, w)
           z == PushAll(u, c)
           r2 == i + 1
<1>1. /\ x = Dict2(t, u, r, p) /\ PartsHold(t, u, r) /\ p \in Int /\ r # -1
      /\ Entries(x) = TableEntries(t) \cup TableEntries(u)
  BY DictTaken
<1>2. /\ TableHolds(t) /\ TableHolds(u) /\ t.size \in Nat /\ u.size > 0 /\ r \in Nat
      /\ t.size > 0 /\ t.used \in Nat /\ u.used \in Nat /\ i \in 0 .. t.size - 1
      /\ t \in [size : Nat, table : {t.table}, used : Nat]
      /\ DOMAIN t.table = 0 .. t.size - 1
  <2>1. /\ TableHolds(t) /\ TableHolds(u) /\ IsTable(t) /\ IsTable(u)
        /\ r \in -1 .. t.size /\ u.size > 0 /\ t.size > 0
    BY <1>1 DEF PartsHold, TableHolds
  <2> HIDE DEF t, u, r
  <2>2. /\ t.size \in Nat /\ t.used \in Nat /\ u.used \in Nat
        /\ DOMAIN t.table = 0 .. t.size - 1
        /\ t \in [size : Nat, table : {t.table}, used : Nat]
    BY <2>1, TableChains DEF IsTable
  <2>3. r \in Nat /\ i \in r .. t.size - 1
    BY <1>1, <2>1, <2>2 DEF r, t
  <2>4. QED
    BY <2>1, <2>2, <2>3
<1>3. c \in Seq(Entry) /\ l \in Nat /\ OneOfEach(c) /\ ToSet(c) \subseteq TableEntries(t)
  BY <1>2, TableChains, EntriesByBucket DEF TableHolds
<1>4. y = Dict2(v, z, r2, p)
  <2> DEFINE a == Emptied(t, i)
  <2>1. y = WithIndex(WithSecond(WithFirst(x, a), z), r2)
    <3>1. y = [x EXCEPT !.ht[0] = a, !.ht[1] = PushAll(@, c), !.rehashidx = r2]
      BY DEF MoveBucket
    <3> HIDE DEF a, c, r2
    <3>2. x \in [ht : {x.ht}, rehashidx : Int, pauserehash : Int]
               /\ x.ht = [j \in 0 .. 1 |-> x.ht[j]]
      <4>1. x = Dict2(x.ht[0], x.ht[1], x.rehashidx, x.pauserehash) /\ r \in Int
        BY <1>1, <1>2
      <4>2. QED
        BY <1>1, <4>1 DEF Dict2
    <3>3. WithFirst(x, a).ht[1] = u
      BY <3>2 DEF WithFirst
    <3>4. QED
      BY <3>1, <3>3 DEF WithFirst, WithSecond, WithIndex
  <2>2. a = v
    <3>1. a = [t EXCEPT !.table[i] = << >>, !.used = @ - l]
      BY DEF Emptied
    <3> HIDE DEF t, l, a
    <3>2. QED
      BY <1>2, <3>1 DEF WithBucket
  <2> HIDE DEF a, z, r2, t, u, r, p, v, y
  <2>3. y = Dict2(a, z, r2, p)
    BY <1>1, <2>1, SetFirst, SetSecond, SetIndex
  <2>4. QED
    BY <2>2, <2>3
<1>5. TableHolds(v) /\ TableEntries(v) = TableEntries(t) \ ToSet(c) /\ v.size = t.size /\ v.used = w
  <2> DEFINE nil == << >>
  <2>1. nil \in Seq(Entry) /\ OneOfEach(nil) /\ ToSet(nil) = {} /\ Len(nil) = 0
    BY EmptyChain
  <2>2. w = t.used + Len(nil) - Len(t.table[i]) /\ v = WithBucket(t, i, nil, w)
    BY <1>2, <1>3, <2>1
  <2>3. \A e \in ToSet(nil) : Index(t, e.key) = i
    BY <2>1
  <2>4. TableHolds(t) /\ i \in 0 .. t.size - 1 /\ nil \in Seq(Entry) /\ OneOfEach(nil)
    BY <1>2, <2>1
  <2>5. w = t.used + Len(nil) - Len(t.table[i])
    BY <2>2
  <2> HIDE DEF nil, v, w, t
  <2>6. /\ TableHolds(WithBucket(t, i, nil, w))
        /\ TableEntries(WithBucket(t, i, nil, w)) = (TableEntries(t) \ ToSet(t.table[i])) \cup ToSet(nil)
        /\ WithBucket(t, i, nil, w).size = t.size /\ WithBucket(t, i, nil, w).used = w
    BY ONLY <2>3, <2>4, <2>5, BucketChanged
  <2>7. TableHolds(v) /\ TableEntries(v) = (TableEntries(t) \ ToSet(t.table[i])) \cup ToSet(nil)
        /\ v.size = t.size /\ v.used = w
    BY <2>2, <2>6
  <2>8. QED
    BY <2>1, <2>7 DEF c
<1>6. /\ TableHolds(z) /\ TableEntries(z) = TableEntries(u) \cup ToSet(c)
      /\ z.size = u.size /\ z.used = u.used + l
  <2>1. \A e \in ToSet(c), f \in TableEntries(u) : f.key # e.key
    BY <1>1, <1>3 DEF PartsHold
  <2> HIDE DEF u, c
  <2>2. QED
    BY <1>2, <1>3, <2>1, PushAllHolds
<1>7. \A j \in 0 .. r2 - 1 : v.table[j] = << >>
  <2> SUFFICES ASSUME NEW j \in 0 .. i PROVE v.table[j] = << >>
    BY <1>2
  <2>1. j \in 0 .. t.size - 1 /\ v.table[j] = IF j = i THEN << >> ELSE t.table[j]
    BY <1>2 DEF WithBucket
  <2>2. j # i => j \in 0 .. r - 1 \/ j \in r .. i - 1
    BY <1>2
  <2>3. QED
    BY <1>1, <2>1, <2>2 DEF PartsHold
<1> HIDE DEF y, t, u, r, p, c, w, v, z, l
<1>8. Sized(v) /\ Sized(z)
  BY <1>1, <1>5, <1>6 DEF PartsHold, Sized
<1>9. \A e \in TableEntries(v), f \in TableEntries(z) : e.key # f.key
  <2> SUFFICES ASSUME NEW e \in TableEntries(v), NEW f \in TableEntries(z), e.key = f.key
               PROVE  FALSE
    OBVIOUS
  <2>1. e \in TableEntries(t) /\ e \notin ToSet(c)
    BY <1>5
  <2>2. f \notin TableEntries(u)
    BY <1>1, <2>1 DEF PartsHold
  <2>3. f \in ToSet(c) /\ f \in TableEntries(t)
    BY <1>3, <1>6, <2>2
  <2>4. QED
    BY <1>2, <2>1, <2>3, KeyOnce
<1>10. TableEntries(v) \cup TableEntries(z) = TableEntries(t) \cup TableEntries(u)
  BY <1>3, <1>5, <1>6
<1>11. v.used + z.used = t.used + u.used
  BY <1>2, <1>3, <1>5, <1>6 DEF w
<1>12. PartsHold(v, z, r2)
  <2>1. r2 # -1 /\ r2 \in -1 .. v.size
    BY <1>2, <1>5
  <2>2. Counted(TableEntries(v) \cup TableEntries(z), v.used + z.used)
    BY <1>1, <1>10, <1>11 DEF PartsHold
  <2>3. v.size > 0 /\ z.size > 0
    BY <1>2, <1>5, <1>6
  <2>4. QED
    BY <1>5, <1>6, <1>7, <1>8, <1>9, <2>1, <2>2, <2>3 DEF PartsHold
<1>13. DictHolds(y)
  BY <1>1, <1>4, <1>12, DictMade
<1>14. Entries(y) = Entries(x) /\ y.pauserehash = p /\ IsRehashing(y)
  <2>1. r2 # -1
    BY <1>2
  <2> HIDE DEF r2
  <2>2. QED
    BY <1>1, <1>4, <1>10, <2>1, DictParts
<1>15. SizesFrom(x, y)
  <2> HIDE DEF r2
  <2>1. y.ht[0] = v /\ y.ht[1] = z
    BY ONLY <1>4, DictParts
  <2>2. QED
    BY <1>5, <1>6, <2>1 DEF SizesFrom, Sizes, t, u
<1>16. QED
  BY <1>13, <1>14, <1>15 DEF y, p, Same

\* When nothing is left in the first table, the second takes its place.
LEMMA FinishHolds ==
  ASSUME NEW x, DictHolds(x), IsRehashing(x)
  PROVE  LET y == Finish(x) IN DictHolds(y) /\ Same(x, y) /\ SizesFrom(x, y)
<1> DEFINE y == Finish(x)
           t == x.ht[0]
           u == x.ht[1]
           r == x.rehashidx
           p == x.pauserehash
<1>1. /\ x = Dict2(t, u, r, p) /\ PartsHold(t, u, r) /\ p \in Int /\ r # -1
      /\ Entries(x) = TableEntries(t) \cup TableEntries(u)
  BY DictTaken
<1>2. CASE t.used # 0
  BY <1>2 DEF Finish, Same, SizesFrom
<1>3. CASE t.used = 0
  <2> DEFINE none == -1
  <2>1. y = Dict2(u, NoTable, none, p)
    <3>1. y = WithIndex(WithSecond(WithFirst(x, u), NoTable), none)
      BY <1>3 DEF Finish, WithFirst, WithSecond, WithIndex
    <3> HIDE DEF t, u, r, p, y, none
    <3>2. QED
      BY <1>1, <3>1, SetFirst, SetSecond, SetIndex
  <2>2. TableHolds(NoTable) /\ TableEntries(NoTable) = {} /\ NoTable.size = 0 /\ NoTable.used = 0
    BY NoTableHolds
  <2>3. TableEntries(t) = {} /\ u.size \in Nat /\ u.used \in Nat
    BY <1>1, <1>3, UsedEntries, TableChains DEF PartsHold, TableHolds
  <2> HIDE DEF t, u, r, p, y
  <2>4. PartsHold(u, NoTable, none)
    BY <1>1, <1>3, <2>2, <2>3 DEF PartsHold, Sized
  <2> HIDE DEF none
  <2>5. DictHolds(y)
    BY <1>1, <2>1, <2>4, DictMade
  <2>6. /\ Entries(y) = TableEntries(u) \cup TableEntries(NoTable) /\ y.pauserehash = p
        /\ y.ht[0] = u /\ y.ht[1] = NoTable
    BY ONLY <2>1, DictParts
  <2>7. SizesFrom(x, y)
    BY <2>2, <2>6 DEF SizesFrom, Sizes, u
  <2>8. QED
    BY <1>1, <2>2, <2>3, <2>5, <2>6, <2>7 DEF y, p, Same
<1>4. QED
  BY <1>2, <1>3

\* A round keeps the dictionary together: the buckets that it passes are empty.
LEMMA RoundHolds ==
  ASSUME hash \in [Key -> Nat],
         NEW y, DictHolds(y), IsRehashing(y), NEW v \in Nat,
         NEW s, s = [d |-> y, visits |-> v]
  PROVE  LET z == Round(s) IN
         /\ DictHolds(z.d) /\ IsRehashing(z.d) /\ Same(y, z.d) /\ SizesFrom(y, z.d)
         /\ z.visits \in Nat /\ z = [d |-> z.d, visits |-> z.visits]
<1> DEFINE z == Round(s)
           t == y.ht[0]
           u == y.ht[1]
           r == y.rehashidx
           p == y.pauserehash
           next == CHOOSE i \in r .. t.size - 1 :
                     t.table[i] # << >> /\ \A j \in r .. i - 1 : t.table[j] = << >>
<1>1. /\ y = Dict2(t, u, r, p) /\ PartsHold(t, u, r) /\ p \in Int /\ r # -1
      /\ Entries(y) = TableEntries(t) \cup TableEntries(u)
  BY DictTaken
<1>2. s.d = y /\ s.visits = v
  OBVIOUS
<1>3. z = IF t.used = 0 \/ v = 0 THEN s
          ELSE IF next - r >= v
          THEN [d |-> [y EXCEPT !.rehashidx = r + v], visits |-> 0]
          ELSE [d |-> MoveBucket(y, next), visits |-> v - (next - r)]
  BY <1>2 DEF Round
<1>4. CASE t.used = 0 \/ v = 0
  <2>1. z = s
    BY <1>3, <1>4
  <2> HIDE DEF z
  <2>2. QED
    BY <1>2, <2>1 DEF Same, SizesFrom, z
<1>5. CASE t.used # 0 /\ v # 0
  <2>1. /\ t.size \in Nat /\ r \in 0 .. t.size - 1 /\ next \in r .. t.size - 1
        /\ \A j \in r .. next - 1 : t.table[j] = << >>
    <3> HIDE DEF t, u, r
    <3>1. /\ r \in 0 .. t.size - 1
          /\ \E i \in r .. t.size - 1 :
               t.table[i] # << >> /\ \A j \in r .. i - 1 : t.table[j] = << >>
      BY <1>1, <1>5, NextExists
    <3>2. t.size \in Nat
      BY <1>1, TableChains DEF PartsHold, TableHolds
    <3>3. QED
      BY <3>1, <3>2
  <2> HIDE DEF next
  <2>2. CASE next - r >= v
    <3> DEFINE x == [y EXCEPT !.rehashidx = r + v]
               q == r + v
    <3>1. z = [d |-> x, visits |-> 0]
      BY <1>3, <1>5, <2>2
    <3>2. z.d = x /\ z.visits = 0 /\ z = [d |-> z.d, visits |-> z.visits]
      BY <3>1
    <3>3. x = WithIndex(y, q)
      BY DEF WithIndex
    <3>4. q \in 0 .. t.size - 1 /\ q <= next /\ q # -1
      <4>1. t.size \in Nat /\ r \in 0 .. t.size - 1 /\ next \in r .. t.size - 1 /\ next - r >= v
        BY <2>1, <2>2
      <4> HIDE DEF t, r
      <4>2. QED
        BY ONLY <4>1, v \in Nat
    <3>5. \A j \in 0 .. q - 1 : t.table[j] = << >>
      <4> SUFFICES ASSUME NEW j \in 0 .. q - 1 PROVE t.table[j] = << >>
        OBVIOUS
      <4>1. j \in 0 .. r - 1 \/ j \in r .. next - 1
        <5>1. r \in Nat /\ next \in Nat /\ q \in Nat /\ q <= next
          BY <2>1, <3>4
        <5> HIDE DEF t, r, q
        <5>2. QED
          BY ONLY <5>1, j \in 0 .. q - 1
      <4>2. \A i \in 0 .. r - 1 : t.table[i] = << >>
        BY <1>1 DEF PartsHold
      <4>3. QED
        BY <2>1, <4>1, <4>2
    <3> HIDE DEF x, q, z, t, u, r, p
    <3>6. x = Dict2(t, u, q, p)
      BY <1>1, <3>3, SetIndex
    <3>7. PartsHold(t, u, q)
      BY <1>1, <2>1, <3>4, <3>5 DEF PartsHold
    <3>8. DictHolds(x)
      BY <1>1, <3>6, <3>7, DictMade
    <3>9. /\ Entries(x) = TableEntries(t) \cup TableEntries(u) /\ x.pauserehash = p
          /\ IsRehashing(x) <=> q # -1
          /\ x.ht[0] = t /\ x.ht[1] = u
      BY ONLY <3>6, DictParts
    <3>10. SizesFrom(y, x)
      BY <3>9 DEF SizesFrom, Sizes, t, u
    <3>11. QED
      BY <1>1, <3>2, <3>4, <3>8, <3>9, <3>10 DEF Same, z, p
  <2>3. CASE ~(next - r >= v)
    <3> DEFINE x == MoveBucket(y, next)
               w == v - (next - r)
    <3>1. z = [d |-> x, visits |-> w] /\ w \in Nat
      BY <1>3, <1>5, <2>1, <2>3
    <3>2. z.d = x /\ z.visits = w /\ z = [d |-> z.d, visits |-> z.visits]
      BY <3>1
    <3> HIDE DEF z, w
    <3>3. DictHolds(x) /\ Same(y, x) /\ SizesFrom(y, x) /\ IsRehashing(x)
      BY <2>1, MoveBucketHolds
    <3>4. QED
      BY <3>1, <3>2, <3>3 DEF z
  <2>4. QED
    BY <2>2, <2>3
<1>6. QED
  BY <1>4, <1>5

\* The rounds of dictRehash, one after the other.
LEMMA RehashRounds ==
  ASSUME NEW x, NEW n \in Nat, IsRehashing(x)
  PROVE  \E s : /\ Rehash(x, n) = Finish(s[n].d)
                /\ s[0] = [d |-> x, visits |-> n * EmptyVisits]
                /\ \A k \in 1 .. n : s[k] = Round(s[k - 1])
<1> DEFINE o == [d |-> x, visits |-> n * EmptyVisits]
           Upto(j) == \E r : r = [k \in 0 .. j |-> IF k = 0 THEN o ELSE Round(r[k - 1])]
           T == {j \in Nat : Upto(j)}
           W == CHOOSE r : r = [k \in 0 .. n |-> IF k = 0 THEN o ELSE Round(r[k - 1])]
<1>1. Rehash(x, n) = Finish(W[n].d)
  BY DEF Rehash
<1> HIDE DEF o
<1>2. 0 \in T
  <2> DEFINE r == [k \in 0 .. 0 |-> o]
  <2>1. r = [k \in 0 .. 0 |-> IF k = 0 THEN o ELSE Round(r[k - 1])]
    OBVIOUS
  <2> HIDE DEF r
  <2>2. Upto(0)
    BY <2>1
  <2>3. QED
    BY <2>2
<1>3. ASSUME NEW j \in Nat, j \in T PROVE j + 1 \in T
  <2>1. PICK r : r = [k \in 0 .. j |-> IF k = 0 THEN o ELSE Round(r[k - 1])]
    BY <1>3
  <2> DEFINE v == Round(r[j])
             q == [k \in 0 .. j + 1 |-> IF k = j + 1 THEN v ELSE r[k]]
  <2>2. ASSUME NEW k \in 0 .. j + 1
        PROVE  q[k] = IF k = 0 THEN o ELSE Round(q[k - 1])
    <3>1. CASE k = j + 1
      <4>1. k - 1 = j /\ j # j + 1 /\ k # 0 /\ j \in 0 .. j + 1
        BY <3>1
      <4>2. q[k - 1] = r[j]
        BY <4>1
      <4>3. QED
        BY <3>1, <4>1, <4>2
    <3>2. CASE k # j + 1
      <4>1. k \in 0 .. j /\ (k # 0 => k - 1 \in 0 .. j + 1 /\ k - 1 # j + 1)
        BY <3>2
      <4>2. q[k] = r[k] /\ (k # 0 => q[k - 1] = r[k - 1])
        BY <3>2, <4>1
      <4>3. r[k] = IF k = 0 THEN o ELSE Round(r[k - 1])
        BY ONLY <2>1, <4>1
      <4>4. QED
        BY <4>2, <4>3
    <3>3. QED
      BY <3>1, <3>2
  <2>3. q = [k \in 0 .. j + 1 |-> q[k]]
    OBVIOUS
  <2> HIDE DEF q, v
  <2>4. q = [k \in 0 .. j + 1 |-> IF k = 0 THEN o ELSE Round(q[k - 1])]
    BY <2>2, <2>3
  <2>5. Upto(j + 1)
    BY <2>4
  <2>6. QED
    BY <2>5
<1>4. Upto(n)
  <2>1. n \in T
    <3> HIDE DEF T
    <3> QED BY <1>2, <1>3, AllNumbers
  <2>2. QED
    BY <2>1
<1>5. W = [k \in 0 .. n |-> IF k = 0 THEN o ELSE Round(W[k - 1])]
  BY <1>4
<1> HIDE DEF W
<1>6. W[0] = o
  BY <1>5
<1>7. \A k \in 1 .. n : W[k] = Round(W[k - 1])
  BY <1>5
<1>8. QED
  BY <1>1, <1>6, <1>7 DEF o

\* dictRehash moves entries and does nothing else.
LEMMA RehashHolds ==
  ASSUME hash \in [Key -> Nat], NEW x, DictHolds(x), NEW n \in Nat
  PROVE  DictHolds(Rehash(x, n)) /\ Same(x, Rehash(x, n)) /\ SizesFrom(x, Rehash(x, n))
<1>1. CASE ~IsRehashing(x)
  BY <1>1 DEF Rehash, Same, SizesFrom
<1>2. CASE IsRehashing(x)
  <2>1. PICK s : /\ Rehash(x, n) = Finish(s[n].d)
                 /\ s[0] = [d |-> x, visits |-> n * EmptyVisits]
                 /\ \A k \in 1 .. n : s[k] = Round(s[k - 1])
    BY <1>2, RehashRounds
  <2> DEFINE Good(m) == /\ DictHolds(s[m].d) /\ IsRehashing(s[m].d) /\ Same(x, s[m].d)
                        /\ SizesFrom(x, s[m].d)
                        /\ s[m].visits \in Nat /\ s[m] = [d |-> s[m].d, visits |-> s[m].visits]
             T == {m \in Nat : Good(m)}
  <2>2. 0 \in T
    <3>1. n * EmptyVisits \in Nat
      <4>1. \A a, b \in Nat : a * b \in Nat
        OBVIOUS
      <4>2. EmptyVisits \in Nat
        BY DictAssumption
      <4>3. QED
        BY <4>1, <4>2
    <3> DEFINE v == n * EmptyVisits
    <3> HIDE DEF v
    <3>2. s[0] = [d |-> x, visits |-> v]
      BY <2>1 DEF v
    <3>3. s[0].d = x /\ s[0].visits = v /\ v \in Nat
      BY <3>1, <3>2 DEF v
    <3>4. Good(0)
      BY <1>2, <3>2, <3>3 DEF Same, SizesFrom
    <3>5. QED
      BY <3>4
  <2>3. ASSUME NEW m \in Nat, m + 1 <= n /\ m \in T PROVE m + 1 \in T
    <3>1. m + 1 \in 1 .. n /\ (m + 1) - 1 = m
      BY <2>3
    <3> DEFINE y == s[m].d
               v == s[m].visits
               a == s[m]
               z == Round(a)
    <3>2. s[m + 1] = z
      BY <2>1, <3>1
    <3>3. /\ DictHolds(y) /\ IsRehashing(y) /\ Same(x, y) /\ SizesFrom(x, y) /\ v \in Nat
          /\ a = [d |-> y, visits |-> v]
      BY <2>3
    <3> HIDE DEF y, v, a
    <3>4. /\ DictHolds(z.d) /\ IsRehashing(z.d) /\ Same(y, z.d) /\ SizesFrom(y, z.d)
          /\ z.visits \in Nat /\ z = [d |-> z.d, visits |-> z.visits]
      BY <3>3, RoundHolds
    <3> HIDE DEF z
    <3>5. Good(m + 1)
      BY <3>2, <3>3, <3>4 DEF Same, SizesFrom
    <3>6. QED
      BY <3>5
  <2>4. n \in T
    <3> HIDE DEF T
    <3> QED BY <2>2, <2>3, UpTo
  <2> DEFINE z == s[n].d
  <2>5. DictHolds(z) /\ IsRehashing(z) /\ Same(x, z) /\ SizesFrom(x, z)
    BY <2>4
  <2> HIDE DEF z
  <2>6. DictHolds(Finish(z)) /\ Same(z, Finish(z)) /\ SizesFrom(z, Finish(z))
    BY <2>5, FinishHolds
  <2>7. QED
    BY <2>1, <2>5, <2>6 DEF Same, SizesFrom, z
<1>3. QED
  BY <1>1, <1>2

LEMMA RehashStepHolds ==
  ASSUME hash \in [Key -> Nat], NEW x, DictHolds(x)
  PROVE  DictHolds(RehashStep(x)) /\ Same(x, RehashStep(x)) /\ SizesFrom(x, RehashStep(x))
<1> DEFINE n == 1
<1>1. RehashStep(x) = x \/ RehashStep(x) = Rehash(x, n)
  BY DEF RehashStep
<1>2. n \in Nat
  OBVIOUS
<1> HIDE DEF n
<1>3. QED
  BY <1>1, <1>2, RehashHolds DEF Same, SizesFrom

LEMMA SteppedHolds ==
  ASSUME hash \in [Key -> Nat], NEW x, DictHolds(x)
  PROVE  DictHolds(Stepped(x)) /\ Same(x, Stepped(x)) /\ SizesFrom(x, Stepped(x))
  BY RehashStepHolds DEF Stepped, Same, SizesFrom

\* The steps of dictGetSomeKeys, one after the other.
LEMMA SampleRounds ==
  ASSUME NEW x, NEW n \in Nat
  PROVE  \E s : /\ SampleSteps(x, n) = s[n] /\ s[0] = x
                /\ \A k \in 1 .. n : s[k] = RehashStep(s[k - 1])
<1> DEFINE Upto(j) == \E r : r = [k \in 0 .. j |-> IF k = 0 THEN x ELSE RehashStep(r[k - 1])]
           T == {j \in Nat : Upto(j)}
           W == CHOOSE r : r = [k \in 0 .. n |-> IF k = 0 THEN x ELSE RehashStep(r[k - 1])]
<1>1. SampleSteps(x, n) = W[n]
  BY DEF SampleSteps
<1>2. 0 \in T
  <2> DEFINE r == [k \in 0 .. 0 |-> x]
  <2>1. r = [k \in 0 .. 0 |-> IF k = 0 THEN x ELSE RehashStep(r[k - 1])]
    OBVIOUS
  <2> HIDE DEF r
  <2>2. Upto(0)
    BY <2>1
  <2>3. QED
    BY <2>2
<1>3. ASSUME NEW j \in Nat, j \in T PROVE j + 1 \in T
  <2>1. PICK r : r = [k \in 0 .. j |-> IF k = 0 THEN x ELSE RehashStep(r[k - 1])]
    BY <1>3
  <2> DEFINE v == RehashStep(r[j])
             q == [k \in 0 .. j + 1 |-> IF k = j + 1 THEN v ELSE r[k]]
  <2>2. ASSUME NEW k \in 0 .. j + 1
        PROVE  q[k] = IF k = 0 THEN x ELSE RehashStep(q[k - 1])
    <3>1. CASE k = j + 1
      <4>1. k - 1 = j /\ j # j + 1 /\ k # 0 /\ j \in 0 .. j + 1
        BY <3>1
      <4>2. q[k - 1] = r[j]
        BY <4>1
      <4>3. QED
        BY <3>1, <4>1, <4>2
    <3>2. CASE k # j + 1
      <4>1. k \in 0 .. j /\ (k # 0 => k - 1 \in 0 .. j + 1 /\ k - 1 # j + 1)
        BY <3>2
      <4>2. q[k] = r[k] /\ (k # 0 => q[k - 1] = r[k - 1])
        BY <3>2, <4>1
      <4>3. r[k] = IF k = 0 THEN x ELSE RehashStep(r[k - 1])
        BY ONLY <2>1, <4>1
      <4>4. QED
        BY <4>2, <4>3
    <3>3. QED
      BY <3>1, <3>2
  <2>3. q = [k \in 0 .. j + 1 |-> q[k]]
    OBVIOUS
  <2> HIDE DEF q, v
  <2>4. q = [k \in 0 .. j + 1 |-> IF k = 0 THEN x ELSE RehashStep(q[k - 1])]
    BY <2>2, <2>3
  <2>5. Upto(j + 1)
    BY <2>4
  <2>6. QED
    BY <2>5
<1>4. Upto(n)
  <2>1. n \in T
    <3> HIDE DEF T
    <3> QED BY <1>2, <1>3, AllNumbers
  <2>2. QED
    BY <2>1
<1>5. W = [k \in 0 .. n |-> IF k = 0 THEN x ELSE RehashStep(W[k - 1])]
  BY <1>4
<1> HIDE DEF W
<1>6. W[0] = x
  BY <1>5
<1>7. \A k \in 1 .. n : W[k] = RehashStep(W[k - 1])
  BY <1>5
<1>8. QED
  BY <1>1, <1>6, <1>7

LEMMA SampleStepsHold ==
  ASSUME hash \in [Key -> Nat], NEW x, DictHolds(x), NEW n \in Nat
  PROVE  /\ DictHolds(SampleSteps(x, n)) /\ Same(x, SampleSteps(x, n))
         /\ SizesFrom(x, SampleSteps(x, n))
<1>1. PICK s : /\ SampleSteps(x, n) = s[n] /\ s[0] = x
               /\ \A k \in 1 .. n : s[k] = RehashStep(s[k - 1])
  BY SampleRounds
<1> DEFINE T == {m \in Nat : DictHolds(s[m]) /\ Same(x, s[m]) /\ SizesFrom(x, s[m])}
<1>2. 0 \in T
  BY <1>1 DEF Same, SizesFrom
<1>3. ASSUME NEW m \in Nat, m + 1 <= n /\ m \in T PROVE m + 1 \in T
  <2>1. m + 1 \in 1 .. n /\ (m + 1) - 1 = m
    BY <1>3
  <2>2. s[m + 1] = RehashStep(s[m])
    BY <1>1, <2>1
  <2>3. /\ DictHolds(RehashStep(s[m])) /\ Same(s[m], RehashStep(s[m]))
        /\ SizesFrom(s[m], RehashStep(s[m]))
    BY <1>3, RehashStepHolds
  <2>4. QED
    BY <1>3, <2>2, <2>3 DEF Same, SizesFrom
<1>4. n \in T
  <2> HIDE DEF T
  <2> QED BY <1>2, <1>3, UpTo
<1>5. QED
  BY <1>1, <1>4

-----------------------------------------------------------------------------
(* Lookups.                                                                *)

\* The entries of a key, and those of the others.
Of(E, k)     == {e \in E : e.key = k}
Others(E, k) == {e \in E : e.key # k}

\* The hash of a key, masked, is a bucket.
LEMMA IndexPlace ==
  ASSUME hash \in [Key -> Nat], NEW t, t.size \in Nat, t.size > 0, NEW k \in Key
  PROVE  Index(t, k) \in 0 .. t.size - 1
<1>1. hash[k] \in Nat
  OBVIOUS
<1>2. \A x \in Nat, y \in Nat : y > 0 => x % y \in 0 .. y - 1
  OBVIOUS
<1>3. QED
  BY <1>1, <1>2 DEF Index

\* A key is in the chain of its hash or nowhere in the table.
LEMMA ChainOfKey ==
  ASSUME hash \in [Key -> Nat], NEW t, TableHolds(t), t.size > 0, NEW k \in Key
  PROVE  /\ Chain(t, k) \in Seq(Entry) /\ OneOfEach(Chain(t, k))
         /\ ToSet(Chain(t, k)) \subseteq TableEntries(t)
         /\ {Chain(t, k)[j] : j \in At(Chain(t, k), k)} = Of(TableEntries(t), k)
         /\ At(Chain(t, k), k) # {} <=> Of(TableEntries(t), k) # {}
         /\ \A e \in TableEntries(t) : e.key = k => e \in ToSet(Chain(t, k))
<1> DEFINE b == Index(t, k)
           c == t.table[b]
<1>1. b \in 0 .. t.size - 1 /\ IsTable(t)
  BY IndexPlace, TableChains DEF TableHolds
<1>2. c = Chain(t, k)
  BY DEF Chain
<1>3. c \in Seq(Entry) /\ OneOfEach(c) /\ ToSet(c) \subseteq TableEntries(t)
  BY <1>1, TableChains, EntriesByBucket DEF TableHolds
<1>4. ASSUME NEW e \in TableEntries(t), e.key = k PROVE e \in ToSet(c)
  <2>1. PICK j \in 0 .. t.size - 1 : e \in ToSet(t.table[j])
    BY <1>1, EntriesByBucket
  <2>2. Index(t, e.key) = j
    BY <2>1 DEF TableHolds
  <2>3. QED
    BY <1>4, <2>1, <2>2
<1> HIDE DEF c
<1>5. DOMAIN c = 1 .. Len(c) /\ ToSet(c) = {c[p] : p \in 1 .. Len(c)}
  BY <1>3, ChainEntries
<1>6. At(c, k) = {p \in 1 .. Len(c) : c[p].key = k}
  BY <1>5 DEF At
<1>7. {c[j] : j \in At(c, k)} = Of(TableEntries(t), k)
  <2>1. ASSUME NEW j \in At(c, k) PROVE c[j] \in Of(TableEntries(t), k)
    BY <1>3, <1>5, <1>6 DEF Of
  <2>2. ASSUME NEW e \in Of(TableEntries(t), k) PROVE e \in {c[j] : j \in At(c, k)}
    <3>1. e \in ToSet(c) /\ e.key = k
      BY <1>4 DEF Of
    <3>2. QED
      BY <1>5, <1>6, <3>1
  <2>3. QED
    BY <2>1, <2>2
<1>8. At(c, k) # {} <=> Of(TableEntries(t), k) # {}
  BY <1>7
<1>9. QED
  BY <1>2, <1>3, <1>4, <1>7, <1>8

\* A dictionary with entries has a first table, and a second one if the
\* entries are being moved there.
LEMMA TablesUsed ==
  ASSUME NEW x, DictHolds(x), Entries(x) # {}
  PROVE  /\ x.ht[0].size > 0
         /\ IsRehashing(x) => x.ht[1].size > 0
         /\ ~IsRehashing(x) => x.ht[1] = NoTable /\ TableEntries(x.ht[1]) = {}
<1>1. /\ PartsHold(x.ht[0], x.ht[1], x.rehashidx)
      /\ Entries(x) = TableEntries(x.ht[0]) \cup TableEntries(x.ht[1])
      /\ IsRehashing(x) <=> x.rehashidx # -1
  BY DictTaken
<1>2. x.ht[0].size \in Nat
  BY <1>1, TableChains DEF PartsHold, TableHolds
<1>3. ~IsRehashing(x) => x.ht[1] = NoTable /\ TableEntries(x.ht[1]) = {}
  BY <1>1, NoTableHolds DEF PartsHold
<1>4. x.ht[0].size = 0 => x.rehashidx = -1 /\ TableEntries(x.ht[0]) = {}
  BY <1>1, NoBuckets DEF PartsHold
<1>5. x.ht[0].size > 0
  BY <1>1, <1>2, <1>3, <1>4
<1>6. QED
  BY <1>1, <1>3, <1>5 DEF PartsHold

\* A lookup goes through a chain of each table in use, and finds the entry.
LEMMA LookupHolds ==
  ASSUME hash \in [Key -> Nat], NEW x, DictHolds(x), NEW k \in Key
  PROVE  Lookup(x, k) = Of(Entries(x), k)
<1> DEFINE t == x.ht[0]
           u == x.ht[1]
           F(i) == {Chain(x.ht[i], k)[j] : j \in At(Chain(x.ht[i], k), k)}
<1>1. /\ PartsHold(t, u, x.rehashidx) /\ Entries(x) = TableEntries(t) \cup TableEntries(u)
      /\ Size(x) = t.used + u.used
  BY DictTaken
<1>2. TableHolds(t) /\ TableHolds(u) /\ t.used \in Nat /\ u.used \in Nat
  BY <1>1, TableChains DEF PartsHold, TableHolds
<1>3. CASE Size(x) = 0
  <2>1. t.used = 0 /\ u.used = 0
    BY <1>1, <1>2, <1>3
  <2>2. Entries(x) = {}
    BY <1>1, <1>2, <2>1, UsedEntries
  <2>3. QED
    BY <1>3, <2>2 DEF Lookup, Of
<1>4. CASE Size(x) # 0
  <2>1. Lookup(x, k) = UNION {F(i) : i \in Tables(x)}
    BY <1>4 DEF Lookup
  <2>2. Entries(x) # {}
    BY <1>1, <1>2, <1>4, UsedEntries
  <2>3. F(0) = Of(TableEntries(t), k)
    <3>1. t.size > 0
      BY <2>2, TablesUsed
    <3> HIDE DEF t
    <3>2. {Chain(t, k)[j] : j \in At(Chain(t, k), k)} = Of(TableEntries(t), k)
      BY <1>2, <3>1, ChainOfKey
    <3>3. QED
      BY <3>2 DEF t
  <2>4. CASE IsRehashing(x)
    <3>1. u.size > 0
      BY <2>2, <2>4, TablesUsed
    <3>2. F(1) = Of(TableEntries(u), k)
      <4> HIDE DEF u
      <4>1. {Chain(u, k)[j] : j \in At(Chain(u, k), k)} = Of(TableEntries(u), k)
        BY <1>2, <3>1, ChainOfKey
      <4>2. QED
        BY <4>1 DEF u
    <3>3. Tables(x) = {0, 1}
      BY <2>4 DEF Tables
    <3> HIDE DEF F, t, u
    <3>4. QED
      BY <1>1, <2>1, <2>3, <3>2, <3>3 DEF Of
  <2>5. CASE ~IsRehashing(x)
    <3>1. TableEntries(u) = {}
      BY <2>2, <2>5, TablesUsed
    <3>2. Tables(x) = {0}
      BY <2>5 DEF Tables
    <3> HIDE DEF F, t, u
    <3>3. QED
      BY <1>1, <2>1, <2>3, <3>1, <3>2 DEF Of
  <2>6. QED
    BY <2>4, <2>5
<1>5. QED
  BY <1>3, <1>4

-----------------------------------------------------------------------------
(* Counting.                                                               *)

\* One key more, one key less, another value for a key.
LEMMA CountedMore ==
  ASSUME NEW E, NEW n, Counted(E, n), NEW e, \A f \in E : f.key # e.key
  PROVE  Counted(E \cup {e}, n + 1)
<1>1. KeysOf(E \cup {e}) = KeysOf(E) \cup {e.key} /\ e.key \notin KeysOf(E)
  BY DEF KeysOf
<1> DEFINE K == KeysOf(E)
           k == e.key
<1>2. IsFiniteSet(K) /\ Cardinality(K) = n
  BY DEF Counted
<1> HIDE DEF K, k
<1>3. IsFiniteSet(K \cup {k}) /\ Cardinality(K \cup {k}) = Cardinality(K) + 1
  BY <1>1, <1>2, FS_AddElement DEF K, k
<1>4. QED
  BY <1>1, <1>2, <1>3 DEF Counted, K, k

LEMMA CountedLess ==
  ASSUME NEW E, NEW n, Counted(E, n), NEW f \in E, \A e \in E : e.key = f.key => e = f
  PROVE  Counted(E \ {f}, n - 1)
<1>1. KeysOf(E \ {f}) = KeysOf(E) \ {f.key} /\ f.key \in KeysOf(E)
  BY DEF KeysOf
<1> DEFINE K == KeysOf(E)
           k == f.key
<1>2. IsFiniteSet(K) /\ Cardinality(K) = n
  BY DEF Counted
<1> HIDE DEF K, k
<1>3. IsFiniteSet(K \ {k}) /\ Cardinality(K \ {k}) = Cardinality(K) - 1
  BY <1>1, <1>2, FS_RemoveElement DEF K, k
<1>4. QED
  BY <1>1, <1>2, <1>3 DEF Counted, K, k

LEMMA CountedSame ==
  ASSUME NEW E, NEW n, Counted(E, n), NEW f \in E, NEW e, e.key = f.key,
         \A g \in E : g.key = f.key => g = f
  PROVE  Counted((E \ {f}) \cup {e}, n)
<1>1. KeysOf((E \ {f}) \cup {e}) = KeysOf(E)
  BY DEF KeysOf
<1>2. QED
  BY <1>1 DEF Counted

-----------------------------------------------------------------------------
(* Adding, replacing and deleting.                                         *)

\* The entry of a key gets another value in its table.
LEMMA RevaluedHolds ==
  ASSUME hash \in [Key -> Nat], NEW t, TableHolds(t), t.size > 0, NEW e \in Entry,
         NEW f \in TableEntries(t), f.key = e.key
  PROVE  LET v == Revalued(t, e) IN
         /\ TableHolds(v) /\ TableEntries(v) = (TableEntries(t) \ {f}) \cup {e}
         /\ v.size = t.size /\ v.used = t.used
         /\ \A j \in 0 .. t.size - 1 : t.table[j] = << >> => v.table[j] = << >>
<1> DEFINE k == e.key
           b == Index(t, k)
           c == t.table[b]
           q == [j \in DOMAIN c |-> IF c[j].key = e.key THEN e ELSE c[j]]
           w == t.used
           v == Revalued(t, e)
<1>1. /\ k \in Key /\ b \in 0 .. t.size - 1 /\ IsTable(t) /\ w \in Nat /\ t.size \in Nat
      /\ t \in [size : Nat, table : {t.table}, used : Nat]
      /\ DOMAIN t.table = 0 .. t.size - 1
  BY EntryKey, IndexPlace, TableChains DEF TableHolds, IsTable
<1>2. c = Chain(t, k)
  BY DEF Chain
<1>3. c \in Seq(Entry) /\ OneOfEach(c) /\ ToSet(c) \subseteq TableEntries(t) /\ f \in ToSet(c)
  BY <1>1, <1>2, ChainOfKey
<1>4. q \in Seq(Entry) /\ Len(q) = Len(c) /\ ToSet(q) = (ToSet(c) \ {f}) \cup {e} /\ OneOfEach(q)
  <2> HIDE DEF c
  <2> QED BY <1>3, ReplacedChain
<1>5. v = WithBucket(t, b, q, w)
  <2>1. v = [t EXCEPT !.table[b] = q]
    BY <1>1 DEF Revalued
  <2> HIDE DEF v, q, b
  <2>2. QED
    BY <1>1, <2>1 DEF WithBucket
<1>6. \A g \in ToSet(q) : Index(t, g.key) = b
  BY <1>1, <1>3, <1>4 DEF TableHolds
<1> HIDE DEF q, b, w, v, k
<1>7. w = t.used + Len(q) - Len(t.table[b])
  <2>1. Len(q) = Len(t.table[b]) /\ Len(q) \in Nat
    BY <1>4, ChainEntries
  <2>2. QED
    BY <1>1, <2>1 DEF w
<1>8. /\ TableHolds(v) /\ TableEntries(v) = (TableEntries(t) \ ToSet(c)) \cup ToSet(q)
      /\ v.size = t.size /\ v.used = w
  <2>1. /\ TableHolds(t) /\ b \in 0 .. t.size - 1 /\ q \in Seq(Entry) /\ OneOfEach(q)
        /\ \A g \in ToSet(q) : Index(t, g.key) = b
        /\ w = t.used + Len(q) - Len(t.table[b])
    BY <1>1, <1>4, <1>6, <1>7
  <2>2. LET z == WithBucket(t, b, q, w) IN
        /\ TableHolds(z) /\ TableEntries(z) = (TableEntries(t) \ ToSet(t.table[b])) \cup ToSet(q)
        /\ z.size = t.size /\ z.used = w
    BY ONLY <2>1, BucketChanged
  <2>3. QED
    BY <1>5, <2>2
<1>9. TableEntries(v) = (TableEntries(t) \ {f}) \cup {e}
  <2>1. \A g \in TableEntries(t) : g.key = f.key => g = f
    BY KeyOnce
  <2> HIDE DEF c
  <2>2. QED
    BY <1>3, <1>4, <1>8
<1>10. \A j \in 0 .. t.size - 1 : t.table[j] = << >> => v.table[j] = << >>
  <2> SUFFICES ASSUME NEW j \in 0 .. t.size - 1, t.table[j] = << >> PROVE v.table[j] = << >>
    OBVIOUS
  <2>1. c # << >>
    BY <1>3, EmptyChain
  <2>2. QED
    BY <1>1, <1>5, <2>1 DEF WithBucket, c
<1>11. QED
  BY <1>8, <1>9, <1>10 DEF v, w

\* The entry of a key is unlinked.
LEMMA UnlinkedHolds ==
  ASSUME hash \in [Key -> Nat], NEW t, TableHolds(t), t.size > 0, NEW k \in Key,
         NEW f \in TableEntries(t), f.key = k
  PROVE  LET v == Unlinked(t, k) IN
         /\ TableHolds(v) /\ TableEntries(v) = TableEntries(t) \ {f}
         /\ v.size = t.size /\ v.used = t.used - 1
         /\ \A j \in 0 .. t.size - 1 : t.table[j] = << >> => v.table[j] = << >>
<1> DEFINE b == Index(t, k)
           c == t.table[b]
           i == CHOOSE j \in At(c, k) : TRUE
           q == RemoveAt(c, i)
           w == t.used - 1
           v == Unlinked(t, k)
<1>1. /\ b \in 0 .. t.size - 1 /\ IsTable(t) /\ t.used \in Nat /\ t.size \in Nat
      /\ t \in [size : Nat, table : {t.table}, used : Nat]
      /\ DOMAIN t.table = 0 .. t.size - 1
  BY IndexPlace, TableChains DEF TableHolds, IsTable
<1>2. c = Chain(t, k)
  BY DEF Chain
<1>3. /\ c \in Seq(Entry) /\ OneOfEach(c) /\ ToSet(c) \subseteq TableEntries(t) /\ f \in ToSet(c)
      /\ At(c, k) # {}
  <2>1. f \in Of(TableEntries(t), k)
    BY DEF Of
  <2> HIDE DEF c
  <2>2. QED
    BY <1>1, <1>2, <2>1, ChainOfKey
<1>4. i \in DOMAIN c /\ c[i].key = k
  <2>1. i \in At(c, k)
    BY <1>3
  <2>2. QED
    BY <2>1 DEF At
<1>5. c[i] = f
  <2>1. DOMAIN c = 1 .. Len(c) /\ ToSet(c) = {c[p] : p \in 1 .. Len(c)}
    BY <1>3, ChainEntries
  <2> HIDE DEF c, i
  <2>2. c[i] \in ToSet(c)
    BY <1>4, <2>1
  <2>3. QED
    BY <1>3, <1>4, <2>2, KeyOnce
<1>6. /\ q \in Seq(Entry) /\ Len(q) = Len(c) - 1 /\ ToSet(q) = ToSet(c) \ {f} /\ OneOfEach(q)
  <2> HIDE DEF c, i
  <2> QED BY <1>3, <1>4, <1>5, RemovedChain
<1>7. v = WithBucket(t, b, q, w)
  <2>1. v = [t EXCEPT !.table[b] = q, !.used = @ - 1]
    <3>1. v = [t EXCEPT !.table[b] = RemoveAt(@, CHOOSE j \in At(@, k) : TRUE), !.used = @ - 1]
      BY DEF Unlinked
    <3>2. QED
      BY <1>1, <3>1
  <2> HIDE DEF v, q, b
  <2>2. QED
    BY <1>1, <2>1 DEF WithBucket
<1>8. \A g \in ToSet(q) : Index(t, g.key) = b
  BY <1>1, <1>3, <1>6 DEF TableHolds
<1> HIDE DEF q, b, w, v
<1>9. w = t.used + Len(q) - Len(t.table[b])
  <2>1. Len(q) = Len(t.table[b]) - 1 /\ Len(t.table[b]) \in Nat
    BY <1>3, <1>6, ChainEntries
  <2>2. QED
    BY <1>1, <2>1 DEF w
<1>10. /\ TableHolds(v) /\ TableEntries(v) = (TableEntries(t) \ ToSet(c)) \cup ToSet(q)
       /\ v.size = t.size /\ v.used = w
  <2>1. /\ TableHolds(t) /\ b \in 0 .. t.size - 1 /\ q \in Seq(Entry) /\ OneOfEach(q)
        /\ \A g \in ToSet(q) : Index(t, g.key) = b
        /\ w = t.used + Len(q) - Len(t.table[b])
    BY <1>1, <1>6, <1>8, <1>9
  <2> HIDE DEF i
  <2>2. LET z == WithBucket(t, b, q, w) IN
        /\ TableHolds(z) /\ TableEntries(z) = (TableEntries(t) \ ToSet(t.table[b])) \cup ToSet(q)
        /\ z.size = t.size /\ z.used = w
    BY ONLY <2>1, BucketChanged
  <2>3. QED
    BY <1>7, <2>2
<1>11. TableEntries(v) = TableEntries(t) \ {f}
  <2> HIDE DEF c
  <2> QED BY <1>3, <1>6, <1>10
<1>12. \A j \in 0 .. t.size - 1 : t.table[j] = << >> => v.table[j] = << >>
  <2> SUFFICES ASSUME NEW j \in 0 .. t.size - 1, t.table[j] = << >> PROVE v.table[j] = << >>
    OBVIOUS
  <2>1. c # << >>
    BY <1>3, EmptyChain
  <2>2. QED
    BY <1>1, <1>7, <2>1 DEF WithBucket, c
<1>13. QED
  BY <1>10, <1>11, <1>12 DEF v, w

\* The first or the second table of a dictionary is changed where a key is.
LEMMA FirstChanged ==
  ASSUME NEW x, DictHolds(x), NEW v, TableHolds(v), v.size = x.ht[0].size,
         \A j \in 0 .. v.size - 1 : x.ht[0].table[j] = << >> => v.table[j] = << >>,
         \A e \in TableEntries(v) : \E f \in TableEntries(x.ht[0]) : f.key = e.key,
         Counted(TableEntries(v) \cup TableEntries(x.ht[1]), v.used + x.ht[1].used)
  PROVE  LET y == WithFirst(x, v) IN
         /\ DictHolds(y) /\ Entries(y) = TableEntries(v) \cup TableEntries(x.ht[1])
         /\ y.pauserehash = x.pauserehash
<1> DEFINE y == WithFirst(x, v)
           t == x.ht[0]
           u == x.ht[1]
           r == x.rehashidx
           p == x.pauserehash
<1>1. x = Dict2(t, u, r, p) /\ PartsHold(t, u, r) /\ p \in Int
  BY DictTaken
<1>2. t.size \in Nat
  BY <1>1, TableChains DEF PartsHold, TableHolds
<1> HIDE DEF t, u, r, p, y
<1>3. y = Dict2(v, u, r, p)
  BY <1>1, SetFirst DEF y
<1>4. PartsHold(v, u, r)
  <2>1. \A e \in TableEntries(v), f \in TableEntries(u) : e.key # f.key
    BY <1>1 DEF PartsHold, t
  <2>2. r # -1 => \A j \in 0 .. r - 1 : v.table[j] = << >>
    <3> SUFFICES ASSUME r # -1, NEW j \in 0 .. r - 1 PROVE v.table[j] = << >>
      OBVIOUS
    <3>1. t.table[j] = << >> /\ r \in -1 .. t.size
      BY <1>1 DEF PartsHold
    <3>2. j \in 0 .. v.size - 1
      BY <1>2, <3>1 DEF t
    <3>3. QED
      BY <3>1, <3>2 DEF t
  <2>3. TableHolds(u) /\ Sized(v) /\ Sized(u)
    BY <1>1 DEF PartsHold, Sized, t
  <2>4. Counted(TableEntries(v) \cup TableEntries(u), v.used + u.used)
    BY DEF u
  <2>5. v.size = t.size
    BY DEF t
  <2>6. QED
    BY <1>1, <2>1, <2>2, <2>3, <2>4, <2>5 DEF PartsHold
<1>5. DictHolds(y)
  BY <1>1, <1>3, <1>4, DictMade
<1>6. Entries(y) = TableEntries(v) \cup TableEntries(u) /\ y.pauserehash = p
  BY ONLY <1>3, DictParts
<1>7. QED
  BY <1>5, <1>6 DEF y, u, p

LEMMA SecondChanged ==
  ASSUME NEW x, DictHolds(x), IsRehashing(x),
         NEW v, TableHolds(v), v.size = x.ht[1].size,
         \A e \in TableEntries(x.ht[0]), f \in TableEntries(v) : e.key # f.key,
         Counted(TableEntries(x.ht[0]) \cup TableEntries(v), x.ht[0].used + v.used)
  PROVE  LET y == WithSecond(x, v) IN
         /\ DictHolds(y) /\ Entries(y) = TableEntries(x.ht[0]) \cup TableEntries(v)
         /\ y.pauserehash = x.pauserehash
<1> DEFINE y == WithSecond(x, v)
           t == x.ht[0]
           u == x.ht[1]
           r == x.rehashidx
           p == x.pauserehash
<1>1. x = Dict2(t, u, r, p) /\ PartsHold(t, u, r) /\ p \in Int /\ r # -1
  BY DictTaken
<1> HIDE DEF t, u, r, p, y
<1>2. y = Dict2(t, v, r, p)
  BY <1>1, SetSecond DEF y
<1>3. PartsHold(t, v, r)
  <2>1. Sized(v) /\ v.size = u.size
    BY <1>1 DEF PartsHold, Sized, u
  <2>2. /\ \A e \in TableEntries(t), f \in TableEntries(v) : e.key # f.key
        /\ Counted(TableEntries(t) \cup TableEntries(v), t.used + v.used)
    BY DEF t
  <2>3. QED
    BY <1>1, <2>1, <2>2 DEF PartsHold
<1>4. DictHolds(y)
  BY <1>1, <1>2, <1>3, DictMade
<1>5. Entries(y) = TableEntries(t) \cup TableEntries(v) /\ y.pauserehash = p
  BY ONLY <1>2, DictParts
<1>6. QED
  BY <1>4, <1>5 DEF y, t, p

\* In a dictionary a key is there once.
LEMMA OneEntry ==
  ASSUME NEW x, DictHolds(x), NEW e \in Entries(x), NEW f \in Entries(x), e.key = f.key
  PROVE  e = f
<1> DEFINE t == x.ht[0]
           u == x.ht[1]
<1>1. /\ PartsHold(t, u, x.rehashidx) /\ Entries(x) = TableEntries(t) \cup TableEntries(u)
  BY DictTaken
<1> HIDE DEF t, u
<1>2. TableHolds(t) /\ TableHolds(u)
      /\ \A g \in TableEntries(t), h \in TableEntries(u) : g.key # h.key
  BY <1>1 DEF PartsHold
<1>3. CASE e \in TableEntries(t) /\ f \in TableEntries(t)
  BY <1>2, <1>3, KeyOnce
<1>4. CASE e \in TableEntries(u) /\ f \in TableEntries(u)
  BY <1>2, <1>4, KeyOnce
<1>5. QED
  BY <1>1, <1>2, <1>3, <1>4

\* dictAddRaw adds the entry, unless its key is there.
LEMMA AddRawHolds ==
  ASSUME hash \in [Key -> Nat], NEW x, DictHolds(x), NEW e \in Entry
  PROVE  LET y == AddRaw(x, e) IN
         /\ DictHolds(y) /\ y.pauserehash = x.pauserehash
         /\ Entries(y) = IF Of(Entries(x), e.key) # {} THEN Entries(x) ELSE Entries(x) \cup {e}
<1> DEFINE y == AddRaw(x, e)
           s == RehashStep(x)
           z == ExpandIfNeeded(s)
           t == z.ht[0]
           u == z.ht[1]
           k == e.key
<1>1. DictHolds(s) /\ Entries(s) = Entries(x) /\ s.pauserehash = x.pauserehash
  BY RehashStepHolds DEF Same
<1>2. DictHolds(z) /\ Entries(z) = Entries(s) /\ z.pauserehash = s.pauserehash /\ t.size > 0
  <2> HIDE DEF s
  <2> QED BY <1>1, ExpandIfNeededHolds DEF Same
<1>3. k \in Key
  BY EntryKey
<1>4. y = IF Lookup(z, k) # {} THEN z
          ELSE [z EXCEPT !.ht[IF IsRehashing(z) THEN 1 ELSE 0] = Push(@, e)]
  BY DEF AddRaw
<1> HIDE DEF s, z, y
<1>5. Lookup(z, k) = Of(Entries(x), k)
  BY <1>1, <1>2, <1>3, LookupHolds
<1>6. CASE Of(Entries(x), k) # {}
  BY <1>1, <1>2, <1>4, <1>5, <1>6 DEF y
<1>7. CASE Of(Entries(x), k) = {}
  <2>1. /\ PartsHold(t, u, z.rehashidx) /\ Entries(z) = TableEntries(t) \cup TableEntries(u)
        /\ IsRehashing(z) <=> z.rehashidx # -1
        /\ z = Dict2(t, u, z.rehashidx, z.pauserehash)
    BY <1>2, DictTaken
  <2>2. TableHolds(t) /\ TableHolds(u) /\ t.used \in Nat /\ u.used \in Nat
    BY <2>1, TableChains DEF PartsHold, TableHolds
  <2>3. \A f \in TableEntries(t) \cup TableEntries(u) : f.key # k
    BY <1>1, <1>2, <1>7, <2>1 DEF Of
  <2>4. Counted(TableEntries(t) \cup TableEntries(u) \cup {e}, t.used + u.used + 1)
    <3> DEFINE E == TableEntries(t) \cup TableEntries(u)
               n == t.used + u.used
    <3>1. Counted(E, n)
      BY <2>1 DEF PartsHold
    <3>2. \A f \in E : f.key # e.key
      BY <2>3
    <3> HIDE DEF E, n
    <3>3. Counted(E \cup {e}, n + 1)
      BY <3>1, <3>2, CountedMore
    <3>4. QED
      BY <3>3 DEF E, n
  <2>5. CASE IsRehashing(z)
    <3> DEFINE v == Push(u, e)
    <3>1. y = WithSecond(z, v)
      BY <1>4, <1>5, <1>7, <2>1, <2>5 DEF WithSecond, Dict2
    <3>2. u.size > 0
      BY <2>1, <2>5 DEF PartsHold
    <3>3. /\ TableHolds(v) /\ TableEntries(v) = TableEntries(u) \cup {e}
          /\ v.size = u.size /\ v.used = u.used + 1
      <4> HIDE DEF u
      <4> QED BY <2>2, <2>3, <3>2, PushHolds
    <3>4. \A g \in TableEntries(t), f \in TableEntries(v) : g.key # f.key
      BY <2>1, <2>3, <3>3 DEF PartsHold
    <3>5. Counted(TableEntries(t) \cup TableEntries(v), t.used + v.used)
      <4>1. TableEntries(t) \cup TableEntries(v) = TableEntries(t) \cup TableEntries(u) \cup {e}
        BY <3>3
      <4>2. t.used + v.used = t.used + u.used + 1
        BY <2>2, <3>3
      <4>3. QED
        BY <2>4, <4>1, <4>2
    <3> HIDE DEF v
    <3>6. LET a == WithSecond(z, v) IN
          /\ DictHolds(a) /\ Entries(a) = TableEntries(t) \cup TableEntries(v)
          /\ a.pauserehash = z.pauserehash
      BY <1>2, <2>5, <3>3, <3>4, <3>5, SecondChanged
    <3>7. QED
      BY <1>1, <1>2, <1>7, <2>1, <3>1, <3>3, <3>6 DEF y
  <2>6. CASE ~IsRehashing(z)
    <3> DEFINE v == Push(t, e)
    <3>1. y = WithFirst(z, v)
      BY <1>4, <1>5, <1>7, <2>1, <2>6 DEF WithFirst, Dict2
    <3>2. TableEntries(u) = {} /\ u.used = 0
      BY <2>1, <2>6, NoTableHolds DEF PartsHold
    <3>3. /\ TableHolds(v) /\ TableEntries(v) = TableEntries(t) \cup {e}
          /\ v.size = t.size /\ v.used = t.used + 1
      <4> HIDE DEF t
      <4> QED BY <1>2, <2>2, <2>3, PushHolds
    <3>4. QED
      <4> DEFINE r == z.rehashidx
                 p == z.pauserehash
      <4>1. r = -1 /\ p \in Int
        BY <1>2, <2>1, <2>6, DictTaken
      <4>2. PartsHold(v, u, r)
        <5>1. \A g \in TableEntries(v), f \in TableEntries(u) : g.key # f.key
          BY <3>2
        <5>2. Counted(TableEntries(v) \cup TableEntries(u), v.used + u.used)
          <6>1. TableEntries(v) \cup TableEntries(u) = TableEntries(t) \cup TableEntries(u) \cup {e}
            BY <3>3
          <6>2. v.used + u.used = t.used + u.used + 1
            BY <2>2, <3>3
          <6>3. QED
            BY <2>4, <6>1, <6>2
        <5>3. Sized(v) /\ Sized(u) /\ u = NoTable
          BY <2>1, <3>3, <4>1 DEF PartsHold, Sized
        <5>4. v.size \in Nat
          BY <3>3, TableChains DEF TableHolds
        <5>5. QED
          BY <2>2, <3>3, <4>1, <5>1, <5>2, <5>3, <5>4 DEF PartsHold
      <4> HIDE DEF v, r, p, t, u
      <4>3. y = Dict2(v, u, r, p)
        BY <2>1, <3>1, SetFirst DEF r, p
      <4>4. DictHolds(y)
        BY <4>1, <4>2, <4>3, DictMade
      <4>5. Entries(y) = TableEntries(v) \cup TableEntries(u) /\ y.pauserehash = p
        BY ONLY <4>3, DictParts
      <4>6. QED
        BY <1>1, <1>2, <1>7, <2>1, <3>3, <4>4, <4>5 DEF y, p
  <2>7. QED
    BY <2>5, <2>6
<1>8. QED
  BY <1>6, <1>7 DEF y

\* The table that has a key, found as the code finds it.
LEMMA HolderHas ==
  ASSUME hash \in [Key -> Nat], NEW x, DictHolds(x), NEW k \in Key,
         NEW f \in Entries(x), f.key = k
  PROVE  \/ /\ Holder(x, k) = 0 /\ f \in TableEntries(x.ht[0]) /\ x.ht[0].size > 0
         \/ /\ Holder(x, k) = 1 /\ f \in TableEntries(x.ht[1]) /\ x.ht[1].size > 0
            /\ IsRehashing(x)
<1> DEFINE t == x.ht[0]
           u == x.ht[1]
<1>1. /\ PartsHold(t, u, x.rehashidx) /\ Entries(x) = TableEntries(t) \cup TableEntries(u)
  BY DictTaken
<1>2. t.size > 0 /\ (IsRehashing(x) => u.size > 0) /\ (~IsRehashing(x) => TableEntries(u) = {})
  BY TablesUsed
<1>3. At(Chain(t, k), k) # {} <=> Of(TableEntries(t), k) # {}
  <2>1. TableHolds(t)
    BY <1>1 DEF PartsHold
  <2> HIDE DEF t
  <2>2. QED
    BY <1>2, <2>1, ChainOfKey
<1>4. Of(TableEntries(t), k) # {} <=> f \in TableEntries(t)
  <2>1. ASSUME NEW g \in Of(TableEntries(t), k) PROVE f \in TableEntries(t)
    <3>1. g \in Entries(x) /\ g.key = f.key /\ g \in TableEntries(t)
      BY <1>1, <2>1 DEF Of
    <3>2. g = f
      BY <3>1, OneEntry
    <3>3. QED
      BY <3>1, <3>2
  <2>2. f \in TableEntries(t) => f \in Of(TableEntries(t), k)
    BY DEF Of
  <2>3. QED
    BY <2>1, <2>2
<1>5. Holder(x, k) = IF At(Chain(t, k), k) # {} THEN 0 ELSE 1
  BY DEF Holder
<1> HIDE DEF t, u
<1>6. QED
  BY <1>1, <1>2, <1>3, <1>4, <1>5 DEF t, u

\* dictReplace adds the entry, or gives its key the new value.
LEMMA ReplacedHolds ==
  ASSUME hash \in [Key -> Nat], NEW x, DictHolds(x), NEW e \in Entry
  PROVE  LET y == Replaced(x, e) IN
         /\ DictHolds(y) /\ y.pauserehash = x.pauserehash
         /\ Entries(y) = Others(Entries(x), e.key) \cup {e}
<1> DEFINE y == Replaced(x, e)
           z == AddRaw(x, e)
           k == e.key
           t == z.ht[0]
           u == z.ht[1]
<1>1. /\ DictHolds(z) /\ z.pauserehash = x.pauserehash /\ k \in Key
      /\ Entries(z) = IF Of(Entries(x), k) # {} THEN Entries(x) ELSE Entries(x) \cup {e}
  BY AddRawHolds, EntryKey
<1>2. y = [z EXCEPT !.ht[Holder(z, k)] = Revalued(@, e)]
  BY DEF Replaced
<1> HIDE DEF z, y
<1>3. PICK f \in Entries(z) : f.key = k
  BY <1>1 DEF Of
<1>4. \A g \in Entries(z) : g.key = f.key => g = f
  BY <1>1, OneEntry
<1>5. (Entries(z) \ {f}) \cup {e} = Others(Entries(x), k) \cup {e}
  <2>1. Others(Entries(z), k) = Entries(z) \ {f}
    BY <1>3, <1>4 DEF Others
  <2>2. Others(Entries(z), k) \cup {e} = Others(Entries(x), k) \cup {e}
    BY <1>1 DEF Others
  <2>3. QED
    BY <2>1, <2>2
<1>6. /\ PartsHold(t, u, z.rehashidx) /\ Entries(z) = TableEntries(t) \cup TableEntries(u)
      /\ z = Dict2(t, u, z.rehashidx, z.pauserehash)
  BY <1>1, DictTaken
<1>7. TableHolds(t) /\ TableHolds(u) /\ \A g \in TableEntries(t), h \in TableEntries(u) : g.key # h.key
  BY <1>6 DEF PartsHold
<1>8. Counted(((TableEntries(t) \cup TableEntries(u)) \ {f}) \cup {e}, t.used + u.used)
  <2> DEFINE E == TableEntries(t) \cup TableEntries(u)
             n == t.used + u.used
  <2>1. Counted(E, n) /\ f \in E /\ e.key = f.key /\ \A g \in E : g.key = f.key => g = f
    BY <1>3, <1>4, <1>6 DEF PartsHold
  <2> HIDE DEF E, n
  <2>2. Counted((E \ {f}) \cup {e}, n)
    BY <2>1, CountedSame
  <2>3. QED
    BY <2>2 DEF E, n
<1>9. CASE Holder(z, k) = 0 /\ f \in TableEntries(t) /\ t.size > 0
  <2> DEFINE v == Revalued(t, e)
  <2>1. /\ TableHolds(v) /\ TableEntries(v) = (TableEntries(t) \ {f}) \cup {e}
        /\ v.size = t.size /\ v.used = t.used
        /\ \A j \in 0 .. t.size - 1 : t.table[j] = << >> => v.table[j] = << >>
    <3> HIDE DEF t
    <3> QED BY <1>3, <1>7, <1>9, RevaluedHolds
  <2>2. y = WithFirst(z, v)
    BY <1>2, <1>6, <1>9 DEF WithFirst, Dict2
  <2>3. TableEntries(v) \cup TableEntries(u) = ((TableEntries(t) \cup TableEntries(u)) \ {f}) \cup {e}
    BY <1>3, <1>7, <1>9, <2>1
  <2>4. \A g \in TableEntries(v) : \E h \in TableEntries(t) : h.key = g.key
    BY <1>3, <1>9, <2>1
  <2>5. Counted(TableEntries(v) \cup TableEntries(u), v.used + u.used)
    BY <1>8, <2>1, <2>3
  <2> HIDE DEF v
  <2>6. LET a == WithFirst(z, v) IN
        /\ DictHolds(a) /\ Entries(a) = TableEntries(v) \cup TableEntries(u)
        /\ a.pauserehash = z.pauserehash
    BY <1>1, <2>1, <2>4, <2>5, FirstChanged
  <2>7. QED
    BY <1>1, <1>5, <1>6, <2>2, <2>3, <2>6 DEF y
<1>10. CASE Holder(z, k) = 1 /\ f \in TableEntries(u) /\ u.size > 0 /\ IsRehashing(z)
  <2> DEFINE v == Revalued(u, e)
  <2>1. /\ TableHolds(v) /\ TableEntries(v) = (TableEntries(u) \ {f}) \cup {e}
        /\ v.size = u.size /\ v.used = u.used
    <3> HIDE DEF u
    <3> QED BY <1>3, <1>7, <1>10, RevaluedHolds
  <2>2. y = WithSecond(z, v)
    BY <1>2, <1>6, <1>10 DEF WithSecond, Dict2
  <2>3. TableEntries(t) \cup TableEntries(v) = ((TableEntries(t) \cup TableEntries(u)) \ {f}) \cup {e}
    BY <1>3, <1>7, <1>10, <2>1
  <2>4. \A g \in TableEntries(t), h \in TableEntries(v) : g.key # h.key
    BY <1>3, <1>7, <1>10, <2>1
  <2>5. Counted(TableEntries(t) \cup TableEntries(v), t.used + v.used)
    BY <1>8, <2>1, <2>3
  <2> HIDE DEF v
  <2>6. LET a == WithSecond(z, v) IN
        /\ DictHolds(a) /\ Entries(a) = TableEntries(t) \cup TableEntries(v)
        /\ a.pauserehash = z.pauserehash
    BY <1>1, <1>10, <2>1, <2>4, <2>5, SecondChanged
  <2>7. QED
    BY <1>1, <1>5, <1>6, <2>2, <2>3, <2>6 DEF y
<1>11. QED
  BY <1>1, <1>3, <1>9, <1>10, HolderHas

\* dictGenericDelete takes the key out, if it is there.
LEMMA DeletedHolds ==
  ASSUME hash \in [Key -> Nat], NEW x, DictHolds(x), NEW k \in Key
  PROVE  LET y == GenericDelete(x, k) IN
         /\ DictHolds(y) /\ y.pauserehash = x.pauserehash
         /\ Entries(y) = Others(Entries(x), k)
<1> DEFINE y == GenericDelete(x, k)
           z == Stepped(x)
           t == z.ht[0]
           u == z.ht[1]
<1>1. DictHolds(z) /\ z.pauserehash = x.pauserehash /\ Entries(z) = Entries(x)
  BY SteppedHolds DEF Same
<1>2. y = IF Lookup(z, k) = {} THEN z ELSE [z EXCEPT !.ht[Holder(z, k)] = Unlinked(@, k)]
  BY DEF GenericDelete
<1> HIDE DEF z, y
<1>3. Lookup(z, k) = Of(Entries(x), k)
  BY <1>1, LookupHolds
<1>4. CASE Of(Entries(x), k) = {}
  <2>1. Others(Entries(x), k) = Entries(x)
    BY <1>4 DEF Of, Others
  <2>2. QED
    BY <1>1, <1>2, <1>3, <1>4, <2>1 DEF y
<1>5. CASE Of(Entries(x), k) # {}
  <2>1. PICK f \in Entries(z) : f.key = k
    BY <1>1, <1>5 DEF Of
  <2>2. \A g \in Entries(z) : g.key = f.key => g = f
    BY <1>1, OneEntry
  <2>3. Others(Entries(x), k) = Entries(z) \ {f}
    BY <1>1, <2>1, <2>2 DEF Others
  <2>4. /\ PartsHold(t, u, z.rehashidx) /\ Entries(z) = TableEntries(t) \cup TableEntries(u)
        /\ z = Dict2(t, u, z.rehashidx, z.pauserehash)
    BY <1>1, DictTaken
  <2>5. /\ TableHolds(t) /\ TableHolds(u) /\ t.used \in Nat /\ u.used \in Nat
        /\ \A g \in TableEntries(t), h \in TableEntries(u) : g.key # h.key
    BY <2>4, TableChains DEF PartsHold, TableHolds
  <2>6. Counted((TableEntries(t) \cup TableEntries(u)) \ {f}, (t.used + u.used) - 1)
    <3> DEFINE E == TableEntries(t) \cup TableEntries(u)
               n == t.used + u.used
    <3>1. Counted(E, n) /\ f \in E /\ \A g \in E : g.key = f.key => g = f
      BY <2>1, <2>2, <2>4 DEF PartsHold
    <3> HIDE DEF E, n
    <3>2. Counted(E \ {f}, n - 1)
      BY <3>1, CountedLess
    <3>3. QED
      BY <3>2 DEF E, n
  <2>7. CASE Holder(z, k) = 0 /\ f \in TableEntries(t) /\ t.size > 0
    <3> DEFINE v == Unlinked(t, k)
    <3>1. /\ TableHolds(v) /\ TableEntries(v) = TableEntries(t) \ {f}
          /\ v.size = t.size /\ v.used = t.used - 1
          /\ \A j \in 0 .. t.size - 1 : t.table[j] = << >> => v.table[j] = << >>
      <4> HIDE DEF t
      <4> QED BY <2>1, <2>5, <2>7, UnlinkedHolds
    <3>2. y = WithFirst(z, v)
      BY <1>2, <1>3, <1>5, <2>4, <2>7 DEF WithFirst, Dict2
    <3>3. TableEntries(v) \cup TableEntries(u) = (TableEntries(t) \cup TableEntries(u)) \ {f}
      BY <2>1, <2>5, <2>7, <3>1
    <3>4. \A g \in TableEntries(v) : \E h \in TableEntries(t) : h.key = g.key
      BY <3>1
    <3>5. Counted(TableEntries(v) \cup TableEntries(u), v.used + u.used)
      <4>1. v.used + u.used = (t.used + u.used) - 1
        <5>1. v.used = t.used - 1 /\ t.used \in Nat /\ u.used \in Nat
          BY <2>5, <3>1
        <5>2. QED
          BY ONLY <5>1
      <4>2. QED
        BY <2>6, <3>3, <4>1
    <3> HIDE DEF v
    <3>6. LET a == WithFirst(z, v) IN
          /\ DictHolds(a) /\ Entries(a) = TableEntries(v) \cup TableEntries(u)
          /\ a.pauserehash = z.pauserehash
      BY <1>1, <3>1, <3>4, <3>5, FirstChanged
    <3>7. QED
      BY <1>1, <2>3, <2>4, <3>2, <3>3, <3>6 DEF y
  <2>8. CASE Holder(z, k) = 1 /\ f \in TableEntries(u) /\ u.size > 0 /\ IsRehashing(z)
    <3> DEFINE v == Unlinked(u, k)
    <3>1. /\ TableHolds(v) /\ TableEntries(v) = TableEntries(u) \ {f}
          /\ v.size = u.size /\ v.used = u.used - 1
      <4> HIDE DEF u
      <4> QED BY <2>1, <2>5, <2>8, UnlinkedHolds
    <3>2. y = WithSecond(z, v)
      BY <1>2, <1>3, <1>5, <2>4, <2>8 DEF WithSecond, Dict2
    <3>3. TableEntries(t) \cup TableEntries(v) = (TableEntries(t) \cup TableEntries(u)) \ {f}
      BY <2>1, <2>5, <2>8, <3>1
    <3>4. \A g \in TableEntries(t), h \in TableEntries(v) : g.key # h.key
      BY <2>5, <3>1
    <3>5. Counted(TableEntries(t) \cup TableEntries(v), t.used + v.used)
      <4>1. t.used + v.used = (t.used + u.used) - 1
        <5>1. v.used = u.used - 1 /\ t.used \in Nat /\ u.used \in Nat
          BY <2>5, <3>1
        <5>2. QED
          BY ONLY <5>1
      <4>2. QED
        BY <2>6, <3>3, <4>1
    <3> HIDE DEF v
    <3>6. LET a == WithSecond(z, v) IN
          /\ DictHolds(a) /\ Entries(a) = TableEntries(t) \cup TableEntries(v)
          /\ a.pauserehash = z.pauserehash
      BY <1>1, <2>8, <3>1, <3>4, <3>5, SecondChanged
    <3>7. QED
      BY <1>1, <2>3, <2>4, <3>2, <3>3, <3>6 DEF y
  <2>9. QED
    BY <1>1, <2>1, <2>7, <2>8, HolderHas
<1>6. QED
  BY <1>4, <1>5

-----------------------------------------------------------------------------
(* The inductive invariant.                                                *)

\* The dictionary holds together, and is paused by a safe iterator at work;
\* an iterator that has found an entry has started.
IterHolds ==
  /\ iter \in [safe : BOOLEAN, table : 0 .. 1, index : Int, next : {iter.next},
               ended : BOOLEAN]
  /\ iter.index >= -1
  /\ iter.next # NoKey => Started(iter)

Paused == d.pauserehash = IF walk = "iterator" /\ iter.safe /\ Started(iter) THEN 1 ELSE 0

DictKept ==
  /\ hash \in Hashes /\ canResize \in BOOLEAN
  /\ walk \in {"none", "iterator", "scan", "scanned"}
  /\ DictHolds(d) /\ IterHolds /\ Paused

\* A hash function gives every key a number.
LEMMA HashOfKeys == hash \in Hashes => hash \in [Key -> Nat]
  BY DictAssumption

\* The hash function never changes.
LEMMA Carried ==
  ASSUME hash' = hash, DictHolds(d')
  PROVE  DictHolds(d)'
  BY DEF DictHolds, PartsHold, TableHolds, Index

\* The dictionary that dictCreate makes, and dictEmpty leaves.
LEMMA NewDict ==
  LET x == [ht |-> [i \in 0 .. 1 |-> NoTable], rehashidx |-> -1, pauserehash |-> 0]
  IN  DictHolds(x) /\ Entries(x) = {} /\ x.pauserehash = 0
<1> DEFINE x == [ht |-> [i \in 0 .. 1 |-> NoTable], rehashidx |-> -1, pauserehash |-> 0]
           none == -1
           p == 0
<1>1. x = Dict2(NoTable, NoTable, none, p)
  BY DEF Dict2
<1>2. TableHolds(NoTable) /\ TableEntries(NoTable) = {} /\ NoTable.size = 0 /\ NoTable.used = 0
  BY NoTableHolds
<1>3. Counted({}, 0)
  <2>1. KeysOf({}) = {}
    BY DEF KeysOf
  <2>2. QED
    BY <2>1, FS_EmptySet DEF Counted
<1>4. PartsHold(NoTable, NoTable, none)
  BY <1>2, <1>3 DEF PartsHold, Sized
<1> HIDE DEF x, none
<1>5. DictHolds(Dict2(NoTable, NoTable, none, p))
  BY <1>4, DictMade
<1> HIDE DEF p
<1>6. Entries(x) = TableEntries(NoTable) \cup TableEntries(NoTable) /\ x.pauserehash = p
  BY ONLY <1>1, DictParts
<1>7. QED
  BY <1>1, <1>2, <1>5, <1>6 DEF x, p

LEMMA NewIterHolds ==
  ASSUME NEW safe \in BOOLEAN, iter = NewIterator(safe)
  PROVE  IterHolds /\ ~Started(iter) /\ iter.safe = safe
  BY DEF IterHolds, NewIterator, Started

LEMMA KeptInit == Init => DictKept
<1> SUFFICES ASSUME Init PROVE DictKept
  OBVIOUS
<1>1. hash \in Hashes /\ canResize \in BOOLEAN /\ walk = "none"
  BY DEF Init
<1>2. DictHolds(d) /\ d.pauserehash = 0
  BY NewDict DEF Init
<1>3. IterHolds
  <2>1. iter = NewIterator(FALSE)
    BY DEF Init
  <2>2. QED
    BY <2>1, NewIterHolds
<1>4. QED
  BY <1>1, <1>2, <1>3 DEF DictKept, Paused

\* A call that changes nothing but the dictionary, and leaves the pausing.
LEMMA KeptByCall ==
  ASSUME DictKept, UNCHANGED <<hash, walk, iter>>, canResize' \in BOOLEAN,
         DictHolds(d'), d'.pauserehash = d.pauserehash
  PROVE  DictKept'
<1>1. DictHolds(d)'
  BY Carried
<1>2. IterHolds'
  BY DEF DictKept, IterHolds, Started
<1>3. Paused'
  BY DEF DictKept, Paused, Started
<1>4. QED
  BY <1>1, <1>2, <1>3 DEF DictKept

\* What a call makes of the entries: dictionaries that hold together.
LEMMA CallsHold ==
  ASSUME DictKept
  PROVE  /\ \A e \in Entry :
              /\ DictHolds(AddRaw(d, e)) /\ AddRaw(d, e).pauserehash = d.pauserehash
              /\ DictHolds(Replaced(d, e)) /\ Replaced(d, e).pauserehash = d.pauserehash
         /\ \A k \in Key :
              DictHolds(GenericDelete(d, k)) /\ GenericDelete(d, k).pauserehash = d.pauserehash
         /\ DictHolds(Stepped(d)) /\ Same(d, Stepped(d))
         /\ \A n \in Nat : /\ DictHolds(Expand(d, n)) /\ Same(d, Expand(d, n))
                           /\ DictHolds(Rehash(d, n)) /\ Same(d, Rehash(d, n))
                           /\ DictHolds(SampleSteps(d, n)) /\ Same(d, SampleSteps(d, n))
<1>1. hash \in [Key -> Nat] /\ DictHolds(d)
  BY HashOfKeys DEF DictKept
<1> DEFINE x == d
<1>2. hash \in [Key -> Nat] /\ DictHolds(x)
  BY <1>1
<1> HIDE DEF x
<1>3. /\ \A e \in Entry :
           /\ DictHolds(AddRaw(x, e)) /\ AddRaw(x, e).pauserehash = x.pauserehash
           /\ DictHolds(Replaced(x, e)) /\ Replaced(x, e).pauserehash = x.pauserehash
      /\ \A k \in Key :
           DictHolds(GenericDelete(x, k)) /\ GenericDelete(x, k).pauserehash = x.pauserehash
  BY <1>2, AddRawHolds, ReplacedHolds, DeletedHolds
<1>4. DictHolds(Stepped(x)) /\ Same(x, Stepped(x))
  BY <1>2, SteppedHolds
<1>5. \A n \in Nat : DictHolds(Expand(x, n)) /\ Same(x, Expand(x, n))
  BY <1>2, ExpandHolds
<1>6. \A n \in Nat : /\ DictHolds(Rehash(x, n)) /\ Same(x, Rehash(x, n))
                     /\ DictHolds(SampleSteps(x, n)) /\ Same(x, SampleSteps(x, n))
  BY <1>2, RehashHolds, SampleStepsHold
<1>7. QED
  BY <1>3, <1>4, <1>5, <1>6 DEF x

\* The numbers that the calls work with.
LEMMA CallNumbers ==
  ASSUME DictKept
  PROVE  /\ InitialSize \in Nat /\ Batch \in Nat /\ ExpandSizes \subseteq Nat
         /\ d.ht[0].used \in Nat /\ d.ht[0].size \in Nat /\ Size(d) \in Nat
<1>1. PartsHold(d.ht[0], d.ht[1], d.rehashidx) /\ Size(d) = d.ht[0].used + d.ht[1].used
  BY DictTaken DEF DictKept
<1>2. /\ d.ht[0].used \in Nat /\ d.ht[0].size \in Nat /\ d.ht[1].used \in Nat
  <2>1. IsTable(d.ht[0]) /\ IsTable(d.ht[1])
    BY <1>1 DEF PartsHold, TableHolds
  <2>2. QED
    BY <2>1, TableChains
<1>3. QED
  BY <1>1, <1>2, DictAssumption

\* An iterator that is advanced has started.
LEMMA IterAdvanced ==
  ASSUME NEW x, NEW it,
         it \in [safe : BOOLEAN, table : 0 .. 1, index : Int, next : {it.next}, ended : BOOLEAN],
         it.index >= -1, it.next # NoKey => Started(it),
         x.ht[0].size \in Nat, x.ht[1].size \in Nat
  PROVE  LET jt == Advanced(x, it) IN
         /\ jt \in [safe : BOOLEAN, table : 0 .. 1, index : Int, next : {jt.next},
                    ended : BOOLEAN]
         /\ jt.index >= -1 /\ Started(jt) /\ jt.safe = it.safe
<1> DEFINE jt == Advanced(x, it)
           bucket == IF it.next # NoKey THEN {<<it.table, it.index>>} ELSE NextBucket(x, it)
           b == CHOOSE b \in bucket : TRUE
           last == IF IsRehashing(x) THEN 1 ELSE 0
           n == After(x.ht[b[1]].table[b[2]], Returned(x, it))
<1>1. jt = IF bucket = {} THEN [it EXCEPT !.ended = TRUE, !.table = last, !.index = x.ht[last].size]
           ELSE [it EXCEPT !.table = b[1], !.index = b[2], !.next = n]
  BY DEF Advanced
<1>2. last \in 0 .. 1 /\ x.ht[last].size \in Nat
  OBVIOUS
<1>3. CASE bucket = {}
  <2> DEFINE s == x.ht[last].size
  <2>1. jt = [it EXCEPT !.ended = TRUE, !.table = last, !.index = s] /\ s \in Nat
    BY <1>1, <1>2, <1>3
  <2> HIDE DEF bucket, jt, last, s
  <2>2. jt \in [safe : BOOLEAN, table : 0 .. 1, index : Int, next : {it.next}, ended : BOOLEAN]
        /\ jt.index = s /\ jt.safe = it.safe
    <3> DEFINE S == BOOLEAN
               M == {it.next}
               v == TRUE
    <3>1. it \in [safe : S, table : 0 .. 1, index : Int, next : M, ended : S] /\ v \in S
      OBVIOUS
    <3>2. jt = [it EXCEPT !.ended = v, !.table = last, !.index = s] /\ last \in 0 .. 1 /\ s \in Int
      BY <1>2, <2>1
    <3> HIDE DEF S, M, v
    <3>3. jt \in [safe : S, table : 0 .. 1, index : Int, next : M, ended : S]
          /\ jt.index = s /\ jt.safe = it.safe
      BY ONLY <3>1, <3>2
    <3>4. QED
      BY <3>3 DEF S, M
  <2>3. QED
    BY <2>1, <2>2 DEF Started, jt
<1>4. CASE bucket # {}
  <2>1. b \in bucket
    BY <1>4
  <2>2. b[1] \in 0 .. 1 /\ b[2] \in Int /\ b[2] >= -1 /\ (b[2] # -1 \/ b[1] # 0)
    <3>1. CASE it.next # NoKey
      BY <2>1, <3>1 DEF Started
    <3>2. CASE it.next = NoKey
      <4> DEFINE here == {<<it.table, i>> : i \in FirstFrom(x.ht[it.table], it.index + 1)}
                 there == {<<1, i>> : i \in FirstFrom(x.ht[1], 0)}
      <4>1. b \in here \/ b \in there
        BY <2>1, <3>2 DEF NextBucket
      <4>2. \A i \in FirstFrom(x.ht[it.table], it.index + 1) : i \in Int /\ i >= 0
        BY DEF FirstFrom
      <4>3. \A i \in FirstFrom(x.ht[1], 0) : i \in Int /\ i >= 0
        BY DEF FirstFrom
      <4> HIDE DEF b
      <4>4. QED
        BY <4>1, <4>2, <4>3
    <3>3. QED
      BY <3>1, <3>2
  <2> HIDE DEF bucket, jt, b, n
  <2>3. jt = [it EXCEPT !.table = b[1], !.index = b[2], !.next = n]
    BY <1>1, <1>4
  <2>4. jt \in [safe : BOOLEAN, table : 0 .. 1, index : Int, next : {n}, ended : BOOLEAN]
        /\ jt.index = b[2] /\ jt.table = b[1] /\ jt.safe = it.safe
    BY <2>2, <2>3
  <2>5. QED
    BY <2>2, <2>4 DEF Started, jt
<1>5. QED
  BY <1>3, <1>4

\* The rehashing is paused, or goes on.
LEMMA PauseHolds ==
  ASSUME NEW x, DictHolds(x), NEW p \in Int
  PROVE  LET y == [x EXCEPT !.pauserehash = p] IN
         DictHolds(y) /\ Entries(y) = Entries(x) /\ y.pauserehash = p /\ y.ht = x.ht
         /\ y.rehashidx = x.rehashidx
<1> DEFINE y == [x EXCEPT !.pauserehash = p]
           t == x.ht[0]
           u == x.ht[1]
           r == x.rehashidx
           q == x.pauserehash
<1>1. /\ x = Dict2(t, u, r, q) /\ PartsHold(t, u, r)
      /\ Entries(x) = TableEntries(t) \cup TableEntries(u)
  BY DictTaken
<1>2. y = WithPause(x, p)
  BY DEF WithPause
<1>3. y.ht = x.ht /\ y.rehashidx = x.rehashidx
  BY <1>1 DEF Dict2
<1> HIDE DEF y, t, u, r, q
<1>4. y = Dict2(t, u, r, p)
  BY <1>1, <1>2, SetPause
<1>5. DictHolds(y)
  BY <1>1, <1>4, DictMade
<1>6. Entries(y) = TableEntries(t) \cup TableEntries(u) /\ y.pauserehash = p
  BY ONLY <1>4, DictParts
<1>7. QED
  BY <1>1, <1>3, <1>5, <1>6 DEF y

\* dictNext pauses the rehashing when a safe iterator starts.
LEMMA KeptByNext ==
  ASSUME DictKept, DictNext
  PROVE  DictKept' /\ Entries(d') = Entries(d)
<1> DEFINE p == IF iter.safe /\ ~Started(iter) THEN d.pauserehash + 1 ELSE d.pauserehash
<1>1. /\ walk = "iterator" /\ walk' = walk /\ hash' = hash /\ canResize' = canResize
      /\ iter' = Advanced(d, iter)
      /\ d' = [d EXCEPT !.pauserehash = IF iter.safe /\ ~Started(iter) THEN @ + 1 ELSE @]
  BY DEF DictNext
<1>2. DictHolds(d) /\ d.pauserehash \in Int /\ p \in Int
  BY DictTaken DEF DictKept
<1>3. d' = [d EXCEPT !.pauserehash = p]
  <2>1. d = Dict2(d.ht[0], d.ht[1], d.rehashidx, d.pauserehash)
    BY <1>2, DictTaken
  <2>2. d \in [ht : {d.ht}, rehashidx : {d.rehashidx}, pauserehash : {d.pauserehash}]
    BY <2>1 DEF Dict2
  <2>3. QED
    BY <1>1, <2>2
<1> HIDE DEF p
<1>4. DictHolds(d') /\ Entries(d') = Entries(d) /\ d'.pauserehash = p
  <2> DEFINE x == d
  <2>1. DictHolds(x)
    BY <1>2
  <2> HIDE DEF x
  <2>2. LET y == [x EXCEPT !.pauserehash = p] IN
        DictHolds(y) /\ Entries(y) = Entries(x) /\ y.pauserehash = p
    BY <1>2, <2>1, PauseHolds
  <2>3. QED
    BY <1>3, <2>2 DEF x
<1>5. DictHolds(d)'
  BY <1>1, <1>4, Carried
<1>6. IterHolds' /\ Started(iter') /\ iter'.safe = iter.safe
  <2>1. d.ht[0].size \in Nat /\ d.ht[1].size \in Nat
    <3>1. TableHolds(d.ht[0]) /\ TableHolds(d.ht[1])
      BY <1>2, DictTaken DEF PartsHold
    <3>2. QED
      BY <3>1, TableChains DEF TableHolds
  <2> DEFINE x == d
             it == iter
             jt == Advanced(x, it)
  <2>2. /\ it \in [safe : BOOLEAN, table : 0 .. 1, index : Int, next : {it.next}, ended : BOOLEAN]
        /\ it.index >= -1 /\ (it.next # NoKey => Started(it))
        /\ x.ht[0].size \in Nat /\ x.ht[1].size \in Nat
    BY <2>1 DEF DictKept, IterHolds
  <2> HIDE DEF x, it
  <2>3. /\ jt \in [safe : BOOLEAN, table : 0 .. 1, index : Int, next : {jt.next},
                   ended : BOOLEAN]
        /\ jt.index >= -1 /\ Started(jt) /\ jt.safe = it.safe
    BY <2>2, IterAdvanced
  <2>4. iter' = jt
    BY <1>1 DEF x, it
  <2> HIDE DEF jt
  <2>5. QED
    BY <2>3, <2>4 DEF IterHolds, Started, it
<1>7. Paused'
  <2>1. d.pauserehash = IF iter.safe /\ Started(iter) THEN 1 ELSE 0
    BY <1>1 DEF DictKept, Paused
  <2>2. p = IF iter.safe THEN 1 ELSE 0
    BY <2>1 DEF p
  <2>3. Started(iter)'
    BY <1>6 DEF Started
  <2>4. QED
    BY <1>1, <1>4, <1>6, <2>2, <2>3 DEF Paused
<1>8. QED
  BY <1>1, <1>4, <1>5, <1>6, <1>7 DEF DictKept

\* dictReleaseIterator lets it go on.
LEMMA KeptByRelease ==
  ASSUME DictKept, ReleaseIterator
  PROVE  DictKept' /\ Entries(d') = Entries(d)
<1> DEFINE p == IF iter.safe /\ Started(iter) THEN d.pauserehash - 1 ELSE d.pauserehash
<1>1. /\ walk = "iterator" /\ walk' = "none" /\ hash' = hash /\ canResize' = canResize
      /\ iter' = NewIterator(FALSE)
      /\ d' = [d EXCEPT !.pauserehash = IF iter.safe /\ Started(iter) THEN @ - 1 ELSE @]
  BY DEF ReleaseIterator, EndWalk
<1>2. DictHolds(d) /\ d.pauserehash \in Int /\ p \in Int
  BY DictTaken DEF DictKept
<1>3. d' = [d EXCEPT !.pauserehash = p]
  <2>1. d = Dict2(d.ht[0], d.ht[1], d.rehashidx, d.pauserehash)
    BY <1>2, DictTaken
  <2>2. d \in [ht : {d.ht}, rehashidx : {d.rehashidx}, pauserehash : {d.pauserehash}]
    BY <2>1 DEF Dict2
  <2>3. QED
    BY <1>1, <2>2
<1>4. p = 0
  BY <1>1 DEF DictKept, Paused
<1> HIDE DEF p
<1>5. DictHolds(d') /\ Entries(d') = Entries(d) /\ d'.pauserehash = p
  <2> DEFINE x == d
  <2>1. DictHolds(x)
    BY <1>2
  <2> HIDE DEF x
  <2>2. LET y == [x EXCEPT !.pauserehash = p] IN
        DictHolds(y) /\ Entries(y) = Entries(x) /\ y.pauserehash = p
    BY <1>2, <2>1, PauseHolds
  <2>3. QED
    BY <1>3, <2>2 DEF x
<1>6. DictHolds(d)'
  BY <1>1, <1>5, Carried
<1>7. IterHolds'
  BY <1>1 DEF IterHolds, NewIterator, Started
<1>8. Paused'
  BY <1>1, <1>4, <1>5 DEF Paused
<1>9. QED
  BY <1>1, <1>5, <1>6, <1>7, <1>8 DEF DictKept

\* What every step makes of the entries: they stay, or a key is added, gets
\* another value, or is taken out, or all are.
Changed(E, F) ==
  \/ F = E \/ F = {}
  \/ \E e \in Entry : Of(E, e.key) = {} /\ F = E \cup {e}
  \/ \E e \in Entry : Of(E, e.key) # {} /\ F = Others(E, e.key) \cup {e}
  \/ \E k \in Key : F = Others(E, k)

LEMMA KeptStep ==
  ASSUME DictKept, Next
  PROVE  DictKept' /\ Changed(Entries(d), Entries(d'))
<1>1. /\ hash \in [Key -> Nat] /\ DictHolds(d) /\ canResize \in BOOLEAN
      /\ InitialSize \in Nat /\ Batch \in Nat /\ ExpandSizes \subseteq Nat
      /\ d.ht[0].used \in Nat /\ d.ht[0].size \in Nat /\ Size(d) \in Nat
  BY HashOfKeys, CallNumbers DEF DictKept
<1>2. ASSUME NEW e \in Entry, Add(e) PROVE DictKept' /\ Changed(Entries(d), Entries(d'))
  <2>1. d' = AddRaw(d, e) /\ UNCHANGED <<hash, walk, iter>> /\ canResize' \in BOOLEAN
    BY <1>1, <1>2 DEF Add, walkVars
  <2>2. DictHolds(d') /\ d'.pauserehash = d.pauserehash
    BY <2>1, CallsHold
  <2> DEFINE x == d
  <2>3. DictHolds(x)
    BY <1>1
  <2> HIDE DEF x
  <2>4. Entries(AddRaw(x, e)) = IF Of(Entries(x), e.key) # {} THEN Entries(x)
                                ELSE Entries(x) \cup {e}
    BY <1>1, <2>3, AddRawHolds
  <2>5. QED
    BY <2>1, <2>2, <2>4, KeptByCall DEF x, Changed
<1>3. ASSUME NEW e \in Entry, Replace(e) PROVE DictKept' /\ Changed(Entries(d), Entries(d'))
  <2>1. d' = Replaced(d, e) /\ UNCHANGED <<hash, walk, iter>> /\ canResize' \in BOOLEAN
    BY <1>1, <1>3 DEF Replace, walkVars
  <2>2. DictHolds(d') /\ d'.pauserehash = d.pauserehash
    BY <2>1, CallsHold
  <2> DEFINE x == d
  <2>3. DictHolds(x)
    BY <1>1
  <2> HIDE DEF x
  <2>4. Entries(Replaced(x, e)) = Others(Entries(x), e.key) \cup {e}
    BY <1>1, <2>3, ReplacedHolds
  <2>5. Of(Entries(x), e.key) = {} => Others(Entries(x), e.key) = Entries(x)
    BY DEF Of, Others
  <2>6. QED
    BY <2>1, <2>2, <2>4, <2>5, KeptByCall DEF x, Changed
<1>4. ASSUME NEW k \in Key, Delete(k) PROVE DictKept' /\ Changed(Entries(d), Entries(d'))
  <2>1. d' = GenericDelete(d, k) /\ UNCHANGED <<hash, walk, iter>> /\ canResize' \in BOOLEAN
    BY <1>1, <1>4 DEF Delete
  <2>2. DictHolds(d') /\ d'.pauserehash = d.pauserehash
    BY <2>1, CallsHold
  <2> DEFINE x == d
  <2>3. DictHolds(x)
    BY <1>1
  <2> HIDE DEF x
  <2>4. Entries(GenericDelete(x, k)) = Others(Entries(x), k)
    BY <1>1, <2>3, DeletedHolds
  <2>5. QED
    BY <2>1, <2>2, <2>4, KeptByCall DEF x, Changed
<1>5. CASE Find
  <2>1. d' = Stepped(d) /\ UNCHANGED <<hash, walk, iter>> /\ canResize' \in BOOLEAN
    BY <1>1, <1>5 DEF Find, walkVars
  <2>2. QED
    BY <2>1, CallsHold, KeptByCall DEF Same, Changed
<1>6. CASE RehashMilliseconds
  <2>1. d' = Rehash(d, Batch) /\ UNCHANGED <<hash, walk, iter>> /\ canResize' \in BOOLEAN
    BY <1>1, <1>6 DEF RehashMilliseconds, walkVars
  <2>2. QED
    BY <1>1, <2>1, CallsHold, KeptByCall DEF Same, Changed
<1>7. ASSUME NEW n \in Nat, d' = Expand(d, n), UNCHANGED <<hash, walk, iter>>, canResize' \in BOOLEAN
      PROVE  DictKept' /\ Changed(Entries(d), Entries(d'))
  BY <1>7, CallsHold, KeptByCall DEF Same, Changed
<1>8. CASE Resize
  <2> DEFINE n == IF d.ht[0].used < InitialSize THEN InitialSize ELSE d.ht[0].used
  <2>1. d' = Expand(d, n) /\ UNCHANGED <<hash, walk, iter>> /\ canResize' \in BOOLEAN
    BY <1>1, <1>8 DEF Resize, walkVars
  <2>2. n \in Nat
    BY <1>1
  <2> HIDE DEF n
  <2>3. QED
    BY <1>7, <2>1, <2>2
<1>9. ASSUME NEW n \in ExpandSizes, ExpandTo(n) PROVE DictKept' /\ Changed(Entries(d), Entries(d'))
  <2>1. d' = Expand(d, n) /\ UNCHANGED <<hash, walk, iter>> /\ canResize' \in BOOLEAN /\ n \in Nat
    BY <1>1, <1>9 DEF ExpandTo, walkVars
  <2>2. QED
    BY <1>7, <2>1
<1>10. ASSUME NEW c \in 1 .. Cardinality(Key), GetSomeKeys(c)
       PROVE  DictKept' /\ Changed(Entries(d), Entries(d'))
  <2> DEFINE n == IF c < Size(d) THEN c ELSE Size(d)
  <2>1. d' = SampleSteps(d, n) /\ UNCHANGED <<hash, walk, iter>> /\ canResize' \in BOOLEAN
    BY <1>1, <1>10 DEF GetSomeKeys, walkVars
  <2>2. n \in Nat
    BY <1>1
  <2> HIDE DEF n
  <2>3. QED
    BY <2>1, <2>2, CallsHold, KeptByCall DEF Same, Changed
<1>11. CASE Empty
  <2>1. /\ walk # "iterator" /\ UNCHANGED <<hash, canResize, walk, iter>>
        /\ d' = [ht |-> [i \in 0 .. 1 |-> NoTable], rehashidx |-> -1, pauserehash |-> 0]
    BY <1>11 DEF Empty
  <2>2. DictHolds(d') /\ Entries(d') = {} /\ d'.pauserehash = 0
    BY <2>1, NewDict
  <2>3. d.pauserehash = 0
    BY <2>1 DEF DictKept, Paused
  <2>4. QED
    BY <1>1, <2>1, <2>2, <2>3, KeptByCall DEF Changed
<1>12. ASSUME NEW b \in BOOLEAN, SetCanResize(b)
       PROVE  DictKept' /\ Changed(Entries(d), Entries(d'))
  <2>1. UNCHANGED <<hash, walk, iter, d>> /\ canResize' \in BOOLEAN
    BY <1>12 DEF SetCanResize, walkVars
  <2>2. DictHolds(d') /\ d'.pauserehash = d.pauserehash /\ Entries(d') = Entries(d)
    BY <1>1, <2>1
  <2>3. QED
    BY <2>1, <2>2, KeptByCall DEF Changed
<1>13. ASSUME NEW b \in BOOLEAN, GetIterator(b)
       PROVE  DictKept' /\ Changed(Entries(d), Entries(d'))
  <2>1. /\ UNCHANGED <<hash, canResize, d>> /\ walk = "none" /\ walk' = "iterator"
        /\ iter' = NewIterator(b)
    BY <1>13 DEF GetIterator
  <2>2. DictHolds(d)' /\ d.pauserehash = 0 /\ Entries(d') = Entries(d)
    BY <1>1, <2>1, Carried DEF DictKept, Paused
  <2>3. IterHolds' /\ Paused'
    BY <2>1, <2>2 DEF IterHolds, NewIterator, Started, Paused
  <2>4. QED
    BY <2>1, <2>2, <2>3 DEF DictKept, Changed
<1>14. CASE DictScan \/ LeaveScan
  <2>1. /\ UNCHANGED <<hash, canResize, d>> /\ walk \in {"none", "scan", "scanned"}
        /\ walk' \in {"none", "scan", "scanned"}
        /\ iter' = iter \/ iter' = NewIterator(FALSE)
    BY <1>14 DEF DictScan, LeaveScan, EndWalk
  <2>2. DictHolds(d)' /\ d.pauserehash = 0 /\ Entries(d') = Entries(d)
    BY <1>1, <2>1, Carried DEF DictKept, Paused
  <2>3. IterHolds'
    <3>1. CASE iter' = iter
      BY <3>1 DEF DictKept, IterHolds, Started
    <3>2. CASE iter' = NewIterator(FALSE)
      BY <3>2 DEF IterHolds, NewIterator, Started
    <3>3. QED
      BY <2>1, <3>1, <3>2
  <2>4. Paused'
    BY <2>1, <2>2 DEF Paused
  <2>5. QED
    BY <2>1, <2>2, <2>3, <2>4 DEF DictKept, Changed
<1>15. CASE DictNext \/ ReleaseIterator
  BY <1>15, KeptByNext, KeptByRelease DEF Changed
<1>16. QED
  BY <1>2, <1>3, <1>4, <1>5, <1>6, <1>8, <1>9, <1>10, <1>11, <1>12, <1>13, <1>14, <1>15 DEF Next

\* dictCreate makes a dictionary that holds together, and every call keeps it.
LEMMA KeptAlways == Spec => []DictKept
<1>1. Init => DictKept
  BY KeptInit
<1>2. DictKept /\ [Next]_vars => DictKept'
  <2>1. DictKept /\ Next => DictKept'
    BY KeptStep
  <2>2. DictKept /\ UNCHANGED vars => DictKept'
    <3> SUFFICES ASSUME DictKept, UNCHANGED vars PROVE DictKept'
      OBVIOUS
    <3>1. UNCHANGED <<hash, walk, iter, d>> /\ canResize' \in BOOLEAN
      BY DEF vars, walkVars, DictKept
    <3>2. DictHolds(d') /\ d'.pauserehash = d.pauserehash
      BY <3>1 DEF DictKept
    <3>3. QED
      BY <3>1, <3>2, KeptByCall
  <2>3. QED
    BY <2>1, <2>2
<1>3. QED
  BY <1>1, <1>2, PTL DEF Spec

-----------------------------------------------------------------------------
(* What it means for the table.                                            *)

\* Clearing the table frees every entry.
LEMMA AllFreed ==
  ASSUME NEW t, TableHolds(t)
  PROVE  /\ t.used = Stats(t).totchainlen /\ Freed(t) = TableEntries(t)
         /\ \A j \in DOMAIN t.table : \A e \in ToSet(t.table[j]) : Index(t, e.key) = j
         /\ DOMAIN t.table = 0 .. t.size - 1
         /\ \A j \in DOMAIN t.table : t.table[j] \in Seq(Entry)
<1>1. /\ IsTable(t) /\ t.used = Before(t)[t.size] /\ t.size \in Nat /\ t.used \in Nat
      /\ DOMAIN t.table = 0 .. t.size - 1
      /\ \A j \in 0 .. t.size - 1 :
           /\ t.table[j] \in Seq(Entry) /\ Len(t.table[j]) \in Nat
           /\ Len(t.table[j]) = 0 <=> t.table[j] = << >>
           /\ \A e \in ToSet(t.table[j]) : Index(t, e.key) = j
  BY TableChains DEF TableHolds
<1>2. Stats(t).totchainlen = Before(t)[t.size]
  BY DEF Stats
<1>3. Freed(t) = TableEntries(t)
  <2>1. ASSUME NEW j \in DOMAIN t.table, NEW e \in ToSet(t.table[j])
        PROVE  Before(t)[j] < t.used
    <3> DEFINE b == Before(t)[j]
               l == Len(t.table[j])
               n == Before(t)[t.size]
    <3>1. b \in Nat /\ b + l <= n
      <4>1. j \in 0 .. t.size - 1 /\ j \in 0 .. t.size
        BY <1>1
      <4>2. QED
        BY <1>1, <4>1, BeforeGrows
    <3>2. l \in Nat /\ l # 0 /\ n = t.used
      BY <1>1, <2>1, EmptyChain
    <3> HIDE DEF b, l, n
    <3>3. b < t.used
      BY <1>1, <3>1, <3>2
    <3>4. QED
      BY <3>3 DEF b
  <2>2. QED
    BY <2>1 DEF Freed, TableEntries
<1>4. QED
  BY <1>1, <1>2, <1>3

LEMMA KeptTypes == DictKept => TypeOK
<1> SUFFICES ASSUME DictKept PROVE TypeOK
  OBVIOUS
<1> DEFINE t == d.ht[0]
           u == d.ht[1]
<1>1. /\ d = Dict2(t, u, d.rehashidx, d.pauserehash) /\ PartsHold(t, u, d.rehashidx)
  BY DictTaken DEF DictKept
<1>2. DOMAIN d.ht = 0 .. 1
  BY <1>1 DEF Dict2
<1>3. /\ Sized(t) /\ Sized(u) /\ d.rehashidx \in -1 .. t.size /\ TableHolds(t) /\ TableHolds(u)
  BY <1>1 DEF PartsHold
<1>4. /\ DOMAIN t.table = 0 .. t.size - 1 /\ \A j \in DOMAIN t.table : t.table[j] \in Seq(Entry)
      /\ DOMAIN u.table = 0 .. u.size - 1 /\ \A j \in DOMAIN u.table : u.table[j] \in Seq(Entry)
  <2> HIDE DEF t, u
  <2> QED BY <1>3, AllFreed
<1>5. \A i \in 0 .. 1 : LET v == d.ht[i] IN
        /\ v.size = 0 \/ v.size = NextPower(v.size)
        /\ DOMAIN v.table = 0 .. v.size - 1
        /\ \A j \in DOMAIN v.table : v.table[j] \in Seq(Entry)
  <2> SUFFICES ASSUME NEW i \in 0 .. 1
               PROVE  LET v == d.ht[i] IN
                      /\ v.size = 0 \/ v.size = NextPower(v.size)
                      /\ DOMAIN v.table = 0 .. v.size - 1
                      /\ \A j \in DOMAIN v.table : v.table[j] \in Seq(Entry)
    OBVIOUS
  <2>1. i = 0 \/ i = 1
    OBVIOUS
  <2>2. QED
    BY <1>3, <1>4, <2>1 DEF Sized
<1>6. QED
  BY <1>2, <1>3, <1>5 DEF TypeOK, DictKept

LEMMA KeptInv == DictKept => DictInv
<1> SUFFICES ASSUME DictKept PROVE DictInv
  OBVIOUS
<1> DEFINE t == d.ht[0]
           u == d.ht[1]
           r == d.rehashidx
<1>1. /\ PartsHold(t, u, r) /\ Entries(d) = TableEntries(t) \cup TableEntries(u)
      /\ Size(d) = t.used + u.used /\ (IsRehashing(d) <=> r # -1)
  BY DictTaken DEF DictKept
<1>2. TableHolds(t) /\ TableHolds(u)
  BY <1>1 DEF PartsHold
<1>3. \A i \in 0 .. 1 : LET v == d.ht[i] IN
        /\ v.used = Stats(v).totchainlen /\ Freed(v) = TableEntries(v)
        /\ \A j \in DOMAIN v.table : \A e \in ToSet(v.table[j]) : Index(v, e.key) = j
  <2> SUFFICES ASSUME NEW i \in 0 .. 1
               PROVE  LET v == d.ht[i] IN
                      /\ v.used = Stats(v).totchainlen /\ Freed(v) = TableEntries(v)
                      /\ \A j \in DOMAIN v.table : \A e \in ToSet(v.table[j]) : Index(v, e.key) = j
    OBVIOUS
  <2> DEFINE v == d.ht[i]
  <2>1. i = 0 \/ i = 1
    OBVIOUS
  <2>2. TableHolds(v)
    BY <1>2, <2>1
  <2> HIDE DEF v
  <2>3. /\ v.used = Stats(v).totchainlen /\ Freed(v) = TableEntries(v)
        /\ \A j \in DOMAIN v.table : \A e \in ToSet(v.table[j]) : Index(v, e.key) = j
    BY <2>2, AllFreed
  <2>4. QED
    BY <2>3 DEF v
<1>4. Cardinality(Keys(d)) = Size(d)
  <2>1. Keys(d) = KeysOf(Entries(d))
    BY DEF Keys, KeysOf
  <2>2. Counted(Entries(d), Size(d))
    BY <1>1 DEF PartsHold
  <2>3. QED
    BY <2>1, <2>2 DEF Counted
<1>5. CASE IsRehashing(d)
  <2>1. u.size > 0 /\ \A j \in 0 .. r - 1 : t.table[j] = << >>
    BY <1>1, <1>5 DEF PartsHold
  <2>2. t.used > 0 => r < t.size
    <3> SUFFICES ASSUME t.used > 0 PROVE r < t.size
      OBVIOUS
    <3>1. t.used # 0 /\ t.size \in Nat
      <4>1. t.used \in Nat /\ t.size \in Nat
        <5> HIDE DEF t
        <5> QED BY <1>2, TableChains DEF TableHolds
      <4>2. QED
        BY <4>1
    <3> HIDE DEF t, u, r
    <3>2. r \in 0 .. t.size - 1
      BY <1>1, <1>5, <3>1, NextExists
    <3>3. QED
      BY <3>1, <3>2
  <2>3. QED
    BY <1>3, <1>4, <1>5, <2>1, <2>2, KeptTypes DEF DictInv, DictKept, Paused
<1>6. CASE ~IsRehashing(d)
  <2>1. u = NoTable
    BY <1>1, <1>6 DEF PartsHold
  <2>2. QED
    BY <1>3, <1>4, <1>6, <2>1, KeptTypes DEF DictInv, DictKept, Paused
<1>7. QED
  BY <1>5, <1>6

LEMMA KeptLookup == DictKept => LookupFindsAll
<1> SUFFICES ASSUME DictKept, NEW k \in Key
             PROVE  LET entry == {e \in Entries(d) : e.key = k}
                    IN  Lookup(Stepped(d), k) = entry /\ Lookup(d, k) = entry
  BY DEF LookupFindsAll
<1> DEFINE x == d
           y == Stepped(x)
<1>1. hash \in [Key -> Nat] /\ DictHolds(x)
  BY HashOfKeys DEF DictKept
<1> HIDE DEF x
<1>2. DictHolds(y) /\ Entries(y) = Entries(x)
  BY <1>1, SteppedHolds DEF Same
<1> HIDE DEF y
<1>3. Lookup(x, k) = Of(Entries(x), k) /\ Lookup(y, k) = Of(Entries(x), k)
  BY <1>1, <1>2, LookupHolds
<1>4. QED
  BY <1>3 DEF x, y, Of

\* THEOREM: whatever the hash function does with the keys, however many
\* there are and whatever sizes are asked for, the table holds together at
\* every point of a rehash: it counts its entries, has every key once and in
\* the bucket of its hash, and the next bucket to move exists (dict.c:216).
THEOREM DictInvariant == Spec => []DictInv
<1>1. DictKept => DictInv
  BY KeptInv
<1>2. QED
  BY <1>1, KeptAlways, PTL

\* THEOREM: a lookup finds what is there, before and after the step of the
\* rehash that it does (dictFind, dict.c:476).
THEOREM LookupsFindAll == Spec => []LookupFindsAll
<1>1. DictKept => LookupFindsAll
  BY KeptLookup
<1>2. QED
  BY <1>1, KeptAlways, PTL

-----------------------------------------------------------------------------
(* The map.                                                                *)

\* The map that the entries are.
MapOf(E) == [k \in {e.key : e \in E} |-> (CHOOSE e \in E : e.key = k).val]

\* No key is there twice.
Unique(E) == \A e, f \in E : e.key = f.key => e = f

\* An entry is a key with one of its values.
LEMMA EntryValue == \A e \in Entry : e.key \in Key /\ e.val \in Values[e.key]
  BY DEF Entry

\* What the map is at a key.
LEMMA MapAt ==
  ASSUME NEW E, Unique(E)
  PROVE  /\ DOMAIN MapOf(E) = KeysOf(E)
         /\ MapOf(E) = [k \in KeysOf(E) |-> MapOf(E)[k]]
         /\ \A e \in E : MapOf(E)[e.key] = e.val
<1> DEFINE At1(k) == CHOOSE e \in E : e.key = k
<1>1. MapOf(E) = [k \in KeysOf(E) |-> At1(k).val]
  BY DEF MapOf, KeysOf
<1>2. \A e \in E : e.key \in KeysOf(E) /\ At1(e.key) = e
  <2> SUFFICES ASSUME NEW e \in E PROVE e.key \in KeysOf(E) /\ At1(e.key) = e
    OBVIOUS
  <2>1. At1(e.key) \in E /\ At1(e.key).key = e.key
    OBVIOUS
  <2> HIDE DEF At1
  <2>2. QED
    BY <2>1 DEF Unique, KeysOf
<1> HIDE DEF At1
<1>3. QED
  BY <1>1, <1>2

\* Two maps that agree.
LEMMA MapsAgree ==
  ASSUME NEW E, Unique(E), NEW K, K = KeysOf(E), NEW g, g = [k \in K |-> g[k]],
         \A e \in E : g[e.key] = e.val
  PROVE  MapOf(E) = g
<1>1. \A k \in K : MapOf(E)[k] = g[k]
  <2> SUFFICES ASSUME NEW k \in K PROVE MapOf(E)[k] = g[k]
    OBVIOUS
  <2>1. PICK e \in E : e.key = k
    BY DEF KeysOf
  <2>2. MapOf(E)[e.key] = e.val
    BY MapAt
  <2>3. QED
    BY <2>1, <2>2
<1>2. MapOf(E) = [k \in K |-> MapOf(E)[k]]
  BY MapAt
<1>3. QED
  BY <1>1, <1>2

\* A key is added.
LEMMA MapAdd ==
  ASSUME NEW E, Unique(E), NEW e \in Entry, Of(E, e.key) = {}
  PROVE  MapOf(E \cup {e}) = Map!Add(MapOf(E), e.key, e.val)
<1> DEFINE F == E \cup {e}
           k == e.key
           v == e.val
           m == MapOf(E)
           g == [j \in DOMAIN m \cup {k} |-> IF j = k THEN v ELSE m[j]]
<1>1. Unique(F) /\ KeysOf(F) = KeysOf(E) \cup {k} /\ k \notin KeysOf(E)
  BY DEF Unique, KeysOf, Of
<1>2. DOMAIN m = KeysOf(E) /\ \A f \in E : m[f.key] = f.val
  BY MapAt
<1>3. Map!Add(m, k, v) = g
  BY <1>1, <1>2 DEF Map!Add
<1> HIDE DEF m, F
<1>4. g = [x \in KeysOf(F) |-> IF x = k THEN v ELSE m[x]]
  BY <1>1, <1>2
<1> HIDE DEF g
<1>5. g = [x \in KeysOf(F) |-> g[x]]
  BY <1>4
<1>6. \A f \in F : g[f.key] = f.val
  <2> SUFFICES ASSUME NEW f \in F PROVE g[f.key] = f.val
    OBVIOUS
  <2>1. f.key \in KeysOf(F)
    BY DEF KeysOf
  <2>2. g[f.key] = IF f.key = k THEN v ELSE m[f.key]
    BY <1>4, <2>1
  <2>3. e \in F /\ (f = e \/ f \in E)
    BY DEF F
  <2>4. (f.key = k => f = e) /\ (f # e => f \in E /\ f.key # k)
    BY <1>1, <2>3 DEF Unique, KeysOf
  <2>5. QED
    BY <1>2, <2>2, <2>3, <2>4
<1> HIDE DEF F
<1>7. MapOf(F) = g
  <2> DEFINE K == KeysOf(F)
  <2>1. /\ Unique(F) /\ K = KeysOf(F) /\ g = [x \in K |-> g[x]]
        /\ \A f \in F : g[f.key] = f.val
    BY <1>1, <1>5, <1>6
  <2> HIDE DEF K
  <2>2. QED
    BY ONLY <2>1, MapsAgree
<1>8. QED
  BY <1>3, <1>7 DEF F, m

\* A key gets another value.
LEMMA MapReplace ==
  ASSUME NEW E, Unique(E), NEW e \in Entry, Of(E, e.key) # {}
  PROVE  MapOf(Others(E, e.key) \cup {e}) = Map!Replace(MapOf(E), e.key, e.val)
<1> DEFINE F == Others(E, e.key) \cup {e}
           k == e.key
           v == e.val
           m == MapOf(E)
           g == [m EXCEPT ![k] = v]
<1>1. Unique(F) /\ KeysOf(F) = KeysOf(E) /\ k \in KeysOf(E)
  BY DEF Unique, KeysOf, Of, Others
<1>2. /\ DOMAIN m = KeysOf(E) /\ \A f \in E : m[f.key] = f.val
      /\ m = [x \in KeysOf(E) |-> m[x]]
  BY MapAt
<1>3. Map!Replace(m, k, v) = g
  BY DEF Map!Replace
<1>4. \A f \in F : f = e \/ (f \in E /\ f.key # k)
  BY DEF Others
<1> HIDE DEF m, F
<1>5. g = [x \in KeysOf(F) |-> g[x]]
  BY <1>1, <1>2
<1>6. \A f \in F : g[f.key] = f.val
  <2> SUFFICES ASSUME NEW f \in F PROVE g[f.key] = f.val
    OBVIOUS
  <2>1. f.key \in KeysOf(E)
    BY <1>1 DEF KeysOf
  <2>2. g[f.key] = IF f.key = k THEN v ELSE m[f.key]
    BY <1>2, <2>1
  <2>3. QED
    BY <1>2, <1>4, <2>2
<1> HIDE DEF g
<1>7. MapOf(F) = g
  BY <1>1, <1>5, <1>6, MapsAgree
<1>8. QED
  BY <1>3, <1>7 DEF F, m

\* A key is taken out.
LEMMA MapDelete ==
  ASSUME NEW E, Unique(E), NEW k
  PROVE  MapOf(Others(E, k)) = Map!Delete(MapOf(E), k)
<1> DEFINE F == Others(E, k)
           m == MapOf(E)
           g == [j \in DOMAIN m \ {k} |-> m[j]]
<1>1. Unique(F) /\ KeysOf(F) = KeysOf(E) \ {k}
  BY DEF Unique, KeysOf, Others
<1>2. DOMAIN m = KeysOf(E) /\ \A f \in E : m[f.key] = f.val
  BY MapAt
<1>3. Map!Delete(m, k) = g
  BY DEF Map!Delete
<1>4. \A f \in F : f \in E /\ f.key \in KeysOf(F)
  BY DEF Others, KeysOf
<1> HIDE DEF m, F
<1>5. g = [x \in KeysOf(F) |-> g[x]]
  BY <1>1, <1>2
<1>6. \A f \in F : g[f.key] = f.val
  BY <1>1, <1>2, <1>4
<1> HIDE DEF g
<1>7. MapOf(F) = g
  BY <1>1, <1>5, <1>6, MapsAgree
<1>8. QED
  BY <1>3, <1>7 DEF F, m

\* Without entries the map is empty.
LEMMA MapEmpty == MapOf({}) = Map!EmptyMap
<1>1. MapOf({}) = [k \in {} |-> (CHOOSE e \in {} : e.key = k).val]
  BY DEF MapOf
<1>2. QED
  BY <1>1 DEF Map!EmptyMap

\* In a dictionary that holds together no key is there twice.
LEMMA DictUnique ==
  ASSUME NEW x, DictHolds(x)
  PROVE  Unique(Entries(x)) /\ Entries(x) \subseteq Entry
<1>1. Unique(Entries(x))
  BY OneEntry DEF Unique
<1>2. Entries(x) = TableEntries(x.ht[0]) \cup TableEntries(x.ht[1])
      /\ IsTable(x.ht[0]) /\ IsTable(x.ht[1])
  BY DictTaken DEF PartsHold, TableHolds
<1>3. QED
  BY <1>1, <1>2, EntriesByBucket

\* Every change of the entries is one of the changes of the map.
LEMMA MapChanged ==
  ASSUME NEW E, Unique(E), NEW F, Changed(E, F)
  PROVE  MapOf(F) = MapOf(E) \/ MapOf(F) \in Map!Results(MapOf(E))
<1> DEFINE m == MapOf(E)
<1> HIDE DEF m
<1>1. CASE F = E
  BY <1>1
<1>2. CASE F = {}
  BY <1>2, MapEmpty DEF Map!Results
<1>3. ASSUME NEW e \in Entry, Of(E, e.key) = {}, F = E \cup {e}
      PROVE  MapOf(F) \in Map!Results(m)
  <2>1. MapOf(F) = Map!Add(m, e.key, e.val)
    BY <1>3, MapAdd DEF m
  <2>2. e.key \in Key /\ e.val \in Values[e.key]
    BY EntryValue
  <2> DEFINE R(k) == {Map!Add(m, k, v) : v \in Values[k]}
  <2>3. MapOf(F) \in R(e.key)
    BY <2>1, <2>2
  <2>4. UNION {R(k) : k \in Key} \subseteq Map!Results(m)
    BY DEF Map!Results
  <2> HIDE DEF R
  <2>5. QED
    BY <2>2, <2>3, <2>4
<1>4. ASSUME NEW e \in Entry, Of(E, e.key) # {}, F = Others(E, e.key) \cup {e}
      PROVE  MapOf(F) \in Map!Results(m)
  <2>1. MapOf(F) = Map!Replace(m, e.key, e.val)
    BY <1>4, MapReplace DEF m
  <2>2. e.key \in Key /\ e.val \in Values[e.key]
    BY EntryValue
  <2> DEFINE R(k) == {Map!Replace(m, k, v) : v \in Values[k]}
  <2>3. MapOf(F) \in R(e.key)
    BY <2>1, <2>2
  <2>4. UNION {R(k) : k \in Key} \subseteq Map!Results(m)
    <3> DEFINE A == {Map!EmptyMap} \cup {Map!Delete(m, k) : k \in Key}
                    \cup (UNION {{Map!Add(m, k, v) : v \in Values[k]} : k \in Key})
               B == UNION {R(k) : k \in Key}
    <3>1. Map!Results(m) = A \cup B
      BY DEF Map!Results
    <3> HIDE DEF A, B
    <3>2. B \subseteq Map!Results(m)
      BY <3>1
    <3>3. QED
      BY <3>2 DEF B
  <2> HIDE DEF R
  <2>5. QED
    BY <2>2, <2>3, <2>4
<1>5. ASSUME NEW k \in Key, F = Others(E, k)
      PROVE  MapOf(F) \in Map!Results(m)
  <2>1. MapOf(F) = Map!Delete(m, k)
    BY <1>5, MapDelete DEF m
  <2>2. QED
    BY <2>1 DEF Map!Results
<1>6. QED
  BY <1>1, <1>2, <1>3, <1>4, <1>5 DEF Changed, m

\* THEOREM: the dictionary implements the map: it changes with the calls that
\* say so, one key at a time, and the rehashing, the walks and the samples
\* leave it alone (dictAdd, dictReplace, dictDelete, dict.h:146).
THEOREM DictImplementsMap == Spec => ImplementsMap
<1> DEFINE map == LET entries == Entries(d)
                  IN  [k \in {e.key : e \in entries} |->
                         (CHOOSE e \in entries : e.key = k).val]
<1>1. map = MapOf(Entries(d))
  BY DEF MapOf
<1>2. Init => Map!Init
  <2> SUFFICES ASSUME Init PROVE Map!Init
    OBVIOUS
  <2>1. Entries(d) = {}
    BY NewDict DEF Init
  <2>2. map = Map!EmptyMap
    BY <1>1, <2>1, MapEmpty
  <2>3. QED
    BY <2>2 DEF Map!Init
<1>3. ASSUME DictKept, [Next]_vars PROVE [Map!Next]_map
  <2>1. Changed(Entries(d), Entries(d'))
    <3>1. CASE Next
      BY <1>3, <3>1, KeptStep
    <3>2. CASE UNCHANGED vars
      BY <3>2 DEF vars, Changed
    <3>3. QED
      BY <1>3, <3>1, <3>2
  <2>2. Unique(Entries(d))
    BY <1>3, DictUnique DEF DictKept
  <2>3. MapOf(Entries(d')) = MapOf(Entries(d))
        \/ MapOf(Entries(d')) \in Map!Results(MapOf(Entries(d)))
    BY <2>1, <2>2, MapChanged
  <2>4. map' = MapOf(Entries(d'))
    BY DEF MapOf
  <2>5. map' = map \/ map' \in Map!Results(map)
    BY <1>1, <2>3, <2>4
  <2>6. QED
    BY <2>5 DEF Map!Next
<1>4. QED
  BY <1>2, <1>3, KeptAlways, PTL DEF Spec, ImplementsMap, Map!Spec

-----------------------------------------------------------------------------
(* What an iterator has still to return.                                   *)

\* The keys of a chain from k on.
Onward(c, k) ==
  IF k = NoKey THEN {}
  ELSE {c[j].key : j \in {j \in DOMAIN c : \E i \in DOMAIN c : i <= j /\ c[i].key = k}}

KeysIn(t) == KeysOf(TableEntries(t))

\* The keys of the buckets behind i.
Beyond(t, i) == {k \in KeysIn(t) : Index(t, k) > i}

\* The rest of the chain, of the table, and the second table.
Left(x, it) ==
  LET t == x.ht[it.table] IN
  IF it.ended THEN {}
  ELSE Onward(t.table[it.index], it.next) \cup Beyond(t, it.index)
         \cup (IF it.table = 0 THEN KeysIn(x.ht[1]) ELSE {})

\* The iterator is in front of the table, or in a bucket with the entry that
\* it returns next.
Placed(x, it) ==
  ~it.ended =>
    /\ it.index \in -1 .. x.ht[it.table].size - 1
    /\ it.table = 1 => IsRehashing(x)
    /\ it.next # NoKey =>
         /\ it.index >= 0
         /\ it.next \in KeysOf(ToSet(x.ht[it.table].table[it.index]))

\* The positions of the keys.
LEMMA OnwardKeys ==
  ASSUME NEW c \in Seq(Entry), NEW k, k # NoKey, NEW l
  PROVE  l \in Onward(c, k) <=>
           \E i, j \in 1 .. Len(c) : i <= j /\ c[i].key = k /\ c[j].key = l
  BY ChainEntries DEF Onward

LEMMA KeysOfChain ==
  ASSUME NEW c \in Seq(Entry), NEW l
  PROVE  l \in KeysOf(ToSet(c)) <=> \E j \in 1 .. Len(c) : c[j].key = l
  BY ChainEntries DEF KeysOf

\* They are keys of the chain.
LEMMA OnwardWithin ==
  ASSUME NEW c \in Seq(Entry), NEW k
  PROVE  Onward(c, k) \subseteq KeysOf(ToSet(c))
<1>1. CASE k = NoKey
  BY <1>1 DEF Onward
<1>2. CASE k # NoKey
  BY <1>2, OnwardKeys, KeysOfChain
<1>3. QED
  BY <1>1, <1>2

\* An entry in front makes no difference,
LEMMA OnwardPushed ==
  ASSUME NEW c \in Seq(Entry), NEW e \in Entry, NEW k, k # e.key
  PROVE  Onward(<<e>> \o c, k) = Onward(c, k)
<1> DEFINE r == <<e>> \o c
           n == Len(c)
<1>1. /\ r \in Seq(Entry) /\ Len(r) = n + 1 /\ r[1] = e /\ n \in Nat
      /\ \A p \in 1 .. n : r[p + 1] = c[p]
  OBVIOUS
<1> HIDE DEF r, n
<1>2. CASE k = NoKey
  BY <1>2 DEF Onward, r
<1>3. CASE k # NoKey
  <2> SUFFICES ASSUME NEW l PROVE l \in Onward(r, k) <=> l \in Onward(c, k)
    BY DEF r
  <2>1. ASSUME NEW i \in 1 .. n, NEW j \in 1 .. n, i <= j, c[i].key = k, c[j].key = l
        PROVE  \E p, q \in 1 .. n + 1 : p <= q /\ r[p].key = k /\ r[q].key = l
    <3>1. i + 1 \in 1 .. n + 1 /\ j + 1 \in 1 .. n + 1 /\ i + 1 <= j + 1
      BY <1>1, <2>1
    <3>2. QED
      BY <1>1, <2>1, <3>1
  <2>2. ASSUME NEW p \in 1 .. n + 1, NEW q \in 1 .. n + 1, p <= q, r[p].key = k, r[q].key = l
        PROVE  \E i, j \in 1 .. n : i <= j /\ c[i].key = k /\ c[j].key = l
    <3>1. p # 1
      BY <1>1, <2>2
    <3>2. p - 1 \in 1 .. n /\ q - 1 \in 1 .. n /\ p - 1 <= q - 1
          /\ (p - 1) + 1 = p /\ (q - 1) + 1 = q
      BY <1>1, <2>2, <3>1
    <3>3. r[p] = c[p - 1] /\ r[q] = c[q - 1]
      BY <1>1, <3>2
    <3>4. QED
      BY <2>2, <3>2, <3>3
  <2>3. l \in Onward(r, k) <=> \E p, q \in 1 .. n + 1 : p <= q /\ r[p].key = k /\ r[q].key = l
    <3>1. r \in Seq(Entry) /\ Len(r) = n + 1
      BY <1>1
    <3>2. l \in Onward(r, k) <=>
            \E p, q \in 1 .. Len(r) : p <= q /\ r[p].key = k /\ r[q].key = l
      BY <1>3, <3>1, OnwardKeys
    <3>3. QED
      BY <3>1, <3>2
  <2>4. l \in Onward(c, k) <=> \E i, j \in 1 .. n : i <= j /\ c[i].key = k /\ c[j].key = l
    BY <1>3, OnwardKeys DEF n
  <2>5. QED
    BY <2>1, <2>2, <2>3, <2>4
<1>4. QED
  BY <1>2, <1>3 DEF r

\* nor do the values,
LEMMA OnwardRevalued ==
  ASSUME NEW c \in Seq(Entry), NEW e \in Entry, NEW k
  PROVE  LET r == [j \in DOMAIN c |-> IF c[j].key = e.key THEN e ELSE c[j]] IN
         Onward(r, k) = Onward(c, k)
<1> DEFINE r == [j \in DOMAIN c |-> IF c[j].key = e.key THEN e ELSE c[j]]
<1>1. DOMAIN r = DOMAIN c /\ \A j \in DOMAIN c : r[j].key = c[j].key
  OBVIOUS
<1> HIDE DEF r
<1>2. {r[j].key : j \in {j \in DOMAIN r : \E i \in DOMAIN r : i <= j /\ r[i].key = k}}
        = {c[j].key : j \in {j \in DOMAIN c : \E i \in DOMAIN c : i <= j /\ c[i].key = k}}
  BY <1>1
<1>3. QED
  BY <1>2 DEF Onward, r

\* and an entry that is taken out is missed by nobody else.
LEMMA OnwardRemoved ==
  ASSUME NEW c \in Seq(Entry), OneOfEach(c), NEW m \in DOMAIN c, NEW k, k # c[m].key
  PROVE  Onward(RemoveAt(c, m), k) = Onward(c, k) \ {c[m].key}
<1> DEFINE n == Len(c)
           r == RemoveAt(c, m)
           a == SubSeq(c, 1, m - 1)
           b == SubSeq(c, m + 1, n)
<1>1. n \in Nat /\ DOMAIN c = 1 .. n /\ m \in 1 .. n
  BY ChainEntries
<1>2. a \in Seq(Entry) /\ Len(a) = m - 1 /\ \A p \in 1 .. m - 1 : a[p] = c[p]
  BY ChainCut
<1>3. b \in Seq(Entry) /\ Len(b) = n - m /\ \A p \in 1 .. n - m : b[p] = c[m + p]
  BY ChainCut
<1>4. r = a \o b
  BY DEF RemoveAt
<1>5. r \in Seq(Entry) /\ Len(r) = n - 1
  BY RemovedChain
<1> HIDE DEF n, a, b, r
<1>6. \A p \in 1 .. n - 1 : r[p] = IF p <= m - 1 THEN a[p] ELSE b[p - (m - 1)]
  <2>1. Len(a) + Len(b) = n - 1
    BY <1>1, <1>2, <1>3
  <2>2. \A p \in 1 .. Len(a) + Len(b) : r[p] = IF p <= Len(a) THEN a[p] ELSE b[p - Len(a)]
    BY <1>2, <1>3, <1>4, JoinedChain
  <2>3. QED
    BY <1>2, <2>1, <2>2
<1>7. \A p \in 1 .. m - 1 : p \in 1 .. n - 1 /\ r[p] = c[p]
  BY <1>1, <1>2, <1>6
<1>8. \A p \in m + 1 .. n : p - 1 \in 1 .. n - 1 /\ r[p - 1] = c[p]
  <2> SUFFICES ASSUME NEW p \in m + 1 .. n PROVE p - 1 \in 1 .. n - 1 /\ r[p - 1] = c[p]
    OBVIOUS
  <2>1. /\ p - 1 \in 1 .. n - 1 /\ ~(p - 1 <= m - 1) /\ (p - 1) - (m - 1) = p - m
        /\ p - m \in 1 .. n - m /\ m + (p - m) = p
    BY <1>1
  <2>2. QED
    BY <1>3, <1>6, <2>1
<1>9. CASE k = NoKey
  BY <1>9 DEF Onward, r
<1>10. CASE k # NoKey
  <2> SUFFICES ASSUME NEW l
               PROVE  l \in Onward(r, k) <=> l \in Onward(c, k) /\ l # c[m].key
    BY DEF r
  <2> DEFINE To(p) == IF p < m THEN p ELSE p - 1
  <2>1. \A p \in 1 .. n : p # m => To(p) \in 1 .. n - 1 /\ r[To(p)] = c[p]
    BY <1>1, <1>7, <1>8
  <2>2. \A p, q \in 1 .. n : p <= q /\ p # m /\ q # m => To(p) <= To(q)
    BY <1>1
  <2>3. \A i \in 1 .. n - 1 : \E p \in 1 .. n : p # m /\ To(p) = i
    <3> SUFFICES ASSUME NEW i \in 1 .. n - 1 PROVE \E p \in 1 .. n : p # m /\ To(p) = i
      OBVIOUS
    <3>1. CASE i < m
      <4>1. i \in 1 .. n /\ i # m /\ To(i) = i
        BY <1>1, <3>1
      <4>2. QED
        BY <4>1
    <3>2. CASE ~(i < m)
      <4>1. i + 1 \in 1 .. n /\ i + 1 # m /\ To(i + 1) = i
        BY <1>1, <3>2
      <4>2. QED
        BY <4>1
    <3>3. QED
      BY <3>1, <3>2
  <2>4. \A p, q \in 1 .. n : p # m /\ q # m /\ To(p) <= To(q) => p <= q
    BY <1>1
  <2> HIDE DEF To
  <2>5. l \in Onward(r, k) <=> \E i, j \in 1 .. n - 1 : i <= j /\ r[i].key = k /\ r[j].key = l
    BY <1>5, <1>10, OnwardKeys
  <2>6. l \in Onward(c, k) <=> \E p, q \in 1 .. n : p <= q /\ c[p].key = k /\ c[q].key = l
    BY <1>10, OnwardKeys DEF n
  <2>7. \A p \in 1 .. n : c[p].key = c[m].key => p = m
    BY <1>1 DEF OneOfEach
  <2>8. ASSUME NEW i \in 1 .. n - 1, NEW j \in 1 .. n - 1, i <= j, r[i].key = k, r[j].key = l
        PROVE  l # c[m].key /\ \E p, q \in 1 .. n : p <= q /\ c[p].key = k /\ c[q].key = l
    <3>1. PICK p \in 1 .. n : p # m /\ To(p) = i
      BY <2>3
    <3>2. PICK q \in 1 .. n : q # m /\ To(q) = j
      BY <2>3
    <3>3. c[p] = r[i] /\ c[q] = r[j]
      BY <2>1, <3>1, <3>2
    <3>4. p <= q
      BY <2>4, <2>8, <3>1, <3>2
    <3>5. l # c[m].key
      BY <2>7, <2>8, <3>2, <3>3
    <3>6. QED
      BY <2>8, <3>3, <3>4, <3>5
  <2>9. ASSUME NEW p \in 1 .. n, NEW q \in 1 .. n, p <= q, c[p].key = k, c[q].key = l, l # c[m].key
        PROVE  \E i, j \in 1 .. n - 1 : i <= j /\ r[i].key = k /\ r[j].key = l
    <3>1. p # m /\ q # m
      BY <2>9
    <3>2. /\ To(p) \in 1 .. n - 1 /\ To(q) \in 1 .. n - 1 /\ To(p) <= To(q)
          /\ r[To(p)].key = k /\ r[To(q)].key = l
      BY <2>1, <2>2, <2>9, <3>1
    <3>3. QED
      BY <3>2
  <2>10. QED
    BY <2>5, <2>6, <2>8, <2>9
<1>11. QED
  BY <1>9, <1>10 DEF r

\* The first entry of a chain is followed by all the others.
LEMMA OnwardAll ==
  ASSUME NEW c \in Seq(Entry), c # << >>
  PROVE  /\ Head(c).key \in Key /\ Head(c).key \in KeysOf(ToSet(c))
         /\ Onward(c, Head(c).key) = KeysOf(ToSet(c))
<1>1. Head(c) = c[1] /\ 1 \in 1 .. Len(c) /\ Len(c) \in Nat
  BY ChainEntries
<1>2. c[1].key \in Key /\ c[1].key # NoKey
  BY <1>1, ChainEntries, EntryKey, DictAssumption
<1>3. \A l : l \in Onward(c, c[1].key) <=> l \in KeysOf(ToSet(c))
  BY <1>1, <1>2, OnwardKeys, KeysOfChain
<1>4. QED
  BY <1>1, <1>2, <1>3, KeysOfChain

\* After an entry come those from its follower on.
LEMMA OnwardNext ==
  ASSUME NEW c \in Seq(Entry), OneOfEach(c), NEW k \in KeysOf(ToSet(c))
  PROVE  LET n == After(c, k) IN
         /\ n # NoKey => n \in KeysOf(ToSet(c))
         /\ Onward(c, k) = {k} \cup Onward(c, n) /\ k \notin Onward(c, n)
<1> DEFINE n == After(c, k)
           m == Len(c)
           at == CHOOSE i \in DOMAIN c : c[i].key = k
<1>1. m \in Nat /\ DOMAIN c = 1 .. m /\ \A p, q \in 1 .. m : c[p].key = c[q].key => p = q
  BY ChainEntries DEF OneOfEach
<1>2. at \in 1 .. m /\ c[at].key = k
  <2>1. \E i \in 1 .. m : c[i].key = k
    BY KeysOfChain
  <2>2. QED
    BY <1>1, <2>1
<1>3. n = IF at = m THEN NoKey ELSE c[at + 1].key
  BY DEF After
<1>4. k # NoKey
  <2>1. \A p \in 1 .. m : c[p].key \in Key
    BY ChainEntries, EntryKey
  <2>2. QED
    BY <1>2, <2>1, DictAssumption
<1> HIDE DEF at, n, m
<1>5. \A l : l \in Onward(c, k) <=> \E j \in 1 .. m : at <= j /\ c[j].key = l
  <2> SUFFICES ASSUME NEW l
               PROVE  l \in Onward(c, k) <=> \E j \in 1 .. m : at <= j /\ c[j].key = l
    OBVIOUS
  <2>1. l \in Onward(c, k) <=> \E i, j \in 1 .. m : i <= j /\ c[i].key = k /\ c[j].key = l
    BY <1>4, OnwardKeys DEF m
  <2>2. \A i \in 1 .. m : c[i].key = k <=> i = at
    BY <1>1, <1>2
  <2>3. QED
    BY <1>2, <2>1, <2>2
<1>6. CASE at = m
  <2>1. n = NoKey /\ Onward(c, n) = {}
    BY <1>3, <1>6 DEF Onward
  <2>2. \A j \in 1 .. m : at <= j <=> j = at
    BY <1>1, <1>2, <1>6
  <2>3. \A l : l \in Onward(c, k) <=> l = k
    BY <1>2, <1>5, <2>2
  <2>4. QED
    BY <2>1, <2>3 DEF n
<1>7. CASE at # m
  <2>1. at + 1 \in 1 .. m /\ n = c[at + 1].key
    BY <1>1, <1>2, <1>3, <1>7
  <2>2. n # NoKey /\ n \in KeysOf(ToSet(c))
    <3>1. n \in Key
      BY <2>1, ChainEntries, EntryKey DEF m
    <3>2. QED
      BY <2>1, <3>1, KeysOfChain, DictAssumption DEF m
  <2>3. \A l : l \in Onward(c, n) <=> \E j \in 1 .. m : at + 1 <= j /\ c[j].key = l
    <3> SUFFICES ASSUME NEW l
                 PROVE  l \in Onward(c, n) <=> \E j \in 1 .. m : at + 1 <= j /\ c[j].key = l
      OBVIOUS
    <3>1. l \in Onward(c, n) <=> \E i, j \in 1 .. m : i <= j /\ c[i].key = n /\ c[j].key = l
      BY <2>2, OnwardKeys DEF m
    <3>2. \A i \in 1 .. m : c[i].key = n <=> i = at + 1
      BY <1>1, <2>1
    <3>3. QED
      BY <2>1, <3>1, <3>2
  <2>4. \A j \in 1 .. m : at <= j <=> j = at \/ at + 1 <= j
    BY <1>1, <1>2
  <2>5. \A l : l \in Onward(c, k) <=> l = k \/ l \in Onward(c, n)
    BY <1>2, <1>5, <2>3, <2>4
  <2>6. k \notin Onward(c, n)
    <3>1. \A j \in 1 .. m : at + 1 <= j => c[j].key # k
      BY <1>1, <1>2
    <3>2. QED
      BY <2>3, <3>1
  <2>7. QED
    BY <2>2, <2>5, <2>6 DEF n
<1>8. QED
  BY <1>6, <1>7

-----------------------------------------------------------------------------
(* What a call does to an iterator while the rehashing is paused.          *)

\* The table v in place of t: no key but those of K comes, goes, or changes its place
\* among the others.
Keeps(t, v, K) ==
  /\ v.size = t.size /\ KeysIn(v) \ K = KeysIn(t) \ K
  /\ \A j \in 0 .. t.size - 1 : \A l \in KeysOf(ToSet(t.table[j])) \ K :
       /\ l \in KeysOf(ToSet(v.table[j]))
       /\ Onward(v.table[j], l) \ K = Onward(t.table[j], l) \ K

\* The dictionary y in place of x: the iterator has a place in it, and the
\* same before it.
Undisturbed(x, y, it, K) ==
  /\ Placed(y, it) /\ Left(y, it) \ K = Left(x, it) \ K
  /\ Keys(y) \ K = Keys(x) \ K

LEMMA KeepsBucket ==
  ASSUME NEW t, IsTable(t), NEW b \in 0 .. t.size - 1, NEW c, NEW w, NEW K,
         NEW v, v = WithBucket(t, b, c, w), KeysIn(v) \ K = KeysIn(t) \ K,
         \A l \in KeysOf(ToSet(t.table[b])) \ K :
           l \in KeysOf(ToSet(c)) /\ Onward(c, l) \ K = Onward(t.table[b], l) \ K
  PROVE  Keeps(t, v, K)
<1>1. v.size = t.size /\ \A j \in 0 .. t.size - 1 : v.table[j] = IF j = b THEN c ELSE t.table[j]
  BY TableChains DEF WithBucket
<1>2. QED
  BY <1>1 DEF Keeps

\* A new entry goes to the head of its chain,
LEMMA PushKeeps ==
  ASSUME hash \in [Key -> Nat],
         NEW t, TableHolds(t), t.size > 0, NEW e \in Entry,
         \A f \in TableEntries(t) : f.key # e.key
  PROVE  Keeps(t, Push(t, e), {e.key})
<1> DEFINE b == Index(t, e.key)
           c == t.table[b]
           r == <<e>> \o c
           w == t.used + 1
           v == Push(t, e)
<1>1. /\ b \in 0 .. t.size - 1 /\ IsTable(t) /\ DOMAIN t.table = 0 .. t.size - 1
      /\ t \in [size : Nat, table : {t.table}, used : Nat]
  BY EntryKey, IndexPlace, TableChains DEF TableHolds, IsTable
<1>2. c \in Seq(Entry)
  BY <1>1, TableChains
<1>3. v = WithBucket(t, b, r, w)
  <2>1. v = [t EXCEPT !.table[b] = <<e>> \o @, !.used = @ + 1]
    BY DEF Push
  <2>2. v = [t EXCEPT !.table[b] = r, !.used = t.used + 1]
    BY <1>1, <2>1
  <2> HIDE DEF v, r, b
  <2>3. QED
    BY <1>1, <2>2 DEF WithBucket
<1>4. KeysIn(v) \ {e.key} = KeysIn(t) \ {e.key}
  BY PushHolds DEF KeysIn, KeysOf
<1>5. ASSUME NEW l \in KeysOf(ToSet(c)) \ {e.key}
      PROVE  l \in KeysOf(ToSet(r)) /\ Onward(r, l) = Onward(c, l)
  <2>1. Onward(r, l) = Onward(c, l)
    BY <1>2, <1>5, OnwardPushed
  <2>2. r \in Seq(Entry) /\ Len(r) = Len(c) + 1 /\ \A p \in 1 .. Len(c) : r[p + 1] = c[p]
    BY <1>2
  <2>3. PICK p \in 1 .. Len(c) : c[p].key = l
    BY <1>2, <1>5, KeysOfChain
  <2> HIDE DEF r, c
  <2>4. p + 1 \in 1 .. Len(r) /\ r[p + 1].key = l
    BY <1>2, <2>2, <2>3
  <2>5. QED
    BY <2>1, <2>2, <2>4, KeysOfChain
<1> HIDE DEF r, w, v, b
<1>6. QED
  BY <1>1, <1>3, <1>4, <1>5, KeepsBucket DEF v

\* a value changes in its place,
LEMMA RevaluedKeeps ==
  ASSUME hash \in [Key -> Nat], NEW t, TableHolds(t), t.size > 0, NEW e \in Entry,
         NEW f \in TableEntries(t), f.key = e.key
  PROVE  Keeps(t, Revalued(t, e), {})
<1> DEFINE b == Index(t, e.key)
           c == t.table[b]
           r == [j \in DOMAIN c |-> IF c[j].key = e.key THEN e ELSE c[j]]
           w == t.used
           v == Revalued(t, e)
<1>1. /\ b \in 0 .. t.size - 1 /\ IsTable(t) /\ DOMAIN t.table = 0 .. t.size - 1
      /\ t \in [size : Nat, table : {t.table}, used : Nat]
  BY EntryKey, IndexPlace, TableChains DEF TableHolds, IsTable
<1>2. c \in Seq(Entry)
  BY <1>1, TableChains
<1>3. v = WithBucket(t, b, r, w)
  <2>1. v = [t EXCEPT !.table[b] = r]
    BY <1>1 DEF Revalued
  <2> HIDE DEF v, r, b
  <2>2. QED
    BY <1>1, <2>1 DEF WithBucket
<1>4. KeysIn(v) = KeysIn(t)
  <2>1. TableEntries(v) = (TableEntries(t) \ {f}) \cup {e}
    BY RevaluedHolds
  <2> HIDE DEF v
  <2>2. QED
    BY <2>1 DEF KeysIn, KeysOf
<1>5. ASSUME NEW l \in KeysOf(ToSet(c))
      PROVE  l \in KeysOf(ToSet(r)) /\ Onward(r, l) = Onward(c, l)
  <2>1. Onward(r, l) = Onward(c, l)
    <3> HIDE DEF c
    <3> QED BY <1>2, OnwardRevalued
  <2>2. DOMAIN r = DOMAIN c /\ \A j \in DOMAIN c : r[j].key = c[j].key
    OBVIOUS
  <2>3. KeysOf(ToSet(r)) = KeysOf(ToSet(c))
    <3> HIDE DEF r, c
    <3> QED BY <2>2 DEF KeysOf, ToSet
  <2>4. QED
    BY <2>1, <2>3
<1> HIDE DEF r, w, v, b
<1>6. QED
  BY <1>1, <1>3, <1>4, <1>5, KeepsBucket DEF v

\* and what is unlinked leaves the others in their order.
LEMMA UnlinkedKeeps ==
  ASSUME hash \in [Key -> Nat], NEW t, TableHolds(t), t.size > 0, NEW k \in Key,
         NEW f \in TableEntries(t), f.key = k
  PROVE  Keeps(t, Unlinked(t, k), {k})
<1> DEFINE b == Index(t, k)
           c == t.table[b]
           i == CHOOSE j \in At(c, k) : TRUE
           r == RemoveAt(c, i)
           w == t.used - 1
           v == Unlinked(t, k)
<1>1. /\ b \in 0 .. t.size - 1 /\ IsTable(t) /\ DOMAIN t.table = 0 .. t.size - 1
      /\ t \in [size : Nat, table : {t.table}, used : Nat]
  BY IndexPlace, TableChains DEF TableHolds, IsTable
<1>2. c \in Seq(Entry) /\ OneOfEach(c) /\ At(c, k) # {}
  <2>1. f \in Of(TableEntries(t), k) /\ c = Chain(t, k)
    BY DEF Of, Chain
  <2> HIDE DEF c
  <2>2. QED
    BY <2>1, ChainOfKey
<1>3. i \in DOMAIN c /\ c[i].key = k
  <2>1. i \in At(c, k)
    BY <1>2
  <2>2. QED
    BY <2>1 DEF At
<1>4. v = WithBucket(t, b, r, w)
  <2>1. v = [t EXCEPT !.table[b] = r, !.used = @ - 1]
    <3>1. v = [t EXCEPT !.table[b] = RemoveAt(@, CHOOSE j \in At(@, k) : TRUE), !.used = @ - 1]
      BY DEF Unlinked
    <3>2. QED
      BY <1>1, <3>1
  <2> HIDE DEF v, r, b
  <2>2. QED
    BY <1>1, <2>1 DEF WithBucket
<1>5. KeysIn(v) \ {k} = KeysIn(t) \ {k}
  <2>1. TableEntries(v) = TableEntries(t) \ {f}
    BY UnlinkedHolds
  <2> HIDE DEF v
  <2>2. QED
    BY <2>1 DEF KeysIn, KeysOf
<1> HIDE DEF i
<1>6. ASSUME NEW l \in KeysOf(ToSet(c)) \ {k}
      PROVE  l \in KeysOf(ToSet(r)) /\ Onward(r, l) \ {k} = Onward(c, l) \ {k}
  <2> HIDE DEF c
  <2>1. Onward(r, l) = Onward(c, l) \ {k}
    BY <1>2, <1>3, <1>6, OnwardRemoved
  <2>2. ToSet(r) = ToSet(c) \ {c[i]}
    BY <1>2, <1>3, RemovedChain
  <2>3. QED
    BY <1>3, <1>6, <2>1, <2>2 DEF KeysOf
<1> HIDE DEF r, w, v, b
<1>7. QED
  BY <1>1, <1>4, <1>5, <1>6, KeepsBucket DEF v

\* The keys of a dictionary are those of its tables.
LEMMA KeysOfTables ==
  ASSUME NEW x
  PROVE  Keys(x) = KeysIn(x.ht[0]) \cup KeysIn(x.ht[1]) /\ Keys(x) = KeysOf(Entries(x))
  BY DEF Keys, Entries, KeysIn, KeysOf

\* Where both tables keep their keys, the iterator is undisturbed.
LEMMA TablesKeep ==
  ASSUME NEW x, NEW y, NEW it, it.table \in 0 .. 1, NEW K, it.next \notin K,
         y.rehashidx = x.rehashidx, Placed(x, it),
         Keeps(x.ht[0], y.ht[0], K), Keeps(x.ht[1], y.ht[1], K)
  PROVE  Undisturbed(x, y, it, K)
<1> DEFINE t == x.ht[it.table]
           v == y.ht[it.table]
           i == it.index
           n == it.next
<1>1. Keeps(t, v, K)
  OBVIOUS
<1>2. Keys(y) \ K = Keys(x) \ K
  BY KeysOfTables DEF Keeps
<1>3. Placed(y, it)
  <2> SUFFICES ASSUME ~it.ended PROVE Placed(y, it)
    BY DEF Placed
  <2>1. /\ i \in -1 .. t.size - 1 /\ (it.table = 1 => IsRehashing(x))
        /\ n # NoKey => i >= 0 /\ n \in KeysOf(ToSet(t.table[i]))
    BY DEF Placed
  <2>2. v.size = t.size /\ (IsRehashing(y) <=> IsRehashing(x))
    BY <1>1 DEF Keeps, IsRehashing
  <2>3. n # NoKey => n \in KeysOf(ToSet(v.table[i]))
    <3> SUFFICES ASSUME n # NoKey PROVE n \in KeysOf(ToSet(v.table[i]))
      OBVIOUS
    <3>1. n \notin K /\ i \in 0 .. t.size - 1
      BY <2>1
    <3>2. QED
      BY <1>1, <2>1, <3>1 DEF Keeps
  <2> HIDE DEF t, v, i, n
  <2>4. QED
    BY <2>1, <2>2, <2>3 DEF Placed, v, i, n
<1>4. Left(y, it) \ K = Left(x, it) \ K
  <2>1. CASE it.ended
    BY <2>1 DEF Left
  <2>2. CASE ~it.ended
    <3>1. Onward(v.table[i], n) \ K = Onward(t.table[i], n) \ K
      <4>1. CASE n = NoKey
        BY <4>1 DEF Onward
      <4>2. CASE n # NoKey
        <5>1. n \notin K /\ i \in 0 .. t.size - 1 /\ n \in KeysOf(ToSet(t.table[i]))
          BY <2>2, <4>2 DEF Placed
        <5>2. QED
          BY <1>1, <5>1 DEF Keeps
      <4>3. QED
        BY <4>1, <4>2
    <3>2. Beyond(v, i) \ K = Beyond(t, i) \ K
      <4>1. v.size = t.size /\ KeysIn(v) \ K = KeysIn(t) \ K
        BY <1>1 DEF Keeps
      <4> HIDE DEF v, t, i
      <4>2. QED
        BY <4>1 DEF Beyond, Index
    <3>3. KeysIn(y.ht[1]) \ K = KeysIn(x.ht[1]) \ K
      BY DEF Keeps
    <3>4. Left(x, it) = Onward(t.table[i], n) \cup Beyond(t, i)
                          \cup (IF it.table = 0 THEN KeysIn(x.ht[1]) ELSE {})
      BY <2>2 DEF Left
    <3>5. Left(y, it) = Onward(v.table[i], n) \cup Beyond(v, i)
                          \cup (IF it.table = 0 THEN KeysIn(y.ht[1]) ELSE {})
      BY <2>2 DEF Left
    <3> HIDE DEF t, v, i, n
    <3>6. QED
      BY <3>1, <3>2, <3>3, <3>4, <3>5
  <2>3. QED
    BY <2>1, <2>2
<1>5. QED
  BY <1>2, <1>3, <1>4 DEF Undisturbed

LEMMA KeepsSelf ==
  ASSUME NEW t, NEW K
  PROVE  Keeps(t, t, K)
  BY DEF Keeps

\* An iterator: its table is one of the two.
Iter(it) == it.table \in 0 .. 1

\* _dictExpand moves nothing: it makes the first table, when there was none,
\* or a second one that is empty.
LEMMA ExpandUndisturbed ==
  ASSUME NEW x, DictHolds(x), NEW n \in Nat, NEW it, Iter(it), Placed(x, it)
  PROVE  Undisturbed(x, Expand(x, n), it, {})
<1> DEFINE y == Expand(x, n)
           N == NextPower(n)
           t == x.ht[0]
           u == x.ht[1]
           e == EmptyTable(N)
<1>1. /\ x = Dict2(t, u, x.rehashidx, x.pauserehash) /\ PartsHold(t, u, x.rehashidx)
      /\ (IsRehashing(x) <=> x.rehashidx # -1)
  BY DictTaken
<1>2. N \in Nat /\ N > 0 /\ TableEntries(e) = {} /\ e.size = N
  BY NextPowerSize, EmptyTableHolds
<1>3. Keys(y) = Keys(x)
  BY ExpandHolds, KeysOfTables DEF Same
<1>4. t.size \in Nat /\ TableHolds(t)
  BY <1>1, TableChains DEF PartsHold, TableHolds
<1>5. CASE ExpandRefuses(x, n)
  <2>1. y = x
    BY <1>5 DEF Expand
  <2>2. QED
    BY <2>1 DEF Undisturbed
<1>6. CASE ~ExpandRefuses(x, n)
  <2>1. ~IsRehashing(x) /\ u = NoTable /\ KeysIn(u) = {}
    <3>1. ~IsRehashing(x) /\ u = NoTable
      BY <1>1, <1>6 DEF ExpandRefuses, PartsHold
    <3>2. QED
      BY <3>1, NoTableHolds DEF KeysIn, KeysOf
  <2>2. KeysIn(e) = {}
    BY <1>2 DEF KeysIn, KeysOf
  <2>3. ~it.ended => it.table = 0
    BY <2>1 DEF Iter, Placed
  <2>4. CASE it.ended
    BY <1>3, <2>4 DEF Undisturbed, Placed, Left
  <2>5. CASE ~it.ended /\ t.size = 0
    <3>1. y.ht[0] = e /\ y.ht[1] = u
      <4>1. y = [x EXCEPT !.ht[0] = e]
        BY <1>6, <2>5 DEF Expand
      <4> HIDE DEF e, y, t, u
      <4>2. QED
        BY <1>1, <4>1 DEF Dict2
    <3>2. it.index \in -1 .. t.size - 1 /\ it.next = NoKey
      BY <2>3, <2>5 DEF Placed
    <3>3. Placed(y, it)
      BY <1>2, <2>3, <2>5, <3>1, <3>2 DEF Placed
    <3>4. KeysIn(t) = {}
      BY <1>4, <2>5, NoBuckets DEF KeysIn, KeysOf
    <3>5. Left(x, it) = {}
      BY <2>1, <2>3, <2>5, <3>2, <3>4 DEF Left, Onward, Beyond
    <3>6. Left(y, it) = {}
      <4> HIDE DEF e, y
      <4> QED BY <2>1, <2>2, <2>3, <2>5, <3>1, <3>2 DEF Left, Onward, Beyond
    <3>7. QED
      BY <1>3, <3>3, <3>5, <3>6 DEF Undisturbed
  <2>6. CASE ~it.ended /\ t.size # 0
    <3>1. y.ht[0] = t /\ y.ht[1] = e
      <4> DEFINE z == 0
      <4>1. y = WithIndex(WithSecond(x, e), z)
        BY <1>6, <2>6 DEF Expand, WithIndex, WithSecond
      <4> HIDE DEF e, y, t, u, z
      <4>2. y = Dict2(t, e, z, x.pauserehash)
        BY <1>1, <4>1, SetSecond, SetIndex
      <4>3. QED
        BY <4>2, DictParts
    <3> HIDE DEF y, e
    <3>2. Placed(y, it)
      BY <2>3, <2>6, <3>1 DEF Placed
    <3>3. Left(y, it) = Left(x, it)
      BY <2>1, <2>2, <2>3, <2>6, <3>1 DEF Left
    <3>4. QED
      BY <1>3, <3>2, <3>3 DEF Undisturbed, y
  <2>7. QED
    BY <2>4, <2>5, <2>6
<1>7. QED
  BY <1>5, <1>6

LEMMA ExpandIfNeededUndisturbed ==
  ASSUME NEW x, DictHolds(x), NEW it, Iter(it), Placed(x, it)
  PROVE  Undisturbed(x, ExpandIfNeeded(x), it, {})
<1>1. x.ht[0].used \in Nat /\ InitialSize \in Nat
  <2>1. TableHolds(x.ht[0])
    BY DictTaken DEF PartsHold
  <2>2. QED
    BY <2>1, TableChains, DictAssumption DEF TableHolds
<1>2. ExpandIfNeeded(x) \in {x, Expand(x, InitialSize), Expand(x, x.ht[0].used + 1)}
  BY DEF ExpandIfNeeded
<1>3. Undisturbed(x, x, it, {})
  BY DEF Undisturbed
<1>4. /\ Undisturbed(x, Expand(x, InitialSize), it, {})
      /\ Undisturbed(x, Expand(x, x.ht[0].used + 1), it, {})
  BY <1>1, ExpandUndisturbed
<1>5. QED
  BY <1>2, <1>3, <1>4

\* While it is paused, the steps of the rehash do nothing.
LEMMA PausedSteps ==
  ASSUME NEW x, x.pauserehash # 0
  PROVE  /\ RehashStep(x) = x /\ Stepped(x) = x
         /\ \A n \in Nat : SampleSteps(x, n) = x
<1>1. RehashStep(x) = x
  BY DEF RehashStep
<1>2. ASSUME NEW n \in Nat PROVE SampleSteps(x, n) = x
  <2>1. PICK s : /\ SampleSteps(x, n) = s[n] /\ s[0] = x
                 /\ \A k \in 1 .. n : s[k] = RehashStep(s[k - 1])
    BY SampleRounds
  <2> DEFINE T == {k \in Nat : k <= n => s[k] = x}
  <2>2. 0 \in T
    BY <2>1
  <2>3. ASSUME NEW m \in Nat, m \in T PROVE m + 1 \in T
    <3> SUFFICES ASSUME m + 1 <= n PROVE s[m + 1] = x
      OBVIOUS
    <3>1. m + 1 \in 1 .. n /\ (m + 1) - 1 = m /\ s[m] = x
      BY <2>3
    <3>2. QED
      BY <1>1, <2>1, <3>1
  <2>4. \A m \in Nat : m \in T
    <3> HIDE DEF T
    <3> QED BY <2>2, <2>3, AllNumbers
  <2>5. QED
    BY <2>1, <2>4
<1>3. QED
  BY <1>1, <1>2 DEF Stepped

\* An iterator that is placed returns a key of the dictionary next.
LEMMA PlacedKey ==
  ASSUME NEW x, DictHolds(x), NEW it, Iter(it), Placed(x, it), ~it.ended, it.next # NoKey
  PROVE  it.next \in Keys(x)
<1> DEFINE t == x.ht[it.table]
           i == it.index
<1>1. TableHolds(t)
  <2>1. TableHolds(x.ht[0]) /\ TableHolds(x.ht[1])
    BY DictTaken DEF PartsHold
  <2>2. QED
    BY <2>1 DEF Iter
<1>2. i \in 0 .. t.size - 1 /\ it.next \in KeysOf(ToSet(t.table[i]))
  BY DEF Placed
<1> HIDE DEF i
<1>3. it.next \in KeysIn(t)
  <2> HIDE DEF t
  <2>1. \A e \in ToSet(t.table[i]) : e \in TableEntries(t)
    BY <1>1, <1>2, EntriesByBucket DEF TableHolds
  <2>2. QED
    BY <1>2, <2>1 DEF KeysIn, KeysOf
<1>4. QED
  BY <1>3, KeysOfTables DEF Iter

\* An iterator that has ended is not disturbed by anything.
LEMMA EndedUndisturbed ==
  ASSUME NEW x, NEW y, NEW it, it.ended, NEW K, Keys(y) \ K = Keys(x) \ K
  PROVE  Undisturbed(x, y, it, K)
  BY DEF Undisturbed, Placed, Left

\* One table of a dictionary is changed.
LEMMA FirstKeeps ==
  ASSUME NEW x, DictHolds(x), NEW it, Iter(it), Placed(x, it), NEW K, it.next \notin K,
         NEW v, Keeps(x.ht[0], v, K)
  PROVE  Undisturbed(x, WithFirst(x, v), it, K)
<1> DEFINE t == x.ht[0]
           u == x.ht[1]
           r == x.rehashidx
           p == x.pauserehash
           y == WithFirst(x, v)
<1>1. x = Dict2(t, u, r, p)
  BY DictTaken
<1> HIDE DEF t, u, r, p, y
<1>2. y = Dict2(v, u, r, p)
  BY <1>1, SetFirst DEF y
<1>3. y.ht[0] = v /\ y.ht[1] = u /\ y.rehashidx = r
  BY ONLY <1>2, DictParts
<1>4. Keeps(x.ht[1], y.ht[1], K) /\ Keeps(x.ht[0], y.ht[0], K)
  BY <1>3, KeepsSelf DEF u
<1>5. QED
  BY <1>3, <1>4, TablesKeep DEF y, r, Iter

LEMMA SecondKeeps ==
  ASSUME NEW x, DictHolds(x), NEW it, Iter(it), Placed(x, it), NEW K, it.next \notin K,
         NEW v, Keeps(x.ht[1], v, K)
  PROVE  Undisturbed(x, WithSecond(x, v), it, K)
<1> DEFINE t == x.ht[0]
           u == x.ht[1]
           r == x.rehashidx
           p == x.pauserehash
           y == WithSecond(x, v)
<1>1. x = Dict2(t, u, r, p)
  BY DictTaken
<1> HIDE DEF t, u, r, p, y
<1>2. y = Dict2(t, v, r, p)
  BY <1>1, SetSecond DEF y
<1>3. y.ht[0] = t /\ y.ht[1] = v /\ y.rehashidx = r
  BY ONLY <1>2, DictParts
<1>4. Keeps(x.ht[1], y.ht[1], K) /\ Keeps(x.ht[0], y.ht[0], K)
  BY <1>3, KeepsSelf DEF t
<1>5. QED
  BY <1>3, <1>4, TablesKeep DEF y, r, Iter

\* One change after the other.
LEMMA UndisturbedTwice ==
  ASSUME NEW x, NEW y, NEW z, NEW it, NEW J, NEW K,
         Undisturbed(x, y, it, J), Undisturbed(y, z, it, K)
  PROVE  Undisturbed(x, z, it, J \cup K)
  BY DEF Undisturbed

\* dictAddRaw disturbs no key but the one it adds.
LEMMA AddRawUndisturbed ==
  ASSUME hash \in [Key -> Nat], NEW x, DictHolds(x), x.pauserehash # 0, NEW e \in Entry,
         NEW it, Iter(it), Placed(x, it), ~it.ended
  PROVE  Undisturbed(x, AddRaw(x, e), it, {e.key} \ Keys(x))
<1> DEFINE y == AddRaw(x, e)
           z == ExpandIfNeeded(x)
           t == z.ht[0]
           u == z.ht[1]
           k == e.key
<1>1. y = IF Lookup(z, k) # {} THEN z
          ELSE [z EXCEPT !.ht[IF IsRehashing(z) THEN 1 ELSE 0] = Push(@, e)]
  BY PausedSteps DEF AddRaw
<1>2. DictHolds(z) /\ Entries(z) = Entries(x) /\ t.size > 0
  BY ExpandIfNeededHolds DEF Same
<1>3. Undisturbed(x, z, it, {})
  BY ExpandIfNeededUndisturbed
<1>4. Placed(z, it)
  BY <1>3 DEF Undisturbed
<1>5. k \in Key
  BY EntryKey
<1> HIDE DEF z, y
<1>6. Lookup(z, k) = Of(Entries(x), k)
  BY <1>2, <1>5, LookupHolds
<1>7. CASE Of(Entries(x), k) # {}
  <2>1. y = z
    BY <1>1, <1>6, <1>7
  <2>2. k \in Keys(x)
    BY <1>7 DEF Of, Keys
  <2>3. QED
    BY <1>3, <2>1, <2>2 DEF y
<1>8. CASE Of(Entries(x), k) = {}
  <2>1. k \notin Keys(x)
    BY <1>8 DEF Of, Keys
  <2>2. it.next \notin {k}
    <3>1. it.next = NoKey \/ it.next \in Keys(x)
      BY PlacedKey
    <3>2. QED
      BY <1>5, <2>1, <3>1, DictAssumption
  <2>3. /\ PartsHold(t, u, z.rehashidx) /\ Entries(z) = TableEntries(t) \cup TableEntries(u)
        /\ (IsRehashing(z) <=> z.rehashidx # -1)
        /\ z = Dict2(t, u, z.rehashidx, z.pauserehash)
    BY <1>2, DictTaken
  <2>4. TableHolds(t) /\ TableHolds(u) /\ (IsRehashing(z) => u.size > 0)
    BY <2>3 DEF PartsHold
  <2>5. \A f \in TableEntries(t) \cup TableEntries(u) : f.key # e.key
    BY <1>2, <1>8, <2>3 DEF Of
  <2>6. Undisturbed(z, y, it, {k})
    <3>1. CASE IsRehashing(z)
      <4> DEFINE v == Push(u, e)
      <4>1. y = WithSecond(z, v)
        BY <1>1, <1>6, <1>8, <2>3, <3>1 DEF WithSecond, Dict2
      <4>2. Keeps(u, v, {k})
        <5> HIDE DEF u
        <5> QED BY <2>4, <2>5, <3>1, PushKeeps
      <4> HIDE DEF v
      <4>3. QED
        BY <1>2, <1>4, <2>2, <4>1, <4>2, SecondKeeps
    <3>2. CASE ~IsRehashing(z)
      <4> DEFINE v == Push(t, e)
      <4>1. y = WithFirst(z, v)
        BY <1>1, <1>6, <1>8, <2>3, <3>2 DEF WithFirst, Dict2
      <4>2. Keeps(t, v, {k})
        <5> HIDE DEF t
        <5> QED BY <1>2, <2>4, <2>5, PushKeeps
      <4> HIDE DEF v
      <4>3. QED
        BY <1>2, <1>4, <2>2, <4>1, <4>2, FirstKeeps
    <3>3. QED
      BY <3>1, <3>2
  <2>7. Undisturbed(x, y, it, {} \cup {k})
    BY <1>3, <2>6, UndisturbedTwice
  <2>8. {e.key} \ Keys(x) = {} \cup {k}
    BY <2>1
  <2>9. QED
    BY <2>7, <2>8 DEF y
<1>9. QED
  BY <1>7, <1>8

\* So does dictReplace.
LEMMA ReplacedUndisturbed ==
  ASSUME hash \in [Key -> Nat], NEW x, DictHolds(x), x.pauserehash # 0, NEW e \in Entry,
         NEW it, Iter(it), Placed(x, it), ~it.ended
  PROVE  Undisturbed(x, Replaced(x, e), it, {e.key} \ Keys(x))
<1> DEFINE y == Replaced(x, e)
           z == AddRaw(x, e)
           k == e.key
           t == z.ht[0]
           u == z.ht[1]
           K == {k} \ Keys(x)
<1>1. /\ DictHolds(z) /\ k \in Key
      /\ Entries(z) = IF Of(Entries(x), k) # {} THEN Entries(x) ELSE Entries(x) \cup {e}
  BY AddRawHolds, EntryKey
<1>2. y = [z EXCEPT !.ht[Holder(z, k)] = Revalued(@, e)]
  BY DEF Replaced
<1>3. Undisturbed(x, z, it, K)
  BY AddRawUndisturbed
<1>4. Placed(z, it)
  BY <1>3 DEF Undisturbed
<1> HIDE DEF z, y, K
<1>5. PICK f \in Entries(z) : f.key = k
  BY <1>1 DEF Of
<1>6. /\ PartsHold(t, u, z.rehashidx) /\ z = Dict2(t, u, z.rehashidx, z.pauserehash)
  BY <1>1, DictTaken
<1>7. TableHolds(t) /\ TableHolds(u)
  BY <1>6 DEF PartsHold
<1>8. Undisturbed(z, y, it, {})
  <2>1. CASE Holder(z, k) = 0 /\ f \in TableEntries(t) /\ t.size > 0
    <3> DEFINE v == Revalued(t, e)
    <3>1. y = WithFirst(z, v)
      BY <1>2, <1>6, <2>1 DEF WithFirst, Dict2
    <3>2. Keeps(t, v, {})
      <4> HIDE DEF t
      <4> QED BY <1>5, <1>7, <2>1, RevaluedKeeps
    <3> HIDE DEF v
    <3>3. QED
      BY <1>1, <1>4, <3>1, <3>2, FirstKeeps
  <2>2. CASE Holder(z, k) = 1 /\ f \in TableEntries(u) /\ u.size > 0
    <3> DEFINE v == Revalued(u, e)
    <3>1. y = WithSecond(z, v)
      BY <1>2, <1>6, <2>2 DEF WithSecond, Dict2
    <3>2. Keeps(u, v, {})
      <4> HIDE DEF u
      <4> QED BY <1>5, <1>7, <2>2, RevaluedKeeps
    <3> HIDE DEF v
    <3>3. QED
      BY <1>1, <1>4, <3>1, <3>2, SecondKeeps
  <2>3. QED
    BY <1>1, <1>5, <2>1, <2>2, HolderHas
<1>9. Undisturbed(x, y, it, K \cup {})
  BY <1>3, <1>8, UndisturbedTwice
<1>10. QED
  BY <1>9 DEF y, K

\* dictGenericDelete disturbs no key but the one it takes out, which must not
\* be the next of the iterator.
LEMMA DeletedUndisturbed ==
  ASSUME hash \in [Key -> Nat], NEW x, DictHolds(x), x.pauserehash # 0, NEW k \in Key,
         NEW it, Iter(it), Placed(x, it), it.next # k
  PROVE  Undisturbed(x, GenericDelete(x, k), it, {k})
<1> DEFINE y == GenericDelete(x, k)
           t == x.ht[0]
           u == x.ht[1]
<1>1. y = IF Lookup(x, k) = {} THEN x ELSE [x EXCEPT !.ht[Holder(x, k)] = Unlinked(@, k)]
  BY PausedSteps DEF GenericDelete
<1> HIDE DEF y
<1>2. Lookup(x, k) = Of(Entries(x), k)
  BY LookupHolds
<1>3. CASE Of(Entries(x), k) = {}
  <2>1. y = x
    BY <1>1, <1>2, <1>3
  <2>2. QED
    BY <2>1 DEF Undisturbed, y
<1>4. CASE Of(Entries(x), k) # {}
  <2>1. PICK f \in Entries(x) : f.key = k
    BY <1>4 DEF Of
  <2>2. /\ PartsHold(t, u, x.rehashidx) /\ x = Dict2(t, u, x.rehashidx, x.pauserehash)
    BY DictTaken
  <2>3. TableHolds(t) /\ TableHolds(u)
    BY <2>2 DEF PartsHold
  <2>4. CASE Holder(x, k) = 0 /\ f \in TableEntries(t) /\ t.size > 0
    <3> DEFINE v == Unlinked(t, k)
    <3>1. y = WithFirst(x, v)
      BY <1>1, <1>2, <1>4, <2>2, <2>4 DEF WithFirst, Dict2
    <3>2. Keeps(t, v, {k})
      <4> HIDE DEF t
      <4> QED BY <2>1, <2>3, <2>4, UnlinkedKeeps
    <3> HIDE DEF v
    <3>3. QED
      BY <3>1, <3>2, FirstKeeps DEF y
  <2>5. CASE Holder(x, k) = 1 /\ f \in TableEntries(u) /\ u.size > 0
    <3> DEFINE v == Unlinked(u, k)
    <3>1. y = WithSecond(x, v)
      BY <1>1, <1>2, <1>4, <2>2, <2>5 DEF WithSecond, Dict2
    <3>2. Keeps(u, v, {k})
      <4> HIDE DEF u
      <4> QED BY <2>1, <2>3, <2>5, UnlinkedKeeps
    <3> HIDE DEF v
    <3>3. QED
      BY <3>1, <3>2, SecondKeeps DEF y
  <2>6. QED
    BY <2>1, <2>4, <2>5, HolderHas
<1>5. QED
  BY <1>3, <1>4

-----------------------------------------------------------------------------
(* What dictNext takes from what is left.                                  *)

\* A key is in the bucket of its hash.
LEMMA KeyBucket ==
  ASSUME NEW t, TableHolds(t)
  PROVE  /\ \A k \in KeysIn(t) : Index(t, k) \in 0 .. t.size - 1
                                 /\ k \in KeysOf(ToSet(t.table[Index(t, k)]))
         /\ \A j \in 0 .. t.size - 1 : \A k \in KeysOf(ToSet(t.table[j])) :
              k \in KeysIn(t) /\ Index(t, k) = j
<1>1. /\ \A e : e \in TableEntries(t) <=> \E j \in 0 .. t.size - 1 : e \in ToSet(t.table[j])
      /\ \A j \in 0 .. t.size - 1 : \A e \in ToSet(t.table[j]) : Index(t, e.key) = j
  BY EntriesByBucket DEF TableHolds
<1>2. ASSUME NEW k \in KeysIn(t)
      PROVE  Index(t, k) \in 0 .. t.size - 1 /\ k \in KeysOf(ToSet(t.table[Index(t, k)]))
  <2>1. PICK e \in TableEntries(t) : e.key = k
    BY DEF KeysIn, KeysOf
  <2>2. QED
    BY <1>1, <2>1 DEF KeysOf
<1>3. ASSUME NEW j \in 0 .. t.size - 1, NEW k \in KeysOf(ToSet(t.table[j]))
      PROVE  k \in KeysIn(t) /\ Index(t, k) = j
  <2>1. PICK e \in ToSet(t.table[j]) : e.key = k
    BY DEF KeysOf
  <2>2. QED
    BY <1>1, <2>1 DEF KeysIn, KeysOf
<1>4. QED
  BY <1>2, <1>3

\* The next bucket with entries has the next keys, and if there is none there
\* are no more keys.
LEMMA BeyondBucket ==
  ASSUME NEW t, TableHolds(t), NEW i \in -1 .. t.size - 1
  PROVE  /\ FirstFrom(t, i + 1) = {} => Beyond(t, i) = {}
         /\ \A j \in FirstFrom(t, i + 1) :
              /\ j \in 0 .. t.size - 1 /\ t.table[j] # << >>
              /\ Beyond(t, i) = KeysOf(ToSet(t.table[j])) \cup Beyond(t, j)
<1>1. t.size \in Nat /\ IsTable(t)
  BY TableChains DEF TableHolds
<1>2. ASSUME NEW k \in Beyond(t, i)
      PROVE  /\ Index(t, k) \in i + 1 .. t.size - 1 /\ k \in KeysIn(t)
             /\ t.table[Index(t, k)] # << >> /\ k \in KeysOf(ToSet(t.table[Index(t, k)]))
  <2>1. k \in KeysIn(t) /\ Index(t, k) > i
    BY DEF Beyond
  <2>2. Index(t, k) \in 0 .. t.size - 1 /\ k \in KeysOf(ToSet(t.table[Index(t, k)]))
    BY <2>1, KeyBucket
  <2>3. t.table[Index(t, k)] # << >>
    BY <2>2, EmptyChain DEF KeysOf
  <2>4. QED
    BY <1>1, <2>1, <2>2, <2>3
<1>3. FirstFrom(t, i + 1) = {} => Beyond(t, i) = {}
  <2> SUFFICES ASSUME Beyond(t, i) # {} PROVE FirstFrom(t, i + 1) # {}
    OBVIOUS
  <2> DEFINE T == {j \in i + 1 .. t.size - 1 : t.table[j] # << >>}
  <2>1. T # {} /\ T \in SUBSET Nat
    BY <1>1, <1>2
  <2>2. PICK j \in T : \A y \in T : j <= y
    <3> HIDE DEF T
    <3> QED BY <2>1, LeastNumber
  <2>3. \A l \in i + 1 .. j - 1 : t.table[l] = << >>
    <3> SUFFICES ASSUME NEW l \in i + 1 .. j - 1 PROVE t.table[l] = << >>
      OBVIOUS
    <3>1. l \in i + 1 .. t.size - 1 /\ ~(j <= l)
      BY <1>1
    <3>2. QED
      BY <2>2, <3>1
  <2>4. j \in FirstFrom(t, i + 1)
    BY <2>2, <2>3 DEF FirstFrom
  <2>5. QED
    BY <2>4
<1>4. ASSUME NEW j \in FirstFrom(t, i + 1)
      PROVE  /\ j \in 0 .. t.size - 1 /\ t.table[j] # << >>
             /\ Beyond(t, i) = KeysOf(ToSet(t.table[j])) \cup Beyond(t, j)
  <2>1. /\ j \in i + 1 .. t.size - 1 /\ j \in 0 .. t.size - 1 /\ t.table[j] # << >>
        /\ \A l \in i + 1 .. j - 1 : t.table[l] = << >>
    BY <1>1 DEF FirstFrom
  <2>2. ASSUME NEW k \in Beyond(t, i) PROVE k \in KeysOf(ToSet(t.table[j])) \cup Beyond(t, j)
    <3>1. Index(t, k) = j \/ Index(t, k) > j
      BY <1>1, <1>2, <2>1
    <3>2. QED
      BY <1>2, <3>1 DEF Beyond
  <2>3. ASSUME NEW k \in KeysOf(ToSet(t.table[j])) \cup Beyond(t, j) PROVE k \in Beyond(t, i)
    <3>1. k \in KeysIn(t) /\ Index(t, k) \in 0 .. t.size - 1 /\ Index(t, k) >= j
      BY <2>1, <2>3, KeyBucket DEF Beyond
    <3>2. QED
      BY <1>1, <2>1, <3>1 DEF Beyond
  <2>4. QED
    BY <2>1, <2>2, <2>3
<1>5. QED
  BY <1>3, <1>4

\* No key is in a chain and behind it.
LEMMA BeyondApart ==
  ASSUME NEW t, TableHolds(t), NEW j \in 0 .. t.size - 1
  PROVE  KeysOf(ToSet(t.table[j])) \cap Beyond(t, j) = {}
<1> SUFFICES ASSUME NEW k \in KeysOf(ToSet(t.table[j])), k \in Beyond(t, j) PROVE FALSE
  OBVIOUS
<1>1. Index(t, k) = j /\ Index(t, k) > j
  BY KeyBucket DEF Beyond
<1>2. QED
  BY <1>1

\* In front of the first bucket, everything is left.
LEMMA LeftAtFirst ==
  ASSUME NEW x, DictHolds(x), NEW safe
  PROVE  LET it == NewIterator(safe) IN Placed(x, it) /\ Left(x, it) = Keys(x)
<1> DEFINE it == NewIterator(safe)
           t == x.ht[0]
<1>1. it.table = 0 /\ it.index = -1 /\ it.next = NoKey /\ it.ended = FALSE
  BY DEF NewIterator
<1>2. TableHolds(t) /\ t.size \in Nat
  <2>1. TableHolds(t)
    BY DictTaken DEF PartsHold
  <2>2. QED
    BY <2>1, TableChains DEF TableHolds
<1>3. Beyond(t, -1) = KeysIn(t)
  <2>1. \A k \in KeysIn(t) : Index(t, k) > -1
    BY <1>2, KeyBucket
  <2>2. QED
    BY <2>1 DEF Beyond
<1> HIDE DEF it
<1>4. Placed(x, it)
  BY <1>1, <1>2 DEF Placed
<1>5. Left(x, it) = Keys(x)
  BY <1>1, <1>3, KeysOfTables DEF Left, Onward
<1>6. QED
  BY <1>4, <1>5 DEF it

\* The keys of the two tables differ.
LEMMA TablesApart ==
  ASSUME NEW x, DictHolds(x)
  PROVE  KeysIn(x.ht[0]) \cap KeysIn(x.ht[1]) = {}
<1>1. \A e \in TableEntries(x.ht[0]), f \in TableEntries(x.ht[1]) : e.key # f.key
  BY DictTaken DEF PartsHold
<1>2. QED
  BY <1>1 DEF KeysIn, KeysOf

\* The buckets of a table, as NextBucket has them.
Buckets(m, S) == {<<m, i>> : i \in S}

LEMMA BucketsOf ==
  ASSUME NEW m, NEW S
  PROVE  /\ (Buckets(m, S) = {} <=> S = {})
         /\ \A p \in Buckets(m, S) : p[1] = m /\ p[2] \in S
<1> DEFINE P == {<<m, i>> : i \in S}
<1>1. \A i \in S : <<m, i>> \in P
  OBVIOUS
<1>2. \A p \in P : \E i \in S : p = <<m, i>>
  OBVIOUS
<1>3. \A i : <<m, i>>[1] = m /\ <<m, i>>[2] = i
  OBVIOUS
<1> HIDE DEF P
<1>4. (P = {} <=> S = {}) /\ \A p \in P : p[1] = m /\ p[2] \in S
  BY <1>1, <1>2, <1>3
<1>5. QED
  BY <1>4 DEF P, Buckets

\* dictNext takes a key from what is left, or nothing is.
LEMMA NextTakes ==
  ASSUME NEW x, DictHolds(x), NEW it, Iter(it), Placed(x, it), ~it.ended,
         it \in [safe : BOOLEAN, table : 0 .. 1, index : Int, next : {it.next}, ended : BOOLEAN]
  PROVE  LET k  == Returned(x, it)
             jt == Advanced(x, it)
         IN  /\ Placed(x, jt) /\ Left(x, jt) = Left(x, it) \ {k}
             /\ IF k = NoKey THEN Left(x, it) = {} ELSE k \in Left(x, it)
             /\ Left(x, it) \subseteq Keys(x)
<1> DEFINE k == Returned(x, it)
           jt == Advanced(x, it)
           bucket == IF it.next # NoKey THEN {<<it.table, it.index>>} ELSE NextBucket(x, it)
           b == CHOOSE b \in bucket : TRUE
           j == b[1]
           i == b[2]
           v == x.ht[j]
           c == v.table[i]
           t == x.ht[it.table]
           u == x.ht[1]
           second == IF it.table = 0 THEN KeysIn(u) ELSE {}
           rest == IF j = 0 THEN KeysIn(u) ELSE {}
           n == After(c, k)
           here == {<<it.table, m>> : m \in FirstFrom(t, it.index + 1)}
           there == {<<1, m>> : m \in FirstFrom(u, 0)}
<1>1. /\ TableHolds(t) /\ TableHolds(u) /\ TableHolds(x.ht[0])
      /\ (~IsRehashing(x) => KeysIn(u) = {})
  <2>1. PartsHold(x.ht[0], u, x.rehashidx) /\ (IsRehashing(x) <=> x.rehashidx # -1)
    BY DictTaken
  <2>2. TableHolds(x.ht[0]) /\ TableHolds(u) /\ (~IsRehashing(x) => u = NoTable)
    BY <2>1 DEF PartsHold
  <2>3. KeysIn(NoTable) = {}
    BY NoTableHolds DEF KeysIn, KeysOf
  <2>4. QED
    BY <2>2, <2>3 DEF Iter
<1>2. /\ it.index \in -1 .. t.size - 1 /\ (it.table = 1 => IsRehashing(x))
      /\ it.next # NoKey => /\ it.index \in 0 .. t.size - 1
                            /\ it.next \in KeysOf(ToSet(t.table[it.index]))
  BY DEF Placed
<1>3. Left(x, it) = Onward(t.table[it.index], it.next) \cup Beyond(t, it.index) \cup second
  BY DEF Left
<1>4. Left(x, it) \subseteq Keys(x)
  <2>1. second \subseteq Keys(x) /\ KeysIn(t) \subseteq Keys(x)
    BY KeysOfTables DEF Iter
  <2>2. Beyond(t, it.index) \subseteq KeysIn(t)
    BY DEF Beyond
  <2>3. Onward(t.table[it.index], it.next) \subseteq KeysIn(t)
    <3>1. CASE it.next = NoKey
      BY <3>1 DEF Onward
    <3>2. CASE it.next # NoKey
      <4> HIDE DEF t
      <4>1. it.index \in 0 .. t.size - 1 /\ t.table[it.index] \in Seq(Entry)
        BY <1>1, <1>2, <3>2, TableChains DEF TableHolds
      <4>2. KeysOf(ToSet(t.table[it.index])) \subseteq KeysIn(t)
        BY <1>1, <4>1, KeyBucket
      <4>3. QED
        BY <4>1, <4>2, OnwardWithin
    <3>3. QED
      BY <3>1, <3>2
  <2> HIDE DEF t, u, second
  <2>4. QED
    BY <1>3, <2>1, <2>2, <2>3
<1>5. NextBucket(x, it) = IF here # {} \/ it.table = 1 \/ ~IsRehashing(x) THEN here ELSE there
  BY DEF NextBucket
<1>6. /\ (here = {} <=> FirstFrom(t, it.index + 1) = {}) /\ (there = {} <=> FirstFrom(u, 0) = {})
      /\ \A p \in here : p[1] = it.table /\ p[2] \in FirstFrom(t, it.index + 1)
      /\ \A p \in there : p[1] = 1 /\ p[2] \in FirstFrom(u, 0)
  <2> DEFINE S == FirstFrom(t, it.index + 1)
             T == FirstFrom(u, 0)
             m == it.table
             o == 1
  <2>1. here = Buckets(m, S) /\ there = Buckets(o, T)
    BY DEF Buckets
  <2> HIDE DEF S, T, m, o, here, there
  <2>2. /\ (here = {} <=> S = {}) /\ \A p \in here : p[1] = m /\ p[2] \in S
        /\ (there = {} <=> T = {}) /\ \A p \in there : p[1] = o /\ p[2] \in T
    BY <2>1, BucketsOf
  <2>3. QED
    BY <2>2 DEF S, T, m, o
<1> HIDE DEF here, there
<1>7. CASE bucket = {}
  <2>1. it.next = NoKey /\ NextBucket(x, it) = {}
    BY <1>7
  <2>2. k = NoKey /\ jt.ended
    BY <1>7, <2>1 DEF Returned, Advanced
  <2>3. Beyond(t, it.index) = {} /\ second = {}
    <3>1. FirstFrom(t, it.index + 1) = {}
      BY <1>5, <1>6, <2>1
    <3>2. it.table = 0 /\ IsRehashing(x) => FirstFrom(u, 0) = {}
      BY <1>5, <1>6, <2>1, <3>1
    <3>3. FirstFrom(u, 0) = {} => KeysIn(u) = {}
      <4>1. u.size \in Nat /\ -1 \in -1 .. u.size - 1 /\ -1 + 1 = 0
        <5>1. u.size \in Nat
          BY <1>1, TableChains DEF TableHolds
        <5>2. QED
          BY <5>1
      <4>2. FirstFrom(u, 0) = {} => Beyond(u, -1) = {}
        <5> HIDE DEF u
        <5> QED BY <1>1, <4>1, BeyondBucket
      <4>3. \A l \in KeysIn(u) : Index(u, l) > -1
        <5> HIDE DEF u
        <5> QED BY <1>1, <4>1, KeyBucket
      <4>4. QED
        BY <4>2, <4>3 DEF Beyond
    <3>4. Beyond(t, it.index) = {}
      <4> HIDE DEF t
      <4> QED BY <1>1, <1>2, <3>1, BeyondBucket
    <3>5. QED
      BY <1>1, <3>2, <3>3, <3>4
  <2>4. Left(x, it) = {}
    BY <1>3, <2>1, <2>3 DEF Onward
  <2>5. Placed(x, jt) /\ Left(x, jt) = {}
    <3> HIDE DEF jt
    <3> QED BY <2>2 DEF Placed, Left
  <2>6. QED
    BY <1>4, <2>2, <2>4, <2>5
<1>8. CASE bucket # {}
  <2>1. b \in bucket
    BY <1>8
  <2>2. jt = [it EXCEPT !.table = j, !.index = i, !.next = n]
    BY <1>8 DEF Advanced
  <2>3. /\ j \in 0 .. 1 /\ i \in 0 .. v.size - 1 /\ (j = 1 => IsRehashing(x))
        /\ k # NoKey /\ k \in KeysOf(ToSet(c))
        /\ Left(x, it) = Onward(c, k) \cup Beyond(v, i) \cup rest
    <3>1. CASE it.next # NoKey
      <4>1. b = <<it.table, it.index>> /\ k = it.next
        BY <2>1, <3>1 DEF Returned
      <4>2. j = it.table /\ i = it.index
        <5> HIDE DEF b
        <5> QED BY <4>1
      <4> HIDE DEF b, k
      <4>3. QED
        BY <1>2, <1>3, <3>1, <4>1, <4>2 DEF Iter
    <3>2. CASE it.next = NoKey
      <4>1. bucket = NextBucket(x, it) /\ k = Head(c).key
        BY <1>8, <3>2 DEF Returned
      <4>2. Onward(t.table[it.index], it.next) = {}
        BY <3>2 DEF Onward
      <4>3. /\ j \in 0 .. 1 /\ i \in 0 .. v.size - 1 /\ (j = 1 => IsRehashing(x)) /\ c # << >>
            /\ Left(x, it) = KeysOf(ToSet(c)) \cup Beyond(v, i) \cup rest
        <5>1. CASE b \in here
          <6>1. j = it.table /\ i \in FirstFrom(t, it.index + 1) /\ v = t
            <7> HIDE DEF b, t
            <7>1. j = it.table /\ i \in FirstFrom(t, it.index + 1)
              <8>1. b \in here /\ \A p \in here : p[1] = it.table /\ p[2] \in FirstFrom(t, it.index + 1)
                BY <1>6, <5>1
              <8>2. QED
                BY ONLY <8>1
            <7> HIDE DEF j
            <7>2. QED
              BY <7>1 DEF t
          <6> HIDE DEF b, t, v, u
          <6>2. /\ i \in 0 .. t.size - 1 /\ t.table[i] # << >>
                /\ Beyond(t, it.index) = KeysOf(ToSet(t.table[i])) \cup Beyond(t, i)
            BY <1>1, <1>2, <6>1, BeyondBucket
          <6>3. rest = second
            BY <6>1
          <6> HIDE DEF rest, second
          <6>4. QED
            BY <1>2, <1>3, <4>2, <6>1, <6>2, <6>3 DEF Iter
        <5>2. CASE b \in there /\ b \notin here
          <6>1. j = 1 /\ i \in FirstFrom(u, 0) /\ v = u
            <7> HIDE DEF b, u
            <7>1. j = 1 /\ i \in FirstFrom(u, 0)
              <8>1. b \in there
                BY <5>2
              <8>2. \A p \in there : p[1] = 1 /\ p[2] \in FirstFrom(u, 0)
                BY ONLY <1>6
              <8>3. QED
                BY ONLY <8>1, <8>2
            <7> HIDE DEF j
            <7>2. QED
              BY <7>1 DEF u
          <6>2. here = {} /\ it.table # 1 /\ IsRehashing(x)
            BY <1>5, <2>1, <4>1, <5>2
          <6>3. FirstFrom(t, it.index + 1) = {} /\ it.table = 0
            BY <1>6, <6>2 DEF Iter
          <6> HIDE DEF b, t, v, u
          <6>4. Beyond(t, it.index) = {}
            BY <1>1, <1>2, <6>3, BeyondBucket
          <6>5. u.size \in Nat /\ -1 \in -1 .. u.size - 1 /\ -1 + 1 = 0
            <7>1. u.size \in Nat
              BY <1>1, TableChains DEF TableHolds
            <7>2. QED
              BY <7>1
          <6>6. /\ i \in 0 .. u.size - 1 /\ u.table[i] # << >>
                /\ Beyond(u, -1) = KeysOf(ToSet(u.table[i])) \cup Beyond(u, i)
            BY <1>1, <6>1, <6>5, BeyondBucket
          <6>7. Beyond(u, -1) = KeysIn(u)
            <7>1. \A l \in KeysIn(u) : Index(u, l) > -1
              BY <1>1, <6>5, KeyBucket
            <7>2. QED
              BY <7>1 DEF Beyond
          <6>8. rest = {} /\ second = KeysIn(u)
            BY <6>1, <6>3
          <6> HIDE DEF rest, second
          <6>9. QED
            BY <1>3, <4>2, <6>1, <6>2, <6>4, <6>6, <6>7, <6>8
        <5>3. QED
          BY <1>5, <2>1, <4>1, <5>1, <5>2
      <4> HIDE DEF b, v, rest
      <4>4. c \in Seq(Entry)
        <5>1. TableHolds(v)
          BY <1>1, <4>3 DEF v
        <5>2. QED
          BY <4>3, <5>1, TableChains DEF TableHolds
      <4> HIDE DEF c, k
      <4>5. k \in Key /\ k \in KeysOf(ToSet(c)) /\ Onward(c, k) = KeysOf(ToSet(c))
        BY <4>1, <4>3, <4>4, OnwardAll
      <4>6. k # NoKey
        BY <4>5, DictAssumption
      <4>7. QED
        BY <4>3, <4>5, <4>6
    <3>3. QED
      BY <3>1, <3>2
  <2>4. TableHolds(v)
    <3>1. j \in 0 .. 1 /\ TableHolds(x.ht[0]) /\ TableHolds(x.ht[1])
      BY <1>1, <2>3
    <3> HIDE DEF j
    <3>2. QED
      BY <3>1
  <2>5. c \in Seq(Entry) /\ OneOfEach(c)
    <3> HIDE DEF v, i
    <3> QED BY <2>3, <2>4, TableChains DEF TableHolds
  <2>6. /\ n # NoKey => n \in KeysOf(ToSet(c))
        /\ Onward(c, k) = {k} \cup Onward(c, n) /\ k \notin Onward(c, n)
    <3> HIDE DEF c, k
    <3> QED BY <2>3, <2>5, OnwardNext
  <2>7. k \notin Beyond(v, i) /\ k \in KeysIn(v)
    <3> HIDE DEF v, i, k
    <3> QED BY <2>3, <2>4, BeyondApart, KeyBucket
  <2>8. k \notin rest
    <3>1. KeysIn(x.ht[0]) \cap KeysIn(u) = {}
      BY TablesApart
    <3>2. QED
      BY <2>7, <3>1
  <2> HIDE DEF b, n, k, jt
  <2>9. jt.table = j /\ jt.index = i /\ jt.next = n /\ jt.ended = it.ended
    BY <2>2
  <2>10. Placed(x, jt)
    <3>1. i \in -1 .. v.size - 1 /\ i >= 0
      BY <2>3
    <3> HIDE DEF j, i
    <3>2. QED
      BY <2>3, <2>6, <2>9, <3>1 DEF Placed
  <2>11. Left(x, jt) = Onward(c, n) \cup Beyond(v, i) \cup rest
    BY <2>9 DEF Left
  <2> HIDE DEF v, i, j, c, rest
  <2>12. Left(x, jt) = Left(x, it) \ {k} /\ k \in Left(x, it)
    BY <2>3, <2>6, <2>7, <2>8, <2>11
  <2>13. QED
    BY <1>4, <2>3, <2>10, <2>12 DEF k, jt
<1>9. QED
  BY <1>7, <1>8

\* Everything that a call may do while an iterator is at work.
LEMMA CallsUndisturbed ==
  ASSUME hash \in [Key -> Nat], NEW x, DictHolds(x), x.pauserehash # 0,
         NEW it, Iter(it), Placed(x, it)
  PROVE  /\ \A e \in Entry : /\ Undisturbed(x, AddRaw(x, e), it, {e.key} \ Keys(x))
                             /\ Undisturbed(x, Replaced(x, e), it, {e.key} \ Keys(x))
         /\ \A k \in Key : it.next # k => Undisturbed(x, GenericDelete(x, k), it, {k})
         /\ Undisturbed(x, Stepped(x), it, {})
         /\ \A n \in Nat : /\ Undisturbed(x, Expand(x, n), it, {})
                           /\ Undisturbed(x, SampleSteps(x, n), it, {})
<1>1. Undisturbed(x, x, it, {})
  BY DEF Undisturbed
<1>2. /\ Undisturbed(x, Stepped(x), it, {})
      /\ \A n \in Nat : Undisturbed(x, SampleSteps(x, n), it, {})
  BY <1>1, PausedSteps
<1>3. \A n \in Nat : Undisturbed(x, Expand(x, n), it, {})
  BY ExpandUndisturbed
<1>4. \A k \in Key : it.next # k => Undisturbed(x, GenericDelete(x, k), it, {k})
  BY DeletedUndisturbed
<1>5. ASSUME NEW e \in Entry
      PROVE  /\ Undisturbed(x, AddRaw(x, e), it, {e.key} \ Keys(x))
             /\ Undisturbed(x, Replaced(x, e), it, {e.key} \ Keys(x))
  <2>1. CASE ~it.ended
    BY <2>1, AddRawUndisturbed, ReplacedUndisturbed
  <2>2. CASE it.ended
    <3> DEFINE K == {e.key} \ Keys(x)
               y == AddRaw(x, e)
               z == Replaced(x, e)
    <3>1. Entries(y) = IF Of(Entries(x), e.key) # {} THEN Entries(x) ELSE Entries(x) \cup {e}
      BY AddRawHolds
    <3>2. Entries(z) = Others(Entries(x), e.key) \cup {e}
      BY ReplacedHolds
    <3> HIDE DEF y, z
    <3>3. Keys(y) \ K = Keys(x) \ K
      <4>1. Of(Entries(x), e.key) = {} => e.key \notin Keys(x)
        BY DEF Of, Keys
      <4>2. QED
        BY <3>1, <4>1 DEF Keys
    <3>4. Keys(z) \ K = Keys(x) \ K
      <4>1. Keys(z) = Keys(x) \cup {e.key}
        <5>1. KeysOf(Others(Entries(x), e.key) \cup {e}) = KeysOf(Entries(x)) \cup {e.key}
          BY DEF KeysOf, Others
        <5>2. QED
          BY <3>2, <5>1, KeysOfTables
      <4>2. QED
        BY <4>1
    <3> HIDE DEF K
    <3>5. QED
      BY <2>2, <3>3, <3>4, EndedUndisturbed DEF K, y, z
  <2>3. QED
    BY <2>1, <2>2
<1>6. QED
  BY <1>2, <1>3, <1>4, <1>5

-----------------------------------------------------------------------------
(* The walk with an iterator.                                              *)

\* What is there all the time has been returned or is left, and not both.
WalkHolds ==
  /\ Placed(d, iter)
  /\ stable \subseteq Keys(d) /\ stable \subseteq seen \cup Left(d, iter)
  /\ stable \cap seen \cap Left(d, iter) = {}
  /\ stable \cap again = {}

\* Before the iterator starts there is nothing to remember.
WalkKept ==
  /\ walk = "none" \/ (walk = "iterator" /\ ~Started(iter)) =>
       stable = {} /\ seen = {} /\ again = {}
  /\ walk = "iterator" => Iter(iter) /\ WalkHolds
  /\ walk = "iterator" /\ ~Started(iter) => iter = NewIterator(iter.safe)

\* The hash function never changes.
LEMMA WalkCarried ==
  ASSUME hash' = hash
  PROVE  /\ Left(d, iter)' = Left(d', iter') /\ Keys(d)' = Keys(d')
         /\ Placed(d, iter)' <=> Placed(d', iter')
<1>1. Keys(d)' = Keys(d')
  BY DEF Keys, Entries, TableEntries
<1>2. Placed(d, iter)' <=> Placed(d', iter')
  BY DEF Placed, IsRehashing, KeysOf
<1>3. Left(d, iter)' = Left(d', iter')
  BY DEF Left, Onward, Beyond, Index, KeysIn, KeysOf, TableEntries
<1>4. QED
  BY <1>1, <1>2, <1>3

\* A call that spares the keys that stay.
LEMMA WalkByCall ==
  ASSUME DictKept, WalkKept, UNCHANGED <<hash, walk, iter, seen, again>>,
         stable' \subseteq stable, DictHolds(d'),
         walk = "iterator" /\ Started(iter) =>
           \E K : Undisturbed(d, d', iter, K) /\ stable' \cap K = {}
  PROVE  WalkKept'
<1>1. /\ Left(d, iter)' = Left(d', iter) /\ Keys(d)' = Keys(d')
      /\ Placed(d, iter)' <=> Placed(d', iter)
  BY WalkCarried
<1>2. (walk = "none" \/ (walk = "iterator" /\ ~Started(iter)) =>
         stable = {} /\ seen = {} /\ again = {})'
  BY DEF WalkKept, Started
<1>3. (walk = "iterator" /\ ~Started(iter) => iter = NewIterator(iter.safe))'
  BY DEF WalkKept, Started, NewIterator
<1>4. ASSUME walk = "iterator" PROVE WalkHolds'
  <2>1. CASE Started(iter)
    <3>1. PICK K : Undisturbed(d, d', iter, K) /\ stable' \cap K = {}
      BY <1>4, <2>1
    <3>2. /\ Placed(d', iter) /\ Left(d', iter) \ K = Left(d, iter) \ K
          /\ Keys(d') \ K = Keys(d) \ K
      BY <3>1 DEF Undisturbed
    <3>3. /\ stable \subseteq Keys(d) /\ stable \subseteq seen \cup Left(d, iter)
          /\ stable \cap seen \cap Left(d, iter) = {} /\ stable \cap again = {}
      BY <1>4 DEF WalkKept, WalkHolds
    <3>4. /\ stable' \subseteq Keys(d') /\ stable' \subseteq seen \cup Left(d', iter)
          /\ stable' \cap seen \cap Left(d', iter) = {} /\ stable' \cap again = {}
      BY <3>1, <3>2, <3>3
    <3>5. QED
      BY <1>1, <3>2, <3>4 DEF WalkHolds
  <2>2. CASE ~Started(iter)
    <3>1. stable' = {} /\ iter = NewIterator(iter.safe)
      BY <1>4, <2>2 DEF WalkKept
    <3>2. Placed(d', iter)
      BY <3>1, LeftAtFirst
    <3>3. QED
      BY <1>1, <3>1, <3>2 DEF WalkHolds
  <2>3. QED
    BY <2>1, <2>2
<1>5. Iter(iter)' <=> Iter(iter)
  BY DEF Iter
<1>6. QED
  BY <1>2, <1>3, <1>4, <1>5 DEF WalkKept

\* A call leaves the dictionary as it is, or disturbs a key that was not
\* there or is taken out.
LEMMA CallsSpare ==
  ASSUME DictKept, WalkKept, Free, walk = "iterator", Started(iter)
  PROVE  /\ d.pauserehash # 0 /\ stable \subseteq Keys(d)
         /\ \A e \in Entry : /\ Undisturbed(d, AddRaw(d, e), iter, {e.key} \ Keys(d))
                             /\ Undisturbed(d, Replaced(d, e), iter, {e.key} \ Keys(d))
         /\ \A k \in Key : iter.next # k => Undisturbed(d, GenericDelete(d, k), iter, {k})
         /\ Undisturbed(d, Stepped(d), iter, {})
         /\ \A n \in Nat : /\ Undisturbed(d, Expand(d, n), iter, {})
                           /\ Undisturbed(d, SampleSteps(d, n), iter, {})
<1> DEFINE x == d
           it == iter
<1>1. hash \in [Key -> Nat] /\ DictHolds(x) /\ Iter(it) /\ Placed(x, it)
  BY HashOfKeys DEF DictKept, WalkKept, WalkHolds
<1>2. d.pauserehash = 1
  BY DEF DictKept, Paused, Free
<1>3. stable \subseteq Keys(d)
  BY DEF WalkKept, WalkHolds
<1>4. x.pauserehash # 0
  BY <1>2
<1> HIDE DEF x, it
<1>5. /\ \A e \in Entry : /\ Undisturbed(x, AddRaw(x, e), it, {e.key} \ Keys(x))
                          /\ Undisturbed(x, Replaced(x, e), it, {e.key} \ Keys(x))
      /\ \A k \in Key : it.next # k => Undisturbed(x, GenericDelete(x, k), it, {k})
      /\ Undisturbed(x, Stepped(x), it, {})
      /\ \A n \in Nat : /\ Undisturbed(x, Expand(x, n), it, {})
                        /\ Undisturbed(x, SampleSteps(x, n), it, {})
  BY <1>1, <1>4, CallsUndisturbed
<1>6. QED
  BY <1>2, <1>3, <1>5 DEF x, it

\* No call changes the hash function.
LEMMA DictCarried ==
  ASSUME DictKept, Next
  PROVE  hash' = hash /\ DictHolds(d')
<1>1. hash' = hash
  BY DEF Next, Add, Replace, Delete, Find, RehashMilliseconds, Resize, Empty, ExpandTo,
         GetSomeKeys, SetCanResize, GetIterator, DictNext, ReleaseIterator, DictScan, LeaveScan
<1>2. DictHolds(d)'
  BY KeptStep DEF DictKept
<1>3. QED
  BY <1>1, <1>2 DEF DictHolds, PartsHold, TableHolds, Index

\* dictNext returns a key that was left, or everything has been returned.
LEMMA WalkByNext ==
  ASSUME DictKept, WalkKept, DictNext
  PROVE  WalkKept'
<1> DEFINE k == Returned(d, iter)
           jt == Advanced(d, iter)
<1>1. /\ walk = "iterator" /\ walk' = walk /\ hash' = hash /\ ~iter.ended /\ iter' = jt
      /\ stable' = IF Started(iter) THEN stable ELSE Keys(d)
      /\ seen' = seen \cup ({k} \ {NoKey}) /\ again' = again \cup (seen \cap {k})
  BY DEF DictNext
<1>2. DictHolds(d) /\ DictHolds(d')
  <2>1. Next
    BY DEF Next
  <2>2. QED
    BY <2>1, DictCarried DEF DictKept
<1>3. d'.ht = d.ht /\ d'.rehashidx = d.rehashidx
  <2>1. d = Dict2(d.ht[0], d.ht[1], d.rehashidx, d.pauserehash)
    BY <1>2, DictTaken
  <2>2. d \in [ht : {d.ht}, rehashidx : {d.rehashidx}, pauserehash : {d.pauserehash}]
    BY <2>1 DEF Dict2
  <2>3. QED
    BY <2>2 DEF DictNext
<1>4. Left(d', jt) = Left(d, jt) /\ (Placed(d', jt) <=> Placed(d, jt)) /\ Keys(d') = Keys(d)
  <2> HIDE DEF jt
  <2> QED BY <1>3 DEF Left, Placed, Keys, Entries, IsRehashing
<1>5. Iter(iter) /\ Placed(d, iter) /\ jt.table \in 0 .. 1 /\ Started(jt)
      /\ iter \in [safe : BOOLEAN, table : 0 .. 1, index : Int, next : {iter.next}, ended : BOOLEAN]
  <2>1. IterHolds' /\ IterHolds
    BY KeptByNext DEF DictKept, DictNext
  <2>2. jt.table \in 0 .. 1
    BY <1>1, <2>1 DEF IterHolds
  <2>3. Started(jt)
    <3>1. d.ht[0].size \in Nat /\ d.ht[1].size \in Nat
      <4>1. TableHolds(d.ht[0]) /\ TableHolds(d.ht[1])
        BY <1>2, DictTaken DEF PartsHold
      <4>2. QED
        BY <4>1, TableChains DEF TableHolds
    <3> DEFINE x == d
               it == iter
    <3>2. /\ it \in [safe : BOOLEAN, table : 0 .. 1, index : Int, next : {it.next}, ended : BOOLEAN]
          /\ it.index >= -1 /\ (it.next # NoKey => Started(it))
          /\ x.ht[0].size \in Nat /\ x.ht[1].size \in Nat
      BY <2>1, <3>1 DEF IterHolds
    <3> HIDE DEF x, it
    <3>3. Started(Advanced(x, it))
      BY <3>2, IterAdvanced
    <3>4. QED
      BY <3>3 DEF x, it
  <2>4. QED
    BY <1>1, <2>1, <2>2, <2>3 DEF IterHolds, WalkKept, WalkHolds
<1>6. /\ Placed(d, jt) /\ Left(d, jt) = Left(d, iter) \ {k}
      /\ IF k = NoKey THEN Left(d, iter) = {} ELSE k \in Left(d, iter)
      /\ Left(d, iter) \subseteq Keys(d)
  <2> DEFINE x == d
             it == iter
  <2>1. DictHolds(x) /\ Iter(it) /\ Placed(x, it) /\ ~it.ended
        /\ it \in [safe : BOOLEAN, table : 0 .. 1, index : Int, next : {it.next}, ended : BOOLEAN]
    BY <1>1, <1>2, <1>5
  <2> HIDE DEF x, it
  <2>2. LET l == Returned(x, it)
            kt == Advanced(x, it)
        IN  /\ Placed(x, kt) /\ Left(x, kt) = Left(x, it) \ {l}
            /\ IF l = NoKey THEN Left(x, it) = {} ELSE l \in Left(x, it)
            /\ Left(x, it) \subseteq Keys(x)
    BY <2>1, NextTakes
  <2>3. QED
    BY <2>2 DEF x, it
<1> HIDE DEF k, jt
<1>7. /\ stable' \subseteq Keys(d) /\ stable' \subseteq seen \cup Left(d, iter)
      /\ stable' \cap seen \cap Left(d, iter) = {} /\ stable' \cap again = {}
  <2>1. CASE Started(iter)
    BY <1>1, <2>1 DEF WalkKept, WalkHolds
  <2>2. CASE ~Started(iter)
    <3>1. iter = NewIterator(iter.safe) /\ seen = {} /\ again = {}
      BY <1>1, <2>2 DEF WalkKept
    <3>2. Left(d, iter) = Keys(d)
      BY <1>2, <3>1, LeftAtFirst
    <3>3. QED
      BY <1>1, <2>2, <3>1, <3>2
  <2>3. QED
    BY <2>1, <2>2
<1>8. NoKey \notin stable'
  <2>1. Keys(d) \subseteq Key
    <3>1. Entries(d) \subseteq Entry
      <4>1. TableHolds(d.ht[0]) /\ TableHolds(d.ht[1])
        BY <1>2, DictTaken DEF PartsHold
      <4>2. TableEntries(d.ht[0]) \subseteq Entry /\ TableEntries(d.ht[1]) \subseteq Entry
        BY <4>1, EntriesByBucket DEF TableHolds
      <4>3. QED
        BY <4>2 DEF Entries
    <3>2. QED
      BY <3>1, EntryKey DEF Keys
  <2>2. QED
    BY <1>7, <2>1, DictAssumption
<1>9. /\ stable' \subseteq seen' \cup Left(d, jt) /\ stable' \cap seen' \cap Left(d, jt) = {}
      /\ stable' \cap again' = {}
  <2>1. CASE k = NoKey
    BY <1>1, <1>6, <1>7, <1>8, <2>1
  <2>2. CASE k # NoKey
    <3>1. k \in Left(d, iter) /\ Left(d, jt) = Left(d, iter) \ {k}
      BY <1>6, <2>2
    <3>2. seen' = seen \cup {k} /\ again' = again \cup (seen \cap {k})
      BY <1>1, <2>2
    <3>3. stable' \subseteq seen' \cup Left(d, jt)
      BY <1>7, <3>1, <3>2
    <3>4. stable' \cap seen' \cap Left(d, jt) = {}
      BY <1>7, <3>1, <3>2
    <3>5. stable' \cap again' = {}
      BY <1>7, <3>1, <3>2
    <3>6. QED
      BY <3>3, <3>4, <3>5
  <2>3. QED
    BY <2>1, <2>2
<1>10. WalkHolds'
  <2>1. Left(d, iter)' = Left(d, jt) /\ Keys(d)' = Keys(d) /\ Placed(d, iter)'
    BY <1>1, <1>4, <1>6, WalkCarried
  <2>2. QED
    BY <1>7, <1>9, <2>1 DEF WalkHolds
<1>11. Iter(iter)' /\ Started(iter)'
  BY <1>1, <1>5 DEF Iter, Started
<1>12. QED
  BY <1>1, <1>10, <1>11 DEF WalkKept

\* Every step keeps the account of the walk.
LEMMA WalkStep ==
  ASSUME DictKept, WalkKept, Next
  PROVE  WalkKept'
<1>1. hash' = hash /\ DictHolds(d')
  BY DictCarried
<1>2. InitialSize \in Nat /\ ExpandSizes \subseteq Nat /\ d.ht[0].used \in Nat /\ Size(d) \in Nat
  BY CallNumbers
<1>3. ASSUME NEW e \in Entry, Add(e) PROVE WalkKept'
  <2>1. /\ d' = AddRaw(d, e) /\ UNCHANGED <<hash, walk, iter, seen, again>> /\ stable' = stable
        /\ Free
    BY <1>3 DEF Add, walkVars
  <2>2. ASSUME walk = "iterator", Started(iter)
        PROVE  \E K : Undisturbed(d, d', iter, K) /\ stable' \cap K = {}
    <3> DEFINE K == {e.key} \ Keys(d)
    <3>1. Undisturbed(d, d', iter, K) /\ stable' \cap K = {}
      BY <2>1, <2>2, CallsSpare
    <3>2. QED
      BY <3>1
  <2>3. QED
    BY <1>1, <2>1, <2>2, WalkByCall
<1>4. ASSUME NEW e \in Entry, Replace(e) PROVE WalkKept'
  <2>1. /\ d' = Replaced(d, e) /\ UNCHANGED <<hash, walk, iter, seen, again>> /\ stable' = stable
        /\ Free
    BY <1>4 DEF Replace, walkVars
  <2>2. ASSUME walk = "iterator", Started(iter)
        PROVE  \E K : Undisturbed(d, d', iter, K) /\ stable' \cap K = {}
    <3> DEFINE K == {e.key} \ Keys(d)
    <3>1. Undisturbed(d, d', iter, K) /\ stable' \cap K = {}
      BY <2>1, <2>2, CallsSpare
    <3>2. QED
      BY <3>1
  <2>3. QED
    BY <1>1, <2>1, <2>2, WalkByCall
<1>5. ASSUME NEW k \in Key, Delete(k) PROVE WalkKept'
  <2>1. /\ d' = GenericDelete(d, k) /\ UNCHANGED <<hash, walk, iter, seen, again>>
        /\ stable' = stable \ {k} /\ Free /\ (walk = "iterator" => k # iter.next)
    BY <1>5 DEF Delete
  <2>2. ASSUME walk = "iterator", Started(iter)
        PROVE  \E K : Undisturbed(d, d', iter, K) /\ stable' \cap K = {}
    <3> DEFINE K == {k}
    <3>1. Undisturbed(d, d', iter, K) /\ stable' \cap K = {}
      BY <2>1, <2>2, CallsSpare
    <3>2. QED
      BY <3>1
  <2>3. QED
    BY <1>1, <2>1, <2>2, WalkByCall
<1>6. ASSUME UNCHANGED <<hash, walk, iter, seen, again>>, stable' = stable,
             walk = "iterator" /\ Started(iter) => Undisturbed(d, d', iter, {})
      PROVE  WalkKept'
  BY <1>1, <1>6, WalkByCall
<1>7. CASE Find
  <2>1. d' = Stepped(d) /\ UNCHANGED <<hash, walk, iter, seen, again>> /\ stable' = stable /\ Free
    BY <1>7 DEF Find, walkVars
  <2>2. QED
    BY <1>6, <2>1, CallsSpare
<1>8. CASE RehashMilliseconds
  <2>1. UNCHANGED <<hash, walk, iter, seen, again>> /\ stable' = stable /\ Free /\ d.pauserehash = 0
    BY <1>8 DEF RehashMilliseconds, walkVars
  <2>2. QED
    BY <1>6, <2>1, CallsSpare
<1>9. CASE Resize
  <2> DEFINE n == IF d.ht[0].used < InitialSize THEN InitialSize ELSE d.ht[0].used
  <2>1. d' = Expand(d, n) /\ UNCHANGED <<hash, walk, iter, seen, again>> /\ stable' = stable /\ Free
    BY <1>9 DEF Resize, walkVars
  <2>2. n \in Nat
    BY <1>2
  <2> HIDE DEF n
  <2>3. QED
    BY <1>6, <2>1, <2>2, CallsSpare
<1>10. ASSUME NEW n \in ExpandSizes, ExpandTo(n) PROVE WalkKept'
  <2>1. /\ d' = Expand(d, n) /\ UNCHANGED <<hash, walk, iter, seen, again>> /\ stable' = stable
        /\ Free /\ n \in Nat
    BY <1>2, <1>10 DEF ExpandTo, walkVars
  <2>2. QED
    BY <1>6, <2>1, CallsSpare
<1>11. ASSUME NEW c \in 1 .. Cardinality(Key), GetSomeKeys(c) PROVE WalkKept'
  <2> DEFINE n == IF c < Size(d) THEN c ELSE Size(d)
  <2>1. /\ d' = SampleSteps(d, n) /\ UNCHANGED <<hash, walk, iter, seen, again>>
        /\ stable' = stable /\ Free
    BY <1>11 DEF GetSomeKeys, walkVars
  <2>2. n \in Nat
    BY <1>2
  <2> HIDE DEF n
  <2>3. QED
    BY <1>6, <2>1, <2>2, CallsSpare
<1>12. ASSUME NEW b \in BOOLEAN, SetCanResize(b) PROVE WalkKept'
  <2>1. d' = d /\ UNCHANGED <<hash, walk, iter, seen, again>> /\ stable' = stable
    BY <1>12 DEF SetCanResize, walkVars
  <2>2. walk = "iterator" => Undisturbed(d, d', iter, {})
    BY <2>1 DEF WalkKept, WalkHolds, Undisturbed
  <2>3. QED
    BY <1>6, <2>1, <2>2
<1>13. CASE Empty
  <2>1. /\ walk # "iterator" /\ stable' = {}
        /\ UNCHANGED <<hash, walk, iter, seen, again>>
    BY <1>13 DEF Empty
  <2>2. QED
    BY <1>1, <2>1, WalkByCall
<1>14. ASSUME NEW b \in BOOLEAN, GetIterator(b) PROVE WalkKept'
  <2>1. /\ walk = "none" /\ walk' = "iterator" /\ iter' = NewIterator(b)
        /\ UNCHANGED <<hash, d, stable, seen, again>>
    BY <1>14 DEF GetIterator
  <2>2. stable = {} /\ seen = {} /\ again = {}
    BY <2>1 DEF WalkKept
  <2>3. Placed(d', iter')
    BY <1>1, <2>1, LeftAtFirst
  <2>4. WalkHolds'
    BY <2>1, <2>2, <2>3, WalkCarried DEF WalkHolds
  <2>5. Iter(iter)' /\ iter' = NewIterator(iter'.safe)
    BY <2>1 DEF Iter, NewIterator
  <2>6. QED
    BY <2>1, <2>2, <2>4, <2>5 DEF WalkKept
<1>15. CASE ReleaseIterator \/ LeaveScan
  <2>1. walk' = "none" /\ stable' = {} /\ seen' = {} /\ again' = {}
    BY <1>15 DEF ReleaseIterator, LeaveScan, EndWalk
  <2>2. QED
    BY <2>1 DEF WalkKept
<1>16. CASE DictScan
  <2>1. walk' \in {"scanned", "scan"}
    BY <1>16 DEF DictScan
  <2>2. QED
    BY <2>1 DEF WalkKept
<1>17. CASE DictNext
  BY <1>17, WalkByNext
<1>18. QED
  BY <1>3, <1>4, <1>5, <1>7, <1>8, <1>9, <1>10, <1>11, <1>12, <1>13, <1>14, <1>15, <1>16, <1>17
     DEF Next

\* THEOREM: a walk with an iterator returns every key that stays, and none of
\* them twice, whatever the user of a safe iterator adds and deletes meanwhile
\* and whenever the table starts to grow or shrink (dictNext, dict.c:585).
THEOREM IteratorIsExact == Spec => []IteratorExact
<1>1. Init => WalkKept
  BY DEF Init, WalkKept
<1>2. DictKept /\ WalkKept /\ [Next]_vars => WalkKept'
  <2>1. DictKept /\ WalkKept /\ Next => WalkKept'
    BY WalkStep
  <2>2. DictKept /\ WalkKept /\ UNCHANGED vars => WalkKept'
    <3> SUFFICES ASSUME DictKept, WalkKept, UNCHANGED vars PROVE WalkKept'
      OBVIOUS
    <3>1. d' = d /\ UNCHANGED <<hash, walk, iter, seen, again>> /\ stable' = stable
      BY DEF vars, walkVars
    <3>2. \E K : walk = "iterator" => Undisturbed(d, d', iter, K) /\ stable' \cap K = {}
      <4>1. walk = "iterator" => Undisturbed(d, d', iter, {}) /\ stable' \cap {} = {}
        BY <3>1 DEF WalkKept, WalkHolds, Undisturbed
      <4>2. QED
        BY <4>1
    <3>3. DictHolds(d')
      BY <3>1 DEF DictKept
    <3>4. QED
      BY <3>1, <3>2, <3>3, WalkByCall
  <2>3. QED
    BY <2>1, <2>2
<1>3. WalkKept => IteratorExact
  BY DEF WalkKept, WalkHolds, IteratorExact, Left
<1>4. QED
  BY <1>1, <1>2, <1>3, KeptAlways, PTL DEF Spec

-----------------------------------------------------------------------------
(* Powers of two.                                                          *)

\* f is what the steps G make of a.
Steps(f, n, S, a, G) ==
  f \in [0 .. n -> S] /\ f = [k \in 0 .. n |-> IF k = 0 THEN a ELSE G[k - 1][f[k - 1]]]

\* What is defined step by step has a value.
LEMMA StepByStep ==
  ASSUME NEW n \in Nat, NEW S, NEW a \in S, NEW G \in [Nat -> [S -> S]]
  PROVE  \E f : Steps(f, n, S, a, G)
<1> DEFINE Upto(j) == \E f \in [0 .. j -> S] :
                        f = [k \in 0 .. j |-> IF k = 0 THEN a ELSE G[k - 1][f[k - 1]]]
           T == {j \in Nat : Upto(j)}
<1>1. 0 \in T
  <2> DEFINE f == [k \in 0 .. 0 |-> a]
  <2>1. f \in [0 .. 0 -> S] /\ f = [k \in 0 .. 0 |-> IF k = 0 THEN a ELSE G[k - 1][f[k - 1]]]
    OBVIOUS
  <2> HIDE DEF f
  <2>2. Upto(0)
    BY <2>1
  <2>3. QED
    BY <2>2
<1>2. ASSUME NEW j \in Nat, j \in T PROVE j + 1 \in T
  <2>1. PICK f \in [0 .. j -> S] :
          f = [k \in 0 .. j |-> IF k = 0 THEN a ELSE G[k - 1][f[k - 1]]]
    BY <1>2
  <2> DEFINE v == G[j][f[j]]
             g == [k \in 0 .. j + 1 |-> IF k = j + 1 THEN v ELSE f[k]]
  <2>2. v \in S
    <3>1. f[j] \in S /\ G[j] \in [S -> S]
      BY <2>1
    <3>2. QED
      BY <3>1
  <2>3. g \in [0 .. j + 1 -> S]
    <3> HIDE DEF v
    <3>1. ASSUME NEW k \in 0 .. j + 1 PROVE g[k] \in S
      <4>1. CASE k = j + 1
        BY <2>2, <4>1
      <4>2. CASE k # j + 1
        <5>1. k \in 0 .. j
          BY <4>2
        <5>2. QED
          BY <4>2, <5>1
      <4>3. QED
        BY <4>1, <4>2
    <3>2. QED
      BY <3>1
  <2>4. ASSUME NEW k \in 0 .. j + 1
        PROVE  g[k] = IF k = 0 THEN a ELSE G[k - 1][g[k - 1]]
    <3>1. CASE k = j + 1
      <4>1. k - 1 = j /\ j # j + 1 /\ k # 0 /\ j \in 0 .. j + 1
        BY <3>1
      <4>2. g[k - 1] = f[j]
        BY <4>1
      <4>3. QED
        BY <3>1, <4>1, <4>2
    <3>2. CASE k # j + 1
      <4>1. k \in 0 .. j /\ (k # 0 => k - 1 \in 0 .. j + 1 /\ k - 1 # j + 1)
        BY <3>2
      <4>2. g[k] = f[k] /\ (k # 0 => g[k - 1] = f[k - 1])
        BY <3>2, <4>1
      <4>3. f[k] = IF k = 0 THEN a ELSE G[k - 1][f[k - 1]]
        BY ONLY <2>1, <4>1
      <4>4. QED
        BY <4>2, <4>3
    <3>3. QED
      BY <3>1, <3>2
  <2>5. g = [k \in 0 .. j + 1 |-> g[k]]
    OBVIOUS
  <2> HIDE DEF g, v
  <2>6. g = [k \in 0 .. j + 1 |-> IF k = 0 THEN a ELSE G[k - 1][g[k - 1]]]
    BY <2>4, <2>5
  <2>7. Upto(j + 1)
    BY ONLY <2>3, <2>6, Zenon
  <2>8. j + 1 \in Nat
    OBVIOUS
  <2> HIDE DEF Upto
  <2>9. QED
    BY ONLY <2>7, <2>8
<1>3. n \in T
  <2> HIDE DEF T
  <2> QED BY <1>1, <1>2, AllNumbers
<1>4. QED
  BY <1>3 DEF Steps

\* The powers of two up to n.
Powers(f, n) == f \in [0 .. n -> Nat] /\ f[0] = 1 /\ \A k \in 1 .. n : f[k] = 2 * f[k - 1]

\* The recursive definition has these values.
LEMMA PowerDoubles ==
  ASSUME NEW n \in Nat
  PROVE  \E f : Powers(f, n) /\ Power(n) = f[n]
<1> DEFINE G == [k \in Nat |-> [x \in Nat |-> 2 * x]]
           W == CHOOSE f : f = [k \in 0 .. n |-> IF k = 0 THEN 1 ELSE 2 * f[k - 1]]
           one == 1
<1>1. Power(n) = W[n]
  BY DEF Power
<1>2. G \in [Nat -> [Nat -> Nat]] /\ one \in Nat
  OBVIOUS
<1>3. PICK f : Steps(f, n, Nat, one, G)
  <2> HIDE DEF G, one
  <2> QED BY <1>2, StepByStep
<1>4. ASSUME NEW k \in 0 .. n
      PROVE  (IF k = 0 THEN one ELSE G[k - 1][f[k - 1]]) = IF k = 0 THEN 1 ELSE 2 * f[k - 1]
  <2>1. CASE k # 0
    <3>1. k - 1 \in 0 .. n /\ k - 1 \in Nat
      BY <2>1
    <3>2. f[k - 1] \in Nat
      BY <1>3, <3>1 DEF Steps
    <3>3. QED
      BY <2>1, <3>1, <3>2
  <2>2. QED
    BY <2>1
<1> HIDE DEF G
<1>5. f = [k \in 0 .. n |-> IF k = 0 THEN 1 ELSE 2 * f[k - 1]]
  BY <1>3, <1>4 DEF Steps
<1>6. W = [k \in 0 .. n |-> IF k = 0 THEN 1 ELSE 2 * W[k - 1]]
  BY <1>5
<1> HIDE DEF W
<1> DEFINE T == {k \in Nat : k <= n => W[k] \in Nat}
<1>7. W[0] = 1 /\ \A k \in 1 .. n : W[k] = 2 * W[k - 1]
  BY <1>6
<1>8. \A k \in Nat : k \in T
  <2>1. 0 \in T
    BY <1>7
  <2>2. \A k \in Nat : k \in T => k + 1 \in T
    <3> SUFFICES ASSUME NEW k \in Nat, k \in T, k + 1 <= n PROVE W[k + 1] \in Nat
      OBVIOUS
    <3>1. k + 1 \in 1 .. n /\ (k + 1) - 1 = k /\ W[k] \in Nat
      OBVIOUS
    <3>2. W[k + 1] = 2 * W[k]
      BY <1>7, <3>1
    <3>3. QED
      BY <3>1, <3>2
  <2> HIDE DEF T
  <2>3. QED
    BY <2>1, <2>2, AllNumbers
<1>9. \A k \in 0 .. n : W[k] \in Nat
  BY <1>8
<1>10. W \in [0 .. n -> Nat]
  <2>1. W = [k \in 0 .. n |-> W[k]]
    BY <1>6
  <2>2. QED
    BY <1>9, <2>1
<1>11. QED
  BY <1>1, <1>7, <1>10 DEF Powers

\* Doubling has one outcome.
LEMMA PowersSame ==
  ASSUME NEW n \in Nat, NEW m \in Nat, NEW f, NEW g, Powers(f, n), Powers(g, m), n <= m
  PROVE  \A k \in 0 .. n : f[k] = g[k]
<1> DEFINE T == {k \in Nat : f[k] = g[k]}
<1>1. 0 \in T
  BY DEF Powers
<1>2. ASSUME NEW k \in Nat, k + 1 <= n /\ k \in T PROVE k + 1 \in T
  <2>1. k + 1 \in 1 .. n /\ k + 1 \in 1 .. m /\ (k + 1) - 1 = k
    BY <1>2
  <2>2. f[k + 1] = 2 * f[k] /\ g[k + 1] = 2 * g[k]
    BY <2>1 DEF Powers
  <2>3. QED
    BY <1>2, <2>2
<1>3. \A k \in 0 .. n : k \in T
  <2> HIDE DEF T
  <2> QED BY <1>1, <1>2, UpTo
<1>4. QED
  BY <1>3

\* A power of two is the last one doubled.
LEMMA PowerSteps ==
  /\ Power(0) = 1
  /\ \A n \in Nat : Power(n) \in Nat /\ Power(n) > 0 /\ Power(n + 1) = 2 * Power(n)
<1>1. Power(0) = 1
  <2>1. PICK f : Powers(f, 0) /\ Power(0) = f[0]
    BY PowerDoubles
  <2>2. QED
    BY <2>1 DEF Powers
<1>2. ASSUME NEW n \in Nat PROVE Power(n) \in Nat /\ Power(n + 1) = 2 * Power(n)
  <2> DEFINE m == n + 1
  <2>1. m \in Nat /\ n <= m /\ m \in 1 .. m /\ m - 1 = n /\ n \in 0 .. n
    OBVIOUS
  <2> HIDE DEF m
  <2>2. PICK f : Powers(f, n) /\ Power(n) = f[n]
    BY PowerDoubles
  <2>3. PICK g : Powers(g, m) /\ Power(m) = g[m]
    BY <2>1, PowerDoubles
  <2>4. f[n] = g[n]
    BY <2>1, <2>2, <2>3, PowersSame
  <2>5. g[m] = 2 * g[n] /\ f[n] \in Nat
    BY <2>1, <2>2, <2>3 DEF Powers
  <2>6. QED
    BY <2>2, <2>3, <2>4, <2>5 DEF m
<1> DEFINE T == {n \in Nat : Power(n) > 0}
<1>3. \A n \in Nat : n \in T
  <2>1. 0 \in T
    BY <1>1
  <2>2. \A n \in Nat : n \in T => n + 1 \in T
    BY <1>2
  <2> HIDE DEF T
  <2>3. QED
    BY <2>1, <2>2, AllNumbers
<1>4. QED
  BY <1>1, <1>2, <1>3

\* The powers grow, and multiply.
LEMMA PowerTimes ==
  ASSUME NEW a \in Nat, NEW b \in Nat
  PROVE  Power(a + b) = Power(a) * Power(b)
<1> DEFINE T == {n \in Nat : Power(a + n) = Power(a) * Power(n)}
<1>1. 0 \in T
  BY PowerSteps
<1>2. ASSUME NEW n \in Nat, n \in T PROVE n + 1 \in T
  <2> DEFINE x == Power(a)
             y == Power(n)
             m == a + n
  <2>1. x \in Nat /\ y \in Nat /\ Power(n + 1) = 2 * y
    BY PowerSteps
  <2>2. m \in Nat /\ a + (n + 1) = m + 1 /\ Power(m) = x * y
    BY <1>2
  <2> HIDE DEF x, y, m
  <2>3. Power(m + 1) = 2 * Power(m)
    BY <2>2, PowerSteps
  <2>4. Power(m + 1) = x * (2 * y)
    BY <2>1, <2>2, <2>3
  <2>5. QED
    BY <2>1, <2>2, <2>4 DEF x
<1>3. b \in T
  <2> HIDE DEF T
  <2> QED BY <1>1, <1>2, AllNumbers
<1>4. QED
  BY <1>3

\* They grow.
LEMMA PowerGrows ==
  ASSUME NEW a \in Nat, NEW b \in Nat
  PROVE  a < b <=> Power(a) < Power(b)
<1>1. ASSUME NEW p \in Nat, NEW q \in Nat, p < q PROVE Power(p) < Power(q)
  <2> DEFINE T == {n \in Nat : Power(p) < Power((p + 1) + n)}
  <2>1. 0 \in T
    BY PowerSteps
  <2>2. ASSUME NEW n \in Nat, n \in T PROVE n + 1 \in T
    <3> DEFINE m == (p + 1) + n
    <3>1. m \in Nat /\ (p + 1) + (n + 1) = m + 1 /\ Power(p) < Power(m)
      BY <2>2
    <3> HIDE DEF m
    <3>2. Power(m + 1) = 2 * Power(m) /\ Power(m) \in Nat /\ Power(p) \in Nat
      BY <3>1, PowerSteps
    <3>3. QED
      BY <3>1, <3>2
  <2>3. \A n \in Nat : n \in T
    <3> HIDE DEF T
    <3> QED BY <2>1, <2>2, AllNumbers
  <2> DEFINE e == q - (p + 1)
  <2>4. e \in Nat /\ (p + 1) + e = q
    BY <1>1
  <2> HIDE DEF e
  <2>5. QED
    BY <2>3, <2>4
<1>2. Power(a) \in Nat /\ Power(b) \in Nat
  BY PowerSteps
<1>3. a < b \/ a = b \/ b < a
  OBVIOUS
<1>4. QED
  BY <1>1, <1>2, <1>3

-----------------------------------------------------------------------------
(* Numbers in the opposite order of their bits.                            *)

\* Division with a remainder.
LEMMA Divided ==
  ASSUME NEW a \in Nat, NEW p \in Nat, p > 0
  PROVE  a \div p \in Nat /\ a % p \in 0 .. p - 1 /\ a % p = a - p * (a \div p)
<1>1. a \div p \in Nat
  OBVIOUS
<1>2. a % p \in 0 .. p - 1
  OBVIOUS
<1>3. a % p = a - p * (a \div p)
  OBVIOUS
<1>4. QED
  BY ONLY <1>1, <1>2, <1>3, Zenon

\* A quotient and a remainder put together.
LEMMA Divides ==
  ASSUME NEW q \in Nat, NEW p \in Nat, p > 0, NEW r \in 0 .. p - 1
  PROVE  (p * q + r) \div p = q /\ (p * q + r) % p = r
  OBVIOUS

\* There is one quotient.
LEMMA DividesOnce ==
  ASSUME NEW a \in Nat, NEW q \in Nat, NEW p \in Nat, p > 0, p * q <= a, a < p * q + p
  PROVE  a \div p = q /\ a % p = a - p * q
<1> DEFINE r == a - p * q
           m == p * q
<1>1. m \in Nat /\ m <= a /\ a < m + p
  OBVIOUS
<1>2. r = a - m
  OBVIOUS
<1> HIDE DEF m, r
<1>3. r \in 0 .. p - 1 /\ a = m + r
  BY <1>1, <1>2
<1>4. (m + r) \div p = q /\ (m + r) % p = r
  BY <1>3, Divides DEF m
<1>5. QED
  BY <1>3, <1>4 DEF r

Bit(v, i) == (v \div Power(i)) % 2

\* A smaller number is its own remainder.
LEMMA SmallRemainder ==
  ASSUME NEW a \in Nat, NEW p \in Nat, a < p
  PROVE  a % p = a
<1> DEFINE q == 0
<1>1. q \in Nat /\ p > 0 /\ p * q = 0
  OBVIOUS
<1> HIDE DEF q
<1>2. a % p = a - p * q
  BY <1>1, DividesOnce
<1>3. QED
  BY <1>1, <1>2

\* A bit is 0 or 1.
LEMMA BitValue ==
  ASSUME NEW v \in Nat, NEW i \in Nat
  PROVE  Bit(v, i) \in 0 .. 1
<1>1. Power(i) \in Nat /\ Power(i) > 0
  BY PowerSteps
<1>2. v \div Power(i) \in Nat
  BY <1>1, Divided
<1>3. QED
  BY <1>2 DEF Bit

\* A number is made of its bits.
LEMMA BitByBit ==
  ASSUME NEW v \in Nat, NEW i \in Nat
  PROVE  /\ v % Power(i) \in 0 .. Power(i) - 1
         /\ v % Power(i + 1) = (v % Power(i)) + Power(i) * Bit(v, i)
         /\ v % Power(0) = 0
<1> DEFINE p == Power(i)
           q == v \div p
           r == v % p
           h == q \div 2
           b == q % 2
           x == p * h
           two == 2
<1>1. p \in Nat /\ p > 0 /\ Power(i + 1) = 2 * p
  BY PowerSteps
<1>2. q \in Nat /\ r \in 0 .. p - 1 /\ v = p * q + r
  <2> HIDE DEF p
  <2>1. q \in Nat /\ r \in 0 .. p - 1 /\ r = v - p * q
    BY <1>1, Divided
  <2> HIDE DEF q, r
  <2>2. p * q \in Nat
    BY <1>1, <2>1
  <2>3. QED
    BY <2>1, <2>2
<1> HIDE DEF p, q, r
<1>3. h \in Nat /\ b \in 0 .. two - 1 /\ q = two * h + b
  <2> HIDE DEF two
  <2>1. two \in Nat /\ two > 0 /\ q \in Nat
    BY <1>2 DEF two
  <2>2. h = q \div two /\ b = q % two
    BY DEF two
  <2> HIDE DEF h, b
  <2>3. h \in Nat /\ b \in 0 .. two - 1 /\ b = q - two * h
    BY <2>1, <2>2, Divided
  <2>4. QED
    BY <2>1, <2>3 DEF two
<1>4. b = Bit(v, i) /\ (b = 0 \/ b = 1)
  BY <1>3 DEF Bit, p, q
<1> HIDE DEF h, b
<1>5. p * q = 2 * x + p * b /\ x \in Nat /\ (2 * p) * h = 2 * x
  <2>1. p * q = p * (2 * h + b)
    BY <1>3
  <2>2. QED
    BY <1>1, <1>3, <2>1
<1>6. p * b = 0 \/ p * b = p
  BY <1>1, <1>4
<1> DEFINE y == p * b
<1>7. y \in Nat /\ y <= p
  BY <1>1, <1>6
<1>8. v = 2 * x + (y + r)
  <2> HIDE DEF x
  <2>1. v = (2 * x + y) + r
    BY <1>2, <1>5
  <2> HIDE DEF y
  <2>2. QED
    BY <1>2, <1>5, <1>7, <2>1
<1>9. v % (2 * p) = y + r
  <2> DEFINE w == 2 * p
             s == y + r
  <2>1. w \in Nat /\ w > 0 /\ s \in 0 .. w - 1
    <3> HIDE DEF y
    <3> QED BY <1>1, <1>2, <1>7
  <2>2. v = w * h + s
    BY <1>5, <1>8
  <2> HIDE DEF w, s
  <2>3. v % w = s
    BY <1>3, <2>1, <2>2, Divides
  <2>4. QED
    BY <2>3 DEF w, s
<1>10. v % Power(0) = 0
  BY PowerSteps
<1>11. v % Power(i) = r
  BY DEF r, p
<1>12. y = Power(i) * Bit(v, i) /\ y + r = r + y
  BY <1>2, <1>4, <1>7 DEF p
<1> HIDE DEF y
<1>13. QED
  BY <1>1, <1>2, <1>9, <1>10, <1>11, <1>12 DEF p

\* The bits are taken one by one, the lowest first,
LEMMA ReversedStarts ==
  ASSUME NEW v \in Nat, NEW n \in Nat
  PROVE  \E f : /\ f \in [0 .. n -> Nat] /\ Reversed(v, n) = f[n]
                /\ f[0] = 0 /\ \A k \in 1 .. n : f[k] = 2 * f[k - 1] + Bit(v, k - 1)
<1> DEFINE G == [k \in Nat |-> [x \in Nat |-> 2 * x + Bit(v, k)]]
           R(f) == [k \in 0 .. n |->
                      IF k = 0 THEN 0 ELSE 2 * f[k - 1] + ((v \div Power(k - 1)) % 2)]
           W == CHOOSE f : f = R(f)
           zero == 0
<1>1. Reversed(v, n) = W[n]
  BY DEF Reversed
<1>2. G \in [Nat -> [Nat -> Nat]] /\ zero \in Nat
  BY BitValue
<1>3. PICK f : Steps(f, n, Nat, zero, G)
  <2> HIDE DEF G, zero
  <2> QED BY <1>2, StepByStep
<1>4. f \in [0 .. n -> Nat] /\ f[0] = 0 /\ \A k \in 1 .. n : f[k] = 2 * f[k - 1] + Bit(v, k - 1)
  <2>1. f \in [0 .. n -> Nat] /\ f[0] = 0
    <3>1. 0 \in 0 .. n
      OBVIOUS
    <3>2. f \in [0 .. n -> Nat] /\ f[0] = zero
      BY ONLY <1>3, <3>1 DEF Steps
    <3>3. QED
      BY <3>2
  <2>2. ASSUME NEW k \in 1 .. n PROVE f[k] = 2 * f[k - 1] + Bit(v, k - 1)
    <3>1. k - 1 \in 0 .. n /\ k - 1 \in Nat /\ k \in 0 .. n /\ k # 0
      OBVIOUS
    <3>2. f[k - 1] \in Nat
      BY <2>1, <3>1
    <3>3. f[k] = G[k - 1][f[k - 1]]
      BY <1>3, <3>1 DEF Steps
    <3>4. QED
      BY <3>1, <3>2, <3>3
  <2>3. QED
    BY <2>1, <2>2
<1> HIDE DEF G
<1>5. f = R(f)
  <2>1. f = [k \in 0 .. n |-> f[k]]
    BY <1>4
  <2>2. ASSUME NEW k \in 0 .. n
        PROVE  f[k] = IF k = 0 THEN 0 ELSE 2 * f[k - 1] + ((v \div Power(k - 1)) % 2)
    <3>1. CASE k = 0
      BY <1>4, <3>1
    <3>2. CASE k # 0
      <4>1. k \in 1 .. n
        BY <3>2
      <4>2. QED
        BY <1>4, <3>2, <4>1 DEF Bit
    <3>3. QED
      BY <3>1, <3>2
  <2>3. QED
    BY <2>1, <2>2
<1>6. W = R(W)
  <2>1. \E g : g = R(g)
    BY <1>5
  <2> HIDE DEF R
  <2>2. QED
    BY <2>1
<1>7. W[0] = 0 /\ \A k \in 1 .. n : W[k] = 2 * W[k - 1] + Bit(v, k - 1)
  <2> HIDE DEF W
  <2>1. W = [k \in 0 .. n |-> IF k = 0 THEN 0 ELSE 2 * W[k - 1] + ((v \div Power(k - 1)) % 2)]
    BY <1>6
  <2>2. W[0] = 0
    BY <2>1
  <2>3. ASSUME NEW k \in 1 .. n PROVE W[k] = 2 * W[k - 1] + Bit(v, k - 1)
    <3>1. k \in 0 .. n /\ k # 0
      OBVIOUS
    <3>2. W[k] = 2 * W[k - 1] + ((v \div Power(k - 1)) % 2)
      BY <2>1, <3>1
    <3>3. QED
      BY <3>2 DEF Bit
  <2>4. QED
    BY <2>2, <2>3
<1> HIDE DEF W, R
<1> DEFINE T == {k \in Nat : k <= n => W[k] = f[k]}
<1>8. \A k \in Nat : k \in T
  <2>1. 0 \in T
    BY <1>4, <1>7
  <2>2. ASSUME NEW k \in Nat, k \in T PROVE k + 1 \in T
    <3> SUFFICES ASSUME k + 1 <= n PROVE W[k + 1] = f[k + 1]
      OBVIOUS
    <3>1. k + 1 \in 1 .. n /\ (k + 1) - 1 = k /\ W[k] = f[k]
      BY <2>2
    <3>2. W[k + 1] = 2 * W[k] + Bit(v, k) /\ f[k + 1] = 2 * f[k] + Bit(v, k)
      BY <1>4, <1>7, <3>1
    <3>3. QED
      BY <3>1, <3>2
  <2> HIDE DEF T
  <2>3. QED
    BY <2>1, <2>2, AllNumbers
<1>9. W[n] = f[n]
  BY <1>8
<1>10. QED
  BY <1>1, <1>4, <1>9

\* and each goes behind those before it.
LEMMA ReversedSteps ==
  ASSUME NEW v \in Nat
  PROVE  /\ Reversed(v, 0) = 0
         /\ \A n \in Nat : /\ Reversed(v, n) \in Nat
                           /\ Reversed(v, n + 1) = 2 * Reversed(v, n) + Bit(v, n)
<1>1. Reversed(v, 0) = 0
  <2> DEFINE zero == 0
  <2>1. zero \in Nat
    OBVIOUS
  <2> HIDE DEF zero
  <2>2. PICK f : /\ f \in [0 .. zero -> Nat] /\ Reversed(v, zero) = f[zero]
                 /\ f[0] = 0 /\ \A k \in 1 .. zero : f[k] = 2 * f[k - 1] + Bit(v, k - 1)
    BY <2>1, ReversedStarts
  <2>3. QED
    BY <2>2 DEF zero
<1>2. ASSUME NEW n \in Nat
      PROVE  Reversed(v, n) \in Nat /\ Reversed(v, n + 1) = 2 * Reversed(v, n) + Bit(v, n)
  <2> DEFINE m == n + 1
  <2>1. m \in Nat /\ n <= m /\ m \in 1 .. m /\ m - 1 = n /\ n \in 0 .. n
    OBVIOUS
  <2> HIDE DEF m
  <2>2. PICK f : /\ f \in [0 .. n -> Nat] /\ Reversed(v, n) = f[n]
                 /\ f[0] = 0 /\ \A k \in 1 .. n : f[k] = 2 * f[k - 1] + Bit(v, k - 1)
    BY ReversedStarts
  <2>3. PICK g : /\ g \in [0 .. m -> Nat] /\ Reversed(v, m) = g[m]
                 /\ g[0] = 0 /\ \A k \in 1 .. m : g[k] = 2 * g[k - 1] + Bit(v, k - 1)
    BY <2>1, ReversedStarts
  <2> DEFINE T == {k \in Nat : k <= n => g[k] = f[k]}
  <2>4. \A k \in Nat : k \in T
    <3>1. 0 \in T
      BY <2>2, <2>3
    <3>2. ASSUME NEW k \in Nat, k \in T PROVE k + 1 \in T
      <4> SUFFICES ASSUME k + 1 <= n PROVE g[k + 1] = f[k + 1]
        OBVIOUS
      <4>1. k + 1 \in 1 .. n /\ k + 1 \in 1 .. m /\ (k + 1) - 1 = k /\ g[k] = f[k]
        BY <2>1, <3>2
      <4>2. g[k + 1] = 2 * g[k] + Bit(v, k) /\ f[k + 1] = 2 * f[k] + Bit(v, k)
        BY <2>2, <2>3, <4>1
      <4>3. QED
        BY <4>1, <4>2
    <3> HIDE DEF T
    <3>3. QED
      BY <3>1, <3>2, AllNumbers
  <2>5. g[n] = f[n]
    BY <2>4
  <2>6. g[m] = 2 * g[n] + Bit(v, n) /\ f[n] \in Nat
    BY <2>1, <2>2, <2>3
  <2>7. QED
    BY <2>2, <2>3, <2>5, <2>6 DEF m
<1>3. QED
  BY <1>1, <1>2

\* A number of n bits has n bits in the opposite order, and is determined by them.
LEMMA ReversedBound ==
  ASSUME NEW v \in Nat, NEW n \in Nat
  PROVE  Reversed(v, n) \in 0 .. Power(n) - 1
<1> DEFINE T == {i \in Nat : Reversed(v, i) < Power(i)}
<1>1. 0 \in T
  BY ReversedSteps, PowerSteps
<1>2. ASSUME NEW i \in Nat, i \in T PROVE i + 1 \in T
  <2> DEFINE r == Reversed(v, i)
             p == Power(i)
             b == Bit(v, i)
  <2>1. r \in Nat /\ p \in Nat /\ r < p /\ b \in 0 .. 1
    BY <1>2, ReversedSteps, PowerSteps, BitValue
  <2>2. Reversed(v, i + 1) = 2 * r + b /\ Power(i + 1) = 2 * p
    BY ReversedSteps, PowerSteps
  <2> HIDE DEF r, p, b
  <2>3. QED
    BY <2>1, <2>2
<1>3. n \in T
  <2> HIDE DEF T
  <2> QED BY <1>1, <1>2, AllNumbers
<1>4. Reversed(v, n) \in Nat /\ Power(n) \in Nat
  BY ReversedSteps, PowerSteps
<1>5. QED
  BY <1>3, <1>4

\* Different bits give different numbers.
LEMMA ReversedOnce ==
  ASSUME NEW v \in Nat, NEW w \in Nat, NEW n \in Nat
  PROVE  Reversed(v, n) = Reversed(w, n) <=> v % Power(n) = w % Power(n)
<1> DEFINE T == {i \in Nat : Reversed(v, i) = Reversed(w, i) <=> v % Power(i) = w % Power(i)}
<1>1. 0 \in T
  BY ReversedSteps, BitByBit
<1>2. ASSUME NEW i \in Nat, i \in T PROVE i + 1 \in T
  <2> DEFINE r == Reversed(v, i)
             s == Reversed(w, i)
             p == Power(i)
             b == Bit(v, i)
             c == Bit(w, i)
             x == v % p
             y == w % p
  <2>1. r \in Nat /\ s \in Nat /\ p \in Nat /\ p > 0 /\ b \in 0 .. 1 /\ c \in 0 .. 1
    BY ReversedSteps, PowerSteps, BitValue
  <2>2. /\ Reversed(v, i + 1) = 2 * r + b /\ Reversed(w, i + 1) = 2 * s + c
        /\ v % Power(i + 1) = x + p * b /\ w % Power(i + 1) = y + p * c
        /\ x \in 0 .. p - 1 /\ y \in 0 .. p - 1
    BY ReversedSteps, BitByBit
  <2>3. r = s <=> x = y
    BY <1>2
  <2> HIDE DEF r, s, p, b, c, x, y
  <2>4. 2 * r + b = 2 * s + c <=> r = s /\ b = c
    BY <2>1
  <2>5. (p * b = 0 \/ p * b = p) /\ (p * c = 0 \/ p * c = p) /\ (b = c <=> p * b = p * c)
    BY <2>1
  <2>6. x + p * b = y + p * c <=> x = y /\ b = c
    BY <2>1, <2>2, <2>5
  <2>7. QED
    BY <2>2, <2>3, <2>4, <2>6
<1>3. n \in T
  <2> HIDE DEF T
  <2> QED BY <1>1, <1>2, AllNumbers
<1>4. QED
  BY <1>3

\* The bits that come first in the opposite order are those of a quotient.
LEMMA ReversedBlock ==
  ASSUME NEW v \in Nat, NEW m \in Nat, NEW j \in Nat
  PROVE  /\ Power(j) * Reversed(v, m) <= Reversed(v, m + j)
         /\ Reversed(v, m + j) < Power(j) * Reversed(v, m) + Power(j)
         /\ Reversed(v, m + j) \div Power(j) = Reversed(v, m)
<1> DEFINE a == Reversed(v, m)
           T == {i \in Nat : /\ Power(i) * a <= Reversed(v, m + i)
                             /\ Reversed(v, m + i) < Power(i) * a + Power(i)}
<1>1. a \in Nat
  BY ReversedSteps
<1>2. 0 \in T
  BY <1>1, PowerSteps
<1>3. ASSUME NEW i \in Nat, i \in T PROVE i + 1 \in T
  <2> DEFINE n == m + i
             p == Power(i)
             r == Reversed(v, n)
             b == Bit(v, n)
             x == p * a
  <2>1. n \in Nat /\ m + (i + 1) = n + 1
    OBVIOUS
  <2> HIDE DEF n
  <2>2. p \in Nat /\ Power(i + 1) = 2 * p /\ r \in Nat /\ b \in 0 .. 1 /\ Reversed(v, n + 1) = 2 * r + b
    BY <2>1, PowerSteps, ReversedSteps, BitValue
  <2>3. x <= r /\ r < x + p
    BY <1>3 DEF n
  <2> HIDE DEF p, r, b, a
  <2>4. x \in Nat /\ (2 * p) * a = 2 * x
    BY <1>1, <2>2
  <2> HIDE DEF x
  <2>5. 2 * x <= 2 * r + b /\ 2 * r + b < 2 * x + 2 * p
    BY <2>2, <2>3, <2>4
  <2>6. /\ Power(i + 1) * a <= Reversed(v, m + (i + 1))
        /\ Reversed(v, m + (i + 1)) < Power(i + 1) * a + Power(i + 1)
    BY <2>1, <2>2, <2>4, <2>5
  <2>7. QED
    BY <2>6
<1> HIDE DEF a
<1>4. Power(j) * a <= Reversed(v, m + j) /\ Reversed(v, m + j) < Power(j) * a + Power(j)
  <2>1. j \in T
    <3> HIDE DEF T
    <3> QED BY <1>2, <1>3, AllNumbers
  <2>2. QED
    BY <2>1
<1>5. Reversed(v, m + j) \div Power(j) = a
  <2> DEFINE r == Reversed(v, m + j)
             p == Power(j)
  <2>1. r \in Nat /\ p \in Nat /\ p > 0
    <3> DEFINE n == m + j
    <3>1. n \in Nat
      OBVIOUS
    <3> HIDE DEF n
    <3>2. Reversed(v, n) \in Nat
      BY <3>1, ReversedSteps
    <3>3. QED
      BY <3>2, PowerSteps DEF n
  <2>2. p * a <= r /\ r < p * a + p
    BY <1>4
  <2> HIDE DEF r, p
  <2>3. r \div p = a
    BY <1>1, <2>1, <2>2, DividesOnce
  <2>4. QED
    BY <2>3 DEF r, p
<1>6. QED
  BY <1>4, <1>5 DEF a

\* A bit of the reversed number.
LEMMA ReversedBit ==
  ASSUME NEW v \in Nat, NEW m \in Nat, NEW j \in Nat
  PROVE  Bit(Reversed(v, (m + 1) + j), j) = Bit(v, m)
<1> DEFINE n == m + 1
           r == Reversed(v, m)
           b == Bit(v, m)
           q == Reversed(v, n + j) \div Power(j)
<1>1. n \in Nat /\ r \in Nat /\ b \in 0 .. 1 /\ Reversed(v, n) = 2 * r + b
  BY ReversedSteps, BitValue
<1> HIDE DEF n
<1>2. q = Reversed(v, n)
  BY <1>1, ReversedBlock
<1>3. Bit(Reversed(v, n + j), j) = q % 2
  BY DEF Bit
<1> HIDE DEF r, b, q
<1>4. q % 2 = b
  BY <1>1, <1>2
<1>5. QED
  BY <1>3, <1>4 DEF n, b

\* Numbers with the same bits are the same.
LEMMA SameBits ==
  ASSUME NEW v \in Nat, NEW w \in Nat, NEW n \in Nat, \A i \in 0 .. n - 1 : Bit(v, i) = Bit(w, i)
  PROVE  v % Power(n) = w % Power(n)
<1> DEFINE T == {i \in Nat : i <= n => v % Power(i) = w % Power(i)}
<1>1. 0 \in T
  BY BitByBit
<1>2. ASSUME NEW i \in Nat, i \in T PROVE i + 1 \in T
  <2> SUFFICES ASSUME i + 1 <= n PROVE v % Power(i + 1) = w % Power(i + 1)
    OBVIOUS
  <2>1. v % Power(i) = w % Power(i) /\ Bit(v, i) = Bit(w, i)
    BY <1>2
  <2>2. /\ v % Power(i + 1) = (v % Power(i)) + Power(i) * Bit(v, i)
        /\ w % Power(i + 1) = (w % Power(i)) + Power(i) * Bit(w, i)
    BY BitByBit
  <2>3. QED
    BY <2>1, <2>2
<1>3. n \in T
  <2> HIDE DEF T
  <2> QED BY <1>1, <1>2, AllNumbers
<1>4. QED
  BY <1>3

\* The opposite of the opposite order.
LEMMA TwiceReversed ==
  ASSUME NEW n \in Nat, NEW v \in 0 .. Power(n) - 1
  PROVE  Reversed(Reversed(v, n), n) = v
<1> DEFINE w == Reversed(v, n)
           u == Reversed(w, n)
           p == Power(n)
<1>1. p \in Nat /\ p > 0 /\ v \in Nat /\ v < p
  BY PowerSteps
<1>2. w \in Nat /\ u \in Nat /\ u < p
  <2>1. w \in Nat
    BY <1>1, ReversedSteps
  <2>2. u \in 0 .. Power(n) - 1
    <3> HIDE DEF w
    <3> QED BY <2>1, ReversedBound
  <2> HIDE DEF w, u
  <2>3. QED
    BY <1>1, <2>1, <2>2
<1>3. ASSUME NEW i \in 0 .. n - 1 PROVE Bit(u, i) = Bit(v, i)
  <2> DEFINE k == n - (i + 1)
  <2>1. i \in Nat /\ k \in Nat /\ (k + 1) + i = n /\ (i + 1) + k = n
    OBVIOUS
  <2> HIDE DEF k
  <2>2. Bit(Reversed(v, (i + 1) + k), k) = Bit(v, i)
    BY <1>1, <2>1, ReversedBit
  <2>3. Bit(w, k) = Bit(v, i)
    BY <2>1, <2>2
  <2> HIDE DEF w
  <2>4. Bit(Reversed(w, (k + 1) + i), i) = Bit(w, k)
    BY <1>2, <2>1, ReversedBit
  <2>5. Bit(u, i) = Bit(w, k)
    BY <2>1, <2>4
  <2>6. QED
    BY <2>3, <2>5
<1> HIDE DEF u
<1>4. u % Power(n) = v % Power(n)
  BY <1>1, <1>2, <1>3, SameBits
<1> HIDE DEF p
<1>5. u % p = u /\ v % p = v
  <2>1. ASSUME NEW a \in Nat, a < p PROVE a % p = a
    BY <1>1, <2>1
  <2>2. QED
    BY <1>1, <1>2, <2>1
<1>6. u = v
  BY <1>4, <1>5 DEF p
<1>7. QED
  BY <1>6 DEF u, w

-----------------------------------------------------------------------------
(* The next cursor.                                                        *)

\* One less than an even number is odd.
LEMMA OddBefore ==
  ASSUME NEW a \in Nat, a > 0
  PROVE  (2 * a - 1) % 2 = 1
<1> DEFINE h == a - 1
<1>1. h \in Nat /\ 2 * a - 1 = 2 * h + 1
  OBVIOUS
<1> HIDE DEF h
<1>2. (2 * h + 1) % 2 = 1
  BY <1>1
<1>3. QED
  BY <1>1, <1>2

\* A cursor whose bits above the mask are set.
LEMMA UnmaskedBits ==
  ASSUME NEW v \in Nat, NEW m \in Nat, NEW j \in Nat
  PROVE  LET w == (Power(m + j) - Power(m)) + (v % Power(m)) IN
         /\ w \in 0 .. Power(m + j) - 1
         /\ Reversed(w, m + j) + 1 = Power(j) * (Reversed(v, m) + 1)
<1> DEFINE n == m + j
           N == Power(n)
           M == Power(m)
           J == Power(j)
           low == v % M
           w == (N - M) + low
           r == Reversed(v, m)
<1>1. /\ n \in Nat /\ N \in Nat /\ M \in Nat /\ M > 0 /\ J \in Nat /\ J > 0 /\ N = M * J
      /\ low \in 0 .. M - 1 /\ r \in Nat
  <2>1. n \in Nat
    OBVIOUS
  <2>2. N = M * J
    BY PowerTimes
  <2> HIDE DEF n
  <2>3. N \in Nat /\ M \in Nat /\ M > 0 /\ J \in Nat /\ J > 0
    BY <2>1, PowerSteps
  <2>4. low \in 0 .. M - 1
    <3> HIDE DEF M
    <3> QED BY <2>3, Divided
  <2>5. r \in Nat
    BY ReversedSteps
  <2>6. QED
    BY <2>1, <2>2, <2>3, <2>4, <2>5
<1>2. M <= N
  <2> HIDE DEF M, J, N
  <2>1. M * (J - 1) \in Nat /\ M * J = M * (J - 1) + M
    BY <1>1
  <2>2. QED
    BY <1>1, <2>1
<1>3. w \in 0 .. N - 1
  <2> HIDE DEF M, N, low
  <2> QED BY <1>1, <1>2
<1> DEFINE T == {i \in Nat : i <= j => Reversed(w, m + i) + 1 = Power(i) * (r + 1)}
<1>4. 0 \in T
  <2>1. w % M = low
    <3> DEFINE q == J - 1
    <3> HIDE DEF M, N, J, low
    <3>1. q \in Nat /\ M * q = N - M
      BY <1>1
    <3> HIDE DEF q
    <3>2. w = M * q + low
      BY <1>1, <3>1
    <3> HIDE DEF w
    <3>3. QED
      BY <1>1, <3>1, <3>2, Divides
  <2>2. w \in Nat
    <3> HIDE DEF w, N
    <3> QED BY <1>1, <1>3
  <2>3. low % M = low
    <3> HIDE DEF low, M
    <3> QED BY <1>1
  <2> HIDE DEF w
  <2>4. Reversed(w, m) = r
    BY <2>1, <2>2, ReversedOnce
  <2>5. m + 0 = m /\ Power(0) = 1 /\ 1 * (r + 1) = r + 1
    BY <1>1, PowerSteps
  <2> HIDE DEF r
  <2>6. QED
    BY <2>4, <2>5
<1>5. ASSUME NEW i \in Nat, i \in T PROVE i + 1 \in T
  <2> SUFFICES ASSUME i + 1 <= j PROVE Reversed(w, m + (i + 1)) + 1 = Power(i + 1) * (r + 1)
    OBVIOUS
  <2> DEFINE k == m + i
             e == j - (i + 1)
             P == Power(k)
             Q == Power(e)
             q == 2 * Q - 1
             s == (P - M) + low
             I == Power(i)
  <2>1. k \in Nat /\ e \in Nat /\ k + (e + 1) = n /\ m + (i + 1) = k + 1
    OBVIOUS
  <2>2. Reversed(w, k) + 1 = I * (r + 1)
    BY <1>5
  <2> HIDE DEF k, e, n
  <2>3. P \in Nat /\ P > 0 /\ Q \in Nat /\ Q > 0 /\ Power(e + 1) = 2 * Q
    BY <2>1, PowerSteps
  <2>4. N = P * (2 * Q)
    <3>1. N = P * Power(e + 1)
      BY <2>1, PowerTimes
    <3>2. QED
      BY <2>3, <3>1
  <2>5. P = M * I /\ I \in Nat /\ I > 0 /\ Power(i + 1) = 2 * I
    BY PowerTimes, PowerSteps DEF k
  <2>6. s \in 0 .. P - 1
    <3> HIDE DEF M, P, I, low
    <3>1. M * (I - 1) \in Nat /\ M * I = M * (I - 1) + M
      BY <1>1, <2>5
    <3>2. QED
      BY <1>1, <2>3, <2>5, <3>1
  <2>7. w = P * q + s
    <3> HIDE DEF M, P, Q, N, low
    <3>1. P * q = P * (2 * Q) - P /\ P * (2 * Q) \in Nat
      BY <2>3
    <3> HIDE DEF q
    <3>2. P * q = N - P
      BY <2>4, <3>1
    <3>3. QED
      BY <1>1, <2>3, <3>2
  <2>8. q \in Nat /\ q % 2 = 1
    <3> HIDE DEF Q
    <3> QED BY <2>3, OddBefore
  <2>9. w \div P = q
    <3> HIDE DEF w, P, q, s
    <3> QED BY <2>3, <2>6, <2>7, <2>8, Divides
  <2>10. Bit(w, k) = 1
    BY <2>8, <2>9 DEF Bit
  <2>11. w \in Nat
    <3> HIDE DEF w, N
    <3> QED BY <1>1, <1>3
  <2> HIDE DEF w, I, r
  <2>12. Reversed(w, k) \in Nat /\ Reversed(w, k + 1) = 2 * Reversed(w, k) + 1
    BY <2>1, <2>10, <2>11, ReversedSteps
  <2>13. Reversed(w, k + 1) + 1 = 2 * (I * (r + 1))
    BY <2>2, <2>12
  <2>14. 2 * (I * (r + 1)) = (2 * I) * (r + 1)
    BY <1>1, <2>5
  <2>15. QED
    BY <2>1, <2>5, <2>13, <2>14
<1>6. j \in T
  <2> HIDE DEF T
  <2> QED BY <1>4, <1>5, AllNumbers
<1>7. Reversed(w, m + j) + 1 = J * (r + 1)
  BY <1>6
<1>8. QED
  BY <1>3, <1>7

\* The numbers that a cursor takes.
Cursors == 0 .. Power(Bits) - 1

\* The next cursor, in the opposite order: the next multiple of the buckets
\* that share the bits of the mask.
LEMMA NextCursor ==
  ASSUME NEW v \in Nat, NEW m \in Nat, NEW j \in Nat, m + j = Bits
  PROVE  LET next == Increment(v, Power(m)) IN
         /\ next \in Cursors
         /\ Rev(next) = (Power(j) * (Reversed(v, m) + 1)) % Power(Bits)
<1> DEFINE N == Power(Bits)
           w == (N - Power(m)) + (v % Power(m))
           x == (Rev(w) + 1) % N
           next == Increment(v, Power(m))
<1>1. Bits \in Nat /\ N \in Nat /\ N > 0
  BY DictAssumption, PowerSteps
<1>2. w \in Nat /\ Rev(w) + 1 = Power(j) * (Reversed(v, m) + 1)
  <2>1. LET u == (Power(m + j) - Power(m)) + (v % Power(m)) IN
        /\ u \in 0 .. Power(m + j) - 1
        /\ Reversed(u, m + j) + 1 = Power(j) * (Reversed(v, m) + 1)
    BY UnmaskedBits
  <2>2. w \in 0 .. N - 1 /\ Reversed(w, Bits) + 1 = Power(j) * (Reversed(v, m) + 1)
    BY <2>1
  <2> HIDE DEF w, N
  <2>3. QED
    BY <1>1, <2>2 DEF Rev
<1>3. next = Rev(x)
  BY DEF Increment
<1>4. x \in 0 .. N - 1
  <2>1. Rev(w) + 1 \in Nat
    <3> HIDE DEF w, N
    <3>1. w \in Nat /\ Bits \in Nat
      BY <1>1, <1>2
    <3>2. Reversed(w, Bits) \in Nat
      BY <3>1, ReversedSteps
    <3>3. QED
      BY <3>2 DEF Rev
  <2> HIDE DEF N, w
  <2>2. QED
    BY <1>1, <2>1
<1>5. x = (Power(j) * (Reversed(v, m) + 1)) % N
  BY <1>2
<1> HIDE DEF x, w, next
<1>6. Rev(x) \in Cursors
  BY <1>1, <1>4, ReversedBound DEF Rev, Cursors
<1>7. Rev(Rev(x)) = x
  BY <1>1, <1>4, TwiceReversed DEF Rev
<1>8. QED
  BY <1>3, <1>5, <1>6, <1>7 DEF next

\* What comes before the next cursor came before this one, or is in its bucket.
LEMMA BucketPassed ==
  ASSUME NEW v \in Nat, NEW h \in Nat, NEW m \in Nat, NEW j \in Nat, m + j = Bits,
         Reversed(h, m) <= Reversed(v, m)
  PROVE  Rev(h) < Rev(v) \/ h % Power(m) = v % Power(m)
<1> DEFINE a == Reversed(v, m)
           b == Reversed(h, m)
           J == Power(j)
           x == Rev(h)
           y == Rev(v)
<1>1. a \in Nat /\ b \in Nat /\ J \in Nat /\ J > 0 /\ b <= a
  BY ReversedSteps, PowerSteps
<1>2. x \in Nat /\ y \in Nat
  BY DictAssumption, ReversedSteps DEF Rev
<1>3. x < J * b + J
  <2>1. Reversed(h, m + j) < J * b + J
    BY ReversedBlock
  <2>2. QED
    BY <2>1 DEF Rev
<1>4. J * a <= y
  <2>1. J * a <= Reversed(v, m + j)
    BY ReversedBlock
  <2>2. QED
    BY <2>1 DEF Rev
<1>5. b = a => h % Power(m) = v % Power(m)
  BY ReversedOnce
<1> HIDE DEF a, b, J, x, y
<1>6. b < a => J * b + J <= J * a /\ J * b + J \in Nat /\ J * a \in Nat
  <2> SUFFICES ASSUME b < a PROVE J * b + J <= J * a /\ J * b + J \in Nat /\ J * a \in Nat
    OBVIOUS
  <2> DEFINE c == a - b - 1
  <2>1. c \in Nat /\ a = b + 1 + c
    BY <1>1
  <2> HIDE DEF c
  <2>2. J * a = J * b + J + J * c /\ J * c \in Nat /\ J * b \in Nat
    BY <1>1, <2>1
  <2>3. QED
    BY <1>1, <2>2
<1>7. b < a => x < y
  BY <1>2, <1>3, <1>4, <1>6
<1>8. b < a \/ b = a
  BY <1>1
<1>9. QED
  BY <1>5, <1>7, <1>8 DEF x, y

\* One cursor in the opposite order is the first.
LEMMA FirstCursor ==
  Rev(0) = 0 /\ 0 \in Cursors /\ \A v \in Cursors : Rev(v) = 0 => v = 0
<1>1. Bits \in Nat /\ Power(Bits) \in Nat /\ Power(Bits) > 0
  BY DictAssumption, PowerSteps
<1> DEFINE T == {n \in Nat : Reversed(0, n) = 0}
<1>2. \A n \in Nat : n \in T
  <2> DEFINE zero == 0
  <2>1. zero \in Nat
    OBVIOUS
  <2>2. Reversed(zero, 0) = 0
    <3> HIDE DEF zero
    <3> QED BY <2>1, ReversedSteps
  <2>3. 0 \in T
    BY <2>2
  <2>4. ASSUME NEW n \in Nat, n \in T PROVE n + 1 \in T
    <3>1. Bit(zero, n) = 0
      <4>1. Power(n) \in Nat /\ Power(n) > 0
        BY PowerSteps
      <4>2. 0 \div Power(n) = 0
        BY <4>1
      <4>3. QED
        BY <4>2 DEF Bit
    <3>2. Reversed(zero, n + 1) = 2 * Reversed(zero, n) + Bit(zero, n)
      <4> HIDE DEF zero
      <4> QED BY <2>1, ReversedSteps
    <3>3. QED
      BY <2>4, <3>1, <3>2
  <2> HIDE DEF T
  <2>5. QED
    BY <2>3, <2>4, AllNumbers
<1>3. Rev(0) = 0
  BY <1>1, <1>2 DEF Rev
<1>4. ASSUME NEW v \in Cursors, Rev(v) = 0 PROVE v = 0
  <2>1. Rev(Rev(v)) = v
    BY <1>1, TwiceReversed DEF Rev, Cursors
  <2>2. QED
    BY <1>3, <1>4, <2>1
<1>5. 0 \in Cursors
  BY <1>1 DEF Cursors
<1>6. QED
  BY <1>3, <1>4, <1>5

\* A multiple of the buckets, as a cursor in the opposite order.
LEMMA BlockCursor ==
  ASSUME NEW c \in Cursors, NEW m \in Nat, NEW j \in Nat, m + j = Bits,
         NEW a \in Nat, a < Power(m), Rev(c) = (Power(j) * (a + 1)) % Power(Bits)
  PROVE  /\ a + 1 < Power(m) => Rev(c) = Power(j) * (a + 1) /\ Reversed(c, m) = a + 1 /\ c # 0
         /\ a + 1 = Power(m) => c = 0
<1> DEFINE J == Power(j)
           M == Power(m)
           N == Power(Bits)
           e == a + 1
<1>1. /\ J \in Nat /\ J > 0 /\ M \in Nat /\ M > 0 /\ N \in Nat /\ N > 0 /\ N = J * M
      /\ c \in Nat /\ e \in Nat /\ e > 0 /\ e <= M
  <2>1. J \in Nat /\ J > 0 /\ M \in Nat /\ M > 0 /\ N \in Nat /\ N > 0 /\ N = M * J
    BY DictAssumption, PowerSteps, PowerTimes
  <2>2. M * J = J * M
    <3> HIDE DEF M, J
    <3> QED BY <2>1
  <2>3. c \in Nat
    BY <2>1 DEF Cursors
  <2> HIDE DEF J, M, N
  <2>4. e \in Nat /\ e > 0 /\ e <= M
    BY <2>1 DEF M
  <2>5. QED
    BY <2>1, <2>2, <2>3, <2>4
<1>2. Rev(c) = (J * e) % N
  OBVIOUS
<1>3. Reversed(c, m) = Rev(c) \div J
  BY <1>1, ReversedBlock DEF Rev
<1>4. CASE e < M
  <2> HIDE DEF J, M, N, e
  <2>1. J * e \in Nat /\ J * e > 0 /\ J * M = J * e + J * (M - e) /\ J * (M - e) \in Nat /\ J * (M - e) > 0
    BY <1>1, <1>4
  <2> DEFINE y == J * e
  <2>2. y \in Nat /\ y > 0 /\ y < N
    BY <1>1, <2>1
  <2> HIDE DEF y
  <2>3. y % N = y
    BY <1>1, <2>2
  <2>4. Rev(c) = J * e /\ Rev(c) > 0
    BY <1>2, <2>2, <2>3 DEF y
  <2>5. (J * e) \div J = e
    <3> DEFINE zero == 0
    <3>1. zero \in 0 .. J - 1 /\ J * e + zero = J * e
      BY <1>1, <2>1
    <3> HIDE DEF zero
    <3>2. (J * e + zero) \div J = e
      BY <1>1, <3>1, Divides
    <3>3. QED
      BY <3>1, <3>2
  <2>6. c # 0
    BY <2>4, FirstCursor
  <2>7. QED
    BY <1>3, <1>4, <2>4, <2>5, <2>6 DEF J, M, e
<1>5. CASE e = M
  <2> HIDE DEF J, M, N, e
  <2>1. N % N = 0
    BY <1>1
  <2>2. Rev(c) = 0
    BY <1>1, <1>2, <1>5, <2>1
  <2>3. c = 0
    BY <2>2, FirstCursor
  <2>4. QED
    BY <1>5, <2>3 DEF M, e
<1>6. QED
  BY <1>1, <1>4, <1>5

\* The cursor after that of one bucket.
LEMMA CursorPassed ==
  ASSUME NEW v \in Nat, NEW m \in Nat, NEW j \in Nat, m + j = Bits, NEW h \in Nat,
         \/ Increment(v, Power(m)) = 0
         \/ Rev(h) < Rev(Increment(v, Power(m)))
  PROVE  Rev(h) < Rev(v) \/ h % Power(m) = v % Power(m)
<1> DEFINE c == Increment(v, Power(m))
           a == Reversed(v, m)
           b == Reversed(h, m)
           J == Power(j)
<1>1. c \in Cursors /\ Rev(c) = (J * (a + 1)) % Power(Bits)
  BY NextCursor
<1>2. /\ a \in Nat /\ b \in Nat /\ J \in Nat /\ J > 0 /\ Power(m) \in Nat
      /\ a < Power(m) /\ b < Power(m)
  <2>1. a \in 0 .. Power(m) - 1 /\ b \in 0 .. Power(m) - 1
    BY ReversedBound
  <2>2. J \in Nat /\ J > 0 /\ Power(m) \in Nat
    BY PowerSteps
  <2> HIDE DEF a, b, J
  <2>3. QED
    BY <2>1, <2>2
<1>3. c = 0 \/ Rev(h) < Rev(c)
  OBVIOUS
<1>4. J * b <= Rev(h) /\ Rev(h) \in Nat
  <2>1. J * b <= Reversed(h, m + j)
    BY ReversedBlock
  <2>2. QED
    BY <2>1, DictAssumption, ReversedSteps DEF Rev
<1> HIDE DEF a, b, c, J
<1>5. /\ a + 1 < Power(m) => Rev(c) = J * (a + 1) /\ c # 0
      /\ a + 1 = Power(m) => c = 0
  BY <1>1, <1>2, BlockCursor DEF J
<1>6. b <= a
  <2>1. CASE a + 1 < Power(m)
    <3>1. J * b < J * (a + 1)
      <4>1. J * b \in Nat /\ J * (a + 1) \in Nat
        BY <1>2
      <4>2. QED
        BY <1>3, <1>4, <1>5, <2>1, <4>1
    <3>2. ~(a < b)
      <4> SUFFICES ASSUME a < b PROVE FALSE
        OBVIOUS
      <4> DEFINE e == b - (a + 1)
      <4>1. e \in Nat /\ b = (a + 1) + e
        BY <1>2
      <4> HIDE DEF e
      <4>2. J * b = J * (a + 1) + J * e /\ J * e \in Nat
        BY <1>2, <4>1
      <4>3. J * b \in Nat /\ J * (a + 1) \in Nat
        BY <1>2
      <4>4. QED
        BY <3>1, <4>2, <4>3
    <3>3. QED
      BY <1>2, <3>2
  <2>2. QED
    BY <1>2, <2>1
<1>7. QED
  BY <1>6, BucketPassed DEF a, b

-----------------------------------------------------------------------------
(* The buckets of the larger table that one of the smaller expands to.     *)

\* The cursors that ScanExpansions goes through, in a table of size L.
Expansions(f, v, L, K) ==
  f \in [0 .. K -> Nat] /\ f[0] = v /\ \A n \in 1 .. K : f[n] = Increment(f[n - 1], L)

\* The bits between the two masks are zero.
Over(c, S, L) == (c % L) \div S = 0

\* Where the loop of dictScan ends.
Landing(f, K, S, L) ==
  CHOOSE n \in 1 .. K : Over(f[n], S, L) /\ \A m \in 1 .. n - 1 : ~Over(f[m], S, L)

\* The loop passes the cursors f.
Looped(f, small, large, v, K) ==
  LET last == Landing(f, K, small.size, large.size) IN
  /\ Expansions(f, v, large.size, K)
  /\ ScanExpansions(small, large, v)
       = [emitted |-> UNION {Bucket(large, f[n]) : n \in 0 .. last - 1},
          cursor  |-> f[last]]

\* The loop, one cursor after the other.
LEMMA ExpansionSteps ==
  ASSUME NEW small, NEW large, NEW v \in Nat, NEW K \in Nat, large.size \div small.size = K,
         NEW l \in 0 .. Bits, large.size = Power(l)
  PROVE  \E f : Looped(f, small, large, v, K)
<1> DEFINE L == large.size
           S == small.size
           G == [k \in Nat |-> [x \in Nat |-> Increment(x, L)]]
           R(f) == [n \in 0 .. L \div S |-> IF n = 0 THEN v ELSE Increment(f[n - 1], L)]
           W == CHOOSE f : f = R(f)
           Leaves(f) == CHOOSE n \in 1 .. L \div S :
                          LET O(i) == (f[i] % L) \div S = 0
                          IN  O(n) /\ \A i \in 1 .. n - 1 : ~O(i)
<1>1. ScanExpansions(small, large, v)
        = [emitted |-> UNION {Bucket(large, W[n]) : n \in 0 .. Leaves(W) - 1},
           cursor  |-> W[Leaves(W)]]
  BY DEF ScanExpansions
<1>2. Leaves(W) = Landing(W, K, S, L)
  <2> HIDE DEF W
  <2> QED BY DEF Over, Landing
<1>3. \A x \in Nat : Increment(x, L) \in Nat
  <2> SUFFICES ASSUME NEW x \in Nat PROVE Increment(x, L) \in Nat
    OBVIOUS
  <2> DEFINE j == Bits - l
             N == Power(Bits)
  <2>1. j \in Nat /\ l \in Nat /\ l + j = Bits /\ Bits \in Nat
    BY DictAssumption
  <2>2. N \in Nat
    BY <2>1, PowerSteps
  <2> HIDE DEF j
  <2>3. Increment(x, Power(l)) \in Cursors
    BY <2>1, NextCursor
  <2>4. QED
    BY <2>2, <2>3 DEF Cursors
<1>4. G \in [Nat -> [Nat -> Nat]]
  BY <1>3
<1>5. PICK f : Steps(f, K, Nat, v, G)
  <2> HIDE DEF G
  <2> QED BY <1>4, StepByStep
<1>6. Expansions(f, v, L, K)
  <2>1. f \in [0 .. K -> Nat]
    BY <1>5 DEF Steps
  <2>2. f[0] = v
    <3>1. 0 \in 0 .. K
      OBVIOUS
    <3>2. QED
      BY ONLY <1>5, <3>1 DEF Steps
  <2>3. ASSUME NEW n \in 1 .. K PROVE f[n] = Increment(f[n - 1], L)
    <3>1. n - 1 \in 0 .. K /\ n - 1 \in Nat /\ n \in 0 .. K /\ n # 0
      OBVIOUS
    <3>2. f[n - 1] \in Nat
      BY <2>1, <3>1
    <3>3. f[n] = G[n - 1][f[n - 1]]
      BY <1>5, <3>1 DEF Steps
    <3> HIDE DEF L
    <3>4. QED
      BY <3>1, <3>2, <3>3
  <2>4. QED
    BY <2>1, <2>2, <2>3 DEF Expansions
<1> HIDE DEF G
<1>7. f = R(f)
  <2>1. f = [n \in 0 .. L \div S |-> f[n]]
    BY <1>6 DEF Expansions
  <2>2. ASSUME NEW n \in 0 .. K PROVE f[n] = IF n = 0 THEN v ELSE Increment(f[n - 1], L)
    <3>1. CASE n = 0
      BY <1>6, <3>1 DEF Expansions
    <3>2. CASE n # 0
      <4>1. n \in 1 .. K
        BY <3>2
      <4>2. QED
        BY <1>6, <3>2, <4>1 DEF Expansions
    <3>3. QED
      BY <3>1, <3>2
  <2> HIDE DEF L, S
  <2>3. L \div S = K
    BY DEF L, S
  <2>4. QED
    BY <2>1, <2>2, <2>3
<1>8. W = R(W)
  <2>1. \E g : g = R(g)
    BY <1>7
  <2> HIDE DEF R
  <2>2. QED
    BY <2>1
<1> HIDE DEF W
<1>9. Expansions(W, v, L, K)
  <2>1. W = [n \in 0 .. K |-> IF n = 0 THEN v ELSE Increment(W[n - 1], L)]
    BY <1>8
  <2> HIDE DEF L
  <2>2. W[0] = v /\ W = [n \in 0 .. K |-> W[n]]
    BY <2>1
  <2>3. ASSUME NEW n \in 1 .. K PROVE W[n] = Increment(W[n - 1], L)
    <3>1. n \in 0 .. K /\ n # 0
      OBVIOUS
    <3>2. QED
      BY <2>1, <3>1
  <2> DEFINE T == {n \in Nat : n <= K => W[n] \in Nat}
  <2>4. \A n \in Nat : n \in T
    <3>1. 0 \in T
      BY <2>2
    <3>2. ASSUME NEW n \in Nat, n \in T PROVE n + 1 \in T
      <4> SUFFICES ASSUME n + 1 <= K PROVE W[n + 1] \in Nat
        OBVIOUS
      <4>1. n + 1 \in 1 .. K /\ (n + 1) - 1 = n /\ W[n] \in Nat
        BY <3>2
      <4>2. W[n + 1] = Increment(W[n], L)
        BY <2>3, <4>1
      <4>3. QED
        BY <1>3, <4>1, <4>2
    <3> HIDE DEF T
    <3>3. QED
      BY <3>1, <3>2, AllNumbers
  <2>5. \A n \in 0 .. K : W[n] \in Nat
    BY <2>4
  <2>6. W \in [0 .. K -> Nat]
    BY <2>2, <2>5
  <2>7. QED
    BY <2>2, <2>3, <2>6 DEF Expansions
<1>10. Looped(W, small, large, v, K)
  <2> HIDE DEF Leaves
  <2>1. QED
    BY <1>1, <1>2, <1>9 DEF Looped
<1>11. QED
  BY <1>10

\* A number below a power has no bits above it.
LEMMA ReversedLow ==
  ASSUME NEW s \in Nat, NEW i \in Nat, NEW u \in 0 .. Power(s) - 1
  PROVE  Reversed(u, s + i) = Power(i) * Reversed(u, s)
<1> DEFINE r == Reversed(u, s)
           T == {n \in Nat : Reversed(u, s + n) = Power(n) * r}
<1>1. u \in Nat /\ r \in Nat /\ Power(s) \in Nat /\ u < Power(s)
  <2>1. Power(s) \in Nat
    BY PowerSteps
  <2>2. u \in Nat /\ u < Power(s)
    BY <2>1
  <2>3. QED
    BY <2>1, <2>2, ReversedSteps
<1>2. 0 \in T
  BY <1>1, PowerSteps
<1>3. ASSUME NEW n \in Nat, n \in T PROVE n + 1 \in T
  <2> DEFINE k == s + n
             p == Power(k)
             I == Power(n)
  <2>1. k \in Nat /\ s + (n + 1) = k + 1 /\ Reversed(u, k) = I * r
    BY <1>3
  <2>2. Power(s) <= p
    <3>1. s < k \/ s = k
      OBVIOUS
    <3> HIDE DEF k
    <3>2. Power(s) < Power(k) \/ s = k
      BY <2>1, <3>1, PowerGrows
    <3>3. Power(s) \in Nat /\ Power(k) \in Nat
      BY <2>1, PowerSteps
    <3>4. QED
      BY <3>2, <3>3
  <2> HIDE DEF k
  <2>3. p \in Nat /\ p > 0 /\ I \in Nat /\ Power(n + 1) = 2 * I
    BY <2>1, PowerSteps
  <2> HIDE DEF p
  <2>4. u \div p = 0
    BY <1>1, <2>2, <2>3
  <2>5. Bit(u, k) = 0
    BY <2>4 DEF Bit, p
  <2>6. Reversed(u, k + 1) = 2 * Reversed(u, k) + 0
    BY <1>1, <2>1, <2>5, ReversedSteps
  <2> HIDE DEF r, I
  <2>7. 2 * (I * r) + 0 = (2 * I) * r
    BY <1>1, <2>3
  <2>8. Reversed(u, s + (n + 1)) = Power(n + 1) * r
    BY <2>1, <2>3, <2>6, <2>7
  <2>9. QED
    BY <2>8
<1>4. i \in T
  <2> HIDE DEF T
  <2> QED BY <1>2, <1>3, AllNumbers
<1>5. QED
  BY <1>4

\* They are zero at the first of the buckets that a bucket expands to.
LEMMA OverMeans ==
  ASSUME NEW c \in Nat, NEW s \in Nat, NEW i \in Nat
  PROVE  Over(c, Power(s), Power(s + i)) <=> Reversed(c, s + i) = Power(i) * Reversed(c, s)
<1> DEFINE l == s + i
           S == Power(s)
           I == Power(i)
           L == Power(l)
           y == c % L
           u == c % S
           q == c \div L
           e == y \div S
           z == y % S
<1>1. l \in Nat /\ S \in Nat /\ S > 0 /\ I \in Nat /\ I > 0 /\ L = S * I
  <2>1. L = S * I
    BY PowerTimes
  <2>2. S \in Nat /\ S > 0 /\ I \in Nat /\ I > 0
    BY PowerSteps
  <2> HIDE DEF S, I, L
  <2>3. QED
    BY <2>1, <2>2
<1>2. L \in Nat /\ L > 0 /\ S <= L
  <2>1. L \in Nat /\ L > 0
    <3> HIDE DEF l
    <3> QED BY <1>1, PowerSteps
  <2> HIDE DEF L, S, I
  <2>2. S * (I - 1) \in Nat /\ S * I = S * (I - 1) + S
    BY <1>1
  <2>3. QED
    BY <1>1, <2>1, <2>2
<1>3. q \in Nat /\ y \in 0 .. L - 1 /\ y = c - L * q
  <2> HIDE DEF L
  <2> QED BY <1>2, Divided
<1>4. u \in 0 .. S - 1
  <2> HIDE DEF S
  <2> QED BY <1>1, Divided
<1>5. e \in Nat /\ z \in 0 .. S - 1 /\ z = y - S * e
  <2> HIDE DEF S, L, y
  <2>1. y \in Nat
    BY <1>2, <1>3
  <2>2. QED
    BY <1>1, <2>1, Divided
<1>6. u = z
  <2> DEFINE h == I * q + e
  <2> HIDE DEF q, y, e, z, L, S, I
  <2>1. h \in Nat
    BY <1>1, <1>3, <1>5
  <2>2. S * h = (S * I) * q + S * e
    BY <1>1, <1>3, <1>5
  <2> HIDE DEF h
  <2>3. c = L * q + y /\ y = S * e + z /\ L * q \in Nat /\ S * e \in Nat
    <3>1. L * q \in Nat /\ S * e \in Nat
      BY <1>1, <1>2, <1>3, <1>5
    <3>2. QED
      BY <1>2, <1>3, <1>5, <3>1
  <2>4. c = S * h + z
    BY <1>1, <1>5, <2>2, <2>3
  <2>5. (S * h + z) % S = z
    BY <1>1, <1>5, <2>1, Divides
  <2>6. c % S = z
    BY <2>4, <2>5
  <2>7. QED
    BY <2>6
<1>7. e = 0 <=> y = u
  <2> HIDE DEF q, y, e, z, L, S, I, u
  <2>1. ASSUME e = 0 PROVE y = u
    <3>1. S * e = 0
      BY <1>1, <2>1
    <3>2. y - 0 = y
      BY <1>2, <1>3
    <3>3. QED
      BY <1>5, <1>6, <3>1, <3>2
  <2>2. ASSUME y = u PROVE e = 0
    <3>1. S * e = 0
      BY <1>1, <1>2, <1>3, <1>5, <1>6, <2>2
    <3>2. QED
      BY <1>1, <1>5, <3>1
  <2>3. QED
    BY <2>1, <2>2
<1>8. Over(c, S, L) <=> e = 0
  BY DEF Over
<1>9. u \in Nat /\ u < L /\ u % L = u /\ u % S = u
  <2> HIDE DEF L, S, u
  <2>1. u \in Nat /\ u < L /\ u < S /\ L \in Nat /\ S \in Nat
    BY <1>1, <1>2, <1>4
  <2>2. u % L = u /\ u % S = u
    BY <2>1, SmallRemainder
  <2>3. QED
    BY <2>1, <2>2
<1>10. y = u <=> Reversed(c, l) = Reversed(u, l)
  <2> HIDE DEF u, l
  <2>1. Reversed(c, l) = Reversed(u, l) <=> c % Power(l) = u % Power(l)
    BY <1>1, <1>9, ReversedOnce
  <2>2. QED
    BY <1>9, <2>1
<1>11. Reversed(c, s) = Reversed(u, s)
  <2> HIDE DEF u, S
  <2>1. Reversed(c, s) = Reversed(u, s) <=> c % Power(s) = u % Power(s)
    BY <1>9, ReversedOnce
  <2>2. c % Power(s) = u % Power(s)
    BY <1>9 DEF u, S
  <2>3. QED
    BY <2>1, <2>2
<1>12. Reversed(u, l) = I * Reversed(u, s)
  <2>1. u \in 0 .. Power(s) - 1
    BY <1>4
  <2> HIDE DEF u
  <2>2. Reversed(u, s + i) = Power(i) * Reversed(u, s)
    BY <2>1, ReversedLow
  <2>3. QED
    BY <2>2
<1> HIDE DEF y, u, e
<1>13. Over(c, S, L) <=> Reversed(c, l) = I * Reversed(c, s)
  BY <1>7, <1>8, <1>10, <1>11, <1>12
<1>14. QED
  BY <1>13

\* A multiple between two multiples.
LEMMA NoMultiple ==
  ASSUME NEW K \in Nat, K > 0, NEW t \in Nat, NEW e \in Nat
  PROVE  /\ ~(K * t < K * e /\ K * e < K * t + K)
         /\ K * e <= K * t + K /\ K * t + K < K * e + K => K * t + K = K * e
<1> DEFINE g == t + 1
           x == K * t
           y == K * e
<1>1. x \in Nat /\ y \in Nat
  OBVIOUS
<1>2. CASE e <= t
  <2> DEFINE c == t - e
  <2>1. c \in Nat /\ t = e + c
    BY <1>2
  <2> HIDE DEF c
  <2>2. K * t = K * e + K * c /\ K * c \in Nat
    BY <2>1
  <2> HIDE DEF x, y
  <2>3. y <= x
    BY <1>1, <2>2 DEF x, y
  <2>4. ~(x < y /\ y < x + K) /\ ~(x + K < y + K)
    BY <1>1, <2>3
  <2>5. QED
    BY <2>4 DEF x, y
<1>3. CASE t < e
  <2> DEFINE c == e - g
  <2>1. c \in Nat /\ e = g + c /\ g \in Nat
    BY <1>3
  <2>2. K * g = K * t + K
    OBVIOUS
  <2> HIDE DEF c, g
  <2>3. K * e = K * g + K * c /\ K * c \in Nat
    BY <2>1
  <2>4. y = (x + K) + K * c
    BY <2>2, <2>3
  <2> HIDE DEF x, y
  <2>5. x + K <= y
    BY <1>1, <2>3, <2>4
  <2>6. ~(x < y /\ y < x + K) /\ (y <= x + K => x + K = y)
    BY <1>1, <2>5
  <2>7. QED
    BY <2>6 DEF x, y
<1>4. QED
  BY <1>2, <1>3

\* The buckets of a table of 2^l buckets at and after the cursor v, which one
\* of a table of 2^s expands to: f are the cursors, a the place of v, t that of
\* the small bucket and E the distance to the next one.
Walking(v, s, i, l, j, f, K, a, t, E) ==
  /\ v \in Nat /\ s \in Nat /\ i \in Nat /\ l \in Nat /\ j \in Nat
  /\ l = s + i /\ l + j = Bits /\ K = Power(i)
  /\ Expansions(f, v, Power(l), K)
  /\ a = Reversed(v, l) /\ t = Reversed(v, s) /\ E = (K * t + K) - a

Walked(l, j, f, K, a, t, E) ==
  /\ a \in Nat /\ t \in Nat /\ K \in Nat /\ K > 0 /\ E \in 1 .. K /\ a + E = K * t + K
  /\ K * t <= a /\ a + E <= Power(l)
  /\ \A n \in 0 .. E - 1 : f[n] \in Nat /\ Reversed(f[n], l) = a + n
  /\ f[E] \in Cursors
  /\ a + E < Power(l) => Rev(f[E]) = Power(j) * (a + E) /\ Reversed(f[E], l) = a + E /\ f[E] # 0
  /\ a + E = Power(l) => f[E] = 0

\* The cursors that a bucket expands to are those of the larger table up to the
\* next bucket of the smaller.
LEMMA ExpansionsWalk ==
  ASSUME NEW v, NEW s, NEW i, NEW l, NEW j, NEW f, NEW K, NEW a, NEW t, NEW E,
         Walking(v, s, i, l, j, f, K, a, t, E)
  PROVE  Walked(l, j, f, K, a, t, E)
<1>1. /\ v \in Nat /\ s \in Nat /\ i \in Nat /\ l \in Nat /\ j \in Nat
      /\ l = s + i /\ l + j = Bits /\ K = Power(i)
      /\ Expansions(f, v, Power(l), K)
      /\ a = Reversed(v, l) /\ t = Reversed(v, s) /\ E = (K * t + K) - a
  BY DEF Walking
<1> USE <1>1
<1> DEFINE S == Power(s)
           L == Power(l)
<1>2. a \in Nat /\ t \in Nat /\ K \in Nat /\ K > 0 /\ L \in Nat /\ a < L /\ S \in Nat /\ t < S
  <2>1. a \in 0 .. L - 1 /\ t \in 0 .. S - 1
    BY ReversedBound
  <2>2. K \in Nat /\ K > 0 /\ L \in Nat /\ S \in Nat
    BY PowerSteps
  <2> HIDE DEF L, S
  <2>3. QED
    BY <2>1, <2>2
<1>3. K * t <= a /\ a < K * t + K
  BY ReversedBlock
<1>4. L = S * K
  BY PowerTimes
<1> HIDE DEF L, S
<1>5. E \in 1 .. K /\ a + E = K * t + K
  <2> DEFINE x == K * t
  <2>1. x \in Nat
    BY <1>2
  <2>2. E = (x + K) - a /\ x <= a /\ a < x + K
    BY <1>3
  <2> HIDE DEF x
  <2>3. E \in 1 .. K /\ a + E = x + K
    BY <1>2, <2>1, <2>2
  <2>4. QED
    BY <2>3 DEF x
<1>6. a + E <= L
  <2> DEFINE c == S - (t + 1)
             g == t + 1
  <2>1. c \in Nat /\ g \in Nat /\ S = g + c
    BY <1>2
  <2>2. K * g = K * t + K
    BY <1>2
  <2> HIDE DEF c, g
  <2>3. S * K = K * g + K * c /\ K * c \in Nat /\ K * g \in Nat
    BY <1>2, <2>1
  <2>4. a + E = K * g
    BY <1>5, <2>2
  <2>5. QED
    BY <1>4, <2>3, <2>4
<1>7. f[0] = v /\ \A n \in 1 .. K : f[n] = Increment(f[n - 1], Power(l))
  BY DEF Expansions
<1>8. ASSUME NEW n \in Nat, n < E, f[n] \in Nat, Reversed(f[n], l) = a + n
      PROVE  LET c == f[n + 1] IN
             /\ c \in Cursors
             /\ (a + n) + 1 < L => Rev(c) = Power(j) * ((a + n) + 1) /\ Reversed(c, l) = (a + n) + 1 /\ c # 0
             /\ (a + n) + 1 = L => c = 0
  <2> DEFINE c == f[n + 1]
             x == a + n
  <2>1. x \in Nat /\ x < L /\ n + 1 \in 1 .. K /\ (n + 1) - 1 = n
    BY <1>2, <1>5, <1>6, <1>8
  <2>2. c = Increment(f[n], Power(l))
    BY <1>7, <2>1
  <2>3. Reversed(f[n], l) = x
    BY <1>8
  <2> HIDE DEF c, x
  <2>4. c \in Cursors /\ Rev(c) = (Power(j) * (x + 1)) % Power(Bits)
    <3> DEFINE u == f[n]
    <3>1. u \in Nat /\ c = Increment(u, Power(l)) /\ Reversed(u, l) = x
      BY <1>8, <2>2, <2>3
    <3> HIDE DEF u
    <3>2. LET next == Increment(u, Power(l)) IN
          /\ next \in Cursors
          /\ Rev(next) = (Power(j) * (Reversed(u, l) + 1)) % Power(Bits)
      BY <3>1, NextCursor
    <3>3. QED
      BY ONLY <3>1, <3>2
  <2>5. /\ x + 1 < L => Rev(c) = Power(j) * (x + 1) /\ Reversed(c, l) = x + 1 /\ c # 0
        /\ x + 1 = L => c = 0
    BY <2>1, <2>4, BlockCursor DEF L
  <2>6. QED
    BY <2>4, <2>5 DEF c, x
<1> DEFINE T == {n \in Nat : n < E => f[n] \in Nat /\ Reversed(f[n], l) = a + n}
<1>9. \A n \in Nat : n \in T
  <2>1. 0 \in T
    BY <1>2, <1>7
  <2>2. ASSUME NEW n \in Nat, n \in T PROVE n + 1 \in T
    <3> SUFFICES ASSUME n + 1 < E PROVE f[n + 1] \in Nat /\ Reversed(f[n + 1], l) = a + (n + 1)
      OBVIOUS
    <3>1. n < E /\ (a + n) + 1 < L /\ (a + n) + 1 = a + (n + 1)
      BY <1>2, <1>5, <1>6
    <3>2. f[n] \in Nat /\ Reversed(f[n], l) = a + n
      BY <2>2, <3>1
    <3>3. f[n + 1] \in Cursors /\ Reversed(f[n + 1], l) = (a + n) + 1
      BY <1>8, <3>1, <3>2
    <3>4. Cursors \subseteq Nat
      BY DictAssumption, PowerSteps DEF Cursors
    <3>5. QED
      BY <3>1, <3>3, <3>4
  <2> HIDE DEF T
  <2>3. QED
    BY <2>1, <2>2, AllNumbers
<1>10. \A n \in 0 .. E - 1 : f[n] \in Nat /\ Reversed(f[n], l) = a + n
  <2> SUFFICES ASSUME NEW n \in 0 .. E - 1 PROVE f[n] \in Nat /\ Reversed(f[n], l) = a + n
    OBVIOUS
  <2>1. n \in Nat /\ n < E
    BY <1>5
  <2>2. QED
    BY <1>9, <2>1
<1> HIDE DEF T
<1>11. /\ f[E] \in Cursors
       /\ a + E < L => Rev(f[E]) = Power(j) * (a + E) /\ Reversed(f[E], l) = a + E /\ f[E] # 0
       /\ a + E = L => f[E] = 0
  <2> DEFINE n == E - 1
  <2>1. n \in Nat /\ n < E /\ n \in 0 .. E - 1 /\ n + 1 = E /\ (a + n) + 1 = a + E
    BY <1>2, <1>5
  <2> HIDE DEF n
  <2>2. f[n] \in Nat /\ Reversed(f[n], l) = a + n
    BY <1>10, <2>1
  <2>3. LET c == f[n + 1] IN
        /\ c \in Cursors
        /\ (a + n) + 1 < L => Rev(c) = Power(j) * ((a + n) + 1) /\ Reversed(c, l) = (a + n) + 1 /\ c # 0
        /\ (a + n) + 1 = L => c = 0
    BY <1>8, <2>1, <2>2
  <2>4. QED
    BY <2>1, <2>3
<1>12. QED
  BY <1>2, <1>3, <1>5, <1>6, <1>10, <1>11 DEF L, Walked

\* A smaller multiple has a smaller factor.
LEMMA SmallerFactor ==
  ASSUME NEW p \in Nat, NEW x \in Nat, NEW y \in Nat, p * x < p * y
  PROVE  x < y
<1> SUFFICES ASSUME ~(x < y) PROVE FALSE
  OBVIOUS
<1> DEFINE c == x - y
<1>1. c \in Nat /\ x = y + c
  OBVIOUS
<1> HIDE DEF c
<1>2. p * x = p * y + p * c /\ p * c \in Nat /\ p * y \in Nat
  BY <1>1
<1>3. QED
  BY <1>2

\* That is at the next bucket of the smaller table.
LEMMA ExpansionsEnd ==
  ASSUME NEW v, NEW s, NEW i, NEW l, NEW j, NEW f, NEW K, NEW a, NEW t, NEW E,
         Walking(v, s, i, l, j, f, K, a, t, E)
  PROVE  Landing(f, K, Power(s), Power(l)) = E
<1> DEFINE x == K * t
<1> DEFINE S == Power(s)
           L == Power(l)
<1>1. v \in Nat /\ s \in Nat /\ i \in Nat /\ l \in Nat /\ j \in Nat /\ l = s + i /\ K = Power(i)
  BY DEF Walking
<1> USE <1>1
<1>2. Walked(l, j, f, K, a, t, E)
  BY ExpansionsWalk
<1>3. /\ a \in Nat /\ t \in Nat /\ K \in Nat /\ K > 0 /\ E \in 1 .. K /\ a + E = K * t + K
      /\ K * t <= a /\ a + E <= L
      /\ \A n \in 0 .. E - 1 : f[n] \in Nat /\ Reversed(f[n], l) = a + n
      /\ f[E] \in Cursors
      /\ a + E < L => Rev(f[E]) = Power(j) * (a + E) /\ Reversed(f[E], l) = a + E /\ f[E] # 0
      /\ a + E = L => f[E] = 0
  BY <1>2 DEF Walked
<1>4. x \in Nat /\ a + E = x + K /\ x <= a
  BY <1>3
<1>5. ASSUME NEW n \in 1 .. E - 1 PROVE ~Over(f[n], S, L)
  <2> DEFINE c == f[n]
             e == Reversed(c, s)
             y == K * e
  <2>1. n \in Nat /\ n > 0 /\ n < E /\ n \in 0 .. E - 1
    BY <1>3, <1>5
  <2>2. c \in Nat /\ Reversed(c, l) = a + n
    BY <1>3, <2>1
  <2>3. Over(c, S, L) <=> Reversed(c, l) = y
    <3> HIDE DEF c
    <3>1. Over(c, Power(s), Power(s + i)) <=> Reversed(c, s + i) = Power(i) * Reversed(c, s)
      BY <2>2, OverMeans
    <3>2. QED
      BY <3>1
  <2>4. e \in Nat
    <3> HIDE DEF c
    <3>1. QED
      BY <2>2, ReversedSteps
  <2> HIDE DEF c, e
  <2>5. ~(x < y /\ y < x + K)
    BY <1>3, <2>4, NoMultiple
  <2>6. y \in Nat
    BY <1>3, <2>4
  <2> HIDE DEF x, y
  <2>7. ~(a + n = y)
    BY <1>3, <1>4, <2>1, <2>5, <2>6
  <2>8. QED
    BY <2>2, <2>3, <2>7 DEF c
<1>6. Over(f[E], S, L)
  <2> DEFINE c == f[E]
  <2>1. c \in Nat
    <3>1. Cursors \subseteq Nat
      BY DictAssumption, PowerSteps DEF Cursors
    <3>2. QED
      BY <1>3, <3>1
  <2>2. CASE a + E < L
    <3> DEFINE e == Reversed(c, s)
               y == K * e
    <3>1. Reversed(c, l) = a + E
      BY <1>3, <2>2
    <3> HIDE DEF c
    <3>2. e \in Nat
      BY <2>1, ReversedSteps
    <3>3. y <= a + E /\ a + E < y + K
      <4>1. /\ Power(i) * Reversed(c, s) <= Reversed(c, s + i)
            /\ Reversed(c, s + i) < Power(i) * Reversed(c, s) + Power(i)
        BY <2>1, ReversedBlock
      <4>2. QED
        BY <3>1, <4>1
    <3> HIDE DEF e
    <3>4. y <= x + K /\ x + K < y + K => x + K = y
      BY <1>3, <3>2, NoMultiple
    <3> HIDE DEF x, y
    <3>5. a + E = y
      BY <1>4, <3>3, <3>4
    <3>6. Over(c, Power(s), Power(s + i)) <=> Reversed(c, s + i) = Power(i) * Reversed(c, s)
      BY <2>1, OverMeans
    <3>7. Over(c, S, L)
      BY <3>1, <3>5, <3>6 DEF e, y
    <3>8. QED
      BY <3>7 DEF c
  <2>3. CASE a + E = L
    <3>1. c = 0
      BY <1>3, <2>3
    <3>2. L \in Nat /\ L > 0 /\ S \in Nat /\ S > 0
      BY PowerSteps
    <3>3. 0 % L = 0 /\ 0 \div S = 0
      BY <3>2
    <3>4. QED
      BY <3>1, <3>3 DEF Over
  <2>4. a \in Nat /\ E \in Nat /\ L \in Nat
    BY <1>3, PowerSteps
  <2>5. QED
    BY <1>3, <2>2, <2>3, <2>4
<1> DEFINE P(n) == Over(f[n], S, L) /\ \A m \in 1 .. n - 1 : ~Over(f[m], S, L)
<1>7. P(E)
  BY <1>5, <1>6
<1>8. ASSUME NEW n \in 1 .. K, P(n) PROVE n = E
  <2>1. CASE n < E
    <3>1. n \in 1 .. E - 1
      BY <1>3, <2>1
    <3>2. QED
      BY <1>5, <1>8, <3>1
  <2>2. CASE E < n
    <3>1. E \in 1 .. n - 1
      BY <1>3, <2>2
    <3>2. QED
      BY <1>6, <1>8, <3>1
  <2>3. QED
    BY <1>3, <2>1, <2>2
<1>9. E \in 1 .. K
  BY <1>3
<1> HIDE DEF P
<1>10. (CHOOSE n \in 1 .. K : P(n)) = E
  BY <1>7, <1>8, <1>9
<1>11. QED
  BY <1>10 DEF P, Landing

\* A hash before the cursor at which the loop ends was before the cursor at
\* which it started, or in one of the buckets in between.
LEMMA ExpansionsPassed ==
  ASSUME NEW v, NEW s, NEW i, NEW l, NEW j, NEW f, NEW K, NEW a, NEW t, NEW E,
         Walking(v, s, i, l, j, f, K, a, t, E)
  PROVE  LET S == Power(s)
             L == Power(l)
             last == Landing(f, K, S, L)
         IN  /\ last \in 1 .. K
             /\ f[last] \in Cursors
             /\ \A h \in Nat : f[last] = 0 \/ Rev(h) < Rev(f[last]) =>
                  \/ Rev(h) < Rev(v)
                  \/ h % S = v % S /\ \E n \in 0 .. last - 1 : h % L = f[n] % L
<1> DEFINE S == Power(s)
           L == Power(l)
           last == Landing(f, K, S, L)
<1>1. Walked(l, j, f, K, a, t, E)
  BY ExpansionsWalk
<1>2. /\ a \in Nat /\ t \in Nat /\ K \in Nat /\ K > 0 /\ E \in 1 .. K /\ a + E = K * t + K
      /\ K * t <= a /\ a + E <= L
      /\ \A n \in 0 .. E - 1 : f[n] \in Nat /\ Reversed(f[n], l) = a + n
      /\ f[E] \in Cursors
      /\ a + E < L => Rev(f[E]) = Power(j) * (a + E) /\ Reversed(f[E], l) = a + E /\ f[E] # 0
      /\ a + E = L => f[E] = 0
  BY <1>1 DEF Walked
<1>3. last = E
  BY ExpansionsEnd
<1> HIDE DEF last
<1>4. /\ v \in Nat /\ s \in Nat /\ i \in Nat /\ l \in Nat /\ j \in Nat
      /\ l = s + i /\ l + j = Bits /\ K = Power(i)
      /\ a = Reversed(v, l) /\ t = Reversed(v, s) /\ f[0] = v
  BY DEF Walking, Expansions
<1> USE <1>4
<1>5. E \in Nat /\ E > 0 /\ E <= K
  BY <1>2
<1>6. ASSUME NEW h \in Nat, f[last] = 0 \/ Rev(h) < Rev(f[last])
      PROVE  \/ Rev(h) < Rev(v)
             \/ h % S = v % S /\ \E n \in 0 .. last - 1 : h % L = f[n] % L
  <2> DEFINE b == Reversed(h, l)
  <2>1. b \in Nat /\ b < L /\ L \in Nat
    <3>1. b \in 0 .. L - 1
      BY ReversedBound
    <3>2. L \in Nat
      BY PowerSteps
    <3> HIDE DEF b
    <3>3. QED
      BY <3>1, <3>2
  <2>2. b < a + E
    <3>1. CASE a + E = L
      BY <2>1, <3>1
    <3>2. CASE a + E < L
      <4> DEFINE e == a + E
                 p == Power(j)
      <4>1. f[E] # 0 /\ Rev(f[E]) = p * e
        BY <1>2, <3>2
      <4>2. Rev(h) < p * e
        BY <1>3, <1>6, <4>1
      <4>3. p * b <= Rev(h)
        BY ReversedBlock DEF Rev
      <4>4. p \in Nat /\ e \in Nat /\ Rev(h) \in Nat
        <5>1. Bits \in Nat
          BY DictAssumption
        <5>2. Rev(h) \in Nat
          BY <5>1, ReversedSteps DEF Rev
        <5>3. p \in Nat
          BY PowerSteps
        <5>4. QED
          BY <1>2, <5>2, <5>3
      <4> HIDE DEF b, e, p
      <4>5. p * b \in Nat /\ p * e \in Nat
        BY <2>1, <4>4
      <4>6. p * b < p * e
        BY <4>2, <4>3, <4>4, <4>5
      <4>7. b < e
        BY <2>1, <4>4, <4>6, SmallerFactor
      <4>8. QED
        BY <4>7 DEF e
    <3>3. a + E \in Nat
      BY <1>2
    <3>4. QED
      BY <1>2, <2>1, <3>1, <3>2, <3>3
  <2>3. Rev(h) < Rev(v) \/ h % S = v % S
    <3> DEFINE e == Reversed(h, s)
               g == t + 1
               m == i + j
    <3>1. e \in Nat
      BY ReversedSteps
    <3>2. K * e <= b
      BY ReversedBlock
    <3> HIDE DEF b, e
    <3>3. K * g = K * t + K /\ g \in Nat
      BY <1>2
    <3>4. K * e < K * g
      <4>1. K * e \in Nat /\ K * g \in Nat
        BY <1>2, <3>1, <3>3
      <4>2. QED
        BY <1>2, <2>1, <2>2, <3>2, <3>3, <4>1
    <3>5. e < g
      <4> HIDE DEF g
      <4>1. QED
        BY <1>2, <3>1, <3>3, <3>4, SmallerFactor
    <3>6. e <= t
      BY <1>2, <3>1, <3>5
    <3>7. m \in Nat /\ s + m = Bits
      OBVIOUS
    <3> HIDE DEF m
    <3>8. QED
      BY <3>6, <3>7, BucketPassed DEF e
  <2>4. Rev(h) < Rev(v) \/ \E n \in 0 .. last - 1 : h % L = f[n] % L
    <3>1. CASE b <= a
      <4>1. Rev(h) < Rev(v) \/ h % Power(l) = v % Power(l)
        <5>1. v \in Nat /\ l \in Nat /\ j \in Nat /\ l + j = Bits
          BY <1>4
        <5>2. Reversed(h, l) <= Reversed(v, l)
          BY <1>4, <3>1
        <5>3. QED
          BY ONLY <5>1, <5>2, h \in Nat, BucketPassed
      <4>2. f[0] = v /\ 0 \in 0 .. last - 1
        BY <1>3, <1>5
      <4>3. QED
        BY <4>1, <4>2
    <3>2. CASE a < b
      <4> DEFINE n == b - a
                 c == f[n]
      <4>1. n \in 0 .. E - 1 /\ b = a + n
        BY <1>2, <2>1, <2>2, <3>2
      <4>2. c \in Nat /\ Reversed(c, l) = b
        BY <1>2, <4>1
      <4> HIDE DEF c
      <4>3. h % Power(l) = c % Power(l)
        BY <4>2, ReversedOnce
      <4>4. h % L = f[n] % L
        BY <4>3 DEF c
      <4>5. QED
        BY <1>3, <4>1, <4>4
    <3>3. QED
      BY <1>2, <2>1, <3>1, <3>2
  <2>5. QED
    BY <2>3, <2>4
<1>7. QED
  BY <1>2, <1>3, <1>6 DEF last

-----------------------------------------------------------------------------
(* The sizes of the tables: powers of two, a cursor for every bucket.     *)

Fits(x) == Sizes(x) \subseteq 0 .. Power(Bits)

\* The sizes that _dictNextPower chooses from.
LEMMA DoublesPower ==
  ASSUME NEW i \in Nat, InitialSize = Power(i), NEW n \in Nat, NEW f, Doubles(f, n)
  PROVE  \A k \in 0 .. n : f[k] = Power(i + k)
<1> DEFINE T == {k \in Nat : f[k] = Power(i + k)}
<1>1. 0 \in T
  BY DEF Doubles
<1>2. ASSUME NEW k \in Nat, k + 1 <= n /\ k \in T PROVE k + 1 \in T
  <2> DEFINE a == i + k
  <2>1. k + 1 \in 1 .. n /\ (k + 1) - 1 = k
    BY <1>2
  <2>2. f[k + 1] = 2 * f[k] /\ f[k] = Power(a)
    BY <1>2, <2>1 DEF Doubles
  <2>3. a \in Nat /\ i + (k + 1) = a + 1
    OBVIOUS
  <2> HIDE DEF a
  <2>4. Power(a + 1) = 2 * Power(a)
    BY <2>3, PowerSteps
  <2>5. QED
    BY <2>2, <2>3, <2>4
<1> HIDE DEF T
<1>3. \A k \in 0 .. n : k \in T
  BY <1>1, <1>2, UpTo
<1>4. QED
  BY <1>3 DEF T

\* What _dictNextPower returns for a number that fits is a power of two that fits.
LEMMA NextPowerFits ==
  ASSUME NEW n \in Nat, n <= Power(Bits)
  PROVE  \E m \in 0 .. Bits : NextPower(n) = Power(m) /\ Power(m) \in 0 .. Power(Bits)
<1>1. PICK i \in 0 .. Bits : InitialSize = Power(i)
  BY CursorAssumption
<1>2. PICK f : \E k \in 0 .. n :
           Doubles(f, n) /\ NextPower(n) = f[k] /\ f[k] >= n /\ \A j \in 0 .. k - 1 : f[j] < n
  BY NextPowerPlace
<1>3. PICK k \in 0 .. n :
           Doubles(f, n) /\ NextPower(n) = f[k] /\ f[k] >= n /\ \A j \in 0 .. k - 1 : f[j] < n
  BY <1>2
<1>4. Bits \in Nat /\ i \in Nat /\ k \in Nat
  BY DictAssumption
<1>5. \A j \in 0 .. n : f[j] = Power(i + j)
  BY <1>1, <1>3, <1>4, DoublesPower
<1> DEFINE m == i + k
<1>6. m \in Nat /\ NextPower(n) = Power(m)
  BY <1>3, <1>4, <1>5
<1>7. m <= Bits
  <2> SUFFICES ASSUME Bits < m PROVE FALSE
    BY <1>4
  <2> DEFINE j == Bits - i
  <2>1. j \in 0 .. k - 1 /\ j \in 0 .. n /\ i + j = Bits
    BY <1>4
  <2>2. f[j] = Power(Bits) /\ f[j] < n
    BY <1>3, <1>5, <2>1
  <2>3. Power(Bits) \in Nat
    BY <1>4, PowerSteps
  <2>4. QED
    BY <2>2, <2>3
<1> HIDE DEF m
<1>8. Power(m) \in Nat /\ Power(Bits) \in Nat
  BY <1>4, <1>6, PowerSteps
<1>9. Power(m) <= Power(Bits)
  <2>1. CASE m = Bits
    BY <1>8, <2>1
  <2>2. CASE m < Bits
    BY <1>4, <1>6, <1>8, <2>2, PowerGrows
  <2>3. QED
    BY <1>4, <1>6, <1>7, <2>1, <2>2
<1>10. m \in 0 .. Bits /\ Power(m) \in 0 .. Power(Bits)
  BY <1>4, <1>6, <1>7, <1>8, <1>9
<1>11. QED
  BY <1>6, <1>10

\* There are not more entries than keys.
LEMMA UsedFits ==
  ASSUME NEW x, DictHolds(x)
  PROVE  x.ht[0].used \in Nat /\ x.ht[0].used + 1 <= Power(Bits)
<1> DEFINE t == x.ht[0]
           u == x.ht[1]
           E == TableEntries(t) \cup TableEntries(u)
<1>1. PartsHold(t, u, x.rehashidx)
  BY DictTaken
<1>2. IsTable(t) /\ IsTable(u) /\ Counted(E, t.used + u.used)
  BY <1>1 DEF PartsHold, TableHolds
<1>3. t.used \in Nat /\ u.used \in Nat
  <2> HIDE DEF t, u
  <2> QED BY <1>2, TableChains
<1>4. E \subseteq Entry
  <2> HIDE DEF t, u
  <2> QED BY <1>2, EntriesByBucket
<1>5. KeysOf(E) \subseteq Key
  BY <1>4, EntryKey DEF KeysOf
<1> HIDE DEF E
<1>6. Cardinality(KeysOf(E)) <= Cardinality(Key) /\ Cardinality(KeysOf(E)) = t.used + u.used
  BY <1>2, <1>5, FS_Subset, CursorAssumption DEF Counted
<1>7. Cardinality(Key) \in Nat /\ Cardinality(Key) < Power(Bits)
  BY CursorAssumption, FS_CardinalityType
<1>8. Power(Bits) \in Nat
  BY DictAssumption, PowerSteps
<1> HIDE DEF t, u
<1>9. t.used \in Nat /\ t.used + 1 <= Power(Bits)
  BY <1>3, <1>6, <1>7, <1>8
<1>10. QED
  BY <1>9 DEF t

\* No size is made, or one that fits.
LEMMA SizesFit ==
  ASSUME NEW x, NEW y, SizesFrom(x, y), Fits(x)
  PROVE  Fits(y)
<1>1. 0 \in 0 .. Power(Bits)
  BY DictAssumption, PowerSteps
<1>2. QED
  BY <1>1 DEF SizesFrom, Fits

\* A table is changed, but not its size.
LEMMA SizeStays ==
  ASSUME NEW x, DictHolds(x), Fits(x), NEW i \in 0 .. 1, NEW v, v.size = x.ht[i].size,
         NEW y, y = [x EXCEPT !.ht[i] = v]
  PROVE  Fits(y)
<1>1. x = Dict2(x.ht[0], x.ht[1], x.rehashidx, x.pauserehash)
  BY DictTaken
<1> DEFINE t == x.ht[0]
           u == x.ht[1]
           r == x.rehashidx
           p == x.pauserehash
<1>2. x = Dict2(t, u, r, p)
  BY <1>1
<1>3. CASE i = 0
  <2>1. y = WithFirst(x, v)
    BY <1>3 DEF WithFirst
  <2> HIDE DEF t, u, r, p
  <2>2. y = Dict2(v, u, r, p)
    BY <1>2, <2>1, SetFirst
  <2>3. y.ht[0] = v /\ y.ht[1] = u
    BY ONLY <2>2, DictParts
  <2>4. Sizes(y) = Sizes(x)
    BY <1>3, <2>3 DEF Sizes, t, u
  <2>5. QED
    BY <2>4 DEF Fits
<1>4. CASE i = 1
  <2>1. y = WithSecond(x, v)
    BY <1>4 DEF WithSecond
  <2> HIDE DEF t, u, r, p
  <2>2. y = Dict2(t, v, r, p)
    BY <1>2, <2>1, SetSecond
  <2>3. y.ht[0] = t /\ y.ht[1] = v
    BY ONLY <2>2, DictParts
  <2>4. Sizes(y) = Sizes(x)
    BY <1>4, <2>3 DEF Sizes, t, u
  <2>5. QED
    BY <2>4 DEF Fits
<1>5. QED
  BY <1>3, <1>4

\* A chain is changed, but not the size of its table.
LEMMA ChangesStay ==
  ASSUME NEW t, IsTable(t), NEW e, NEW k
  PROVE  Push(t, e).size = t.size /\ Revalued(t, e).size = t.size /\ Unlinked(t, k).size = t.size
  BY DEF IsTable, Push, Revalued, Unlinked

\* _dictExpand makes a table of the size that it is asked for.
LEMMA ExpandFits ==
  ASSUME NEW x, DictHolds(x), Fits(x), NEW n \in Nat, NextPower(n) <= Power(Bits)
  PROVE  Fits(Expand(x, n))
<1> DEFINE t == x.ht[0]
           u == x.ht[1]
           r == x.rehashidx
           p == x.pauserehash
           e == EmptyTable(NextPower(n))
           o == 0
           y == Expand(x, n)
<1>1. x = Dict2(t, u, r, p)
  BY DictTaken
<1>2. y = x \/ y = WithFirst(x, e) \/ y = WithIndex(WithSecond(x, e), o)
  BY DEF Expand, WithFirst, WithSecond, WithIndex
<1>3. e.size = NextPower(n) /\ e.size \in 0 .. Power(Bits)
  <2>1. NextPower(n) \in Nat /\ Power(Bits) \in Nat
    BY NextPowerSize, DictAssumption, PowerSteps
  <2>2. e.size = NextPower(n)
    BY DEF EmptyTable
  <2> HIDE DEF e
  <2>3. QED
    BY <2>1, <2>2
<1> HIDE DEF t, u, r, p, e, y, o
<1>4. CASE y = x
  BY <1>4 DEF y
<1>5. CASE y = WithFirst(x, e)
  <2>1. y = Dict2(e, u, r, p)
    BY <1>1, <1>5, SetFirst
  <2>2. y.ht[0] = e /\ y.ht[1] = u
    BY ONLY <2>1, DictParts
  <2>3. QED
    BY <1>3, <2>2 DEF Fits, Sizes, u, y
<1>6. CASE y = WithIndex(WithSecond(x, e), o)
  <2>1. y = Dict2(t, e, o, p)
    BY <1>1, <1>6, SetSecond, SetIndex
  <2>2. y.ht[0] = t /\ y.ht[1] = e
    BY ONLY <2>1, DictParts
  <2>3. QED
    BY <1>3, <2>2 DEF Fits, Sizes, t, y
<1>7. QED
  BY <1>2, <1>4, <1>5, <1>6

\* Sizes up to the number of the keys, and one more.
LEMMA SmallExpandFits ==
  ASSUME NEW x, DictHolds(x), Fits(x), NEW n \in Nat, n <= Power(Bits)
  PROVE  Fits(Expand(x, n))
<1>1. NextPower(n) <= Power(Bits)
  <2>1. PICK m \in 0 .. Bits : NextPower(n) = Power(m) /\ Power(m) \in 0 .. Power(Bits)
    BY NextPowerFits
  <2>2. QED
    BY <2>1
<1>2. QED
  BY <1>1, ExpandFits

\* It is asked for the initial size, or one more than the entries.
LEMMA ExpandIfNeededFits ==
  ASSUME NEW x, DictHolds(x), Fits(x)
  PROVE  Fits(ExpandIfNeeded(x))
<1> DEFINE n == x.ht[0].used + 1
<1>1. n \in Nat /\ n <= Power(Bits)
  BY UsedFits
<1>2. InitialSize \in Nat /\ InitialSize <= Power(Bits)
  <2>1. PICK i \in 0 .. Bits : InitialSize = Power(i)
    BY CursorAssumption
  <2>2. InitialSize \in Nat /\ Bits \in Nat /\ i \in Nat /\ Power(i) \in Nat /\ Power(Bits) \in Nat
    BY DictAssumption, PowerSteps
  <2>3. i = Bits \/ Power(i) < Power(Bits)
    BY <2>2, PowerGrows
  <2>4. QED
    BY <2>1, <2>2, <2>3
<1>3. ExpandIfNeeded(x) = x \/ ExpandIfNeeded(x) = Expand(x, InitialSize)
        \/ ExpandIfNeeded(x) = Expand(x, n)
  BY DEF ExpandIfNeeded
<1> HIDE DEF n
<1>4. Fits(Expand(x, InitialSize)) /\ Fits(Expand(x, n))
  BY <1>1, <1>2, SmallExpandFits
<1>5. QED
  BY <1>3, <1>4

\* A dictionary has two tables.
LEMMA TableOf ==
  ASSUME NEW x, DictHolds(x), NEW i \in 0 .. 1
  PROVE  IsTable(x.ht[i])
<1>1. PartsHold(x.ht[0], x.ht[1], x.rehashidx)
  BY DictTaken
<1>2. IsTable(x.ht[0]) /\ IsTable(x.ht[1])
  BY <1>1 DEF PartsHold, TableHolds
<1>3. i = 0 \/ i = 1
  OBVIOUS
<1>4. QED
  BY <1>2, <1>3

\* Adding, replacing and deleting make no other table.
LEMMA AddRawFits ==
  ASSUME hash \in [Key -> Nat], NEW x, DictHolds(x), Fits(x), NEW e \in Entry
  PROVE  Fits(AddRaw(x, e))
<1> DEFINE s == RehashStep(x)
           z == ExpandIfNeeded(s)
           y == AddRaw(x, e)
           i == IF IsRehashing(z) THEN 1 ELSE 0
           t == z.ht[i]
           v == Push(t, e)
<1>1. DictHolds(s) /\ Fits(s)
  BY RehashStepHolds, SizesFit
<1>2. DictHolds(z) /\ Fits(z)
  <2> HIDE DEF s
  <2> QED BY <1>1, ExpandIfNeededHolds, ExpandIfNeededFits
<1>3. y = z \/ y = [z EXCEPT !.ht[i] = v]
  BY DEF AddRaw
<1> HIDE DEF z, y
<1>4. i \in 0 .. 1
  OBVIOUS
<1> HIDE DEF i
<1>5. IsTable(t)
  BY <1>2, <1>4, TableOf
<1>6. v.size = z.ht[i].size
  <2> HIDE DEF t
  <2>1. v.size = t.size
    BY <1>5, ChangesStay
  <2>2. QED
    BY <2>1 DEF t
<1> HIDE DEF v
<1>7. QED
  BY <1>2, <1>3, <1>4, <1>6, SizeStays DEF y

LEMMA ReplacedFits ==
  ASSUME hash \in [Key -> Nat], NEW x, DictHolds(x), Fits(x), NEW e \in Entry
  PROVE  Fits(Replaced(x, e))
<1> DEFINE z == AddRaw(x, e)
           y == Replaced(x, e)
           i == Holder(z, e.key)
           t == z.ht[i]
           v == Revalued(t, e)
<1>1. DictHolds(z) /\ Fits(z)
  BY AddRawHolds, AddRawFits
<1>2. y = [z EXCEPT !.ht[i] = v]
  BY DEF Replaced
<1>3. i \in 0 .. 1
  BY DEF Holder
<1> HIDE DEF z, y, i
<1>4. IsTable(t)
  BY <1>1, <1>3, TableOf
<1>5. v.size = z.ht[i].size
  <2> HIDE DEF t
  <2>1. v.size = t.size
    BY <1>4, ChangesStay
  <2>2. QED
    BY <2>1 DEF t
<1> HIDE DEF v
<1>6. QED
  BY <1>1, <1>2, <1>3, <1>5, SizeStays DEF y

LEMMA DeletedFits ==
  ASSUME hash \in [Key -> Nat], NEW x, DictHolds(x), Fits(x), NEW k \in Key
  PROVE  Fits(GenericDelete(x, k))
<1> DEFINE z == Stepped(x)
           y == GenericDelete(x, k)
           i == Holder(z, k)
           t == z.ht[i]
           v == Unlinked(t, k)
<1>1. DictHolds(z) /\ Fits(z)
  BY SteppedHolds, SizesFit
<1>2. y = z \/ y = [z EXCEPT !.ht[i] = v]
  BY DEF GenericDelete
<1>3. i \in 0 .. 1
  BY DEF Holder
<1> HIDE DEF z, y, i
<1>4. IsTable(t)
  BY <1>1, <1>3, TableOf
<1>5. v.size = z.ht[i].size
  <2> HIDE DEF t
  <2>1. v.size = t.size
    BY <1>4, ChangesStay
  <2>2. QED
    BY <2>1 DEF t
<1> HIDE DEF v
<1>6. QED
  BY <1>1, <1>2, <1>3, <1>5, SizeStays DEF y

\* The tables of a new dictionary.
LEMMA NewFits ==
  LET x == [ht |-> [i \in 0 .. 1 |-> NoTable], rehashidx |-> -1, pauserehash |-> 0]
  IN  Fits(x)
<1>1. 0 \in 0 .. Power(Bits)
  BY DictAssumption, PowerSteps
<1>2. QED
  BY <1>1 DEF Fits, Sizes, NoTable

\* Every step keeps to these sizes: the keys need no more, and dictExpand is
\* asked for no more.
LEMMA FitsStep ==
  ASSUME DictKept, Fits(d), Next
  PROVE  Fits(d')
<1> DEFINE x == d
<1>1. hash \in [Key -> Nat] /\ DictHolds(x) /\ Fits(x)
  BY HashOfKeys DEF DictKept
<1>2. /\ InitialSize \in Nat /\ Batch \in Nat /\ ExpandSizes \subseteq Nat
      /\ x.ht[0].used \in Nat /\ Size(x) \in Nat
  BY CallNumbers
<1>3. CASE \E e \in Entry : Add(e) \/ Replace(e)
  <2>1. PICK e \in Entry : d' = AddRaw(x, e) \/ d' = Replaced(x, e)
    BY <1>3 DEF Add, Replace
  <2> HIDE DEF x
  <2>2. QED
    BY <1>1, <2>1, AddRawFits, ReplacedFits
<1>4. CASE \E k \in Key : Delete(k)
  <2>1. PICK k \in Key : d' = GenericDelete(x, k)
    BY <1>4 DEF Delete
  <2> HIDE DEF x
  <2>2. QED
    BY <1>1, <2>1, DeletedFits
<1>5. CASE Find
  <2>1. d' = Stepped(x)
    BY <1>5 DEF Find
  <2> HIDE DEF x
  <2>2. QED
    BY <1>1, <2>1, SteppedHolds, SizesFit
<1>6. CASE RehashMilliseconds
  <2>1. d' = Rehash(x, Batch)
    BY <1>6 DEF RehashMilliseconds
  <2> HIDE DEF x
  <2>2. QED
    BY <1>1, <1>2, <2>1, RehashHolds, SizesFit
<1>7. CASE Resize
  <2> DEFINE n == IF d.ht[0].used < InitialSize THEN InitialSize ELSE d.ht[0].used
  <2>1. d' = Expand(x, n)
    BY <1>7 DEF Resize
  <2>2. n \in Nat /\ n <= Power(Bits)
    <3>1. InitialSize <= Power(Bits)
      <4>1. PICK i \in 0 .. Bits : InitialSize = Power(i)
        BY CursorAssumption
      <4>2. Bits \in Nat /\ i \in Nat /\ Power(i) \in Nat /\ Power(Bits) \in Nat
        BY DictAssumption, PowerSteps
      <4>3. i = Bits \/ Power(i) < Power(Bits)
        BY <4>2, PowerGrows
      <4>4. QED
        BY <4>1, <4>2, <4>3
    <3>2. x.ht[0].used + 1 <= Power(Bits) /\ Power(Bits) \in Nat
      <4> HIDE DEF x
      <4> QED BY <1>1, UsedFits, DictAssumption, PowerSteps
    <3>3. QED
      BY <1>2, <3>1, <3>2
  <2> HIDE DEF n, x
  <2>3. QED
    BY <1>1, <2>1, <2>2, SmallExpandFits
<1>8. CASE \E n \in ExpandSizes : ExpandTo(n)
  <2>1. PICK n \in ExpandSizes : d' = Expand(x, n) /\ NextPower(n) <= MaxSize
    BY <1>8 DEF ExpandTo
  <2>2. n \in Nat /\ NextPower(n) <= Power(Bits)
    <3>1. n \in Nat /\ NextPower(n) \in Nat /\ MaxSize \in Nat /\ Power(Bits) \in Nat
      BY <1>2, NextPowerSize, DictAssumption, PowerSteps
    <3>2. MaxSize <= Power(Bits)
      BY DictAssumption
    <3>3. QED
      BY <2>1, <3>1, <3>2
  <2> HIDE DEF x
  <2>3. QED
    BY <1>1, <2>1, <2>2, ExpandFits
<1>9. CASE \E c \in 1 .. Cardinality(Key) : GetSomeKeys(c)
  <2>1. PICK c \in 1 .. Cardinality(Key) :
             d' = SampleSteps(x, IF c < Size(d) THEN c ELSE Size(d))
    BY <1>9 DEF GetSomeKeys
  <2> DEFINE n == IF c < Size(d) THEN c ELSE Size(d)
  <2>2. d' = SampleSteps(x, n) /\ n \in Nat
    BY <1>2, <2>1
  <2> HIDE DEF n, x
  <2>3. QED
    BY <1>1, <2>2, SampleStepsHold, SizesFit
<1>10. CASE Empty
  BY <1>10, NewFits DEF Empty
<1>11. CASE DictNext \/ ReleaseIterator
  <2>1. PICK p : d' = [d EXCEPT !.pauserehash = p]
    BY <1>11 DEF DictNext, ReleaseIterator
  <2>2. x = Dict2(x.ht[0], x.ht[1], x.rehashidx, x.pauserehash)
    <3> HIDE DEF x
    <3> QED BY <1>1, DictTaken
  <2>3. d'.ht = d.ht
    BY <2>1, <2>2 DEF Dict2
  <2>4. QED
    BY <1>1, <2>3 DEF Fits, Sizes
<1>12. CASE \/ \E b \in BOOLEAN : SetCanResize(b) \/ GetIterator(b)
            \/ DictScan \/ LeaveScan
  <2>1. d' = d
    BY <1>12 DEF SetCanResize, GetIterator, DictScan, LeaveScan
  <2>2. QED
    BY <1>1, <2>1
<1>13. QED
  BY <1>3, <1>4, <1>5, <1>6, <1>7, <1>8, <1>9, <1>10, <1>11, <1>12 DEF Next

-----------------------------------------------------------------------------
(* What a call of dictScan emits.                                          *)

\* A size that is not zero is a power of two.
LEMMA SizePower ==
  ASSUME NEW t, IsTable(t), Sized(t), t.size \in 0 .. Power(Bits), t.size # 0
  PROVE  \E m \in 0 .. Bits : t.size = Power(m)
<1> DEFINE n == t.size
<1>1. n \in Nat /\ n <= Power(Bits) /\ NextPower(n) = n
  <2>1. n \in Nat
    BY DEF IsTable
  <2>2. Power(Bits) \in Nat
    BY DictAssumption, PowerSteps
  <2>3. QED
    BY <2>1, <2>2 DEF Sized
<1> HIDE DEF n
<1>2. PICK m \in 0 .. Bits : NextPower(n) = Power(m) /\ Power(m) \in 0 .. Power(Bits)
  BY <1>1, NextPowerFits
<1>3. QED
  BY <1>1, <1>2 DEF n

\* A key is in the bucket that its hash shares with a cursor.
LEMMA BucketHas ==
  ASSUME NEW t, TableHolds(t), NEW k \in KeysIn(t), NEW v, hash[k] % t.size = v % t.size
  PROVE  k \in Bucket(t, v)
<1>1. k \in KeysOf(ToSet(t.table[Index(t, k)]))
  BY KeyBucket
<1>2. k \in KeysOf(ToSet(t.table[v % t.size]))
  BY <1>1 DEF Index
<1>3. QED
  BY <1>2 DEF Bucket, KeysOf

\* What the cursor passes.
Passes(c, v, emitted, K) ==
  /\ c \in Cursors
  /\ \A k \in K : c = 0 \/ Rev(hash[k]) < Rev(c) => Rev(hash[k]) < Rev(v) \/ k \in emitted

\* One bucket of the only table, or one of the smaller table and all those of
\* the larger that it expands to.
LEMMA OneTablePasses ==
  ASSUME hash \in [Key -> Nat], NEW t, TableHolds(t), Sized(t), t.size > 0,
         t.size \in 0 .. Power(Bits), KeysIn(t) \subseteq Key, NEW v \in Cursors
  PROVE  Passes(Increment(v, t.size), v, Bucket(t, v), KeysIn(t))
<1>1. PICK m \in 0 .. Bits : t.size = Power(m)
  BY SizePower DEF TableHolds
<1> DEFINE j == Bits - m
           c == Increment(v, t.size)
<1>2. m \in Nat /\ j \in Nat /\ m + j = Bits /\ v \in Nat
  BY DictAssumption, PowerSteps DEF Cursors
<1> HIDE DEF j
<1>3. c \in Cursors
  BY <1>1, <1>2, NextCursor
<1>4. ASSUME NEW k \in KeysIn(t), c = 0 \/ Rev(hash[k]) < Rev(c)
      PROVE  Rev(hash[k]) < Rev(v) \/ k \in Bucket(t, v)
  <2> DEFINE h == hash[k]
  <2>1. h \in Nat
    BY <1>4
  <2>2. Increment(v, Power(m)) = 0 \/ Rev(h) < Rev(Increment(v, Power(m)))
    BY <1>1, <1>4
  <2> HIDE DEF h
  <2>3. Rev(h) < Rev(v) \/ h % Power(m) = v % Power(m)
    BY <1>2, <2>1, <2>2, CursorPassed
  <2>4. QED
    BY <1>1, <2>3, BucketHas DEF h
<1>5. QED
  BY <1>3, <1>4 DEF Passes

LEMMA TwoTablesPass ==
  ASSUME hash \in [Key -> Nat],
         NEW small, TableHolds(small), Sized(small), small.size > 0,
         NEW large, TableHolds(large), Sized(large), large.size > 0,
         small.size \in 0 .. Power(Bits), large.size \in 0 .. Power(Bits),
         small.size <= large.size,
         KeysIn(small) \subseteq Key, KeysIn(large) \subseteq Key, NEW v \in Cursors
  PROVE  LET rest == ScanExpansions(small, large, v) IN
         Passes(rest.cursor, v, Bucket(small, v) \cup rest.emitted,
                KeysIn(small) \cup KeysIn(large))
<1>1. PICK s \in 0 .. Bits : small.size = Power(s)
  BY SizePower DEF TableHolds
<1>2. PICK l \in 0 .. Bits : large.size = Power(l)
  BY SizePower DEF TableHolds
<1>3. s \in Nat /\ l \in Nat /\ Bits \in Nat /\ v \in Nat
  BY DictAssumption, PowerSteps DEF Cursors
<1>4. s <= l
  <2> SUFFICES ASSUME l < s PROVE FALSE
    BY <1>3
  <2>1. Power(l) < Power(s) /\ Power(l) \in Nat /\ Power(s) \in Nat
    BY <1>3, PowerGrows, PowerSteps
  <2>2. QED
    BY <1>1, <1>2, <2>1
<1> DEFINE i == l - s
           j == Bits - l
           K == Power(i)
           S == small.size
           L == large.size
<1>5. i \in Nat /\ j \in Nat /\ l = s + i /\ l + j = Bits
  BY <1>3, <1>4
<1> HIDE DEF i, j
<1>6. L \div S = K /\ K \in Nat
  <2>1. Power(s + i) = Power(s) * K
    BY <1>3, <1>5, PowerTimes
  <2>2. K \in Nat /\ S \in Nat /\ S > 0
    BY <1>1, <1>3, <1>5, PowerSteps
  <2>3. L = S * K
    BY <1>1, <1>2, <1>5, <2>1
  <2> DEFINE z == 0
  <2> HIDE DEF K, S, L
  <2>4. (S * K + z) \div S = K
    BY <2>2, Divides
  <2>5. S * K + z = S * K
    BY <2>2
  <2>6. QED
    BY <2>2, <2>3, <2>4, <2>5
<1> HIDE DEF K
<1>7. PICK f : Looped(f, small, large, v, K)
  BY <1>2, <1>3, <1>6, ExpansionSteps
<1> DEFINE last == Landing(f, K, S, L)
           rest == ScanExpansions(small, large, v)
<1>8. rest = [emitted |-> UNION {Bucket(large, f[n]) : n \in 0 .. last - 1}, cursor |-> f[last]]
  BY <1>7 DEF Looped
<1> HIDE DEF last, rest
<1>9. /\ f[last] \in Cursors
      /\ \A h \in Nat : f[last] = 0 \/ Rev(h) < Rev(f[last]) =>
           \/ Rev(h) < Rev(v)
           \/ h % S = v % S /\ \E n \in 0 .. last - 1 : h % L = f[n] % L
  <2> DEFINE a == Reversed(v, l)
             t == Reversed(v, s)
             E == (K * t + K) - a
  <2>1. Walking(v, s, i, l, j, f, K, a, t, E)
    BY <1>2, <1>3, <1>5, <1>7 DEF Walking, Looped, K
  <2> HIDE DEF a, t, E
  <2>2. /\ Landing(f, K, Power(s), Power(l)) \in 1 .. K
        /\ f[Landing(f, K, Power(s), Power(l))] \in Cursors
        /\ \A h \in Nat : f[Landing(f, K, Power(s), Power(l))] = 0
                            \/ Rev(h) < Rev(f[Landing(f, K, Power(s), Power(l))]) =>
             \/ Rev(h) < Rev(v)
             \/ /\ h % Power(s) = v % Power(s)
                /\ \E n \in 0 .. Landing(f, K, Power(s), Power(l)) - 1 :
                     h % Power(l) = f[n] % Power(l)
    BY <2>1, ExpansionsPassed
  <2>3. QED
    BY <1>1, <1>2, <2>2 DEF last
<1>10. rest.cursor = f[last] /\ \A n \in 0 .. last - 1 : Bucket(large, f[n]) \subseteq rest.emitted
  BY <1>8
<1>11. ASSUME NEW k \in KeysIn(small) \cup KeysIn(large),
              rest.cursor = 0 \/ Rev(hash[k]) < Rev(rest.cursor)
       PROVE  Rev(hash[k]) < Rev(v) \/ k \in Bucket(small, v) \cup rest.emitted
  <2> DEFINE h == hash[k]
  <2>1. h \in Nat
    BY <1>11
  <2>2. \/ Rev(h) < Rev(v)
        \/ h % S = v % S /\ \E n \in 0 .. last - 1 : h % L = f[n] % L
    BY <1>9, <1>10, <1>11, <2>1
  <2>3. CASE k \in KeysIn(small) /\ h % S = v % S
    BY <2>3, BucketHas
  <2>4. CASE k \in KeysIn(large) /\ \E n \in 0 .. last - 1 : h % L = f[n] % L
    <3>1. PICK n \in 0 .. last - 1 : h % L = f[n] % L
      BY <2>4
    <3> DEFINE c == f[n]
    <3>2. k \in KeysIn(large) /\ hash[k] % large.size = c % large.size
      BY <2>4, <3>1
    <3> HIDE DEF c
    <3>3. k \in Bucket(large, c)
      BY <3>2, BucketHas
    <3>4. QED
      BY <1>10, <3>1, <3>3 DEF c
  <2>5. QED
    BY <1>11, <2>2, <2>3, <2>4
<1>12. QED
  BY <1>9, <1>10, <1>11 DEF Passes, rest

\* No key that has been there is lost between two cursors: a call emits those
\* that its cursor has not passed and the next one has.
LEMMA ScanPasses ==
  ASSUME hash \in [Key -> Nat], NEW x, DictHolds(x), Fits(x), NEW v \in Cursors
  PROVE  LET step == Scan(x, v) IN Passes(step.cursor, v, step.emitted, Keys(x))
<1> DEFINE t == x.ht[0]
           u == x.ht[1]
           step == Scan(x, v)
<1>1. /\ PartsHold(t, u, x.rehashidx) /\ Size(x) = t.used + u.used
      /\ Entries(x) = TableEntries(t) \cup TableEntries(u)
      /\ IsRehashing(x) <=> x.rehashidx # -1
  BY DictTaken
<1>2. TableHolds(t) /\ TableHolds(u) /\ Sized(t) /\ Sized(u)
  BY <1>1 DEF PartsHold
<1>3. t.size \in 0 .. Power(Bits) /\ u.size \in 0 .. Power(Bits)
  BY DEF Fits, Sizes
<1>4. Keys(x) = KeysIn(t) \cup KeysIn(u)
  BY KeysOfTables
<1>5. KeysIn(t) \subseteq Key /\ KeysIn(u) \subseteq Key
  <2>1. IsTable(t) /\ IsTable(u)
    BY <1>2 DEF TableHolds
  <2> HIDE DEF t, u
  <2>2. TableEntries(t) \subseteq Entry /\ TableEntries(u) \subseteq Entry
    BY <2>1, EntriesByBucket
  <2>3. QED
    BY <2>2, EntryKey DEF KeysIn, KeysOf
<1>6. CASE Size(x) = 0
  <2>1. TableEntries(t) = {} /\ TableEntries(u) = {}
    <3>1. IsTable(t) /\ IsTable(u)
      BY <1>2 DEF TableHolds
    <3> HIDE DEF t, u
    <3>2. t.used \in Nat /\ u.used \in Nat
      BY <3>1, TableChains
    <3>3. t.used = 0 /\ u.used = 0
      BY <1>1, <1>6, <3>2
    <3>4. QED
      BY <1>2, <3>3, UsedEntries
  <2>2. Keys(x) = {}
    BY <1>4, <2>1 DEF KeysIn, KeysOf
  <2>3. step = [emitted |-> {}, cursor |-> 0]
    BY <1>6 DEF Scan
  <2>4. step.cursor \in Cursors
    BY <2>3, FirstCursor
  <2> HIDE DEF step
  <2>5. Passes(step.cursor, v, step.emitted, Keys(x))
    BY <2>2, <2>4 DEF Passes
  <2>6. QED
    BY <2>5 DEF step
<1>7. CASE Size(x) # 0
  <2>1. Entries(x) # {}
    <3> SUFFICES ASSUME Entries(x) = {} PROVE FALSE
      OBVIOUS
    <3>1. TableEntries(t) = {} /\ TableEntries(u) = {}
      BY <1>1
    <3> HIDE DEF t, u
    <3>2. t.used = 0 /\ u.used = 0
      BY <1>2, <3>1, UsedEntries
    <3>3. QED
      BY <1>1, <1>7, <3>2
  <2>2. /\ t.size > 0 /\ (IsRehashing(x) => u.size > 0)
        /\ (~IsRehashing(x) => TableEntries(u) = {})
    BY <2>1, TablesUsed
  <2>3. CASE ~IsRehashing(x)
    <3>1. step = [emitted |-> Bucket(t, v), cursor |-> Increment(v, t.size)]
      BY <1>7, <2>3 DEF Scan
    <3>2. Keys(x) = KeysIn(t)
      BY <1>4, <2>2, <2>3 DEF KeysIn, KeysOf
    <3> HIDE DEF t, u, step
    <3>3. Passes(Increment(v, t.size), v, Bucket(t, v), KeysIn(t))
      BY <1>2, <1>3, <1>5, <2>2, OneTablePasses
    <3>4. QED
      BY <3>1, <3>2, <3>3 DEF step
  <2>4. CASE IsRehashing(x)
    <3> DEFINE small == IF t.size > u.size THEN u ELSE t
               large == IF t.size > u.size THEN t ELSE u
               rest  == ScanExpansions(small, large, v)
    <3>1. step = [emitted |-> Bucket(small, v) \cup rest.emitted, cursor |-> rest.cursor]
      BY <1>7, <2>4 DEF Scan
    <3>2. /\ TableHolds(small) /\ Sized(small) /\ small.size > 0
          /\ TableHolds(large) /\ Sized(large) /\ large.size > 0
          /\ small.size \in 0 .. Power(Bits) /\ large.size \in 0 .. Power(Bits)
          /\ KeysIn(small) \subseteq Key /\ KeysIn(large) \subseteq Key
      BY <1>2, <1>3, <1>5, <2>2, <2>4
    <3>3. small.size <= large.size
      <4>1. t.size \in Int /\ u.size \in Int
        <5>1. Power(Bits) \in Nat
          BY DictAssumption, PowerSteps
        <5>2. QED
          BY <1>3, <5>1
      <4> HIDE DEF t, u
      <4>2. QED
        BY <4>1
    <3>4. Keys(x) = KeysIn(small) \cup KeysIn(large)
      BY <1>4
    <3> HIDE DEF small, large
    <3>5. Passes(rest.cursor, v, Bucket(small, v) \cup rest.emitted,
                 KeysIn(small) \cup KeysIn(large))
      BY <3>2, <3>3, TwoTablesPass
    <3> HIDE DEF rest, step, t, u
    <3>6. QED
      BY <3>1, <3>4, <3>5 DEF step
  <2>5. QED
    BY <2>3, <2>4
<1>8. QED
  BY <1>6, <1>7

-----------------------------------------------------------------------------
(* The scan.                                                               *)

\* The keys before the cursor, in the order of the reversed bits of their
\* hashes, have been returned, if they were there all the time.
ScanKept ==
  /\ cursor \in Cursors
  /\ walk \in {"none", "iterator"} => cursor = 0
  /\ walk = "scan" => /\ stable \subseteq Keys(d)
                      /\ \A k \in stable : Rev(hash[k]) < Rev(cursor) => k \in seen
  /\ walk = "scanned" => stable \subseteq seen

\* A call between two of the scan, which takes out a key that it also takes
\* from those that stay.
LEMMA ScanByCall ==
  ASSUME ScanKept, UNCHANGED <<hash, walk, cursor, seen>>, stable' \subseteq stable,
         walk = "scan" => stable' \subseteq Keys(d')
  PROVE  ScanKept'
  BY DEF ScanKept

\* dictScan, called again.
LEMMA ScanByScan ==
  ASSUME DictKept, Fits(d), ScanKept, DictScan
  PROVE  ScanKept'
<1> DEFINE v == IF walk = "none" THEN 0 ELSE cursor
           step == Scan(d, v)
           c == step.cursor
           x == d
<1>1. /\ walk \in {"none", "scan"} /\ walk' = IF c = 0 THEN "scanned" ELSE "scan"
      /\ cursor' = c /\ stable' = IF walk = "none" THEN Keys(d) ELSE stable
      /\ seen' = seen \cup step.emitted /\ hash' = hash /\ d' = d
  BY DEF DictScan
<1>2. hash \in [Key -> Nat] /\ DictHolds(x) /\ Fits(x)
  BY HashOfKeys DEF DictKept
<1>3. v \in Cursors /\ (walk = "none" => Rev(v) = 0)
  BY FirstCursor DEF ScanKept
<1>4. Passes(c, v, step.emitted, Keys(d))
  <2>1. LET s == Scan(x, v) IN Passes(s.cursor, v, s.emitted, Keys(x))
    <3> HIDE DEF x, v
    <3> QED BY <1>2, <1>3, ScanPasses
  <2>2. QED
    BY <2>1
<1>5. stable' \subseteq Keys(d)
  BY <1>1 DEF ScanKept
<1>6. ASSUME NEW k \in stable', c = 0 \/ Rev(hash[k]) < Rev(c)
      PROVE  k \in seen'
  <2>1. k \in Keys(d) /\ (Rev(hash[k]) < Rev(v) \/ k \in step.emitted)
    BY <1>4, <1>5, <1>6 DEF Passes
  <2>2. CASE walk = "scan"
    <3>1. k \in stable /\ v = cursor
      BY <1>1, <2>2
    <3>2. Rev(hash[k]) < Rev(v) => k \in seen
      BY <2>2, <3>1 DEF ScanKept
    <3>3. QED
      BY <1>1, <2>1, <3>2
  <2>3. CASE walk = "none"
    <3>1. hash[k] \in Nat
      <4>1. k \in Key
        <5> HIDE DEF x
        <5>1. Keys(x) \subseteq Key
          BY <1>2, DictUnique, EntryKey DEF Keys
        <5>2. QED
          BY <2>1, <5>1 DEF x
      <4>2. QED
        BY <1>2, <4>1
    <3>2. Rev(hash[k]) \in Nat
      BY <3>1, ReversedSteps, DictAssumption DEF Rev
    <3>3. ~(Rev(hash[k]) < Rev(v))
      <4> HIDE DEF v
      <4> QED BY <1>3, <2>3, <3>2
    <3>4. QED
      BY <1>1, <2>1, <3>3
  <2>4. QED
    BY <1>1, <2>2, <2>3
<1>7. c \in Cursors
  BY <1>4 DEF Passes
<1> HIDE DEF c, step, v
<1>8. CASE c = 0
  BY <1>1, <1>6, <1>7, <1>8 DEF ScanKept
<1>9. CASE c # 0
  BY <1>1, <1>5, <1>6, <1>7, <1>9 DEF ScanKept
<1>10. QED
  BY <1>8, <1>9

\* Every step keeps the account of the scan.
LEMMA ScanStep ==
  ASSUME DictKept, Fits(d), ScanKept, Next
  PROVE  ScanKept'
<1> DEFINE x == d
<1>1. hash \in [Key -> Nat] /\ DictHolds(x)
  BY HashOfKeys DEF DictKept
<1>2. walk = "scan" => stable \subseteq Keys(d)
  BY DEF ScanKept
<1>3. \A y : Keys(y) = KeysOf(Entries(y))
  BY DEF Keys, KeysOf
<1>4. CASE \E e \in Entry : Add(e) \/ Replace(e)
  <2>1. PICK e \in Entry : Add(e) \/ Replace(e)
    BY <1>4
  <2>2. d' = AddRaw(x, e) \/ d' = Replaced(x, e)
    BY <2>1 DEF Add, Replace
  <2>3. UNCHANGED <<hash, walk, cursor, seen, stable>>
    BY <2>1 DEF Add, Replace, walkVars
  <2> HIDE DEF x
  <2>4. /\ Entries(AddRaw(x, e)) = IF Of(Entries(x), e.key) # {} THEN Entries(x)
                                   ELSE Entries(x) \cup {e}
        /\ Entries(Replaced(x, e)) = Others(Entries(x), e.key) \cup {e}
    BY <1>1, AddRawHolds, ReplacedHolds
  <2>5. Keys(x) \subseteq Keys(d')
    BY <1>3, <2>2, <2>4 DEF KeysOf, Others
  <2>6. QED
    BY <1>2, <2>3, <2>5, ScanByCall DEF x
<1>5. CASE \E k \in Key : Delete(k)
  <2>1. PICK k \in Key : Delete(k)
    BY <1>5
  <2>2. d' = GenericDelete(x, k) /\ stable' = stable \ {k} /\ UNCHANGED <<hash, walk, cursor, seen>>
    BY <2>1 DEF Delete
  <2> HIDE DEF x
  <2>3. Entries(GenericDelete(x, k)) = Others(Entries(x), k)
    BY <1>1, DeletedHolds
  <2>4. Keys(x) \ {k} \subseteq Keys(d')
    BY <1>3, <2>2, <2>3 DEF KeysOf, Others
  <2>5. stable' \subseteq stable /\ (walk = "scan" => stable' \subseteq Keys(d'))
    BY <1>2, <2>2, <2>4 DEF x
  <2>6. QED
    BY <2>2, <2>5, ScanByCall
<1>6. ASSUME UNCHANGED <<hash, walk, cursor, seen, stable>>, Entries(d') = Entries(d)
      PROVE  ScanKept'
  <2>1. Keys(d') = Keys(d)
    BY <1>3, <1>6
  <2>2. QED
    BY <1>2, <1>6, <2>1, ScanByCall
<1>7. CASE Find \/ RehashMilliseconds \/ Resize \/ (\E n \in ExpandSizes : ExpandTo(n))
             \/ (\E n \in 1 .. Cardinality(Key) : GetSomeKeys(n))
  <2>1. UNCHANGED <<hash, walk, cursor, seen, stable>>
    BY <1>7 DEF Find, RehashMilliseconds, Resize, ExpandTo, GetSomeKeys, walkVars
  <2>2. /\ InitialSize \in Nat /\ Batch \in Nat /\ ExpandSizes \subseteq Nat
        /\ d.ht[0].used \in Nat /\ Size(d) \in Nat
    BY CallNumbers
  <2>3. \/ d' = Stepped(d)
        \/ \E n \in Nat : d' = Rehash(d, n) \/ d' = Expand(d, n) \/ d' = SampleSteps(d, n)
    BY <1>7, <2>2 DEF Find, RehashMilliseconds, Resize, ExpandTo, GetSomeKeys
  <2>4. Entries(d') = Entries(d)
    BY <2>3, CallsHold DEF Same
  <2>5. QED
    BY <1>6, <2>1, <2>4
<1>8. CASE Empty
  <2>1. stable' = {} /\ UNCHANGED <<hash, walk, cursor, seen>>
    BY <1>8 DEF Empty
  <2>2. QED
    BY <2>1, ScanByCall
<1>9. CASE \E b \in BOOLEAN : SetCanResize(b)
  <2>1. UNCHANGED <<hash, walk, cursor, seen, stable, d>>
    BY <1>9 DEF SetCanResize, walkVars
  <2>2. QED
    BY <1>6, <2>1
<1>10. CASE (\E b \in BOOLEAN : GetIterator(b)) \/ DictNext
  <2>1. walk \in {"none", "iterator"} /\ walk' = "iterator" /\ cursor' = cursor
    BY <1>10 DEF GetIterator, DictNext
  <2>2. QED
    BY <2>1 DEF ScanKept
<1>11. CASE ReleaseIterator \/ LeaveScan
  <2>1. walk' = "none" /\ cursor' = 0
    BY <1>11 DEF ReleaseIterator, LeaveScan, EndWalk
  <2>2. QED
    BY <2>1, FirstCursor DEF ScanKept
<1>12. CASE DictScan
  BY <1>12, ScanByScan
<1>13. QED
  BY <1>4, <1>5, <1>7, <1>8, <1>9, <1>10, <1>11, <1>12 DEF Next

\* THEOREM: a complete scan has returned every key that was there all the
\* time, however the table was resized and rehashed between the calls, and
\* its cursors fit (dictScan, dict.c:808).
THEOREM ScanIsComplete == Spec => []ScanMissesNothing
<1> DEFINE Inv == DictKept /\ Fits(d) /\ ScanKept
<1>1. Init => Inv
  <2> SUFFICES ASSUME Init PROVE Inv
    OBVIOUS
  <2>1. DictKept
    BY KeptInit
  <2>2. Fits(d)
    BY NewFits DEF Init
  <2>3. ScanKept
    BY FirstCursor DEF Init, ScanKept
  <2>4. QED
    BY <2>1, <2>2, <2>3
<1>2. Inv /\ [Next]_vars => Inv'
  <2>1. Inv /\ Next => Inv'
    BY KeptStep, FitsStep, ScanStep
  <2>2. Inv /\ UNCHANGED vars => Inv'
    <3> SUFFICES ASSUME Inv, UNCHANGED vars PROVE Inv'
      OBVIOUS
    <3>1. UNCHANGED <<hash, canResize, d, walk, iter, cursor, seen, stable>>
      BY DEF vars, walkVars
    <3>2. DictKept'
      <4>1. DictHolds(d') /\ d'.pauserehash = d.pauserehash /\ canResize' \in BOOLEAN
        BY <3>1 DEF DictKept
      <4>2. QED
        BY <3>1, <4>1, KeptByCall
    <3>3. ScanKept'
      BY <3>1, ScanByCall DEF ScanKept
    <3>4. QED
      BY <3>1, <3>2, <3>3
  <2>3. QED
    BY <2>1, <2>2
<1>3. Inv => ScanMissesNothing
  BY DEF ScanKept, ScanMissesNothing, Cursors
<1>4. QED
  BY <1>1, <1>2, <1>3, PTL DEF Spec
-----------------------------------------------------------------------------
(* Sampling.                                                               *)

\* One chain after the other, without a common key.
LEMMA JoinedOnce ==
  ASSUME NEW a \in Seq(Entry), NEW b \in Seq(Entry), OneOfEach(a), OneOfEach(b),
         \A e \in ToSet(a), f \in ToSet(b) : e.key # f.key
  PROVE  /\ a \o b \in Seq(Entry) /\ Len(a \o b) = Len(a) + Len(b)
         /\ OneOfEach(a \o b) /\ ToSet(a \o b) = ToSet(a) \cup ToSet(b)
<1> DEFINE c == a \o b
           n == Len(a)
           m == Len(b)
<1>1. /\ c \in Seq(Entry) /\ Len(c) = n + m
      /\ \A p \in 1 .. n + m : c[p] = IF p <= n THEN a[p] ELSE b[p - n]
  BY JoinedChain
<1>2. /\ n \in Nat /\ DOMAIN a = 1 .. n /\ ToSet(a) = {a[p] : p \in 1 .. n}
      /\ m \in Nat /\ DOMAIN b = 1 .. m /\ ToSet(b) = {b[p] : p \in 1 .. m}
  BY ChainEntries
<1> HIDE DEF c
<1>3. DOMAIN c = 1 .. n + m /\ ToSet(c) = {c[p] : p \in 1 .. n + m}
  BY <1>1, ChainEntries
<1> HIDE DEF n, m
<1>4. ASSUME NEW p \in 1 .. n + m
      PROVE  \/ p \in 1 .. n /\ c[p] = a[p]
             \/ p - n \in 1 .. m /\ ~(p <= n) /\ c[p] = b[p - n]
  BY <1>1, <1>2
<1>5. ASSUME NEW p \in 1 .. n PROVE p \in 1 .. n + m /\ c[p] = a[p]
  BY <1>1, <1>2
<1>6. ASSUME NEW p \in 1 .. m PROVE n + p \in 1 .. n + m /\ c[n + p] = b[p]
  <2>1. n + p \in 1 .. n + m /\ ~(n + p <= n) /\ (n + p) - n = p
    BY <1>2
  <2>2. QED
    BY <1>1, <2>1
<1>7. ToSet(c) = ToSet(a) \cup ToSet(b)
  <2>1. ToSet(c) \subseteq ToSet(a) \cup ToSet(b)
    BY <1>2, <1>3, <1>4
  <2>2. ToSet(a) \subseteq ToSet(c)
    BY <1>2, <1>3, <1>5
  <2>3. ToSet(b) \subseteq ToSet(c)
    BY <1>2, <1>3, <1>6
  <2>4. QED
    BY <2>1, <2>2, <2>3
<1>8. OneOfEach(c)
  <2> SUFFICES ASSUME NEW p \in 1 .. n + m, NEW q \in 1 .. n + m, c[p].key = c[q].key
               PROVE  p = q
    BY <1>3 DEF OneOfEach
  <2>1. \A i, j \in 1 .. n : a[i].key = a[j].key => i = j
    BY <1>2 DEF OneOfEach
  <2>2. \A i, j \in 1 .. m : b[i].key = b[j].key => i = j
    BY <1>2 DEF OneOfEach
  <2>3. \A i \in 1 .. n, j \in 1 .. m : a[i].key # b[j].key
    BY <1>2
  <2>4. CASE p \in 1 .. n /\ c[p] = a[p]
    BY <1>4, <2>1, <2>3, <2>4
  <2>5. CASE p - n \in 1 .. m /\ ~(p <= n) /\ c[p] = b[p - n]
    <3>1. q - n \in 1 .. m /\ c[q] = b[q - n]
      BY <1>4, <2>3, <2>5
    <3>2. p - n = q - n
      BY <2>2, <2>5, <3>1
    <3>3. QED
      BY <1>2, <3>2
  <2>6. QED
    BY <1>4, <2>4, <2>5
<1>9. QED
  BY <1>1, <1>7, <1>8 DEF c, n, m

\* A chain of some of the entries is as long as there are entries only if it
\* has them all.
LEMMA PartOfEntries ==
  ASSUME NEW E, Unique(E), NEW n, Counted(E, n),
         NEW c \in Seq(Entry), OneOfEach(c), ToSet(c) \subseteq E
  PROVE  n \in Nat /\ Len(c) <= n /\ (Len(c) = n <=> ToSet(c) = E)
<1> DEFINE l == Len(c)
           S == 1 .. l
           K == KeysOf(E)
           f == [p \in S |-> c[p].key]
<1>1. l \in Nat /\ DOMAIN c = S /\ ToSet(c) = {c[p] : p \in S}
  BY ChainEntries
<1>2. IsFiniteSet(K) /\ Cardinality(K) = n /\ n \in Nat
  BY FS_CardinalityType DEF Counted
<1>3. IsFiniteSet(S) /\ Cardinality(S) = l
  <2>1. l \in Nat
    BY <1>1
  <2> HIDE DEF l
  <2>2. IsFiniteSet(1 .. l) /\ Cardinality(1 .. l) = IF 1 > l THEN 0 ELSE l - 1 + 1
    BY <2>1, FS_Interval
  <2>3. QED
    BY <2>1, <2>2
<1>4. f \in [S -> K]
  BY <1>1 DEF KeysOf
<1>5. \A p, q \in S : f[p] = f[q] => p = q
  BY <1>1 DEF OneOfEach
<1>6. \A e \in E : (\E p \in S : f[p] = e.key) => e \in ToSet(c)
  <2> SUFFICES ASSUME NEW e \in E, NEW p \in S, f[p] = e.key PROVE e \in ToSet(c)
    OBVIOUS
  <2>1. c[p] \in ToSet(c) /\ c[p].key = e.key
    BY <1>1
  <2>2. QED
    BY <2>1 DEF Unique
<1>7. \A e \in ToSet(c) : \E p \in S : f[p] = e.key
  BY <1>1
<1> HIDE DEF l, S, K, f
<1>8. f \in Injection(S, K)
  BY <1>4, <1>5 DEF Injection, IsInjective
<1>9. l <= n /\ (l = n <=> f \in Surjection(S, K))
  BY <1>2, <1>3, <1>8, FS_Injection
<1>10. f \in Surjection(S, K) <=> \A k \in K : \E p \in S : f[p] = k
  BY <1>4 DEF Surjection
<1>11. ToSet(c) = E => f \in Surjection(S, K)
  BY <1>7, <1>10 DEF K, KeysOf
<1>12. f \in Surjection(S, K) => ToSet(c) = E
  BY <1>6, <1>10 DEF K, KeysOf
<1>13. QED
  BY <1>2, <1>9, <1>11, <1>12 DEF l

\* A state of the walk.
Sampled(s) ==
  /\ s = [i |-> s.i, emptylen |-> s.emptylen, keys |-> s.keys]
  /\ s.i \in Nat /\ s.emptylen \in Nat
  /\ s.keys \in Seq(Entry) /\ OneOfEach(s.keys)

\* A chain that is not cut off.
LEMMA WholeChain ==
  ASSUME NEW c \in Seq(Entry), NEW n \in Nat, Len(c) <= n
  PROVE  SubSeq(c, 1, Min({n, Len(c)})) = c
<1> DEFINE l == Len(c)
<1>1. l \in Nat /\ Min({n, l}) = l
  <2>1. l \in Nat
    BY ChainEntries
  <2> HIDE DEF l
  <2>2. l \in {n, l} /\ \A y \in {n, l} : l =< y
    BY <2>1 DEF l
  <2>3. \A z \in {n, l} : (\A y \in {n, l} : z =< y) => z = l
    BY <2>1, <2>2
  <2>4. QED
    BY <2>1, <2>2, <2>3 DEF Min
<1>2. SubSeq(c, 1, l) = c
  OBVIOUS
<1>3. QED
  BY <1>1, <1>2

\* What a bucket adds.
LEMMA CollectTakes ==
  ASSUME NEW E, Unique(E), NEW n, Counted(E, n), NEW s, Sampled(s), NEW i \in Nat,
         NEW c \in Seq(Entry), OneOfEach(c), ToSet(c) \subseteq E, ToSet(s.keys) \subseteq E,
         \A e \in ToSet(s.keys), f \in ToSet(c) : e.key # f.key
  PROVE  LET z == Collect(s, i, c, n) IN
         /\ Sampled(z) /\ z.i = i /\ ToSet(z.keys) = ToSet(s.keys) \cup ToSet(c)
<1> DEFINE z == Collect(s, i, c, n)
<1>1. s = [i |-> s.i, emptylen |-> s.emptylen, keys |-> s.keys] /\ s.emptylen \in Nat
      /\ s.keys \in Seq(Entry) /\ OneOfEach(s.keys)
  BY DEF Sampled
<1>2. CASE c = << >>
  <2>1. z = [s EXCEPT !.i = i, !.emptylen = @ + 1]
    BY <1>2 DEF Collect
  <2>2. z = [i |-> i, emptylen |-> s.emptylen + 1, keys |-> s.keys]
    BY <1>1, <2>1
  <2> HIDE DEF z
  <2>3. z.i = i /\ z.emptylen = s.emptylen + 1 /\ z.keys = s.keys
    BY <2>2
  <2>4. QED
    BY <1>1, <1>2, <2>2, <2>3, EmptyChain DEF Sampled, z
<1>3. CASE c # << >>
  <2> DEFINE k == s.keys
             j == k \o c
  <2>1. /\ j \in Seq(Entry) /\ Len(j) = Len(k) + Len(c)
        /\ OneOfEach(j) /\ ToSet(j) = ToSet(k) \cup ToSet(c)
    BY <1>1, JoinedOnce
  <2>2. z = [i |-> i, emptylen |-> 0, keys |-> SubSeq(j, 1, Min({n, Len(k) + Len(c)}))]
    BY <1>3 DEF Collect
  <2> HIDE DEF j, k
  <2>3. ToSet(j) \subseteq E
    BY <2>1 DEF k
  <2>4. n \in Nat /\ Len(j) <= n
    BY <2>1, <2>3, PartOfEntries
  <2>5. SubSeq(j, 1, Min({n, Len(j)})) = j
    BY <2>1, <2>4, WholeChain
  <2>6. z = [i |-> i, emptylen |-> 0, keys |-> j]
    BY <2>1, <2>2, <2>5
  <2> HIDE DEF z
  <2>7. z.i = i /\ z.emptylen = 0 /\ z.keys = j
    BY <2>6
  <2>8. QED
    BY <2>1, <2>6, <2>7 DEF Sampled, k, z
<1>4. QED
  BY <1>2, <1>3

\* The buckets of the larger table.
LEMMA SlotsMax ==
  ASSUME NEW x, DictHolds(x), Entries(x) # {}
  PROVE  LET T == Slots(x) IN
         /\ T \in Nat /\ T > 0 /\ T \in {x.ht[0].size, x.ht[1].size}
         /\ x.ht[0].size <= T /\ x.ht[1].size <= T
<1> DEFINE a == x.ht[0].size
           b == x.ht[1].size
           T == Slots(x)
<1>1. a \in Nat /\ b \in Nat /\ a > 0
  BY DictTaken, TableChains, TablesUsed DEF PartsHold, TableHolds
<1>2. T = Max({a, b})
  <2>1. {x.ht[i].size : i \in 0 .. 1} = {a, b}
    OBVIOUS
  <2>2. QED
    BY <2>1 DEF Slots
<1> HIDE DEF a, b, T
<1>3. \E z \in {a, b} : \A y \in {a, b} : z >= y
  BY <1>1
<1>4. T \in {a, b} /\ \A y \in {a, b} : T >= y
  BY <1>2, <1>3 DEF Max
<1>5. QED
  BY <1>1, <1>4 DEF a, b, T

\* The entries of a bucket, of the bucket in both tables, and of several.
In(t, p)    == IF p < t.size THEN ToSet(t.table[p]) ELSE {}
Place(x, p) == In(x.ht[0], p) \cup In(x.ht[1], p)
Met(x, Q)   == UNION {Place(x, p) : p \in Q}

\* A bucket has entries of its table, and none of their keys is in another.
LEMMA InTable ==
  ASSUME NEW t, TableHolds(t)
  PROVE  /\ \A p \in Nat : In(t, p) \subseteq TableEntries(t)
         /\ \A e \in TableEntries(t) : \E p \in 0 .. t.size - 1 : e \in In(t, p)
         /\ \A p, q \in Nat : \A e \in In(t, p), f \in In(t, q) : e.key = f.key => p = q
<1>1. IsTable(t) /\ t.size \in Nat
  BY TableChains DEF TableHolds
<1>2. \A e : e \in TableEntries(t) <=> \E j \in 0 .. t.size - 1 : e \in ToSet(t.table[j])
  BY <1>1, EntriesByBucket
<1>3. \A j \in 0 .. t.size - 1 : \A e \in ToSet(t.table[j]) : Index(t, e.key) = j
  BY DEF TableHolds
<1>4. \A p \in Nat : \A e \in In(t, p) : p \in 0 .. t.size - 1 /\ e \in ToSet(t.table[p])
  BY <1>1 DEF In
<1>5. \A p \in 0 .. t.size - 1 : \A e \in ToSet(t.table[p]) : e \in In(t, p)
  BY <1>1 DEF In
<1>6. \A p, q \in Nat : \A e \in In(t, p), f \in In(t, q) : e.key = f.key => p = q
  BY <1>3, <1>4
<1>7. QED
  BY <1>2, <1>4, <1>5, <1>6

\* The places have all the entries, and none has a key of another.
LEMMA Places ==
  ASSUME NEW x, DictHolds(x)
  PROVE  /\ \A p \in Nat : Place(x, p) \subseteq Entries(x)
         /\ \A p \in Nat : \A e \in In(x.ht[0], p), f \in In(x.ht[1], p) : e.key # f.key
         /\ \A p, q \in Nat : \A e \in Place(x, p), f \in Place(x, q) : e.key = f.key => p = q
         /\ Entries(x) # {} => Met(x, 0 .. Slots(x) - 1) = Entries(x)
<1> DEFINE t == x.ht[0]
           u == x.ht[1]
<1>1. PartsHold(t, u, x.rehashidx) /\ Entries(x) = TableEntries(t) \cup TableEntries(u)
  BY DictTaken
<1>2. /\ TableHolds(t) /\ TableHolds(u) /\ t.size \in Nat /\ u.size \in Nat
      /\ \A e \in TableEntries(t), f \in TableEntries(u) : e.key # f.key
  BY <1>1, TableChains DEF PartsHold, TableHolds
<1>3. \A p : Place(x, p) = In(t, p) \cup In(u, p)
  BY DEF Place
<1> HIDE DEF t, u
<1>4. \A p \in Nat : In(t, p) \subseteq TableEntries(t) /\ In(u, p) \subseteq TableEntries(u)
  BY <1>2, InTable
<1>5. \A p \in Nat : Place(x, p) \subseteq Entries(x)
  BY <1>1, <1>3, <1>4
<1>6. \A p \in Nat : \A e \in In(t, p), f \in In(u, p) : e.key # f.key
  BY <1>2, <1>4
<1>7. \A p, q \in Nat : \A e \in Place(x, p), f \in Place(x, q) : e.key = f.key => p = q
  <2> SUFFICES ASSUME NEW p \in Nat, NEW q \in Nat, NEW e \in Place(x, p), NEW f \in Place(x, q),
                      e.key = f.key
               PROVE  p = q
    OBVIOUS
  <2>1. \/ e \in In(t, p) /\ f \in In(t, q)
        \/ e \in In(u, p) /\ f \in In(u, q)
    BY <1>2, <1>3, <1>4
  <2>2. QED
    BY <1>2, <2>1, InTable
<1>8. ASSUME Entries(x) # {} PROVE Met(x, 0 .. Slots(x) - 1) = Entries(x)
  <2> DEFINE T == Slots(x)
  <2>1. T \in Nat /\ t.size <= T /\ u.size <= T
    BY <1>8, SlotsMax DEF t, u
  <2> HIDE DEF T
  <2>2. Met(x, 0 .. T - 1) \subseteq Entries(x)
    BY <1>5 DEF Met
  <2>3. ASSUME NEW e \in Entries(x) PROVE e \in Met(x, 0 .. T - 1)
    <3>1. \E p \in 0 .. T - 1 : e \in In(t, p) \/ e \in In(u, p)
      <4>1. CASE e \in TableEntries(t)
        <5>1. PICK p \in 0 .. t.size - 1 : e \in In(t, p)
          BY <1>2, <4>1, InTable
        <5>2. p \in 0 .. T - 1
          BY <1>2, <2>1
        <5>3. QED
          BY <5>1, <5>2
      <4>2. CASE e \in TableEntries(u)
        <5>1. PICK p \in 0 .. u.size - 1 : e \in In(u, p)
          BY <1>2, <4>2, InTable
        <5>2. p \in 0 .. T - 1
          BY <1>2, <2>1
        <5>3. QED
          BY <5>1, <5>2
      <4>3. QED
        BY <1>1, <4>1, <4>2
    <3>2. QED
      BY <1>3, <3>1 DEF Met
  <2>4. QED
    BY <2>2, <2>3 DEF T
<1>9. QED
  BY <1>5, <1>6, <1>7, <1>8 DEF t, u

\* The rehashing that a sample finds under way has a bucket to move.
Ahead(x) == IsRehashing(x) => x.rehashidx < x.ht[0].size

\* The dictionary that is sampled.
Ready(x, n, T) ==
  /\ DictHolds(x) /\ Ahead(x) /\ Entries(x) # {}
  /\ Unique(Entries(x)) /\ Counted(Entries(x), n) /\ T = Slots(x)

\* Where a round of the walk looks.
Target(x, i) ==
  IF IsRehashing(x) /\ i < x.rehashidx /\ i >= x.ht[1].size THEN x.rehashidx ELSE i

\* What the walk has found in what it passed.
Found(x, s) == Sampled(s) /\ ToSet(s.keys) \subseteq Entries(x)

\* The keys of the place are still to be found.
Fresh(x, s, p) == \A e \in ToSet(s.keys), f \in Place(x, p) : e.key # f.key

\* The numbers of a dictionary that is sampled.
LEMMA ReadyNumbers ==
  ASSUME NEW x, NEW n, NEW T, Ready(x, n, T)
  PROVE  /\ T \in Nat /\ T > 0 /\ n \in Nat
         /\ x.ht[0].size \in Nat /\ x.ht[1].size \in Nat
         /\ x.ht[0].size <= T /\ x.ht[1].size <= T /\ T \in {x.ht[0].size, x.ht[1].size}
         /\ IsRehashing(x) => /\ x.rehashidx \in 0 .. x.ht[0].size - 1
                              /\ \A p \in 0 .. x.rehashidx - 1 : In(x.ht[0], p) = {}
         /\ ~IsRehashing(x) => x.ht[1].size = 0
         /\ \A p \in Nat : x.ht[1].size <= p => In(x.ht[1], p) = {}
         /\ \A p \in Nat : x.ht[0].size <= p => In(x.ht[0], p) = {}
<1> DEFINE t == x.ht[0]
           u == x.ht[1]
           r == x.rehashidx
<1>1. DictHolds(x) /\ Ahead(x) /\ Entries(x) # {} /\ Counted(Entries(x), n) /\ T = Slots(x)
  BY DEF Ready
<1>2. T \in Nat /\ T > 0 /\ t.size <= T /\ u.size <= T /\ T \in {t.size, u.size}
  BY <1>1, SlotsMax
<1>3. n \in Nat
  BY <1>1, FS_CardinalityType DEF Counted
<1>4. PartsHold(t, u, r) /\ (IsRehashing(x) <=> r # -1)
  BY <1>1, DictTaken
<1>5. t.size \in Nat /\ u.size \in Nat
  BY <1>4, TableChains DEF PartsHold, TableHolds
<1>6. ~IsRehashing(x) => u.size = 0
  BY <1>4 DEF PartsHold, NoTable
<1>7. IsRehashing(x) => r \in 0 .. t.size - 1 /\ \A p \in 0 .. r - 1 : t.table[p] = << >>
  BY <1>1, <1>4, <1>5 DEF PartsHold, Ahead
<1> HIDE DEF t, u, r
<1>8. \A p \in Nat : (u.size <= p => In(u, p) = {}) /\ (t.size <= p => In(t, p) = {})
  BY <1>5 DEF In
<1>9. IsRehashing(x) => \A p \in 0 .. r - 1 : In(t, p) = {}
  BY <1>7, EmptyChain DEF In
<1>10. QED
  BY <1>2, <1>3, <1>5, <1>6, <1>7, <1>8, <1>9 DEF t, u, r

\* A walk at bucket i of table k.
Visits(x, n, s, k, i, y) ==
  y = IF i >= x.ht[k].size THEN [s EXCEPT !.i = i] ELSE Collect(s, i, x.ht[k].table[i], n)

\* The keys of the bucket are still to be found.
Unmet(x, s, k, i) == \A e \in ToSet(s.keys), f \in In(x.ht[k], i) : e.key # f.key

\* One bucket of one table.
LEMMA BucketVisited ==
  ASSUME NEW x, NEW n, NEW T, Ready(x, n, T), NEW s, Found(x, s), NEW k \in 0 .. 1, NEW i \in Nat,
         Unmet(x, s, k, i),
         NEW y, Visits(x, n, s, k, i, y)
  PROVE  Found(x, y) /\ y.i = i /\ ToSet(y.keys) = ToSet(s.keys) \cup In(x.ht[k], i)
<1> DEFINE t == x.ht[k]
           E == Entries(x)
<1>1. /\ DictHolds(x) /\ Unique(E) /\ Counted(E, n)
      /\ Sampled(s) /\ ToSet(s.keys) \subseteq E
  BY DEF Ready, Found
<1>2. TableHolds(t) /\ TableEntries(t) \subseteq E
  <2>1. PartsHold(x.ht[0], x.ht[1], x.rehashidx) /\ E = TableEntries(x.ht[0]) \cup TableEntries(x.ht[1])
    BY <1>1, DictTaken
  <2>2. k = 0 \/ k = 1
    OBVIOUS
  <2>3. QED
    BY <2>1, <2>2 DEF PartsHold
<1>3. t.size \in Nat /\ IsTable(t)
  BY <1>2, TableChains DEF TableHolds
<1>4. In(t, i) \subseteq E
  BY <1>2, InTable
<1>5. CASE i >= t.size
  <2>1. y = [s EXCEPT !.i = i] /\ In(t, i) = {}
    BY <1>3, <1>5 DEF In, Visits
  <2>2. y = [i |-> i, emptylen |-> s.emptylen, keys |-> s.keys]
    BY <1>1, <2>1 DEF Sampled
  <2>3. y.i = i /\ y.emptylen = s.emptylen /\ y.keys = s.keys
    BY <2>2
  <2>4. Sampled(y)
    BY <1>1, <2>2, <2>3 DEF Sampled
  <2>5. QED
    BY <1>1, <2>1, <2>3, <2>4 DEF Found
<1>6. CASE ~(i >= t.size)
  <2> DEFINE c == t.table[i]
  <2>1. i \in 0 .. t.size - 1 /\ In(t, i) = ToSet(c)
    BY <1>3, <1>6 DEF In
  <2>2. c \in Seq(Entry) /\ OneOfEach(c)
    BY <1>2, <1>3, <2>1, TableChains DEF TableHolds
  <2>3. y = Collect(s, i, c, n)
    BY <1>6 DEF Visits
  <2> HIDE DEF c, E
  <2>4. \A e \in ToSet(s.keys), f \in ToSet(c) : e.key # f.key
    BY <2>1 DEF Unmet
  <2>5. Sampled(y) /\ y.i = i /\ ToSet(y.keys) = ToSet(s.keys) \cup ToSet(c)
    <3>1. ToSet(c) \subseteq E
      BY <1>4, <2>1
    <3>2. QED
      BY ONLY <1>1, <2>2, <2>3, <2>4, <3>1, i \in Nat, CollectTakes
  <2>6. QED
    BY <1>1, <1>4, <2>1, <2>5 DEF Found, E
<1>7. QED
  BY <1>5, <1>6

\* The bucket of the first table.
LEMMA FirstVisited ==
  ASSUME NEW x, NEW n, NEW T, Ready(x, n, T), NEW s, Found(x, s), s.i < T,
         NEW j, j = Target(x, s.i), Fresh(x, s, j)
  PROVE  LET z == SampleBucket(x, n, s, 0) IN
         /\ Found(x, z) /\ z.i = j /\ ToSet(z.keys) = ToSet(s.keys) \cup In(x.ht[0], j)
<1> DEFINE t == x.ht[0]
           u == x.ht[1]
           r == x.rehashidx
           i == s.i
           z == SampleBucket(x, n, s, 0)
           p == IsRehashing(x) /\ i < r
<1>1. /\ T \in Nat /\ n \in Nat /\ t.size \in Nat /\ u.size \in Nat
      /\ IsRehashing(x) => r \in 0 .. t.size - 1 /\ \A q \in 0 .. r - 1 : In(t, q) = {}
  BY ReadyNumbers
<1>2. i \in Nat /\ s = [i |-> s.i, emptylen |-> s.emptylen, keys |-> s.keys]
  BY DEF Found, Sampled
<1>3. \A e \in ToSet(s.keys), f \in In(t, j) : e.key # f.key
  BY DEF Fresh, Place
<1>4. CASE p /\ i < u.size
  <2>1. z = [s EXCEPT !.i = i]
    <3>1. ~(p /\ i >= u.size)
      BY <1>1, <1>2, <1>4
    <3>2. QED
      BY <1>4, <3>1 DEF SampleBucket
  <2>2. z = s
    BY <1>2, <2>1
  <2>3. j = i
    BY <1>1, <1>2, <1>4 DEF Target
  <2>4. In(t, j) = {}
    BY <1>1, <1>2, <1>4, <2>3
  <2>5. QED
    BY <2>2, <2>3, <2>4
<1>5. CASE ~(p /\ i < u.size)
  <2>1. z = IF j >= t.size THEN [s EXCEPT !.i = j] ELSE Collect(s, j, t.table[j], n)
    BY <1>5 DEF SampleBucket, Target
  <2>2. j \in Nat
    BY <1>1, <1>2 DEF Target
  <2> DEFINE k == 0
  <2> HIDE DEF z
  <2>3. /\ k \in 0 .. 1 /\ Unmet(x, s, k, j)
        /\ Visits(x, n, s, k, j, z)
    BY <1>3, <2>1 DEF Visits, Unmet
  <2> HIDE DEF k
  <2>4. Found(x, z) /\ z.i = j /\ ToSet(z.keys) = ToSet(s.keys) \cup In(x.ht[k], j)
    BY ONLY <2>2, <2>3, Ready(x, n, T), Found(x, s), BucketVisited
  <2>5. QED
    BY <2>4 DEF k, z
<1>6. QED
  BY <1>4, <1>5

\* The bucket of the second table.
LEMMA SecondVisited ==
  ASSUME NEW x, NEW n, NEW T, Ready(x, n, T), NEW s, Found(x, s),
         \A e \in ToSet(s.keys), f \in In(x.ht[1], s.i) : e.key # f.key
  PROVE  LET z == SampleBucket(x, n, s, 1) IN
         /\ Found(x, z) /\ z.i = s.i /\ ToSet(z.keys) = ToSet(s.keys) \cup In(x.ht[1], s.i)
<1> DEFINE u == x.ht[1]
           i == s.i
           z == SampleBucket(x, n, s, 1)
<1>1. z = IF i >= u.size THEN [s EXCEPT !.i = i] ELSE Collect(s, i, u.table[i], n)
  BY DEF SampleBucket
<1>2. i \in Nat
  BY DEF Found, Sampled
<1> DEFINE k == 1
<1>3. /\ k \in 0 .. 1 /\ Unmet(x, s, k, i)
      /\ Visits(x, n, s, k, i, z)
  BY <1>1 DEF Visits, Unmet
<1> HIDE DEF z, i, k
<1>4. Found(x, z) /\ z.i = i /\ ToSet(z.keys) = ToSet(s.keys) \cup In(x.ht[k], i)
  BY ONLY <1>2, <1>3, Ready(x, n, T), Found(x, s), BucketVisited
<1>5. QED
  BY <1>4 DEF i, k, z

\* What both make of it.
Visited(x, n, s) ==
  LET s0 == SampleBucket(x, n, s, 0)
  IN  IF IsRehashing(x) /\ ~Jumps(s0, n) THEN SampleBucket(x, n, s0, 1) ELSE s0

\* The place is passed, unless the walk jumps.
LEMMA PlaceVisited ==
  ASSUME NEW x, NEW n, NEW T, Ready(x, n, T), NEW s, Found(x, s), s.i < T,
         NEW j, j = Target(x, s.i), Fresh(x, s, j)
  PROVE  LET z == Visited(x, n, s) IN
         /\ Found(x, z) /\ z.i = j
         /\ ~Jumps(z, n) => ToSet(z.keys) = ToSet(s.keys) \cup Place(x, j)
<1> DEFINE a == SampleBucket(x, n, s, 0)
           b == SampleBucket(x, n, a, 1)
           z == Visited(x, n, s)
<1>1. z = IF IsRehashing(x) /\ ~Jumps(a, n) THEN b ELSE a
  BY DEF Visited
<1>2. Found(x, a) /\ a.i = j /\ ToSet(a.keys) = ToSet(s.keys) \cup In(x.ht[0], j)
  BY FirstVisited
<1>3. j \in Nat /\ DictHolds(x)
  BY <1>2 DEF Found, Sampled, Ready
<1>4. \A e \in ToSet(a.keys), f \in In(x.ht[1], j) : e.key # f.key
  BY <1>2, <1>3, Places DEF Fresh, Place
<1> HIDE DEF a
<1>5. Found(x, b) /\ b.i = j /\ ToSet(b.keys) = ToSet(a.keys) \cup In(x.ht[1], j)
  BY <1>2, <1>4, SecondVisited
<1>6. ~IsRehashing(x) => In(x.ht[1], j) = {}
  BY <1>3, ReadyNumbers
<1> HIDE DEF b, z
<1>7. QED
  BY <1>1, <1>2, <1>5, <1>6 DEF Place, z

\* A round goes on from a place at or behind its index, and nothing is between.
LEMMA TargetPlace ==
  ASSUME NEW x, NEW n, NEW T, Ready(x, n, T), NEW i \in 0 .. T - 1, NEW j, j = Target(x, i)
  PROVE  j \in i .. T - 1 /\ \A p \in i .. j - 1 : Place(x, p) = {}
<1> DEFINE t == x.ht[0]
           u == x.ht[1]
           r == x.rehashidx
<1>1. /\ T \in Nat /\ t.size \in Nat /\ u.size \in Nat /\ t.size <= T
      /\ IsRehashing(x) => r \in 0 .. t.size - 1 /\ \A p \in 0 .. r - 1 : In(t, p) = {}
      /\ \A p \in Nat : u.size <= p => In(u, p) = {}
  BY ReadyNumbers
<1>2. \A p : Place(x, p) = In(t, p) \cup In(u, p)
  BY DEF Place
<1>3. j = IF IsRehashing(x) /\ i < r /\ i >= u.size THEN r ELSE i
  BY DEF Target
<1> HIDE DEF t, u, r
<1>4. CASE IsRehashing(x) /\ i < r /\ i >= u.size
  <2>1. j = r /\ j \in i .. T - 1
    BY <1>1, <1>3, <1>4
  <2>2. ASSUME NEW p \in i .. j - 1 PROVE Place(x, p) = {}
    <3>1. p \in 0 .. r - 1 /\ p \in Nat /\ u.size <= p
      BY <1>1, <1>4, <2>1
    <3>2. QED
      BY <1>1, <1>2, <1>4, <3>1
  <2>3. QED
    BY <2>1, <2>2
<1>5. CASE ~(IsRehashing(x) /\ i < r /\ i >= u.size)
  <2>1. j = i
    BY <1>3, <1>5
  <2>2. QED
    BY <1>1, <2>1
<1>6. QED
  BY <1>4, <1>5

\* The index behind place j.
LEMMA NextIndex ==
  ASSUME NEW T \in Nat, T > 0, NEW j \in 0 .. T - 1
  PROVE  (j + 1) % T = IF j + 1 = T THEN 0 ELSE j + 1
<1>1. CASE j + 1 = T
  <2> DEFINE q == 1
  <2>1. q \in Nat /\ T * q = T
    OBVIOUS
  <2> HIDE DEF q
  <2>2. T % T = T - T * q
    BY <2>1, DividesOnce
  <2>3. QED
    BY <1>1, <2>1, <2>2
<1>2. CASE j + 1 # T
  <2>1. j + 1 \in Nat /\ j + 1 < T
    BY <1>2
  <2>2. QED
    BY <1>2, <2>1, SmallRemainder
<1>3. QED
  BY <1>1, <1>2

\* The walk, m rounds after it began at index a: it has passed the places from
\* there on, up to the end, and then those from the beginning.
Forth(x, T, a, s, m) ==
  s.i \in a .. T - 1 /\ m <= s.i - a /\ ToSet(s.keys) = Met(x, a .. s.i - 1)
Around(x, T, a, s, m) ==
  /\ s.i \in 0 .. a /\ m <= (T - a) + s.i
  /\ ToSet(s.keys) = Met(x, (a .. T - 1) \cup (0 .. s.i - 1))

\* Places that were passed are not passed again.
LEMMA FreshPlace ==
  ASSUME NEW x, DictHolds(x), NEW Q \in SUBSET Nat, NEW s, ToSet(s.keys) = Met(x, Q),
         NEW j \in Nat, j \notin Q
  PROVE  Fresh(x, s, j)
<1> SUFFICES ASSUME NEW e \in ToSet(s.keys), NEW f \in Place(x, j), e.key = f.key PROVE FALSE
  BY DEF Fresh
<1>1. PICK p \in Q : e \in Place(x, p)
  BY DEF Met
<1>2. p \in Nat /\ p # j
  OBVIOUS
<1>3. QED
  BY <1>1, <1>2, Places

\* All the places.
LEMMA AllPlaces ==
  ASSUME NEW x, NEW n, NEW T, Ready(x, n, T), NEW s, Found(x, s),
         NEW Q, ToSet(s.keys) = Met(x, Q), \A p \in 0 .. T - 1 : p \in Q \/ Place(x, p) = {}
  PROVE  Len(s.keys) = n /\ ToSet(s.keys) = Entries(x)
<1>1. /\ T = Slots(x) /\ DictHolds(x) /\ Entries(x) # {} /\ Unique(Entries(x))
      /\ Counted(Entries(x), n)
      /\ s.keys \in Seq(Entry) /\ OneOfEach(s.keys) /\ ToSet(s.keys) \subseteq Entries(x)
  BY DEF Ready, Found, Sampled
<1>2. Met(x, 0 .. T - 1) = Entries(x)
  BY <1>1, Places
<1>3. Met(x, 0 .. T - 1) \subseteq Met(x, Q)
  BY DEF Met
<1>4. ToSet(s.keys) = Entries(x)
  BY <1>1, <1>2, <1>3
<1>5. QED
  BY <1>1, <1>4, PartOfEntries

\* A round on the way to the end.
LEMMA ForthRound ==
  ASSUME NEW x, NEW n, NEW T, Ready(x, n, T), NEW a \in 0 .. T - 1, NEW m \in Nat,
         NEW s, Forth(x, T, a, s, m), NEW j, j = Target(x, s.i),
         NEW z, z.i = (j + 1) % T, ToSet(z.keys) = ToSet(s.keys) \cup Place(x, j)
  PROVE  Forth(x, T, a, z, m + 1) \/ Around(x, T, a, z, m + 1)
<1> DEFINE i == s.i
           k == z.i
<1>1. T \in Nat /\ T > 0 /\ DictHolds(x)
  BY ReadyNumbers DEF Ready
<1>2. i \in a .. T - 1 /\ m <= i - a /\ ToSet(s.keys) = Met(x, a .. i - 1)
  BY DEF Forth
<1> HIDE DEF i
<1>3. j \in i .. T - 1 /\ \A p \in i .. j - 1 : Place(x, p) = {}
  <2>1. i \in 0 .. T - 1
    BY <1>1, <1>2
  <2>2. QED
    BY <2>1, TargetPlace DEF i
<1>4. ToSet(z.keys) = Met(x, a .. j)
  <2>1. \A p \in a .. j : p \in a .. i - 1 \/ p \in i .. j - 1 \/ p = j
    BY <1>1, <1>2, <1>3
  <2>2. \A p \in a .. i - 1 : p \in a .. j
    BY <1>1, <1>2, <1>3
  <2>3. j \in a .. j
    BY <1>1, <1>2, <1>3
  <2>4. Met(x, a .. j) = Met(x, a .. i - 1) \cup Place(x, j)
    BY <1>3, <2>1, <2>2, <2>3 DEF Met
  <2>5. QED
    BY <1>2, <2>4
<1>5. k = IF j + 1 = T THEN 0 ELSE j + 1
  <2>1. j \in 0 .. T - 1
    BY <1>1, <1>2, <1>3
  <2>2. QED
    BY <1>1, <2>1, NextIndex
<1> HIDE DEF k
<1>6. a \in Nat /\ i \in Nat /\ j \in Nat /\ a <= i /\ i <= j /\ m <= i - a /\ j < T
  BY <1>1, <1>2, <1>3
<1>7. CASE j + 1 = T
  <2>1. k = 0 /\ k \in 0 .. a
    BY ONLY <1>5, <1>7, <1>6
  <2>2. m + 1 <= (T - a) + k
    BY ONLY <1>7, <1>6, <2>1, m \in Nat
  <2>3. (a .. T - 1) \cup (0 .. k - 1) = a .. j
    <3>1. T - 1 = j /\ 0 .. k - 1 = {}
      BY ONLY <1>7, <1>6, <2>1
    <3>2. QED
      BY ONLY <3>1
  <2>4. Around(x, T, a, z, m + 1)
    BY <1>4, <2>1, <2>2, <2>3 DEF Around, k
  <2>5. QED
    BY <2>4
<1>8. CASE j + 1 # T
  <2>1. k = j + 1 /\ k \in a .. T - 1 /\ m + 1 <= k - a /\ k - 1 = j
    <3>1. k = j + 1
      BY ONLY <1>5, <1>8
    <3>2. QED
      BY ONLY <1>1, <1>8, <1>6, <3>1, m \in Nat
  <2>2. Forth(x, T, a, z, m + 1)
    BY <1>4, <2>1 DEF Forth, k
  <2>3. QED
    BY <2>2
<1>9. QED
  BY <1>7, <1>8

\* A round after the end.
LEMMA AroundRound ==
  ASSUME NEW x, NEW n, NEW T, Ready(x, n, T), NEW a \in 0 .. T - 1, NEW m \in Nat,
         NEW s, Around(x, T, a, s, m), NEW j, j = Target(x, s.i), j < a,
         NEW z, z.i = (j + 1) % T, ToSet(z.keys) = ToSet(s.keys) \cup Place(x, j)
  PROVE  Around(x, T, a, z, m + 1)
<1> DEFINE i == s.i
           k == z.i
           R == a .. T - 1
<1>1. T \in Nat /\ T > 0 /\ DictHolds(x)
  BY ReadyNumbers DEF Ready
<1>2. i \in 0 .. a /\ m <= (T - a) + i /\ ToSet(s.keys) = Met(x, R \cup (0 .. i - 1))
  BY DEF Around
<1> HIDE DEF i
<1>3. j \in i .. T - 1 /\ \A p \in i .. j - 1 : Place(x, p) = {}
  <2>1. i \in 0 .. T - 1
    BY <1>1, <1>2
  <2>2. QED
    BY <2>1, TargetPlace DEF i
<1> HIDE DEF R
<1>4. ToSet(z.keys) = Met(x, R \cup (0 .. j))
  <2>1. \A p \in 0 .. j : p \in 0 .. i - 1 \/ p \in i .. j - 1 \/ p = j
    BY <1>1, <1>2, <1>3
  <2>2. \A p \in 0 .. i - 1 : p \in 0 .. j
    BY <1>1, <1>2, <1>3
  <2>3. j \in 0 .. j
    BY <1>1, <1>2, <1>3
  <2>4. Met(x, R \cup (0 .. j)) = Met(x, R \cup (0 .. i - 1)) \cup Place(x, j)
    BY <1>3, <2>1, <2>2, <2>3 DEF Met
  <2>5. QED
    BY <1>2, <2>4
<1>5. k = j + 1
  <2>1. j \in 0 .. T - 1 /\ j + 1 # T
    BY <1>1, <1>2, <1>3
  <2>2. QED
    BY <1>1, <2>1, NextIndex
<1>6. k \in 0 .. a /\ m + 1 <= (T - a) + k /\ k - 1 = j
  BY <1>1, <1>2, <1>3, <1>5
<1>7. QED
  BY <1>4, <1>6 DEF Around, R

\* The walk is complete, or it jumps, or it is on its way.
Walks(x, n, T, a, s, m) ==
  /\ Found(x, s)
  /\ \/ Len(s.keys) = n \/ Jumps(s, n)
     \/ Forth(x, T, a, s, m) \/ Around(x, T, a, s, m)

\* A round looks at a place that was not passed before.
LEMMA TargetFresh ==
  ASSUME NEW x, NEW n, NEW T, Ready(x, n, T), NEW a \in 0 .. T - 1, NEW m \in Nat,
         NEW s, Found(x, s), Len(s.keys) # n,
         Forth(x, T, a, s, m) \/ Around(x, T, a, s, m), NEW j, j = Target(x, s.i)
  PROVE  /\ s.i < T /\ Fresh(x, s, j) /\ j \in 0 .. T - 1
         /\ ~Forth(x, T, a, s, m) => j < a
<1> DEFINE i == s.i
           R == a .. T - 1
<1>1. T \in Nat /\ T > 0 /\ DictHolds(x)
  BY ReadyNumbers DEF Ready
<1>2. CASE Forth(x, T, a, s, m)
  <2> DEFINE Q == a .. i - 1
  <2>1. i \in a .. T - 1 /\ ToSet(s.keys) = Met(x, Q)
    BY <1>2 DEF Forth
  <2> HIDE DEF i
  <2>2. i \in 0 .. T - 1
    BY <1>1, <2>1
  <2>3. j \in i .. T - 1
    BY <2>2, TargetPlace DEF i
  <2>4. j \notin Q /\ Q \in SUBSET Nat /\ j \in Nat /\ j \in 0 .. T - 1
    BY <1>1, <2>1, <2>3
  <2> HIDE DEF Q
  <2>5. Fresh(x, s, j)
    BY <1>1, <2>1, <2>4, FreshPlace
  <2>6. QED
    BY <1>1, <1>2, <2>2, <2>4, <2>5 DEF i
<1>3. CASE Around(x, T, a, s, m)
  <2> DEFINE Q == R \cup (0 .. i - 1)
  <2>1. i \in 0 .. a /\ ToSet(s.keys) = Met(x, Q)
    BY <1>3 DEF Around
  <2> HIDE DEF i
  <2>2. i \in 0 .. T - 1
    BY <1>1, <2>1
  <2>3. j \in i .. T - 1 /\ \A p \in i .. j - 1 : Place(x, p) = {}
    BY <2>2, TargetPlace DEF i
  <2>4. j < a
    <3> SUFFICES ASSUME a <= j PROVE FALSE
      BY <1>1, <2>1, <2>3
    <3>1. ASSUME NEW p \in 0 .. T - 1 PROVE p \in Q \/ Place(x, p) = {}
      <4>1. p \in R \/ p \in 0 .. i - 1 \/ p \in i .. j - 1
        BY <1>1, <2>1, <2>3
      <4>2. QED
        BY <2>3, <4>1
    <3> HIDE DEF Q
    <3>2. QED
      BY <2>1, <3>1, AllPlaces
  <2>5. j \notin Q /\ Q \in SUBSET Nat /\ j \in Nat /\ j \in 0 .. T - 1
    BY <1>1, <2>1, <2>3, <2>4
  <2> HIDE DEF Q
  <2>6. Fresh(x, s, j)
    BY <1>1, <2>1, <2>5, FreshPlace
  <2>7. QED
    BY <1>1, <2>2, <2>4, <2>5, <2>6 DEF i
<1>4. QED
  BY <1>2, <1>3

\* What a round does.
LEMMA RoundMeans ==
  ASSUME NEW x, NEW n, NEW s, NEW v, v = Visited(x, n, s), Len(s.keys) # n, ~Jumps(s, n)
  PROVE  SampleRound(x, n, s) = IF Jumps(v, n) THEN v ELSE [v EXCEPT !.i = (@ + 1) % Slots(x)]
  BY DEF SampleRound, Visited

\* A round goes on with the walk.
LEMMA WalkRound ==
  ASSUME NEW x, NEW n, NEW T, Ready(x, n, T), NEW a \in 0 .. T - 1, NEW m \in Nat,
         NEW s, Walks(x, n, T, a, s, m)
  PROVE  Walks(x, n, T, a, SampleRound(x, n, s), m + 1)
<1> DEFINE z == SampleRound(x, n, s)
           v == Visited(x, n, s)
           j == Target(x, s.i)
<1>1. CASE Len(s.keys) = n \/ Jumps(s, n)
  <2>1. z = s
    BY <1>1 DEF SampleRound
  <2> HIDE DEF z
  <2>2. QED
    BY <1>1, <2>1 DEF Walks, z
<1>2. CASE ~(Len(s.keys) = n \/ Jumps(s, n))
  <2>1. z = IF Jumps(v, n) THEN v ELSE [v EXCEPT !.i = (@ + 1) % Slots(x)]
    BY <1>2, RoundMeans
  <2>2. Found(x, s) /\ (Forth(x, T, a, s, m) \/ Around(x, T, a, s, m)) /\ T = Slots(x)
    BY <1>2 DEF Walks, Ready
  <2> HIDE DEF z, j
  <2>3. /\ s.i < T /\ Fresh(x, s, j) /\ j \in 0 .. T - 1
        /\ ~Forth(x, T, a, s, m) => j < a
    BY <1>2, <2>2, TargetFresh DEF j
  <2>4. Found(x, v) /\ v.i = j /\ (~Jumps(v, n) => ToSet(v.keys) = ToSet(s.keys) \cup Place(x, j))
    BY <2>2, <2>3, PlaceVisited DEF j
  <2> HIDE DEF v
  <2>5. CASE Jumps(v, n)
    BY <2>1, <2>4, <2>5 DEF Walks, z
  <2>6. CASE ~Jumps(v, n)
    <3> DEFINE k == (j + 1) % T
    <3>1. k \in Nat
      <4>1. T \in Nat /\ T > 0
        BY ReadyNumbers
      <4>2. k = IF j + 1 = T THEN 0 ELSE j + 1
        BY <2>3, <4>1, NextIndex
      <4>3. QED
        BY <2>3, <4>1, <4>2
    <3> HIDE DEF k
    <3>2. z = [v EXCEPT !.i = k]
      BY <2>1, <2>2, <2>4, <2>6 DEF k
    <3>3. Sampled(v) /\ ToSet(v.keys) \subseteq Entries(x)
      BY <2>4 DEF Found
    <3>4. z = [i |-> k, emptylen |-> v.emptylen, keys |-> v.keys]
      BY <3>2, <3>3 DEF Sampled
    <3>5. z.i = k /\ z.emptylen = v.emptylen /\ z.keys = v.keys
      BY <3>4
    <3>6. Found(x, z)
      BY <3>1, <3>3, <3>4, <3>5 DEF Found, Sampled
    <3>7. z.i = (j + 1) % T /\ ToSet(z.keys) = ToSet(s.keys) \cup Place(x, j) /\ j = Target(x, s.i)
      BY <2>4, <2>6, <3>5 DEF j, k
    <3>8. Forth(x, T, a, z, m + 1) \/ Around(x, T, a, z, m + 1)
      <4>1. CASE Forth(x, T, a, s, m)
        BY <3>7, <4>1, ForthRound
      <4>2. CASE ~Forth(x, T, a, s, m)
        BY <2>2, <2>3, <3>7, <4>2, AroundRound
      <4>3. QED
        BY <4>1, <4>2
    <3>9. QED
      BY <3>6, <3>8 DEF Walks, z
  <2>7. QED
    BY <2>5, <2>6
<1>3. QED
  BY <1>1, <1>2

\* The rounds of the walk through x that ends with z.
Rounds(w, x, n, start, z) ==
  /\ z = w[10 * n]
  /\ w[0] = [i |-> start % Slots(x), emptylen |-> 0, keys |-> << >>]
  /\ \A k \in 1 .. 10 * n : w[k] = SampleRound(x, n, w[k - 1])

\* The rounds, one after the other.
LEMMA WalkRounds ==
  ASSUME NEW x, NEW n \in Nat, NEW start
  PROVE  \E w : Rounds(w, SampleSteps(x, n), n, start, Sample(x, n, start))
<1> DEFINE ready == SampleSteps(x, n)
           a == [i |-> start % Slots(ready), emptylen |-> 0, keys |-> << >>]
           N == 10 * n
           Upto(j) == \E r : r = [k \in 0 .. j |-> IF k = 0 THEN a ELSE SampleRound(ready, n, r[k - 1])]
           T == {j \in Nat : Upto(j)}
           W == CHOOSE r : r = [k \in 0 .. N |-> IF k = 0 THEN a ELSE SampleRound(ready, n, r[k - 1])]
<1>1. Sample(x, n, start) = W[N] /\ N \in Nat
  BY DEF Sample
<1> HIDE DEF N, a, ready
<1>2. 0 \in T
  <2> DEFINE r == [k \in 0 .. 0 |-> a]
  <2>1. r = [k \in 0 .. 0 |-> IF k = 0 THEN a ELSE SampleRound(ready, n, r[k - 1])]
    OBVIOUS
  <2> HIDE DEF r
  <2>2. Upto(0)
    BY <2>1
  <2>3. QED
    BY <2>2
<1>3. ASSUME NEW j \in Nat, j \in T PROVE j + 1 \in T
  <2>1. PICK r : r = [k \in 0 .. j |-> IF k = 0 THEN a ELSE SampleRound(ready, n, r[k - 1])]
    BY <1>3
  <2> DEFINE v == SampleRound(ready, n, r[j])
             q == [k \in 0 .. j + 1 |-> IF k = j + 1 THEN v ELSE r[k]]
  <2>2. ASSUME NEW k \in 0 .. j + 1
        PROVE  q[k] = IF k = 0 THEN a ELSE SampleRound(ready, n, q[k - 1])
    <3>1. CASE k = j + 1
      <4>1. k - 1 = j /\ j # j + 1 /\ k # 0 /\ j \in 0 .. j + 1
        BY <3>1
      <4>2. q[k - 1] = r[j]
        BY <4>1
      <4>3. QED
        BY <3>1, <4>1, <4>2
    <3>2. CASE k # j + 1
      <4>1. k \in 0 .. j /\ (k # 0 => k - 1 \in 0 .. j + 1 /\ k - 1 # j + 1)
        BY <3>2
      <4>2. q[k] = r[k] /\ (k # 0 => q[k - 1] = r[k - 1])
        BY <3>2, <4>1
      <4>3. r[k] = IF k = 0 THEN a ELSE SampleRound(ready, n, r[k - 1])
        BY ONLY <2>1, <4>1
      <4>4. QED
        BY <4>2, <4>3
    <3>3. QED
      BY <3>1, <3>2
  <2>3. q = [k \in 0 .. j + 1 |-> q[k]]
    OBVIOUS
  <2> HIDE DEF q, v
  <2>4. q = [k \in 0 .. j + 1 |-> IF k = 0 THEN a ELSE SampleRound(ready, n, q[k - 1])]
    BY <2>2, <2>3
  <2>5. Upto(j + 1)
    BY <2>4
  <2>6. QED
    BY <2>5
<1>4. Upto(N)
  <2>1. N \in T
    <3> HIDE DEF T
    <3> QED BY <1>1, <1>2, <1>3, AllNumbers
  <2>2. QED
    BY <2>1
<1>5. W = [k \in 0 .. N |-> IF k = 0 THEN a ELSE SampleRound(ready, n, W[k - 1])]
  BY <1>4
<1> HIDE DEF W
<1>6. W[0] = a
  BY <1>1, <1>5
<1>7. \A k \in 1 .. N : W[k] = SampleRound(ready, n, W[k - 1])
  BY <1>1, <1>5
<1>8. Rounds(W, ready, n, start, Sample(x, n, start))
  BY <1>1, <1>6, <1>7 DEF N, a, Rounds
<1>9. QED
  BY <1>8 DEF ready

\* Whatever the walk has found it has found once; and it has found everything,
\* or jumps, or the tables are too large.
LEMMA WalkEnds ==
  ASSUME NEW y, NEW n \in Nat, NEW x, x = SampleSteps(y, n), NEW T, Ready(x, n, T),
         NEW start \in Nat
  PROVE  LET z == Sample(y, n, start) IN
         /\ Found(x, z)
         /\ ToSet(z.keys) = Entries(x) \/ Jumps(z, n) \/ 10 * n < T
<1>1. PICK w : /\ Sample(y, n, start) = w[10 * n]
               /\ w[0] = [i |-> start % Slots(x), emptylen |-> 0, keys |-> << >>]
               /\ \A k \in 1 .. 10 * n : w[k] = SampleRound(x, n, w[k - 1])
  <2>1. \E w : Rounds(w, x, n, start, Sample(y, n, start))
    BY WalkRounds
  <2>2. QED
    BY <2>1 DEF Rounds
<1> DEFINE a == start % T
           N == 10 * n
           S == {m \in Nat : Walks(x, n, T, a, w[m], m)}
<1>2. T \in Nat /\ T > 0 /\ T = Slots(x)
  BY ReadyNumbers DEF Ready
<1>3. a \in 0 .. T - 1
  BY <1>2, Divided
<1>4. N \in Nat /\ w[0] = [i |-> a, emptylen |-> 0, keys |-> << >>]
  BY <1>1, <1>2
<1> HIDE DEF N, a
<1>5. 0 \in S
  <2> DEFINE s == w[0]
  <2>1. s = [i |-> a, emptylen |-> 0, keys |-> << >>]
    BY <1>4
  <2> HIDE DEF s
  <2>2. s.i = a /\ s.emptylen = 0 /\ s.keys = << >>
    BY <2>1
  <2>3. Found(x, s)
    BY <1>3, <2>1, <2>2, EmptyChain DEF Found, Sampled
  <2>4. Forth(x, T, a, s, 0)
    <3>1. a .. a - 1 = {}
      BY <1>2, <1>3
    <3>2. Met(x, {}) = {}
      BY DEF Met
    <3>3. s.i \in a .. T - 1 /\ 0 <= s.i - a
      BY <1>2, <1>3, <2>2
    <3>4. QED
      BY <2>2, <3>1, <3>2, <3>3, EmptyChain DEF Forth
  <2>5. QED
    BY <2>3, <2>4 DEF Walks, s
<1>6. ASSUME NEW m \in Nat, m + 1 <= N /\ m \in S PROVE m + 1 \in S
  <2>1. m + 1 \in 1 .. N /\ (m + 1) - 1 = m
    BY <1>4, <1>6
  <2>2. w[m + 1] = SampleRound(x, n, w[m])
    BY <1>1, <2>1 DEF N
  <2>3. Walks(x, n, T, a, SampleRound(x, n, w[m]), m + 1)
    BY <1>3, <1>6, WalkRound
  <2>4. QED
    BY <2>2, <2>3
<1>7. N \in S
  <2> HIDE DEF S
  <2>1. \A m \in 0 .. N : m \in S
    BY ONLY <1>4, <1>5, <1>6, UpTo
  <2>2. QED
    BY <1>4, <2>1
<1> DEFINE z == w[N]
<1>8. Walks(x, n, T, a, z, N) /\ Found(x, z)
  BY <1>7 DEF Walks
<1> HIDE DEF z
<1>9. ASSUME ~Jumps(z, n), T <= N PROVE ToSet(z.keys) = Entries(x)
  <2>1. CASE Len(z.keys) = n
    BY <1>8, <2>1, PartOfEntries DEF Found, Sampled, Ready
  <2>2. CASE Forth(x, T, a, z, N)
    <3>1. z.i \in a .. T - 1 /\ N <= z.i - a
      BY <2>2 DEF Forth
    <3>2. QED
      BY <1>2, <1>3, <1>4, <1>9, <3>1
  <2>3. CASE Around(x, T, a, z, N)
    <3>1. /\ z.i \in 0 .. a /\ N <= (T - a) + z.i
          /\ ToSet(z.keys) = Met(x, (a .. T - 1) \cup (0 .. z.i - 1))
      BY <2>3 DEF Around
    <3>2. z.i = a
      BY <1>2, <1>3, <1>4, <1>9, <3>1
    <3> DEFINE Q == (a .. T - 1) \cup (0 .. a - 1)
    <3>3. ASSUME NEW p \in 0 .. T - 1 PROVE p \in Q \/ Place(x, p) = {}
      BY <1>2, <1>3
    <3> HIDE DEF Q
    <3>4. ToSet(z.keys) = Met(x, Q)
      BY <3>1, <3>2 DEF Q
    <3>5. QED
      BY <1>8, <3>3, <3>4, AllPlaces
  <2>4. QED
    BY <1>8, <1>9, <2>1, <2>2, <2>3 DEF Walks
<1>10. T <= N \/ 10 * n < T
  BY <1>2 DEF N
<1>11. Sample(y, n, start) = z
  BY <1>1 DEF N, z
<1>12. QED
  BY <1>8, <1>9, <1>10, <1>11

\* A rehashing that goes on after a step has entries to move.
LEMMA StepAhead ==
  ASSUME hash \in [Key -> Nat], NEW x, DictHolds(x), x.pauserehash = 0
  PROVE  Ahead(RehashStep(x))
<1> DEFINE n == 1
           y == RehashStep(x)
<1>1. y = Rehash(x, n) /\ n \in Nat
  BY DEF RehashStep
<1> HIDE DEF n
<1>2. CASE ~IsRehashing(x)
  BY <1>1, <1>2 DEF Rehash, Ahead
<1>3. CASE IsRehashing(x)
  <2>1. PICK s : /\ Rehash(x, n) = Finish(s[n].d)
                 /\ s[0] = [d |-> x, visits |-> n * EmptyVisits]
                 /\ \A k \in 1 .. n : s[k] = Round(s[k - 1])
    BY <1>1, <1>3, RehashRounds
  <2> DEFINE z == s[n].d
  <2>2. y = Finish(z)
    BY <1>1, <2>1
  <2> HIDE DEF z
  <2>3. DictHolds(y)
    BY RehashStepHolds
  <2> HIDE DEF y
  <2>4. CASE z.ht[0].used # 0
    <3>1. y = z
      BY <2>2, <2>4 DEF Finish
    <3>2. PartsHold(y.ht[0], y.ht[1], y.rehashidx) /\ (IsRehashing(y) <=> y.rehashidx # -1)
      BY <2>3, DictTaken
    <3>3. IsRehashing(y) => y.rehashidx \in 0 .. y.ht[0].size - 1
      BY <2>4, <3>1, <3>2, NextExists
    <3>4. y.ht[0].size \in Nat
      BY <3>2, TableChains DEF PartsHold, TableHolds
    <3>5. QED
      BY <3>3, <3>4 DEF Ahead, y
  <2>5. CASE z.ht[0].used = 0
    <3>1. y = [z EXCEPT !.ht[0] = z.ht[1], !.ht[1] = NoTable, !.rehashidx = -1]
      BY <2>2, <2>5 DEF Finish
    <3>2. ~IsRehashing(y)
      <4>1. y = Dict2(y.ht[0], y.ht[1], y.rehashidx, y.pauserehash)
        BY <2>3, DictTaken
      <4>2. "rehashidx" \in DOMAIN y
        BY <4>1 DEF Dict2
      <4>3. "rehashidx" \in DOMAIN z
        BY <3>1, <4>2
      <4>4. y.rehashidx = -1
        BY <3>1, <4>3
      <4>5. QED
        BY <4>4 DEF IsRehashing
    <3>3. QED
      BY <3>2 DEF Ahead, y
  <2>6. QED
    BY <2>4, <2>5
<1>4. QED
  BY <1>2, <1>3

\* The dictionary is ready to be sampled after the steps that come first.
LEMMA StepsAhead ==
  ASSUME hash \in [Key -> Nat], NEW x, DictHolds(x), x.pauserehash = 0, NEW n \in Nat, n > 0
  PROVE  Ahead(SampleSteps(x, n))
<1>1. PICK s : /\ SampleSteps(x, n) = s[n] /\ s[0] = x
               /\ \A k \in 1 .. n : s[k] = RehashStep(s[k - 1])
  BY SampleRounds
<1> DEFINE T == {m \in Nat : DictHolds(s[m]) /\ s[m].pauserehash = 0}
<1>2. 0 \in T
  BY <1>1
<1>3. ASSUME NEW m \in Nat, m + 1 <= n /\ m \in T PROVE m + 1 \in T
  <2>1. m + 1 \in 1 .. n /\ (m + 1) - 1 = m
    BY <1>3
  <2>2. s[m + 1] = RehashStep(s[m])
    BY <1>1, <2>1
  <2>3. DictHolds(RehashStep(s[m])) /\ Same(s[m], RehashStep(s[m]))
    BY <1>3, RehashStepHolds
  <2>4. QED
    BY <1>3, <2>2, <2>3 DEF Same
<1>4. \A m \in 0 .. n : m \in T
  <2> HIDE DEF T
  <2> QED BY <1>2, <1>3, UpTo
<1>5. n \in 1 .. n /\ n - 1 \in 0 .. n
  OBVIOUS
<1>6. s[n] = RehashStep(s[n - 1]) /\ DictHolds(s[n - 1]) /\ s[n - 1].pauserehash = 0
  BY <1>1, <1>4, <1>5
<1>7. QED
  BY <1>1, <1>6, StepAhead

\* dictGetRandomKey may draw each key.
LEMMA AllDrawn ==
  ASSUME hash \in [Key -> Nat], NEW x, DictHolds(x)
  PROVE  RandomKeys(x) = Keys(x)
<1> DEFINE y == Stepped(x)
           t == y.ht[0]
           u == y.ht[1]
           first == IF IsRehashing(y) THEN y.rehashidx ELSE 0
           drawn == UNION {ToSet(t.table[h]) : h \in first .. t.size - 1}
<1>1. RandomKeys(x) = {e.key : e \in drawn \cup TableEntries(u)}
  BY DEF RandomKeys
<1>2. DictHolds(y) /\ Entries(y) = Entries(x)
  BY SteppedHolds DEF Same
<1> HIDE DEF y
<1>3. PartsHold(t, u, y.rehashidx) /\ Entries(y) = TableEntries(t) \cup TableEntries(u)
      /\ (IsRehashing(y) <=> y.rehashidx # -1)
  BY <1>2, DictTaken
<1>4. IsTable(t) /\ t.size \in Nat
  BY <1>3, TableChains DEF PartsHold, TableHolds
<1>5. \A e : e \in TableEntries(t) <=> \E j \in 0 .. t.size - 1 : e \in ToSet(t.table[j])
  BY <1>4, EntriesByBucket
<1>6. first \in Nat /\ \A j \in 0 .. first - 1 : t.table[j] = << >>
  BY <1>3, <1>4 DEF PartsHold
<1> HIDE DEF t, u, first
<1>7. drawn = TableEntries(t)
  <2>1. ASSUME NEW j \in first .. t.size - 1 PROVE ToSet(t.table[j]) \subseteq TableEntries(t)
    <3>1. j \in 0 .. t.size - 1
      BY <1>4, <1>6
    <3>2. QED
      BY <1>5, <3>1
  <2>2. ASSUME NEW e \in TableEntries(t) PROVE e \in drawn
    <3>1. PICK j \in 0 .. t.size - 1 : e \in ToSet(t.table[j])
      BY <1>5
    <3>2. ~(j \in 0 .. first - 1)
      BY <1>6, <3>1, EmptyChain
    <3>3. j \in first .. t.size - 1
      BY <1>4, <1>6, <3>2
    <3>4. QED
      BY <3>1, <3>3
  <2>3. drawn \subseteq TableEntries(t)
    BY <2>1
  <2>4. QED
    BY <2>2, <2>3
<1> HIDE DEF drawn
<1>8. QED
  BY <1>1, <1>2, <1>3, <1>7 DEF Keys

\* A sample of a dictionary that is not empty.
LEMMA SampleTaken ==
  ASSUME hash \in [Key -> Nat], NEW y, DictHolds(y), y.pauserehash = 0, Size(y) > 0,
         NEW start \in Nat
  PROVE  LET n == Size(y)
             x == SampleSteps(y, n)
             z == Sample(y, n, start)
         IN  /\ IsInjective(z.keys) /\ z.keys \in Seq(Entry) /\ ToSet(z.keys) \subseteq Entries(y)
             /\ ToSet(z.keys) = Entries(y) \/ Jumps(z, n) \/ 10 * n < Slots(x)
             /\ DictHolds(x) /\ Entries(x) = Entries(y) /\ Entries(y) # {}
<1> DEFINE n == Size(y)
           x == SampleSteps(y, n)
           z == Sample(y, n, start)
           T == Slots(x)
<1>1. /\ PartsHold(y.ht[0], y.ht[1], y.rehashidx)
      /\ Entries(y) = TableEntries(y.ht[0]) \cup TableEntries(y.ht[1])
      /\ n = y.ht[0].used + y.ht[1].used
  BY DictTaken
<1>2. Counted(Entries(y), n)
  BY <1>1 DEF PartsHold
<1>3. n \in Nat /\ n > 0
  BY <1>2, FS_CardinalityType DEF Counted
<1>4. Entries(y) # {}
  <2>1. y.ht[0].used \in Nat /\ y.ht[1].used \in Nat /\ TableHolds(y.ht[0]) /\ TableHolds(y.ht[1])
    BY <1>1, TableChains DEF PartsHold, TableHolds
  <2>2. y.ht[0].used # 0 \/ y.ht[1].used # 0
    BY <1>1, <1>3, <2>1
  <2>3. QED
    BY <1>1, <2>1, <2>2, UsedEntries
<1> HIDE DEF n
<1>5. DictHolds(x) /\ Entries(x) = Entries(y) /\ Ahead(x)
  BY <1>3, SampleStepsHold, StepsAhead DEF Same
<1>6. Ready(x, n, T)
  BY <1>2, <1>4, <1>5, DictUnique DEF Ready
<1> HIDE DEF T
<1>7. Found(x, z) /\ (ToSet(z.keys) = Entries(x) \/ Jumps(z, n) \/ 10 * n < T)
  <2>1. x = SampleSteps(y, n)
    OBVIOUS
  <2> HIDE DEF x
  <2>2. QED
    BY <1>3, <1>6, <2>1, WalkEnds
<1> HIDE DEF x, z
<1>8. z.keys \in Seq(Entry) /\ ToSet(z.keys) \subseteq Entries(x) /\ IsInjective(z.keys)
  BY <1>7 DEF Found, Sampled, OneOfEach, IsInjective
<1>9. QED
  BY <1>4, <1>5, <1>7, <1>8 DEF n, x, z, T

\* There is always a key to return.
LEMMA FairKeyDrawn ==
  ASSUME hash \in [Key -> Nat], NEW y, DictHolds(y), y.pauserehash = 0, Size(y) > 0,
         NEW start \in Nat
  PROVE  FairRandomKeys(y, start) \cap Keys(y) # {}
<1> DEFINE n == Size(y)
           x == SampleSteps(y, n)
           z == Sample(y, n, start)
           R == RandomKeys(x)
           F == FairRandomKeys(y, start)
<1>1. F = IF z.keys = << >> THEN R ELSE {e.key : e \in ToSet(z.keys)}
  BY DEF FairRandomKeys
<1>2. /\ z.keys \in Seq(Entry) /\ ToSet(z.keys) \subseteq Entries(y)
      /\ DictHolds(x) /\ Entries(x) = Entries(y) /\ Entries(y) # {}
  BY SampleTaken
<1> HIDE DEF x, z
<1>3. R = Keys(y)
  BY <1>2, AllDrawn DEF Keys
<1>4. Keys(y) # {}
  BY <1>2 DEF Keys
<1> HIDE DEF R, F
<1>5. CASE z.keys = << >>
  BY <1>1, <1>3, <1>4, <1>5 DEF F
<1>6. CASE z.keys # << >>
  <2>1. PICK e : e \in ToSet(z.keys)
    <3>1. Len(z.keys) \in Nat /\ Len(z.keys) # 0 /\ ToSet(z.keys) = {z.keys[p] : p \in 1 .. Len(z.keys)}
      BY <1>2, <1>6, ChainEntries
    <3>2. 1 \in 1 .. Len(z.keys)
      BY <3>1
    <3>3. QED
      BY <3>1, <3>2
  <2>2. e.key \in F /\ e.key \in Keys(y)
    BY <1>1, <1>2, <1>6, <2>1 DEF Keys
  <2>3. QED
    BY <2>2 DEF F
<1>7. QED
  BY <1>5, <1>6

\* Between walks the rehashing is not paused.
LEMMA KeptSampling == DictKept => SamplingReachesAll
<1> SUFFICES ASSUME DictKept, walk = "none", Size(d) > 0
             PROVE  /\ RandomKeys(d) = Keys(d)
                    /\ \A start \in 0 .. d.ht[0].size + d.ht[1].size - 1 :
                         LET sample == Sample(d, Size(d), start)
                         IN  /\ IsInjective(sample.keys)
                             /\ \/ ToSet(sample.keys) = Entries(d)
                                \/ Jumps(sample, Size(d))
                                \/ 10 * Size(d) < Slots(SampleSteps(d, Size(d)))
                             /\ FairRandomKeys(d, start) \cap Keys(d) # {}
  BY DEF SamplingReachesAll
<1>1. hash \in [Key -> Nat] /\ DictHolds(d) /\ d.pauserehash = 0
  BY HashOfKeys DEF DictKept, Paused
<1>2. RandomKeys(d) = Keys(d)
  BY <1>1, AllDrawn
<1>3. ASSUME NEW start \in 0 .. d.ht[0].size + d.ht[1].size - 1
      PROVE  /\ IsInjective(Sample(d, Size(d), start).keys)
             /\ \/ ToSet(Sample(d, Size(d), start).keys) = Entries(d)
                \/ Jumps(Sample(d, Size(d), start), Size(d))
                \/ 10 * Size(d) < Slots(SampleSteps(d, Size(d)))
             /\ FairRandomKeys(d, start) \cap Keys(d) # {}
  <2>1. start \in Nat
    <3>1. d.ht[0].size \in Nat /\ d.ht[1].size \in Nat
      BY <1>1, DictTaken, TableChains DEF PartsHold, TableHolds
    <3>2. QED
      BY <3>1
  <2>2. QED
    BY <1>1, <2>1, SampleTaken, FairKeyDrawn
<1>4. QED
  BY <1>2, <1>3

\* THEOREM: dictGetRandomKey can return any key, and dictGetSomeKeys, asked
\* for as many keys as there are, has each of them once, unless it goes on from
\* a random index or there are more than ten buckets for each key; and
\* dictGetFairRandomKey has a key to return (dict.c:633-785).
THEOREM SamplingIsComplete == Spec => []SamplingReachesAll
<1>1. DictKept => SamplingReachesAll
  BY KeptSampling
<1>2. QED
  BY <1>1, KeptAlways, PTL

=============================================================================
