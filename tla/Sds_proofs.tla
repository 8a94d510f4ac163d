----------------------------- MODULE Sds_proofs -----------------------------
(***************************************************************************)
(* Two proofs about Sds, for any widths of the headers, any preallocation  *)
(* and any texts: the header tells the truth about its block, and the      *)
(* string holds the text that the comments promise.                        *)
(*                                                                         *)
(* The argument: between two calls the header fits its block (Fits), the   *)
(* buffer begins with the text (Holds) and the terminator is behind it     *)
(* (Closed).  Inside of a call the first two are enough: each step writes  *)
(* inside of the room that sdsMakeRoomFor has made, and sets a length that *)
(* the type can hold, because alloc is never more than that.  What a call  *)
(* makes of the text is compared character by character with what the      *)
(* comments say (TrimmedPart, RangedPart, UntilNul).  A call of sdscatfmt  *)
(* is as long as its format, so its proof is an induction over the pieces  *)
(* (WrittenHolds).  The induction comes from the well-foundedness of < on  *)
(* the natural numbers, as a least number of a set; the same lemma shows   *)
(* that the recursive functions have the values that define them, and that *)
(* the CHOOSE of a first or a last place has one to choose.                *)
(***************************************************************************)
EXTENDS Sds, TLAPS, WellFoundedInduction, FiniteSetTheorems, SequenceTheorems

-----------------------------------------------------------------------------
(* Induction.  A set of numbers has a least element, because < is well     *)
(* founded on Nat; so a set that has 0, and the successor of each of its   *)
(* numbers, has them all.                                                  *)

\* The order of the numbers, as a set of pairs.
Less == {ss \in Nat \X Nat : ss[1] < ss[2]}

\* There is no descending sequence of natural numbers.
LEMMA LessWellFounded == IsWellFoundedOn(Less, Nat)
  BY NatLessThanWellFounded DEF OpToRel, Less

\* Every nonempty set of natural numbers has a least element.
LEMMA LeastNumber ==
  ASSUME NEW T \in SUBSET Nat, T # {}
  PROVE  \E x \in T : \A y \in T : x <= y
<1>1. PICK x \in T : \A y \in T : ~(<<y, x>> \in Less)
  BY LessWellFounded, WFMin
<1>2. \A y \in T : ~(y < x)
  BY <1>1 DEF Less
<1>3. QED
  BY <1>2

\* Every nonempty set of natural numbers with a bound has a greatest element.
LEMMA GreatestNumber ==
  ASSUME NEW n \in Nat, NEW T \in SUBSET (0 .. n), T # {}
  PROVE  \E x \in T : \A y \in T : y <= x
<1> DEFINE D == {i \in Nat : n - i \in T}
<1>1. D \in SUBSET Nat /\ D # {}
  <2>1. PICK y \in T : TRUE
    OBVIOUS
  <2>2. n - y \in Nat /\ n - (n - y) = y
    OBVIOUS
  <2>3. QED
    BY <2>1, <2>2
<1>2. PICK i \in D : \A j \in D : i <= j
  <2> HIDE DEF D
  <2> QED BY <1>1, LeastNumber
<1>3. n - i \in T
  BY <1>2
<1>4. ASSUME NEW y \in T PROVE y <= n - i
  <2>1. n - y \in Nat /\ n - (n - y) = y
    OBVIOUS
  <2>2. n - y \in D
    BY <2>1
  <2>3. i <= n - y
    BY <1>2, <2>2
  <2>4. QED
    BY <2>3, <1>2
<1>5. QED
  BY <1>3, <1>4

\* Induction over the natural numbers.
LEMMA AllNumbers ==
  ASSUME NEW T, 0 \in T, \A n \in Nat : n \in T => n + 1 \in T
  PROVE  \A n \in Nat : n \in T
<1>1. SUFFICES ASSUME Nat \ T # {} PROVE FALSE
  OBVIOUS
<1>2. PICK x \in Nat \ T : \A y \in Nat \ T : x <= y
  BY <1>1, LeastNumber
<1>3. x # 0 /\ x - 1 \in Nat
  BY <1>2
<1>4. x - 1 \in T
  BY <1>2, <1>3
<1>5. x - 1 + 1 = x
  BY <1>2
<1>6. QED
  BY <1>2, <1>3, <1>4, <1>5

-----------------------------------------------------------------------------
(* The header.                                                             *)

\* The block and the header fit: this is all that the code relies on while it
\* rewrites a string, the terminator comes last.
Fits(h) ==
  /\ h \in [type : 0 .. 4, len : Nat, alloc : Nat, size : Nat, buf : {h.buf}]
  /\ Room(h) \in Nat
  /\ h.buf = [i \in 0 .. Room(h) |-> h.buf[i]]
  /\ h.len <= sdsalloc(h) /\ sdsalloc(h) <= Room(h)
  /\ h.type # 4 => sdsalloc(h) <= TypeMax[h.type]

\* The string holds a text t of n characters.
Holds(h, n, t) == Fits(h) /\ h.len = n /\ \A i \in 1 .. n : h.buf[i - 1] = t[i]
Closed(h) == h.buf[h.len] = NUL

\* The widths of the header types, and their sizes.
LEMMA TypesGrow ==
  /\ \A t \in 0 .. 3 : TypeMax[t] \in Nat
  /\ TypeMax[0] < TypeMax[1] /\ TypeMax[1] < TypeMax[2] /\ TypeMax[2] < TypeMax[3]
<1>1. TypeMax \in [0 .. 3 -> Nat] /\ \A t \in 1 .. 3 : TypeMax[t - 1] < TypeMax[t]
  BY SdsAssumption
<1>2. TypeMax[1 - 1] < TypeMax[1] /\ TypeMax[2 - 1] < TypeMax[2] /\ TypeMax[3 - 1] < TypeMax[3]
  BY <1>1
<1>3. QED
  BY <1>1, <1>2

\* The sizes of the headers are numbers.
LEMMA HeaderSizes == \A t \in 0 .. 4 : HdrSize[t + 1] \in Nat
  BY DEF HdrSize

\* The type for n characters is the smallest that can hold them.
LEMMA ReqTypeHolds ==
  ASSUME NEW n \in Nat
  PROVE  /\ ReqType(n) \in 0 .. 4
         /\ ReqType(n) # 4 => n <= TypeMax[ReqType(n)]
<1>1. CASE \E t \in 0 .. 3 : n <= TypeMax[t]
  <2> DEFINE T == {t \in 0 .. 3 : n <= TypeMax[t]}
  <2>1. T \in SUBSET Nat /\ T # {}
    BY <1>1
  <2>2. PICK t \in T : \A u \in T : t <= u
    <3> HIDE DEF T
    <3> QED BY <2>1, LeastNumber
  <2>3. t \in 0 .. 3 /\ n <= TypeMax[t] /\ \A u \in 0 .. t - 1 : n > TypeMax[u]
    BY <2>2, TypesGrow
  <2>4. QED
    BY <1>1, <2>3 DEF ReqType
<1>2. CASE ~\E t \in 0 .. 3 : n <= TypeMax[t]
  BY <1>2 DEF ReqType
<1>3. QED
  BY <1>1, <1>2

\* A length that its type can hold is stored as it is.
LEMMA WidthKeeps ==
  ASSUME NEW t \in 0 .. 4, NEW n \in Nat, t # 4 => n <= TypeMax[t]
  PROVE  Width(t, n) = n
<1>1. CASE t = 4
  BY <1>1 DEF Width
<1>2. CASE t # 4
  <2>1. TypeMax[t] \in Nat /\ n <= TypeMax[t]
    BY <1>2, TypesGrow
  <2>2. \A m \in Nat : n <= m => n % (m + 1) = n
    OBVIOUS
  <2>3. QED
    BY <1>2, <2>1, <2>2 DEF Width
<1>3. QED
  BY <1>1, <1>2

\* The length is stored as it is, and nothing else changes.
LEMMA SetLenFits ==
  ASSUME NEW h, Fits(h), NEW n \in Nat, n <= sdsalloc(h)
  PROVE  LET r == sdssetlen(h, n) IN
         /\ Fits(r) /\ r.len = n /\ r.buf = h.buf /\ Room(r) = Room(h)
         /\ n <= sdsalloc(r)
<1> DEFINE r == sdssetlen(h, n)
<1>1. Width(h.type, n) = n
  BY WidthKeeps, TypesGrow DEF Fits, sdsalloc
<1>2. r = [type |-> h.type, len |-> n, alloc |-> h.alloc, size |-> h.size, buf |-> h.buf]
  <2> DEFINE x == Width(h.type, n)
  <2>1. r = [h EXCEPT !.len = x]
    BY DEF sdssetlen
  <2>2. h \in [type : 0 .. 4, len : Nat, alloc : Nat, size : Nat, buf : {h.buf}]
    BY DEF Fits
  <2> HIDE DEF x, r
  <2>3. r = [type |-> h.type, len |-> x, alloc |-> h.alloc, size |-> h.size, buf |-> h.buf]
    BY ONLY <2>1, <2>2
  <2>4. QED
    BY <1>1, <2>3 DEF x
<1>3. Room(r) = Room(h)
  BY <1>2 DEF Room, Hdr
<1>4. sdsalloc(r) = IF h.type = 0 THEN n ELSE h.alloc
  BY <1>2 DEF sdsalloc
<1>5. n <= sdsalloc(r) /\ sdsalloc(r) <= sdsalloc(h)
  BY <1>4 DEF Fits, sdsalloc
<1>6. sdsalloc(h) \in Nat /\ sdsalloc(r) \in Nat
  BY <1>4 DEF Fits, sdsalloc
<1>7. h.type # 4 => TypeMax[h.type] \in Nat
  BY TypesGrow DEF Fits
<1>8. Fits(r)
  BY <1>2, <1>3, <1>5, <1>6, <1>7 DEF Fits
<1>9. QED
  BY <1>2, <1>3, <1>5, <1>8

\* What Put writes, with the length of the text as a number.
Write(h, at, n, t) ==
  [h EXCEPT !.buf = [i \in DOMAIN h.buf \cup (at .. at + n - 1) |->
                       IF i \in at .. at + n - 1 THEN t[i - at + 1] ELSE h.buf[i]]]

\* Put writes a text of that length.
LEMMA PutWrites ==
  ASSUME NEW h, NEW at, NEW t
  PROVE  Put(h, at, t) = Write(h, at, Len(t), t)
  BY DEF Put, Write

\* Writing inside of the block changes these characters and nothing else.
LEMMA WriteFits ==
  ASSUME NEW h, Fits(h), NEW at \in Nat, NEW n \in Nat, NEW t, at + n <= Room(h) + 1
  PROVE  LET r == Write(h, at, n, t) IN
         /\ Fits(r) /\ r.len = h.len /\ sdsalloc(r) = sdsalloc(h) /\ Room(r) = Room(h)
         /\ \A i \in 0 .. Room(h) :
              r.buf[i] = IF i < at \/ at + n <= i THEN h.buf[i] ELSE t[i - at + 1]
<1> DEFINE b == [i \in 0 .. Room(h) |->
                   IF i < at \/ at + n <= i THEN h.buf[i] ELSE t[i - at + 1]]
           r == Write(h, at, n, t)
<1>1. DOMAIN h.buf = 0 .. Room(h) /\ Room(h) \in Nat
  BY DEF Fits
<1>2. (0 .. Room(h)) \cup (at .. at + n - 1) = 0 .. Room(h)
  BY <1>1
<1>3. [i \in DOMAIN h.buf \cup (at .. at + n - 1) |->
         IF i \in at .. at + n - 1 THEN t[i - at + 1] ELSE h.buf[i]] = b
  BY <1>1, <1>2
<1>4. r = [type |-> h.type, len |-> h.len, alloc |-> h.alloc, size |-> h.size, buf |-> b]
  <2>1. r = [h EXCEPT !.buf = b]
    BY <1>3 DEF Write
  <2> HIDE DEF r, b
  <2>2. QED
    BY <2>1 DEF Fits
<1> HIDE DEF r
<1>5. Room(r) = Room(h) /\ sdsalloc(r) = sdsalloc(h)
  BY <1>4 DEF Room, Hdr, sdsalloc
<1>6. r.buf = [i \in 0 .. Room(r) |-> r.buf[i]]
  BY <1>1, <1>4, <1>5
<1>7. Fits(r)
  BY <1>4, <1>5, <1>6 DEF Fits
<1>8. QED
  BY <1>1, <1>4, <1>5, <1>7 DEF r

\* The terminator is one character.
LEMMA EndFits ==
  ASSUME NEW h, Fits(h), NEW at \in Nat, at <= Room(h)
  PROVE  LET r == End(h, at) IN
         /\ Fits(r) /\ r.len = h.len /\ sdsalloc(r) = sdsalloc(h) /\ Room(r) = Room(h)
         /\ \A i \in 0 .. Room(h) : r.buf[i] = IF i = at THEN NUL ELSE h.buf[i]
<1>1. Len(<<NUL>>) = 1 /\ <<NUL>>[1] = NUL
  OBVIOUS
<1>2. End(h, at) = Write(h, at, 1, <<NUL>>)
  BY <1>1, PutWrites DEF End
<1> DEFINE u == <<NUL>>
<1>3. u[1] = NUL
  BY <1>1
<1> HIDE DEF u
<1>4. End(h, at) = Write(h, at, 1, u)
  BY <1>2 DEF u
<1>5. Room(h) \in Nat
  BY DEF Fits
<1>6. \A i \in 0 .. Room(h) : ~(i < at \/ at + 1 <= i) => i = at /\ i - at + 1 = 1
  BY <1>5
<1>7. QED
  BY <1>3, <1>4, <1>5, <1>6, WriteFits

\* The string in another block: the header has the length and the room, the
\* buffer what was kept of the old one.
LEMMA MovedFits ==
  ASSUME NEW h, h.len \in Nat, NEW t \in 0 .. 4, NEW room \in Nat, NEW kept,
         t = 0 => h.len = room, h.len <= room,
         t # 4 => room <= TypeMax[t]
  PROVE  LET r == sdssetalloc(Moved(h, t, room, kept), room) IN
         /\ Fits(r) /\ r.type = t /\ r.len = h.len /\ sdsalloc(r) = room /\ Room(r) = room
         /\ \A i \in 0 .. room : r.buf[i] = IF i < kept THEN h.buf[i] ELSE Junk
<1> DEFINE b == [i \in 0 .. room |-> IF i < kept THEN h.buf[i] ELSE Junk]
           r == sdssetalloc(Moved(h, t, room, kept), room)
           al == IF t = 0 THEN 0 ELSE room
<1>1. Width(t, room) = room /\ Width(t, h.len) = h.len
  BY WidthKeeps, TypesGrow
<1>2. r = [type |-> t, len |-> h.len, alloc |-> al, size |-> HdrSize[t + 1] + room + 1,
           buf |-> b]
  <2> DEFINE q == Moved(h, t, room, kept)
  <2>1. q = [type |-> t, len |-> h.len, alloc |-> 0, size |-> HdrSize[t + 1] + room + 1,
             buf |-> b]
    BY <1>1 DEF Moved
  <2>2. r = [q EXCEPT !.alloc = IF q.type = 0 THEN 0 ELSE Width(q.type, room)]
    BY DEF sdssetalloc
  <2> HIDE DEF q, r, b
  <2>3. q.type = t
    BY <2>1
  <2>4. r = [q EXCEPT !.alloc = al]
    BY <1>1, <2>2, <2>3
  <2>5. QED
    BY <2>1, <2>4
<1> HIDE DEF r
<1>3. HdrSize[t + 1] \in Nat
  BY HeaderSizes
<1>4. Room(r) = room
  BY <1>2, <1>3 DEF Room, Hdr
<1>5. sdsalloc(r) = room
  BY <1>2 DEF sdsalloc
<1>6. r.size \in Nat /\ r.alloc \in Nat
  BY <1>2, <1>3
<1>7. Fits(r)
  BY <1>2, <1>4, <1>5, <1>6 DEF Fits
<1>8. QED
  BY <1>2, <1>4, <1>5, <1>7 DEF r

-----------------------------------------------------------------------------
(* The calls that choose a block.                                          *)

\* sdsMakeRoomFor keeps the text and its terminator, and makes the room.
LEMMA MakeRoomFits ==
  ASSUME NEW h, Fits(h), NEW a \in Nat
  PROVE  LET r == sdsMakeRoomFor(h, a) IN
         /\ Fits(r) /\ r.len = h.len /\ h.len + a <= sdsalloc(r)
         /\ \A i \in 0 .. h.len : r.buf[i] = h.buf[i]
<1> DEFINE r == sdsMakeRoomFor(h, a)
<1>1. sdsalloc(h) \in Nat /\ h.len \in Nat /\ Room(h) \in Nat /\ h.type \in 0 .. 4
  BY DEF Fits, sdsalloc
<1>2. CASE sdsavail(h) >= a
  <2>1. r = h
    BY <1>2 DEF sdsMakeRoomFor
  <2>2. h.len + a <= sdsalloc(h)
    BY <1>1, <1>2 DEF sdsavail, sdslen
  <2>3. QED
    BY <2>1, <2>2
<1>3. CASE ~(sdsavail(h) >= a)
  <2> DEFINE asked == h.len + a
             newlen == IF asked < MaxPrealloc THEN 2 * asked ELSE asked + MaxPrealloc
             t == IF ReqType(newlen) = 0 THEN 1 ELSE ReqType(newlen)
             kept == IF t = h.type THEN Lesser(Room(h), newlen) + 1 ELSE h.len + 1
             usable == IF t = 4 THEN newlen ELSE Lesser(newlen, TypeMax[t])
  <2>1. r = sdssetalloc(Moved(h, t, newlen, kept), usable)
    BY <1>3 DEF sdsMakeRoomFor, sdslen
  <2>2. MaxPrealloc \in Nat
    BY SdsAssumption
  <2>3. newlen \in Nat /\ asked <= newlen
    BY <1>1, <2>2
  <2>4. t \in 1 .. 4 /\ (t # 4 => newlen <= TypeMax[t])
    <3> HIDE DEF newlen
    <3> QED BY <2>3, ReqTypeHolds, TypesGrow
  <2> HIDE DEF newlen, t
  <2>5. usable = newlen
    <3>1. CASE t = 4
      BY <3>1
    <3>2. CASE t # 4
      <4>1. newlen <= TypeMax[t] /\ TypeMax[t] \in Nat
        BY <2>4, <3>2, TypesGrow
      <4>2. QED
        BY <2>3, <3>2, <4>1 DEF Lesser
    <3>3. QED
      BY <3>1, <3>2
  <2>6. h.len + 1 <= kept /\ kept \in Nat
    BY <1>1, <2>3 DEF Lesser, Fits
  <2> HIDE DEF kept, usable
  <2>7. /\ Fits(r) /\ r.len = h.len /\ sdsalloc(r) = newlen /\ Room(r) = newlen
        /\ \A i \in 0 .. newlen : r.buf[i] = IF i < kept THEN h.buf[i] ELSE Junk
    <3>1. h.len <= newlen /\ t \in 0 .. 4 /\ t # 0
      BY <1>1, <2>3, <2>4
    <3> HIDE DEF r, asked
    <3>2. QED
      BY <1>1, <2>1, <2>3, <2>4, <2>5, <3>1, MovedFits
  <2> HIDE DEF r
  <2>8. ASSUME NEW i \in 0 .. h.len PROVE r.buf[i] = h.buf[i]
    <3>1. i \in 0 .. newlen /\ i < kept
      BY <1>1, <2>3, <2>6
    <3>2. QED
      BY <2>7, <3>1
  <2>9. QED
    BY <2>3, <2>7, <2>8 DEF r
<1>4. QED
  BY <1>2, <1>3

\* sdsRemoveFreeSpace keeps the text and its terminator.
LEMMA RemoveFreeSpaceFits ==
  ASSUME NEW h, Fits(h)
  PROVE  LET r == sdsRemoveFreeSpace(h) IN
         /\ Fits(r) /\ r.len = h.len
         /\ \A i \in 0 .. h.len : r.buf[i] = h.buf[i]
<1> DEFINE r == sdsRemoveFreeSpace(h)
<1>1. sdsalloc(h) \in Nat /\ h.len \in Nat /\ h.type \in 0 .. 4
  BY DEF Fits, sdsalloc
<1>2. CASE sdsavail(h) = 0
  BY <1>2 DEF sdsRemoveFreeSpace
<1>3. CASE sdsavail(h) # 0
  <2> DEFINE fit == ReqType(h.len)
             t == IF fit = h.type \/ fit > 1 THEN h.type ELSE fit
  <2>1. r = sdssetalloc(Moved(h, t, h.len, h.len + 1), h.len)
    BY <1>3 DEF sdsRemoveFreeSpace, sdslen
  <2>2. fit \in 0 .. 4 /\ (fit # 4 => h.len <= TypeMax[fit])
    <3> HIDE DEF fit
    <3> QED BY <1>1, ReqTypeHolds DEF fit
  <2>3. h.type # 4 => h.len <= TypeMax[h.type]
    BY <1>1, TypesGrow DEF Fits
  <2> HIDE DEF fit
  <2>4. t \in 0 .. 4 /\ (t # 4 => h.len <= TypeMax[t])
    BY <1>1, <2>2, <2>3
  <2> HIDE DEF t, r
  <2>5. /\ Fits(r) /\ r.len = h.len
        /\ \A i \in 0 .. h.len : r.buf[i] = IF i < h.len + 1 THEN h.buf[i] ELSE Junk
    BY <1>1, <2>1, <2>4, MovedFits
  <2>6. \A i \in 0 .. h.len : i < h.len + 1
    BY <1>1
  <2>7. QED
    BY <2>5, <2>6 DEF r
<1>4. QED
  BY <1>2, <1>3

\* sdsnewlen makes a string of its argument.
LEMMA NewHolds ==
  ASSUME NEW t, NEW n \in Nat, Len(t) = n
  PROVE  Holds(sdsnewlen(t), n, t) /\ Closed(sdsnewlen(t))
<1> DEFINE y == IF ReqType(n) = 0 /\ t = << >> THEN 1 ELSE ReqType(n)
           o == [len |-> n]
           h == sdssetalloc(Moved(o, y, n, 0), n)
           g == Write(h, 0, n, t)
           r == sdsnewlen(t)
<1>1. r = End(g, n)
  BY PutWrites DEF sdsnewlen
<1>2. o.len = n
  OBVIOUS
<1>3. y \in 0 .. 4 /\ (y # 4 => n <= TypeMax[y])
  <2>1. ReqType(n) \in 0 .. 4 /\ (ReqType(n) # 4 => n <= TypeMax[ReqType(n)])
    BY ReqTypeHolds
  <2>2. QED
    BY <2>1, TypesGrow
<1> HIDE DEF y, o, r
<1>4. Fits(h) /\ h.len = n /\ Room(h) = n
  BY <1>2, <1>3, MovedFits
<1> HIDE DEF h
<1>5. /\ Fits(g) /\ g.len = n /\ Room(g) = n
      /\ \A i \in 0 .. n : g.buf[i] = IF i < 0 \/ 0 + n <= i THEN h.buf[i] ELSE t[i - 0 + 1]
  <2>1. 0 + n <= Room(h) + 1
    BY <1>4
  <2>2. QED
    BY <1>4, <2>1, WriteFits
<1> HIDE DEF g
<1>6. /\ Fits(r) /\ r.len = n
      /\ \A i \in 0 .. n : r.buf[i] = IF i = n THEN NUL ELSE g.buf[i]
  <2>1. n <= Room(g)
    BY <1>5
  <2> DEFINE e == End(g, n)
  <2>2. /\ Fits(e) /\ e.len = g.len
        /\ \A i \in 0 .. Room(g) : e.buf[i] = IF i = n THEN NUL ELSE g.buf[i]
    BY ONLY <1>5, <2>1, n \in Nat, EndFits
  <2> HIDE DEF e
  <2>3. r = e
    BY <1>1 DEF e
  <2>4. QED
    BY ONLY <1>5, <2>2, <2>3
<1>7. ASSUME NEW i \in 1 .. n PROVE r.buf[i - 1] = t[i]
  <2>1. i - 1 \in 0 .. n /\ i - 1 # n /\ ~(i - 1 < 0 \/ 0 + n <= i - 1) /\ i - 1 - 0 + 1 = i
    OBVIOUS
  <2>2. QED
    BY <1>5, <1>6, <2>1
<1>8. QED
  BY <1>6, <1>7 DEF Holds, Closed, r

-----------------------------------------------------------------------------
(* What the calls make of a text t of n characters.                        *)

\* What holds of a string.
LEMMA HoldsFacts ==
  ASSUME NEW h, NEW n, NEW t, Holds(h, n, t)
  PROVE  /\ Fits(h) /\ h.len = n /\ n \in Nat /\ sdsalloc(h) \in Nat /\ Room(h) \in Nat
         /\ n <= sdsalloc(h) /\ sdsalloc(h) <= Room(h) /\ n <= Room(h)
         /\ \A i \in 1 .. n : h.buf[i - 1] = t[i]
<1>1. /\ Fits(h) /\ h.len = n
      /\ \A i \in 1 .. n : h.buf[i - 1] = t[i]
  BY DEF Holds
<1>2. /\ h.len \in Nat /\ h.alloc \in Nat /\ Room(h) \in Nat
      /\ h.len <= sdsalloc(h) /\ sdsalloc(h) <= Room(h)
  BY <1>1 DEF Fits
<1>3. sdsalloc(h) \in Nat
  BY <1>2 DEF sdsalloc
<1>4. QED
  BY <1>1, <1>2, <1>3

\* More room.
LEMMA MakeRoomHolds ==
  ASSUME NEW h, NEW n, NEW t, Holds(h, n, t), NEW a \in Nat
  PROVE  LET r == sdsMakeRoomFor(h, a) IN
         /\ Holds(r, n, t) /\ n + a <= sdsalloc(r)
         /\ Closed(h) => Closed(r)
<1> DEFINE r == sdsMakeRoomFor(h, a)
<1>1. Fits(h) /\ h.len = n /\ n \in Nat /\ \A i \in 1 .. n : h.buf[i - 1] = t[i]
  BY DEF Holds, Fits
<1>2. /\ Fits(r) /\ r.len = n /\ n + a <= sdsalloc(r)
      /\ \A i \in 0 .. n : r.buf[i] = h.buf[i]
  BY <1>1, MakeRoomFits
<1> HIDE DEF r
<1>3. \A i \in 1 .. n : r.buf[i - 1] = t[i]
  BY <1>1, <1>2
<1>4. Closed(h) => Closed(r)
  BY <1>1, <1>2 DEF Closed
<1>5. QED
  BY <1>2, <1>3, <1>4 DEF Holds, r

\* A text u of m characters is written behind the text, or over its end, and
\* the length is set.
LEMMA SetHolds ==
  ASSUME NEW h, NEW n, NEW t, Holds(h, n, t), NEW at \in 0 .. n, NEW m \in Nat, NEW u,
         at + m <= Room(h) + 1,
         NEW l \in Nat, l <= at + m, l <= sdsalloc(h),
         NEW w, \A i \in 1 .. l : w[i] = IF i <= at THEN t[i] ELSE u[i - at]
  PROVE  Holds(sdssetlen(Write(h, at, m, u), l), l, w)
<1> DEFINE g == Write(h, at, m, u)
           r == sdssetlen(g, l)
<1>1. /\ Fits(h) /\ h.len = n /\ n \in Nat /\ at \in Nat /\ Room(h) \in Nat /\ n <= Room(h)
      /\ sdsalloc(h) \in Nat /\ sdsalloc(h) <= Room(h)
      /\ \A i \in 1 .. n : h.buf[i - 1] = t[i]
  BY HoldsFacts
<1>2. /\ Fits(g) /\ sdsalloc(g) = sdsalloc(h) /\ Room(g) = Room(h)
      /\ \A i \in 0 .. Room(h) :
           g.buf[i] = IF i < at \/ at + m <= i THEN h.buf[i] ELSE u[i - at + 1]
  BY <1>1, WriteFits
<1> HIDE DEF g
<1>3. Fits(r) /\ r.len = l /\ r.buf = g.buf /\ Room(r) = Room(h)
  BY <1>2, SetLenFits
<1> HIDE DEF r
<1>4. ASSUME NEW i \in 1 .. l PROVE r.buf[i - 1] = w[i]
  <2>1. i - 1 \in 0 .. Room(h) /\ i - 1 < at + m
    BY <1>1
  <2>2. g.buf[i - 1] = IF i - 1 < at THEN h.buf[i - 1] ELSE u[i - 1 - at + 1]
    BY <1>1, <1>2, <2>1
  <2>3. CASE i <= at
    <3>1. i \in 1 .. n /\ i - 1 < at
      BY <1>1, <2>3
    <3>2. QED
      BY <1>1, <1>3, <2>2, <2>3, <3>1
  <2>4. CASE ~(i <= at)
    <3>1. ~(i - 1 < at) /\ i - 1 - at + 1 = i - at
      BY <1>1, <2>4
    <3>2. QED
      BY <1>3, <2>2, <2>4, <3>1
  <2>5. QED
    BY <2>3, <2>4
<1>5. QED
  BY <1>3, <1>4 DEF Holds, r, g

\* The terminator.
LEMMA EndHolds ==
  ASSUME NEW h, NEW n, NEW t, Holds(h, n, t)
  PROVE  Holds(End(h, n), n, t) /\ Closed(End(h, n))
<1> DEFINE r == End(h, n)
<1>1. /\ Fits(h) /\ h.len = n /\ n \in Nat /\ Room(h) \in Nat /\ n <= Room(h)
      /\ \A i \in 1 .. n : h.buf[i - 1] = t[i]
  BY HoldsFacts
<1>2. /\ Fits(r) /\ r.len = n
      /\ \A i \in 0 .. Room(h) : r.buf[i] = IF i = n THEN NUL ELSE h.buf[i]
  BY <1>1, EndFits
<1> HIDE DEF r
<1>3. \A i \in 1 .. n : i - 1 \in 0 .. Room(h) /\ i - 1 # n
  BY <1>1
<1>4. QED
  BY <1>1, <1>2, <1>3 DEF Holds, Closed, r

\* The text is cut to its first m characters.
LEMMA ShortenHolds ==
  ASSUME NEW h, NEW n, NEW t, Holds(h, n, t), NEW m \in 0 .. n
  PROVE  LET r == sdssetlen(h, m) IN
         /\ Holds(r, m, t) /\ Holds(End(r, m), m, t) /\ Closed(End(r, m)) /\ r.buf = h.buf
<1> DEFINE r == sdssetlen(h, m)
<1>1. /\ Fits(h) /\ n \in Nat /\ m \in Nat /\ m <= sdsalloc(h)
      /\ \A i \in 1 .. n : h.buf[i - 1] = t[i]
  BY HoldsFacts
<1>2. Fits(r) /\ r.len = m /\ r.buf = h.buf
  BY <1>1, SetLenFits
<1> HIDE DEF r
<1>3. Holds(r, m, t)
  BY <1>1, <1>2 DEF Holds
<1>4. QED
  BY <1>2, <1>3, EndHolds DEF r

\* sdscatlen: w is the text with u, of m characters, behind it.
LEMMA CatHolds ==
  ASSUME NEW h, NEW n, NEW t, Holds(h, n, t), NEW u, NEW m \in Nat, Len(u) = m,
         NEW w, \A i \in 1 .. n + m : w[i] = IF i <= n THEN t[i] ELSE u[i - n]
  PROVE  Holds(sdscatlen(h, u), n + m, w) /\ Closed(sdscatlen(h, u))
<1> DEFINE r == sdsMakeRoomFor(h, m)
           g == sdssetlen(Write(r, n, m, u), n + m)
<1>1. h.len = n /\ n \in Nat
  BY HoldsFacts
<1>2. sdscatlen(h, u) = End(g, n + m)
  BY <1>1, PutWrites DEF sdscatlen, sdslen
<1>3. Holds(r, n, t) /\ n + m <= sdsalloc(r)
  BY MakeRoomHolds
<1> HIDE DEF r
<1>4. n + m <= Room(r) + 1
  BY <1>1, <1>3, HoldsFacts
<1>5. Holds(g, n + m, w)
  <2> DEFINE l == n + m
  <2>1. n \in 0 .. n /\ l \in Nat /\ l <= n + m /\ l <= sdsalloc(r)
    BY <1>1, <1>3
  <2>2. \A i \in 1 .. l : w[i] = IF i <= n THEN t[i] ELSE u[i - n]
    OBVIOUS
  <2> HIDE DEF l
  <2>3. Holds(sdssetlen(Write(r, n, m, u), l), l, w)
    BY ONLY <1>3, <1>4, <2>1, <2>2, m \in Nat, SetHolds
  <2>4. QED
    BY <2>3 DEF l
<1> HIDE DEF g
<1>6. QED
  BY <1>2, <1>5, EndHolds

\* The program fills the spare bytes and calls sdsIncrLen.
LEMMA FillHolds ==
  ASSUME NEW h, NEW n, NEW t, Holds(h, n, t), NEW u, NEW m \in Nat, Len(u) = m,
         m <= sdsavail(h),
         NEW w, \A i \in 1 .. n + m : w[i] = IF i <= n THEN t[i] ELSE u[i - n]
  PROVE  LET r == sdsIncrLen(Put(h, h.len, u), m) IN Holds(r, n + m, w) /\ Closed(r)
<1> DEFINE q == Write(h, n, m, u)
           g == sdssetlen(q, n + m)
<1>1. h.len = n /\ n \in Nat /\ Fits(h)
  BY HoldsFacts
<1>2. n + m <= sdsalloc(h) /\ n + m <= Room(h) + 1
  BY <1>1, HoldsFacts DEF sdsavail, sdslen
<1>3. q.len = n
  BY <1>1, <1>2, WriteFits
<1>4. sdsIncrLen(Put(h, h.len, u), m) = End(g, n + m)
  BY <1>1, <1>3, PutWrites DEF sdsIncrLen, sdslen
<1>5. Holds(g, n + m, w)
  <2>1. n \in 0 .. n /\ n + m \in Nat /\ n + m <= n + m
    BY <1>1
  <2>2. QED
    BY <1>2, <2>1, SetHolds
<1> HIDE DEF g
<1>6. QED
  BY <1>4, <1>5, EndHolds

\* sdscpylen.
LEMMA CpyHolds ==
  ASSUME NEW h, NEW n, NEW t, Holds(h, n, t), NEW u, NEW m \in Nat, Len(u) = m
  PROVE  Holds(sdscpylen(h, u), m, u) /\ Closed(sdscpylen(h, u))
<1> DEFINE r == IF sdsalloc(h) < m THEN sdsMakeRoomFor(h, m - h.len) ELSE h
           q == Write(r, 0, m, u)
           e == End(q, m)
           g == sdssetlen(e, m)
<1>1. sdscpylen(h, u) = g
  BY PutWrites DEF sdscpylen, sdslen
<1>2. Holds(r, n, t) /\ m <= sdsalloc(r)
  <2>1. h.len = n /\ n \in Nat /\ sdsalloc(h) \in Nat /\ n <= sdsalloc(h)
    BY HoldsFacts
  <2>2. CASE sdsalloc(h) < m
    <3>1. m - h.len \in Nat /\ n + (m - h.len) = m
      BY <2>1, <2>2
    <3> DEFINE rr == sdsMakeRoomFor(h, m - h.len)
    <3>2. Holds(rr, n, t) /\ n + (m - h.len) <= sdsalloc(rr)
      BY <3>1, MakeRoomHolds
    <3> HIDE DEF rr
    <3>3. r = rr
      BY <2>2 DEF rr
    <3> HIDE DEF r
    <3>4. QED
      BY <3>1, <3>2, <3>3
  <2>3. CASE ~(sdsalloc(h) < m)
    BY <2>1, <2>3
  <2>4. QED
    BY <2>2, <2>3
<1> HIDE DEF r
<1>3. Fits(r) /\ Room(r) \in Nat /\ m <= Room(r)
  BY <1>2, HoldsFacts
<1>4. /\ Fits(q) /\ sdsalloc(q) = sdsalloc(r) /\ Room(q) = Room(r)
      /\ \A i \in 0 .. Room(r) :
           q.buf[i] = IF i < 0 \/ 0 + m <= i THEN r.buf[i] ELSE u[i - 0 + 1]
  <2>1. 0 + m <= Room(r) + 1
    BY <1>3
  <2>2. QED
    BY <1>3, <2>1, WriteFits
<1> HIDE DEF q
<1>5. /\ Fits(e) /\ sdsalloc(e) = sdsalloc(r) /\ Room(e) = Room(r)
      /\ \A i \in 0 .. Room(q) : e.buf[i] = IF i = m THEN NUL ELSE q.buf[i]
  BY <1>3, <1>4, EndFits
<1> HIDE DEF e
<1>6. Fits(g) /\ g.len = m /\ g.buf = e.buf
  BY <1>2, <1>5, SetLenFits
<1> HIDE DEF g
<1>7. ASSUME NEW i \in 1 .. m PROVE g.buf[i - 1] = u[i]
  <2>1. i - 1 \in 0 .. Room(q) /\ i - 1 # m /\ ~(i - 1 < 0 \/ 0 + m <= i - 1) /\ i - 1 - 0 + 1 = i
    BY <1>3, <1>4
  <2>2. QED
    BY <1>4, <1>5, <1>6, <2>1
<1>8. g.buf[m] = NUL
  BY <1>3, <1>4, <1>5, <1>6
<1>9. QED
  BY <1>1, <1>6, <1>7, <1>8 DEF Holds, Closed

\* sdsgrowzero: the text, and zeros up to the length k.
LEMMA GrowZeroHolds ==
  ASSUME NEW h, NEW n, NEW t, Holds(h, n, t), Closed(h), NEW k \in Nat, NEW l,
         l = IF k <= n THEN n ELSE k,
         NEW w, \A i \in 1 .. l : w[i] = IF i <= n THEN t[i] ELSE NUL
  PROVE  Holds(sdsgrowzero(h, k), l, w) /\ Closed(sdsgrowzero(h, k))
<1>1. h.len = n /\ n \in Nat /\ \A i \in 1 .. n : h.buf[i - 1] = t[i]
  BY HoldsFacts
<1>2. CASE k <= n
  <2>1. sdsgrowzero(h, k) = h /\ l = n
    BY <1>1, <1>2 DEF sdsgrowzero, sdslen
  <2>2. \A i \in 1 .. n : w[i] = t[i]
    BY <1>1, <2>1
  <2>3. QED
    BY <2>1, <2>2 DEF Holds
<1>3. CASE ~(k <= n)
  <2> DEFINE m == k - n + 1
             z == Zeros(m)
             r == sdsMakeRoomFor(h, k - n)
             g == sdssetlen(Write(r, n, m, z), k)
  <2>1. k - n \in Nat /\ m \in Nat /\ n + (k - n) = k /\ n + m = k + 1 /\ l = k
    BY <1>1, <1>3
  <2>2. Len(z) = m /\ \A i \in 1 .. m : z[i] = NUL
    <3> HIDE DEF m
    <3> QED BY <2>1 DEF Zeros
  <2>3. sdsgrowzero(h, k) = g
    BY <1>1, <1>3, <2>2, PutWrites DEF sdsgrowzero, sdslen
  <2> HIDE DEF z
  <2>4. Holds(r, n, t) /\ k <= sdsalloc(r)
    BY <2>1, MakeRoomHolds
  <2> HIDE DEF r
  <2>5. n + m <= Room(r) + 1
    BY <2>1, <2>4, HoldsFacts
  <2>6. ASSUME NEW i \in 1 .. k PROVE w[i] = IF i <= n THEN t[i] ELSE z[i - n]
    <3>1. i <= n \/ i - n \in 1 .. m
      BY <1>1
    <3>2. QED
      BY <2>1, <2>2, <3>1
  <2> HIDE DEF m
  <2>7. Holds(g, k, w)
    <3>1. n \in 0 .. n /\ k <= n + m
      BY <1>1, <2>1
    <3>2. \A i \in 1 .. k : w[i] = IF i <= n THEN t[i] ELSE z[i - n]
      BY <2>6
    <3>3. Holds(sdssetlen(Write(r, n, m, z), k), k, w)
      BY ONLY <2>1, <2>4, <2>5, <3>1, <3>2, k \in Nat, SetHolds
    <3>4. QED
      BY <3>3
  <2>8. g.buf[k] = NUL
    <3> DEFINE q == Write(r, n, m, z)
    <3>1. Fits(r) /\ k \in 0 .. Room(r) /\ Room(r) \in Nat
      BY <2>1, <2>4, HoldsFacts
    <3>2. /\ Fits(q) /\ sdsalloc(q) = sdsalloc(r)
          /\ \A i \in 0 .. Room(r) :
               q.buf[i] = IF i < n \/ n + m <= i THEN r.buf[i] ELSE z[i - n + 1]
      BY <1>1, <2>1, <2>5, <3>1, WriteFits
    <3> HIDE DEF q
    <3>3. ~(k < n \/ n + m <= k) /\ k - n + 1 \in 1 .. m
      BY <1>1, <1>3, <2>1
    <3>4. q.buf[k] = NUL
      BY <2>2, <3>1, <3>2, <3>3
    <3>5. sdssetlen(q, k).buf = q.buf
      BY <2>4, <3>2, SetLenFits
    <3>6. QED
      BY <3>4, <3>5 DEF q
  <2> HIDE DEF g
  <2>9. QED
    BY <2>1, <2>3, <2>7, <2>8, HoldsFacts DEF Closed
<1>4. QED
  BY <1>2, <1>3

\* sdsupdatelen finds the first NUL of the text, or the terminator.
LEMMA UpdateLenHolds ==
  ASSUME NEW h, NEW n, NEW t, Holds(h, n, t), Closed(h), NEW m \in 0 .. n,
         \A i \in 1 .. m : t[i] # NUL, m < n => t[m + 1] = NUL
  PROVE  Holds(sdsupdatelen(h), m, t) /\ Closed(sdsupdatelen(h))
<1>1. /\ h.len = n /\ n \in Nat /\ n <= Room(h) /\ Room(h) \in Nat
      /\ \A i \in 1 .. n : h.buf[i - 1] = t[i]
  BY HoldsFacts
<1>2. DOMAIN h.buf = 0 .. Room(h)
  <2>1. Fits(h)
    BY HoldsFacts
  <2>2. h.buf = [i \in 0 .. Room(h) |-> h.buf[i]]
    BY <2>1 DEF Fits
  <2>3. QED
    BY ONLY <2>2
<1>3. \A j \in 0 .. m - 1 : h.buf[j] # NUL
  <2> SUFFICES ASSUME NEW j \in 0 .. m - 1 PROVE h.buf[j] # NUL
    OBVIOUS
  <2>1. j + 1 \in 1 .. n /\ j + 1 \in 1 .. m /\ j + 1 - 1 = j
    BY <1>1
  <2>2. h.buf[j] = t[j + 1]
    BY <1>1, <2>1
  <2>3. QED
    BY <2>1, <2>2
<1>4. h.buf[m] = NUL
  <2>1. CASE m = n
    BY <1>1, <2>1 DEF Closed
  <2>2. CASE m < n
    <3>1. m + 1 \in 1 .. n /\ m + 1 - 1 = m
      BY <1>1, <2>2
    <3>2. QED
      BY <1>1, <2>2, <3>1
  <2>3. QED
    BY <1>1, <2>1, <2>2
<1> DEFINE First(i) == h.buf[i] = NUL /\ \A j \in 0 .. i - 1 : h.buf[j] # NUL
<1>5. m \in DOMAIN h.buf /\ First(m)
  BY <1>1, <1>2, <1>3, <1>4
<1>6. ASSUME NEW i \in DOMAIN h.buf, First(i) PROVE i = m
  <2>1. i \in Nat /\ ~(m < i) /\ ~(i < m)
    BY <1>2, <1>5, <1>6
  <2>2. QED
    BY <2>1
<1>7. (CHOOSE i \in DOMAIN h.buf : First(i)) = m
  <2> HIDE DEF First
  <2> QED BY <1>5, <1>6
<1>8. sdsupdatelen(h) = sdssetlen(h, m)
  BY <1>7 DEF sdsupdatelen
<1>9. Holds(sdssetlen(h, m), m, t) /\ sdssetlen(h, m).buf = h.buf
  BY ShortenHolds
<1>10. QED
  BY <1>4, <1>8, <1>9, HoldsFacts DEF Closed

\* m characters from place `from` on move to the front.
LEMMA ShiftHolds ==
  ASSUME NEW h, NEW n, NEW t, Holds(h, n, t), NEW from \in Nat, NEW m \in Nat,
         from + m <= n, NEW w, \A i \in 1 .. m : w[i] = t[from + i]
  PROVE  Holds(Shift(h, from, m), m, w) /\ Closed(Shift(h, from, m))
<1> DEFINE u == [i \in 1 .. m |-> h.buf[from + i - 1]]
           q == Write(h, 0, m, u)
           e == End(q, m)
           g == sdssetlen(e, m)
<1>1. /\ Fits(h) /\ h.len = n /\ n \in Nat /\ n <= sdsalloc(h) /\ sdsalloc(h) \in Nat
      /\ n <= Room(h) /\ Room(h) \in Nat /\ \A i \in 1 .. n : h.buf[i - 1] = t[i]
  BY HoldsFacts
<1>2. Len(u) = m
  OBVIOUS
<1>3. \A i \in 1 .. m : u[i] = w[i]
  <2> SUFFICES ASSUME NEW i \in 1 .. m PROVE u[i] = w[i]
    OBVIOUS
  <2>1. from + i \in 1 .. n
    BY <1>1
  <2>2. QED
    BY <1>1, <2>1
<1>4. Shift(h, from, m) = g
  BY <1>2, PutWrites DEF Shift
<1> HIDE DEF u
<1>5. /\ Fits(q) /\ sdsalloc(q) = sdsalloc(h) /\ Room(q) = Room(h)
      /\ \A i \in 0 .. Room(h) :
           q.buf[i] = IF i < 0 \/ 0 + m <= i THEN h.buf[i] ELSE u[i - 0 + 1]
  <2>1. 0 + m <= Room(h) + 1
    BY <1>1
  <2>2. QED
    BY <1>1, <2>1, WriteFits
<1> HIDE DEF q
<1>6. /\ Fits(e) /\ sdsalloc(e) = sdsalloc(h)
      /\ \A i \in 0 .. Room(q) : e.buf[i] = IF i = m THEN NUL ELSE q.buf[i]
  <2>1. m <= Room(q)
    BY <1>1, <1>5
  <2>2. QED
    BY <1>5, <2>1, EndFits
<1> HIDE DEF e
<1>7. Fits(g) /\ g.len = m /\ g.buf = e.buf
  <2>1. m <= sdsalloc(e)
    BY <1>1, <1>6
  <2>2. QED
    BY <1>6, <2>1, SetLenFits
<1> HIDE DEF g
<1>8. ASSUME NEW i \in 1 .. m PROVE g.buf[i - 1] = w[i]
  <2>1. /\ i - 1 \in 0 .. Room(q) /\ i - 1 \in 0 .. Room(h) /\ i - 1 # m
        /\ ~(i - 1 < 0 \/ 0 + m <= i - 1) /\ i - 1 - 0 + 1 = i
    BY <1>1, <1>5
  <2>2. QED
    BY <1>3, <1>5, <1>6, <1>7, <2>1
<1>9. g.buf[m] = NUL
  <2>1. m \in 0 .. Room(q)
    BY <1>1, <1>5
  <2>2. QED
    BY <1>6, <1>7, <2>1
<1>10. QED
  BY <1>4, <1>7, <1>8, <1>9 DEF Holds, Closed

\* sdsmapchars: each character by itself.
LEMMA MapHolds ==
  ASSUME NEW h, NEW n, NEW t, Holds(h, n, t), Closed(h), NEW from, NEW to,
         NEW w, \A i \in 1 .. n : w[i] = IF t[i] = from THEN to ELSE t[i]
  PROVE  Holds(sdsmapchars(h, from, to), n, w) /\ Closed(sdsmapchars(h, from, to))
<1> DEFINE b == [i \in 0 .. Room(h) |-> IF i < n /\ h.buf[i] = from THEN to ELSE h.buf[i]]
           r == [h EXCEPT !.buf = b]
<1>1. /\ Fits(h) /\ h.len = n /\ n \in Nat /\ n <= Room(h) /\ Room(h) \in Nat
      /\ \A i \in 1 .. n : h.buf[i - 1] = t[i]
  BY HoldsFacts
<1>2. DOMAIN h.buf = 0 .. Room(h)
  BY <1>1 DEF Fits
<1>3. sdsmapchars(h, from, to) = r
  BY <1>1, <1>2 DEF sdsmapchars, sdslen
<1>4. b = [i \in 0 .. Room(h) |-> b[i]] /\ b[n] = h.buf[n]
  BY <1>1
<1>5. ASSUME NEW i \in 1 .. n PROVE b[i - 1] = w[i]
  <2>1. i - 1 \in 0 .. Room(h) /\ i - 1 < n
    BY <1>1
  <2>2. QED
    BY <1>1, <2>1
<1> HIDE DEF b
<1>6. r = [type |-> h.type, len |-> h.len, alloc |-> h.alloc, size |-> h.size, buf |-> b]
  BY <1>1 DEF Fits
<1> HIDE DEF r
<1>7. Fits(r) /\ r.len = n /\ r.buf = b
  <2>1. Room(r) = Room(h) /\ sdsalloc(r) = sdsalloc(h)
    BY <1>6 DEF Room, Hdr, sdsalloc
  <2>2. QED
    BY <1>1, <1>4, <1>6, <2>1 DEF Fits
<1>8. QED
  BY <1>1, <1>3, <1>4, <1>5, <1>7 DEF Holds, Closed

\* What the program leaves behind the terminator does not matter.
LEMMA ForgetHolds ==
  ASSUME NEW h, NEW n, NEW t, Holds(h, n, t), Closed(h)
  PROVE  Holds(Forget(h), n, t) /\ Closed(Forget(h))
<1> DEFINE b == [i \in 0 .. Room(h) |-> IF i > n THEN Junk ELSE h.buf[i]]
           r == [h EXCEPT !.buf = b]
<1>1. /\ Fits(h) /\ h.len = n /\ n \in Nat /\ n <= Room(h) /\ Room(h) \in Nat
      /\ \A i \in 1 .. n : h.buf[i - 1] = t[i]
  BY HoldsFacts
<1>2. DOMAIN h.buf = 0 .. Room(h)
  BY <1>1 DEF Fits
<1>3. Forget(h) = r
  BY <1>1, <1>2 DEF Forget
<1>4. b = [i \in 0 .. Room(h) |-> b[i]] /\ b[n] = h.buf[n]
  BY <1>1
<1>5. ASSUME NEW i \in 1 .. n PROVE b[i - 1] = t[i]
  <2>1. i - 1 \in 0 .. Room(h) /\ ~(i - 1 > n)
    BY <1>1
  <2>2. QED
    BY <1>1, <2>1
<1> HIDE DEF b
<1>6. r = [type |-> h.type, len |-> h.len, alloc |-> h.alloc, size |-> h.size, buf |-> b]
  BY <1>1 DEF Fits
<1> HIDE DEF r
<1>7. Fits(r) /\ r.len = n /\ r.buf = b
  <2>1. Room(r) = Room(h) /\ sdsalloc(r) = sdsalloc(h)
    BY <1>6 DEF Room, Hdr, sdsalloc
  <2>2. QED
    BY <1>1, <1>4, <1>6, <2>1 DEF Fits
<1>8. QED
  BY <1>1, <1>3, <1>4, <1>5, <1>7 DEF Holds, Closed

\* sdstrim: what is kept are m characters after the first `a`.
LEMMA TrimHolds ==
  ASSUME NEW h, NEW n, NEW t, Holds(h, n, t), NEW c, NEW a \in Nat, NEW m \in Nat, a + m <= n,
         \A i \in 1 .. n : t[i] \notin c \cup {NUL} => i \in a + 1 .. a + m,
         m = 0 => \A i \in 1 .. n : t[i] \in c \cup {NUL},
         m # 0 => t[a + 1] \notin c \cup {NUL} /\ t[a + m] \notin c \cup {NUL},
         NEW w, \A i \in 1 .. m : w[i] = t[a + i]
  PROVE  Holds(sdstrim(h, c), m, w) /\ Closed(sdstrim(h, c))
<1> DEFINE keep == {i \in 0 .. n - 1 : h.buf[i] \notin c \cup {NUL}}
           first == CHOOSE i \in keep : \A j \in keep : i <= j
           last == CHOOSE i \in keep : \A j \in keep : j <= i
<1>1. h.len = n /\ n \in Nat /\ \A i \in 1 .. n : h.buf[i - 1] = t[i]
  BY HoldsFacts
<1>2. sdstrim(h, c) = IF keep = {} THEN Shift(h, 0, 0) ELSE Shift(h, first, last - first + 1)
  BY <1>1 DEF sdstrim, sdslen
<1>3. ASSUME NEW i \in keep PROVE i \in a .. a + m - 1 /\ m # 0
  <2>1. i + 1 \in 1 .. n /\ i + 1 - 1 = i /\ h.buf[i] \notin c \cup {NUL}
    BY <1>1
  <2>2. t[i + 1] \notin c \cup {NUL}
    BY <1>1, <2>1
  <2>3. i + 1 \in a + 1 .. a + m /\ m # 0
    BY <2>1, <2>2
  <2>4. QED
    BY <2>3
<1>4. ASSUME m # 0 PROVE a \in keep /\ a + m - 1 \in keep
  <2>1. /\ a + 1 \in 1 .. n /\ a + m \in 1 .. n /\ a + 1 - 1 = a
        /\ a \in 0 .. n - 1 /\ a + m - 1 \in 0 .. n - 1
    BY <1>1, <1>4
  <2>2. h.buf[a + 1 - 1] = t[a + 1] /\ h.buf[a + m - 1] = t[a + m]
    BY <1>1, <2>1
  <2>3. QED
    BY <1>4, <2>1, <2>2
<1> HIDE DEF keep
<1>5. CASE m = 0
  <2>1. keep = {}
    BY <1>3, <1>5
  <2>2. sdstrim(h, c) = Shift(h, 0, 0)
    BY <1>2, <2>1
  <2>3. \A i \in 1 .. 0 : w[i] = t[0 + i]
    OBVIOUS
  <2>4. 0 + 0 <= n
    BY <1>1
  <2>5. Holds(Shift(h, 0, 0), 0, w) /\ Closed(Shift(h, 0, 0))
    BY ONLY Holds(h, n, t), <2>3, <2>4, ShiftHolds, 0 \in Nat
  <2>6. QED
    BY <1>5, <2>2, <2>5
<1>6. CASE m # 0
  <2>1. a \in keep /\ \A j \in keep : a <= j
    BY <1>3, <1>4, <1>6
  <2>2. a + m - 1 \in keep /\ \A j \in keep : j <= a + m - 1
    BY <1>3, <1>4, <1>6
  <2>3. first = a
    <3>1. \A i \in keep : (\A j \in keep : i <= j) => i = a
      BY <1>3, <2>1
    <3>2. QED
      BY <2>1, <3>1
  <2>4. last = a + m - 1
    <3>1. \A i \in keep : (\A j \in keep : j <= i) => i = a + m - 1
      BY <1>3, <2>2
    <3>2. QED
      BY <2>2, <3>1
  <2> HIDE DEF first, last
  <2>5. sdstrim(h, c) = Shift(h, a, m)
    <3>1. last - first + 1 = m
      BY <2>3, <2>4
    <3>2. QED
      BY <1>2, <2>1, <2>3, <3>1
  <2>6. QED
    BY <2>5, ShiftHolds
<1>7. QED
  BY <1>5, <1>6

\* The place of an index, counted from the end if it is negative, and the
\* number of characters from one index to another.
Spot(n, i) == IF i >= 0 THEN i ELSE IF n + i < 0 THEN 0 ELSE n + i
EndSpot(n, i) == Lesser(Spot(n, i), n - 1)
Between(n, i, j) == IF Spot(n, i) > EndSpot(n, j) THEN 0 ELSE EndSpot(n, j) - Spot(n, i) + 1

\* sdsrange: what is kept are the characters from `start` to `end`.
LEMMA RangeHolds ==
  ASSUME NEW h, NEW n, NEW t, Holds(h, n, t), Closed(h), NEW start \in Int, NEW end \in Int,
         NEW w, \A i \in 1 .. Between(n, start, end) : w[i] = t[Spot(n, start) + i]
  PROVE  /\ Holds(sdsrange(h, start, end), Between(n, start, end), w)
         /\ Closed(sdsrange(h, start, end))
<1> DEFINE a == Spot(n, start)
           to == EndSpot(n, end)
           m == Between(n, start, end)
<1>1. h.len = n /\ n \in Nat
  BY HoldsFacts
<1>2. a \in Nat /\ to \in Int /\ to <= n - 1 /\ m = IF a > to THEN 0 ELSE to - a + 1
  BY <1>1 DEF Spot, EndSpot, Lesser, Between
<1>3. sdsrange(h, start, end) = IF n = 0 THEN h
        ELSE Shift(h, a, IF a > to \/ a >= n THEN 0 ELSE to - a + 1)
  BY <1>1 DEF sdsrange, sdslen, Spot, EndSpot
<1>4. \A i \in 1 .. m : w[i] = t[a + i]
  OBVIOUS
<1> SUFFICES Holds(sdsrange(h, start, end), m, w) /\ Closed(sdsrange(h, start, end))
  OBVIOUS
<1> HIDE DEF a, to, m
<1>5. CASE n = 0
  <2>1. sdsrange(h, start, end) = h
    BY <1>5, <1>3
  <2>2. m = 0 /\ \A i \in 1 .. 0 : h.buf[i - 1] = w[i]
    BY <1>2, <1>5
  <2>3. QED
    BY <1>5, <2>1, <2>2 DEF Holds
<1>6. CASE n # 0
  <2>1. sdsrange(h, start, end) = Shift(h, a, IF a > to \/ a >= n THEN 0 ELSE to - a + 1)
    BY <1>6, <1>3
  <2>2. (IF a > to \/ a >= n THEN 0 ELSE to - a + 1) = m
    BY <1>1, <1>2
  <2>3. sdsrange(h, start, end) = Shift(h, a, m)
    BY <2>1, <2>2
  <2>4. CASE m = 0
    <3>1. Shift(h, a, 0) = Shift(h, 0, 0)
      <4>1. [i \in 1 .. 0 |-> h.buf[a + i - 1]] = [i \in 1 .. 0 |-> h.buf[0 + i - 1]]
        OBVIOUS
      <4>2. QED
        BY <4>1 DEF Shift
    <3>2. \A i \in 1 .. 0 : w[i] = t[0 + i]
      OBVIOUS
    <3>3. 0 + 0 <= n
      BY <1>1
    <3>4. Holds(Shift(h, 0, 0), 0, w) /\ Closed(Shift(h, 0, 0))
      BY ONLY Holds(h, n, t), <3>2, <3>3, ShiftHolds, 0 \in Nat
    <3>5. QED
      BY <2>3, <2>4, <3>1, <3>4
  <2>5. CASE m # 0
    <3>1. a + m <= n /\ m \in Nat
      BY <1>1, <1>2, <2>5
    <3>2. a \in Nat
      BY <1>2
    <3>3. Holds(Shift(h, a, m), m, w) /\ Closed(Shift(h, a, m))
      BY ONLY Holds(h, n, t), <3>1, <3>2, <1>4, ShiftHolds
    <3>4. QED
      BY <2>3, <3>3
  <2>6. QED
    BY <2>4, <2>5
<1>7. QED
  BY <1>5, <1>6

\* A piece of a format: w is the text with the m characters of it behind.
LEMMA PieceHolds ==
  ASSUME NEW h, NEW n, NEW t, Holds(h, n, t), NEW p, NEW m \in Nat, Len(p.text) = m,
         p.verb \in BOOLEAN, ~p.verb => m = 1,
         NEW w, \A i \in 1 .. n + m : w[i] = IF i <= n THEN t[i] ELSE p.text[i - n]
  PROVE  Holds(Piece(h, p), n + m, w)
<1> DEFINE spare == IF sdsavail(h) = 0 THEN sdsMakeRoomFor(h, 1) ELSE h
           r == IF p.verb /\ sdsavail(spare) < m THEN sdsMakeRoomFor(spare, m) ELSE spare
           u == p.text
           g == sdssetlen(Write(r, n, m, u), n + m)
<1>1. h.len = n /\ n \in Nat /\ sdsalloc(h) \in Nat /\ n <= sdsalloc(h)
  BY HoldsFacts
<1>2. Holds(spare, n, t) /\ n + 1 <= sdsalloc(spare)
  <2>1. CASE sdsavail(h) = 0
    <3> DEFINE q == sdsMakeRoomFor(h, 1)
    <3>1. Holds(q, n, t) /\ n + 1 <= sdsalloc(q)
      BY MakeRoomHolds
    <3> HIDE DEF q
    <3>2. spare = q
      BY <2>1 DEF q
    <3>3. QED
      BY <3>1, <3>2
  <2>2. CASE sdsavail(h) # 0
    <3>1. n + 1 <= sdsalloc(h)
      BY <1>1, <2>2 DEF sdsavail, sdslen
    <3>2. QED
      BY <2>2, <3>1
  <2>3. QED
    BY <2>1, <2>2
<1>3. Piece(h, p) = sdssetlen(Put(r, n, u), n + m)
  BY <1>1 DEF Piece, sdslen
<1>4. Piece(h, p) = g
  BY <1>3, PutWrites
<1> HIDE DEF spare
<1>5. Holds(r, n, t) /\ n + m <= sdsalloc(r)
  <2>1. spare.len = n /\ sdsalloc(spare) \in Nat
    BY <1>2, HoldsFacts
  <2>2. CASE p.verb /\ sdsavail(spare) < m
    <3> DEFINE q == sdsMakeRoomFor(spare, m)
    <3>1. Holds(q, n, t) /\ n + m <= sdsalloc(q)
      BY <1>2, MakeRoomHolds
    <3> HIDE DEF q
    <3>2. r = q
      BY <2>2 DEF q
    <3>3. QED
      BY <3>1, <3>2
  <2>3. CASE ~(p.verb /\ sdsavail(spare) < m)
    <3>1. n + m <= sdsalloc(spare)
      BY <1>1, <1>2, <2>1, <2>3 DEF sdsavail, sdslen
    <3> HIDE DEF r
    <3>2. r = spare
      BY <2>3 DEF r
    <3>3. QED
      BY <1>2, <3>1, <3>2
  <2>4. QED
    BY <2>2, <2>3
<1> HIDE DEF r
<1>6. n + m <= Room(r) + 1
  BY <1>1, <1>5, HoldsFacts
<1>7. Holds(g, n + m, w)
  <2> DEFINE l == n + m
  <2>1. n \in 0 .. n /\ l \in Nat /\ l <= n + m /\ l <= sdsalloc(r)
    BY <1>1, <1>5
  <2>2. \A i \in 1 .. l : w[i] = IF i <= n THEN t[i] ELSE u[i - n]
    OBVIOUS
  <2> HIDE DEF l, u
  <2>3. Holds(sdssetlen(Write(r, n, m, u), l), l, w)
    BY ONLY <1>5, <1>6, <2>1, <2>2, m \in Nat, SetHolds
  <2>4. QED
    BY <2>3 DEF l
<1>8. QED
  BY <1>4, <1>7

-----------------------------------------------------------------------------
(* A format, piece by piece.  A recursive function has the values that its *)
(* definition gives it because one that does exists, by induction over its *)
(* domain.                                                                 *)

\* The string before the first piece, and after each.
LEMMA WrittenSteps ==
  ASSUME NEW h, NEW format, NEW n \in Nat, Len(format) = n
  PROVE  /\ Written(h, format)[0] = sdsMakeRoomFor(h, 2 * FmtLen(format))
         /\ \A k \in 1 .. n : Written(h, format)[k] = Piece(Written(h, format)[k - 1], format[k])
<1> DEFINE o == sdsMakeRoomFor(h, 2 * FmtLen(format))
           Upto(j) == \E r : r = [k \in 0 .. j |-> IF k = 0 THEN o ELSE Piece(r[k - 1], format[k])]
           T == {j \in Nat : Upto(j)}
           W == Written(h, format)
<1>1. W = CHOOSE r : r = [k \in 0 .. n |-> IF k = 0 THEN o ELSE Piece(r[k - 1], format[k])]
  BY DEF Written
<1> HIDE DEF o, W
<1>2. 0 \in T
  <2> DEFINE r == [k \in 0 .. 0 |-> o]
  <2>1. r = [k \in 0 .. 0 |-> IF k = 0 THEN o ELSE Piece(r[k - 1], format[k])]
    OBVIOUS
  <2> HIDE DEF r
  <2>2. Upto(0)
    BY <2>1
  <2>3. QED
    BY <2>2
<1>3. ASSUME NEW j \in Nat, j \in T PROVE j + 1 \in T
  <2>1. PICK r : r = [k \in 0 .. j |-> IF k = 0 THEN o ELSE Piece(r[k - 1], format[k])]
    BY <1>3
  <2> DEFINE v == Piece(r[j], format[j + 1])
             q == [k \in 0 .. j + 1 |-> IF k = j + 1 THEN v ELSE r[k]]
  <2>2. ASSUME NEW k \in 0 .. j + 1
        PROVE  q[k] = IF k = 0 THEN o ELSE Piece(q[k - 1], format[k])
    <3>1. CASE k = j + 1
      <4>1. k - 1 = j /\ j # j + 1 /\ k # 0 /\ j \in 0 .. j + 1
        BY <3>1
      <4>2. q[k - 1] = r[j]
        BY <4>1
      <4>3. QED
        BY <3>1, <4>1, <4>2
    <3>2. CASE k # j + 1
      <4>1. k \in 0 .. j /\ (k # 0 => k - 1 \in 0 .. j + 1 /\ k - 1 # j + 1)
        BY <3>2
      <4>2. q[k] = r[k] /\ (k # 0 => q[k - 1] = r[k - 1])
        BY <3>2, <4>1
      <4>3. r[k] = IF k = 0 THEN o ELSE Piece(r[k - 1], format[k])
        BY ONLY <2>1, <4>1
      <4>4. QED
        BY <4>2, <4>3
    <3>3. QED
      BY <3>1, <3>2
  <2>3. q = [k \in 0 .. j + 1 |-> q[k]]
    OBVIOUS
  <2> HIDE DEF q, v
  <2>4. q = [k \in 0 .. j + 1 |-> IF k = 0 THEN o ELSE Piece(q[k - 1], format[k])]
    BY <2>2, <2>3
  <2>5. Upto(j + 1)
    BY <2>4
  <2>6. QED
    BY <2>5
<1>4. Upto(n)
  <2>1. n \in T
    <3> HIDE DEF T
    <3> QED BY <1>2, <1>3, AllNumbers
  <2>2. QED
    BY <2>1
<1>5. W = [k \in 0 .. n |-> IF k = 0 THEN o ELSE Piece(W[k - 1], format[k])]
  BY <1>1, <1>4
<1>6. W[0] = o
  BY <1>5
<1>7. \A k \in 1 .. n : W[k] = Piece(W[k - 1], format[k])
  BY <1>5
<1>8. QED
  BY <1>6, <1>7 DEF o, W

\* The text of no piece, and of one piece more.
LEMMA TextsSteps ==
  ASSUME NEW format, NEW n \in Nat, Len(format) = n
  PROVE  /\ Texts(format)[0] = << >>
         /\ \A k \in 1 .. n : Texts(format)[k] = Texts(format)[k - 1] \o format[k].text
<1> DEFINE o == << >>
           Behind(a, p) == a \o p.text
           Upto(j) == \E r : r = [k \in 0 .. j |-> IF k = 0 THEN o ELSE Behind(r[k - 1], format[k])]
           T == {j \in Nat : Upto(j)}
           W == Texts(format)
<1>1. W = CHOOSE r : r = [k \in 0 .. n |-> IF k = 0 THEN o ELSE Behind(r[k - 1], format[k])]
  BY DEF Texts
<1> HIDE DEF o, W, Behind
<1>2. 0 \in T
  <2> DEFINE r == [k \in 0 .. 0 |-> o]
  <2>1. r = [k \in 0 .. 0 |-> IF k = 0 THEN o ELSE Behind(r[k - 1], format[k])]
    OBVIOUS
  <2> HIDE DEF r
  <2>2. Upto(0)
    BY <2>1
  <2>3. QED
    BY <2>2
<1>3. ASSUME NEW j \in Nat, j \in T PROVE j + 1 \in T
  <2>1. PICK r : r = [k \in 0 .. j |-> IF k = 0 THEN o ELSE Behind(r[k - 1], format[k])]
    BY <1>3
  <2> DEFINE v == Behind(r[j], format[j + 1])
             q == [k \in 0 .. j + 1 |-> IF k = j + 1 THEN v ELSE r[k]]
  <2>2. ASSUME NEW k \in 0 .. j + 1
        PROVE  q[k] = IF k = 0 THEN o ELSE Behind(q[k - 1], format[k])
    <3>1. CASE k = j + 1
      <4>1. k - 1 = j /\ j # j + 1 /\ k # 0 /\ j \in 0 .. j + 1
        BY <3>1
      <4>2. q[k - 1] = r[j]
        BY <4>1
      <4>3. QED
        BY <3>1, <4>1, <4>2
    <3>2. CASE k # j + 1
      <4>1. k \in 0 .. j /\ (k # 0 => k - 1 \in 0 .. j + 1 /\ k - 1 # j + 1)
        BY <3>2
      <4>2. q[k] = r[k] /\ (k # 0 => q[k - 1] = r[k - 1])
        BY <3>2, <4>1
      <4>3. r[k] = IF k = 0 THEN o ELSE Behind(r[k - 1], format[k])
        BY ONLY <2>1, <4>1
      <4>4. QED
        BY <4>2, <4>3
    <3>3. QED
      BY <3>1, <3>2
  <2>3. q = [k \in 0 .. j + 1 |-> q[k]]
    OBVIOUS
  <2> HIDE DEF q, v
  <2>4. q = [k \in 0 .. j + 1 |-> IF k = 0 THEN o ELSE Behind(q[k - 1], format[k])]
    BY <2>2, <2>3
  <2>5. Upto(j + 1)
    BY <2>4
  <2>6. QED
    BY <2>5
<1>4. Upto(n)
  <2>1. n \in T
    <3> HIDE DEF T
    <3> QED BY <1>2, <1>3, AllNumbers
  <2>2. QED
    BY <2>1
<1>5. W = [k \in 0 .. n |-> IF k = 0 THEN o ELSE Behind(W[k - 1], format[k])]
  BY <1>1, <1>4
<1>6. W[0] = o
  BY <1>5
<1>7. \A k \in 1 .. n : W[k] = Behind(W[k - 1], format[k])
  BY <1>5
<1>8. QED
  BY <1>6, <1>7 DEF o, W, Behind

-----------------------------------------------------------------------------
(* Texts: what the sequences of the comments are, by their characters.     *)

Text == Seq(Byte)

\* A text has a length.
LEMMA TextLen == ASSUME NEW t \in Text PROVE Len(t) \in Nat
  BY DEF Text

\* One text behind another.
LEMMA Joined ==
  ASSUME NEW t \in Text, NEW u \in Text
  PROVE  /\ t \o u \in Text /\ Len(t \o u) = Len(t) + Len(u)
         /\ \A i \in 1 .. Len(t) + Len(u) :
              (t \o u)[i] = IF i <= Len(t) THEN t[i] ELSE u[i - Len(t)]
  BY ConcatProperties DEF Text

\* A part of a text: m characters after the first `a`.
LEMMA PartOf ==
  ASSUME NEW t \in Text, NEW a \in Nat, NEW b \in Int, b <= Len(t),
         NEW m, m = IF a > b - 1 THEN 0 ELSE b - a
  PROVE  /\ SubSeq(t, a + 1, b) \in Text /\ Len(SubSeq(t, a + 1, b)) = m
         /\ \A i \in 1 .. m : SubSeq(t, a + 1, b)[i] = t[a + i]
<1>1. Len(t) \in Nat
  BY TextLen
<1>2. CASE a > b - 1
  <2>1. SubSeq(t, a + 1, b) = << >>
    BY <1>1, <1>2 DEF Text
  <2>2. QED
    BY <1>2, <2>1 DEF Text
<1>3. CASE ~(a > b - 1)
  <2>1. \A i \in a + 1 .. b : i \in 1 .. Len(t)
    BY <1>1
  <2>2. QED
    BY <1>1, <1>3, <2>1, SubSeqProperties DEF Text
<1>4. QED
  BY <1>2, <1>3

\* The cases of Until: the text as a whole, or what comes before the first NUL.
LEMMA UntilNul ==
  ASSUME NEW t \in Text
  PROVE  \E m \in 0 .. Len(t) :
           /\ Until(t, NUL) \in Text /\ Len(Until(t, NUL)) = m
           /\ \A i \in 1 .. m : Until(t, NUL)[i] = t[i] /\ t[i] # NUL
           /\ m < Len(t) => t[m + 1] = NUL
<1> DEFINE I == {i \in 1 .. Len(t) : t[i] = NUL}
<1>1. Len(t) \in Nat
  BY TextLen
<1>2. CASE I = {}
  <2>1. ~Contains(t, NUL)
    BY <1>2 DEF Contains
  <2>2. Until(t, NUL) = t
    BY <2>1 DEF Until
  <2>3. Len(t) \in 0 .. Len(t) /\ \A i \in 1 .. Len(t) : t[i] # NUL
    BY <1>1, <1>2
  <2> DEFINE m == Len(t)
             u == Until(t, NUL)
  <2>4. m \in 0 .. Len(t) /\ u \in Text /\ Len(u) = m /\ ~(m < Len(t))
    BY <1>1, <2>2
  <2>5. \A i \in 1 .. m : u[i] = t[i] /\ t[i] # NUL
    BY <2>2, <2>3
  <2> HIDE DEF m, u
  <2>6. \E l \in 0 .. Len(t) : /\ u \in Text /\ Len(u) = l
                               /\ \A i \in 1 .. l : u[i] = t[i] /\ t[i] # NUL
                               /\ l < Len(t) => t[l + 1] = NUL
    BY <2>4, <2>5
  <2>7. QED
    BY <2>6 DEF u
<1>3. CASE I # {}
  <2>1. PICK x \in I : \A y \in I : x <= y
    <3>1. I \in SUBSET Nat
      OBVIOUS
    <3> HIDE DEF I
    <3>2. QED
      BY <1>3, <3>1, LeastNumber
  <2>2. Min(I) = x
    <3>1. \A i \in I : (\A j \in I : i <= j) => i = x
      BY <2>1
    <3> HIDE DEF I
    <3>2. QED
      BY <2>1, <3>1 DEF Min
  <2>3. Contains(t, NUL)
    BY <1>3 DEF Contains
  <2>4. SelectInSeq(t, LAMBDA c : c = NUL) = x
    <3>1. SelectInSeq(t, LAMBDA c : c = NUL) = IF I # {} THEN Min(I) ELSE 0
      BY DEF SelectInSeq
    <3> HIDE DEF I
    <3>2. QED
      BY <1>3, <2>2, <3>1
  <2>5. Until(t, NUL) = SubSeq(t, 0 + 1, x - 1)
    <3> DEFINE p == SelectInSeq(t, LAMBDA c : c = NUL)
    <3>1. Until(t, NUL) = SubSeq(t, 1, p - 1)
      BY <2>3, Zenon DEF Until
    <3>2. p = x
      BY <2>4, Zenon
    <3> HIDE DEF p
    <3>3. QED
      BY <3>1, <3>2
  <2>6. x \in 1 .. Len(t) /\ t[x] = NUL /\ \A i \in 1 .. x - 1 : t[i] # NUL
    <3>1. x \in 1 .. Len(t) /\ t[x] = NUL
      BY <2>1
    <3>2. \A i \in 1 .. x - 1 : i \in 1 .. Len(t) /\ ~(x <= i)
      BY <1>1, <3>1
    <3>3. QED
      BY <2>1, <3>1, <3>2
  <2> DEFINE m == x - 1
             u == SubSeq(t, 0 + 1, m)
  <2>7. /\ u \in Text /\ Len(u) = m
        /\ \A i \in 1 .. m : u[i] = t[0 + i]
    <3>1. m \in Int /\ m <= Len(t) /\ m = IF 0 > m - 1 THEN 0 ELSE m - 0
      BY <1>1, <2>6
    <3> HIDE DEF m
    <3>2. QED
      BY <3>1, PartOf
  <2>8. m \in 0 .. Len(t) /\ m + 1 = x
    BY <1>1, <2>6
  <2>9. \A i \in 1 .. m : u[i] = t[i] /\ t[i] # NUL
    BY <2>6, <2>7
  <2>10. t[m + 1] = NUL
    BY <2>6, <2>8
  <2>11. Until(t, NUL) = u
    BY <2>5 DEF u
  <2> HIDE DEF u, m
  <2>12. \E l \in 0 .. Len(t) : /\ u \in Text /\ Len(u) = l
                                /\ \A i \in 1 .. l : u[i] = t[i] /\ t[i] # NUL
                                /\ l < Len(t) => t[l + 1] = NUL
    BY <2>7, <2>8, <2>9, <2>10
  <2>13. QED
    BY <2>11, <2>12
<1>4. QED
  BY <1>2, <1>3

\* Trimmed is a part of the text: nothing outside of it is kept, and it begins
\* and ends with what is.
LEMMA TrimmedPart ==
  ASSUME NEW t \in Text, NEW c
  PROVE  \E a, m \in Nat :
           /\ a + m <= Len(t)
           /\ \A i \in 1 .. Len(t) : t[i] \notin c => i \in a + 1 .. a + m
           /\ m = 0 => \A i \in 1 .. Len(t) : t[i] \in c
           /\ m # 0 => t[a + 1] \notin c /\ t[a + m] \notin c
           /\ Trimmed(t, c) \in Text /\ Len(Trimmed(t, c)) = m
           /\ \A i \in 1 .. m : Trimmed(t, c)[i] = t[a + i]
<1> DEFINE keep == {i \in 1 .. Len(t) : t[i] \notin c}
<1>1. Len(t) \in Nat /\ DOMAIN t = 1 .. Len(t)
  BY TextLen, LenProperties DEF Text
<1>2. Trimmed(t, c) = IF keep = {} THEN << >> ELSE SubSeq(t, Min(keep), Max(keep))
  BY <1>1 DEF Trimmed
<1>3. CASE keep = {}
  <2>1. \A i \in 1 .. Len(t) : t[i] \in c
    BY <1>3
  <2>2. Trimmed(t, c) = << >>
    BY <1>2, <1>3
  <2>3. << >> \in Text /\ Len(<< >>) = 0 /\ 0 \in Nat /\ 0 + 0 <= Len(t)
    BY <1>1, EmptySeq DEF Text
  <2>4. QED
    BY <2>1, <2>2, <2>3
<1>4. CASE keep # {}
  <2>1. PICK x \in keep : \A y \in keep : x <= y
    <3>1. keep \in SUBSET Nat
      OBVIOUS
    <3> HIDE DEF keep
    <3>2. QED
      BY <1>4, <3>1, LeastNumber
  <2>2. PICK z \in keep : \A y \in keep : y <= z
    <3>1. keep \in SUBSET (0 .. Len(t))
      BY <1>1
    <3> HIDE DEF keep
    <3>2. QED
      BY <1>1, <1>4, <3>1, GreatestNumber
  <2>3. x \in 1 .. Len(t) /\ z \in 1 .. Len(t) /\ x <= z /\ t[x] \notin c /\ t[z] \notin c
    BY <2>1, <2>2
  <2>4. Min(keep) = x
    <3>1. \A i \in keep : (\A j \in keep : i <= j) => i = x
      BY <2>1
    <3> HIDE DEF keep
    <3>2. QED
      BY <2>1, <3>1 DEF Min
  <2>5. Max(keep) = z
    <3>1. \A i \in keep : (\A j \in keep : i >= j) => i = z
      BY <2>2
    <3>2. \A j \in keep : z >= j
      BY <2>2
    <3> HIDE DEF keep
    <3>3. QED
      BY <2>2, <3>1, <3>2 DEF Max
  <2> DEFINE a == x - 1
             m == z - a
             u == SubSeq(t, a + 1, z)
  <2>6. a \in Nat /\ m \in Nat /\ m # 0 /\ a + m = z /\ a + 1 = x /\ a + m <= Len(t)
    BY <1>1, <2>3
  <2>7. \A i \in 1 .. Len(t) : t[i] \notin c => i \in a + 1 .. a + m
    <3> SUFFICES ASSUME NEW i \in 1 .. Len(t), t[i] \notin c PROVE i \in a + 1 .. a + m
      OBVIOUS
    <3>1. x <= i /\ i <= z
      BY <2>1, <2>2
    <3>2. QED
      BY <1>1, <2>6, <3>1
  <2>8. u \in Text /\ Len(u) = m /\ \A i \in 1 .. m : u[i] = t[a + i]
    <3>1. z \in Int /\ z <= Len(t) /\ m = IF a > z - 1 THEN 0 ELSE z - a
      BY <1>1, <2>3
    <3>2. a \in Nat
      BY <2>6
    <3> HIDE DEF a, m
    <3>3. QED
      BY <3>1, <3>2, PartOf
  <2>9. Trimmed(t, c) = u
    BY <1>2, <1>4, <2>4, <2>5, <2>6
  <2>10. t[a + 1] \notin c /\ t[a + m] \notin c
    BY <2>3, <2>6
  <2> HIDE DEF a, m, u
  <2>11. QED
    BY <2>6, <2>7, <2>8, <2>9, <2>10
<1>5. QED
  BY <1>3, <1>4

\* Ranged is a part of the text, from the first place to the second.
LEMMA RangedPart ==
  ASSUME NEW t \in Text, NEW start \in Int, NEW end \in Int
  PROVE  LET n == Len(t) IN
         /\ Ranged(t, start, end) \in Text
         /\ Len(Ranged(t, start, end)) = Between(n, start, end)
         /\ \A i \in 1 .. Between(n, start, end) :
              Ranged(t, start, end)[i] = t[Spot(n, start) + i]
<1> DEFINE n == Len(t)
           a == Spot(n, start)
           to == EndSpot(n, end)
           m == Between(n, start, end)
<1>1. n \in Nat
  BY TextLen
<1>2. ASSUME NEW x \in Int PROVE Max({0, x}) = IF x < 0 THEN 0 ELSE x
  <2> DEFINE y == IF x < 0 THEN 0 ELSE x
  <2>1. y \in {0, x} /\ \A j \in {0, x} : y >= j
    OBVIOUS
  <2>2. \A i \in {0, x} : (\A j \in {0, x} : i >= j) => i = y
    OBVIOUS
  <2>3. QED
    BY <2>1, <2>2 DEF Max
<1>3. ASSUME NEW i \in Int PROVE Max({0, IF i < 0 THEN n + i ELSE i}) = Spot(n, i)
  <2> DEFINE x == IF i < 0 THEN n + i ELSE i
  <2>1. x \in Int
    BY <1>1
  <2> HIDE DEF x
  <2>2. Max({0, x}) = IF x < 0 THEN 0 ELSE x
    BY <1>2, <2>1
  <2>3. (IF x < 0 THEN 0 ELSE x) = Spot(n, i)
    BY <1>1 DEF x, Spot
  <2>4. QED
    BY <2>2, <2>3 DEF x
<1>4. a \in Nat /\ Spot(n, end) \in Nat /\ to \in Int /\ to + 1 <= n
  BY <1>1 DEF Spot, EndSpot, Lesser
<1>5. Lesser(Spot(n, end) + 1, n) = to + 1
  BY <1>1, <1>4 DEF EndSpot, Lesser
<1>6. Ranged(t, start, end) = SubSeq(t, a + 1, to + 1)
  <2>1. Ranged(t, start, end) =
          SubSeq(t, Max({0, IF start < 0 THEN n + start ELSE start}) + 1,
                 Lesser(Max({0, IF end < 0 THEN n + end ELSE end}) + 1, n))
    BY DEF Ranged
  <2>2. QED
    BY <1>3, <1>5, <2>1
<1> DEFINE b == to + 1
<1>7. b \in Int /\ b <= Len(t) /\ m = IF a > b - 1 THEN 0 ELSE b - a
  BY <1>1, <1>4 DEF Between
<1> HIDE DEF n, a, to, m, b
<1>8. /\ SubSeq(t, a + 1, b) \in Text /\ Len(SubSeq(t, a + 1, b)) = m
      /\ \A i \in 1 .. m : SubSeq(t, a + 1, b)[i] = t[a + i]
  BY ONLY <1>4, <1>7, t \in Text, PartOf
<1>9. QED
  BY <1>6, <1>8 DEF b, n, a, m

\* So many zeros.
LEMMA ZerosText ==
  ASSUME NEW k \in Int, NEW m, m = IF k < 0 THEN 0 ELSE k
  PROVE  Zeros(k) \in Text /\ Len(Zeros(k)) = m /\ \A i \in 1 .. m : Zeros(k)[i] = NUL
<1>1. NUL \in Byte
  BY SdsAssumption
<1>2. m \in Nat /\ 1 .. k = 1 .. m
  OBVIOUS
<1>3. Zeros(k) = [i \in 1 .. m |-> NUL]
  BY <1>2 DEF Zeros
<1>4. QED
  BY <1>1, <1>2, <1>3 DEF Text

\* Each character by itself.
LEMMA ReplacedText ==
  ASSUME NEW t \in Text, NEW from, NEW to \in Byte
  PROVE  /\ ReplaceAll(t, from, to) \in Text /\ Len(ReplaceAll(t, from, to)) = Len(t)
         /\ \A i \in 1 .. Len(t) :
              ReplaceAll(t, from, to)[i] = IF t[i] = from THEN to ELSE t[i]
<1>1. Len(t) \in Nat /\ \A i \in 1 .. Len(t) : t[i] \in Byte
  BY TextLen, ElementOfSeq DEF Text
<1>2. QED
  BY <1>1 DEF Text, ReplaceAll

\* The pieces of a format of the program.
LEMMA FormatPieces ==
  ASSUME NEW format \in Format
  PROVE  /\ Len(format) \in Nat /\ FmtLen(format) \in Nat
         /\ \A k \in 1 .. Len(format) :
              /\ format[k].verb \in BOOLEAN /\ format[k].text \in Text
              /\ ~format[k].verb => Len(format[k].text) = 1
<1> DEFINE V == [verb : {TRUE}, text : Seq(Byte)]
           C == [verb : {FALSE}, text : {<<b>> : b \in Byte}]
<1>1. format \in Seq(V \cup C)
  BY SdsAssumption
<1>2. \A p \in V : p.verb = TRUE /\ p.text \in Text
  BY DEF Text
<1>3. \A b \in Byte : <<b>> \in Text /\ Len(<<b>>) = 1
  BY DEF Text
<1>4. \A p \in C : p.verb = FALSE /\ p.text \in Text /\ Len(p.text) = 1
  BY <1>3
<1> HIDE DEF V, C
<1>5. Len(format) \in Nat /\ DOMAIN format = 1 .. Len(format)
      /\ \A k \in 1 .. Len(format) : format[k] \in V \cup C
  BY <1>1, LenProperties, ElementOfSeq
<1>6. FmtLen(format) \in Nat
  <2> DEFINE S == {k \in 1 .. Len(format) : format[k].verb}
  <2>1. IsFiniteSet(1 .. Len(format))
    BY <1>5, FS_Interval
  <2>2. S \subseteq 1 .. Len(format)
    OBVIOUS
  <2>3. Cardinality(S) \in Nat
    <3> HIDE DEF S
    <3> QED BY <2>1, <2>2, FS_Subset, FS_CardinalityType
  <2>4. FmtLen(format) = Len(format) + Cardinality(S)
    BY <1>5 DEF FmtLen
  <2> HIDE DEF S
  <2>5. QED
    BY <1>5, <2>3, <2>4
<1>7. ASSUME NEW k \in 1 .. Len(format)
      PROVE  /\ format[k].verb \in BOOLEAN /\ format[k].text \in Text
             /\ ~format[k].verb => Len(format[k].text) = 1
  <2>1. format[k] \in V \/ format[k] \in C
    BY <1>5
  <2>2. CASE format[k] \in V
    BY <1>2, <2>2
  <2>3. CASE format[k] \in C
    BY <1>4, <2>3
  <2>4. QED
    BY <2>1, <2>2, <2>3
<1>8. QED
  BY <1>5, <1>6, <1>7

\* It does not matter which of the two is first.
LEMMA JoinedTwice ==
  ASSUME NEW t \in Text, NEW u \in Text, NEW v \in Text
  PROVE  t \o (u \o v) = (t \o u) \o v
<1>1. \A x, y, z \in Seq(Byte) : (x \o y) \o z = x \o (y \o z)
  BY ConcatAssociative
<1>2. QED
  BY <1>1 DEF Text

\* The string after k pieces holds the text with the texts of these behind.
LEMMA WrittenHolds ==
  ASSUME NEW h, NEW t \in Text, Holds(h, Len(t), t),
         NEW format \in Format, NEW k \in 0 .. Len(format)
  PROVE  /\ Texts(format)[k] \in Text
         /\ Holds(Written(h, format)[k], Len(t \o Texts(format)[k]), t \o Texts(format)[k])
<1> DEFINE W == Written(h, format)
           X == Texts(format)
           n == Len(format)
           Good(j) == X[j] \in Text /\ Holds(W[j], Len(t \o X[j]), t \o X[j])
           T == {j \in Nat : j <= n => Good(j)}
<1>1. /\ n \in Nat /\ FmtLen(format) \in Nat
      /\ \A j \in 1 .. n : /\ format[j].verb \in BOOLEAN /\ format[j].text \in Text
                           /\ ~format[j].verb => Len(format[j].text) = 1
  BY FormatPieces
<1>2. /\ W[0] = sdsMakeRoomFor(h, 2 * FmtLen(format))
      /\ \A j \in 1 .. n : W[j] = Piece(W[j - 1], format[j])
  <2>1. n \in Nat /\ Len(format) = n
    BY <1>1
  <2> HIDE DEF n
  <2>2. QED
    BY ONLY <2>1, WrittenSteps
<1>3. /\ X[0] = << >>
      /\ \A j \in 1 .. n : X[j] = X[j - 1] \o format[j].text
  BY <1>1, TextsSteps
<1> HIDE DEF n, W, X
<1>4. 0 \in T
  <2>1. X[0] \in Text /\ t \o X[0] = t
    BY <1>3, ConcatEmptySeq, EmptySeq DEF Text
  <2> DEFINE a == 2 * FmtLen(format)
  <2>2. a \in Nat
    BY <1>1
  <2> HIDE DEF a
  <2>3. Holds(sdsMakeRoomFor(h, a), Len(t), t)
    BY <2>2, MakeRoomHolds
  <2>4. QED
    BY <1>2, <2>1, <2>3 DEF a
<1>5. ASSUME NEW j \in Nat, j \in T PROVE j + 1 \in T
  <2> SUFFICES ASSUME j + 1 <= n PROVE Good(j + 1)
    BY <1>5
  <2>1. j + 1 \in 1 .. n /\ j + 1 - 1 = j /\ j <= n
    BY <1>1
  <2> DEFINE p == format[j + 1]
             u == p.text
             x == t \o X[j]
             y == t \o X[j + 1]
  <2>2. Good(j)
    BY <1>5, <2>1
  <2>3. p.verb \in BOOLEAN /\ u \in Text /\ (~p.verb => Len(u) = 1)
    BY <1>1, <2>1
  <2>4. X[j + 1] = X[j] \o u /\ W[j + 1] = Piece(W[j], p)
    <3> DEFINE i == j + 1
    <3>1. i \in 1 .. n /\ i - 1 = j
      BY <2>1
    <3> HIDE DEF i
    <3>2. X[i] = X[i - 1] \o format[i].text
      BY ONLY <1>3, <3>1
    <3>3. W[i] = Piece(W[i - 1], format[i])
      BY ONLY <1>2, <3>1
    <3>4. X[i] = X[j] \o format[i].text /\ W[i] = Piece(W[j], format[i])
      BY ONLY <3>1, <3>2, <3>3
    <3>5. QED
      BY <3>4 DEF i
  <2> HIDE DEF p
  <2>5. X[j + 1] \in Text
    BY <2>2, <2>3, <2>4, Joined
  <2>6. y = x \o u
    <3> DEFINE v == X[j]
    <3>1. v \in Text /\ X[j + 1] = v \o u
      BY <2>2, <2>4
    <3> HIDE DEF v, u
    <3>2. t \o (v \o u) = (t \o v) \o u
      BY ONLY <2>3, <3>1, t \in Text, JoinedTwice
    <3>3. QED
      BY <3>1, <3>2 DEF v
  <2>7. x \in Text
    BY <2>2, Joined
  <2> HIDE DEF x, y
  <2>8. /\ y \in Text /\ Len(y) = Len(x) + Len(u)
        /\ \A i \in 1 .. Len(x) + Len(u) : y[i] = IF i <= Len(x) THEN x[i] ELSE u[i - Len(x)]
    BY <2>3, <2>6, <2>7, Joined
  <2>9. Holds(W[j], Len(x), x)
    BY <2>2 DEF x
  <2>10. Len(u) \in Nat
    BY <2>3, TextLen
  <2>11. Holds(Piece(W[j], p), Len(x) + Len(u), y)
    BY ONLY <2>3, <2>8, <2>9, <2>10, PieceHolds
  <2>12. Holds(W[j + 1], Len(y), y)
    BY <2>4, <2>8, <2>11
  <2>13. QED
    BY <2>5, <2>12 DEF y
<1>6. k \in T /\ k <= n
  <2>1. k \in Nat /\ k <= n
    BY DEF n
  <2> HIDE DEF T
  <2>2. QED
    BY <1>4, <1>5, <2>1, AllNumbers
<1>7. QED
  BY <1>6 DEF W, X

\* A string holds what has the same characters.
LEMMA SameHolds ==
  ASSUME NEW h, NEW n, NEW t, Holds(h, n, t), NEW w, \A i \in 1 .. n : w[i] = t[i]
  PROVE  Holds(h, n, w)
  BY DEF Holds

-----------------------------------------------------------------------------
(* The program.  A string holds its text, and is closed by the terminator, *)
(* between any two calls.                                                  *)

SdsInv ==
  /\ text \in Text
  /\ s # Null => Holds(s, Len(text), text) /\ Closed(s)

\* A call that makes a string h with a text t keeps the invariant.
LEMMA BecomesKeeps ==
  ASSUME NEW h, NEW t \in Text, Becomes(h, t), Holds(h, Len(t), t), Closed(h)
  PROVE  SdsInv'
<1>1. s' = Forget(h) /\ text' = t
  BY DEF Becomes
<1>2. Holds(Forget(h), Len(t), t) /\ Closed(Forget(h))
  BY ForgetHolds
<1>3. QED
  BY <1>1, <1>2 DEF SdsInv

\* sdsnewlen keeps the invariant.
LEMMA NewKeeps ==
  ASSUME New PROVE SdsInv'
<1>1. PICK t \in Arg : Becomes(sdsnewlen(t), t)
  BY DEF New
<1>2. t \in Text
  BY SdsAssumption DEF Text
<1>3. Len(t) \in Nat
  BY <1>2, TextLen
<1>4. Holds(sdsnewlen(t), Len(t), t) /\ Closed(sdsnewlen(t))
  <2> DEFINE n == Len(t)
  <2>1. n \in Nat /\ Len(t) = n
    BY <1>3
  <2> HIDE DEF n
  <2>2. Holds(sdsnewlen(t), n, t) /\ Closed(sdsnewlen(t))
    BY ONLY <2>1, NewHolds
  <2>3. QED
    BY <2>2 DEF n
<1>5. QED
  BY <1>1, <1>2, <1>4, BecomesKeeps

\* sdsfree keeps the invariant.
LEMMA FreeKeeps ==
  ASSUME Free PROVE SdsInv'
<1>1. s' = Null /\ text' = << >>
  BY DEF Free
<1>2. << >> \in Text
  BY DEF Text
<1>3. QED
  BY <1>1, <1>2 DEF SdsInv

\* What the invariant says of a string.
LEMMA StringHolds ==
  ASSUME SdsInv, s # Null
  PROVE  /\ text \in Text /\ Len(text) \in Nat /\ Holds(s, Len(text), text) /\ Closed(s)
         /\ s.len = Len(text)
<1>1. text \in Text /\ Holds(s, Len(text), text) /\ Closed(s)
  BY DEF SdsInv
<1>2. QED
  BY <1>1, TextLen DEF Holds

\* sdsMakeRoomFor keeps the invariant.
LEMMA MakeRoomKeeps ==
  ASSUME SdsInv, MakeRoom PROVE SdsInv'
<1>1. PICK n \in 0 .. 3 : s # Null /\ Becomes(sdsMakeRoomFor(s, n), text)
  BY DEF MakeRoom
<1>2. /\ text \in Text /\ Holds(s, Len(text), text) /\ Closed(s)
  BY <1>1, StringHolds
<1>3. Holds(sdsMakeRoomFor(s, n), Len(text), text) /\ Closed(sdsMakeRoomFor(s, n))
  BY <1>2, MakeRoomHolds
<1>4. QED
  BY <1>1, <1>2, <1>3, BecomesKeeps

\* sdsRemoveFreeSpace keeps the invariant.
LEMMA RemoveFreeSpaceKeeps ==
  ASSUME SdsInv, RemoveFreeSpace PROVE SdsInv'
<1> DEFINE r == sdsRemoveFreeSpace(s)
<1>1. s # Null /\ Becomes(r, text)
  BY DEF RemoveFreeSpace
<1>2. /\ text \in Text /\ Holds(s, Len(text), text) /\ Closed(s) /\ Len(text) \in Nat
  BY <1>1, StringHolds
<1>3. Fits(s) /\ s.len = Len(text) /\ \A i \in 1 .. Len(text) : s.buf[i - 1] = text[i]
  BY <1>2 DEF Holds
<1>4. Fits(r) /\ r.len = s.len /\ \A i \in 0 .. s.len : r.buf[i] = s.buf[i]
  BY <1>3, RemoveFreeSpaceFits
<1> HIDE DEF r
<1>5. Closed(r)
  BY <1>2, <1>3, <1>4 DEF Closed
<1>6. Holds(r, Len(text), text)
  <2> DEFINE n == Len(text)
             t == text
  <2>1. n \in Nat /\ s.len = n /\ \A i \in 1 .. n : s.buf[i - 1] = t[i]
    BY <1>2, <1>3
  <2> HIDE DEF n, t
  <2>2. \A i \in 1 .. n : r.buf[i - 1] = t[i]
    BY <1>4, <2>1
  <2>3. Holds(r, n, t)
    BY <1>4, <2>1, <2>2 DEF Holds
  <2>4. QED
    BY <2>3 DEF n, t
<1>7. QED
  BY <1>1, <1>2, <1>5, <1>6, BecomesKeeps

\* Spare bytes that are filled, and sdsIncrLen, keep the invariant.
LEMMA FillKeeps ==
  ASSUME SdsInv, Fill PROVE SdsInv'
<1>1. PICK t \in Arg \ {<< >>} :
        /\ s # Null /\ Len(t) <= sdsavail(s)
        /\ Becomes(sdsIncrLen(Put(s, s.len, t), Len(t)), text \o t)
  BY DEF Fill
<1>2. text \in Text /\ Holds(s, Len(text), text)
  BY <1>1, StringHolds
<1>3. t \in Text
  BY SdsAssumption DEF Text
<1>4. Len(t) \in Nat
  BY <1>3, TextLen
<1> DEFINE w == text \o t
<1>5. /\ w \in Text /\ Len(w) = Len(text) + Len(t)
      /\ \A i \in 1 .. Len(text) + Len(t) :
           w[i] = IF i <= Len(text) THEN text[i] ELSE t[i - Len(text)]
  BY <1>2, <1>3, Joined
<1> HIDE DEF w
<1> DEFINE r == sdsIncrLen(Put(s, s.len, t), Len(t))
<1>6. Holds(r, Len(text) + Len(t), w) /\ Closed(r)
  <2> DEFINE n == Len(text)
             m == Len(t)
  <2>1. /\ Holds(s, n, text) /\ m \in Nat /\ Len(t) = m /\ m <= sdsavail(s)
        /\ \A i \in 1 .. n + m : w[i] = IF i <= n THEN text[i] ELSE t[i - n]
    BY <1>1, <1>2, <1>4, <1>5
  <2> HIDE DEF n, m
  <2>2. LET q == sdsIncrLen(Put(s, s.len, t), m) IN Holds(q, n + m, w) /\ Closed(q)
    BY ONLY <2>1, FillHolds
  <2>3. QED
    BY <2>2 DEF n, m
<1> HIDE DEF r
<1>7. Becomes(r, w)
  BY <1>1 DEF r, w
<1>8. QED
  BY <1>5, <1>6, <1>7, BecomesKeeps

\* sdscatlen keeps the invariant.
LEMMA CatKeeps ==
  ASSUME SdsInv, Cat PROVE SdsInv'
<1>1. PICK t \in Arg : s # Null /\ Becomes(sdscatlen(s, t), text \o t)
  BY DEF Cat
<1>2. text \in Text /\ Holds(s, Len(text), text)
  BY <1>1, StringHolds
<1>3. t \in Text
  BY SdsAssumption DEF Text
<1>4. Len(t) \in Nat
  BY <1>3, TextLen
<1> DEFINE w == text \o t
           r == sdscatlen(s, t)
<1>5. /\ w \in Text /\ Len(w) = Len(text) + Len(t)
      /\ \A i \in 1 .. Len(text) + Len(t) :
           w[i] = IF i <= Len(text) THEN text[i] ELSE t[i - Len(text)]
  BY <1>2, <1>3, Joined
<1> HIDE DEF w
<1>6. Holds(r, Len(text) + Len(t), w) /\ Closed(r)
  <2> DEFINE n == Len(text)
             m == Len(t)
  <2>1. /\ Holds(s, n, text) /\ m \in Nat /\ Len(t) = m
        /\ \A i \in 1 .. n + m : w[i] = IF i <= n THEN text[i] ELSE t[i - n]
    BY <1>2, <1>4, <1>5
  <2> HIDE DEF n, m
  <2>2. Holds(sdscatlen(s, t), n + m, w) /\ Closed(sdscatlen(s, t))
    BY ONLY <2>1, CatHolds
  <2>3. QED
    BY <2>2 DEF n, m
<1> HIDE DEF r
<1>7. Becomes(r, w)
  BY <1>1 DEF r, w
<1>8. QED
  BY <1>5, <1>6, <1>7, BecomesKeeps

\* sdscpylen keeps the invariant.
LEMMA CpyKeeps ==
  ASSUME SdsInv, Cpy PROVE SdsInv'
<1>1. PICK t \in Arg : s # Null /\ Becomes(sdscpylen(s, t), t)
  BY DEF Cpy
<1>2. Holds(s, Len(text), text)
  BY <1>1, StringHolds
<1>3. t \in Text
  BY SdsAssumption DEF Text
<1>4. Len(t) \in Nat
  BY <1>3, TextLen
<1>5. Holds(sdscpylen(s, t), Len(t), t) /\ Closed(sdscpylen(s, t))
  <2> DEFINE n == Len(text)
             m == Len(t)
  <2>1. Holds(s, n, text) /\ m \in Nat /\ Len(t) = m
    BY <1>2, <1>4
  <2> HIDE DEF n, m
  <2>2. Holds(sdscpylen(s, t), m, t) /\ Closed(sdscpylen(s, t))
    BY ONLY <2>1, CpyHolds
  <2>3. QED
    BY <2>2 DEF m
<1>6. QED
  BY <1>1, <1>3, <1>5, BecomesKeeps

\* sdsIncrLen with a negative number keeps the invariant.
LEMMA DropKeeps ==
  ASSUME SdsInv, Drop PROVE SdsInv'
<1>1. PICK n \in 1 .. Len(text) :
        s # Null /\ Becomes(sdsIncrLen(s, -n), SubSeq(text, 1, Len(text) - n))
  BY DEF Drop
<1>2. text \in Text /\ Len(text) \in Nat /\ Holds(s, Len(text), text) /\ s.len = Len(text)
  BY <1>1, StringHolds
<1> DEFINE m == Len(text) - n
           w == SubSeq(text, 0 + 1, m)
<1>3. m \in 0 .. Len(text) /\ s.len + (-n) = m
  BY <1>2
<1>4. w \in Text /\ Len(w) = m /\ \A i \in 1 .. m : w[i] = text[i]
  <2>1. m \in Int /\ m <= Len(text) /\ m = IF 0 > m - 1 THEN 0 ELSE m - 0
    BY <1>2
  <2> HIDE DEF m
  <2> DEFINE o == 0
  <2>2. o \in Nat /\ m = IF o > m - 1 THEN 0 ELSE m - o
    BY <2>1
  <2> HIDE DEF o
  <2>3. /\ SubSeq(text, o + 1, m) \in Text /\ Len(SubSeq(text, o + 1, m)) = m
        /\ \A i \in 1 .. m : SubSeq(text, o + 1, m)[i] = text[o + i]
    BY ONLY <1>2, <2>1, <2>2, PartOf
  <2>4. w \in Text /\ Len(w) = m /\ \A i \in 1 .. m : w[i] = text[0 + i]
    BY <2>3 DEF o
  <2> HIDE DEF w
  <2>5. \A i \in 1 .. m : 0 + i = i
    BY <2>1
  <2>6. QED
    BY <2>4, <2>5
<1> DEFINE r == End(sdssetlen(s, m), m)
<1>5. sdsIncrLen(s, -n) = r
  BY <1>3 DEF sdsIncrLen, sdslen
<1> HIDE DEF w
<1>6. Becomes(r, w)
  BY <1>1, <1>5 DEF w
<1> HIDE DEF m
<1>7. Holds(r, m, text) /\ Closed(r)
  BY <1>2, <1>3, ShortenHolds
<1> HIDE DEF r
<1>8. Holds(r, m, w)
  BY <1>4, <1>7, SameHolds
<1>9. QED
  BY <1>4, <1>6, <1>7, <1>8, BecomesKeeps

\* sdsgrowzero keeps the invariant.
LEMMA GrowZeroKeeps ==
  ASSUME SdsInv, GrowZero PROVE SdsInv'
<1>1. PICK k \in 0 .. MaxLen :
        s # Null /\ Becomes(sdsgrowzero(s, k), text \o Zeros(k - Len(text)))
  BY DEF GrowZero
<1>2. text \in Text /\ Len(text) \in Nat /\ Holds(s, Len(text), text) /\ Closed(s)
  BY <1>1, StringHolds
<1>3. k \in Nat
  BY SdsAssumption
<1> DEFINE n == Len(text)
           d == k - n
           m == IF d < 0 THEN 0 ELSE d
           z == Zeros(d)
           w == text \o z
           l == IF k <= n THEN n ELSE k
           r == sdsgrowzero(s, k)
<1>4. d \in Int /\ n \in Nat /\ n + m = l
  BY <1>2, <1>3
<1>5. z \in Text /\ Len(z) = m /\ \A i \in 1 .. m : z[i] = NUL
  <2> HIDE DEF d
  <2>1. QED
    BY <1>4, ZerosText
<1> HIDE DEF d, z
<1>6. /\ w \in Text /\ Len(w) = n + m
      /\ \A i \in 1 .. n + m : w[i] = IF i <= n THEN text[i] ELSE z[i - n]
  <2>1. /\ text \o z \in Text /\ Len(text \o z) = Len(text) + Len(z)
        /\ \A i \in 1 .. Len(text) + Len(z) :
             (text \o z)[i] = IF i <= Len(text) THEN text[i] ELSE z[i - Len(text)]
    BY ONLY <1>2, <1>5, Joined
  <2> HIDE DEF m
  <2>2. Len(z) = m
    BY <1>5
  <2>3. QED
    BY ONLY <2>1, <2>2 DEF n, w
<1>7. Becomes(r, w)
  BY <1>1 DEF d, z
<1>8. m \in Nat
  BY <1>4
<1> HIDE DEF n, m, w, l, r
<1>9. \A i \in 1 .. l : w[i] = IF i <= n THEN text[i] ELSE NUL
  <2> SUFFICES ASSUME NEW i \in 1 .. l PROVE w[i] = IF i <= n THEN text[i] ELSE NUL
    OBVIOUS
  <2>1. i <= n \/ i - n \in 1 .. m
    BY <1>4, <1>8
  <2>2. i \in 1 .. n + m
    BY <1>4
  <2>3. w[i] = IF i <= n THEN text[i] ELSE z[i - n]
    BY ONLY <1>6, <2>2
  <2>4. QED
    BY ONLY <1>5, <2>1, <2>3
<1>10. Holds(r, l, w) /\ Closed(r)
  <2>1. l = IF k <= n THEN n ELSE k
    BY DEF l
  <2>2. Holds(s, n, text)
    BY <1>2 DEF n
  <2>3. Holds(sdsgrowzero(s, k), l, w) /\ Closed(sdsgrowzero(s, k))
    BY ONLY <1>2, <1>3, <1>9, <2>1, <2>2, GrowZeroHolds
  <2>4. QED
    BY <2>3 DEF r
<1>11. QED
  BY <1>4, <1>6, <1>7, <1>10, BecomesKeeps

\* sdscatfmt keeps the invariant.
LEMMA CatFmtKeeps ==
  ASSUME SdsInv, CatFmt PROVE SdsInv'
<1>1. PICK format \in Format :
        s # Null /\ Becomes(sdscatfmt(s, format), text \o Formatted(format))
  BY DEF CatFmt
<1>2. text \in Text /\ Holds(s, Len(text), text)
  BY <1>1, StringHolds
<1> DEFINE k == Len(format)
           q == Written(s, format)[k]
           x == Texts(format)[k]
           w == text \o x
           r == End(q, q.len)
<1>3. k \in 0 .. Len(format)
  BY FormatPieces
<1>4. x \in Text /\ Holds(q, Len(w), w)
  BY <1>2, <1>3, WrittenHolds
<1>5. Becomes(r, w)
  BY <1>1 DEF sdscatfmt, Formatted
<1>6. w \in Text
  BY <1>2, <1>4, Joined
<1> HIDE DEF q, x, w
<1>7. q.len = Len(w)
  BY <1>4 DEF Holds
<1>8. Holds(r, Len(w), w) /\ Closed(r)
  BY <1>4, <1>7, EndHolds
<1> HIDE DEF r
<1>9. QED
  BY <1>5, <1>6, <1>8, BecomesKeeps

\* sdsupdatelen keeps the invariant.
LEMMA UpdateLenKeeps ==
  ASSUME SdsInv, UpdateLen PROVE SdsInv'
<1> DEFINE w == Until(text, NUL)
           r == sdsupdatelen(s)
<1>1. s # Null /\ Becomes(r, w)
  BY DEF UpdateLen
<1>2. text \in Text /\ Holds(s, Len(text), text) /\ Closed(s)
  BY <1>1, StringHolds
<1>3. PICK m \in 0 .. Len(text) :
        /\ w \in Text /\ Len(w) = m
        /\ \A i \in 1 .. m : w[i] = text[i] /\ text[i] # NUL
        /\ m < Len(text) => text[m + 1] = NUL
  BY <1>2, UntilNul
<1> HIDE DEF w
<1>4. Holds(r, m, text) /\ Closed(r)
  BY <1>2, <1>3, UpdateLenHolds
<1> HIDE DEF r
<1>5. Holds(r, m, w)
  BY <1>3, <1>4, SameHolds
<1>6. QED
  BY <1>1, <1>3, <1>4, <1>5, BecomesKeeps

\* sdsclear keeps the invariant.
LEMMA ClearKeeps ==
  ASSUME SdsInv, Clear PROVE SdsInv'
<1> DEFINE w == << >>
           r == End(sdssetlen(s, 0), 0)
<1>1. s # Null /\ Becomes(r, w)
  BY DEF Clear, sdsclear
<1>2. Len(text) \in Nat /\ Holds(s, Len(text), text)
  BY <1>1, StringHolds
<1>3. 0 \in 0 .. Len(text)
  BY <1>2
<1>4. Holds(r, 0, text) /\ Closed(r)
  BY <1>2, <1>3, ShortenHolds
<1>5. w \in Text /\ Len(w) = 0
  BY DEF Text
<1> HIDE DEF w, r
<1>6. \A i \in 1 .. 0 : w[i] = text[i]
  OBVIOUS
<1>7. Holds(r, 0, w)
  BY <1>4, <1>6, SameHolds
<1>8. QED
  BY <1>1, <1>4, <1>5, <1>7, BecomesKeeps

\* sdstrim keeps the invariant.
LEMMA TrimKeeps ==
  ASSUME SdsInv, Trim PROVE SdsInv'
<1>1. PICK b \in Byte : s # Null /\ Becomes(sdstrim(s, {b}), Trimmed(text, {b, NUL}))
  BY DEF Trim
<1>2. text \in Text /\ Holds(s, Len(text), text)
  BY <1>1, StringHolds
<1> DEFINE c == {b}
           k == {b, NUL}
           w == Trimmed(text, k)
           r == sdstrim(s, c)
<1>3. k = c \cup {NUL}
  OBVIOUS
<1> HIDE DEF c, k
<1>4. PICK a \in Nat, m \in Nat :
        /\ a + m <= Len(text)
        /\ \A i \in 1 .. Len(text) : text[i] \notin k => i \in a + 1 .. a + m
        /\ m = 0 => \A i \in 1 .. Len(text) : text[i] \in k
        /\ m # 0 => text[a + 1] \notin k /\ text[a + m] \notin k
        /\ w \in Text /\ Len(w) = m
        /\ \A i \in 1 .. m : w[i] = text[a + i]
  BY <1>2, TrimmedPart
<1> HIDE DEF w
<1>5. Holds(r, m, w) /\ Closed(r)
  <2> DEFINE n == Len(text)
  <2>1. /\ Holds(s, n, text) /\ a + m <= n
        /\ \A i \in 1 .. n : text[i] \notin c \cup {NUL} => i \in a + 1 .. a + m
        /\ m = 0 => \A i \in 1 .. n : text[i] \in c \cup {NUL}
        /\ m # 0 => text[a + 1] \notin c \cup {NUL} /\ text[a + m] \notin c \cup {NUL}
        /\ \A i \in 1 .. m : w[i] = text[a + i]
    BY ONLY <1>2, <1>3, <1>4
  <2> HIDE DEF n
  <2>2. Holds(sdstrim(s, c), m, w) /\ Closed(sdstrim(s, c))
    BY ONLY <2>1, a \in Nat, m \in Nat, TrimHolds
  <2>3. QED
    BY <2>2
<1> HIDE DEF r
<1>6. Becomes(r, w)
  BY <1>1 DEF r, w, c, k
<1>7. QED
  BY <1>4, <1>5, <1>6, BecomesKeeps

\* sdsrange keeps the invariant.
LEMMA CutKeeps ==
  ASSUME SdsInv, Cut PROVE SdsInv'
<1>1. PICK start \in -3 .. 3, end \in -3 .. 3 :
        s # Null /\ Becomes(sdsrange(s, start, end), Ranged(text, start, end))
  BY DEF Cut
<1>2. text \in Text /\ Holds(s, Len(text), text) /\ Closed(s)
  BY <1>1, StringHolds
<1> DEFINE n == Len(text)
           m == Between(n, start, end)
           w == Ranged(text, start, end)
           r == sdsrange(s, start, end)
<1>3. start \in Int /\ end \in Int
  OBVIOUS
<1>4. w \in Text /\ Len(w) = m /\ \A i \in 1 .. m : w[i] = text[Spot(n, start) + i]
  BY <1>2, <1>3, RangedPart
<1>5. Holds(r, m, w) /\ Closed(r)
  <2>1. Holds(s, n, text) /\ \A i \in 1 .. Between(n, start, end) : w[i] = text[Spot(n, start) + i]
    BY <1>2, <1>4
  <2> HIDE DEF n, w
  <2>2. /\ Holds(sdsrange(s, start, end), Between(n, start, end), w)
        /\ Closed(sdsrange(s, start, end))
    BY ONLY <1>2, <1>3, <2>1, RangeHolds
  <2>3. QED
    BY <2>2
<1> HIDE DEF n, m, w, r
<1>6. Becomes(r, w)
  BY <1>1 DEF r, w
<1>7. QED
  BY <1>4, <1>5, <1>6, BecomesKeeps

\* sdstolower, sdstoupper and sdsmapchars keep the invariant.
LEMMA MapKeeps ==
  ASSUME SdsInv, Map PROVE SdsInv'
<1>1. PICK from \in Byte, to \in Byte :
        s # Null /\ Becomes(sdsmapchars(s, from, to), ReplaceAll(text, from, to))
  BY DEF Map
<1>2. text \in Text /\ Holds(s, Len(text), text) /\ Closed(s)
  BY <1>1, StringHolds
<1> DEFINE w == ReplaceAll(text, from, to)
           r == sdsmapchars(s, from, to)
<1>3. /\ w \in Text /\ Len(w) = Len(text)
      /\ \A i \in 1 .. Len(text) : w[i] = IF text[i] = from THEN to ELSE text[i]
  BY <1>2, ReplacedText
<1> HIDE DEF w
<1>4. Holds(r, Len(text), w) /\ Closed(r)
  BY ONLY <1>2, <1>3, MapHolds
<1> HIDE DEF r
<1>5. Becomes(r, w)
  BY <1>1 DEF r, w
<1>6. QED
  BY <1>3, <1>4, <1>5, BecomesKeeps

-----------------------------------------------------------------------------
(* The theorems.                                                           *)

\* The invariant holds in every state.
THEOREM SdsInvariant == Spec => []SdsInv
<1>1. Init => SdsInv
  <2>1. << >> \in Text
    BY DEF Text
  <2>2. QED
    BY <2>1 DEF Init, SdsInv
<1>2. SdsInv /\ [Next]_vars => SdsInv'
  <2> SUFFICES ASSUME SdsInv, [Next]_vars PROVE SdsInv'
    OBVIOUS
  <2>1. CASE New
    BY <2>1, NewKeeps
  <2>2. CASE Free
    BY <2>2, FreeKeeps
  <2>3. CASE MakeRoom
    BY <2>3, MakeRoomKeeps
  <2>4. CASE RemoveFreeSpace
    BY <2>4, RemoveFreeSpaceKeeps
  <2>5. CASE Fill
    BY <2>5, FillKeeps
  <2>6. CASE Drop
    BY <2>6, DropKeeps
  <2>7. CASE GrowZero
    BY <2>7, GrowZeroKeeps
  <2>8. CASE Cat
    BY <2>8, CatKeeps
  <2>9. CASE Cpy
    BY <2>9, CpyKeeps
  <2>10. CASE CatFmt
    BY <2>10, CatFmtKeeps
  <2>11. CASE UpdateLen
    BY <2>11, UpdateLenKeeps
  <2>12. CASE Clear
    BY <2>12, ClearKeeps
  <2>13. CASE Trim
    BY <2>13, TrimKeeps
  <2>14. CASE Cut
    BY <2>14, CutKeeps
  <2>15. CASE Map
    BY <2>15, MapKeeps
  <2>16. CASE UNCHANGED vars
    BY <2>16 DEF vars, SdsInv
  <2>17. QED
    BY <2>1, <2>2, <2>3, <2>4, <2>5, <2>6, <2>7, <2>8, <2>9, <2>10, <2>11, <2>12,
       <2>13, <2>14, <2>15, <2>16 DEF Next
<1>3. QED
  BY <1>1, <1>2, PTL DEF Spec

\* Of every string, whatever calls were made on it, the header tells the truth
\* about its block: nothing was written behind the end of the buffer, len,
\* alloc and the room come in this order, alloc is no more than the type can
\* hold, and the terminator is behind the text.
THEOREM HeadersTrue == Spec => []HeaderTrue
<1>1. SdsInv => HeaderTrue
  <2> SUFFICES ASSUME SdsInv, s # Null
               PROVE  /\ DOMAIN s.buf = 0 .. Room(s)
                      /\ s.len <= sdsalloc(s) /\ sdsalloc(s) <= Room(s)
                      /\ s.type # 4 => sdsalloc(s) <= TypeMax[s.type]
                      /\ s.buf[s.len] = NUL
    BY DEF HeaderTrue
  <2>1. Fits(s) /\ Closed(s)
    BY DEF SdsInv, Holds
  <2>2. QED
    BY <2>1 DEF Fits, Closed
<1>2. QED
  BY <1>1, SdsInvariant, PTL

\* Every string holds the text that the comments of sds.c promise, whatever
\* calls were made on it before.
THEOREM TextsKept == Spec => []TextKept
<1>1. SdsInv => TextKept
  <2> SUFFICES ASSUME SdsInv, s # Null PROVE Content(s) = text
    BY DEF TextKept
  <2> DEFINE n == Len(text)
             t == text
  <2>1. Holds(s, n, t)
    BY StringHolds
  <2>2. t = [i \in 1 .. n |-> t[i]]
    BY StringHolds DEF Text
  <2> HIDE DEF n, t
  <2>3. s.len = n /\ \A i \in 1 .. n : s.buf[i - 1] = t[i]
    BY <2>1 DEF Holds
  <2>4. Content(s) = [i \in 1 .. n |-> s.buf[i - 1]]
    BY <2>3 DEF Content
  <2>5. [i \in 1 .. n |-> s.buf[i - 1]] = [i \in 1 .. n |-> t[i]]
    BY <2>3
  <2>6. QED
    BY <2>2, <2>4, <2>5 DEF t
<1>2. QED
  BY <1>1, SdsInvariant, PTL
=============================================================================
