-------------------------------- MODULE Sds --------------------------------
(***************************************************************************)
(* The strings of hiredis/sds.c: a header of one of five widths, a buffer  *)
(* that grows ahead of its text, and calls that rewrite, extend and        *)
(* shorten it in place.  One string, and a program that makes any sequence *)
(* of calls on it.  The allocator of hiredis/zmalloc.c returns as much as  *)
(* it is asked for, or ends the process.                                   *)
(*                                                                         *)
(* A header holds len and alloc in as many bits as its type has; the type  *)
(* is chosen again whenever the buffer is.  The content of the buffer      *)
(* behind the terminator is Junk here, whatever the program left there.    *)
(* Beside the string, `text` follows what the comments of sds.c promise.   *)
(***************************************************************************)
EXTENDS Integers, SequencesExt

CONSTANTS
  TypeMax,      \* TypeMax[t]: the largest length of header type t, 0 to 3
  MaxPrealloc,  \* SDS_MAX_PREALLOC
  Null,         \* NULL
  Byte,         \* the characters
  Arg,          \* the strings that the program passes
  Format,       \* the formats that it passes to sdscatfmt
  MaxLen        \* bound: the longest text

NUL == "nul"
Junk == "junk"

HdrSize == <<1, 3, 5, 9, 17>>    \* of types 0 to 4

ASSUME SdsAssumption ==
  /\ TypeMax \in [0 .. 3 -> Nat] /\ \A t \in 1 .. 3 : TypeMax[t - 1] < TypeMax[t]
  /\ MaxPrealloc \in Nat \ {0} /\ MaxLen \in Nat
  /\ NUL \in Byte /\ Arg \subseteq Seq(Byte)
  /\ Format \subseteq Seq([verb : {TRUE}, text : Seq(Byte)]
                          \cup [verb : {FALSE}, text : {<<b>> : b \in Byte}])

VARIABLES
  s,      \* NULL or the string: its header, the size of its block, the buffer
  text    \* history: what the string should hold

vars == <<s, text>>

Init == s = Null /\ text = << >>

-----------------------------------------------------------------------------
(* The header.                                                             *)

Lesser(a, b) == IF a < b THEN a ELSE b

\* Variant: the bound of a type is taken as one more than it holds.
ReqTypeLoose(n) ==
  IF \E t \in 0 .. 3 : n <= TypeMax[t] + 1
  THEN CHOOSE t \in 0 .. 3 : n <= TypeMax[t] + 1 /\ \A u \in 0 .. t - 1 : n > TypeMax[u] + 1
  ELSE 4

ReqType(n) ==
  IF \E t \in 0 .. 3 : n <= TypeMax[t]
  THEN CHOOSE t \in 0 .. 3 : n <= TypeMax[t] /\ \A u \in 0 .. t - 1 : n > TypeMax[u]
  ELSE 4

Width(type, n) == IF type = 4 THEN n ELSE n % (TypeMax[type] + 1)

sdslen(h) == h.len
sdsalloc(h) == IF h.type = 0 THEN h.len ELSE h.alloc
sdsavail(h) == sdsalloc(h) - sdslen(h)
sdssetlen(h, n) == [h EXCEPT !.len = Width(h.type, n)]
sdssetalloc(h, n) ==
  [h EXCEPT !.alloc = IF h.type = 0 THEN 0 ELSE Width(h.type, n)]

Hdr(h) == HdrSize[h.type + 1]
Room(h) == h.size - Hdr(h) - 1
Content(h) == [i \in 1 .. h.len |-> h.buf[i - 1]]

-----------------------------------------------------------------------------
(* The buffer: bytes 0 .. Room, one of them for the terminator.            *)

\* memcpy to the place `at`.
Put(h, at, t) ==
  LET to == at .. at + Len(t) - 1
  IN [h EXCEPT !.buf = [i \in DOMAIN h.buf \cup to |->
                          IF i \in to THEN t[i - at + 1] ELSE h.buf[i]]]

End(h, at) == Put(h, at, <<NUL>>)

Forget(h) ==
  [h EXCEPT !.buf = [i \in DOMAIN h.buf |-> IF i > h.len THEN Junk ELSE h.buf[i]]]

\* The string in a block for `room` bytes, of which the first `kept` come
\* from the old one.
Moved(h, type, room, kept) ==
  [type |-> type, len |-> Width(type, h.len), alloc |-> 0,
   size |-> HdrSize[type + 1] + room + 1,
   buf |-> [i \in 0 .. room |-> IF i < kept THEN h.buf[i] ELSE Junk]]

\* Variant: the block keeps the room for the terminator out of its size.
sdsnewlenTight(t) ==
  LET type == IF ReqType(Len(t)) = 0 /\ t = << >> THEN 1 ELSE ReqType(Len(t))
      h == Moved([len |-> Len(t)], type, Len(t), 0)
  IN End(Put(sdssetalloc([h EXCEPT !.size = @ - 1], Len(t)), 0, t), Len(t))

sdsnewlen(t) ==
  LET type == IF ReqType(Len(t)) = 0 /\ t = << >> THEN 1 ELSE ReqType(Len(t))
      h == Moved([len |-> Len(t)], type, Len(t), 0)
  IN End(Put(sdssetalloc(h, Len(t)), 0, t), Len(t))

(* Twice the length that is asked for, or MaxPrealloc more; never type 5.  *)
(* realloc keeps what fits of the old block, the other way copies the text *)
(* and its terminator.                                                     *)
sdsMakeRoomFor(h, addlen) ==
  IF sdsavail(h) >= addlen THEN h ELSE
  LET asked == sdslen(h) + addlen
      newlen == IF asked < MaxPrealloc THEN 2 * asked ELSE asked + MaxPrealloc
      type == IF ReqType(newlen) = 0 THEN 1 ELSE ReqType(newlen)
      kept == IF type = h.type THEN Lesser(Room(h), newlen) + 1 ELSE sdslen(h) + 1
      usable == IF type = 4 THEN newlen ELSE Lesser(newlen, TypeMax[type])
  IN sdssetalloc(Moved(h, type, newlen, kept), usable)

\* The old type is kept unless type 8 or 5 is enough.
sdsRemoveFreeSpace(h) ==
  IF sdsavail(h) = 0 THEN h ELSE
  LET fit == ReqType(sdslen(h))
      type == IF fit = h.type \/ fit > 1 THEN h.type ELSE fit
  IN sdssetalloc(Moved(h, type, sdslen(h), sdslen(h) + 1), sdslen(h))

-----------------------------------------------------------------------------
(* The calls on a string that return nothing but the string.               *)

sdscatlen(h, t) ==
  LET r == sdsMakeRoomFor(h, Len(t)) IN
  End(sdssetlen(Put(r, sdslen(h), t), sdslen(h) + Len(t)), sdslen(h) + Len(t))

sdscpylen(h, t) ==
  LET r == IF sdsalloc(h) < Len(t) THEN sdsMakeRoomFor(h, Len(t) - sdslen(h)) ELSE h
  IN sdssetlen(End(Put(r, 0, t), Len(t)), Len(t))

Zeros(n) == [i \in 1 .. n |-> NUL]

sdsgrowzero(h, n) ==
  IF n <= sdslen(h) THEN h
  ELSE sdssetlen(Put(sdsMakeRoomFor(h, n - sdslen(h)), sdslen(h), Zeros(n - sdslen(h) + 1)), n)

\* strlen(): up to the first NUL, the terminator if need be.
sdsupdatelen(h) ==
  sdssetlen(h, CHOOSE i \in DOMAIN h.buf :
                 h.buf[i] = NUL /\ \A j \in 0 .. i - 1 : h.buf[j] # NUL)

sdsclear(h) == End(sdssetlen(h, 0), 0)

\* The text from place `from` moves to the front.
Shift(h, from, n) ==
  sdssetlen(End(Put(h, 0, [i \in 1 .. n |-> h.buf[from + i - 1]]), n), n)

\* strchr() finds the terminator of cset as well.
sdstrim(h, cset) ==
  LET keep == {i \in 0 .. sdslen(h) - 1 : h.buf[i] \notin cset \cup {NUL}}
      first == CHOOSE i \in keep : \A j \in keep : i <= j
      last == CHOOSE i \in keep : \A j \in keep : j <= i
  IN IF keep = {} THEN Shift(h, 0, 0) ELSE Shift(h, first, last - first + 1)

sdsrange(h, start, end) ==
  LET Place(i) == IF i >= 0 THEN i ELSE IF sdslen(h) + i < 0 THEN 0 ELSE sdslen(h) + i
      from == Place(start)
      to == Lesser(Place(end), sdslen(h) - 1)
      n == IF from > to \/ from >= sdslen(h) THEN 0 ELSE to - from + 1
  IN IF sdslen(h) = 0 THEN h ELSE Shift(h, from, n)

(* A format is a sequence of pieces: verbs, two characters each that stand *)
(* for a text, and characters.  Only a verb asks for the room it needs,    *)
(* and nothing writes a terminator before the end.                         *)
Piece(h, piece) ==
  LET spare == IF sdsavail(h) = 0 THEN sdsMakeRoomFor(h, 1) ELSE h
      r == IF piece.verb /\ sdsavail(spare) < Len(piece.text)
           THEN sdsMakeRoomFor(spare, Len(piece.text)) ELSE spare
  IN sdssetlen(Put(r, sdslen(h), piece.text), sdslen(h) + Len(piece.text))

FmtLen(format) == Len(format) + Cardinality({k \in DOMAIN format : format[k].verb})

\* The string after each piece.
Written(h, format) ==
  LET r[k \in 0 .. Len(format)] ==
        IF k = 0 THEN sdsMakeRoomFor(h, 2 * FmtLen(format)) ELSE Piece(r[k - 1], format[k])
  IN r

sdscatfmt(h, format) ==
  LET r == Written(h, format)[Len(format)] IN End(r, r.len)

\* sdstolower, sdsmapchars: each byte by itself.
sdsmapchars(h, from, to) ==
  [h EXCEPT !.buf = [i \in DOMAIN h.buf |->
     IF i < sdslen(h) /\ h.buf[i] = from THEN to ELSE h.buf[i]]]

sdsIncrLen(h, incr) == End(sdssetlen(h, sdslen(h) + incr), sdslen(h) + incr)

-----------------------------------------------------------------------------
(* What the comments promise of the text.                                  *)

Until(t, b) == IF Contains(t, b) THEN SubSeq(t, 1, SelectInSeq(t, LAMBDA c : c = b) - 1) ELSE t

Trimmed(t, cset) ==
  LET keep == {i \in DOMAIN t : t[i] \notin cset}
  IN IF keep = {} THEN << >> ELSE SubSeq(t, Min(keep), Max(keep))

Ranged(t, start, end) ==
  LET Index(i) == Max({0, IF i < 0 THEN Len(t) + i ELSE i})
  IN SubSeq(t, Index(start) + 1, Lesser(Index(end) + 1, Len(t)))

\* The texts of the first pieces of a format, one after the other.
Texts(format) ==
  LET all[k \in 0 .. Len(format)] == IF k = 0 THEN << >> ELSE all[k - 1] \o format[k].text
  IN all

Formatted(format) == Texts(format)[Len(format)]

-----------------------------------------------------------------------------
(* The program.                                                            *)

Becomes(h, t) ==
  /\ Len(t) <= MaxLen
  /\ s' = Forget(h) /\ text' = t

New == \E t \in Arg : s = Null /\ Becomes(sdsnewlen(t), t)

Free == s # Null /\ s' = Null /\ text' = << >>

MakeRoom == \E n \in 0 .. 3 : s # Null /\ Becomes(sdsMakeRoomFor(s, n), text)

RemoveFreeSpace == s # Null /\ Becomes(sdsRemoveFreeSpace(s), text)

\* The bytes that sdsavail() promises are filled, then the length is set.
Fill ==
  \E t \in Arg \ {<< >>} :
    /\ s # Null /\ Len(t) <= sdsavail(s)
    /\ Becomes(sdsIncrLen(Put(s, s.len, t), Len(t)), text \o t)

Drop ==
  \E n \in 1 .. Len(text) :
    s # Null /\ Becomes(sdsIncrLen(s, -n), SubSeq(text, 1, Len(text) - n))

GrowZero ==
  \E n \in 0 .. MaxLen :
    s # Null /\ Becomes(sdsgrowzero(s, n), text \o Zeros(n - Len(text)))

Cat == \E t \in Arg : s # Null /\ Becomes(sdscatlen(s, t), text \o t)

Cpy == \E t \in Arg : s # Null /\ Becomes(sdscpylen(s, t), t)

CatFmt ==
  \E format \in Format :
    s # Null /\ Becomes(sdscatfmt(s, format), text \o Formatted(format))

UpdateLen == s # Null /\ Becomes(sdsupdatelen(s), Until(text, NUL))

Clear == s # Null /\ Becomes(sdsclear(s), << >>)

Trim ==
  \E c \in Byte :
    s # Null /\ Becomes(sdstrim(s, {c}), Trimmed(text, {c, NUL}))

Cut ==
  \E start, end \in -3 .. 3 :
    s # Null /\ Becomes(sdsrange(s, start, end), Ranged(text, start, end))

Map ==
  \E from, to \in Byte :
    s # Null /\ Becomes(sdsmapchars(s, from, to), ReplaceAll(text, from, to))

Next ==
  \/ New \/ Free \/ MakeRoom \/ RemoveFreeSpace \/ Fill \/ Drop \/ GrowZero
  \/ Cat \/ Cpy \/ CatFmt \/ UpdateLen \/ Clear \/ Trim \/ Cut \/ Map

Spec == Init /\ [][Next]_vars

-----------------------------------------------------------------------------
(* The header tells the truth about the block, in every order of calls:    *)
(* the buffer was never written behind its end, len, alloc and the room    *)
(* there is come in this order, alloc is never more than its type can      *)
(* hold, and the byte after the text is the terminator.                    *)
HeaderTrue ==
  s # Null =>
    /\ DOMAIN s.buf = 0 .. Room(s)
    /\ s.len <= sdsalloc(s) /\ sdsalloc(s) <= Room(s)
    /\ s.type # 4 => sdsalloc(s) <= TypeMax[s.type]
    /\ s.buf[s.len] = NUL

(* The string holds what the comments promise, whatever buffers and        *)
(* headers it has moved through: no byte is lost at the boundary of a      *)
(* type, and none of the spare bytes is ever taken for text.               *)
TextKept == s # Null => Content(s) = text
=============================================================================
