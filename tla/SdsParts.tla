------------------------------ MODULE SdsParts ------------------------------
(***************************************************************************)
(* The calls of hiredis/sds.c that take texts apart and put them together  *)
(* again: split, join, print with escapes and parse.  They read their      *)
(* strings and make new ones with the calls of Sds, so that they are       *)
(* functions of the texts here; sdscatrepr and sdssplitargs go through     *)
(* them character by character.                                            *)
(***************************************************************************)
EXTENDS Sds

CONSTANT Repr  \* the strings that are taken apart and put together

(* sdssplitlen looks at one place after the other and passes over the      *)
(* separators it finds; the array has slots for five tokens at first.      *)
sdssplitlen(t, sep) ==
  LET Turn(k, j) ==
        LET slots == IF k.slots < Len(k.tokens) + 2 THEN 2 * k.slots ELSE k.slots
        IN IF j < k.start THEN k
           ELSE IF SubSeq(t, j, j + Len(sep) - 1) # sep THEN [k EXCEPT !.slots = slots]
           ELSE [slots |-> slots, start |-> j + Len(sep),
                 tokens |-> Append(k.tokens, SubSeq(t, k.start, j - 1))]
      end == FoldLeft(Turn, [slots |-> 5, start |-> 1, tokens |-> << >>],
                      [j \in 1 .. Len(t) - Len(sep) + 1 |-> j])
      tokens == IF t = << >> THEN << >>
                ELSE Append(end.tokens, SubSeq(t, end.start, Len(t)))
  IN [tokens |-> tokens, fit |-> Len(tokens) <= end.slots]

sdsjoinsds(tokens, sep) ==
  FoldLeftDomain(LAMBDA t, j : t \o tokens[j] \o (IF j # Len(tokens) THEN sep ELSE << >>),
                 << >>, tokens)

\* Characters of escapes: a backslash, quotes, the line feed as `n`, and as
\* two hexadecimal digits what cannot be printed.
Hex == [c \in {"nul", "bel"} |-> IF c = "nul" THEN <<"0", "0">> ELSE <<"0", "7">>]
Space == {"sp", "nl"}

\* Variant: a quote is escaped, a backslash is not.
EscapeQuotes(c) ==
  CASE c = "dq" -> <<"bs", c>>
    [] c = "nl" -> <<"bs", "n">>
    [] c \in DOMAIN Hex -> <<"bs", "x">> \o Hex[c]
    [] OTHER -> <<c>>

Escape(c) ==
  CASE c \in {"bs", "dq"} -> <<"bs", c>>
    [] c = "nl" -> <<"bs", "n">>
    [] c \in DOMAIN Hex -> <<"bs", "x">> \o Hex[c]
    [] OTHER -> <<c>>

sdscatrepr(t) == <<"dq">> \o FoldLeft(LAMBDA u, c : u \o Escape(c), << >>, t) \o <<"dq">>

\* The line of sdssplitargs is a C string.
Char(line, p) == IF p <= Len(line) THEN line[p] ELSE NUL
Unescape(c) == IF c = "n" THEN "nl" ELSE c
Error == [ok |-> FALSE]

\* One token from place p on: cur is what it holds so far, mode tells
\* whether quotes are open.
RECURSIVE Token(_, _, _, _)
Token(line, p, mode, cur) ==
  LET c == Char(line, p)
      d == Char(line, p + 1)
      closed == IF d \in Space \cup {NUL} THEN [ok |-> TRUE, text |-> cur, next |-> p + 1]
                ELSE Error
      hex == {b \in DOMAIN Hex : Hex[b] = <<Char(line, p + 2), Char(line, p + 3)>>}
      Go(q, m, t) == Token(line, q, m, cur \o t)
  IN CASE mode = "plain" /\ c \in Space \cup {NUL} ->
            [ok |-> TRUE, text |-> cur, next |-> IF c = NUL THEN p ELSE p + 1]
       [] mode = "plain" /\ c \in {"dq", "sq"} -> Go(p + 1, c, << >>)
       [] mode # "plain" /\ c = NUL -> Error
       [] mode = c -> closed
       [] mode = "dq" /\ c = "bs" /\ d = "x" /\ hex # {} ->
            Go(p + 4, mode, <<CHOOSE b \in hex : TRUE>>)
       [] mode = "dq" /\ c = "bs" /\ d # NUL /\ ~(d = "x" /\ hex # {}) ->
            Go(p + 2, mode, <<Unescape(d)>>)
       [] mode = "sq" /\ c = "bs" /\ d = "sq" -> Go(p + 2, mode, <<d>>)
       [] OTHER -> Go(p + 1, mode, <<c>>)

RECURSIVE SplitArgs(_, _, _)
SplitArgs(line, p, vector) ==
  LET token == Token(line, p, "plain", << >>)
  IN CASE Char(line, p) = NUL -> [ok |-> TRUE, argv |-> vector]
       [] Char(line, p) \in Space -> SplitArgs(line, p + 1, vector)
       [] OTHER -> IF token.ok THEN SplitArgs(line, token.next, Append(vector, token.text))
                   ELSE Error

sdssplitargs(line) == SplitArgs(line, 1, << >>)

-----------------------------------------------------------------------------
(* What sdssplitlen takes apart sdsjoinsds puts together again, and the    *)
(* array of tokens has room for the last one; and sdscatrepr gives what    *)
(* sdssplitargs reads back as one argument, as its comment says, also next *)
(* to other arguments.                                                     *)
PartsMakeWhole ==
  s = Null =>
    /\ \A t \in Repr : LET line == sdscatrepr(t) IN
         /\ sdssplitargs(line) = [ok |-> TRUE, argv |-> <<t>>]
         /\ sdssplitargs(<<"a", "sp">> \o line \o <<"sp", "sp">>)
              = [ok |-> TRUE, argv |-> <<<<"a">>, t>>]
    /\ \A t \in Repr, c, d \in {"a", "sp"} : \A sep \in {<<c>>, <<c, d>>} :
         LET parts == sdssplitlen(t \o t, sep)
         IN parts.fit /\ sdsjoinsds(parts.tokens, sep) = t \o t
=============================================================================
