------------------------------- MODULE MCSds --------------------------------
(* A small instance of Sds: headers whose types hold 1, 3, 7 and 15 bytes. *)
EXTENDS SdsParts

MCTypeMax == [t \in 0 .. 3 |-> 2 ^ (t + 1) - 1]
MCArg == {<< >>, <<"a">>, <<"a", NUL>>, <<NUL, "a", "a">>}
MCByte == {"a", NUL}
MCFormat ==
  LET Char1(c) == [verb |-> FALSE, text |-> <<c>>]
      Verb(t) == [verb |-> TRUE, text |-> t]
  IN {<<Char1("a")>>, <<Verb(<<"a", "a", NUL, "a", "a">>), Char1("a")>>,
      <<Verb(<<"a">>), Verb(<< >>)>>}
MCRepr == BoundedSeq({"bs", "dq", "sq", "nl", "sp", "x", "0", "n", "a", NUL}, 3)
          \cup {[i \in 1 .. 6 |-> "sp"]}
=============================================================================
