--------------------------- MODULE MCVersionPolicy ---------------------------
(***************************************************************************)
(* Texts over two digits, with u64::MAX at 10, so that 11 is the short     *)
(* number that does not fit: eight beginnings of a text, each with every    *)
(* ending of up to three characters.                                       *)
(***************************************************************************)
EXTENDS VersionContract

MCDigits == [d \in {"0", "1"} |-> IF d = "0" THEN 0 ELSE 1]

Endings == BoundedSeq(Characters, 3)

Starts ==
  {<<>>, <<"1", ".", "0">>, <<"1", ".", "0", ".", "0">>, <<"1", "1", ".", "0", ".", "0">>,
   <<"0", ".", "1", "0", ".", "1", "-">>, <<"1", ".", "1", "1", ".", "1", "+">>,
   <<"1", ".", "0", ".", "0", "-", "a">>, <<"1", "0", ".", "1", ".", "1", "+", "a">>}

MCTexts == {start \o ending : start \in Starts, ending \in Endings}

MCLists == {<<>>, <<0>>, <<1, 0, 1>>, <<0, 1>>, <<10>>}

=============================================================================
