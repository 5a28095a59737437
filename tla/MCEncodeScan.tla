---------------------------- MODULE MCEncodeScan ----------------------------
(***************************************************************************)
(* EncodeScan for TLC: texts over three bytes, and special tokens that     *)
(* overlap, nest or start with one another.                                *)
(***************************************************************************)
EXTENDS EncodeScan

CONSTANT MaxText

MCTexts == UNION {[1 .. n -> Byte] : n \in 0 .. MaxText}
           \union {<<"<", "<", "a", ">", ">">>, <<"a", "<", "a", ">", "<", ">">>,
                   <<"<", ">", "<", "a", ">", "a">>, <<"<", "a", "<", "a", ">", ">">>}

MCSpecialSets == {{<<"<", "a", ">">>, <<"<", ">">>},      \* unrelated
                  {<<"<", "a", ">">>, <<"a", ">">>},      \* one inside the other
                  {<<"<", "a", ">">>, <<"<", "a">>}}      \* one starts the other

MCKnownSets == {Byte, Byte \ {"a"}}
============================================================================
