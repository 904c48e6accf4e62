--------------------------- MODULE MCMessageEdits ---------------------------
(* Two field names, one of them protected, over values that differ only in  *)
(* the space around them; a message of three parts below the top-level one, *)
(* two of them nested.                                                      *)
EXTENDS MessageEdits

MCTrim == [v \in FieldValues |-> CASE v = " a" -> "a" [] v = " " -> "" [] OTHER -> v]
MCOriginal == [n \in FieldNames |-> <<"a", " a", "a">>]
MCHeap == <<Part(TRUE, <<>>, <<2, 4>>), Part(TRUE, <<>>, <<3>>),
            Part(FALSE, <<"text">>, <<>>), Part(FALSE, <<"pdf">>, <<>>)>>
=============================================================================
