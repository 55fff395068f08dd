----------------------------- MODULE MCDataModel -----------------------------
(* A tree with a node under $SYS, one other node and a leaf at the top.    *)
EXTENDS DataModel, TLC

MCLeaves == {<<"$SYS", "x">>, <<"a", "x">>, <<"b">>}
MCRetained == {<<"a", "x">>}

(* Wildcards that overlap, the one that "+/" makes, and one too early.     *)
MCFilters == {<<"#">>, <<"+", "#">>, <<"$SYS", "+">>, <<"+", "">>, <<"#", "x">>}

Symmetry == Permutations(Subscribers)
=============================================================================
