--------------------------- MODULE MCVEDirectText ---------------------------
(* Blocks of one and two fields and two hex messages for TLC.              *)
EXTENDS VEDirectText

V == <<86>>
I == <<73>>

(* V 12, I 3 and V 7.                                                      *)
MCBlocks == {<< <<V, <<49, 50>>>>, <<I, <<51>>>> >>, << <<V, <<55>>>> >>}

(* The answer to a ping, and to a GET that gives one byte.                 *)
MCHexMessages == {<<5, 80>>, <<7, 65, 13>>}

ASSUME WellFormedAssumption == WellFormed
=============================================================================
