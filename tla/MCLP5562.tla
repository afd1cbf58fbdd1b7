------------------------------ MODULE MCLP5562 ------------------------------
(* The white channel at 17.5 mA, the other channels off, as in src/README.md; *)
(* what an uninitialised variable holds is 0xFF.                            *)
EXTENDS LP5562

WhiteOnly == [c \in Channels |-> IF c = "W" THEN 175 ELSE 0]
AllOnes == {Bit}
=============================================================================
