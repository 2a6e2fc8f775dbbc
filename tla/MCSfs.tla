------------------------------- MODULE MCSfs --------------------------------
(* Instances of Sfs: the calls of main.c, on a disk of eleven or twelve    *)
(* blocks of 16 words, of which the last seven or eight hold data.         *)
EXTENDS Sfs

MainOps == {"write_block", "format", "mount"} \cup FileCalls
(* The file grows piece by piece to its five direct blocks and on into the *)
(* indirect block; a word of its own for each offset tells the pieces      *)
(* apart.                                                                  *)
Pieces == {<<0, 14>>, <<14, 14>>, <<28, 14>>, <<42, 14>>, <<56, 24>>, <<80, 14>>}
FewReads == {<<0, 80>>, <<20, 10>>, <<80, 14>>}
Crossing == {<<0, 14>>, <<14, 14>>, <<28, 14>>, <<42, 14>>, <<56, 14>>, <<70, 14>>}
TwoSmall == {<<0, 10>>, <<8, 10>>}
WholeBlocks == {<<x, n>> : x \in {0, 8, 16}, n \in {4, 16}}

WordOfOffset == [x \in 0 .. MaxWords |-> {x + 1}]
TwoWords     == [x \in 0 .. MaxWords |-> {1 + ((x \div 14) % 2)}]
Ones         == [x \in 0 .. MaxWords |-> {1}]
=============================================================================
