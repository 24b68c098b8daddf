------------------------------- MODULE MCPs2 -------------------------------
(* Instance of Ps2 for TLC.  One packet has a byte that reads as an answer, *)
(* both drive the pointer into an edge; one scan code turns the keyboard's  *)
(* interrupt off when it is taken for the command byte.                     *)
EXTENDS Ps2

MCPackets == {<<40, 2, 255>>, <<24, 250, 3>>}
=============================================================================
