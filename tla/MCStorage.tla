----------------------------- MODULE MCStorage -----------------------------
(* Instance of Storage for TLC: the two files of kmain, at its sectors 1     *)
(* and 3, on a disk of five sectors.                                         *)
EXTENDS Storage

MCFiles == {[Name |-> "TEST.TXT", FirstSector |-> 1],
            [Name |-> "LOL.TXT",  FirstSector |-> 3]}
=============================================================================
