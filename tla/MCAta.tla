------------------------------- MODULE MCAta -------------------------------
(* Instance of Ata for TLC: a disk of two sectors in slot 0, a CD-ROM in  *)
(* slot 1, nothing in the others; a word of 8 values, so that lba + num     *)
(* wraps for lba 7.                                                         *)
EXTENDS Ata

MCDevices ==
  [d \in 0 .. MAXIMUM_IDE_DEVICES |->
     CASE d = 0 -> [reserved |-> 1, type |-> "ATA", size |-> Size]
       [] d = 1 -> [reserved |-> 1, type |-> "ATAPI", size |-> 0]
       [] OTHER -> [reserved |-> 0, type |-> "ATA", size |-> 0]]

MCErrorBits == {{"UNC"}, {"IDNF", "ABRT"}}
=============================================================================
