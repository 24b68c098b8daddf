----------------------------- MODULE DriveTable -----------------------------
(***************************************************************************)
(* The table of drives of libkern/ide.c: what ide_init makes of an         *)
(* identification block, how ata_get_drive_by_model looks a drive up, and  *)
(* what the table should be.  IdeInit fills it.                            *)
(*                                                                         *)
(* A device is a record: what it is, and the part of its identification    *)
(* block the driver reads.                                                 *)
(***************************************************************************)
EXTENDS Integers, Sequences, FiniteSets

CONSTANTS Space, ModelLength   \* of the model in the identification block: 40

DeviceSlots == 5                        \* MAXIMUM_IDE_DEVICES
Positions == 1..4                       \* two channels of two drives
ChannelOf(p) == (p - 1) \div 2
DriveOf(p) == (p - 1) % 2

\* The block holds the model in words, high byte first.
SwapBytes(s) == [k \in 1 .. Len(s) |-> s[IF k % 2 = 1 THEN k + 1 ELSE k - 1]]

\* Trailing spaces become NULs, up to the first other character.
Trim(s) == LET used == {k \in 1 .. Len(s) : \E j \in k .. Len(s) : s[j] # Space}
           IN  [k \in used |-> s[k]]

Entry(p, type, ident) ==
  [reserved |-> 1, type |-> type, channel |-> ChannelOf(p), drive |-> DriveOf(p),
   size     |-> IF ident.lba48 THEN ident.maxExt ELSE ident.max,
   model    |-> Trim(SwapBytes(ident.model))]

Unused == [reserved |-> 0, type |-> "ATA", channel |-> 0, drive |-> 0, size |-> 0,
           model |-> <<>>]

\* A plausible slip: the search starts at the second slot.
Slots_FromOne == 1 .. DeviceSlots - 1

Slots == 0 .. DeviceSlots - 1

ata_get_drive_by_model(table, model) ==
  LET hits == {d \in Slots : table[d].model = model}
  IN  IF hits = {} THEN -1 ELSE CHOOSE d \in hits : \A e \in hits : d <= e

-----------------------------------------------------------------------------
(***************************************************************************)
(* What the table should be, for a set of positions that hold a drive.  A  *)
(* drive's label is the text its maker put into the identification block,  *)
(* padded with spaces.                                                     *)
(***************************************************************************)
Padded(label) == [k \in 1 .. ModelLength |->
                    IF k <= Len(label) THEN label[k] ELSE Space]

\* The characters of a word are in memory with the second one first.
Block(label) == LET word(w) == <<Padded(label)[2 * w], Padded(label)[2 * w - 1]>>
                IN  [k \in 1 .. ModelLength |->
                       word((k + 1) \div 2)[2 - (k % 2)]]

\* The drives in the order of their positions, without gaps.
SlotOf(drives, p) == Cardinality({q \in drives : q < p})

RecordOf(dev, p) ==
  [reserved |-> 1, type |-> IF dev[p].kind = "ATA" THEN "ATA" ELSE "ATAPI",
   channel |-> ChannelOf(p), drive |-> DriveOf(p),
   size |-> dev[p].size, model |-> dev[p].label]
=============================================================================
