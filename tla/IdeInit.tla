------------------------------- MODULE IdeInit -------------------------------
(***************************************************************************)
(* ide_init of libkern/ide.c as the process it is: it selects each of the  *)
(* four positions in turn, sends IDENTIFY, and polls a device that answers *)
(* in its own time.                                                        *)
(*                                                                         *)
(* The devices are not in the repository; they are modelled from what      *)
(* ide_init tests.  A disk answers IDENTIFY with DRQ, a packet device with *)
(* ERR and its signature, another device with ERR and a signature that is  *)
(* not listed, a faulty one with neither ERR nor DRQ (DF is not tested);   *)
(* on an empty position the status reads as zero, or the bus floats high.  *)
(* The sleeps after select and command are commented out in the code, so a *)
(* packet device, whose status is 0 until it is sent a command, may still  *)
(* show 0 when the status is first read; and after IDENTIFY PACKET the     *)
(* data register is read at once, ready or not.                            *)
(***************************************************************************)
EXTENDS DriveTable

CONSTANTS Device,    \* the devices that may be attached
          Garbage    \* an identification block read before the device is ready

VARIABLES
  pc, pos, count, type,   \* ide_init: where it is, (i, j), and its locals
  g_ide_devices,
  dev, state,             \* the device of each position, and what it is doing
  missed, early           \* history: packet devices whose status, whose data came late

vars == <<pc, pos, count, type, g_ide_devices, dev, state, missed, early>>

Packet == {"ATAPI", "SATAPI"}

\* A device's identification block holds its name, neither empty nor longer than the
\* field for it, in the order of the standard, and both of its sizes.
ASSUME DeviceAssumption ==
  /\ ModelLength \in Nat /\ ModelLength % 2 = 0
  /\ \A d \in Device :
        /\ d.kind \in {"none", "floating", "other", "faulty", "ATA"} \cup Packet
        /\ d.size = IF d.lba48 THEN d.maxExt ELSE d.max
        /\ d.label \in Seq(STRING) /\ Len(d.label) \in 1 .. ModelLength
        /\ d.label[Len(d.label)] # Space
        /\ d.model = Block(d.label)

Init == /\ pc = "select" /\ pos = 1 /\ count = 0 /\ type = "ATA"
        /\ g_ide_devices = [d \in Slots |-> Unused]
        /\ dev \in [Positions -> Device]
        /\ state = [p \in Positions |-> "idle"]
        /\ missed = {} /\ early = {}

\* What the status register shows of the position that is selected.
Status == CASE dev[pos].kind = "none"     -> "zero"
            [] dev[pos].kind = "floating" -> "ERR"
            [] OTHER                      -> state[pos]

Signature(d) == CASE d.kind = "ATAPI"    -> <<20, 235>>    \* 0x14, 0xEB
                  [] d.kind = "SATAPI"   -> <<105, 150>>   \* 0x69, 0x96
                  [] d.kind = "floating" -> <<255, 255>>
                  [] OTHER               -> <<60, 195>>

\* A plausible slip: the loop bound is one too large.
Continue_Fifth == IF pos = 5 THEN pc' = "done" /\ UNCHANGED pos
                  ELSE pc' = "select" /\ pos' = pos + 1

\* On to the next position, or out of both loops.
Continue == IF pos = 4 THEN pc' = "done" /\ UNCHANGED pos
            ELSE pc' = "select" /\ pos' = pos + 1

\* (I), (II): the slot is marked free, the drive selected and sent IDENTIFY.
Identify == /\ pc = "select"
            /\ g_ide_devices' = [g_ide_devices EXCEPT ![count].reserved = 0]
            /\ type' = "ATA"
            /\ state' = [state EXCEPT ![pos] = "identify"]
            /\ pc' = "first"
            /\ UNCHANGED <<pos, count, dev, missed, early>>

\* (III): a status of zero means that there is no device.
FirstStatus ==
  /\ pc = "first"
  /\ \/ Status = "zero" /\ Continue /\ UNCHANGED missed
     \/ dev[pos].kind \in Packet /\ state[pos] = "identify"
        /\ Continue /\ missed' = missed \cup {pos}
     \/ Status # "zero" /\ pc' = "poll" /\ UNCHANGED <<pos, missed>>
  /\ UNCHANGED <<count, type, g_ide_devices, dev, state, early>>

\* A plausible slip: the loop waits for DRQ and never looks at ERR.
Poll_WaitsForDRQ ==
  /\ pc = "poll" /\ Status = "DRQ"
  /\ pc' = "read"
  /\ UNCHANGED <<pos, count, type, g_ide_devices, dev, state, missed, early>>

\* The loop runs until ERR, or DRQ without BSY.
Poll == /\ pc = "poll" /\ Status \in {"ERR", "DRQ"}
        /\ pc' = IF Status = "ERR" THEN "signature" ELSE "read"
        /\ UNCHANGED <<pos, count, type, g_ide_devices, dev, state, missed, early>>

\* (IV): a packet device is known by its signature and sent IDENTIFY PACKET.
Probe == /\ pc = "signature"
         /\ IF Signature(dev[pos]) \in {<<20, 235>>, <<105, 150>>}
            THEN /\ type' = "ATAPI" /\ pc' = "read"
                 /\ state' = [state EXCEPT ![pos] = "packet"]
                 /\ UNCHANGED pos
            ELSE Continue /\ UNCHANGED <<type, state>>
         /\ UNCHANGED <<count, g_ide_devices, dev, missed, early>>

\* A plausible slip: the slot is taken again by the next drive.
NextSlot_Same == count
NextSlot == count + 1

\* (V) to (VIII): 128 long words from the data register, and the slot is filled.
ReadIdentification ==
  /\ pc = "read"
  /\ LET ident == IF state[pos] = "DRQ" THEN dev[pos] ELSE Garbage
     IN  g_ide_devices' = [g_ide_devices EXCEPT ![count] = Entry(pos, type, ident)]
  /\ early' = IF state[pos] = "DRQ" THEN early ELSE early \cup {pos}
  /\ state' = IF state[pos] = "DRQ" THEN [state EXCEPT ![pos] = "idle"] ELSE state
  /\ count' = NextSlot
  /\ Continue
  /\ UNCHANGED <<type, dev, missed>>

Driver == Identify \/ FirstStatus \/ Poll \/ Probe \/ ReadIdentification

\* A device ends the command it was sent.
Answer(p) ==
  /\ dev[p].kind \notin {"none", "floating"} /\ state[p] \in {"identify", "packet"}
  /\ state' = [state EXCEPT ![p] =
                 CASE dev[p].kind = "faulty" -> "DF"
                   [] dev[p].kind = "ATA" \/ @ = "packet" -> "DRQ"
                   [] OTHER -> "ERR"]
  /\ UNCHANGED <<pc, pos, count, type, g_ide_devices, dev, missed, early>>

Next == Driver \/ \E p \in Positions : Answer(p)

Spec == Init /\ [][Next]_vars

\* The kernel runs nothing else meanwhile, and every device ends its command some
\* day.
FairSpec == Spec /\ WF_vars(Driver) /\ \A p \in Positions : WF_vars(Answer(p))

-----------------------------------------------------------------------------
\* The values of the loop's locals; the slot being filled is inside the table.
TypeOK == /\ pc \in {"select", "first", "poll", "signature", "read", "done"}
          /\ pos \in Positions /\ type \in {"ATA", "ATAPI"}
          /\ count \in 0 .. pos /\ (pc # "done" => count < pos)
          /\ state \in [Positions -> {"idle", "identify", "packet", "ERR", "DRQ", "DF"}]
          /\ DOMAIN g_ide_devices = Slots
          /\ missed \subseteq Positions /\ early \subseteq Positions

\* The positions a drive was found at: every disk, and the packet devices whose
\* status was there in time.
Found == {p \in Positions : dev[p].kind \in {"ATA"} \cup Packet} \ missed

\* When detection is over each drive has one slot, in the order of the positions,
\* with its own type, channel, position, size and name, whatever is missing between
\* them and however long the others took.  A packet device that was read too early
\* has its slot all the same, but not its name and size.
TableListsDrives ==
  pc = "done" =>
    /\ \A p \in Found :
          LET slot == g_ide_devices[SlotOf(Found, p)]
          IN  IF p \in early
              THEN [slot EXCEPT !.size = 0, !.model = <<>>]
                     = [RecordOf(dev, p) EXCEPT !.size = 0, !.model = <<>>]
              ELSE slot = RecordOf(dev, p)
    /\ \A d \in Slots : d >= Cardinality(Found) => g_ide_devices[d] = Unused

\* Only packet devices can be missed or misread: the disk the kernel keeps its files on
\* is found by its name in whatever company it is, unless an earlier slot shows the same:
\* that of a drive with that name, or of a packet device that was read too early.
DiskFoundByName ==
  pc = "done" =>
    \A p \in Positions :
      dev[p].kind = "ATA" =>
        LET got == ata_get_drive_by_model(g_ide_devices, dev[p].label)
        IN  /\ got \in 0 .. SlotOf(Found, p)
            /\ got < SlotOf(Found, p) =>
                 \E q \in Found : /\ q < p /\ got = SlotOf(Found, q)
                                  /\ q \in early \/ dev[q].label = dev[p].label

\* Detection ends if no device is faulty: the polling loop has no bound of its own.
DetectionEnds == (\A p \in Positions : dev[p].kind # "faulty") ~> pc = "done"
=============================================================================
