------------------------------ MODULE IdePorts ------------------------------
(***************************************************************************)
(* How libkern/ide.c reaches the registers of a drive: which port each     *)
(* register number stands for, and the writes with which ide_ata_access    *)
(* puts a command into the task file.                                      *)
(*                                                                         *)
(* ata_init passes 0x3F6 and 0x376 as the control ports, and register 0x0C *)
(* is mapped to control + 0x0C - 0x0A: what is meant for the device        *)
(* control register, the bit that turns the disk's interrupts off          *)
(* included, goes two ports further, where no disk listens.                *)
(***************************************************************************)
EXTENDS LbaModes, Sequences

\* What ata_init hands to ide_init.
g_ide_channels == [ch \in 0..1 |->
  IF ch = 0 THEN [base |-> 496, control |-> 1014]    \* 0x1F0, 0x3F6
            ELSE [base |-> 368, control |-> 886]]    \* 0x170, 0x376
bm_ide == 0

NoIntr == 2      \* no_intr, the value meant for the device control register

DATA      == 0
SECCOUNT0 == 2
LBA0      == 3
LBA1      == 4
LBA2      == 5
HDDEVSEL  == 6
COMMAND   == 7
STATUS    == 7
SECCOUNT1 == 8
LBA3      == 9
LBA4      == 10
LBA5      == 11
CONTROL   == 12

\* Registers 8 to 0x0B are the second byte of the two-deep ones.
HighOrder(reg) == reg \in 8..11

\* A plausible slip: the high-order registers are taken to follow the low ones.
Port_NoFold(ch, reg) ==
  LET at == g_ide_channels[ch]
  IN  IF reg < 12 THEN at.base + reg
      ELSE IF reg < 14 THEN at.control + reg - 10 ELSE bm_ide + reg - 14

Port(ch, reg) ==
  LET at == g_ide_channels[ch]
  IN  IF reg < 8 THEN at.base + reg
      ELSE IF HighOrder(reg) THEN at.base + reg - 6
      ELSE IF reg < 14 THEN at.control + reg - 10 ELSE bm_ide + reg - 14

Out(port, data) == [op |-> "out", port |-> port, data |-> data]
In(port) == [op |-> "in", port |-> port, data |-> 0]

\* An access to a high-order register is put between two writes of CONTROL.
Bracket(ch, reg, accesses) ==
  IF HighOrder(reg)
  THEN <<Out(Port(ch, CONTROL), 128 + NoIntr)>> \o accesses
         \o <<Out(Port(ch, CONTROL), NoIntr)>>
  ELSE accesses

ide_read_register(ch, reg) == Bracket(ch, reg, <<In(Port(ch, reg))>>)

ide_write_register(ch, reg, data) == Bracket(ch, reg, <<Out(Port(ch, reg), data)>>)

ide_read_buffer(ch, reg, quads) ==
  Bracket(ch, reg, [k \in 1..quads |-> In(Port(ch, reg))])

CommandOf(mode, dir) ==
  CASE dir = "read"  /\ mode # "LBA48" -> 32     \* READ_PIO
    [] dir = "read"  /\ mode = "LBA48" -> 36     \* READ_PIO_EXT
    [] dir = "write" /\ mode # "LBA48" -> 48     \* WRITE_PIO
    [] dir = "write" /\ mode = "LBA48" -> 52     \* WRITE_PIO_EXT

\* The accesses of ide_ata_access up to and with the command; the wait for BSY
\* reads the status once when the drive is idle.
ide_ata_access(x) ==
  LET tf     == TaskFile(x.lba, x.lbaCapable)
      mode   == lba_mode(x.lba, x.lbaCapable)
      set(r, v) == ide_write_register(x.channel, r, v)
      select == (IF tf.lba THEN 224 ELSE 160) + 16 * x.drive + tf.head
  IN  set(CONTROL, NoIntr)
      \o ide_read_register(x.channel, STATUS)
      \o set(HDDEVSEL, select)
      \o (IF mode = "LBA48"
          THEN set(SECCOUNT1, 0) \o set(LBA3, tf.io3) \o set(LBA4, 0) \o set(LBA5, 0)
          ELSE <<>>)
      \o set(SECCOUNT0, x.num)
      \o set(LBA0, tf.io0) \o set(LBA1, tf.io1) \o set(LBA2, tf.io2)
      \o set(COMMAND, CommandOf(mode, x.dir))

-----------------------------------------------------------------------------
(***************************************************************************)
(* What the drives of a channel take from a sequence of port accesses.     *)
(* Each of the registers 2 to 5 remembers the value before the last one.   *)
(***************************************************************************)
TakenBy(ch, accesses, reg) ==
  {k \in 1 .. Len(accesses) : /\ accesses[k].op = "out"
                              /\ accesses[k].port = g_ide_channels[ch].base + reg}

\* What the last access with one of these numbers wrote, 0 if there is none.
Written(accesses, ks) ==
  IF ks = {} THEN 0 ELSE accesses[CHOOSE k \in ks : \A j \in ks : j <= k].data

Newest(ch, accesses, reg) == Written(accesses, TakenBy(ch, accesses, reg))
Before(ch, accesses, reg) ==
  LET ks == TakenBy(ch, accesses, reg)
  IN  Written(accesses, {k \in ks : \E j \in ks : k < j})

Ext(command) == command \in {36, 52}

\* The command as the selected drive executes it.
Executed(ch, accesses) ==
  LET new(r)  == Newest(ch, accesses, r)
      command == new(COMMAND)
  IN  [dir   |-> IF command \in {32, 36} THEN "read" ELSE "write",
       drive |-> (new(HDDEVSEL) \div 16) % 2,
       num   |-> new(SECCOUNT0) + 256 * (IF Ext(command)
                                         THEN Before(ch, accesses, SECCOUNT0) ELSE 0),
       high  |-> IF Ext(command) THEN <<Before(ch, accesses, LBA1),
                                        Before(ch, accesses, LBA2)>> ELSE <<0, 0>>,
       lba   |-> Decoded([ext  |-> Ext(command),
                          lba  |-> (new(HDDEVSEL) \div 64) % 2 = 1,
                          head |-> new(HDDEVSEL) % 16,
                          io0  |-> new(LBA0), io1 |-> new(LBA1), io2 |-> new(LBA2),
                          io3  |-> Before(ch, accesses, LBA0)])]
=============================================================================
