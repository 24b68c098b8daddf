------------------------------ MODULE LbaModes ------------------------------
(***************************************************************************)
(* How ide_ata_access puts a logical block address into the task file of   *)
(* an ATA drive (libkern/ide.c), and what address the drive reads there.   *)
(* The driver picks one of three modes; every register is a byte.          *)
(***************************************************************************)
EXTENDS Integers

Byte == 0..255

LBA28Limit == 268435456 \* 0x10000000

\* The three modes, by the capability bit of the drive (features & 0x200).
lba_mode(lba, lbaCapable) ==
  IF lba >= LBA28Limit THEN "LBA48" ELSE IF lbaCapable THEN "LBA28" ELSE "CHS"

\* Weights of the third and the fourth byte of a word.
W2 == 65536
W3 == 16777216

\* The byte of n at weight w: (n & (0xFF * w)) / w.
ByteOf(n, w) == (n \div w) % 256

\* Cylinder, head and sector of an address; cyl is a uint16_t, head and sect
\* are uint8_t.
CHS(lba) ==
  LET sect == (lba % 63) + 1
      rest == lba + 1 - sect
  IN  [sect |-> sect,
       cyl  |-> (rest \div (16 * 63)) % W2,
       head |-> (rest % (16 * 63)) \div 63]

\* lba_io[0..3] and the low nibble of HDDEVSEL (lba_io[4], lba_io[5] are 0); lba
\* says whether bit 6 of HDDEVSEL selects LBA addressing.
TaskFile(lba, lbaCapable) ==
  IF lba_mode(lba, lbaCapable) = "LBA48"
    THEN [ext |-> TRUE, lba |-> TRUE, head |-> 0,
          io0 |-> ByteOf(lba, 1),     io1 |-> ByteOf(lba, 256),
          io2 |-> ByteOf(lba, W2), io3 |-> ByteOf(lba, W3)]
  ELSE IF lba_mode(lba, lbaCapable) = "LBA28"
    THEN [ext |-> FALSE, lba |-> TRUE, head |-> (lba \div W3) % 16,
          io0 |-> ByteOf(lba, 1),     io1 |-> ByteOf(lba, 256),
          io2 |-> ByteOf(lba, W2), io3 |-> 0]
  ELSE   [ext |-> FALSE, lba |-> FALSE, head |-> CHS(lba).head,
          io0 |-> CHS(lba).sect,
          io1 |-> ByteOf(CHS(lba).cyl, 1), io2 |-> ByteOf(CHS(lba).cyl, 256),
          io3 |-> 0]

\* The address the drive understands: under an EXT command the previous contents
\* of the registers are the high bytes; otherwise HDDEVSEL holds the top bits, or
\* the head of a geometry of 16 heads and 63 sectors a track.
Decoded(tf) ==
  LET low == tf.io0 + 256 * tf.io1 + W2 * tf.io2
  IN  IF tf.ext THEN low + W3 * tf.io3
      ELSE IF tf.lba THEN low + W3 * tf.head
      ELSE ((tf.io1 + 256 * tf.io2) * 16 + tf.head) * 63 + tf.io0 - 1

\* Addresses a CHS task file can express: W2 cylinders of 16 heads.
CHSLimit == W2 * 16 * 63
=============================================================================
