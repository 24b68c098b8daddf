----------------------------- MODULE PureProofs -----------------------------
(***************************************************************************)
(* What the pure parts compute, for every input: the task file and the     *)
(* ports carry the command and its 32-bit address to the drive, the        *)
(* descriptor tables say what they were told, interrupt frames are seen    *)
(* and restored, numbers are spelled, strings and formats are the texts    *)
(* they should be, and a file of a FAT volume is printed.                  *)
(*                                                                         *)
(* Loops and recursive functions are followed by induction on their turns. *)
(* The theorems of induction have an operator as a parameter, which no     *)
(* prover here instantiates; HasLeast states what is needed of it for a    *)
(* set, and Recursion, Induction, LoopExists and LoopsAgree follow.        *)
(***************************************************************************)
EXTENDS Pure, TLAPS, SequenceTheorems, FiniteSetTheorems, WellFoundedInduction

-----------------------------------------------------------------------------
(* Arithmetic of bytes.  The weights W2 and W3 are expanded only in *)
(* the leaves of SMT; Zenon, which counts in unary, sees their names.      *)

\* A byte of a number is a difference of successive quotients.
LEMMA ByteIsDifference ==
  ASSUME NEW n \in Nat
  PROVE  /\ ByteOf(n, 1)     = n - 256 * (n \div 256)
         /\ ByteOf(n, 256)   = n \div 256 - 256 * (n \div W2)
         /\ ByteOf(n, W2) = n \div W2 - 256 * (n \div W3)
<1>1. ByteOf(n, 1) = n - 256 * (n \div 256)
  BY SMT DEF W2, W3, ByteOf
<1>2. ByteOf(n, 256) = n \div 256 - 256 * (n \div W2)
  BY SMT DEF W2, W3, ByteOf
<1>3. ByteOf(n, W2) = n \div W2 - 256 * (n \div W3)
  BY SMT DEF W2, W3, ByteOf
<1> QED  BY <1>1, <1>2, <1>3, SMT

\* The top byte of a 32-bit number is all that is left of it.
LEMMA TopByte ==
  ASSUME NEW n \in Address
  PROVE  ByteOf(n, W3) = n \div W3
<1> DEFINE q == n \div W3
<1>1. q \in Nat
  BY SMT DEF W2, W3, Address, Byte
<1>2. q < 256
  BY SMT DEF W2, W3, Address, Byte
<1> HIDE DEF q
<1>3. q % 256 = q
  BY <1>1, <1>2, SMT DEF W2, W3
<1> QED  BY <1>3, SMT DEF W2, W3, ByteOf, q

\* Every byte is a byte.
LEMMA ByteRange ==
  ASSUME NEW n \in Nat
  PROVE  /\ ByteOf(n, 1) \in Byte /\ ByteOf(n, 256) \in Byte
         /\ ByteOf(n, W2) \in Byte /\ ByteOf(n, W3) \in Byte
<1>1. ByteOf(n, 1) \in Byte
  BY SMT DEF W2, W3, ByteOf, Byte
<1>2. ByteOf(n, 256) \in Byte
  BY SMT DEF W2, W3, ByteOf, Byte
<1>3. ByteOf(n, W2) \in Byte
  BY SMT DEF W2, W3, ByteOf, Byte
<1>4. ByteOf(n, W3) \in Byte
  BY SMT DEF W2, W3, ByteOf, Byte
<1> QED  BY <1>1, <1>2, <1>3, <1>4, SMT DEF W2, W3

-----------------------------------------------------------------------------
(* Cylinder, head and sector.                                               *)

\* The address without its sector is a whole number of tracks, q.
LEMMA CHSByTrack ==
  ASSUME NEW lba \in Nat
  PROVE  LET q == lba \div 63 IN
         /\ q \in Nat
         /\ CHS(lba).sect = lba - 63 * q + 1
         /\ CHS(lba).sect \in 1..63
         /\ CHS(lba).head = q % 16
         /\ CHS(lba).cyl = (q \div 16) % W2
<1> DEFINE q == lba \div 63
           sect == (lba % 63) + 1
<1>1. q \in Nat
  BY SMT DEF W2, W3
<1>2. sect = lba - 63 * q + 1
  BY SMT DEF W2, W3
<1>3. sect \in 1..63
  BY SMT DEF W2, W3
<1>4. CHS(lba) = [sect |-> sect,
                  cyl  |-> ((lba + 1 - sect) \div (16 * 63)) % W2,
                  head |-> ((lba + 1 - sect) % (16 * 63)) \div 63]
  BY SMT DEF W2, W3, CHS
<1> HIDE DEF q, sect
<1>5. lba + 1 - sect = 63 * q
  BY <1>1, <1>2, SMT DEF W2, W3
<1>6. (63 * q) \div (16 * 63) = q \div 16
  BY <1>1, SMT DEF W2, W3
<1>7. ((63 * q) % (16 * 63)) \div 63 = q % 16
  BY <1>1, SMT DEF W2, W3
<1>8. /\ CHS(lba).sect = sect
      /\ CHS(lba).head = q % 16
      /\ CHS(lba).cyl = (q \div 16) % W2
  BY <1>4, <1>5, <1>6, <1>7, SMT DEF W2, W3
<1> QED  BY <1>1, <1>2, <1>3, <1>8, SMT DEF W2, W3, q

\* Cylinder, head and sector are in the ranges of the geometry.
LEMMA CHSRanges ==
  ASSUME NEW lba \in Nat
  PROVE  /\ CHS(lba).sect \in 1..63
         /\ CHS(lba).head \in 0..15
         /\ CHS(lba).cyl \in Nat /\ CHS(lba).cyl < W2
<1> DEFINE q == lba \div 63
<1>1. /\ q \in Nat
      /\ CHS(lba).sect \in 1..63
      /\ CHS(lba).head = q % 16
      /\ CHS(lba).cyl = (q \div 16) % W2
  BY CHSByTrack, Zenon
<1> HIDE DEF q
<1>2. q % 16 \in 0..15
  BY <1>1, SMT DEF W2, W3
<1>3. (q \div 16) % W2 \in Nat /\ (q \div 16) % W2 < W2
  BY <1>1, SMT DEF W2, W3
<1> QED  BY <1>1, <1>2, <1>3, SMT

\* They determine the address as long as the cylinder number fits its 16 bits.
LEMMA CHSAddress ==
  ASSUME NEW lba \in Nat, lba < CHSLimit
  PROVE  lba = (CHS(lba).cyl * 16 + CHS(lba).head) * 63 + CHS(lba).sect - 1
<1> DEFINE q == lba \div 63
<1>1. /\ q \in Nat
      /\ CHS(lba).sect = lba - 63 * q + 1
      /\ CHS(lba).head = q % 16
      /\ CHS(lba).cyl = (q \div 16) % W2
  BY CHSByTrack, Zenon
<1>2. q < 1048576
  BY SMT DEF W2, W3, CHSLimit
<1> HIDE DEF q
<1>3. q \div 16 \in Nat /\ q \div 16 < W2
  BY <1>1, <1>2, SMT DEF W2, W3
<1>4. (q \div 16) % W2 = q \div 16
  BY <1>3, SMT DEF W2, W3
<1>5. q % 16 = q - 16 * (q \div 16)
  BY <1>1, SMT DEF W2, W3
<1>6. CHS(lba).cyl * 16 + CHS(lba).head = q
  BY <1>1, <1>3, <1>4, <1>5, SMT DEF W2, W3
<1> QED  BY <1>1, <1>6, SMT DEF W2, W3

-----------------------------------------------------------------------------
(* The task file, mode by mode.                                             *)

\* The task file of each mode.
LEMMA TaskFileLBA48 ==
  ASSUME NEW lba \in Address, NEW cap \in BOOLEAN, lba >= LBA28Limit
  PROVE  TaskFile(lba, cap) =
           [ext |-> TRUE, lba |-> TRUE, head |-> 0,
            io0 |-> ByteOf(lba, 1),     io1 |-> ByteOf(lba, 256),
            io2 |-> ByteOf(lba, W2), io3 |-> ByteOf(lba, W3)]
BY SMT DEF W2, W3, TaskFile, lba_mode

\* LBA28: no EXT command, four address bits in the head register.
LEMMA TaskFileLBA28 ==
  ASSUME NEW lba \in Address, ~ (lba >= LBA28Limit)
  PROVE  TaskFile(lba, TRUE) =
           [ext |-> FALSE, lba |-> TRUE, head |-> (lba \div W3) % 16,
            io0 |-> ByteOf(lba, 1),     io1 |-> ByteOf(lba, 256),
            io2 |-> ByteOf(lba, W2), io3 |-> 0]
BY SMT DEF W2, W3, TaskFile, lba_mode

\* CHS: the sector, the two bytes of the cylinder, the head.
LEMMA TaskFileCHS ==
  ASSUME NEW lba \in Address, ~ (lba >= LBA28Limit)
  PROVE  TaskFile(lba, FALSE) =
           [ext |-> FALSE, lba |-> FALSE, head |-> CHS(lba).head,
            io0 |-> CHS(lba).sect,
            io1 |-> ByteOf(CHS(lba).cyl, 1), io2 |-> ByteOf(CHS(lba).cyl, 256),
            io3 |-> 0]
BY SMT DEF W2, W3, TaskFile, lba_mode

\* The drive decodes the address the driver was given, in all three modes.  A
\* drive without the LBA capability must be addressed below CHSLimit: above it
\* the 16-bit cylinder number has lost bits.
THEOREM DriveDecodesLba ==
  ASSUME NEW lba \in Address, NEW cap \in BOOLEAN,
         cap \/ lba >= LBA28Limit \/ lba < CHSLimit
  PROVE  Decoded(TaskFile(lba, cap)) = lba
<1> DEFINE a == lba \div 256
           b == lba \div W2
           t == lba \div W3
<1>1. lba \in Nat /\ a \in Nat /\ b \in Nat /\ t \in Nat
  BY SMT DEF W2, W3, Address, Byte
<1>2. /\ ByteOf(lba, 1) = lba - 256 * a
      /\ ByteOf(lba, 256) = a - 256 * b
      /\ ByteOf(lba, W2) = b - 256 * t
      /\ ByteOf(lba, W3) = t
  BY <1>1, ByteIsDifference, TopByte, SMT
<1>3. CASE lba >= LBA28Limit
  <2>1. Decoded(TaskFile(lba, cap)) =
          ByteOf(lba, 1) + 256 * ByteOf(lba, 256) + W2 * ByteOf(lba, W2)
            + W3 * ByteOf(lba, W3)
    BY <1>3, TaskFileLBA48, SMT DEF W2, W3, Decoded
  <2> HIDE DEF a, b, t
  <2> QED  BY <1>1, <1>2, <2>1, SMT DEF W2, W3
<1>4. CASE ~ (lba >= LBA28Limit) /\ cap = TRUE
  <2>0. TaskFile(lba, cap) =
           [ext |-> FALSE, lba |-> TRUE, head |-> (lba \div W3) % 16,
            io0 |-> ByteOf(lba, 1),     io1 |-> ByteOf(lba, 256),
            io2 |-> ByteOf(lba, W2), io3 |-> 0]
    BY <1>4, TaskFileLBA28, Zenon
  <2>1. Decoded(TaskFile(lba, cap)) =
          ByteOf(lba, 1) + 256 * ByteOf(lba, 256) + W2 * ByteOf(lba, W2)
            + W3 * (t % 16)
    BY <2>0, SMT DEF Decoded
  <2>2. t < 16
    BY <1>1, <1>4, SMT DEF W2, W3, LBA28Limit
  <2> HIDE DEF a, b, t
  <2>3. t % 16 = t
    BY <1>1, <2>2, SMT DEF W2, W3
  <2> QED  BY <1>1, <1>2, <2>1, <2>3, SMT DEF W2, W3
<1>5. CASE ~ (lba >= LBA28Limit) /\ cap = FALSE
  <2> DEFINE cyl == CHS(lba).cyl
  <2>1. lba < CHSLimit
    BY <1>5
  <2>2. cyl \in Nat /\ cyl < W2
    BY <1>1, CHSRanges, Zenon
  <2>0. TaskFile(lba, cap) =
           [ext |-> FALSE, lba |-> FALSE, head |-> CHS(lba).head,
            io0 |-> CHS(lba).sect,
            io1 |-> ByteOf(CHS(lba).cyl, 1), io2 |-> ByteOf(CHS(lba).cyl, 256),
            io3 |-> 0]
    BY <1>5, TaskFileCHS, Zenon
  <2>3. Decoded(TaskFile(lba, cap)) =
          ((ByteOf(cyl, 1) + 256 * ByteOf(cyl, 256)) * 16 + CHS(lba).head) * 63
             + CHS(lba).sect - 1
    BY <2>0, SMT DEF Decoded
  <2>4. ByteOf(cyl, 1) + 256 * ByteOf(cyl, 256) = cyl
    <3> HIDE DEF cyl
    <3>1. cyl \div W2 = 0
      BY <2>2, SMT DEF W2, W3
    <3>2. cyl \div 256 \in Nat
      BY <2>2, SMT DEF W2, W3
    <3>3. /\ ByteOf(cyl, 1) = cyl - 256 * (cyl \div 256)
          /\ ByteOf(cyl, 256) = cyl \div 256 - 256 * (cyl \div W2)
      BY <2>2, ByteIsDifference, SMT
    <3> QED  BY <2>2, <3>1, <3>2, <3>3, SMT DEF W2, W3
  <2>5. Decoded(TaskFile(lba, cap)) =
          (CHS(lba).cyl * 16 + CHS(lba).head) * 63 + CHS(lba).sect - 1
    BY <2>3, <2>4, Zenon
  <2> QED  BY <1>1, <2>1, <2>5, CHSAddress, Zenon
<1> QED  BY <1>3, <1>4, <1>5, Zenon

\* Every value the driver writes fits the register it is written to.
THEOREM RegistersAreBytes ==
  ASSUME NEW lba \in Address, NEW cap \in BOOLEAN
  PROVE  /\ TaskFile(lba, cap).head \in 0..15
         /\ TaskFile(lba, cap).io0 \in Byte
         /\ TaskFile(lba, cap).io1 \in Byte
         /\ TaskFile(lba, cap).io2 \in Byte
         /\ TaskFile(lba, cap).io3 \in Byte
<1>1. lba \in Nat
  BY Zenon DEF Address
<1>2. /\ ByteOf(lba, 1) \in Byte /\ ByteOf(lba, 256) \in Byte
      /\ ByteOf(lba, W2) \in Byte /\ ByteOf(lba, W3) \in Byte
  BY <1>1, ByteRange, Zenon
<1>3. CASE lba >= LBA28Limit
  BY <1>2, <1>3, TaskFileLBA48, SMT
<1>4. CASE ~ (lba >= LBA28Limit) /\ cap = TRUE
  <2>1. (lba \div W3) % 16 \in 0..15
    BY <1>1, SMT DEF W2, W3
  <2>2. 0 \in Byte
    BY SMT DEF W2, W3, Byte
  <2>3. TaskFile(lba, cap) =
           [ext |-> FALSE, lba |-> TRUE, head |-> (lba \div W3) % 16,
            io0 |-> ByteOf(lba, 1),     io1 |-> ByteOf(lba, 256),
            io2 |-> ByteOf(lba, W2), io3 |-> 0]
    BY <1>4, TaskFileLBA28, Zenon
  <2> QED  BY <1>2, <2>1, <2>2, <2>3, SMT
<1>5. CASE ~ (lba >= LBA28Limit) /\ cap = FALSE
  <2>1. /\ CHS(lba).cyl \in Nat
        /\ CHS(lba).head \in 0..15
        /\ CHS(lba).sect \in 1..63
    BY <1>1, CHSRanges, Zenon
  <2>2. ByteOf(CHS(lba).cyl, 1) \in Byte /\ ByteOf(CHS(lba).cyl, 256) \in Byte
    BY <2>1, ByteRange, Zenon
  <2>3. 0 \in Byte /\ CHS(lba).sect \in Byte
    BY <2>1, SMT DEF W2, W3, Byte
  <2>4. TaskFile(lba, cap) =
           [ext |-> FALSE, lba |-> FALSE, head |-> CHS(lba).head,
            io0 |-> CHS(lba).sect,
            io1 |-> ByteOf(CHS(lba).cyl, 1), io2 |-> ByteOf(CHS(lba).cyl, 256),
            io3 |-> 0]
    BY <1>5, TaskFileCHS, Zenon
  <2> QED  BY <2>1, <2>2, <2>3, <2>4, SMT
<1> QED  BY <1>3, <1>4, <1>5, Zenon

-----------------------------------------------------------------------------
(* The inputs.                                                             *)

\* What a part is given.
InputInv == /\ part = "lba" => input \in Accesses
            /\ part = "gdt" => input \in Segments
            /\ part = "idt" => input \in StubTables
            /\ part = "frame" => input \in Interruptions
            /\ part = "fat" => input \in Files
            /\ part = "string" => input \in Memories
            /\ part = "format" => input \in Formats
            /\ part = "number" => input \in Numbers
            /\ part = "itoa" => input \in Ints

\* A part is given one of its inputs, once.
LEMMA AlwaysGiven == Spec => []InputInv
<1>1. Init => InputInv
  BY DEF Init, InputInv
<1>2. InputInv /\ [Next]_vars => InputInv'
  BY DEF InputInv, vars, Next, Give, Access, Load, Boot, Interrupt, ReadFile,
         CopyString, Show, Convert, Spell
<1> QED  BY <1>1, <1>2, PTL DEF Spec

-----------------------------------------------------------------------------
(* Segments and gates.                                                     *)

\* How the processor reads the fields of a segment descriptor.
LEMMA SegmentReads ==
  \A e : /\ Segment(e).base = Word(e.base_high * 256 + e.base_middle, e.base_low)
         /\ Segment(e).limit = Word(e.granularity % 16, e.segment_limit)
         /\ Segment(e).flags = e.granularity \div 16
         /\ Segment(e).dpl = (e.access \div 32) % 4
         /\ Segment(e).code <=> (e.access \div 8) % 2 = 1
         /\ Segment(e).present <=> e.access \div 128 = 1
BY Zenon DEF Segment

\* How it reads those of a gate.
LEMMA GateReads ==
  \A e : /\ Gate(e).offset = Word(e.base_high, e.base_low)
         /\ Gate(e).selector = e.segment_selector
         /\ Gate(e).clearsIF <=> e.type % 16 = 14
         /\ Gate(e).present <=> e.type \div 128 = 1
BY Zenon DEF Gate

\* A half is its two bytes.
LEMMA HalfBytes ==
  ASSUME NEW n \in Half
  PROVE  (n \div 256) * 256 + (n % 256) = n
<1>1. n \in Nat
  BY DEF Half
<1> DEFINE q == n \div 256
           r == n % 256
<1>2. q \in Nat /\ r \in Nat /\ r = n - 256 * q
  BY <1>1, SMT
<1> HIDE DEF q, r
<1>3. q * 256 + r = n
  BY <1>1, <1>2, SMT
<1> QED  BY <1>3, Zenon DEF q, r

\* A byte and the nibbles it is made of.
LEMMA ByteNibbles ==
  ASSUME NEW h \in Half, NEW g \in Byte
  PROVE  LET b == (h % 16) + 16 * (g \div 16)
         IN  b % 16 = h % 16 /\ b \div 16 = g \div 16
<1>0. h \in Nat /\ g \in Nat
  BY DEF Half, Byte
<1> DEFINE q == g \div 16
           r == h % 16
<1>1. q \in Nat /\ r \in 0..15
  BY <1>0, SMT
<1> HIDE DEF q, r
<1>2. (r + 16 * q) % 16 = r /\ (r + 16 * q) \div 16 = q
  BY <1>1
<1> QED  BY <1>2 DEF q, r

\* The processor finds the base, the flags and the low 20 bits of the limit that
\* gdt_set_entry was given, whatever they are.
THEOREM SegmentsAlwaysDecode == Spec => []SegmentsDecode
<1>1. InputInv => SegmentsDecode
  <2> SUFFICES ASSUME part = "gdt", input \in Segments
               PROVE  SegmentsDecode
    BY DEF InputInv, SegmentsDecode
  <2> DEFINE base  == input.base
             limit == input.limit
             gran  == input.gran
             e     == gdt_set_entry(base, limit, 154, gran)
             s     == Segment(e)
  <2>1. base \in Words /\ limit \in Words /\ gran \in Byte
    BY PureAssumption
  <2> HIDE DEF base, limit, gran
  <2>2. e = [segment_limit |-> limit.lo, base_low |-> base.lo,
             base_middle |-> base.hi % 256, access |-> 154,
             granularity |-> (limit.hi % 16) + 16 * (gran \div 16),
             base_high |-> base.hi \div 256]
    BY Zenon DEF gdt_set_entry, base_high
  <2>3. /\ s.base = Word((base.hi \div 256) * 256 + (base.hi % 256), base.lo)
        /\ s.limit = Word(((limit.hi % 16) + 16 * (gran \div 16)) % 16, limit.lo)
        /\ s.flags = ((limit.hi % 16) + 16 * (gran \div 16)) \div 16
    <3>1. /\ e.base_high = base.hi \div 256 /\ e.base_middle = base.hi % 256
          /\ e.base_low = base.lo /\ e.segment_limit = limit.lo
          /\ e.granularity = (limit.hi % 16) + 16 * (gran \div 16)
      BY <2>2, SMT
    <3> HIDE DEF e
    <3>2. /\ Segment(e).base = Word(e.base_high * 256 + e.base_middle, e.base_low)
          /\ Segment(e).limit = Word(e.granularity % 16, e.segment_limit)
          /\ Segment(e).flags = e.granularity \div 16
      BY SegmentReads, Zenon
    <3> QED  BY <3>1, <3>2, ZenonT(40)
  <2>4. base = [hi |-> base.hi, lo |-> base.lo] /\ base.hi \in Half /\ limit.hi \in Half
    BY <2>1, SMT DEF Words
  <2>5. (base.hi \div 256) * 256 + (base.hi % 256) = base.hi
    BY <2>4, HalfBytes, Zenon
  <2>6. /\ ((limit.hi % 16) + 16 * (gran \div 16)) % 16 = limit.hi % 16
        /\ ((limit.hi % 16) + 16 * (gran \div 16)) \div 16 = gran \div 16
    BY <2>1, <2>4, ByteNibbles, Zenon
  <2>7. /\ s.base = base /\ s.flags = gran \div 16
        /\ s.limit = Word(limit.hi % 16, limit.lo)
    BY <2>3, <2>4, <2>5, <2>6, Zenon DEF Word
  <2> QED  BY <2>7, Zenon DEF SegmentsDecode, base, limit, gran
<1> QED  BY <1>1, AlwaysGiven, PTL

\* The type of a gate: present, for ring 3, an interrupt gate.
LEMMA GateType == OrBit(OrBit(142, 5), 6) = 238
<1>1. 2^5 = 32 /\ 2^6 = 64
  OBVIOUS
<1> QED  BY <1>1 DEF OrBit

\* Segment 1 is the kernel's code, over all addresses.
LEMMA KernelCode ==
  LET code == Segment(g_gdt[1])
  IN  code.present /\ code.code /\ code.dpl = 0 /\ CoversAll(code)
<1> DEFINE e == g_gdt[1]
<1>1. e = gdt_set_entry(Word(0, 0), Word(65535, 65535), 154, 207)
  BY SMT DEF g_gdt
<1>2. gdt_set_entry(Word(0, 0), Word(65535, 65535), 154, 207)
        = [segment_limit |-> 65535, base_low |-> 0, base_middle |-> 0 % 256,
           access |-> 154, granularity |-> (65535 % 16) + 16 * (207 \div 16),
           base_high |-> 0 \div 256]
  BY SMT DEF gdt_set_entry, base_high, Word
<1>3. 0 % 256 = 0 /\ 0 \div 256 = 0 /\ (65535 % 16) + 16 * (207 \div 16) = 207
  BY SMT
<1>4. /\ e.segment_limit = 65535 /\ e.base_low = 0 /\ e.base_middle = 0
      /\ e.access = 154 /\ e.granularity = 207 /\ e.base_high = 0
  BY <1>1, <1>2, <1>3, SMT
<1> HIDE DEF e
<1>5. /\ e.base_high * 256 + e.base_middle = 0 /\ e.base_low = 0
      /\ e.granularity % 16 = 15 /\ (e.access \div 32) % 4 = 0
      /\ (e.access \div 8) % 2 = 1 /\ e.access \div 128 = 1
  BY <1>4, SMT
<1>6. Segment(e).present /\ Segment(e).code /\ Segment(e).dpl = 0
  BY <1>5, SegmentReads, Zenon
<1>7. CoversAll(Segment(e))
  <2>1. /\ Segment(e).base = Word(e.base_high * 256 + e.base_middle, e.base_low)
        /\ Segment(e).limit = Word(e.granularity % 16, e.segment_limit)
    BY SegmentReads, Zenon
  <2> QED  BY <1>4, <1>5, <2>1, SMT DEF CoversAll, Word
<1> QED  BY <1>6, <1>7, Zenon DEF e

\* Every request of the controllers reaches its own stub, wherever the stubs are, in
\* the kernel's code segment and with the interrupts off, under the number the
\* drivers register for.
THEOREM InterruptsAlwaysReachHandlers == Spec => []InterruptsReachHandlers
<1>1. InputInv => InterruptsReachHandlers
  <2> SUFFICES ASSUME input \in StubTables
               PROVE  InterruptsReachHandlers
    BY Zenon DEF InputInv, InterruptsReachHandlers
  <2> DEFINE gate(v) == Gate(g_idt(input)[v])
             flat(g) == LET code == Segment(g_gdt[g.selector \div 8])
                        IN  code.present /\ code.code /\ code.dpl = 0 /\ CoversAll(code)
  <2>1. ASSUME NEW n \in 0..15
        PROVE  Vector(n) = 32 + n /\ Vector(n) \in Vectors
    BY SMT DEF Vector, pic8259_init, Vectors
  <2>2. ASSUME NEW v \in Vectors
        PROVE  /\ gate(v).present /\ gate(v).clearsIF /\ gate(v).offset = input[v]
               /\ gate(v).selector = 8
    <3>1. input[v] \in Words
      BY PureAssumption, Zenon
    <3>2. [hi |-> input[v].hi, lo |-> input[v].lo] = input[v]
      BY <3>1, SMT DEF Words
    <3>3. g_idt(input)[v] = idt_set_entry(input[v], 8, 142)
      BY SMT DEF g_idt
    <3>4. g_idt(input)[v]
            = [base_low |-> input[v].lo, segment_selector |-> 8, zero |-> 0,
               type |-> 238, base_high |-> input[v].hi]
      BY <3>3, GateType, SMT DEF idt_set_entry
    <3>5. 238 \div 128 = 1 /\ 238 % 16 = 14
      BY SMT
    <3> DEFINE e == g_idt(input)[v]
    <3>6. e.type = 238 /\ e.segment_selector = 8
      BY <3>4, SMT
    <3>9. e.base_high = input[v].hi /\ e.base_low = input[v].lo
      BY <3>4, SMT
    <3> HIDE DEF e
    <3>7. Gate(e).present /\ Gate(e).clearsIF
      <4>1. e.type \div 128 = 1 /\ e.type % 16 = 14
        BY <3>5, <3>6, SMT
      <4> QED  BY <4>1, GateReads, Zenon
    <3>8. Gate(e).offset = input[v] /\ Gate(e).selector = 8
      <4>1. Gate(e).offset = input[v]
        BY <3>2, <3>9, GateReads, Zenon DEF Word
      <4>2. Gate(e).selector = 8
        BY <3>6, GateReads, SMT
      <4> QED  BY <4>1, <4>2
    <3> QED  BY <3>7, <3>8, Zenon DEF e
  <2>3. ASSUME NEW g, g.selector = 8
        PROVE  flat(g)
    <3>1. g.selector \div 8 = 1
      BY <2>3, SMT
    <3> QED  BY <3>1, KernelCode, SMT
  <2>4. ASSUME NEW n \in 0..15
        PROVE  /\ Pushed(n) = 32 + n /\ 32 + n = IRQ_BASE + n
               /\ EndsSlave(32 + n) <=> n >= 8
    BY SMT DEF Pushed, IRQ_BASE, EndsSlave
  <2>5. ASSUME NEW n \in 0..15
        PROVE  /\ Vector(n) \in Vectors
               /\ gate(Vector(n)).present /\ gate(Vector(n)).clearsIF
               /\ gate(Vector(n)).offset = input[Vector(n)]
               /\ flat(gate(Vector(n)))
               /\ Pushed(n) = Vector(n) /\ Pushed(n) = IRQ_BASE + n
               /\ EndsSlave(Pushed(n)) <=> n >= 8
    <3> HIDE DEF gate, flat
    <3>1. Vector(n) \in Vectors /\ Vector(n) = 32 + n
      BY <2>1
    <3>2. /\ gate(Vector(n)).present /\ gate(Vector(n)).clearsIF
          /\ gate(Vector(n)).offset = input[Vector(n)]
          /\ gate(Vector(n)).selector = 8
      BY <3>1, <2>2
    <3> QED  BY <3>1, <3>2, <2>3, <2>4, Zenon
  <2> QED  BY <2>5, Zenon DEF InterruptsReachHandlers
<1> QED  BY <1>1, AlwaysGiven, PTL

-----------------------------------------------------------------------------
(* Frames.                                                                 *)

\* The word of a stack that lies k deep, from 1.
Deep(stack, k) == stack[Len(stack) + 1 - k]

\* What is pushed on a stack lies above it.
LEMMA DeepInPushed ==
  \A S : \A s, t \in Seq(S) :
    /\ s \o t \in Seq(S) /\ Len(s \o t) = Len(s) + Len(t)
    /\ \A k \in 1..Len(t) : Deep(s \o t, k) = Deep(t, k)
    /\ \A k \in 1..Len(s) : Deep(s \o t, Len(t) + k) = Deep(s, k)
<1> SUFFICES ASSUME NEW S, NEW s \in Seq(S), NEW t \in Seq(S)
             PROVE  /\ s \o t \in Seq(S) /\ Len(s \o t) = Len(s) + Len(t)
                    /\ \A k \in 1..Len(t) : Deep(s \o t, k) = Deep(t, k)
                    /\ \A k \in 1..Len(s) : Deep(s \o t, Len(t) + k) = Deep(s, k)
  BY Zenon
<1>1. s \o t \in Seq(S) /\ Len(s \o t) = Len(s) + Len(t)
  OBVIOUS
<1>2. ASSUME NEW k \in 1..Len(t)
      PROVE  Deep(s \o t, k) = Deep(t, k)
  BY <1>1 DEF Deep
<1>3. ASSUME NEW k \in 1..Len(s)
      PROVE  Deep(s \o t, Len(t) + k) = Deep(s, k)
  BY <1>1 DEF Deep
<1> QED  BY <1>1, <1>2, <1>3

\* A function from 1 to n is a sequence of that length.
LEMMA FunctionIsSeq ==
  \A S : \A n \in Nat : \A f \in [1..n -> S] : f \in Seq(S) /\ Len(f) = n
<1> SUFFICES ASSUME NEW S, NEW n \in Nat, NEW f \in [1..n -> S]
             PROVE  f \in Seq(S) /\ Len(f) = n
  BY Zenon
<1>1. f \in Seq(S)
  BY SeqDef, Zenon
<1>2. DOMAIN f = 1..n /\ DOMAIN f = 1..Len(f) /\ Len(f) \in Nat
  BY <1>1, LenProperties, Zenon
<1>3. Len(f) = n
  BY <1>2, SMT
<1> QED  BY <1>1, <1>3

\* The members of REGISTERS are fourteen, and their names tell them apart.
LEMMA MembersApart ==
  /\ DOMAIN Members = 1..14
  /\ \A j, k \in 1..14 : Members[j] = Members[k] => j = k
<1>1. DOMAIN Members = 1..14
  BY DEF Members
<1>2. \A j, k \in 1..14 : Members[j] = Members[k] => j = k
  BY DEF Members
<1> QED  BY <1>1, <1>2

\* A member is found at its depth in the stack.
LEMMA SeenIsDeep ==
  ASSUME NEW stack, Len(stack) \in Nat, Len(stack) >= 14, NEW k \in 1..14
  PROVE  Seen(stack)[Members[k]] = Deep(stack, k)
<1>1. Members[k] \in MemberNames
  BY MembersApart, Zenon DEF MemberNames
<1>2. (CHOOSE j \in DOMAIN Members : Members[j] = Members[k]) = k
  BY MembersApart, Zenon
<1>3. k <= Len(stack)
  OBVIOUS
<1> QED  BY <1>1, <1>2, <1>3 DEF Seen, Deep

\* pusha pushes the registers so that the members follow their order.
LEMMA PushesInOrder == \A k \in 2..9 : PushA[10 - k] = Members[k]
BY DEF PushA, Members

\* What lies on the stack when the handler is called, below the number too unless
\* it was an alignment check.
Framed(stack, v, regs, code) ==
  /\ Len(stack) \in Nat /\ Len(stack) >= 14
  /\ \A k \in 1..9 : Deep(stack, k) = regs[Members[k]]
  /\ Deep(stack, 10) = v
  /\ v # 17 => /\ Len(stack) = 14
               /\ Deep(stack, 11) = IF v \in WithErrorCode THEN code ELSE 0
               /\ \A k \in 12..14 : Deep(stack, k) = regs[Members[k]]

\* What a stub and the common code push, when the registers hold words.
Pushing(v, words, code) ==
  Stubbed(v, words, code) \o [k \in 1..8 |-> words[PushA[k]]] \o <<words.ds>>

\* It is a frame of those words.
LEMMA PushingDeep ==
  \A v \in Vectors : \A regs, code : Framed(Pushing(v, regs, code), v, regs, code)
<1> SUFFICES ASSUME NEW v \in Vectors, NEW regs, NEW code
             PROVE  Framed(Pushing(v, regs, code), v, regs, code)
  BY Zenon
<1> DEFINE S    == {regs[m] : m \in MemberNames} \cup {0, code, v}
           cpu  == CPUPushes(v, regs, code)
           dflt == IF PushesDefault(v) THEN <<0>> ELSE <<>>
           all  == [k \in 1..8 |-> regs[PushA[k]]]
           a    == cpu \o dflt
           b    == a \o <<NumberOf(v)>>
           c8   == b \o all
           stack == c8 \o <<regs.ds>>
<1>1. \A k \in 1..14 : regs[Members[k]] \in S
  BY MembersApart, Zenon DEF MemberNames
<1>2. NumberOf(v) = v
  BY DEF NumberOf, Pushed, Vectors
<1>3. Members[1] = "ds" /\ Members[12] = "eip" /\ Members[13] = "cs" /\ Members[14] = "eflags"
  BY DEF Members
<1>4. /\ a \in Seq(S) /\ Len(a) >= 4
      /\ v # 17 => /\ Len(a) = 4 /\ Deep(a, 1) = IF v \in WithErrorCode THEN code ELSE 0
                   /\ Deep(a, 2) = regs.eip /\ Deep(a, 3) = regs.cs
                   /\ Deep(a, 4) = regs.eflags
  <2> DEFINE x == <<regs.eflags, regs.cs, regs.eip>>
  <2>1. x \in Seq(S) /\ <<code>> \in Seq(S) /\ <<0>> \in Seq(S) /\ <<>> \in Seq(S)
    <3>1. regs.eflags \in S /\ regs.cs \in S /\ regs.eip \in S
      BY <1>1, <1>3
    <3>2. code \in S /\ 0 \in S
      OBVIOUS
    <3> HIDE DEF S
    <3> QED  BY <3>1, <3>2
  <2> HIDE DEF S
  <2>2. /\ Len(x) = 3 /\ Deep(x, 1) = regs.eip /\ Deep(x, 2) = regs.cs
        /\ Deep(x, 3) = regs.eflags
    BY DEF Deep
  <2>3. \A e : Len(<<e>>) = 1 /\ Deep(<<e>>, 1) = e
    BY DEF Deep
  <2>4. ASSUME NEW e \in S
        PROVE  LET z == x \o <<e>>
               IN  /\ z \in Seq(S) /\ Len(z) = 4 /\ Deep(z, 1) = e
                   /\ Deep(z, 2) = regs.eip /\ Deep(z, 3) = regs.cs
                   /\ Deep(z, 4) = regs.eflags
    <3> DEFINE z == x \o <<e>>
    <3>1. <<e>> \in Seq(S)
      OBVIOUS
    <3> HIDE DEF x
    <3>2. /\ z \in Seq(S) /\ Len(z) = Len(x) + Len(<<e>>)
          /\ \A k \in 1..Len(<<e>>) : Deep(z, k) = Deep(<<e>>, k)
          /\ \A k \in 1..Len(x) : Deep(z, Len(<<e>>) + k) = Deep(x, k)
      BY <2>1, <3>1, DeepInPushed, Zenon
    <3> HIDE DEF z
    <3>3. /\ Deep(z, 1) = Deep(<<e>>, 1)
          /\ Deep(z, 2) = Deep(x, 1) /\ Deep(z, 3) = Deep(x, 2) /\ Deep(z, 4) = Deep(x, 3)
      BY <2>2, <2>3, <3>2
    <3> QED  BY <2>2, <2>3, <3>2, <3>3 DEF z
  <2>5. CASE v \in WithErrorCode /\ v # 17
    <3>1. cpu = x \o <<code>> /\ dflt = <<>>
      BY <2>5 DEF CPUPushes, PushesDefault, WithErrorCode
    <3>2. a = x \o <<code>>
      BY <2>1, <3>1
    <3>3. code \in S
      BY DEF S
    <3>4. /\ a \in Seq(S) /\ Len(a) = 4 /\ Deep(a, 1) = code
          /\ Deep(a, 2) = regs.eip /\ Deep(a, 3) = regs.cs /\ Deep(a, 4) = regs.eflags
      BY <2>4, <3>2, <3>3, Zenon
    <3> HIDE DEF a
    <3> QED  BY <2>5, <3>4
  <2>6. CASE v \notin WithErrorCode
    <3>1. cpu = x /\ dflt = <<0>> /\ v # 17
      <4>1. cpu = x \o <<>>
        BY <2>6 DEF CPUPushes
      <4>2. dflt = <<0>> /\ v # 17
        BY <2>6 DEF PushesDefault, WithErrorCode
      <4> QED  BY <2>1, <4>1, <4>2
    <3>2. a = x \o <<0>>
      BY <3>1
    <3>3. 0 \in S
      BY DEF S
    <3>4. /\ a \in Seq(S) /\ Len(a) = 4 /\ Deep(a, 1) = 0
          /\ Deep(a, 2) = regs.eip /\ Deep(a, 3) = regs.cs /\ Deep(a, 4) = regs.eflags
      BY <2>4, <3>2, <3>3, Zenon
    <3> HIDE DEF a
    <3> QED  BY <2>6, <3>4
  <2>7. CASE v = 17
    <3>1. cpu = x \o <<code>> /\ dflt = <<0>>
      BY <2>7 DEF CPUPushes, PushesDefault, WithErrorCode
    <3>2. cpu \in Seq(S) /\ Len(cpu) = 4
      <4>1. code \in S
        BY DEF S
      <4> QED  BY <2>4, <3>1, <4>1, Zenon
    <3>3. a \in Seq(S) /\ Len(a) = Len(cpu) + Len(<<0>>)
      BY <2>1, <3>1, <3>2, DeepInPushed, Zenon
    <3>4. Len(<<0>>) = 1
      BY <2>3
    <3> HIDE DEF a, cpu
    <3> QED  BY <2>7, <3>2, <3>3, <3>4
  <2> QED  BY <2>5, <2>6, <2>7, Zenon
<1>5. <<v>> \in Seq(S) /\ Len(<<v>>) = 1 /\ Deep(<<v>>, 1) = v
  BY DEF Deep
<1>6. /\ all \in Seq(S) /\ Len(all) = 8
      /\ \A k \in 1..8 : Deep(all, k) = regs[Members[k + 1]]
  <2>1. \A k \in 1..8 : all[k] = regs[Members[10 - k]]
    <3>1. ASSUME NEW k \in 1..8 PROVE PushA[k] = Members[10 - k]
      <4>1. 10 - k \in 2..9 /\ 10 - (10 - k) = k
        OBVIOUS
      <4> QED  BY <4>1, PushesInOrder
    <3> QED  BY <3>1
  <2>2. \A k \in 1..8 : all[k] \in S
    <3>1. \A k \in 1..8 : 10 - k \in 1..14
      OBVIOUS
    <3> QED  BY <1>1, <2>1, <3>1
  <2>3. all \in [1..8 -> S]
    <3> HIDE DEF S
    <3> QED  BY <2>2
  <2> HIDE DEF all, S
  <2>4. all \in Seq(S) /\ Len(all) = 8
    BY <2>3, FunctionIsSeq
  <2>5. \A k \in 1..8 : Deep(all, k) = all[9 - k]
    BY <2>4 DEF Deep
  <2>6. \A k \in 1..8 : 9 - k \in 1..8 /\ 10 - (9 - k) = k + 1
    OBVIOUS
  <2> QED  BY <2>1, <2>4, <2>5, <2>6
<1>7. <<regs.ds>> \in Seq(S) /\ Len(<<regs.ds>>) = 1 /\ Deep(<<regs.ds>>, 1) = regs[Members[1]]
  <2>1. regs.ds \in S /\ regs[Members[1]] = regs.ds
    BY <1>1, <1>3
  <2> HIDE DEF S
  <2> QED  BY <2>1 DEF Deep
<1>8. Pushing(v, regs, code) = stack
  BY DEF Pushing, Stubbed
<1> HIDE DEF S, cpu, dflt, all, a
<1>14. a \in Seq(S) /\ <<v>> \in Seq(S) /\ <<regs.ds>> \in Seq(S)
  BY <1>4, <1>5, <1>7, Zenon
<1>15. Len(a) \in Nat /\ Len(a) >= 4
  BY <1>4, <1>14
<1>16. v # 17 => /\ Len(a) = 4
                 /\ Deep(a, 1) = IF v \in WithErrorCode THEN code ELSE 0
                 /\ Deep(a, 2) = regs.eip /\ Deep(a, 3) = regs.cs
                 /\ Deep(a, 4) = regs.eflags
  BY <1>4, Zenon
<1>9. /\ b \in Seq(S) /\ Len(b) = Len(a) + 1 /\ Deep(b, 1) = v
      /\ \A k \in 1..Len(a) : Deep(b, 1 + k) = Deep(a, k)
  <2> DEFINE top == <<v>>
             both == a \o top
  <2>1. b = both /\ top \in Seq(S) /\ Len(top) = 1 /\ Deep(top, 1) = v
    BY <1>2, <1>5
  <2> HIDE DEF b, top
  <2>2. /\ both \in Seq(S) /\ Len(both) = Len(a) + Len(top)
        /\ \A k \in 1..Len(top) : Deep(both, k) = Deep(top, k)
        /\ \A k \in 1..Len(a) : Deep(both, Len(top) + k) = Deep(a, k)
    BY <1>14, <2>1, DeepInPushed, Zenon
  <2> HIDE DEF both
  <2> QED  BY <2>1, <2>2
<1> HIDE DEF b
<1>10. /\ c8 \in Seq(S) /\ Len(c8) = Len(a) + 9 /\ Deep(c8, 9) = v
       /\ \A k \in 1..8 : Deep(c8, k) = regs[Members[k + 1]]
       /\ \A k \in 1..Len(a) : Deep(c8, 9 + k) = Deep(a, k)
  <2>1. /\ c8 \in Seq(S) /\ Len(c8) = Len(b) + 8
        /\ \A k \in 1..8 : Deep(c8, k) = Deep(all, k)
        /\ \A k \in 1..Len(b) : Deep(c8, 8 + k) = Deep(b, k)
    <3>1. /\ c8 \in Seq(S) /\ Len(c8) = Len(b) + Len(all)
          /\ \A k \in 1..Len(all) : Deep(c8, k) = Deep(all, k)
          /\ \A k \in 1..Len(b) : Deep(c8, Len(all) + k) = Deep(b, k)
      BY <1>6, <1>9, DeepInPushed, Zenon
    <3> HIDE DEF c8
    <3> QED  BY <1>6, <3>1
  <2> HIDE DEF c8
  <2>2. \A k \in 1..Len(a) : 1 + k \in 1..Len(b) /\ 8 + (1 + k) = 9 + k
    BY <1>9, <1>15
  <2>3. 1 \in 1..Len(b)
    BY <1>9, <1>15
  <2>4. \A k \in 1..Len(a) : Deep(c8, 9 + k) = Deep(a, k)
    BY <1>9, <2>1, <2>2
  <2>5. Deep(c8, 9) = v
    BY <1>9, <2>1, <2>3
  <2> QED  BY <1>6, <1>9, <1>15, <2>1, <2>4, <2>5
<1> HIDE DEF c8
<1>11. /\ Len(stack) = Len(a) + 10 /\ Deep(stack, 10) = v
       /\ Deep(stack, 1) = regs[Members[1]]
       /\ \A k \in 2..9 : Deep(stack, k) = regs[Members[k]]
       /\ \A k \in 1..Len(a) : Deep(stack, 10 + k) = Deep(a, k)
  <2>1. /\ Len(stack) = Len(c8) + 1
        /\ Deep(stack, 1) = regs[Members[1]]
        /\ \A k \in 1..Len(c8) : Deep(stack, 1 + k) = Deep(c8, k)
    <3> DEFINE top == <<regs.ds>>
           whole == c8 \o top
    <3>0. c8 \in Seq(S)
      BY <1>10
    <3>1. stack = whole /\ top \in Seq(S) /\ Len(top) = 1 /\ Deep(top, 1) = regs[Members[1]]
      BY <1>7
    <3> HIDE DEF top, stack
    <3>1a. top \in Seq(S)
      BY <3>1
    <3>2. /\ whole \in Seq(S) /\ Len(whole) = Len(c8) + Len(top)
          /\ \A k \in 1..Len(top) : Deep(whole, k) = Deep(top, k)
          /\ \A k \in 1..Len(c8) : Deep(whole, Len(top) + k) = Deep(c8, k)
      BY <3>0, <3>1a, DeepInPushed, Zenon
    <3> HIDE DEF whole
    <3> QED  BY <3>1, <3>2
  <2> HIDE DEF stack
  <2>2. Len(c8) \in Nat /\ Len(c8) >= 13
    BY <1>10, <1>15
  <2>3. Deep(stack, 10) = v
    BY <1>10, <2>1, <2>2
  <2>4. ASSUME NEW k \in 2..9 PROVE Deep(stack, k) = regs[Members[k]]
    <3>1. k - 1 \in 1..8 /\ 1 + (k - 1) = k /\ (k - 1) + 1 = k /\ k - 1 \in 1..Len(c8)
      BY <2>2
    <3> QED  BY <1>10, <2>1, <3>1
  <2>5. ASSUME NEW k \in 1..Len(a) PROVE Deep(stack, 10 + k) = Deep(a, k)
    <3>1. 9 + k \in 1..Len(c8) /\ 1 + (9 + k) = 10 + k
      BY <1>10, <1>15
    <3> QED  BY <1>10, <2>1, <3>1
  <2> QED  BY <1>10, <1>15, <2>1, <2>3, <2>4, <2>5
<1> HIDE DEF stack
<1>12. \A k \in 1..9 : Deep(stack, k) = regs[Members[k]]
  <2>1. \A k \in 1..9 : k = 1 \/ k \in 2..9
    OBVIOUS
  <2> QED  BY <1>11, <2>1, Zenon
<1>13. v # 17 => /\ Len(stack) = 14
                 /\ Deep(stack, 11) = IF v \in WithErrorCode THEN code ELSE 0
                 /\ \A k \in 12..14 : Deep(stack, k) = regs[Members[k]]
  <2> SUFFICES ASSUME v # 17
               PROVE  /\ Len(stack) = 14
                      /\ Deep(stack, 11) = IF v \in WithErrorCode THEN code ELSE 0
                      /\ \A k \in 12..14 : Deep(stack, k) = regs[Members[k]]
    OBVIOUS
  <2>0. Len(a) = 4
    BY <1>16, Zenon
  <2>1. Len(stack) = 14
    BY <1>11, <2>0
  <2>2. /\ Deep(stack, 11) = Deep(a, 1) /\ Deep(stack, 12) = Deep(a, 2)
        /\ Deep(stack, 13) = Deep(a, 3) /\ Deep(stack, 14) = Deep(a, 4)
    BY <1>11, <2>0
  <2>3. /\ Deep(stack, 12) = regs[Members[12]] /\ Deep(stack, 13) = regs[Members[13]]
        /\ Deep(stack, 14) = regs[Members[14]]
    BY <1>3, <1>16, <2>2
  <2> QED  BY <1>16, <2>1, <2>2, <2>3
<1>17. Len(stack) \in Nat /\ Len(stack) >= 14 /\ Deep(stack, 10) = v
  BY <1>11, <1>15
<1> QED  BY <1>8, <1>12, <1>13, <1>17, Zenon DEF Framed

\* The names of the members.
LEMMA NamesOfMembers ==
  /\ MemberNames = {"ds", "edi", "esi", "ebp", "esp", "ebx", "edx", "ecx", "eax",
                    "int_no", "err_code", "eip", "cs", "eflags"}
  /\ \A m \in MemberNames : \E k \in 1..14 : Members[k] = m
  /\ Members[10] = "int_no" /\ Members[11] = "err_code"
<1>1. MemberNames = {"ds", "edi", "esi", "ebp", "esp", "ebx", "edx", "ecx", "eax",
                     "int_no", "err_code", "eip", "cs", "eflags"}
  BY DEF MemberNames, Members
<1>2. \A m \in MemberNames : \E k \in 1..14 : Members[k] = m
  BY MembersApart, Zenon DEF MemberNames
<1>3. Members[10] = "int_no" /\ Members[11] = "err_code"
  BY DEF Members
<1> QED  BY <1>1, <1>2, <1>3

\* The processor and the stub push five words, but for the alignment check.
LEMMA StubbedFive ==
  \A v \in Vectors : \A regs, code : v # 17 => Len(Stubbed(v, regs, code)) = 5
<1> SUFFICES ASSUME NEW v \in Vectors, NEW regs, NEW code, v # 17
             PROVE  Len(Stubbed(v, regs, code)) = 5
  BY Zenon
<1> DEFINE S == {regs.eflags, regs.cs, regs.eip, code, 0, NumberOf(v)}
           x == <<regs.eflags, regs.cs, regs.eip>>
           n == <<NumberOf(v)>>
<1>1. x \in Seq(S) /\ Len(x) = 3 /\ n \in Seq(S) /\ Len(n) = 1
  OBVIOUS
<1>2. PICK e \in S : Stubbed(v, regs, code) = (x \o <<e>>) \o n
  <2>1. CASE v \in WithErrorCode
    <3>1. ~ PushesDefault(v)
      BY <2>1 DEF PushesDefault, WithErrorCode
    <3>2. Stubbed(v, regs, code) = ((x \o <<code>>) \o <<>>) \o n
      BY <2>1, <3>1 DEF Stubbed, CPUPushes
    <3>3. (x \o <<code>>) \o <<>> = x \o <<code>>
      OBVIOUS
    <3>4. code \in S
      OBVIOUS
    <3> HIDE DEF x, n, S
    <3> QED  BY <3>2, <3>3, <3>4, Zenon
  <2>2. CASE v \notin WithErrorCode
    <3>1. PushesDefault(v)
      BY <2>2 DEF PushesDefault, WithErrorCode
    <3>2. Stubbed(v, regs, code) = ((x \o <<>>) \o <<0>>) \o n
      BY <2>2, <3>1 DEF Stubbed, CPUPushes
    <3>3. x \o <<>> = x
      OBVIOUS
    <3>4. 0 \in S
      OBVIOUS
    <3> HIDE DEF x, n, S
    <3> QED  BY <3>2, <3>3, <3>4, Zenon
  <2> QED  BY <2>1, <2>2
<1>3. <<e>> \in Seq(S) /\ Len(<<e>>) = 1
  <2> HIDE DEF S
  <2> QED  BY <1>2
<1> DEFINE top == <<e>>
           both == x \o top
<1>4. top \in Seq(S) /\ Len(top) = 1
  BY <1>3
<1> HIDE DEF x, n, S, top
<1>5. both \in Seq(S) /\ Len(both) = 4
  <2>1. both \in Seq(S) /\ Len(both) = Len(x) + Len(top)
    BY <1>1, <1>4, DeepInPushed, Zenon
  <2> HIDE DEF both
  <2> QED  BY <1>1, <1>4, <2>1
<1> HIDE DEF both
<1>6. Len(both \o n) = 5
  <2>1. Len(both \o n) = Len(both) + Len(n)
    BY <1>1, <1>5, DeepInPushed, Zenon
  <2> QED  BY <1>1, <1>5, <2>1
<1> QED  BY <1>2, <1>6, Zenon DEF both, top

\* The words pushed for the registers, esp by pusha and ds with the upper half of eax.
Shifted(v, regs, code) ==
  [regs EXCEPT !["esp"] = regs.esp - 4 * Len(Stubbed(v, regs, code)),
               !["ds"] = SegmentWord(regs)]

\* Those words are pushed, and nothing else.
LEMMA EnteredIsPushing ==
  ASSUME NEW v, NEW code, NEW regs \in [Restored \cup {"esp"} -> Nat]
  PROVE  Entered(v, regs, code) = Pushing(v, Shifted(v, regs, code), code)
<1> DEFINE w == Shifted(v, regs, code)
           pushed == Stubbed(v, regs, code)
           now == [regs EXCEPT !["esp"] = regs.esp - 4 * Len(pushed)]
<1>1. DOMAIN regs = Restored \cup {"esp"}
  OBVIOUS
<1>2. {"ds", "edi", "esi", "ebp", "ebx", "edx", "ecx", "eax", "eip", "cs", "eflags"}
        \subseteq Restored
  BY NamesOfMembers DEF Restored
<1> HIDE DEF pushed
<1>3. w = [now EXCEPT !["ds"] = SegmentWord(regs)]
  BY DEF Shifted, pushed
<1>4. /\ w["ds"] = SegmentWord(regs)
      /\ \A m \in {"eax", "ecx", "edx", "ebx", "esp", "ebp", "esi", "edi", "eip", "cs",
                   "eflags"} : w[m] = now[m]
      /\ w["eip"] = regs["eip"] /\ w["cs"] = regs["cs"] /\ w["eflags"] = regs["eflags"]
  <2> HIDE DEF w
  <2> QED  BY <1>1, <1>2, <1>3
<1> HIDE DEF now, w
<1>5. Stubbed(v, w, code) = pushed
  BY <1>4, Zenon DEF Stubbed, CPUPushes, pushed
<1>6. [k \in 1..8 |-> w[PushA[k]]] = [k \in 1..8 |-> now[PushA[k]]]
  <2>1. \A k \in 1..8 : w[PushA[k]] = now[PushA[k]]
    BY <1>4 DEF PushA
  <2> QED  BY <2>1, Zenon
<1>7. Entered(v, regs, code) = pushed \o [k \in 1..8 |-> now[PushA[k]]] \o <<SegmentWord(regs)>>
  BY Zenon DEF Entered, pushed, now
<1>8. Pushing(v, w, code) = Stubbed(v, w, code) \o [k \in 1..8 |-> w[PushA[k]]] \o <<w["ds"]>>
  BY Zenon DEF Pushing
<1> QED  BY <1>4, <1>5, <1>6, <1>7, <1>8, Zenon DEF w

\* The lower half of the word that ds is pushed in.
LEMMA SegmentHalf ==
  ASSUME NEW regs, regs.eax \in Nat, regs.ds \in Nat, regs.ds < HALF
  PROVE  SegmentWord(regs) % HALF = regs.ds
<1> DEFINE a == regs.eax
           d == regs.ds
           h == 65536
<1>1. PICK q \in Nat : a - (a % h) = q * h
  <2>1. a = h * (a \div h) + (a % h) /\ (a \div h) \in Nat
    BY SMT
  <2>2. a - (a % h) = (a \div h) * h
    BY <2>1, SMT
  <2> HIDE DEF a, h
  <2> QED  BY <2>1, <2>2, Zenon
<1>2. d \in Nat /\ d < h /\ HALF = h
  BY DEF HALF
<1>3. ((q * h) + d) % h = d
  BY <1>2, SMT
<1> QED  BY <1>1, <1>2, <1>3, SMT DEF SegmentWord

\* A member that is found as it is pushed.
Plain == MemberNames \ {"int_no", "err_code", "ds", "esp"}

\* The words w are the registers but for esp, n bytes lower, and ds.
ButTwo(w, regs, n) == /\ w["esp"] = regs.esp - n /\ w["ds"] = SegmentWord(regs)
                      /\ \A m \in Plain : w[m] = regs[m]

\* Those are the words that are pushed.
LEMMA ShiftedOnlyTwo ==
  ASSUME NEW v, NEW code, NEW regs \in [Restored \cup {"esp"} -> Nat]
  PROVE  ButTwo(Shifted(v, regs, code), regs, 4 * Len(Stubbed(v, regs, code)))
<1>1. DOMAIN regs = Restored \cup {"esp"}
  OBVIOUS
<1>2. Plain \subseteq Restored /\ "ds" \in Restored
  BY NamesOfMembers DEF Restored, Plain
<1>3. "ds" \notin Plain /\ "esp" \notin Plain
  BY DEF Plain
<1> DEFINE n == 4 * Len(Stubbed(v, regs, code))
           sw == SegmentWord(regs)
<1> HIDE DEF n, sw
<1>4. Shifted(v, regs, code) = [regs EXCEPT !["esp"] = regs.esp - n, !["ds"] = sw]
  BY DEF Shifted, n, sw
<1>5. LET w == [regs EXCEPT !["esp"] = regs.esp - n, !["ds"] = sw]
      IN  w["esp"] = regs.esp - n /\ w["ds"] = sw /\ \A m \in Plain : w[m] = regs[m]
  BY <1>1, <1>2, <1>3
<1> QED  BY <1>4, <1>5, Zenon DEF n, sw, ButTwo

\* The C handlers go by the number in the frame.
LEMMA HandledByNumber ==
  ASSUME NEW v \in Vectors, NEW frame, frame.int_no = v
  PROVE  LET done == Handled(v, frame, [n \in Vectors |-> n])
         IN  /\ v < 32 => done = [halted |-> TRUE, message |-> v]
             /\ v >= 32 => done = [halted |-> FALSE, called |-> v,
                                   ended  |-> {v} \cap {Vector(n) : n \in 0..15}]
<1> DEFINE h == [n \in Vectors |-> n]
           lines == {Vector(n) : n \in 0..15}
<1>1. h[v] = v
  OBVIOUS
<1>2. v \in lines <=> v \in 32..47
  <2>1. \A n \in 0..15 : Vector(n) = 32 + n
    BY SMT DEF Vector, pic8259_init
  <2>2. ASSUME v \in 32..47 PROVE v \in lines
    <3>1. v - 32 \in 0..15 /\ 32 + (v - 32) = v
      BY <2>2
    <3> QED  BY <2>1, <3>1
  <2>3. ASSUME NEW n \in 0..15 PROVE Vector(n) \in 32..47
    BY <2>1
  <2> QED  BY <2>2, <2>3
<1> HIDE DEF h, lines
<1>3. CASE v \in 32..47
  <2>1. Handled(v, frame, h) = [halted |-> FALSE, called |-> v, ended |-> {v}]
    BY <1>1, <1>3, Zenon DEF Handled, isr_irq_handler
  <2>2. {v} \cap lines = {v}
    BY <1>2, <1>3, Zenon
  <2>3. ~ (v < 32)
    BY <1>3
  <2> QED  BY <2>1, <2>2, <2>3, Zenon DEF h, lines
<1>4. CASE v \notin 32..47 /\ v < 32
  <2>1. Handled(v, frame, h) = [halted |-> TRUE, message |-> v]
    BY <1>4, Zenon DEF Handled, isr_exception_handler
  <2>2. ~ (v >= 32)
    BY <1>4 DEF Vectors
  <2> QED  BY <2>1, <2>2, Zenon DEF h, lines
<1>5. CASE v \notin 32..47 /\ ~ (v < 32)
  <2>1. Handled(v, frame, h) = [halted |-> FALSE, called |-> v, ended |-> {}]
    BY <1>1, <1>5, Zenon DEF Handled, isr_exception_handler
  <2>2. {v} \cap lines = {}
    BY <1>2, <1>5, Zenon
  <2> QED  BY <1>5, <2>1, <2>2, Zenon DEF h, lines
<1> QED  BY <1>3, <1>4, <1>5, Zenon

\* Whatever interrupts the kernel, its handler sees the number of the vector, the error
\* code and the interrupted registers under their names, esp and ds as they are pushed;
\* an exception ends at its screen, and after any other handler the registers, the
\* segments and the stack are as they were and the controllers' interrupt is ended.
THEOREM FramesAlwaysRestored == Spec => []FrameSeenAndRestored
<1>1. InputInv => FrameSeenAndRestored
  <2> SUFFICES ASSUME input \in Interruptions
               PROVE  FrameSeenAndRestored
    BY Zenon DEF InputInv, FrameSeenAndRestored
  <2> DEFINE v     == input.vector
             regs  == input.regs
             stack == Entered(v, regs, input.code)
             seen  == Seen(stack)
             code  == IF v \in WithErrorCode THEN input.code ELSE 0
             done  == Handled(v, seen, [n \in Vectors |-> n])
             w     == Shifted(v, regs, input.code)
  <2>1. /\ v \in Vectors /\ regs \in [Restored \cup {"esp"} -> Nat]
        /\ regs.ds < HALF /\ \A s \in DataSegments : regs[s] = regs.ds
    BY PureAssumption, Zenon DEF IsInterruption
  <2>2. /\ Len(stack) \in Nat /\ Len(stack) >= 14
        /\ \A k \in 1..9 : Deep(stack, k) = w[Members[k]]
        /\ Deep(stack, 10) = v
        /\ v # 17 => /\ Len(stack) = 14 /\ Deep(stack, 11) = code
                     /\ \A k \in 12..14 : Deep(stack, k) = w[Members[k]]
    <3>1. stack = Pushing(v, w, input.code)
      BY <2>1, EnteredIsPushing, Zenon
    <3>2. Framed(Pushing(v, w, input.code), v, w, input.code)
      BY <2>1, PushingDeep, Zenon
    <3> HIDE DEF v, regs, stack, w
    <3> QED  BY <3>1, <3>2, Zenon DEF Framed
  <2>9. ButTwo(w, regs, 4 * Len(Stubbed(v, regs, input.code)))
    BY <2>1, ShiftedOnlyTwo, Zenon
  <2>12. w["ds"] = SegmentWord(regs) /\ \A m \in Plain : w[m] = regs[m]
    <3> HIDE DEF w, regs, v
    <3> QED  BY <2>9, Zenon DEF ButTwo
  <2>10. w["ds"] % HALF = regs.ds
    <3>1. regs.eax \in Nat /\ regs.ds \in Nat
      <4>1. "eax" \in Restored /\ "ds" \in Restored
        BY NamesOfMembers DEF Restored
      <4> HIDE DEF regs
      <4> QED  BY <2>1, <4>1
    <3> QED  BY <2>1, <2>12, <3>1, SegmentHalf, Zenon
  <2>11. v # 17 => w["esp"] = regs.esp - 20
    <3> SUFFICES ASSUME v # 17 PROVE w["esp"] = regs.esp - 20
      OBVIOUS
    <3>1. Len(Stubbed(v, regs, input.code)) = 5
      BY <2>1, StubbedFive, Zenon
    <3> DEFINE n == Len(Stubbed(v, regs, input.code))
    <3>2. n = 5 /\ w["esp"] = regs.esp - 4 * n
      BY <2>9, <3>1, Zenon DEF ButTwo
    <3> HIDE DEF n, w, regs
    <3> QED  BY <3>2
  <2> HIDE DEF v, regs, stack, code, w
  <2>3. seen.int_no = v
    <3>1. seen[Members[10]] = Deep(stack, 10)
      BY <2>2, SeenIsDeep
    <3> QED  BY <2>2, <3>1, NamesOfMembers
  <2>4. v # 17 => /\ seen.err_code = code
                  /\ seen.ds = w["ds"] /\ seen.esp = w["esp"]
                  /\ \A m \in Plain : seen[m] = regs[m]
    <3> SUFFICES ASSUME v # 17
                 PROVE  /\ seen.err_code = code
                        /\ \A m \in MemberNames \ {"int_no", "err_code"} : seen[m] = w[m]
      <4>1. /\ Plain \subseteq MemberNames \ {"int_no", "err_code"}
            /\ "ds" \in MemberNames \ {"int_no", "err_code"}
            /\ "esp" \in MemberNames \ {"int_no", "err_code"}
        BY NamesOfMembers DEF Plain
      <4> HIDE DEF seen
      <4> QED  BY <2>12, <4>1
    <3>1. seen.err_code = code
      <4>1. seen[Members[11]] = Deep(stack, 11)
        BY <2>2, SeenIsDeep
      <4> QED  BY <2>2, <4>1, NamesOfMembers
    <3>2. ASSUME NEW m \in MemberNames \ {"int_no", "err_code"}
          PROVE  seen[m] = w[m]
      <4>1. PICK k \in 1..14 : Members[k] = m
        BY NamesOfMembers, Zenon
      <4>2. seen[m] = Deep(stack, k)
        BY <2>2, <4>1, SeenIsDeep
      <4>3. k # 10 /\ k # 11
        BY <4>1, NamesOfMembers
      <4>4. k \in 1..9 \/ k \in 12..14
        BY <4>3
      <4> QED  BY <2>2, <4>1, <4>2, <4>4, Zenon
    <3> QED  BY <3>1, <3>2
  <2>5. /\ v < 32 => done = [halted |-> TRUE, message |-> v]
        /\ v >= 32 => done = [halted |-> FALSE, called |-> v,
                              ended  |-> {v} \cap {Vector(n) : n \in 0..15}]
    BY <2>1, <2>3, HandledByNumber, Zenon
  <2>7. v >= 32 => Returned(stack) = [regs |-> [r \in Restored |-> regs[r]], left |-> 0]
    <3> SUFFICES ASSUME v # 17
                 PROVE  Returned(stack) = [regs |-> [r \in Restored |-> regs[r]], left |-> 0]
      BY <2>1 DEF Vectors
    <3> DEFINE bx == Deep(stack, 1) % HALF
               got == [ds  |-> bx, es |-> bx, fs |-> bx, gs |-> bx, edi |-> Deep(stack, 2),
                       esi |-> Deep(stack, 3), ebp |-> Deep(stack, 4),
                       ebx |-> Deep(stack, 6), edx |-> Deep(stack, 7),
                       ecx |-> Deep(stack, 8), eax |-> Deep(stack, 9),
                       eip |-> Deep(stack, 12), cs |-> Deep(stack, 13),
                       eflags |-> Deep(stack, 14)]
    <3>1. Returned(stack) = [regs |-> got, left |-> Len(stack) - 14]
      BY Zenon DEF Returned, Deep
    <3>2. Len(stack) - 14 = 0
      BY <2>2
    <3>3. ASSUME NEW k \in {2, 3, 4, 6, 7, 8, 9, 12, 13, 14}
          PROVE  Deep(stack, k) = regs[Members[k]]
      <4>1. \A j \in 12..14 : Deep(stack, j) = w[Members[j]]
        BY <2>2, Zenon
      <4>2. k \in 1..9 \/ k \in 12..14
        OBVIOUS
      <4>3. Members[k] \in Plain
        BY NamesOfMembers DEF Members, Plain
      <4> QED  BY <2>2, <2>12, <4>1, <4>2, <4>3, Zenon
    <3>4. bx = regs.ds
      <4>1. Members[1] = "ds"
        BY DEF Members
      <4>2. Deep(stack, 1) = w[Members[1]]
        BY <2>2
      <4> QED  BY <2>10, <4>1, <4>2, Zenon
    <3>5. regs["ds"] = regs.ds /\ regs["es"] = regs.ds /\ regs["fs"] = regs.ds
          /\ regs["gs"] = regs.ds
      BY <2>1 DEF DataSegments
    <3> HIDE DEF bx
    <3>6. got = [r \in Restored |-> regs[r]]
      <4>1. got = [ds  |-> regs["ds"], es |-> regs["es"], fs |-> regs["fs"],
                   gs  |-> regs["gs"], edi |-> regs["edi"], esi |-> regs["esi"],
                   ebp |-> regs["ebp"], ebx |-> regs["ebx"], edx |-> regs["edx"],
                   ecx |-> regs["ecx"], eax |-> regs["eax"], eip |-> regs["eip"],
                   cs |-> regs["cs"], eflags |-> regs["eflags"]]
        BY <3>3, <3>4, <3>5 DEF Members
      <4>2. Restored = {"ds", "es", "fs", "gs", "edi", "esi", "ebp", "ebx", "edx", "ecx",
                        "eax", "eip", "cs", "eflags"}
        BY NamesOfMembers DEF Restored, DataSegments
      <4> HIDE DEF got
      <4> QED  BY <4>1, <4>2
    <3> QED  BY <3>1, <3>2, <3>6, Zenon DEF bx
  <2> HIDE DEF done, seen
  <2>8. /\ seen.int_no = v
        /\ v # 17 => /\ seen.err_code = code
                     /\ seen.ds % HALF = regs.ds /\ seen.esp = regs.esp - 20
                     /\ \A m \in Plain : seen[m] = regs[m]
        /\ v < 32 => done = [halted |-> TRUE, message |-> v]
        /\ v >= 32 => /\ done = [halted |-> FALSE, called |-> v,
                                 ended  |-> {v} \cap {Vector(n) : n \in 0..15}]
                      /\ Returned(stack) = [regs |-> [r \in Restored |-> regs[r]],
                                            left |-> 0]
    BY <2>3, <2>4, <2>5, <2>7, <2>10, <2>11, Zenon
  <2> QED  BY <2>8, Zenon DEF FrameSeenAndRestored, Plain, done, seen, v, regs, stack, code
<1> QED  BY <1>1, AlwaysGiven, PTL

-----------------------------------------------------------------------------
(* What a sequence of port accesses leaves in the registers of a channel.  *)

PortAccess == [op : {"in", "out"}, port : Nat, data : Nat]

\* The ports of a channel's drives begin here.
Base(ch) == g_ide_channels[ch].base

\* Empty, or with a greatest member.
Bounded(ks) == ks = {} \/ \E k \in ks : \A j \in ks : j <= k

\* All but the greatest.
Earlier(ks) == {k \in ks : \E j \in ks : k < j}

\* The accesses s leave new in the registers, old is what was there before, and no
\* port of the other channel is touched.
Leaves(ch, s, new, old) ==
  /\ s \in Seq(PortAccess)
  /\ \A k \in 1..Len(s) : s[k].port \notin Base(1 - ch) .. Base(1 - ch) + 7
  /\ new \in [0..7 -> Nat] /\ old \in [0..7 -> Nat]
  /\ \A r \in 0..7 : /\ Bounded(TakenBy(ch, s, r)) /\ Bounded(Earlier(TakenBy(ch, s, r)))
                     /\ Newest(ch, s, r) = new[r] /\ Before(ch, s, r) = old[r]

\* The ports of the two channels.
LEMMA Ports ==
  ASSUME NEW ch \in 0..1
  PROVE  /\ Base(ch) \in Nat /\ Base(1 - ch) \in Nat
         /\ \A r \in 0..7 : /\ Port(ch, r) = Base(ch) + r
                            /\ Port(ch, r) \notin Base(1 - ch) .. Base(1 - ch) + 7
         /\ \A r \in 8..11 : Port(ch, r) = Base(ch) + (r - 6)
         /\ Port(ch, 12) \in Nat
         /\ Port(ch, 12) \notin Base(ch) .. Base(ch) + 7
         /\ Port(ch, 12) \notin Base(1 - ch) .. Base(1 - ch) + 7
<1>1. /\ g_ide_channels[0] = [base |-> 496, control |-> 1014]
      /\ g_ide_channels[1] = [base |-> 368, control |-> 886]
  BY SMT DEF g_ide_channels
<1>2. CASE ch = 0
  <2>1. Base(ch) = 496 /\ Base(1 - ch) = 368 /\ g_ide_channels[ch].control = 1014
    BY <1>1, <1>2, SMT DEF Base
  <2>2. Port(ch, 12) = 1016
    BY <1>1, <1>2, SMT DEF Port, HighOrder
  <2>3. \A r \in 0..7 : Port(ch, r) = Base(ch) + r
    BY SMT DEF Port, HighOrder, Base
  <2>4. \A r \in 8..11 : Port(ch, r) = Base(ch) + (r - 6)
    BY <2>1, SMT DEF Port, HighOrder, Base
  <2> QED  BY <2>1, <2>2, <2>3, <2>4, SMT
<1>3. CASE ch = 1
  <2>1. Base(ch) = 368 /\ Base(1 - ch) = 496 /\ g_ide_channels[ch].control = 886
    BY <1>1, <1>3, SMT DEF Base
  <2>2. Port(ch, 12) = 888
    BY <1>1, <1>3, SMT DEF Port, HighOrder
  <2>3. \A r \in 0..7 : Port(ch, r) = Base(ch) + r
    BY SMT DEF Port, HighOrder, Base
  <2>4. \A r \in 8..11 : Port(ch, r) = Base(ch) + (r - 6)
    BY <2>1, SMT DEF Port, HighOrder, Base
  <2> QED  BY <2>1, <2>2, <2>3, <2>4, SMT
<1> QED  BY <1>2, <1>3

\* The last value written among some accesses is the same when others follow.
LEMMA WrittenStays ==
  ASSUME NEW s \in Seq(PortAccess), NEW a \in PortAccess,
         NEW ks \in SUBSET (1..Len(s)), Bounded(ks)
  PROVE  Written(s \o <<a>>, ks) = Written(s, ks)
<1>1. CASE ks = {}
  BY <1>1 DEF Written
<1>2. CASE ks # {}
  <2> DEFINE last == CHOOSE k \in ks : \A j \in ks : j <= k
  <2>1. \E k \in ks : \A j \in ks : j <= k
    BY <1>2 DEF Bounded
  <2>2. last \in ks
    BY <2>1, Zenon
  <2> HIDE DEF last
  <2>3. (s \o <<a>>)[last] = s[last]
    BY <2>2
  <2>4. Written(s, ks) = s[last].data /\ Written(s \o <<a>>, ks) = (s \o <<a>>)[last].data
    BY <1>2, Zenon DEF Written, last
  <2> QED  BY <2>3, <2>4
<1> QED  BY <1>1, <1>2

\* Which positions a register takes from, after one more access.
LEMMA TakenAfter ==
  ASSUME NEW ch, NEW r, NEW s \in Seq(PortAccess), NEW a \in PortAccess
  PROVE  /\ TakenBy(ch, s, r) \in SUBSET (1..Len(s))
         /\ TakenBy(ch, s \o <<a>>, r) =
              TakenBy(ch, s, r) \cup (IF a.op = "out" /\ a.port = Base(ch) + r
                                      THEN {Len(s) + 1} ELSE {})
<1> DEFINE z == s \o <<a>>
<1>1. /\ Len(s) \in Nat /\ Len(z) = Len(s) + 1 /\ z[Len(s) + 1] = a
      /\ \A k \in 1..Len(s) : z[k] = s[k]
  OBVIOUS
<1> HIDE DEF z
<1>2. 1..Len(z) = 1..Len(s) \cup {Len(s) + 1}
  BY <1>1
<1>3. TakenBy(ch, s, r) \in SUBSET (1..Len(s))
  BY DEF TakenBy
<1>4. ASSUME NEW k
      PROVE  k \in TakenBy(ch, z, r) <=>
               k \in TakenBy(ch, s, r) \cup (IF a.op = "out" /\ a.port = Base(ch) + r
                                             THEN {Len(s) + 1} ELSE {})
  <2>1. CASE k \in 1..Len(s)
    <3>1. k # Len(s) + 1
      BY <1>1, <2>1
    <3>2. z[k] = s[k] /\ k \in 1..Len(z)
      BY <1>1, <1>2, <2>1
    <3> QED  BY <2>1, <3>1, <3>2, Zenon DEF TakenBy
  <2>2. CASE k = Len(s) + 1
    <3>1. k \notin 1..Len(s) /\ k \in 1..Len(z) /\ z[k] = a
      BY <1>1, <1>2, <2>2
    <3> QED  BY <2>2, <3>1, Zenon DEF TakenBy, Base
  <2>3. CASE k \notin 1..Len(s) /\ k # Len(s) + 1
    BY <1>2, <2>3, Zenon DEF TakenBy
  <2> QED  BY <2>1, <2>2, <2>3
<1> QED  BY <1>3, <1>4, Zenon DEF z

\* A read, or a write to another port, changes no register.
LEMMA Passes ==
  ASSUME NEW ch \in 0..1, NEW s, NEW new, NEW old, Leaves(ch, s, new, old),
         NEW a \in PortAccess, a.op = "in" \/ a.port \notin Base(ch) .. Base(ch) + 7,
         a.port \notin Base(1 - ch) .. Base(1 - ch) + 7
  PROVE  Leaves(ch, s \o <<a>>, new, old)
<1> DEFINE z == s \o <<a>>
<1>1. s \in Seq(PortAccess)
  BY DEF Leaves
<1>2. /\ z \in Seq(PortAccess) /\ Len(s) \in Nat /\ Len(z) = Len(s) + 1
      /\ z[Len(s) + 1] = a /\ \A k \in 1..Len(s) : z[k] = s[k]
  BY <1>1
<1>3. ASSUME NEW r \in 0..7
      PROVE  /\ TakenBy(ch, z, r) = TakenBy(ch, s, r)
             /\ Newest(ch, z, r) = Newest(ch, s, r)
             /\ Before(ch, z, r) = Before(ch, s, r)
  <2> DEFINE ks == TakenBy(ch, s, r)
  <2>1. ~ (a.op = "out" /\ a.port = Base(ch) + r)
    BY Ports
  <2>2. TakenBy(ch, z, r) = ks /\ ks \in SUBSET (1..Len(s))
    <3>1. /\ ks \in SUBSET (1..Len(s))
          /\ TakenBy(ch, z, r) = ks \cup (IF a.op = "out" /\ a.port = Base(ch) + r
                                         THEN {Len(s) + 1} ELSE {})
      BY <1>1, TakenAfter, Zenon
    <3> HIDE DEF ks, z
    <3> QED  BY <2>1, <3>1
  <2>3. Bounded(ks) /\ Bounded(Earlier(ks))
    BY Zenon DEF Leaves
  <2> HIDE DEF ks
  <2>4. Earlier(ks) \in SUBSET (1..Len(s))
    BY <2>2, Zenon DEF Earlier
  <2>5. Written(z, ks) = Written(s, ks) /\ Written(z, Earlier(ks)) = Written(s, Earlier(ks))
    BY <1>1, <2>2, <2>3, <2>4, WrittenStays
  <2> HIDE DEF z
  <2> QED  BY <2>2, <2>5, Zenon DEF Newest, Before, Earlier, ks
<1>4. \A k \in 1..Len(z) : z[k].port \notin Base(1 - ch) .. Base(1 - ch) + 7
  <2>1. \A k \in 1..Len(s) : s[k].port \notin Base(1 - ch) .. Base(1 - ch) + 7
    BY DEF Leaves
  <2> HIDE DEF z
  <2>2. ASSUME NEW k \in 1..Len(z) PROVE k \in 1..Len(s) \/ k = Len(s) + 1
    BY <1>2
  <2> QED  BY <1>2, <2>1, <2>2, Zenon
<1> HIDE DEF z
<1>5. Leaves(ch, z, new, old)
  <2>1. new \in [0..7 -> Nat] /\ old \in [0..7 -> Nat]
    BY Zenon DEF Leaves
  <2>2. ASSUME NEW r \in 0..7
        PROVE  /\ Bounded(TakenBy(ch, z, r)) /\ Bounded(Earlier(TakenBy(ch, z, r)))
               /\ Newest(ch, z, r) = new[r] /\ Before(ch, z, r) = old[r]
    BY <1>3, Zenon DEF Leaves
  <2> QED  BY <1>2, <1>4, <2>1, <2>2, Zenon DEF Leaves
<1> QED  BY <1>5, Zenon DEF z

\* A write to a register of the channel becomes its newest value, and what was the
\* newest is the one before.
LEMMA Arrives ==
  ASSUME NEW ch \in 0..1, NEW s, NEW new, NEW old, Leaves(ch, s, new, old),
         NEW reg \in 0..7, NEW d \in Nat
  PROVE  Leaves(ch, s \o <<Out(Base(ch) + reg, d)>>,
                [new EXCEPT ![reg] = d], [old EXCEPT ![reg] = new[reg]])
<1> DEFINE a == Out(Base(ch) + reg, d)
           z == s \o <<a>>
           n == Len(s) + 1
<1>0. a \in PortAccess /\ a.op = "out" /\ a.port = Base(ch) + reg /\ a.data = d
  BY Ports DEF Out, PortAccess
<1>1. s \in Seq(PortAccess)
  BY DEF Leaves
<1> HIDE DEF a
<1>2. /\ z \in Seq(PortAccess) /\ Len(s) \in Nat /\ Len(z) = n
      /\ z[n] = a /\ \A k \in 1..Len(s) : z[k] = s[k]
  BY <1>0, <1>1
<1>3. ASSUME NEW r \in 0..7, r # reg
      PROVE  /\ TakenBy(ch, z, r) = TakenBy(ch, s, r)
             /\ Newest(ch, z, r) = Newest(ch, s, r)
             /\ Before(ch, z, r) = Before(ch, s, r)
  <2> DEFINE ks == TakenBy(ch, s, r)
  <2>1. ~ (a.op = "out" /\ a.port = Base(ch) + r)
    BY <1>0, <1>3, Ports
  <2>2. TakenBy(ch, z, r) = ks /\ ks \in SUBSET (1..Len(s))
    <3>1. /\ ks \in SUBSET (1..Len(s))
          /\ TakenBy(ch, z, r) = ks \cup (IF a.op = "out" /\ a.port = Base(ch) + r
                                         THEN {Len(s) + 1} ELSE {})
      BY <1>0, <1>1, TakenAfter, Zenon
    <3> HIDE DEF ks, z
    <3> QED  BY <2>1, <3>1
  <2>3. Bounded(ks) /\ Bounded(Earlier(ks))
    BY Zenon DEF Leaves
  <2> HIDE DEF ks
  <2>4. Earlier(ks) \in SUBSET (1..Len(s))
    BY <2>2, Zenon DEF Earlier
  <2>5. Written(z, ks) = Written(s, ks) /\ Written(z, Earlier(ks)) = Written(s, Earlier(ks))
    BY <1>0, <1>1, <2>2, <2>3, <2>4, WrittenStays
  <2> HIDE DEF z
  <2> QED  BY <2>2, <2>5, Zenon DEF Newest, Before, Earlier, ks
<1>4. /\ Bounded(TakenBy(ch, z, reg)) /\ Bounded(Earlier(TakenBy(ch, z, reg)))
      /\ Newest(ch, z, reg) = d /\ Before(ch, z, reg) = new[reg]
  <2> DEFINE ks == TakenBy(ch, s, reg)
             more == ks \cup {n}
  <2>1. TakenBy(ch, z, reg) = more /\ ks \in SUBSET (1..Len(s))
    BY <1>0, <1>1, TakenAfter, ZenonT(40)
  <2>2. Bounded(ks) /\ Written(s, ks) = new[reg]
    BY Zenon DEF Leaves, Newest
  <2> HIDE DEF ks, z
  <2>3. \A j \in more : j <= n
    BY <1>2, <2>1
  <2>4. \A k \in ks : k < n /\ ~ (n < k) /\ k # n
    BY <1>2, <2>1
  <2>5. \A k \in more : (\A j \in more : j <= k) => k = n
    BY <1>2, <2>1, <2>4
  <2>6. Earlier(more) = ks
    <3>1. \A j \in more : ~ (n < j)
      BY <1>2, <2>3, <2>1
    <3> HIDE DEF n
    <3> QED  BY <2>4, <3>1, Zenon DEF Earlier
  <2> HIDE DEF n
  <2>7. n \in more /\ more # {}
    OBVIOUS
  <2> HIDE DEF more
  <2>8. Bounded(more)
    BY <2>3, <2>7, Zenon DEF Bounded
  <2>9. Written(z, more) = d
    <3>1. (CHOOSE k \in more : \A j \in more : j <= k) = n
      BY <2>3, <2>5, <2>7, Zenon
    <3> QED  BY <1>0, <1>2, <2>7, <3>1, Zenon DEF Written
  <2>10. Written(z, ks) = new[reg]
    BY <1>0, <1>1, <2>1, <2>2, WrittenStays, Zenon DEF z
  <2> QED  BY <2>1, <2>2, <2>6, <2>8, <2>9, <2>10, Zenon DEF Newest, Before, Earlier
<1>5. \A k \in 1..Len(z) : z[k].port \notin Base(1 - ch) .. Base(1 - ch) + 7
  <2>1. \A k \in 1..Len(s) : s[k].port \notin Base(1 - ch) .. Base(1 - ch) + 7
    BY DEF Leaves
  <2>3. a.port \notin Base(1 - ch) .. Base(1 - ch) + 7
    BY <1>0, Ports
  <2> HIDE DEF z
  <2>2. ASSUME NEW k \in 1..Len(z) PROVE k \in 1..Len(s) \/ k = n
    BY <1>2
  <2> QED  BY <1>2, <2>1, <2>2, <2>3, Zenon
<1> HIDE DEF z
<1> DEFINE new2 == [new EXCEPT ![reg] = d]
           old2 == [old EXCEPT ![reg] = new[reg]]
<1>6. new \in [0..7 -> Nat] /\ old \in [0..7 -> Nat]
  BY Zenon DEF Leaves
<1>7. new2 \in [0..7 -> Nat] /\ old2 \in [0..7 -> Nat]
  BY <1>6
<1>8. new2[reg] = d /\ old2[reg] = new[reg]
  BY <1>6
<1>9. \A r \in 0..7 : r # reg => new2[r] = new[r] /\ old2[r] = old[r]
  BY <1>6
<1> HIDE DEF new2, old2
<1>10. ASSUME NEW r \in 0..7
      PROVE  /\ Bounded(TakenBy(ch, z, r)) /\ Bounded(Earlier(TakenBy(ch, z, r)))
             /\ Newest(ch, z, r) = new2[r] /\ Before(ch, z, r) = old2[r]
  <2>1. CASE r = reg
    BY <1>4, <1>8, <2>1, Zenon
  <2>2. CASE r # reg
    BY <1>3, <1>9, <2>2, Zenon DEF Leaves
  <2> QED  BY <2>1, <2>2
<1>11. Leaves(ch, z, new2, old2)
  BY <1>2, <1>5, <1>7, <1>10, Zenon DEF Leaves
<1> QED  BY <1>11, Zenon DEF z, a, new2, old2

-----------------------------------------------------------------------------
(* What ide_ata_access leaves there.                                       *)

\* A write to a register of one byte, and one to the second byte of a two-deep
\* register, which goes the same way between two writes of CONTROL; neither these nor
\* a read of the status change a register.
LEMMA RegisterWrites ==
  ASSUME NEW ch \in 0..1, NEW s, NEW new, NEW old, Leaves(ch, s, new, old), NEW d \in Nat
  PROVE  /\ \A reg \in 0..7 : Leaves(ch, s \o ide_write_register(ch, reg, d),
                                     [new EXCEPT ![reg] = d], [old EXCEPT ![reg] = new[reg]])
         /\ \A reg \in 2..5 : Leaves(ch, s \o ide_write_register(ch, reg + 6, d),
                                     [new EXCEPT ![reg] = d], [old EXCEPT ![reg] = new[reg]])
         /\ Leaves(ch, s \o ide_write_register(ch, CONTROL, d), new, old)
         /\ Leaves(ch, s \o ide_read_register(ch, STATUS), new, old)
<1>1. ASSUME NEW reg \in 0..7
      PROVE  Leaves(ch, s \o ide_write_register(ch, reg, d),
                    [new EXCEPT ![reg] = d], [old EXCEPT ![reg] = new[reg]])
  <2>1. ~ HighOrder(reg) /\ Port(ch, reg) = Base(ch) + reg
    BY Ports DEF HighOrder
  <2>2. ide_write_register(ch, reg, d) = <<Out(Base(ch) + reg, d)>>
    BY <2>1, Zenon DEF ide_write_register, Bracket
  <2> QED  BY <2>2, Arrives
<1> DEFINE on  == Out(Port(ch, CONTROL), 128 + NoIntr)
           off == Out(Port(ch, CONTROL), NoIntr)
<1>2. /\ on \in PortAccess /\ on.port = Port(ch, CONTROL)
      /\ off \in PortAccess /\ off.port = Port(ch, CONTROL)
  BY Ports DEF Out, PortAccess, CONTROL, NoIntr
<1>3. /\ Port(ch, CONTROL) \notin Base(ch) .. Base(ch) + 7
      /\ Port(ch, CONTROL) \notin Base(1 - ch) .. Base(1 - ch) + 7
  BY Ports, Zenon DEF CONTROL
<1> HIDE DEF on, off
<1>4. ASSUME NEW reg \in 2..5
      PROVE  Leaves(ch, s \o ide_write_register(ch, reg + 6, d),
                    [new EXCEPT ![reg] = d], [old EXCEPT ![reg] = new[reg]])
  <2> DEFINE w  == Out(Base(ch) + reg, d)
             s1 == s \o <<on>>
             s2 == s1 \o <<w>>
             s3 == s2 \o <<off>>
             new2 == [new EXCEPT ![reg] = d]
             old2 == [old EXCEPT ![reg] = new[reg]]
  <2>1. HighOrder(reg + 6) /\ Port(ch, reg + 6) = Base(ch) + reg
    <3>1. reg + 6 \in 8..11 /\ (reg + 6) - 6 = reg
      OBVIOUS
    <3> QED  BY <3>1, Ports DEF HighOrder
  <2>2. ide_write_register(ch, reg + 6, d) = <<on>> \o <<w>> \o <<off>>
    BY <2>1, Zenon DEF ide_write_register, Bracket, on, off
  <2>3. Leaves(ch, s1, new, old)
    BY <1>2, <1>3, Passes
  <2>4. Leaves(ch, s2, new2, old2)
    <3> HIDE DEF s1
    <3>1. reg \in 0..7
      OBVIOUS
    <3> QED  BY <2>3, <3>1, Arrives
  <2>5. Leaves(ch, s3, new2, old2)
    <3> HIDE DEF s2, new2, old2
    <3> QED  BY <1>2, <1>3, <2>4, Passes
  <2>6. s3 = s \o (<<on>> \o <<w>> \o <<off>>)
    <3>1. s \in Seq(PortAccess)
      BY Zenon DEF Leaves
    <3>2. w \in PortAccess
      BY Ports DEF Out, PortAccess
    <3> HIDE DEF w
    <3> QED  BY <1>2, <3>1, <3>2
  <2> QED  BY <2>2, <2>5, <2>6, Zenon
<1>5. Leaves(ch, s \o ide_write_register(ch, CONTROL, d), new, old)
  <2> DEFINE w == Out(Port(ch, CONTROL), d)
  <2>1. w \in PortAccess /\ w.port = Port(ch, CONTROL)
    BY Ports DEF Out, PortAccess, CONTROL
  <2>2. ide_write_register(ch, CONTROL, d) = <<w>>
    BY DEF ide_write_register, Bracket, HighOrder, CONTROL
  <2> HIDE DEF w
  <2> QED  BY <1>3, <2>1, <2>2, Passes
<1>6. Leaves(ch, s \o ide_read_register(ch, STATUS), new, old)
  <2> DEFINE a == In(Port(ch, STATUS))
  <2>1. /\ a \in PortAccess /\ a.op = "in"
        /\ a.port \notin Base(1 - ch) .. Base(1 - ch) + 7
    BY Ports DEF In, PortAccess, STATUS
  <2>2. ide_read_register(ch, STATUS) = <<a>>
    BY DEF ide_read_register, Bracket, HighOrder, STATUS
  <2> HIDE DEF a
  <2> QED  BY <2>1, <2>2, Passes
<1> QED  BY <1>1, <1>4, <1>5, <1>6

\* Before the first access.
LEMMA NothingLeft ==
  ASSUME NEW ch \in 0..1
  PROVE  Leaves(ch, <<>>, [r \in 0..7 |-> 0], [r \in 0..7 |-> 0])
<1>1. \A r : TakenBy(ch, <<>>, r) = {}
  BY DEF TakenBy
<1>2. Earlier({}) = {}
  BY DEF Earlier
<1>3. Bounded({}) /\ Written(<<>>, {}) = 0
  BY DEF Bounded, Written
<1>4. \A r : Newest(ch, <<>>, r) = 0 /\ Before(ch, <<>>, r) = 0
  BY <1>1, <1>2, <1>3, Zenon DEF Newest, Before, Earlier
<1> DEFINE z == [r \in 0..7 |-> 0]
<1>5. z \in [0..7 -> Nat] /\ \A r \in 0..7 : z[r] = 0
  OBVIOUS
<1>6. <<>> \in Seq(PortAccess) /\ 1..Len(<<>>) = {}
  OBVIOUS
<1> HIDE DEF z
<1>7. Leaves(ch, <<>>, z, z)
  BY <1>1, <1>2, <1>3, <1>4, <1>5, <1>6, Zenon DEF Leaves
<1> QED  BY <1>7, Zenon DEF z

\* The writes of an LBA48 command to the second bytes, and what they leave.
HighPart(ch, io3) ==
  ide_write_register(ch, SECCOUNT1, 0) \o ide_write_register(ch, LBA3, io3)
    \o ide_write_register(ch, LBA4, 0) \o ide_write_register(ch, LBA5, 0)

HighLeft(ch, s, selected, io3) ==
  \E n, o : /\ Leaves(ch, s, n, o)
            /\ n[2] = 0 /\ n[3] = io3 /\ n[4] = 0 /\ n[5] = 0 /\ n[6] = selected

\* They leave that, after whatever came before.
LEMMA HighWrites ==
  ASSUME NEW ch \in 0..1, NEW s, NEW new, NEW old, Leaves(ch, s, new, old),
         NEW io3 \in Nat
  PROVE  HighLeft(ch, s \o HighPart(ch, io3), new[6], io3)
<1> DEFINE w1 == ide_write_register(ch, 2 + 6, 0)
           w2 == ide_write_register(ch, 3 + 6, io3)
           w3 == ide_write_register(ch, 4 + 6, 0)
           w4 == ide_write_register(ch, 5 + 6, 0)
           n1 == [new EXCEPT ![2] = 0]
           n2 == [n1 EXCEPT ![3] = io3]
           n3 == [n2 EXCEPT ![4] = 0]
           n4 == [n3 EXCEPT ![5] = 0]
           o1 == [old EXCEPT ![2] = new[2]]
           o2 == [o1 EXCEPT ![3] = n1[3]]
           o3 == [o2 EXCEPT ![4] = n2[4]]
           o4 == [o3 EXCEPT ![5] = n3[5]]
           s1 == s \o w1
           s2 == s1 \o w2
           s3 == s2 \o w3
           s4 == s3 \o w4
<1>0. new \in [0..7 -> Nat] /\ s \in Seq(PortAccess)
  BY Zenon DEF Leaves
<1>1. 2 \in 2..5 /\ 3 \in 2..5 /\ 4 \in 2..5 /\ 5 \in 2..5 /\ 0 \in Nat
  OBVIOUS
<1>2. n4[2] = 0 /\ n4[3] = io3 /\ n4[4] = 0 /\ n4[5] = 0 /\ n4[6] = new[6]
  BY <1>0, SMTT(30)
<1> HIDE DEF w1, w2, w3, w4
<1>3. Leaves(ch, s1, n1, o1)
  BY <1>1, RegisterWrites DEF w1
<1> HIDE DEF n1, o1, s1
<1>4. Leaves(ch, s2, n2, o2)
  BY <1>1, <1>3, RegisterWrites DEF w2
<1> HIDE DEF n2, o2, s2
<1>5. Leaves(ch, s3, n3, o3)
  BY <1>1, <1>4, RegisterWrites DEF w3
<1> HIDE DEF n3, o3, s3
<1>6. Leaves(ch, s4, n4, o4)
  BY <1>1, <1>5, RegisterWrites DEF w4
<1> HIDE DEF n4, o4
<1>7. s4 = s \o (w1 \o w2 \o w3 \o w4)
  <2>1. ASSUME NEW reg \in 2..5, NEW d \in Nat
        PROVE  ide_write_register(ch, reg + 6, d) \in Seq(PortAccess)
    <3>1. /\ Out(Port(ch, reg + 6), d) \in PortAccess
          /\ Out(Port(ch, CONTROL), 128 + NoIntr) \in PortAccess
          /\ Out(Port(ch, CONTROL), NoIntr) \in PortAccess
      BY Ports DEF Out, PortAccess, CONTROL, NoIntr
    <3> QED  BY <3>1 DEF ide_write_register, Bracket
  <2>2. /\ w1 \in Seq(PortAccess) /\ w2 \in Seq(PortAccess)
        /\ w3 \in Seq(PortAccess) /\ w4 \in Seq(PortAccess)
    BY <1>1, <2>1 DEF w1, w2, w3, w4
  <2>3. \A x, y, z \in Seq(PortAccess) : (x \o y) \o z = x \o (y \o z)
    BY ConcatAssociative
  <2>4. \A x, y \in Seq(PortAccess) : x \o y \in Seq(PortAccess)
    OBVIOUS
  <2> DEFINE u == w1 \o w2
             t == u \o w3
  <2>5. (s \o w1) \o w2 = s \o u /\ u \in Seq(PortAccess)
    BY <1>0, <2>2, <2>3, <2>4, ZenonT(40)
  <2> HIDE DEF u
  <2>6. (s \o u) \o w3 = s \o t /\ t \in Seq(PortAccess)
    <3>1. t \in Seq(PortAccess)
      BY <2>2, <2>4, <2>5, Zenon
    <3>2. (s \o u) \o w3 = s \o t
      BY <1>0, <2>2, <2>3, <2>5, Zenon
    <3> QED  BY <3>1, <3>2
  <2> HIDE DEF t
  <2>7. (s \o t) \o w4 = s \o (t \o w4)
    BY <1>0, <2>2, <2>3, <2>6
  <2>8. s4 = ((s \o w1) \o w2 \o w3) \o w4
    BY DEF s1, s2, s3
  <2> QED  BY <2>5, <2>6, <2>7, <2>8, Zenon DEF u, t
<1>8. /\ ide_write_register(ch, SECCOUNT1, 0) = w1 /\ ide_write_register(ch, LBA3, io3) = w2
      /\ ide_write_register(ch, LBA4, 0) = w3 /\ ide_write_register(ch, LBA5, 0) = w4
  <2>1. SECCOUNT1 = 2 + 6 /\ LBA3 = 3 + 6 /\ LBA4 = 4 + 6 /\ LBA5 = 5 + 6
    BY DEF SECCOUNT1, LBA3, LBA4, LBA5
  <2> QED  BY <2>1, Zenon DEF w1, w2, w3, w4
<1> HIDE DEF s4
<1>9. s4 = s \o HighPart(ch, io3)
  BY <1>7, <1>8, Zenon DEF HighPart
<1> QED  BY <1>2, <1>6, <1>9, Zenon DEF HighLeft

\* The writes of any command to the first bytes, with the command, and what they leave.
LowPart(s, ch, num, io0, io1, io2, command) ==
  s \o ide_write_register(ch, SECCOUNT0, num)
    \o ide_write_register(ch, LBA0, io0)
    \o ide_write_register(ch, LBA1, io1)
    \o ide_write_register(ch, LBA2, io2)
    \o ide_write_register(ch, COMMAND, command)

LowLeft(ch, z, new, num, io0, io1, io2, command) ==
  /\ z[Len(z)].port = Base(ch) + COMMAND
  /\ \E n, o : /\ Leaves(ch, z, n, o)
               /\ n[2] = num /\ n[3] = io0 /\ n[4] = io1 /\ n[5] = io2
               /\ n[6] = new[6] /\ n[7] = command
               /\ o[2] = new[2] /\ o[3] = new[3] /\ o[4] = new[4] /\ o[5] = new[5]

\* They leave that, after whatever came before.
LEMMA LowWrites ==
  ASSUME NEW ch \in 0..1, NEW s, NEW new, NEW old, Leaves(ch, s, new, old),
         NEW num \in Nat, NEW io0 \in Nat, NEW io1 \in Nat, NEW io2 \in Nat,
         NEW command \in Nat
  PROVE  LowLeft(ch, LowPart(s, ch, num, io0, io1, io2, command), new,
                 num, io0, io1, io2, command)
<1> DEFINE w2 == ide_write_register(ch, 2, num)
           w3 == ide_write_register(ch, 3, io0)
           w4 == ide_write_register(ch, 4, io1)
           w5 == ide_write_register(ch, 5, io2)
           w7 == ide_write_register(ch, 7, command)
           n1 == [new EXCEPT ![2] = num]
           n2 == [n1 EXCEPT ![3] = io0]
           n3 == [n2 EXCEPT ![4] = io1]
           n4 == [n3 EXCEPT ![5] = io2]
           n5 == [n4 EXCEPT ![7] = command]
           o1 == [old EXCEPT ![2] = new[2]]
           o2 == [o1 EXCEPT ![3] = n1[3]]
           o3 == [o2 EXCEPT ![4] = n2[4]]
           o4 == [o3 EXCEPT ![5] = n3[5]]
           o5 == [o4 EXCEPT ![7] = n4[7]]
           s1 == s \o w2
           s2 == s1 \o w3
           s3 == s2 \o w4
           s4 == s3 \o w5
           s5 == s4 \o w7
<1>0. new \in [0..7 -> Nat] /\ old \in [0..7 -> Nat]
  BY Zenon DEF Leaves
<1>1. 2 \in 0..7 /\ 3 \in 0..7 /\ 4 \in 0..7 /\ 5 \in 0..7 /\ 7 \in 0..7
  OBVIOUS
<1>2. /\ n5[2] = num /\ n5[3] = io0 /\ n5[4] = io1 /\ n5[5] = io2
      /\ n5[6] = new[6] /\ n5[7] = command
  BY <1>0
<1>9. o5[2] = new[2] /\ o5[3] = new[3] /\ o5[4] = new[4] /\ o5[5] = new[5]
  BY <1>0
<1> HIDE DEF w2, w3, w4, w5, w7
<1>3. Leaves(ch, s1, n1, o1)
  BY <1>1, RegisterWrites DEF w2
<1> HIDE DEF n1, o1, s1
<1>4. Leaves(ch, s2, n2, o2)
  BY <1>1, <1>3, RegisterWrites DEF w3
<1> HIDE DEF n2, o2, s2
<1>5. Leaves(ch, s3, n3, o3)
  BY <1>1, <1>4, RegisterWrites DEF w4
<1> HIDE DEF n3, o3, s3
<1>6. Leaves(ch, s4, n4, o4)
  BY <1>1, <1>5, RegisterWrites DEF w5
<1> HIDE DEF n4, o4, s4
<1>7. Leaves(ch, s5, n5, o5)
  BY <1>1, <1>6, RegisterWrites DEF w7
<1> HIDE DEF n5, o5
<1>8. s5[Len(s5)].port = Base(ch) + COMMAND
  <2> DEFINE a == Out(Base(ch) + 7, command)
  <2>1. w7 = <<a>>
    <3>1. ~ HighOrder(7) /\ Port(ch, 7) = Base(ch) + 7
      BY <1>1, Ports DEF HighOrder
    <3> QED  BY <3>1, Zenon DEF w7, ide_write_register, Bracket
  <2>2. a \in PortAccess /\ a.port = Base(ch) + COMMAND
    BY Ports DEF Out, PortAccess, COMMAND
  <2>3. s4 \in Seq(PortAccess)
    BY <1>6, Zenon DEF Leaves
  <2> HIDE DEF a
  <2>4. s5[Len(s5)] = a
    BY <2>1, <2>2, <2>3
  <2> QED  BY <2>2, <2>4, Zenon
<1> HIDE DEF s5
<1>10. s5 = LowPart(s, ch, num, io0, io1, io2, command)
  BY DEF s1, s2, s3, s4, s5, w2, w3, w4, w5, w7, LowPart, SECCOUNT0, LBA0, LBA1, LBA2,
         COMMAND
<1> QED  BY <1>2, <1>7, <1>8, <1>9, <1>10, Zenon DEF LowLeft

\* What a task file is made of.
LEMMA TaskFileParts ==
  ASSUME NEW lba \in Address, NEW cap \in BOOLEAN
  PROVE  LET tf == TaskFile(lba, cap)
         IN  /\ tf = [ext |-> tf.ext, lba |-> tf.lba, head |-> tf.head, io0 |-> tf.io0,
                      io1 |-> tf.io1, io2 |-> tf.io2, io3 |-> tf.io3]
             /\ tf.lba \in BOOLEAN
             /\ IF lba_mode(lba, cap) = "LBA48" THEN tf.ext = TRUE
                ELSE tf.ext = FALSE /\ tf.io3 = 0
<1> DEFINE of(e, l, h, a, b, c, d) == [ext |-> e, lba |-> l, head |-> h, io0 |-> a,
                                       io1 |-> b, io2 |-> c, io3 |-> d]
           tf == TaskFile(lba, cap)
<1>1. ASSUME NEW e, NEW l, NEW h, NEW a, NEW b, NEW c, NEW d, tf = of(e, l, h, a, b, c, d)
      PROVE  /\ tf = of(tf.ext, tf.lba, tf.head, tf.io0, tf.io1, tf.io2, tf.io3)
             /\ tf.lba = l /\ tf.ext = e /\ tf.io3 = d
  <2> HIDE DEF tf
  <2>1. tf.ext = e /\ tf.lba = l /\ tf.head = h /\ tf.io0 = a
    BY <1>1
  <2>2. tf.io1 = b /\ tf.io2 = c /\ tf.io3 = d
    BY <1>1
  <2> QED  BY <1>1, <2>1, <2>2, Zenon
<1>2. CASE lba_mode(lba, cap) = "LBA48"
  <2>1. tf = of(TRUE, TRUE, 0, ByteOf(lba, 1), ByteOf(lba, 256), ByteOf(lba, W2),
                ByteOf(lba, W3))
    BY <1>2, Zenon DEF TaskFile
  <2> HIDE DEF tf
  <2>2. tf = of(tf.ext, tf.lba, tf.head, tf.io0, tf.io1, tf.io2, tf.io3)
        /\ tf.lba = TRUE /\ tf.ext = TRUE
    BY <1>1, <2>1, Zenon
  <2> QED  BY <1>2, <2>2, Zenon DEF tf
<1>3. CASE lba_mode(lba, cap) # "LBA48" /\ lba_mode(lba, cap) = "LBA28"
  <2>1. tf = of(FALSE, TRUE, (lba \div W3) % 16, ByteOf(lba, 1), ByteOf(lba, 256),
                ByteOf(lba, W2), 0)
    BY <1>3, Zenon DEF TaskFile
  <2> HIDE DEF tf
  <2>2. tf = of(tf.ext, tf.lba, tf.head, tf.io0, tf.io1, tf.io2, tf.io3)
        /\ tf.lba = TRUE /\ tf.ext = FALSE /\ tf.io3 = 0
    BY <1>1, <2>1, Zenon
  <2> QED  BY <1>3, <2>2, Zenon DEF tf
<1>4. CASE lba_mode(lba, cap) # "LBA48" /\ lba_mode(lba, cap) # "LBA28"
  <2>1. tf = of(FALSE, FALSE, CHS(lba).head, CHS(lba).sect, ByteOf(CHS(lba).cyl, 1),
                ByteOf(CHS(lba).cyl, 256), 0)
    BY <1>4, Zenon DEF TaskFile
  <2> HIDE DEF tf
  <2>2. tf = of(tf.ext, tf.lba, tf.head, tf.io0, tf.io1, tf.io2, tf.io3)
        /\ tf.lba = FALSE /\ tf.ext = FALSE /\ tf.io3 = 0
    BY <1>1, <2>1, Zenon
  <2> QED  BY <1>4, <2>2, Zenon DEF tf
<1> QED  BY <1>2, <1>3, <1>4, Zenon

\* What ide_ata_access puts into HDDEVSEL.
Selector(tf, drive) == (IF tf.lba THEN 224 ELSE 160) + 16 * drive + tf.head

\* The drive reads the mode, its own number and the top of the address from it.
LEMMA SelectorReads ==
  ASSUME NEW tf, tf.lba \in BOOLEAN, tf.head \in 0..15, NEW drive \in 0..1
  PROVE  LET select == Selector(tf, drive)
         IN  /\ select \in Nat
             /\ (select \div 16) % 2 = drive
             /\ select % 16 = tf.head
             /\ ((select \div 64) % 2 = 1) = tf.lba
<1> DEFINE head == tf.head
<1>1. head \in 0..15
  OBVIOUS
<1> HIDE DEF head
<1>2. CASE tf.lba = TRUE
  <2>1. Selector(tf, drive) = 224 + 16 * drive + head
    BY <1>2, SMT DEF Selector, head
  <2>2. /\ ((224 + 16 * drive + head) \div 16) % 2 = drive
        /\ (224 + 16 * drive + head) % 16 = head
        /\ ((224 + 16 * drive + head) \div 64) % 2 = 1
        /\ 224 + 16 * drive + head \in Nat
    <3>1. drive = 0 \/ drive = 1
      OBVIOUS
    <3> QED  BY <1>1, <3>1, SMT
  <2> QED  BY <1>2, <2>1, <2>2, SMT DEF head
<1>3. CASE tf.lba = FALSE
  <2>1. Selector(tf, drive) = 160 + 16 * drive + head
    BY <1>3, SMT DEF Selector, head
  <2>2. /\ ((160 + 16 * drive + head) \div 16) % 2 = drive
        /\ (160 + 16 * drive + head) % 16 = head
        /\ ((160 + 16 * drive + head) \div 64) % 2 = 0
        /\ 160 + 16 * drive + head \in Nat
    <3>1. drive = 0 \/ drive = 1
      OBVIOUS
    <3> QED  BY <1>1, <3>1, SMT
  <2>3. ((Selector(tf, drive) \div 64) % 2 = 1) = FALSE
    BY <2>1, <2>2, SMT
  <2>4. Selector(tf, drive) \in Nat /\ (Selector(tf, drive) \div 16) % 2 = drive
        /\ Selector(tf, drive) % 16 = tf.head
    BY <2>1, <2>2, SMT DEF head
  <2> QED  BY <1>3, <2>3, <2>4, Zenon
<1> QED  BY <1>2, <1>3

\* The command and what it says.
LEMMA CommandSays ==
  ASSUME NEW lba, NEW cap, NEW dir \in {"read", "write"}
  PROVE  LET command == CommandOf(lba_mode(lba, cap), dir)
         IN  /\ command \in Nat
             /\ (IF command \in {32, 36} THEN "read" ELSE "write") = dir
             /\ Ext(command) <=> lba_mode(lba, cap) = "LBA48"
<1> DEFINE mode == lba_mode(lba, cap)
<1> HIDE DEF mode
<1>1. CASE dir = "read" /\ mode # "LBA48"
  <2>1. CommandOf(mode, dir) = 32
    BY <1>1 DEF CommandOf
  <2> QED  BY <1>1, <2>1, SMT DEF Ext, mode
<1>2. CASE dir = "read" /\ mode = "LBA48"
  <2>1. CommandOf(mode, dir) = 36
    BY <1>2 DEF CommandOf
  <2> QED  BY <1>2, <2>1, SMT DEF Ext, mode
<1>3. CASE dir = "write" /\ mode # "LBA48"
  <2>1. CommandOf(mode, dir) = 48
    BY <1>3 DEF CommandOf
  <2> QED  BY <1>3, <2>1, SMT DEF Ext, mode
<1>4. CASE dir = "write" /\ mode = "LBA48"
  <2>1. CommandOf(mode, dir) = 52
    BY <1>4 DEF CommandOf
  <2> QED  BY <1>4, <2>1, SMT DEF Ext, mode
<1> QED  BY <1>1, <1>2, <1>3, <1>4

\* What the registers hold when the command has been given.
LEMMA AccessLeaves ==
  ASSUME NEW x, x.channel \in 0..1, x.drive \in 0..1, x.num \in Byte \ {0},
         x.lba \in Address, x.lbaCapable \in BOOLEAN, x.dir \in {"read", "write"}
  PROVE  LET tf   == TaskFile(x.lba, x.lbaCapable)
             mode == lba_mode(x.lba, x.lbaCapable)
             ch   == x.channel
             made == ide_ata_access(x)
         IN  /\ made[Len(made)].port = Base(ch) + COMMAND
             /\ \E n, o :
                  /\ Leaves(ch, made, n, o)
                  /\ n[2] = x.num /\ n[3] = tf.io0 /\ n[4] = tf.io1 /\ n[5] = tf.io2
                  /\ n[6] = Selector(tf, x.drive) /\ n[7] = CommandOf(mode, x.dir)
                  /\ o[2] = 0 /\ o[4] = 0 /\ o[5] = 0 /\ o[3] = tf.io3
<1> DEFINE tf   == TaskFile(x.lba, x.lbaCapable)
           mode == lba_mode(x.lba, x.lbaCapable)
           ch   == x.channel
           select == Selector(tf, x.drive)
           command == CommandOf(mode, x.dir)
           zero == [r \in 0..7 |-> 0]
           first == ide_write_register(ch, CONTROL, NoIntr)
           second == ide_read_register(ch, STATUS)
           third == ide_write_register(ch, HDDEVSEL, select)
           high == HighPart(ch, tf.io3)
           pre  == first \o second \o third
           mid  == pre \o (IF mode = "LBA48" THEN high ELSE <<>>)
           made == LowPart(mid, ch, x.num, tf.io0, tf.io1, tf.io2, command)
<1>1. ide_ata_access(x) = made
  BY Zenon DEF ide_ata_access, Selector, LowPart, HighPart
<1>2. /\ tf.head \in 0..15 /\ tf.io0 \in Nat /\ tf.io1 \in Nat /\ tf.io2 \in Nat
      /\ tf.io3 \in Nat /\ x.num \in Nat
  <2>1. \A b \in Byte : b \in Nat
    BY SMT DEF Byte
  <2> QED  BY <2>1, RegistersAreBytes, Zenon
<1>3. /\ tf.lba \in BOOLEAN /\ (mode # "LBA48" => tf.io3 = 0)
  BY TaskFileParts, Zenon
<1>4. select \in Nat
  BY <1>2, <1>3, SelectorReads
<1>5. command \in Nat
  BY CommandSays, Zenon
<1>6. NoIntr \in Nat
  BY DEF NoIntr
<1> HIDE DEF tf, mode, ch, select, command
<1>0. ch \in 0..1
  BY Zenon DEF ch
<1>7. Leaves(ch, first, zero, zero)
  <2>1. Leaves(ch, <<>>, zero, zero)
    BY <1>0, NothingLeft
  <2>2. Leaves(ch, <<>> \o first, zero, zero)
    <3> HIDE DEF zero
    <3> QED  BY <1>0, <1>6, <2>1, RegisterWrites
  <2>3. <<>> \o first = first
    <3>1. first = <<Out(Port(ch, CONTROL), NoIntr)>>
      BY DEF ide_write_register, Bracket, HighOrder, CONTROL
    <3> HIDE DEF first
    <3> QED  BY <3>1
  <2> QED  BY <2>2, <2>3, Zenon
<1>8. zero[2] = 0 /\ zero[3] = 0 /\ zero[4] = 0 /\ zero[5] = 0 /\ zero \in [0..7 -> Nat]
  OBVIOUS
<1> HIDE DEF zero, first
<1>9. Leaves(ch, first \o second, zero, zero)
  BY <1>0, <1>6, <1>7, RegisterWrites
<1> DEFINE new1 == [zero EXCEPT ![6] = select]
           old1 == [zero EXCEPT ![6] = zero[6]]
<1>10. Leaves(ch, pre, new1, old1)
  <2>1. HDDEVSEL = 6 /\ 6 \in 0..7
    BY DEF HDDEVSEL
  <2> HIDE DEF second
  <2> QED  BY <1>0, <1>4, <1>9, <2>1, RegisterWrites
<1>11. new1[2] = 0 /\ new1[3] = 0 /\ new1[4] = 0 /\ new1[5] = 0 /\ new1[6] = select
  BY <1>8
<1> HIDE DEF new1, old1, pre
<1>12. \E n, o : /\ Leaves(ch, mid, n, o)
                 /\ n[2] = 0 /\ n[3] = tf.io3 /\ n[4] = 0 /\ n[5] = 0 /\ n[6] = select
  <2>1. CASE mode = "LBA48"
    <3>1. mid = pre \o high
      BY <2>1, Zenon
    <3> HIDE DEF mid
    <3>2. HighLeft(ch, pre \o high, new1[6], tf.io3)
      BY <1>0, <1>2, <1>10, HighWrites, Zenon
    <3> QED  BY <1>11, <3>1, <3>2, Zenon DEF HighLeft
  <2>2. CASE mode # "LBA48"
    <3>1. mid = pre
      <4>1. pre \in Seq(PortAccess)
        BY <1>10, Zenon DEF Leaves
      <4>2. mid = pre \o <<>>
        BY <2>2, Zenon
      <4> HIDE DEF mid
      <4> QED  BY <4>1, <4>2
    <3> HIDE DEF mid
    <3> QED  BY <1>3, <1>10, <1>11, <2>2, <3>1, Zenon
  <2> QED  BY <2>1, <2>2
<1> HIDE DEF mid
<1>13. PICK n0, o0 : /\ Leaves(ch, mid, n0, o0)
                     /\ n0[2] = 0 /\ n0[3] = tf.io3 /\ n0[4] = 0 /\ n0[5] = 0
                     /\ n0[6] = select
  BY <1>12, Zenon
<1>14. LowLeft(ch, made, n0, x.num, tf.io0, tf.io1, tf.io2, command)
  BY <1>0, <1>2, <1>5, <1>13, LowWrites, Zenon
<1> HIDE DEF made
<1>15. /\ made[Len(made)].port = Base(ch) + COMMAND
       /\ \E n, o :
            /\ Leaves(ch, made, n, o)
            /\ n[2] = x.num /\ n[3] = tf.io0 /\ n[4] = tf.io1 /\ n[5] = tf.io2
            /\ n[6] = select /\ n[7] = command
            /\ o[2] = 0 /\ o[3] = tf.io3 /\ o[4] = 0 /\ o[5] = 0
  BY <1>13, <1>14, Zenon DEF LowLeft
<1> QED  BY <1>1, <1>15, Zenon DEF tf, mode, ch, select, command

\* Through the ports of its channel the drive that was meant gets the command that was
\* meant, for every 32-bit address, every number of sectors and both channels.
THEOREM CommandsReachDrives == Spec => []CommandReachesDrive
<1>1. InputInv => CommandReachesDrive
  <2> SUFFICES ASSUME input \in Accesses,
                      input.lbaCapable \/ input.lba >= LBA28Limit \/ input.lba < CHSLimit
               PROVE  LET made  == ide_ata_access(input)
                          ch    == input.channel
                          other == g_ide_channels[1 - ch].base
                          block == ide_read_buffer(ch, DATA, 128)
                      IN  /\ Executed(ch, made) =
                               [dir |-> input.dir, drive |-> input.drive,
                                num |-> input.num, high |-> <<0, 0>>, lba |-> input.lba]
                          /\ made[Len(made)].port = g_ide_channels[ch].base + COMMAND
                          /\ \A s \in {made, block} : \A k \in DOMAIN s :
                               s[k].port \notin other .. other + 7
                          /\ 4 * Len(block) = 512
                          /\ \A k \in DOMAIN block : block[k] = In(g_ide_channels[ch].base)
    BY Zenon DEF InputInv, CommandReachesDrive
  <2> DEFINE x    == input
             tf   == TaskFile(x.lba, x.lbaCapable)
             mode == lba_mode(x.lba, x.lbaCapable)
             ch   == x.channel
             made == ide_ata_access(x)
             block == ide_read_buffer(ch, DATA, 128)
             select  == Selector(tf, x.drive)
             command == CommandOf(mode, x.dir)
  <2>1. /\ x.channel \in 0..1 /\ x.drive \in 0..1 /\ x.num \in Byte \ {0}
        /\ x.lba \in Address /\ x.lbaCapable \in BOOLEAN /\ x.dir \in {"read", "write"}
    BY PureAssumption
  <2>2. x.lbaCapable \/ x.lba >= LBA28Limit \/ x.lba < CHSLimit
    OBVIOUS
  <2> HIDE DEF x
  <2>3. /\ Decoded(tf) = x.lba
        /\ tf = [ext |-> tf.ext, lba |-> tf.lba, head |-> tf.head, io0 |-> tf.io0,
                 io1 |-> tf.io1, io2 |-> tf.io2, io3 |-> tf.io3]
        /\ tf.lba \in BOOLEAN
        /\ IF mode = "LBA48" THEN tf.ext = TRUE ELSE tf.ext = FALSE
    BY <2>1, <2>2, DriveDecodesLba, TaskFileParts, Zenon
  <2>4. /\ command \in Nat
        /\ (IF command \in {32, 36} THEN "read" ELSE "write") = x.dir
        /\ Ext(command) <=> mode = "LBA48"
    BY <2>1, CommandSays, Zenon
  <2>5. /\ (select \div 16) % 2 = x.drive
        /\ select % 16 = tf.head
        /\ ((select \div 64) % 2 = 1) = tf.lba
    <3>1. tf.head \in 0..15
      BY <2>1, RegistersAreBytes, Zenon
    <3> QED  BY <2>1, <2>3, <3>1, SelectorReads
  <2>6. /\ made[Len(made)].port = Base(ch) + COMMAND
        /\ \E n, o :
             /\ Leaves(ch, made, n, o)
             /\ n[2] = x.num /\ n[3] = tf.io0 /\ n[4] = tf.io1 /\ n[5] = tf.io2
             /\ n[6] = select /\ n[7] = command
             /\ o[2] = 0 /\ o[4] = 0 /\ o[5] = 0 /\ o[3] = tf.io3
    BY <2>1, AccessLeaves, Zenon
  <2> HIDE DEF tf, mode, ch, made, select, command
  <2>0. ch \in 0..1
    BY <2>1, Zenon DEF ch
  <2>7. PICK n, o :
             /\ Leaves(ch, made, n, o)
             /\ n[2] = x.num /\ n[3] = tf.io0 /\ n[4] = tf.io1 /\ n[5] = tf.io2
             /\ n[6] = select /\ n[7] = command
             /\ o[2] = 0 /\ o[4] = 0 /\ o[5] = 0 /\ o[3] = tf.io3
    BY <2>6, Zenon
  <2>8. \A r \in 0..7 : Newest(ch, made, r) = n[r] /\ Before(ch, made, r) = o[r]
    BY <2>7, Zenon DEF Leaves
  <2>9. /\ Newest(ch, made, SECCOUNT0) = x.num /\ Newest(ch, made, LBA0) = tf.io0
        /\ Newest(ch, made, LBA1) = tf.io1 /\ Newest(ch, made, LBA2) = tf.io2
        /\ Newest(ch, made, HDDEVSEL) = select /\ Newest(ch, made, COMMAND) = command
        /\ Before(ch, made, SECCOUNT0) = 0 /\ Before(ch, made, LBA0) = tf.io3
        /\ Before(ch, made, LBA1) = 0 /\ Before(ch, made, LBA2) = 0
    <3>1. 2 \in 0..7 /\ 3 \in 0..7 /\ 4 \in 0..7 /\ 5 \in 0..7 /\ 6 \in 0..7 /\ 7 \in 0..7
      OBVIOUS
    <3> QED  BY <2>7, <2>8, <3>1, Zenon DEF SECCOUNT0, LBA0, LBA1, LBA2, HDDEVSEL, COMMAND
  <2>10. Executed(ch, made) =
           [dir |-> x.dir, drive |-> x.drive, num |-> x.num, high |-> <<0, 0>>,
            lba |-> x.lba]
    <3> DEFINE rec == [ext  |-> Ext(command), lba |-> (select \div 64) % 2 = 1,
                       head |-> select % 16, io0 |-> tf.io0, io1 |-> tf.io1,
                       io2 |-> tf.io2, io3 |-> tf.io3]
    <3>1. Executed(ch, made) =
            [dir |-> IF command \in {32, 36} THEN "read" ELSE "write",
             drive |-> (select \div 16) % 2,
             num |-> x.num + 256 * (IF Ext(command) THEN 0 ELSE 0),
             high |-> IF Ext(command) THEN <<0, 0>> ELSE <<0, 0>>,
             lba |-> Decoded(rec)]
      BY <2>9 DEF Executed
    <3>2. /\ rec.ext <=> tf.ext
          /\ rec.lba = tf.lba /\ rec.head = tf.head /\ rec.io0 = tf.io0
          /\ rec.io1 = tf.io1 /\ rec.io2 = tf.io2 /\ rec.io3 = tf.io3
      <4>1. rec.ext <=> Ext(command)
        BY Zenon
      <4>2. rec.lba = ((select \div 64) % 2 = 1) /\ rec.head = select % 16
        BY Zenon
      <4>3. rec.io0 = tf.io0 /\ rec.io1 = tf.io1 /\ rec.io2 = tf.io2 /\ rec.io3 = tf.io3
        BY Zenon
      <4> HIDE DEF rec
      <4> QED  BY <2>3, <2>4, <2>5, <4>1, <4>2, <4>3, Zenon
    <3> HIDE DEF rec
    <3>3. Decoded(rec) = Decoded(tf)
      BY <3>2, ZenonT(40) DEF Decoded
    <3>4. x.num + 256 * (IF Ext(command) THEN 0 ELSE 0) = x.num
      <4>1. x.num \in Nat
        BY <2>1 DEF Byte
      <4> QED  BY <4>1, SMT
    <3> QED  BY <2>3, <2>4, <2>5, <3>1, <3>3, <3>4, ZenonT(40)
  <2>11. \A k \in DOMAIN made : made[k].port \notin Base(1 - ch) .. Base(1 - ch) + 7
    <3>1. made \in Seq(PortAccess)
      BY <2>7, Zenon DEF Leaves
    <3>2. DOMAIN made = 1..Len(made)
      BY <3>1
    <3> QED  BY <2>7, <3>2, Zenon DEF Leaves
  <2>12. /\ block = [k \in 1..128 |-> In(Base(ch))]
         /\ In(Base(ch)).port \notin Base(1 - ch) .. Base(1 - ch) + 7
    <3>1. ~ HighOrder(DATA) /\ DATA \in 0..7
      BY DEF HighOrder, DATA
    <3>2. Port(ch, DATA) = Base(ch)
      BY <2>0, Ports DEF DATA
    <3>3. block = [k \in 1..128 |-> In(Base(ch))]
      BY <3>1, <3>2, Zenon DEF ide_read_buffer, Bracket
    <3> QED  BY <2>0, <3>1, <3>2, <3>3, Ports DEF In
  <2>13. Len(block) = 128 /\ DOMAIN block = 1..128
    <3> HIDE DEF block
    <3> QED  BY <2>12
  <2> HIDE DEF block
  <2>14. \A k \in DOMAIN block : block[k] = In(Base(ch))
    BY <2>12, <2>13, Zenon
  <2>15. 4 * Len(block) = 512
    BY <2>13
  <2>16. \A s \in {made, block} : \A k \in DOMAIN s :
           s[k].port \notin Base(1 - ch) .. Base(1 - ch) + 7
    BY <2>11, <2>12, <2>14, Zenon
  <2> QED  BY <2>6, <2>10, <2>14, <2>15, <2>16, Zenon DEF Base, ch, made, block, x
<1> QED  BY <1>1, AlwaysGiven, PTL

-----------------------------------------------------------------------------
(* Functions defined from themselves.                                      *)

\* A set of naturals that is not empty has a least member.
LEMMA HasLeast ==
  ASSUME NEW T \in SUBSET Nat, T # {}
  PROVE  \E k \in T : \A j \in T : k <= j
<1> DEFINE Below == OpToRel(<, Nat)
<1>1. PICK k \in T : \A j \in T : <<j, k>> \notin Below
  <2>1. IsWellFoundedOn(Below, Nat)
    BY NatLessThanWellFounded
  <2> HIDE DEF Below
  <2> QED  BY <2>1, WFMin
<1>2. ASSUME NEW j \in T PROVE k <= j
  <2>1. ~ (j < k)
    BY <1>1 DEF OpToRel
  <2> QED  BY <2>1
<1> QED  BY <1>2

\* f obeys the rule up to m: f[0] is a, and f[n] comes from n and f[h[n]].
Obeys(f, m, S, a, h, g) ==
  /\ f \in [0..m -> S] /\ f[0] = a
  /\ \A n \in 1..m : f[n] = g[<<n, f[h[n]]>>]

Rules(S, a, h, g) ==
  /\ a \in S /\ h \in [Nat -> Nat] /\ g \in [Nat \X S -> S]
  /\ \A n \in Nat : n # 0 => h[n] < n

\* One more argument.
LEMMA ObeysExtends ==
  ASSUME NEW S, NEW a, NEW h, NEW g, Rules(S, a, h, g),
         NEW m \in Nat, NEW f, Obeys(f, m, S, a, h, g)
  PROVE  \E f2 : Obeys(f2, m + 1, S, a, h, g)
<1> DEFINE f2 == [n \in 0..(m + 1) |-> IF n <= m THEN f[n] ELSE g[<<m + 1, f[h[m + 1]]>>]]
<1>1. f \in [0..m -> S] /\ f[0] = a /\ \A n \in 1..m : f[n] = g[<<n, f[h[n]]>>]
  BY Zenon DEF Obeys
<1>2. /\ a \in S /\ h \in [Nat -> Nat] /\ g \in [Nat \X S -> S]
      /\ \A n \in Nat : n # 0 => h[n] < n
  BY Zenon DEF Rules
<1>3. \A n \in 1..(m + 1) : n \in Nat /\ h[n] \in 0..m
  BY <1>2
<1>4. f[h[m + 1]] \in S
  BY <1>1, <1>3
<1>5. g[<<m + 1, f[h[m + 1]]>>] \in S
  BY <1>2, <1>4
<1>6. f2 \in [0..(m + 1) -> S]
  BY <1>1, <1>5
<1>7. \A n \in 0..m : f2[n] = f[n]
  OBVIOUS
<1>8. f2[m + 1] = g[<<m + 1, f[h[m + 1]]>>]
  OBVIOUS
<1> HIDE DEF f2
<1>9. f2[0] = a
  BY <1>1, <1>7
<1>10. ASSUME NEW n \in 1..(m + 1) PROVE f2[n] = g[<<n, f2[h[n]]>>]
  <2>1. f2[h[n]] = f[h[n]]
    BY <1>3, <1>7
  <2>2. CASE n = m + 1
    BY <1>8, <2>1, <2>2
  <2>3. CASE n # m + 1
    <3>1. n \in 1..m /\ n \in 0..m
      BY <2>3
    <3> QED  BY <1>1, <1>7, <2>1, <3>1, Zenon
  <2> QED  BY <2>2, <2>3
<1> QED  BY <1>6, <1>9, <1>10, Zenon DEF Obeys

\* Every bound is reached.
LEMMA ObeysExists ==
  ASSUME NEW S, NEW a, NEW h, NEW g, Rules(S, a, h, g), NEW m \in Nat
  PROVE  \E f : Obeys(f, m, S, a, h, g)
<1> DEFINE Bad == {n \in Nat : ~ \E f : Obeys(f, n, S, a, h, g)}
<1>1. CASE Bad # {}
  <2>1. PICK n \in Bad : \A j \in Bad : n <= j
    <3>1. Bad \in SUBSET Nat
      OBVIOUS
    <3> HIDE DEF Bad
    <3> QED  BY <1>1, <3>1, HasLeast
  <2>2. n # 0
    <3> DEFINE f == [k \in 0..0 |-> a]
    <3>1. a \in S
      BY Zenon DEF Rules
    <3>2. f \in [0..0 -> S] /\ f[0] = a /\ 1..0 = {}
      BY <3>1
    <3> HIDE DEF f
    <3>3. Obeys(f, 0, S, a, h, g)
      BY <3>2, Zenon DEF Obeys
    <3> QED  BY <3>3, Zenon
  <2>3. n - 1 \in Nat /\ (n - 1) + 1 = n /\ n - 1 \notin Bad
    BY <2>1, <2>2
  <2>4. PICK f : Obeys(f, n - 1, S, a, h, g)
    BY <2>3
  <2>5. \E f2 : Obeys(f2, (n - 1) + 1, S, a, h, g)
    BY <2>3, <2>4, ObeysExtends
  <2> QED  BY <2>1, <2>3, <2>5
<1> QED  BY <1>1

\* Two such functions agree as far as they go.
LEMMA ObeysAgree ==
  ASSUME NEW S, NEW a, NEW h, NEW g, Rules(S, a, h, g),
         NEW m \in Nat, NEW f, Obeys(f, m, S, a, h, g),
         NEW m2 \in Nat, NEW f2, Obeys(f2, m2, S, a, h, g),
         NEW n \in Nat, n <= m, n <= m2
  PROVE  f[n] = f2[n]
<1> DEFINE Bad == {k \in Nat : k <= m /\ k <= m2 /\ f[k] # f2[k]}
<1>1. CASE Bad # {}
  <2>1. PICK k \in Bad : \A j \in Bad : k <= j
    <3>1. Bad \in SUBSET Nat
      OBVIOUS
    <3> HIDE DEF Bad
    <3> QED  BY <1>1, <3>1, HasLeast
  <2>2. f[0] = f2[0]
    BY Zenon DEF Obeys
  <2>3. k \in 1..m /\ k \in 1..m2 /\ k # 0
    BY <2>1, <2>2
  <2>4. h[k] \in Nat /\ h[k] < k
    BY <2>3 DEF Rules
  <2>5. f[h[k]] = f2[h[k]]
    BY <2>1, <2>4
  <2>6. f[k] = g[<<k, f[h[k]]>>] /\ f2[k] = g[<<k, f2[h[k]]>>]
    BY <2>3, Zenon DEF Obeys
  <2> QED  BY <2>1, <2>5, <2>6
<1> QED  BY <1>1

\* So there is a function on all naturals.
LEMMA Recursion ==
  ASSUME NEW S, NEW a, NEW h, NEW g, Rules(S, a, h, g)
  PROVE  \E f : /\ f \in [Nat -> S] /\ f[0] = a
                /\ \A n \in Nat : n # 0 => f[n] = g[<<n, f[h[n]]>>]
<1> DEFINE upto(m) == CHOOSE f : Obeys(f, m, S, a, h, g)
           F == [n \in Nat |-> upto(n)[n]]
<1>1. \A m \in Nat : Obeys(upto(m), m, S, a, h, g)
  BY ObeysExists, Zenon
<1>2. ASSUME NEW m \in Nat, NEW n \in 0..m PROVE F[n] = upto(m)[n]
  <2>1. n \in Nat /\ n <= m /\ n <= n
    OBVIOUS
  <2>2. Obeys(upto(m), m, S, a, h, g) /\ Obeys(upto(n), n, S, a, h, g)
    BY <1>1, <2>1, Zenon
  <2>3. F[n] = upto(n)[n]
    BY <2>1, Zenon
  <2> HIDE DEF upto, F
  <2> QED  BY <2>1, <2>2, <2>3, ObeysAgree
<1> HIDE DEF upto
<1>3. ASSUME NEW n \in Nat PROVE upto(n)[n] \in S
  BY <1>1, <1>3 DEF Obeys
<1>4. F \in [Nat -> S]
  BY <1>3
<1> HIDE DEF F
<1>5. F[0] = a
  <2>1. F[0] = upto(0)[0]
    BY <1>2
  <2> QED  BY <1>1, <2>1 DEF Obeys
<1>6. ASSUME NEW n \in Nat, n # 0 PROVE F[n] = g[<<n, F[h[n]]>>]
  <2>1. h[n] \in 0..n /\ n \in 1..n /\ n \in 0..n
    BY <1>6 DEF Rules
  <2>2. F[n] = upto(n)[n] /\ F[h[n]] = upto(n)[h[n]]
    BY <1>2, <2>1, Zenon
  <2>3. upto(n)[n] = g[<<n, upto(n)[h[n]]>>]
    BY <1>1, <2>1, Zenon DEF Obeys
  <2> QED  BY <2>2, <2>3, Zenon
<1> QED  BY <1>4, <1>5, <1>6, Zenon

\* Induction: a set of naturals that has every number below which it has all others.
LEMMA Induction ==
  ASSUME NEW T \in SUBSET Nat,
         \A n \in Nat : (\A k \in Nat : k < n => k \in T) => n \in T
  PROVE  T = Nat
<1> DEFINE Bad == Nat \ T
<1>1. CASE Bad # {}
  <2>1. PICK n \in Bad : \A j \in Bad : n <= j
    <3>1. Bad \in SUBSET Nat
      OBVIOUS
    <3> HIDE DEF Bad
    <3> QED  BY <1>1, <3>1, HasLeast
  <2>2. \A k \in Nat : k < n => k \in T
    BY <2>1
  <2> QED  BY <2>1, <2>2
<1> QED  BY <1>1

\* A loop of n turns: f[k] is the state after turn k.
Loops(f, n, S, a, g) ==
  f \in [0..n -> S] /\ f[0] = a /\ \A k \in 1..n : f[k] = g[<<k, f[k - 1]>>]

\* Every loop of a given number of turns ends.
LEMMA LoopExists ==
  ASSUME NEW S, NEW a \in S, NEW n \in Nat, NEW g \in [(1..n) \X S -> S]
  PROVE  \E f : Loops(f, n, S, a, g)
<1> DEFINE h  == [k \in Nat |-> IF k = 0 THEN 0 ELSE k - 1]
           g2 == [p \in Nat \X S |-> IF p[1] \in 1..n THEN g[<<p[1], p[2]>>] ELSE a]
<1>1. Rules(S, a, h, g2)
  <2>1. h \in [Nat -> Nat] /\ \A k \in Nat : k # 0 => h[k] < k
    OBVIOUS
  <2>2. g2 \in [Nat \X S -> S]
    <3>1. ASSUME NEW p \in Nat \X S PROVE g2[p] \in S
      <4>1. p[2] \in S
        OBVIOUS
      <4>2. CASE p[1] \in 1..n
        <5>1. <<p[1], p[2]>> \in (1..n) \X S
          BY <4>1, <4>2
        <5> QED  BY <4>2, <5>1
      <4>3. CASE p[1] \notin 1..n
        BY <4>3
      <4> QED  BY <4>2, <4>3
    <3> QED  BY <3>1
  <2> QED  BY <2>1, <2>2, Zenon DEF Rules
<1>2. PICK f : Obeys(f, n, S, a, h, g2)
  <2> HIDE DEF h, g2
  <2> QED  BY <1>1, ObeysExists
<1>3. /\ f \in [0..n -> S] /\ f[0] = a
      /\ \A k \in 1..n : f[k] = g2[<<k, f[h[k]]>>]
  BY <1>2, Zenon DEF Obeys
<1>4. ASSUME NEW k \in 1..n PROVE f[k] = g[<<k, f[k - 1]>>]
  <2>1. h[k] = k - 1 /\ k - 1 \in 0..n /\ k \in Nat
    OBVIOUS
  <2>2. f[k - 1] \in S
    BY <1>3, <2>1
  <2>3. g2[<<k, f[k - 1]>>] = g[<<k, f[k - 1]>>]
    <3> DEFINE p == <<k, f[k - 1]>>
    <3>1. p \in Nat \X S /\ p[1] = k /\ p[2] = f[k - 1] /\ p[1] \in 1..n
      BY <2>1, <2>2
    <3> HIDE DEF p
    <3>2. g2[p] = g[<<p[1], p[2]>>]
      BY <3>1
    <3> QED  BY <3>1, <3>2, Zenon DEF p
  <2> QED  BY <1>3, <2>1, <2>3, Zenon
<1>5. Loops(f, n, S, a, g)
  <2> HIDE DEF g2, h
  <2> QED  BY <1>3, <1>4, Zenon DEF Loops
<1> QED  BY <1>5, Zenon

\* Two loops start alike, and their turns keep them alike.
Lockstep(U, V, n) ==
  U[0] = V[0] /\ \A k \in 1..n : U[k - 1] = V[k - 1] => U[k] = V[k]

Alike(U, V, n) == \A k \in 0..n : U[k] = V[k]

\* So they are alike throughout.
LEMMA LoopsAgree ==
  ASSUME NEW U, NEW V, NEW n \in Nat, Lockstep(U, V, n)
  PROVE  Alike(U, V, n)
<1>0. U[0] = V[0] /\ \A k \in 1..n : U[k - 1] = V[k - 1] => U[k] = V[k]
  BY Zenon DEF Lockstep
<1> DEFINE T == {k \in Nat : k <= n => U[k] = V[k]}
<1>1. ASSUME NEW k \in Nat, \A j \in Nat : j < k => j \in T PROVE k \in T
  <2>1. CASE k = 0
    BY <1>0, <2>1
  <2>2. CASE k # 0 /\ k <= n
    <3>1. k \in 1..n /\ k - 1 \in Nat /\ k - 1 < k /\ k - 1 <= n
      BY <2>2
    <3>2. U[k - 1] = V[k - 1]
      BY <1>1, <3>1
    <3> QED  BY <1>0, <3>1, <3>2
  <2>3. CASE ~ (k <= n)
    BY <2>3
  <2> QED  BY <2>1, <2>2, <2>3
<1>2. T \in SUBSET Nat
  OBVIOUS
<1>3. T = Nat
  <2> HIDE DEF T
  <2> QED  BY <1>1, <1>2, Induction
<1>4. ASSUME NEW k \in 0..n PROVE U[k] = V[k]
  <2>1. k \in Nat /\ k <= n
    OBVIOUS
  <2> QED  BY <1>3, <2>1
<1> QED  BY <1>4, Zenon DEF Alike

-----------------------------------------------------------------------------
(* Numerals.                                                               *)

\* Division with remainder by the two radixes.
LEMMA Divided ==
  ASSUME NEW r \in {10, 16}, NEW n \in Nat
  PROVE  /\ n \div r \in Nat /\ n % r \in 0..(r - 1)
         /\ n = r * (n \div r) + (n % r)
         /\ n > 0 => n \div r < n
<1>1. CASE r = 10
  <2>1. /\ n \div 10 \in Nat /\ n % 10 \in 0..(10 - 1)
        /\ n = 10 * (n \div 10) + (n % 10)
        /\ n > 0 => n \div 10 < n
    BY SMT
  <2> QED  BY <1>1, <2>1, SMT
<1>2. CASE r = 16
  <2>1. /\ n \div 16 \in Nat /\ n % 16 \in 0..(16 - 1)
        /\ n = 16 * (n \div 16) + (n % 16)
        /\ n > 0 => n \div 16 < n
    BY SMT
  <2> QED  BY <1>2, <2>1, SMT
<1> QED  BY <1>1, <1>2

\* The loop that takes the digits off a number.
LEMMA DigitsRule ==
  ASSUME NEW r \in {10, 16}
  PROVE  /\ Digits(0, r) = <<>>
         /\ \A n \in Nat : n # 0 => Digits(n, r) = <<n % r>> \o Digits(n \div r, r)
<1> DEFINE S == Seq(Nat)
           h == [n \in Nat |-> n \div r]
           g == [p \in Nat \X S |-> <<p[1] % r>> \o p[2]]
           Rule(f) == [k \in Nat |-> IF k = 0 THEN <<>> ELSE <<k % r>> \o f[k \div r]]
           D == CHOOSE f : f = Rule(f)
<1>1. Rules(S, <<>>, h, g)
  <2>1. <<>> \in S
    OBVIOUS
  <2>2. h \in [Nat -> Nat] /\ \A n \in Nat : n # 0 => h[n] < n
    <3>1. \A n \in Nat : n \div r \in Nat /\ (n # 0 => n \div r < n)
      BY Divided
    <3> QED  BY <3>1
  <2>3. g \in [Nat \X S -> S]
    <3>1. ASSUME NEW p \in Nat \X S PROVE g[p] \in S
      <4>1. p[1] % r \in Nat /\ p[2] \in S
        BY Divided
      <4>2. <<p[1] % r>> \in Seq(Nat)
        BY <4>1
      <4>3. g[p] = <<p[1] % r>> \o p[2]
        OBVIOUS
      <4> HIDE DEF g
      <4> QED  BY <4>1, <4>2, <4>3
    <3> QED  BY <3>1
  <2> QED  BY <2>1, <2>2, <2>3, Zenon DEF Rules
<1>2. PICK f : /\ f \in [Nat -> S] /\ f[0] = <<>>
               /\ \A n \in Nat : n # 0 => f[n] = g[<<n, f[h[n]]>>]
  <2> HIDE DEF S, h, g
  <2> QED  BY <1>1, Recursion
<1>3. f = Rule(f)
  <2>1. ASSUME NEW n \in Nat PROVE f[n] = Rule(f)[n]
    <3>1. CASE n = 0
      BY <1>2, <3>1
    <3>2. CASE n # 0
      <4>1. h[n] = n \div r /\ n \div r \in Nat
        BY Divided
      <4>2. f[n \div r] \in S
        BY <1>2, <4>1
      <4>3. g[<<n, f[n \div r]>>] = <<n % r>> \o f[n \div r]
        <5> DEFINE p == <<n, f[n \div r]>>
        <5>1. p \in Nat \X S /\ p[1] = n /\ p[2] = f[n \div r]
          BY <4>2
        <5> HIDE DEF p, S
        <5>2. g[p] = <<p[1] % r>> \o p[2]
          BY <5>1
        <5> QED  BY <5>1, <5>2, Zenon DEF p
      <4>4. f[n] = <<n % r>> \o f[n \div r]
        BY <1>2, <3>2, <4>1, <4>3, Zenon
      <4> QED  BY <3>2, <4>4
    <3> QED  BY <3>1, <3>2
  <2>2. f = [n \in Nat |-> f[n]]
    BY <1>2
  <2> QED  BY <2>1, <2>2
<1>4. D = Rule(D)
  <2> HIDE DEF Rule
  <2> QED  BY <1>3
<1>5. \A n : Digits(n, r) = D[n]
  BY DEF Digits
<1> HIDE DEF D
<1>6. D[0] = <<>>
  <2>1. Rule(D)[0] = <<>>
    OBVIOUS
  <2> HIDE DEF Rule
  <2> QED  BY <1>4, <2>1
<1>7. ASSUME NEW n \in Nat, n # 0 PROVE D[n] = <<n % r>> \o D[n \div r]
  <2>1. Rule(D)[n] = <<n % r>> \o D[n \div r]
    BY <1>7
  <2> HIDE DEF Rule
  <2> QED  BY <1>4, <2>1
<1> QED  BY <1>5, <1>6, <1>7

\* U sums up the digits of s.
Sums(s, r, U) ==
  U \in [0..Len(s) -> Nat] /\ U[0] = 0 /\ \A k \in 1..Len(s) : U[k] = r * U[k - 1] + s[k]

\* ValueOf does.
LEMMA ValueSums ==
  ASSUME NEW s \in Seq(Nat), NEW r \in {10, 16}
  PROVE  \E U : Sums(s, r, U) /\ ValueOf(s, r) = U[Len(s)]
<1> DEFINE n == Len(s)
           g == [p \in (1..n) \X Nat |-> r * p[2] + s[p[1]]]
           Rule(f) == [k \in 0..n |-> IF k = 0 THEN 0 ELSE r * f[k - 1] + s[k]]
           U == CHOOSE f : f = Rule(f)
<1>1. n \in Nat
  OBVIOUS
<1>0. \A x \in Nat, y \in Nat : r * x + y \in Nat
  <2>1. r = 10 \/ r = 16
    OBVIOUS
  <2> QED  BY <2>1
<1>2. g \in [(1..n) \X Nat -> Nat]
  <2>1. ASSUME NEW p \in (1..n) \X Nat PROVE r * p[2] + s[p[1]] \in Nat
    <3>1. p[1] \in 1..n /\ p[2] \in Nat
      OBVIOUS
    <3>2. s[p[1]] \in Nat
      BY <3>1
    <3> QED  BY <1>0, <3>1, <3>2
  <2> QED  BY <2>1
<1>3. PICK f : Loops(f, n, Nat, 0, g)
  <2> HIDE DEF g, n
  <2> QED  BY <1>1, <1>2, LoopExists
<1>4. f \in [0..n -> Nat] /\ f[0] = 0 /\ \A k \in 1..n : f[k] = r * f[k - 1] + s[k]
  <2>1. f \in [0..n -> Nat] /\ f[0] = 0 /\ \A k \in 1..n : f[k] = g[<<k, f[k - 1]>>]
    BY <1>3, Zenon DEF Loops
  <2>2. ASSUME NEW k \in 1..n PROVE g[<<k, f[k - 1]>>] = r * f[k - 1] + s[k]
    <3>1. k - 1 \in 0..n
      OBVIOUS
    <3>2. f[k - 1] \in Nat
      BY <2>1, <3>1
    <3> DEFINE p == <<k, f[k - 1]>>
    <3>3. p \in (1..n) \X Nat /\ p[1] = k /\ p[2] = f[k - 1]
      BY <3>2
    <3> HIDE DEF p, n
    <3>4. g[p] = r * p[2] + s[p[1]]
      BY <3>3
    <3> QED  BY <3>3, <3>4, Zenon DEF p
  <2> QED  BY <2>1, <2>2, Zenon
<1>5. f = Rule(f)
  <2>1. f = [k \in 0..n |-> f[k]]
    BY <1>4
  <2>2. ASSUME NEW k \in 0..n PROVE f[k] = Rule(f)[k]
    <3>1. CASE k = 0
      BY <1>4, <3>1
    <3>2. CASE k # 0
      <4>1. k \in 1..n
        BY <1>1, <3>2
      <4> HIDE DEF n
      <4> QED  BY <1>4, <3>2, <4>1
    <3> QED  BY <3>1, <3>2
  <2> QED  BY <2>1, <2>2
<1>6. U = Rule(U)
  <2> HIDE DEF Rule
  <2> QED  BY <1>5
<1>7. ValueOf(s, r) = U[n]
  BY DEF ValueOf
<1> HIDE DEF U, n
<1>8. U[0] = 0 /\ U = [k \in 0..n |-> U[k]]
  <2>1. Rule(U)[0] = 0 /\ Rule(U) = [k \in 0..n |-> Rule(U)[k]]
    BY <1>1
  <2> HIDE DEF Rule
  <2> QED  BY <1>6, <2>1
<1>9. ASSUME NEW k \in 1..n PROVE U[k] = r * U[k - 1] + s[k]
  <2>1. Rule(U)[k] = r * U[k - 1] + s[k]
    BY <1>1
  <2> HIDE DEF Rule
  <2> QED  BY <1>6, <2>1
<1>10. \A k \in 0..n : U[k] = f[k]
  <2>1. \A k \in 1..n : U[k - 1] = f[k - 1] => U[k] = f[k]
    BY <1>4, <1>9, Zenon
  <2>2. U[0] = f[0]
    BY <1>4, <1>8, Zenon
  <2>3. Lockstep(U, f, n)
    BY <2>1, <2>2, Zenon DEF Lockstep
  <2>4. Alike(U, f, n)
    BY <1>1, <2>3, LoopsAgree, Zenon
  <2> QED  BY <2>4, Zenon DEF Alike
<1>11. U \in [0..n -> Nat]
  BY <1>4, <1>8, <1>10
<1>12. Sums(s, r, U)
  BY <1>8, <1>9, <1>11, Zenon DEF Sums, n
<1> QED  BY <1>7, <1>12, Zenon DEF n

\* A digit more.
LEMMA ValueAppended ==
  ASSUME NEW s \in Seq(Nat), NEW d \in Nat, NEW r \in {10, 16}
  PROVE  /\ ValueOf(s \o <<d>>, r) = r * ValueOf(s, r) + d
         /\ ValueOf(s, r) \in Nat
<1> DEFINE t == s \o <<d>>
<1>1. /\ t \in Seq(Nat) /\ Len(s) \in Nat /\ Len(t) = Len(s) + 1 /\ t[Len(s) + 1] = d
      /\ \A k \in 1..Len(s) : t[k] = s[k]
  OBVIOUS
<1> HIDE DEF t
<1>2. PICK U : Sums(s, r, U) /\ ValueOf(s, r) = U[Len(s)]
  BY ValueSums, Zenon
<1>3. PICK V : Sums(t, r, V) /\ ValueOf(t, r) = V[Len(t)]
  BY <1>1, ValueSums, Zenon
<1>4. /\ U \in [0..Len(s) -> Nat] /\ U[0] = 0
      /\ \A k \in 1..Len(s) : U[k] = r * U[k - 1] + s[k]
  BY <1>2, Zenon DEF Sums
<1>5. V[0] = 0 /\ \A k \in 1..Len(t) : V[k] = r * V[k - 1] + t[k]
  BY <1>3, Zenon DEF Sums
<1>6. \A k \in 1..Len(s) : k \in 1..Len(t)
  BY <1>1
<1>7. \A k \in 1..Len(s) : V[k] = r * V[k - 1] + s[k]
  BY <1>1, <1>5, <1>6, Zenon
<1>8. \A k \in 0..Len(s) : U[k] = V[k]
  <2>1. \A k \in 1..Len(s) : U[k - 1] = V[k - 1] => U[k] = V[k]
    BY <1>4, <1>7, Zenon
  <2>2. U[0] = V[0]
    BY <1>4, <1>5, Zenon
  <2>3. Len(s) \in Nat
    BY <1>1
  <2>4. Lockstep(U, V, Len(s))
    BY <2>1, <2>2, Zenon DEF Lockstep
  <2>5. Alike(U, V, Len(s))
    BY <2>3, <2>4, LoopsAgree, Zenon
  <2> QED  BY <2>5, Zenon DEF Alike
<1>9. V[Len(s)] = U[Len(s)] /\ U[Len(s)] \in Nat
  <2>1. Len(s) \in 0..Len(s)
    BY <1>1
  <2>2. V[Len(s)] = U[Len(s)]
    BY <1>8, <2>1, Zenon
  <2> QED  BY <1>4, <2>1, <2>2
<1>10. V[Len(t)] = r * V[Len(s)] + d
  <2>1. Len(s) + 1 \in 1..Len(t) /\ (Len(s) + 1) - 1 = Len(s)
    BY <1>1
  <2> QED  BY <1>1, <1>5, <2>1
<1> QED  BY <1>2, <1>3, <1>9, <1>10, Zenon DEF t

\* Turned round, what came first comes last.
LEMMA ReversedPushed ==
  ASSUME NEW s \in Seq(Nat), NEW d \in Nat
  PROVE  /\ Reversed(<<d>> \o s) = Reversed(s) \o <<d>>
         /\ Reversed(s) \in Seq(Nat) /\ Len(Reversed(s)) = Len(s)
<1> DEFINE t == <<d>> \o s
           n == Len(s)
           R == Reversed(s)
           R2 == Reversed(t)
<1>1. /\ n \in Nat /\ Len(t) = n + 1 /\ t[1] = d /\ t \in Seq(Nat)
      /\ \A k \in 1..n : t[k + 1] = s[k]
  OBVIOUS
<1>2. R \in [1..n -> Nat] /\ \A k \in 1..n : R[k] = s[n + 1 - k]
  BY DEF Reversed
<1>3. R \in Seq(Nat) /\ Len(R) = n
  <2> HIDE DEF R, n
  <2> QED  BY <1>1, <1>2, FunctionIsSeq
<1>4. R2 = [k \in 1..(n + 1) |-> t[(n + 1) + 1 - k]]
  <2> HIDE DEF t
  <2> QED  BY <1>1 DEF Reversed
<1> HIDE DEF t, R, R2, n
<1>5. ASSUME NEW k \in 1..(n + 1) PROVE R2[k] = (R \o <<d>>)[k]
  <2>1. CASE k = n + 1
    <3>1. (R \o <<d>>)[n + 1] = d
      <4>1. n \in Nat /\ R \in Seq(Nat) /\ Len(R) = n
        BY <1>1, <1>3, Zenon
      <4> QED  BY <4>1
    <3>2. R2[k] = t[1]
      BY <1>1, <1>4, <2>1
    <3> QED  BY <1>1, <2>1, <3>1, <3>2, Zenon
  <2>2. CASE k # n + 1
    <3>1. k \in 1..n /\ n + 1 - k \in 1..n /\ (n + 1 - k) + 1 = (n + 1) + 1 - k
      BY <1>1, <2>2
    <3>2. (R \o <<d>>)[k] = R[k]
      BY <1>3, <3>1
    <3>3. R2[k] = t[(n + 1 - k) + 1]
      BY <1>4, <3>1
    <3> QED  BY <1>1, <1>2, <3>1, <3>2, <3>3
  <2> QED  BY <2>1, <2>2
<1>6. R \o <<d>> \in Seq(Nat) /\ Len(R \o <<d>>) = n + 1
  BY <1>1, <1>3
<1> DEFINE q == R \o <<d>>
<1> HIDE DEF q
<1>7. q = [k \in 1..(n + 1) |-> q[k]]
  BY <1>1, <1>6 DEF q
<1>8. R2 = [k \in 1..(n + 1) |-> R2[k]]
  BY <1>4
<1>9. R2 = q
  BY <1>5, <1>7, <1>8 DEF q
<1> QED  BY <1>3, <1>9, Zenon DEF t, R, R2, n, q

\* The digits of a number, turned round, stand for it; the first is not 0.
Spells(n, r) ==
  LET d == Digits(n, r)
  IN  /\ d \in Seq(0..(r - 1))
      /\ n # 0 => Len(d) > 0 /\ d[Len(d)] # 0
      /\ ValueOf(Reversed(d), r) = n

\* They do.
LEMMA DigitsSpell ==
  ASSUME NEW r \in {10, 16}
  PROVE  \A n \in Nat : Spells(n, r)
<1> DEFINE T == {n \in Nat : Spells(n, r)}
<1>1. ASSUME NEW n \in Nat, \A k \in Nat : k < n => k \in T PROVE n \in T
  <2>1. CASE n = 0
    <3>1. Digits(n, r) = <<>>
      BY <2>1, DigitsRule, Zenon
    <3>2. Reversed(<<>>) = <<>>
      BY DEF Reversed
    <3>3. ValueOf(<<>>, r) = 0
      <4>1. <<>> \in Seq(Nat) /\ Len(<<>>) = 0
        OBVIOUS
      <4> QED  BY <4>1, ValueSums DEF Sums
    <3>4. <<>> \in Seq(0..(r - 1))
      OBVIOUS
    <3> QED  BY <2>1, <3>1, <3>2, <3>3, <3>4, Zenon DEF Spells
  <2>2. CASE n # 0
    <3> DEFINE q == n \div r
               x == n % r
               e == Digits(q, r)
               d == Digits(n, r)
    <3>1. /\ q \in Nat /\ x \in 0..(r - 1) /\ n = r * q + x /\ q < n
      BY <2>2, Divided
    <3>2. d = <<x>> \o e
      BY <2>2, DigitsRule, Zenon
    <3>3. Spells(q, r)
      BY <1>1, <3>1, Zenon
    <3>4. /\ e \in Seq(0..(r - 1)) /\ (q # 0 => Len(e) > 0 /\ e[Len(e)] # 0)
          /\ ValueOf(Reversed(e), r) = q
      BY <3>3, Zenon DEF Spells
    <3>5. q = 0 => e = <<>>
      BY DigitsRule, Zenon
    <3>0. q = 0 => n = x
      BY <3>1
    <3> HIDE DEF q, x, e, d
    <3>6. d \in Seq(0..(r - 1)) /\ Len(d) = Len(e) + 1 /\ Len(d) > 0 /\ e \in Seq(Nat)
      <4>0. \A k \in 0..(r - 1) : k \in Nat
        OBVIOUS
      <4> DEFINE B == 0..(r - 1)
      <4>1. e \in Seq(B) /\ x \in B /\ \A k \in B : k \in Nat
        BY <3>1, <3>4, <4>0
      <4> HIDE DEF B
      <4>2. d \in Seq(B) /\ Len(d) = Len(e) + 1 /\ Len(d) > 0
        BY <3>2, <4>1
      <4>3. e \in Seq(Nat)
        BY <4>1
      <4> QED  BY <4>2, <4>3 DEF B
    <3>7. d[Len(d)] # 0
      <4>1. CASE q = 0
        <5>1. d = <<x>>
          <6>1. <<x>> \o <<>> = <<x>>
            BY <3>1
          <6> QED  BY <3>2, <3>5, <4>1, <6>1
        <5> QED  BY <2>2, <3>0, <4>1, <5>1
      <4>2. CASE q # 0
        <5>1. Len(e) \in Nat /\ Len(e) > 0 /\ e[Len(e)] # 0
          BY <3>4, <4>2
        <5>2. (<<x>> \o e)[Len(e) + 1] = e[Len(e)]
          BY <3>1, <3>6, <5>1
        <5> QED  BY <3>2, <3>6, <5>1, <5>2
      <4> QED  BY <4>1, <4>2
    <3>8. ValueOf(Reversed(d), r) = n
      <4>1. x \in Nat
        BY <3>1
      <4>2. Reversed(d) = Reversed(e) \o <<x>> /\ Reversed(e) \in Seq(Nat)
        BY <3>2, <3>6, <4>1, ReversedPushed
      <4>3. ValueOf(Reversed(e) \o <<x>>, r) = r * ValueOf(Reversed(e), r) + x
        BY <4>1, <4>2, ValueAppended
      <4> QED  BY <3>1, <3>4, <4>2, <4>3
    <3> QED  BY <3>6, <3>7, <3>8, Zenon DEF Spells, d
  <2> QED  BY <2>1, <2>2
<1>2. T \in SUBSET Nat
  OBVIOUS
<1>3. T = Nat
  <2> HIDE DEF T
  <2> QED  BY <1>1, <1>2, Induction
<1> QED  BY <1>3

\* A decimal number ten times as large has one digit more at most.
FitsIn(k, bound) == \A n \in Nat : n < bound => Len(Digits(n, 10)) <= k

\* So it has.
LEMMA OneDigitMore ==
  ASSUME NEW k \in Nat, NEW bound \in Nat, FitsIn(k, bound)
  PROVE  FitsIn(k + 1, 10 * bound)
<1> SUFFICES ASSUME NEW n \in Nat, n < 10 * bound
             PROVE  Len(Digits(n, 10)) <= k + 1
  BY Zenon DEF FitsIn
<1>1. CASE n = 0
  <2>1. Digits(n, 10) = <<>>
    BY <1>1, DigitsRule
  <2> QED  BY <2>1
<1>2. CASE n # 0
  <2> DEFINE e == Digits(n \div 10, 10)
  <2>1. n \div 10 \in Nat /\ n \div 10 < bound /\ n % 10 \in Nat
    BY SMT
  <2>2. Len(e) <= k
    BY <2>1, Zenon DEF FitsIn
  <2>3. e \in Seq(Nat)
    <3>1. e \in Seq(0..(10 - 1))
      BY <2>1, DigitsSpell DEF Spells
    <3>2. \A x \in 0..(10 - 1) : x \in Nat
      OBVIOUS
    <3> HIDE DEF e
    <3> QED  BY <3>1, <3>2
  <2>4. Digits(n, 10) = <<n % 10>> \o e
    BY <1>2, DigitsRule
  <2> HIDE DEF e
  <2>5. Len(<<n % 10>> \o e) = 1 + Len(e)
    BY <2>1, <2>3
  <2> QED  BY <2>2, <2>3, <2>4, <2>5
<1> QED  BY <1>1, <1>2

\* A positive int has ten digits at most.
LEMMA TenDigits == FitsIn(10, 10000000000)
<1>0. FitsIn(0, 1)
  <2> SUFFICES ASSUME NEW n \in Nat, n < 1 PROVE Len(Digits(n, 10)) <= 0
    BY Zenon DEF FitsIn
  <2>1. n = 0
    OBVIOUS
  <2>2. Digits(0, 10) = <<>>
    BY DigitsRule
  <2> QED  BY <2>1, <2>2
<1>1. FitsIn(1, 10)
  BY <1>0, OneDigitMore, SMT
<1>2. FitsIn(2, 100)
  BY <1>1, OneDigitMore, SMT
<1>3. FitsIn(3, 1000)
  BY <1>2, OneDigitMore, SMT
<1>4. FitsIn(4, 10000)
  BY <1>3, OneDigitMore, SMT
<1>5. FitsIn(5, 100000)
  BY <1>4, OneDigitMore, SMT
<1>6. FitsIn(6, 1000000)
  BY <1>5, OneDigitMore, SMT
<1>7. FitsIn(7, 10000000)
  BY <1>6, OneDigitMore, SMT
<1>8. FitsIn(8, 100000000)
  BY <1>7, OneDigitMore, SMT
<1>9. FitsIn(9, 1000000000)
  BY <1>8, OneDigitMore, SMT
<1> QED  BY <1>9, OneDigitMore, SMT

\* What intToStr leaves in the buffer for a positive int.
LEMMA IntSpelled ==
  ASSUME NEW n \in Nat, n > 0, n <= INT_MAX
  PROVE  LET digits == intToStr(n, <<0>>)
         IN  /\ ValueOf(digits, 10) = n
             /\ digits[1] # 0 /\ Len(digits) + 1 <= 12
<1> DEFINE d == Digits(n, 10)
           R == Reversed(d)
<1>1. Spells(n, 10)
  BY DigitsSpell
<1>2. d \in Seq(0..(10 - 1)) /\ Len(d) > 0 /\ d[Len(d)] # 0 /\ ValueOf(R, 10) = n
  BY <1>1 DEF Spells
<1>3. Len(d) <= 10
  BY TenDigits, SMT DEF FitsIn, INT_MAX
<1>4. intToStr(n, <<0>>) = R
  BY SMT DEF intToStr
<1> HIDE DEF d
<1>5. R = [k \in 1..Len(d) |-> d[Len(d) + 1 - k]] /\ Len(d) \in Nat
  BY <1>2 DEF Reversed
<1>6. R[1] = d[Len(d)]
  BY <1>2, <1>5
<1>7. Len(R) = Len(d)
  <2>1. \A x \in 0..(10 - 1) : x \in Nat
    BY SMT
  <2>2. \A k \in 1..Len(d) : d[Len(d) + 1 - k] \in Nat
    <3>1. d \in Seq(Nat)
      BY <1>2, <2>1
    <3> QED  BY <1>5, <3>1
  <2>3. R \in [1..Len(d) -> Nat]
    BY <1>5, <2>2
  <2> HIDE DEF R
  <2> QED  BY <1>5, <2>3, FunctionIsSeq
<1> HIDE DEF R
<1> QED  BY <1>2, <1>3, <1>4, <1>6, <1>7, <1>5

\* The digit that a character stands for.
DigitsIn(t) == [k \in DOMAIN t |-> IF t[k] >= 97 THEN t[k] - 87 ELSE t[k] - 48]

\* itoa's loop and its reversal spell an unsigned number.
LEMMA UnsignedSpelled ==
  ASSUME NEW r \in {10, 16}, NEW ud \in Nat
  PROVE  LET t == Reversed(DigitsOf(ud, r))
         IN  /\ t \in Seq(Nat) /\ Len(t) > 0 /\ t[1] # 45
             /\ ValueOf(DigitsIn(t), r) = ud
             /\ Len(t) > 1 => t[1] # 48
<1> DEFINE B == 0..(r - 1)
           d == IF ud = 0 THEN <<0>> ELSE Digits(ud, r)
           c == DigitsOf(ud, r)
           t == Reversed(c)
<1>1. /\ d \in Seq(B) /\ Len(d) > 0 /\ ValueOf(Reversed(d), r) = ud
      /\ Len(d) > 1 => d[Len(d)] # 0
  <2>1. CASE ud # 0
    <3>1. d = Digits(ud, r) /\ Spells(ud, r)
      BY <2>1, DigitsSpell
    <3> QED  BY <2>1, <3>1 DEF Spells
  <2>2. CASE ud = 0
    <3>1. d = <<0>> /\ 0 \in B
      BY <2>2
    <3> HIDE DEF d, B
    <3>2. d \in Seq(B) /\ Len(d) = 1
      BY <3>1
    <3>3. Reversed(<<0>>) = <<0>>
      BY DEF Reversed
    <3>4. ValueOf(<<0>>, r) = 0
      <4>1. <<>> \o <<0>> = <<0>> /\ <<>> \in Seq(Nat) /\ 0 \in Nat /\ Len(<<>>) = 0
        OBVIOUS
      <4>2. ValueOf(<<>>, r) = 0
        BY <4>1, ValueSums DEF Sums
      <4>3. ValueOf(<<>> \o <<0>>, r) = r * ValueOf(<<>>, r) + 0
        BY <4>1, ValueAppended
      <4> QED  BY <4>1, <4>2, <4>3
    <3> QED  BY <2>2, <3>1, <3>2, <3>3, <3>4
  <2> QED  BY <2>1, <2>2
<1>2. c = [k \in DOMAIN d |-> DigitChar(d[k])]
  BY DEF DigitsOf
<1> DEFINE n == Len(d)
<1>3. n \in Nat /\ DOMAIN d = 1..n /\ \A k \in 1..n : d[k] \in 0..15
  <2>1. \A x \in B : x \in 0..15
    BY SMT
  <2> HIDE DEF B, d
  <2> QED  BY <1>1, <2>1, SMTT(30)
<1> HIDE DEF d, c
<1>4. \A x \in 0..15 : /\ DigitChar(x) \in Nat /\ DigitChar(x) # 45
                       /\ DigitChar(x) = 48 => x = 0
                       /\ (IF DigitChar(x) >= 97 THEN DigitChar(x) - 87
                           ELSE DigitChar(x) - 48) = x
  BY SMT DEF DigitChar
<1>5. c \in [1..n -> Nat] /\ \A k \in 1..n : c[k] = DigitChar(d[k])
  BY <1>2, <1>3, <1>4
<1>6. c \in Seq(Nat) /\ Len(c) = n
  <2> HIDE DEF n
  <2> QED  BY <1>3, <1>5, FunctionIsSeq
<1>7. t = [k \in 1..n |-> c[n + 1 - k]]
  BY <1>6 DEF Reversed
<1>8. \A k \in 1..n : n + 1 - k \in 1..n /\ t[k] = DigitChar(d[n + 1 - k])
  BY <1>3, <1>5, <1>7
<1>9. t \in Seq(Nat) /\ Len(t) = n
  <2>1. t \in [1..n -> Nat]
    <3>1. \A k \in 1..n : c[k] \in Nat
      BY <1>5
    <3> HIDE DEF n
    <3>2. \A k \in 1..n : c[n + 1 - k] \in Nat
      BY <1>8, <3>1
    <3> QED  BY <1>7, <3>2
  <2> HIDE DEF n, t
  <2> QED  BY <1>3, <2>1, FunctionIsSeq
<1>10. DigitsIn(t) = Reversed(d)
  <2>1. Reversed(d) = [k \in 1..n |-> d[n + 1 - k]]
    BY DEF Reversed
  <2>2. DOMAIN t = 1..n
    BY <1>7
  <2> HIDE DEF t, n
  <2>3. DigitsIn(t) = [k \in 1..n |-> IF t[k] >= 97 THEN t[k] - 87 ELSE t[k] - 48]
    BY <2>2 DEF DigitsIn
  <2>4. ASSUME NEW k \in 1..n
        PROVE  (IF t[k] >= 97 THEN t[k] - 87 ELSE t[k] - 48) = d[n + 1 - k]
    BY <1>3, <1>4, <1>8
  <2> QED  BY <2>1, <2>3, <2>4
<1>11. n > 0 /\ 1 \in 1..n /\ t[1] = DigitChar(d[n])
  BY <1>1, <1>3, <1>8
<1>12. t[1] # 45 /\ (n > 1 => t[1] # 48)
  <2>1. n \in 1..n
    BY <1>3, <1>11
  <2> HIDE DEF t
  <2> QED  BY <1>1, <1>3, <1>4, <1>11, <2>1, ZenonT(40)
<1> HIDE DEF t, n
<1> QED  BY <1>1, <1>9, <1>10, <1>11, <1>12 DEF t, c

\* The sign in front.
LEMMA SignSpelled ==
  ASSUME NEW t \in Seq(Nat), NEW r
  PROVE  /\ Value(<<45>> \o t, r) = -ValueOf(DigitsIn(t), r)
         /\ t[1] # 45 => Value(t, r) = ValueOf(DigitsIn(t), r)
         /\ (<<45>> \o t)[1] = 45
<1>1. \A u : Value(u, r) = IF u[1] = 45 THEN -ValueOf(DigitsIn(Tail(u)), r)
                           ELSE ValueOf(DigitsIn(u), r)
  BY DEF Value, DigitsIn
<1> DEFINE u == <<45>> \o t
<1>2. u[1] = 45 /\ u \in Seq(Nat) /\ Len(u) = Len(t) + 1 /\ u # <<>>
      /\ \A k \in 1..Len(t) : u[k + 1] = t[k]
  BY SMT
<1>3. Tail(u) = t
  <2> HIDE DEF u
  <2>1. Tail(u) \in Seq(Nat) /\ Len(Tail(u)) = Len(t) /\ Len(t) \in Nat
    BY <1>2
  <2>2. \A k \in 1..Len(t) : Tail(u)[k] = u[k + 1]
    BY <1>2, <2>1
  <2> DEFINE v == Tail(u)
  <2>3. v = [k \in 1..Len(t) |-> v[k]]
    <3>1. v \in Seq(Nat) /\ Len(v) = Len(t)
      BY <2>1
    <3> HIDE DEF v
    <3> QED  BY <3>1
  <2>4. t = [k \in 1..Len(t) |-> t[k]]
    OBVIOUS
  <2>5. \A k \in 1..Len(t) : v[k] = t[k]
    BY <1>2, <2>2
  <2> HIDE DEF v
  <2> QED  BY <2>3, <2>4, <2>5 DEF v
<1> HIDE DEF u
<1>4. Value(u, r) = -ValueOf(DigitsIn(t), r)
  BY <1>1, <1>2, <1>3, Zenon
<1>5. t[1] # 45 => Value(t, r) = ValueOf(DigitsIn(t), r)
  BY <1>1, Zenon
<1> QED  BY <1>2, <1>4, <1>5, Zenon DEF u

\* Arithmetic modulo a word.
LEMMA InAWord ==
  ASSUME NEW W \in Nat \ {0}, NEW n \in Int
  PROVE  /\ n % W \in Nat
         /\ 0 <= n /\ n < W => n % W = n
<1>1. n % W \in Nat
  BY SMT
<1>2. ASSUME 0 <= n, n < W PROVE n % W = n
  BY <1>2, SMT
<1> QED  BY <1>1, <1>2

\* What itoa leaves in its buffer.
LEMMA ItoaSpelled ==
  ASSUME NEW W \in Nat \ {0}, NEW base \in {"d", "u", "x"},
         NEW number \in -(W \div 2) .. (W \div 2 - 1)
  PROVE  LET text == itoa(base, number, W)
         IN  /\ Value(text, IF base = "x" THEN 16 ELSE 10)
                  = IF base = "d" THEN number ELSE number % W
             /\ Len(text) > 1 => text[1] # 48
<1> DEFINE r == IF base = "x" THEN 16 ELSE 10
           T(ud, radix) == Reversed(DigitsOf(ud, radix))
<1>1. r \in {10, 16} /\ 10 \in {10, 16} /\ (base = "d" => r = 10)
  OBVIOUS
<1>2. number \in Int /\ number % W \in Nat /\ (number < 0 => -number \in Nat)
  BY InAWord
<1>3. CASE base = "d" /\ number < 0
  <2> DEFINE t == T(-number, 10)
  <2>1. itoa(base, number, W) = <<45>> \o t
    BY <1>3 DEF itoa
  <2>2. t \in Seq(Nat) /\ ValueOf(DigitsIn(t), 10) = -number
    BY <1>1, <1>2, <1>3, UnsignedSpelled
  <2> HIDE DEF t, T
  <2>3. Value(<<45>> \o t, 10) = -ValueOf(DigitsIn(t), 10) /\ (<<45>> \o t)[1] = 45
    BY <2>2, SignSpelled
  <2>4. -(-number) = number /\ 45 # 48
    BY <1>2
  <2> QED  BY <1>1, <1>3, <2>1, <2>2, <2>3, <2>4, ZenonT(40)
<1>4. CASE ~ (base = "d" /\ number < 0)
  <2> DEFINE ud == number % W
             t == T(ud, r)
  <2>1. itoa(base, number, W) = t
    BY <1>4 DEF itoa
  <2>2. /\ t \in Seq(Nat) /\ t[1] # 45 /\ ValueOf(DigitsIn(t), r) = ud
        /\ Len(t) > 1 => t[1] # 48
    <3> HIDE DEF r
    <3> QED  BY <1>1, <1>2, UnsignedSpelled, ZenonT(40)
  <2>3. base = "d" => ud = number
    <3>1. base = "d" => 0 <= number /\ number < W
      BY <1>2, <1>4, SMT
    <3> QED  BY <1>2, <3>1, InAWord
  <2> HIDE DEF t, ud, T, r
  <2>4. Value(t, r) = ValueOf(DigitsIn(t), r)
    BY <2>2, SignSpelled
  <2> QED  BY <2>1, <2>2, <2>3, <2>4 DEF r, ud
<1> QED  BY <1>3, <1>4

\* NumbersSpelled, for every positive int of printf_number and every word and int of itoa.
THEOREM NumbersAlwaysSpelled == Spec => []NumbersSpelled
<1>1. InputInv => NumbersSpelled
  <2> SUFFICES ASSUME InputInv PROVE NumbersSpelled
    BY Zenon
  <2>1. ASSUME part = "number", input > 0
        PROVE  LET digits == intToStr(input, <<0>>)
               IN  /\ ValueOf(digits, 10) = input
                   /\ digits[1] # 0 /\ Len(digits) + 1 <= 12
    <3>1. input \in Numbers
      BY <2>1, Zenon DEF InputInv
    <3>2. input \in Int /\ input <= INT_MAX
      BY <3>1, PureAssumption, SMT DEF PureAssumption
    <3>3. input \in Nat
      BY <2>1, <3>2
    <3> QED  BY <2>1, <3>2, <3>3, IntSpelled
  <2>2. ASSUME part = "itoa"
        PROVE  LET text == itoa(input.base, input.number, WORD)
               IN  /\ Value(text, IF input.base = "x" THEN 16 ELSE 10)
                        = IF input.base = "d" THEN input.number ELSE input.number % WORD
                   /\ Len(text) > 1 => text[1] # 48
    <3>1. input \in Ints
      BY <2>2, Zenon DEF InputInv
    <3>2. /\ WORD \in Nat \ {0} /\ input.base \in {"d", "u", "x"}
          /\ input.number \in -(WORD \div 2) .. (WORD \div 2 - 1)
      BY <3>1, PureAssumption DEF PureAssumption
    <3> QED  BY <3>2, ItoaSpelled
  <2> QED  BY <2>1, <2>2 DEF NumbersSpelled
<1> QED  BY <1>1, AlwaysGiven, PTL

-----------------------------------------------------------------------------
(* Strings.                                                                *)

\* The least number of a set, when one is known to be.
LEMMA MinIs ==
  ASSUME NEW T \in SUBSET Nat, NEW n \in T, \A j \in T : n <= j
  PROVE  Min(T) = n
<1>1. \E x \in T : \A y \in T : x <= y
  OBVIOUS
<1>2. Min(T) \in T /\ \A y \in T : Min(T) <= y
  BY <1>1, Zenon DEF Min
<1>3. n <= Min(T) /\ Min(T) <= n /\ Min(T) \in Nat /\ n \in Nat
  BY <1>2
<1> HIDE DEF Min
<1> QED  BY <1>3

\* The string at s has n characters before its NUL.
Ends(m, s, n) == /\ n \in Nat /\ s + n \in DOMAIN m /\ m[s + n] = 0
                 /\ \A k \in 0..(n - 1) : m[s + k] # 0

\* A memory of addresses up to top.
Memory(m, top) == top \in Nat /\ m \in [0..top -> Byte]

\* How far one can go.
LEMMA FromIs ==
  ASSUME NEW m, NEW top, Memory(m, top), NEW s \in 0..top
  PROVE  From(m, s) = 0..(top - s)
<1>1. top \in Nat /\ DOMAIN m = 0..top
  BY DEF Memory
<1>2. ASSUME NEW n \in From(m, s) PROVE n \in 0..(top - s)
  <2>1. PICK a \in {b \in 0..top : b >= s} : n = a - s
    BY <1>1, <1>2 DEF From
  <2> QED  BY <1>1, <2>1
<1>3. ASSUME NEW n \in 0..(top - s) PROVE n \in From(m, s)
  <2>1. s + n \in {b \in 0..top : b >= s} /\ n = (s + n) - s
    BY <1>1
  <2> HIDE DEF Memory
  <2> QED  BY <1>1, <2>1 DEF From
<1> QED  BY <1>2, <1>3

\* A string with a NUL ends.
LEMMA EndsExist ==
  ASSUME NEW m, NEW top, Memory(m, top), NEW d \in 0..top, m[d] = 0, NEW s \in 0..d
  PROVE  \E n \in 0..(d - s) : Ends(m, s, n)
<1> DEFINE T == {n \in Nat : n <= d - s /\ m[s + n] = 0}
<1>1. top \in Nat /\ DOMAIN m = 0..top
  BY DEF Memory
<1>2. d - s \in T /\ T \in SUBSET Nat
  <2>1. d - s \in Nat /\ d - s <= d - s /\ s + (d - s) = d
    BY <1>1
  <2> QED  BY <2>1
<1>3. PICK n \in T : \A j \in T : n <= j
  <2> HIDE DEF T
  <2> QED  BY <1>2, HasLeast
<1>4. n \in 0..(d - s) /\ n \in Nat /\ s + n \in 0..top /\ m[s + n] = 0
  BY <1>1
<1>5. \A k \in 0..(n - 1) : m[s + k] # 0
  <2> SUFFICES ASSUME NEW k \in 0..(n - 1) PROVE m[s + k] # 0
    OBVIOUS
  <2>1. k \in Nat /\ ~ (n <= k) /\ k <= d - s
    BY <1>1, <1>4
  <2>2. k \notin T
    BY <1>3, <2>1
  <2> QED  BY <2>1, <2>2
<1> QED  BY <1>1, <1>4, <1>5, Zenon DEF Ends

\* strlen finds its end.
LEMMA StrlenIs ==
  ASSUME NEW m, NEW top, Memory(m, top), NEW s \in 0..top, NEW n, Ends(m, s, n)
  PROVE  strlen(m, s) = n
<1> DEFINE T == {i \in 0..(top - s) : m[s + i] = 0}
<1>1. top \in Nat /\ DOMAIN m = 0..top
  BY DEF Memory
<1>2. n \in Nat /\ s + n \in 0..top /\ m[s + n] = 0 /\ \A k \in 0..(n - 1) : m[s + k] # 0
  BY <1>1, Zenon DEF Ends
<1>3. strlen(m, s) = Min(T)
  BY FromIs, Zenon DEF strlen
<1>4. T \in SUBSET Nat /\ n \in T
  BY <1>1, <1>2
<1>5. ASSUME NEW j \in T PROVE n <= j
  <2>1. j \in Nat /\ m[s + j] = 0
    BY <1>1
  <2>2. j \notin 0..(n - 1)
    BY <1>2, <2>1
  <2> QED  BY <1>2, <2>1, <2>2
<1> HIDE DEF T
<1> QED  BY <1>3, <1>4, <1>5, MinIs

\* A string ends only once.
LEMMA EndsOnce ==
  ASSUME NEW m, NEW top, Memory(m, top), NEW s \in 0..top,
         NEW n, Ends(m, s, n), NEW n2, Ends(m, s, n2)
  PROVE  n = n2
  BY StrlenIs, Zenon

\* n bytes of src are at dst, and everything else is as it was.
Copied(m, top, dst, src, n) ==
  [a \in 0..top |-> IF a >= dst /\ a < dst + n THEN m[src + (a - dst)] ELSE m[a]]

\* The bytes lie in the memory, and those read are not written.
Apart(top, dst, src, n) ==
  /\ top \in Nat /\ dst \in Nat /\ src \in Nat /\ n \in Nat
  /\ dst + n <= top + 1 /\ src + n <= top + 1
  /\ src + n <= dst \/ dst + n <= src

\* One turn of memcpy.
Turned(now, dst, src, k) == [now EXCEPT ![dst + k - 1] = now[src + k - 1]]

\* A turn copies one byte more.
LEMMA CopiedNext ==
  ASSUME NEW m, NEW top, Memory(m, top), NEW dst, NEW src, NEW n, Apart(top, dst, src, n),
         NEW k \in 1..n
  PROVE  Copied(m, top, dst, src, k) = Turned(Copied(m, top, dst, src, k - 1), dst, src, k)
<1> DEFINE now == Copied(m, top, dst, src, k - 1)
           new == [now EXCEPT ![dst + k - 1] = now[src + k - 1]]
<1>1. /\ top \in Nat /\ dst \in Nat /\ src \in Nat /\ n \in Nat
      /\ dst + n <= top + 1 /\ src + n <= top + 1
      /\ src + n <= dst \/ dst + n <= src
  BY Zenon DEF Apart
<1>2. \A a \in 0..top : now[a] = IF a >= dst /\ a < dst + (k - 1) THEN m[src + (a - dst)]
                                 ELSE m[a]
  BY DEF Copied
<1>3. DOMAIN now = 0..top
  BY DEF Copied
<1> HIDE DEF now
<1>4. src + k - 1 \in 0..top /\ dst + k - 1 \in 0..top
  BY <1>1
<1>5. now[src + k - 1] = m[src + k - 1]
  BY <1>1, <1>2, <1>4
<1>6. new = [a \in 0..top |-> IF a = dst + k - 1 THEN m[src + k - 1] ELSE now[a]]
  BY <1>3, <1>4, <1>5
<1>7. ASSUME NEW a \in 0..top
      PROVE  (IF a = dst + k - 1 THEN m[src + k - 1] ELSE now[a])
               = (IF a >= dst /\ a < dst + k THEN m[src + (a - dst)] ELSE m[a])
  <2>1. CASE a = dst + k - 1
    <3>1. src + (a - dst) = src + k - 1 /\ a >= dst /\ a < dst + k
      BY <1>1, <2>1
    <3> QED  BY <2>1, <3>1
  <2>2. CASE a # dst + k - 1
    <3>1. (a < dst + k) <=> (a < dst + (k - 1))
      BY <1>1, <2>2
    <3>2. now[a] = IF a >= dst /\ a < dst + (k - 1) THEN m[src + (a - dst)] ELSE m[a]
      BY <1>2
    <3> QED  BY <2>2, <3>1, <3>2, Zenon
  <2> QED  BY <2>1, <2>2
<1> HIDE DEF new
<1>8. new = Copied(m, top, dst, src, k)
  BY <1>6, <1>7 DEF Copied
<1> QED  BY <1>8, Zenon DEF new, now, Turned

\* What memcpy does.
LEMMA MemcpyIs ==
  ASSUME NEW m, NEW top, Memory(m, top), NEW dst, NEW src, NEW n, Apart(top, dst, src, n)
  PROVE  memcpy(m, dst, src, n) = Copied(m, top, dst, src, n)
<1> DEFINE After(k) == Copied(m, top, dst, src, k)
           f == [k \in 0..n |-> After(k)]
           Rule(g) == [k \in 0 .. n |->
                         IF k = 0 THEN m
                         ELSE [g[k - 1] EXCEPT ![dst + k - 1] = g[k - 1][src + k - 1]]]
           U == CHOOSE g : g = Rule(g)
<1>1. n \in Nat /\ dst \in Nat /\ src \in Nat /\ top \in Nat
  BY Zenon DEF Apart
<1>2. After(0) = m
  <2>1. m = [a \in 0..top |-> m[a]]
    BY DEF Memory
  <2>2. \A a \in 0..top : ~ (a >= dst /\ a < dst + 0)
    BY <1>1
  <2> QED  BY <2>1, <2>2 DEF Copied
<1>3. \A k \in 1..n : After(k) = [After(k - 1) EXCEPT ![dst + k - 1] = After(k - 1)[src + k - 1]]
  <2>1. \A k \in 1..n : After(k) = Turned(After(k - 1), dst, src, k)
    BY CopiedNext, Zenon
  <2> HIDE DEF After
  <2> QED  BY <2>1, Zenon DEF Turned
<1> HIDE DEF After
<1>4. \A k \in 1..n : f[k] = After(k) /\ f[k - 1] = After(k - 1) /\ k \in 0..n
  BY <1>1
<1>5. f[0] = m
  BY <1>1, <1>2
<1>6. \A k \in 1..n : f[k] = [f[k - 1] EXCEPT ![dst + k - 1] = f[k - 1][src + k - 1]]
  BY <1>3, <1>4, Zenon
<1>7. f = Rule(f)
  <2>1. f = [k \in 0..n |-> f[k]]
    OBVIOUS
  <2> HIDE DEF f
  <2>2. ASSUME NEW k \in 0..n PROVE f[k] = Rule(f)[k]
    <3>1. CASE k = 0
      BY <1>5, <3>1
    <3>2. CASE k # 0
      <4>1. k \in 1..n
        BY <1>1, <3>2
      <4>2. f[k] = [f[k - 1] EXCEPT ![dst + k - 1] = f[k - 1][src + k - 1]]
        BY <1>6, <4>1, Zenon
      <4> QED  BY <3>2, <4>2
    <3> QED  BY <3>1, <3>2
  <2> QED  BY <2>1, <2>2
<1>8. U = Rule(U)
  <2> HIDE DEF Rule, f
  <2> QED  BY <1>7
<1>9. memcpy(m, dst, src, n) = U[n]
  BY DEF memcpy
<1> HIDE DEF U
<1>10. U[0] = m
  <2>1. Rule(U)[0] = m
    BY <1>1
  <2> HIDE DEF Rule
  <2> QED  BY <1>8, <2>1
<1>11. \A k \in 1..n : U[k] = [U[k - 1] EXCEPT ![dst + k - 1] = U[k - 1][src + k - 1]]
  <2> SUFFICES ASSUME NEW k \in 1..n
               PROVE  U[k] = [U[k - 1] EXCEPT ![dst + k - 1] = U[k - 1][src + k - 1]]
    OBVIOUS
  <2>1. Rule(U)[k] = [U[k - 1] EXCEPT ![dst + k - 1] = U[k - 1][src + k - 1]]
    BY <1>1
  <2> HIDE DEF Rule
  <2> QED  BY <1>8, <2>1, Zenon
<1> HIDE DEF Rule, f
<1>12. Lockstep(U, f, n)
  <2>1. \A k \in 1..n : U[k - 1] = f[k - 1] => U[k] = f[k]
    BY <1>6, <1>11, Zenon
  <2>2. U[0] = f[0]
    BY <1>5, <1>10
  <2> QED  BY <2>1, <2>2, Zenon DEF Lockstep
<1>13. Alike(U, f, n)
  BY <1>1, <1>12, LoopsAgree, Zenon
<1>14. U[n] = f[n]
  BY <1>1, <1>13 DEF Alike
<1>15. f[n] = After(n)
  BY <1>1 DEF f
<1> QED  BY <1>9, <1>14, <1>15, Zenon DEF After

\* The text there is.
Reads(t, m, s, n) == /\ t = [k \in 1..n |-> m[s + k - 1]]
                     /\ t \in Seq(Byte) /\ Len(t) = n

\* The string is that text.
LEMMA StringAtIs ==
  ASSUME NEW m, NEW top, Memory(m, top), NEW s \in 0..top, NEW n, Ends(m, s, n)
  PROVE  Reads(StringAt(m, s), m, s, n)
<1> DEFINE t == [k \in 1..n |-> m[s + k - 1]]
<1>1. StringAt(m, s) = t
  BY StrlenIs, Zenon DEF StringAt
<1>2. /\ n \in Nat /\ s + n \in 0..top /\ top \in Nat /\ m \in [0..top -> Byte]
  BY DEF Ends, Memory
<1>3. t \in [1..n -> Byte]
  <2>1. \A k \in 1..n : s + k - 1 \in 0..top
    BY <1>2
  <2>2. \A k \in 1..n : m[s + k - 1] \in Byte
    BY <1>2, <2>1, Zenon
  <2> QED  BY <2>2, Zenon
<1> HIDE DEF t
<1>4. t \in Seq(Byte) /\ Len(t) = n
  BY <1>2, <1>3, FunctionIsSeq, Zenon
<1> QED  BY <1>1, <1>4, Zenon DEF t, Reads

\* After n bytes of copy the memory is one, and what is not copied over is as it was.
CopyOf(now, m, top, dst, src, n) ==
  /\ Memory(now, top)
  /\ \A k \in 0..(n - 1) : now[dst + k] = m[src + k]
  /\ \A a \in 0..top : ~ (a >= dst /\ a < dst + n) => now[a] = m[a]

\* The copy is a memory of the same size, and has the bytes.
LEMMA CopiedProps ==
  ASSUME NEW m, NEW top, Memory(m, top), NEW dst, NEW src, NEW n, Apart(top, dst, src, n)
  PROVE  CopyOf(Copied(m, top, dst, src, n), m, top, dst, src, n)
<1> DEFINE now == Copied(m, top, dst, src, n)
<1>1. /\ top \in Nat /\ dst \in Nat /\ src \in Nat /\ n \in Nat
      /\ dst + n <= top + 1 /\ src + n <= top + 1
  BY Zenon DEF Apart
<1>2. now = [a \in 0..top |-> IF a >= dst /\ a < dst + n THEN m[src + (a - dst)] ELSE m[a]]
  BY Zenon DEF Copied
<1> HIDE DEF now
<1>3. m \in [0..top -> Byte]
  BY Zenon DEF Memory
<1>4. \A a \in 0..top : ~ (a >= dst /\ a < dst + n) => now[a] = m[a]
  BY <1>2
<1>5. ASSUME NEW k \in 0..(n - 1) PROVE now[dst + k] = m[src + k]
  <2>1. dst + k \in 0..top /\ dst + k >= dst /\ dst + k < dst + n /\ (dst + k) - dst = k
    BY <1>1
  <2> QED  BY <1>2, <2>1
<1>6. now \in [0..top -> Byte]
  <2>1. ASSUME NEW a \in 0..top, a >= dst, a < dst + n PROVE m[src + (a - dst)] \in Byte
    <3>1. src + (a - dst) \in 0..top
      BY <1>1, <2>1
    <3> QED  BY <1>3, <3>1, Zenon
  <2>2. \A a \in 0..top : m[a] \in Byte
    BY <1>3, Zenon
  <2> HIDE DEF now
  <2> QED  BY <1>2, <2>1, <2>2
<1> QED  BY <1>1, <1>4, <1>5, <1>6, Zenon DEF Memory, now, CopyOf

\* The strings at dst and src, of a and b characters, with room for both at dst.
Room(m, top, dst, src, a, b) ==
  /\ Memory(m, top) /\ dst \in 0..top /\ src \in 0..top
  /\ Ends(m, dst, a) /\ Ends(m, src, b)
  /\ dst + a + b < src \/ (src + b < dst /\ dst + a + b <= top)

\* What that says of the numbers.
LEMMA RoomNumbers ==
  ASSUME NEW m, NEW top, NEW dst, NEW src, NEW a, NEW b, Room(m, top, dst, src, a, b)
  PROVE  /\ top \in Nat /\ dst \in Nat /\ src \in Nat /\ a \in Nat /\ b \in Nat
         /\ dst + a <= top /\ src + b <= top /\ dst <= top /\ src <= top
         /\ dst + a + b < src \/ (src + b < dst /\ dst + a + b <= top)
<1>1. /\ top \in Nat /\ DOMAIN m = 0..top /\ a \in Nat /\ b \in Nat
      /\ dst \in 0..top /\ src \in 0..top /\ dst + a \in 0..top /\ src + b \in 0..top
      /\ dst + a + b < src \/ (src + b < dst /\ dst + a + b <= top)
  <2>1. Memory(m, top) /\ Ends(m, dst, a) /\ Ends(m, src, b)
    BY Zenon DEF Room
  <2>2. top \in Nat /\ DOMAIN m = 0..top
    BY <2>1 DEF Memory
  <2>3. a \in Nat /\ b \in Nat /\ dst + a \in DOMAIN m /\ src + b \in DOMAIN m
    BY <2>1, Zenon DEF Ends
  <2> QED  BY <2>2, <2>3, Zenon DEF Room
<1> QED  BY <1>1, SMT

\* The text that strcpy leaves.
Strcpied(copy, m, dst, from) ==
  /\ StringAt(copy.memory, dst) = from /\ copy.length = Len(from)
  /\ \A x \in DOMAIN m \ (dst .. dst + Len(from)) : copy.memory[x] = m[x]

\* strcpy does.
LEMMA StrcpyLeaves ==
  ASSUME NEW m, NEW top, NEW dst, NEW src, NEW a, NEW b, Room(m, top, dst, src, a, b)
  PROVE  Strcpied(strcpy(m, dst, src), m, dst, StringAt(m, src))
<1> DEFINE T == {i \in From(m, dst) \cap From(m, src) : memcpy(m, dst, src, i + 1)[dst + i] = 0}
           C == Copied(m, top, dst, src, b + 1)
<1>1. /\ top \in Nat /\ dst \in Nat /\ src \in Nat /\ a \in Nat /\ b \in Nat
      /\ dst + a <= top /\ src + b <= top /\ dst <= top /\ src <= top
      /\ dst + a + b < src \/ (src + b < dst /\ dst + a + b <= top)
  BY RoomNumbers, Zenon
<1>2. Memory(m, top) /\ Ends(m, src, b) /\ dst \in 0..top /\ src \in 0..top
  BY Zenon DEF Room
<1>3. m[src + b] = 0 /\ \A k \in 0..(b - 1) : m[src + k] # 0
  BY <1>2, Zenon DEF Ends
<1>4. \A i \in 0..b : Apart(top, dst, src, i + 1)
  BY <1>1, SMT DEF Apart
<1>5. ASSUME NEW i \in 0..b
      PROVE  /\ memcpy(m, dst, src, i + 1) = Copied(m, top, dst, src, i + 1)
             /\ memcpy(m, dst, src, i + 1)[dst + i] = m[src + i]
  <2>1. memcpy(m, dst, src, i + 1) = Copied(m, top, dst, src, i + 1)
    BY <1>2, <1>4, MemcpyIs, Zenon
  <2>2. \A k \in 0..((i + 1) - 1) : Copied(m, top, dst, src, i + 1)[dst + k] = m[src + k]
    <3>1. CopyOf(Copied(m, top, dst, src, i + 1), m, top, dst, src, i + 1)
      BY <1>2, <1>4, CopiedProps, Zenon
    <3> QED  BY <3>1, Zenon DEF CopyOf
  <2>3. i \in 0..((i + 1) - 1)
    BY <1>1
  <2> QED  BY <2>1, <2>2, <2>3, Zenon
<1>6. From(m, dst) = 0..(top - dst) /\ From(m, src) = 0..(top - src)
  BY <1>2, FromIs, Zenon
<1>7. T \in SUBSET Nat /\ b \in T
  <2>1. b \in 0..(top - dst) /\ b \in 0..(top - src) /\ b \in 0..b
    BY <1>1
  <2>2. memcpy(m, dst, src, b + 1)[dst + b] = 0
    BY <1>3, <1>5, <2>1, Zenon
  <2>3. T \in SUBSET Nat
    <3>1. \A i \in 0..(top - dst) : i \in Nat
      BY <1>1
    <3> QED  BY <1>6, <3>1, Zenon
  <2> QED  BY <1>6, <2>1, <2>2, <2>3, Zenon
<1>8. ASSUME NEW j \in T PROVE b <= j
  <2>1. j \in Nat /\ memcpy(m, dst, src, j + 1)[dst + j] = 0
    BY <1>7, Zenon
  <2>2. ~ (j < b)
    <3> SUFFICES ASSUME j < b PROVE FALSE
      OBVIOUS
    <3>1. j \in 0..b /\ j \in 0..(b - 1)
      BY <1>1, <2>1
    <3> QED  BY <1>3, <1>5, <2>1, <3>1, Zenon
  <2> QED  BY <1>1, <2>1, <2>2
<1>9. Min(T) = b
  <2> HIDE DEF T
  <2> QED  BY <1>7, <1>8, MinIs
<1>10. strcpy(m, dst, src) = [memory |-> C, length |-> b]
  <2>1. strcpy(m, dst, src) = [memory |-> memcpy(m, dst, src, Min(T) + 1), length |-> Min(T)]
    BY Zenon DEF strcpy
  <2>2. b \in 0..b
    BY <1>1
  <2> HIDE DEF T
  <2> QED  BY <1>5, <1>9, <2>1, <2>2, Zenon
<1>11. /\ Memory(C, top) /\ \A k \in 0..((b + 1) - 1) : C[dst + k] = m[src + k]
       /\ \A x \in 0..top : ~ (x >= dst /\ x < dst + (b + 1)) => C[x] = m[x]
  <2>1. Apart(top, dst, src, b + 1)
    BY <1>1, <1>4
  <2>2. CopyOf(C, m, top, dst, src, b + 1)
    BY <1>2, <2>1, CopiedProps, Zenon
  <2> HIDE DEF C
  <2> QED  BY <2>2, Zenon DEF CopyOf
<1> HIDE DEF C, T
<1>12. Ends(C, dst, b)
  <2>1. DOMAIN C = 0..top
    BY <1>11 DEF Memory
  <2>2. dst + b \in DOMAIN C /\ b \in 0..((b + 1) - 1)
    BY <1>1, <2>1
  <2>3. \A k \in 0..(b - 1) : k \in 0..((b + 1) - 1)
    BY <1>1
  <2> QED  BY <1>1, <1>3, <1>11, <2>2, <2>3, Zenon DEF Ends
<1>13. StringAt(C, dst) = [k \in 1..b |-> C[dst + k - 1]]
  <2>1. Reads(StringAt(C, dst), C, dst, b)
    BY <1>2, <1>11, <1>12, StringAtIs, Zenon
  <2> QED  BY <2>1, Zenon DEF Reads
<1>14. StringAt(m, src) = [k \in 1..b |-> m[src + k - 1]] /\ Len(StringAt(m, src)) = b
  <2>1. Reads(StringAt(m, src), m, src, b)
    BY <1>2, StringAtIs, Zenon
  <2> QED  BY <2>1, Zenon DEF Reads
<1>15. \A k \in 1..b : C[dst + k - 1] = m[src + k - 1]
  <2> SUFFICES ASSUME NEW k \in 1..b PROVE C[dst + k - 1] = m[src + k - 1]
    OBVIOUS
  <2>1. k - 1 \in 0..((b + 1) - 1) /\ dst + k - 1 = dst + (k - 1) /\ src + k - 1 = src + (k - 1)
    BY <1>1
  <2> QED  BY <1>11, <2>1, Zenon
<1>16. StringAt(C, dst) = StringAt(m, src)
  BY <1>13, <1>14, <1>15
<1>17. \A x \in DOMAIN m \ (dst .. dst + b) : C[x] = m[x]
  <2>1. DOMAIN m = 0..top
    BY <1>2 DEF Memory
  <2> SUFFICES ASSUME NEW x \in 0..top, x \notin dst .. dst + b PROVE C[x] = m[x]
    BY <2>1, Zenon
  <2>2. ~ (x >= dst /\ x < dst + (b + 1))
    BY <1>1
  <2> QED  BY <1>11, <2>2, Zenon
<1> DEFINE copy == strcpy(m, dst, src)
<1>18. copy.memory = C /\ copy.length = b
  BY <1>10
<1> HIDE DEF copy
<1>19. Strcpied(copy, m, dst, StringAt(m, src))
  BY <1>14, <1>16, <1>17, <1>18, Zenon DEF Strcpied
<1> QED  BY <1>19 DEF copy

\* The text that strcat leaves.
Strcatted(cat, m, dst, to, from) ==
  /\ StringAt(cat, dst) = to \o from
  /\ \A x \in DOMAIN m \ (dst .. dst + (Len(to) + Len(from))) : cat[x] = m[x]

\* strcat does.
LEMMA StrcatLeaves ==
  ASSUME NEW m, NEW top, NEW dst, NEW src, NEW a, NEW b, Room(m, top, dst, src, a, b)
  PROVE  Strcatted(strcat(m, dst, src), m, dst, StringAt(m, dst), StringAt(m, src))
<1> DEFINE end == dst + a
           C == Copied(m, top, end, src, b)
           D == [C EXCEPT ![end + b] = 0]
           to == StringAt(m, dst)
           from == StringAt(m, src)
<1>1. /\ top \in Nat /\ dst \in Nat /\ src \in Nat /\ a \in Nat /\ b \in Nat
      /\ dst + a <= top /\ src + b <= top /\ dst <= top /\ src <= top
      /\ dst + a + b < src \/ (src + b < dst /\ dst + a + b <= top)
  BY RoomNumbers, Zenon
<1>2. /\ Memory(m, top) /\ Ends(m, dst, a) /\ Ends(m, src, b)
      /\ dst \in 0..top /\ src \in 0..top
  BY Zenon DEF Room
<1>3. /\ m[src + b] = 0 /\ \A k \in 0..(b - 1) : m[src + k] # 0
      /\ \A k \in 0..(a - 1) : m[dst + k] # 0
  BY <1>2, Zenon DEF Ends
<1>4. strlen(m, dst) = a /\ strlen(m, src) = b
  BY <1>2, StrlenIs, Zenon
<1>5. Apart(top, end, src, b)
  BY <1>1, SMT DEF Apart
<1>6. memcpy(m, end, src, b) = C
  BY <1>2, <1>5, MemcpyIs, Zenon
<1>7. /\ Memory(C, top) /\ \A k \in 0..(b - 1) : C[end + k] = m[src + k]
      /\ \A x \in 0..top : ~ (x >= end /\ x < end + b) => C[x] = m[x]
  <2>1. CopyOf(C, m, top, end, src, b)
    BY <1>2, <1>5, CopiedProps, Zenon
  <2> HIDE DEF C, end
  <2> QED  BY <2>1, Zenon DEF CopyOf
<1> HIDE DEF C
<1>8. strlen(C, src) = b
  <2>1. \A k \in 0..b : src + k \in 0..top /\ ~ (src + k >= end /\ src + k < end + b)
    BY <1>1
  <2>2. \A k \in 0..b : C[src + k] = m[src + k]
    BY <1>7, <2>1, Zenon
  <2>3. DOMAIN C = 0..top
    BY <1>7 DEF Memory
  <2>4. b \in 0..b /\ \A k \in 0..(b - 1) : k \in 0..b
    BY <1>1
  <2>5. Ends(C, src, b)
    BY <1>1, <1>3, <2>1, <2>2, <2>3, <2>4, Zenon DEF Ends
  <2> QED  BY <1>2, <1>7, <2>5, StrlenIs, Zenon
<1>9. strcat(m, dst, src) = D
  BY <1>4, <1>6, <1>8, Zenon DEF strcat
<1>10. C \in [0..top -> Byte] /\ 0 \in Byte
  BY <1>7 DEF Memory, Byte
<1>11. /\ Memory(D, top) /\ DOMAIN D = 0..top /\ end + b \in 0..top /\ D[end + b] = 0
       /\ \A x \in 0..top : x # end + b => D[x] = C[x]
  <2>1. end + b \in 0..top
    BY <1>1
  <2> HIDE DEF end
  <2>2. D \in [0..top -> Byte]
    BY <1>10, <2>1
  <2> QED  BY <1>1, <1>10, <2>1, <2>2 DEF Memory
<1> HIDE DEF D
<1>12. \A k \in 0..(a - 1) : D[dst + k] = m[dst + k]
  <2> SUFFICES ASSUME NEW k \in 0..(a - 1) PROVE D[dst + k] = m[dst + k]
    OBVIOUS
  <2>1. dst + k \in 0..top /\ dst + k # end + b /\ ~ (dst + k >= end /\ dst + k < end + b)
    BY <1>1
  <2> QED  BY <1>7, <1>11, <2>1, Zenon
<1>13. \A k \in 0..(b - 1) : D[end + k] = m[src + k]
  <2> SUFFICES ASSUME NEW k \in 0..(b - 1) PROVE D[end + k] = m[src + k]
    OBVIOUS
  <2>1. end + k \in 0..top /\ end + k # end + b
    BY <1>1
  <2> QED  BY <1>7, <1>11, <2>1, Zenon
<1>14. Ends(D, dst, a + b)
  <2>1. a + b \in Nat /\ dst + (a + b) = end + b
    BY <1>1
  <2>2. ASSUME NEW k \in 0..((a + b) - 1) PROVE D[dst + k] # 0
    <3>1. CASE k < a
      <4>1. k \in 0..(a - 1)
        BY <1>1, <3>1
      <4> QED  BY <1>3, <1>12, <4>1, Zenon
    <3>2. CASE ~ (k < a)
      <4>1. k - a \in 0..(b - 1) /\ dst + k = end + (k - a)
        BY <1>1, <3>2
      <4> QED  BY <1>3, <1>13, <4>1, Zenon
    <3> QED  BY <3>1, <3>2
  <2> QED  BY <1>11, <2>1, <2>2, Zenon DEF Ends
<1>15. StringAt(D, dst) = [k \in 1..(a + b) |-> D[dst + k - 1]]
  <2>1. Reads(StringAt(D, dst), D, dst, a + b)
    BY <1>2, <1>11, <1>14, StringAtIs, Zenon
  <2> QED  BY <2>1, Zenon DEF Reads
<1>16. to = [k \in 1..a |-> m[dst + k - 1]] /\ to \in Seq(Byte) /\ Len(to) = a
  <2>1. Reads(StringAt(m, dst), m, dst, a)
    BY <1>2, StringAtIs, Zenon
  <2> QED  BY <2>1, Zenon DEF Reads
<1>17. from = [k \in 1..b |-> m[src + k - 1]] /\ from \in Seq(Byte) /\ Len(from) = b
  <2>1. Reads(StringAt(m, src), m, src, b)
    BY <1>2, StringAtIs, Zenon
  <2> QED  BY <2>1, Zenon DEF Reads
<1> HIDE DEF to, from
<1> DEFINE q == to \o from
<1>18. q = [k \in 1..(a + b) |-> q[k]]
  <2>1. q \in Seq(Byte) /\ Len(q) = a + b
    BY <1>1, <1>16, <1>17
  <2> HIDE DEF q
  <2> QED  BY <2>1
<1>19. ASSUME NEW k \in 1..(a + b) PROVE D[dst + k - 1] = q[k]
  <2>1. CASE k <= a
    <3>1. k \in 1..a /\ k - 1 \in 0..(a - 1) /\ dst + k - 1 = dst + (k - 1)
      BY <1>1, <2>1
    <3>2. D[dst + k - 1] = m[dst + k - 1]
      BY <1>12, <3>1, Zenon
    <3>3. to[k] = m[dst + k - 1]
      BY <1>16, <3>1
    <3>4. q[k] = to[k]
      <4>1. Len(to) = a /\ to \in Seq(Byte) /\ from \in Seq(Byte)
        BY <1>16, <1>17
      <4> QED  BY <3>1, <4>1, SMT
    <3> QED  BY <3>2, <3>3, <3>4
  <2>2. CASE ~ (k <= a)
    <3>1. /\ k - a \in 1..b /\ k - a - 1 \in 0..(b - 1) /\ dst + k - 1 = end + (k - a - 1)
          /\ src + (k - a - 1) = src + (k - a) - 1
      BY <1>1, <2>2
    <3>2. D[dst + k - 1] = m[src + (k - a) - 1]
      BY <1>13, <3>1, Zenon
    <3>3. from[k - a] = m[src + (k - a) - 1]
      BY <1>17, <3>1
    <3>4. q[k] = from[k - a]
      <4>1. Len(to) = a /\ to \in Seq(Byte) /\ from \in Seq(Byte) /\ Len(from) = b
        BY <1>16, <1>17
      <4> QED  BY <1>1, <2>2, <4>1, SMT
    <3> QED  BY <3>2, <3>3, <3>4
  <2> QED  BY <2>1, <2>2
<1> HIDE DEF q
<1>20. StringAt(D, dst) = q
  BY <1>15, <1>18, <1>19
<1>21. \A x \in DOMAIN m \ (dst .. dst + (a + b)) : D[x] = m[x]
  <2>1. DOMAIN m = 0..top
    BY <1>2 DEF Memory
  <2> SUFFICES ASSUME NEW x \in 0..top, x \notin dst .. dst + (a + b) PROVE D[x] = m[x]
    BY <2>1, Zenon
  <2>2. ~ (x >= end /\ x < end + b) /\ x # end + b
    BY <1>1
  <2> QED  BY <1>7, <1>11, <2>2, Zenon
<1>22. Strcatted(D, m, dst, to, from)
  BY <1>16, <1>17, <1>20, <1>21, Zenon DEF Strcatted, q
<1> QED  BY <1>9, <1>22, Zenon DEF to, from

\* What strcmp says.
LEMMA StrcmpSays ==
  ASSUME NEW m, NEW top, NEW dst, NEW src, NEW a, NEW b, Room(m, top, dst, src, a, b)
  PROVE  (strcmp(m, dst, src) = 0) <=> (StringAt(m, dst) = StringAt(m, src))
<1> DEFINE Stops(i) == StopsEqual(m, dst, src, i) \/ m[dst + i] # m[src + i]
           T == {i \in From(m, dst) \cap From(m, src) : Stops(i)}
           to == StringAt(m, dst)
           from == StringAt(m, src)
<1>1. /\ top \in Nat /\ dst \in Nat /\ src \in Nat /\ a \in Nat /\ b \in Nat
      /\ dst + a <= top /\ src + b <= top /\ dst <= top /\ src <= top
      /\ dst + a + b < src \/ (src + b < dst /\ dst + a + b <= top)
  BY RoomNumbers, Zenon
<1>2. /\ Memory(m, top) /\ Ends(m, dst, a) /\ Ends(m, src, b)
      /\ dst \in 0..top /\ src \in 0..top
  BY Zenon DEF Room
<1>3. /\ m[dst + a] = 0 /\ \A k \in 0..(a - 1) : m[dst + k] # 0
      /\ m[src + b] = 0 /\ \A k \in 0..(b - 1) : m[src + k] # 0
  BY <1>2, Zenon DEF Ends
<1>4. From(m, dst) = 0..(top - dst) /\ From(m, src) = 0..(top - src)
  BY <1>2, FromIs, Zenon
<1>5. \A i \in Nat : StopsEqual(m, dst, src, i) <=> m[dst + i] = 0 /\ m[src + i] = 0
  BY Zenon DEF StopsEqual
<1>6. T \in SUBSET Nat /\ T # {}
  <2>1. T \in SUBSET Nat
    <3>1. \A i \in 0..(top - dst) : i \in Nat
      BY <1>1
    <3> QED  BY <1>4, <3>1, Zenon
  <2>2. CASE a <= b
    <3>1. a \in 0..(top - dst) /\ a \in 0..(top - src)
      BY <1>1, <2>2
    <3>2. Stops(a)
      BY <1>1, <1>3, <1>5, Zenon
    <3> QED  BY <1>4, <2>1, <3>1, <3>2, Zenon
  <2>3. CASE ~ (a <= b)
    <3>1. b \in 0..(top - dst) /\ b \in 0..(top - src)
      BY <1>1, <2>3
    <3>2. Stops(b)
      BY <1>1, <1>3, <1>5, Zenon
    <3> QED  BY <1>4, <2>1, <3>1, <3>2, Zenon
  <2> QED  BY <2>2, <2>3
<1>7. PICK n \in T : \A j \in T : n <= j
  <2> HIDE DEF T
  <2> QED  BY <1>6, HasLeast
<1>8. Min(T) = n
  <2> HIDE DEF T
  <2> QED  BY <1>6, <1>7, MinIs
<1>9. (strcmp(m, dst, src) = 0) <=> StopsEqual(m, dst, src, n)
  <2>1. strcmp(m, dst, src) = IF StopsEqual(m, dst, src, Min(T)) THEN 0 ELSE 1
    BY Zenon DEF strcmp
  <2> HIDE DEF T
  <2> QED  BY <1>8, <2>1
<1>10. n \in Nat /\ Stops(n) /\ n \in 0..(top - dst) /\ n \in 0..(top - src)
  BY <1>4, <1>6, <1>7, Zenon
<1>11. \A i \in 0..(n - 1) : ~ Stops(i)
  <2> SUFFICES ASSUME NEW i \in 0..(n - 1), Stops(i) PROVE FALSE
    OBVIOUS
  <2>1. i \in 0..(top - dst) /\ i \in 0..(top - src) /\ ~ (n <= i)
    BY <1>1, <1>10
  <2>2. i \in T
    BY <1>4, <2>1, Zenon
  <2> QED  BY <1>7, <2>1, <2>2, Zenon
<1> HIDE DEF T
<1>12. to = [k \in 1..a |-> m[dst + k - 1]] /\ Len(to) = a
  <2>1. Reads(StringAt(m, dst), m, dst, a)
    BY <1>2, StringAtIs, Zenon
  <2> QED  BY <2>1, Zenon DEF Reads
<1>13. from = [k \in 1..b |-> m[src + k - 1]] /\ Len(from) = b
  <2>1. Reads(StringAt(m, src), m, src, b)
    BY <1>2, StringAtIs, Zenon
  <2> QED  BY <2>1, Zenon DEF Reads
<1> HIDE DEF to, from
<1>14. ASSUME StopsEqual(m, dst, src, n) PROVE to = from
  <2>1. m[dst + n] = 0 /\ m[src + n] = 0
    BY <1>5, <1>10, <1>14, Zenon
  <2>2. \A i \in 0..(n - 1) : /\ i \in Nat
                              /\ m[dst + i] = m[src + i]
                              /\ ~ (m[dst + i] = 0 /\ m[src + i] = 0)
    <3>1. \A i \in 0..(n - 1) : i \in Nat
      BY <1>10
    <3> QED  BY <1>5, <1>11, <3>1, Zenon
  <2>3. \A i \in 0..(n - 1) : m[dst + i] # 0 /\ m[src + i] # 0
    BY <2>2, Zenon
  <2>4. dst + n \in DOMAIN m /\ src + n \in DOMAIN m
    <3>1. DOMAIN m = 0..top
      BY <1>2 DEF Memory
    <3> QED  BY <1>1, <1>10, <3>1
  <2>5. Ends(m, dst, n) /\ Ends(m, src, n)
    BY <1>10, <2>1, <2>3, <2>4, Zenon DEF Ends
  <2>6. n = a /\ n = b
    BY <1>2, <2>5, EndsOnce, Zenon
  <2>7. \A k \in 1..n : m[dst + k - 1] = m[src + k - 1]
    <3> SUFFICES ASSUME NEW k \in 1..n PROVE m[dst + k - 1] = m[src + k - 1]
      OBVIOUS
    <3>1. k - 1 \in 0..(n - 1) /\ dst + k - 1 = dst + (k - 1) /\ src + k - 1 = src + (k - 1)
      BY <1>1, <1>10
    <3> QED  BY <2>2, <3>1, Zenon
  <2> QED  BY <1>12, <1>13, <2>6, <2>7
<1>15. ASSUME to = from PROVE StopsEqual(m, dst, src, n)
  <2>1. a = b
    BY <1>12, <1>13, <1>15
  <2>2. \A i \in 0..(a - 1) : m[dst + i] = m[src + i]
    <3> SUFFICES ASSUME NEW i \in 0..(a - 1) PROVE m[dst + i] = m[src + i]
      OBVIOUS
    <3>1. i + 1 \in 1..a /\ dst + (i + 1) - 1 = dst + i /\ src + (i + 1) - 1 = src + i
      BY <1>1
    <3>2. to[i + 1] = m[dst + i]
      BY <1>12, <3>1
    <3>3. from[i + 1] = m[src + i]
      BY <1>13, <2>1, <3>1
    <3> QED  BY <1>15, <3>2, <3>3
  <2>3. \A i \in 0..(a - 1) : ~ Stops(i)
    <3>1. \A i \in 0..(a - 1) : i \in Nat
      BY <1>1
    <3> QED  BY <1>3, <1>5, <2>2, <3>1, Zenon
  <2>4. Stops(a)
    BY <1>1, <1>3, <1>5, Zenon
  <2>5. n = a
    <3>1. ~ (n < a)
      <4> SUFFICES ASSUME n < a PROVE FALSE
        OBVIOUS
      <4>1. n \in 0..(a - 1)
        BY <1>1, <1>10
      <4> HIDE DEF Stops
      <4> QED  BY <1>10, <2>3, <4>1, Zenon
    <3>2. ~ (a < n)
      <4> SUFFICES ASSUME a < n PROVE FALSE
        OBVIOUS
      <4>1. a \in 0..(n - 1)
        BY <1>1, <1>10
      <4> HIDE DEF Stops
      <4> QED  BY <1>11, <2>4, <4>1, Zenon
    <3> QED  BY <1>1, <1>10, <3>1, <3>2
  <2> QED  BY <1>1, <1>3, <1>5, <2>1, <2>5, Zenon
<1> QED  BY <1>9, <1>14, <1>15, Zenon DEF to, from

\* The assumption about the memories says that there is room.
LEMMA RoomThere ==
  ASSUME NEW x, RoomFor(x)
  PROVE  \E top, a, b : Room(x.memory, top, x.dst, x.src, a, b)
<1> DEFINE m == x.memory
           dst == x.dst
           src == x.src
<1>1. PICK top \in DOMAIN m : \E d, s \in 0 .. top :
        /\ m \in [0 .. top -> Byte] /\ dst \in 0 .. d /\ src \in 0 .. s
        /\ m[d] = 0 /\ m[s] = 0
        /\ d + (s - src) < src \/ (s < dst /\ d + (s - src) <= top)
  BY Zenon DEF RoomFor
<1>2. PICK d \in 0..top, s \in 0 .. top :
        /\ m \in [0 .. top -> Byte] /\ dst \in 0 .. d /\ src \in 0 .. s
        /\ m[d] = 0 /\ m[s] = 0
        /\ d + (s - src) < src \/ (s < dst /\ d + (s - src) <= top)
  BY <1>1, Zenon
<1> HIDE DEF m, dst, src
<1>3. top \in Nat
  BY <1>2
<1>4. Memory(m, top)
  BY <1>2, <1>3, Zenon DEF Memory
<1>5. PICK a \in 0..(d - dst) : Ends(m, dst, a)
  BY <1>2, <1>4, EndsExist, Zenon
<1>6. PICK b \in 0..(s - src) : Ends(m, src, b)
  BY <1>2, <1>4, EndsExist, Zenon
<1>7. dst \in 0..top /\ src \in 0..top
  BY <1>2, <1>3
<1>8. dst + a + b < src \/ (src + b < dst /\ dst + a + b <= top)
  <2>1. d + (s - src) < src \/ (s < dst /\ d + (s - src) <= top)
    BY <1>2, Zenon
  <2>2. dst \in 0..d /\ src \in 0..s /\ d \in 0..top /\ s \in 0..top
    BY <1>2, Zenon
  <2> QED  BY <1>3, <2>1, <2>2
<1>9. Room(m, top, dst, src, a, b)
  BY <1>4, <1>5, <1>6, <1>7, <1>8, Zenon DEF Room
<1> QED  BY <1>9, Zenon DEF m, dst, src

\* StringsBehaveAsTexts, for every memory with room for both strings.
THEOREM StringsAlwaysTexts == Spec => []StringsBehaveAsTexts
<1>1. InputInv => StringsBehaveAsTexts
  <2> SUFFICES ASSUME InputInv, part = "string" PROVE StringsBehaveAsTexts
    BY Zenon DEF StringsBehaveAsTexts
  <2> DEFINE m == input.memory
             dst == input.dst
             src == input.src
             to == StringAt(m, dst)
             from == StringAt(m, src)
             copy == strcpy(m, dst, src)
             cat == strcat(m, dst, src)
  <2>1. RoomFor(input)
    <3>1. input \in Memories
      BY Zenon DEF InputInv
    <3> QED  BY <3>1, PureAssumption, Zenon DEF PureAssumption
  <2>2. PICK top, a, b : Room(m, top, dst, src, a, b)
    BY <2>1, RoomThere, Zenon
  <2>3. /\ Strcpied(copy, m, dst, from) /\ Strcatted(cat, m, dst, to, from)
        /\ (strcmp(m, dst, src) = 0) <=> (to = from)
    BY <2>2, StrcpyLeaves, StrcatLeaves, StrcmpSays, Zenon
  <2> HIDE DEF copy, cat, to, from
  <2>4. /\ StringAt(copy.memory, dst) = from /\ copy.length = Len(from)
        /\ \A x \in DOMAIN m \ (dst .. dst + Len(from)) : copy.memory[x] = m[x]
        /\ StringAt(cat, dst) = to \o from
        /\ \A x \in DOMAIN m \ (dst .. dst + (Len(to) + Len(from))) : cat[x] = m[x]
        /\ (strcmp(m, dst, src) = 0) <=> (to = from)
    BY <2>3, Zenon DEF Strcpied, Strcatted
  <2> QED  BY <2>4, Zenon DEF StringsBehaveAsTexts, copy, cat, to, from
<1> QED  BY <1>1, AlwaysGiven, PTL

-----------------------------------------------------------------------------
(* Formats.                                                                *)

\* The loop of printf, over fmt, is in state s at the end.
Start == [state |-> "normal", arg |-> 1, out |-> <<>>]

Run(fmt, f) == /\ f = [k \in 0..Len(fmt) |-> f[k]] /\ f[0] = Start
               /\ \A k \in 1..Len(fmt) : f[k] = Step(f[k - 1], fmt[k])

Reaches(fmt, s) == \E f : Run(fmt, f) /\ f[Len(fmt)] = s

\* printf's result is in that state.
LEMMA PrintfRuns ==
  ASSUME NEW Chars, NEW fmt \in Seq(Chars), NEW s, Reaches(fmt, s)
  PROVE  printf(fmt) = s.out
<1> DEFINE n == Len(fmt)
           Rule(g) == [k \in 0 .. n |->
                         IF k = 0 THEN [state |-> "normal", arg |-> 1, out |-> <<>>]
                         ELSE Step(g[k - 1], fmt[k])]
           U == CHOOSE g : g = Rule(g)
<1>1. PICK f : Run(fmt, f) /\ f[n] = s
  BY Zenon DEF Reaches
<1>2. /\ f = [k \in 0..n |-> f[k]] /\ f[0] = Start
      /\ \A k \in 1..n : f[k] = Step(f[k - 1], fmt[k])
  BY <1>1, Zenon DEF Run
<1>3. n \in Nat
  OBVIOUS
<1>4. printf(fmt) = U[n].out
  BY DEF printf
<1> HIDE DEF n
<1>5. f = Rule(f)
  <2>1. ASSUME NEW k \in 0..n PROVE f[k] = Rule(f)[k]
    <3>1. CASE k = 0
      BY <1>2, <3>1 DEF Start
    <3>2. CASE k # 0
      <4>1. k \in 1..n
        BY <1>3, <3>2
      <4>2. f[k] = Step(f[k - 1], fmt[k])
        BY <1>2, <4>1, Zenon
      <4>3. Rule(f)[k] = Step(f[k - 1], fmt[k])
        BY <3>2
      <4> HIDE DEF Rule
      <4> QED  BY <4>2, <4>3
    <3> QED  BY <3>1, <3>2
  <2>2. Rule(f) = [k \in 0..n |-> Rule(f)[k]]
    OBVIOUS
  <2> HIDE DEF Rule
  <2> QED  BY <1>2, <2>1, <2>2
<1>6. U = Rule(U)
  <2> HIDE DEF Rule
  <2> QED  BY <1>5
<1> HIDE DEF U
<1>7. U[0] = Start
  <2>1. Rule(U)[0] = Start
    BY <1>3 DEF Start
  <2> HIDE DEF Rule
  <2> QED  BY <1>6, <2>1
<1>8. \A k \in 1..n : U[k] = Step(U[k - 1], fmt[k])
  <2> SUFFICES ASSUME NEW k \in 1..n PROVE U[k] = Step(U[k - 1], fmt[k])
    OBVIOUS
  <2>1. Rule(U)[k] = Step(U[k - 1], fmt[k])
    BY <1>3
  <2> HIDE DEF Rule
  <2> QED  BY <1>6, <2>1, Zenon
<1> HIDE DEF Rule
<1>9. Lockstep(U, f, n)
  <2>1. \A k \in 1..n : U[k - 1] = f[k - 1] => U[k] = f[k]
    BY <1>2, <1>8, Zenon
  <2>2. U[0] = f[0]
    BY <1>2, <1>7
  <2> QED  BY <2>1, <2>2, Zenon DEF Lockstep
<1>10. Alike(U, f, n)
  BY <1>3, <1>9, LoopsAgree, Zenon
<1>11. U[n] = f[n]
  BY <1>3, <1>10 DEF Alike
<1> QED  BY <1>1, <1>4, <1>11

\* An element more.
GrownBy(s, d, S) ==
  /\ s \o <<d>> \in Seq(S) /\ Len(s \o <<d>>) = Len(s) + 1
  /\ \A k \in 1..Len(s) : (s \o <<d>>)[k] = s[k]
  /\ (s \o <<d>>)[Len(s) + 1] = d
  /\ Append(s, d) = s \o <<d>>

\* Appending is that.
LEMMA OneMore ==
  ASSUME NEW S, NEW s \in Seq(S), NEW d \in S
  PROVE  GrownBy(s, d, S)
<1> DEFINE t == s \o <<d>>
<1>1. /\ t \in Seq(S) /\ Len(t) = Len(s) + 1
      /\ \A k \in 1..Len(s) : t[k] = s[k]
      /\ t[Len(s) + 1] = d
      /\ Append(s, d) = t
  OBVIOUS
<1> HIDE DEF t
<1>2. s \o <<d>> = t
  BY DEF t
<1> QED  BY <1>1, <1>2 DEF GrownBy

\* A character more.
LEMMA ReachesOn ==
  ASSUME NEW Chars, NEW fmt \in Seq(Chars), NEW s, Reaches(fmt, s), NEW ch \in Chars
  PROVE  /\ fmt \o <<ch>> \in Seq(Chars)
         /\ Reaches(fmt \o <<ch>>, Step(s, ch))
<1> DEFINE n == Len(fmt)
           fmt2 == fmt \o <<ch>>
<1>1. PICK f : Run(fmt, f) /\ f[n] = s
  BY Zenon DEF Reaches
<1>2. f[0] = Start /\ \A k \in 1..n : f[k] = Step(f[k - 1], fmt[k])
  BY <1>1, Zenon DEF Run
<1>3. n \in Nat
  OBVIOUS
<1>4. /\ fmt2 \in Seq(Chars) /\ Len(fmt2) = n + 1
      /\ \A k \in 1..n : fmt2[k] = fmt[k]
      /\ fmt2[n + 1] = ch
  <2>1. GrownBy(fmt, ch, Chars)
    BY OneMore, Zenon
  <2> QED  BY <2>1, Zenon DEF GrownBy
<1> DEFINE f2 == [k \in 0..(n + 1) |-> IF k = n + 1 THEN Step(s, ch) ELSE f[k]]
<1> HIDE DEF fmt2, n
<1>5. f2[n + 1] = Step(s, ch)
  BY <1>3
<1>6. \A k \in 0..n : f2[k] = f[k]
  BY <1>3
<1>7. f2 = [k \in 0..Len(fmt2) |-> f2[k]]
  BY <1>4
<1> HIDE DEF f2
<1>8. f2[0] = Start
  BY <1>2, <1>3, <1>6
<1>9. ASSUME NEW k \in 1..(n + 1) PROVE f2[k] = Step(f2[k - 1], fmt2[k])
  <2>1. k - 1 \in 0..n
    BY <1>3
  <2>2. f2[k - 1] = f[k - 1]
    BY <1>6, <2>1, Zenon
  <2>3. CASE k = n + 1
    <3>1. k - 1 = n
      BY <1>3, <2>3
    <3> QED  BY <1>1, <1>4, <1>5, <2>2, <2>3, <3>1, Zenon
  <2>4. CASE k # n + 1
    <3>1. k \in 1..n /\ k \in 0..n
      BY <1>3, <2>4
    <3> QED  BY <1>2, <1>4, <1>6, <2>2, <3>1, Zenon
  <2> QED  BY <2>3, <2>4
<1>10. Run(fmt2, f2)
  BY <1>4, <1>7, <1>8, <1>9, Zenon DEF Run
<1>11. Reaches(fmt2, Step(s, ch))
  BY <1>4, <1>5, <1>10, Zenon DEF Reaches
<1> QED  BY <1>4, <1>11, Zenon DEF fmt2

\* Before anything.
LEMMA ReachesStart == Reaches(<<>>, Start)
<1> DEFINE f == [k \in 0..0 |-> Start]
<1>1. Len(<<>>) = 0 /\ f = [k \in 0..0 |-> f[k]] /\ f[0] = Start /\ 1..0 = {}
  OBVIOUS
<1> HIDE DEF f
<1>2. Run(<<>>, f)
  BY <1>1, Zenon DEF Run
<1> QED  BY <1>1, <1>2, Zenon DEF Reaches

-----------------------------------------------------------------------------
\* What is shown, and the state between two pieces.
Kinds == {"plain", "char", "string", "address"}

Marks(Chars) == Kinds \X (Chars \cup Nat)

Between(arg, out) == [state |-> "normal", arg |-> arg, out |-> out]

\* The argument after a piece.
ArgAfter(piece, arg) == IF Takes(piece) THEN arg + 1 ELSE arg

\* Marks there are.
LEMMA MarksAre ==
  ASSUME NEW Chars, "%" \in Chars, NEW arg \in Nat
  PROVE  /\ <<"char", arg>> \in Marks(Chars) /\ <<"string", arg>> \in Marks(Chars)
         /\ <<"plain", "%">> \in Marks(Chars) /\ <<"address", arg>> \in Marks(Chars)
<1>1. /\ "char" \in Kinds /\ "string" \in Kinds /\ "plain" \in Kinds /\ "address" \in Kinds
      /\ arg \in Chars \cup Nat /\ "%" \in Chars \cup Nat
  BY Zenon DEF Kinds
<1> QED  BY <1>1, Zenon DEF Marks

\* The marks of a piece.
LEMMA ShownMarks ==
  ASSUME NEW Chars, "%" \in Chars, NEW p, IsPiece(p), p.ch \in Chars, NEW arg \in Nat
  PROVE  ShownAs(p, arg) \in Seq(Marks(Chars))
<1>1. CASE p.kind = "plain"
  <2>1. ShownAs(p, arg) = << <<"plain", p.ch>> >>
    BY <1>1 DEF ShownAs
  <2>2. <<"plain", p.ch>> \in Marks(Chars)
    <3>1. p.ch \in Chars /\ "plain" \in Kinds
      BY <1>1 DEF IsPiece, Kinds
    <3> QED  BY <3>1, Zenon DEF Marks
  <2> QED  BY <2>1, <2>2
<1>2. CASE p.kind = "directive"
  <2>1. \/ ShownAs(p, arg) = << <<"char", arg>> >>
        \/ ShownAs(p, arg) = << <<"string", arg>> >>
        \/ ShownAs(p, arg) = << <<"plain", "%">> >>
        \/ ShownAs(p, arg) = << <<"address", arg>> >>
        \/ ShownAs(p, arg) = <<>>
    BY <1>2 DEF ShownAs, Numeric
  <2>2. /\ <<"char", arg>> \in Marks(Chars) /\ <<"string", arg>> \in Marks(Chars)
        /\ <<"plain", "%">> \in Marks(Chars) /\ <<"address", arg>> \in Marks(Chars)
    BY MarksAre, Zenon
  <2>3. <<>> \in Seq(Marks(Chars)) /\ \A x \in Marks(Chars) : <<x>> \in Seq(Marks(Chars))
    OBVIOUS
  <2> QED  BY <2>1, <2>2, <2>3, Zenon
<1> QED  BY <1>1, <1>2 DEF IsPiece

\* A directive ends as it is shown, in whatever state of its length.
LEMMA DirectiveShown ==
  ASSUME NEW Chars, "%" \in Chars, NEW p, p.ch \in Chars, p.kind = "directive",
         NEW st, NEW arg \in Nat, NEW out \in Seq(Marks(Chars))
  PROVE  EndDirective([state |-> st, arg |-> arg, out |-> out], p.ch)
           = Between(ArgAfter(p, arg), out \o ShownAs(p, arg))
<1> DEFINE ch == p.ch
           s == [state |-> st, arg |-> arg, out |-> out]
<1>1. /\ <<"char", arg>> \in Marks(Chars) /\ <<"string", arg>> \in Marks(Chars)
      /\ <<"plain", "%">> \in Marks(Chars) /\ <<"address", arg>> \in Marks(Chars)
  BY MarksAre, Zenon
<1>2. ASSUME NEW x \in Marks(Chars) PROVE Append(out, x) = out \o <<x>>
  <2>1. GrownBy(out, x, Marks(Chars))
    BY OneMore, Zenon
  <2> QED  BY <2>1, Zenon DEF GrownBy
<1>3. out \o <<>> = out
  OBVIOUS
<1>4. ASSUME NEW a, NEW o, Directive(s, ch) = [state |-> st, arg |-> a, out |-> o]
      PROVE  EndDirective(s, ch) = Between(a, o)
  BY <1>4 DEF EndDirective, Between
<1>6. CASE ch = "c"
  <2> DEFINE x == <<"char", arg>>
  <2>1. Directive(s, ch) = [s EXCEPT !.out = Append(@, <<"char", s.arg>>), !.arg = @ + 1]
    BY <1>6, SMT DEF Directive, Numeric
  <2>2. ShownAs(p, arg) = <<x>> /\ ArgAfter(p, arg) = arg + 1
    BY <1>6 DEF ShownAs, ArgAfter, Takes, Numeric
  <2>3. s.arg = arg /\ x \in Marks(Chars)
    BY <1>1
  <2>4. Directive(s, ch) = [s EXCEPT !.out = Append(@, x), !.arg = @ + 1]
    <3> HIDE DEF s
    <3> QED  BY <2>1, <2>3, Zenon
  <2> HIDE DEF x
  <2>5. Directive(s, ch) = [state |-> st, arg |-> arg + 1, out |-> Append(out, x)]
    BY <2>4
  <2>6. EndDirective(s, ch) = Between(arg + 1, Append(out, x))
    BY <1>4, <2>5, Zenon
  <2> QED  BY <1>2, <2>2, <2>3, <2>6, Zenon
<1>7. CASE ch = "s"
  <2> DEFINE x == <<"string", arg>>
  <2>1. Directive(s, ch) = [s EXCEPT !.out = Append(@, <<"string", s.arg>>), !.arg = @ + 1]
    BY <1>7, SMT DEF Directive, Numeric
  <2>2. ShownAs(p, arg) = <<x>> /\ ArgAfter(p, arg) = arg + 1
    BY <1>7 DEF ShownAs, ArgAfter, Takes, Numeric
  <2>3. s.arg = arg /\ x \in Marks(Chars)
    BY <1>1
  <2>4. Directive(s, ch) = [s EXCEPT !.out = Append(@, x), !.arg = @ + 1]
    <3> HIDE DEF s
    <3> QED  BY <2>1, <2>3, Zenon
  <2> HIDE DEF x
  <2>5. Directive(s, ch) = [state |-> st, arg |-> arg + 1, out |-> Append(out, x)]
    BY <2>4
  <2>6. EndDirective(s, ch) = Between(arg + 1, Append(out, x))
    BY <1>4, <2>5, Zenon
  <2> QED  BY <1>2, <2>2, <2>3, <2>6, Zenon
<1>8. CASE ch = "%"
  <2> DEFINE x == <<"plain", "%">>
  <2>1. Directive(s, ch) = [s EXCEPT !.out = Append(@, <<"plain", "%">>)]
    BY <1>8, SMT DEF Directive, Numeric
  <2>2. ShownAs(p, arg) = <<x>> /\ ArgAfter(p, arg) = arg
    BY <1>8 DEF ShownAs, ArgAfter, Takes, Numeric
  <2>3. s.arg = arg /\ x \in Marks(Chars)
    BY <1>1
  <2>4. Directive(s, ch) = [s EXCEPT !.out = Append(@, x)]
    <3> HIDE DEF s
    <3> QED  BY <2>1, <2>3, Zenon
  <2> HIDE DEF x
  <2>5. Directive(s, ch) = [state |-> st, arg |-> arg, out |-> Append(out, x)]
    BY <2>4
  <2>6. EndDirective(s, ch) = Between(arg, Append(out, x))
    BY <1>4, <2>5, Zenon
  <2> QED  BY <1>2, <2>2, <2>3, <2>6, Zenon
<1>9. CASE ch \in Numeric
  <2> DEFINE x == <<"address", arg>>
  <2>1. Directive(s, ch) = [s EXCEPT !.out = Append(@, <<"address", s.arg>>)]
    BY <1>9, SMT DEF Directive, Numeric
  <2>2. ShownAs(p, arg) = <<x>> /\ ArgAfter(p, arg) = arg
    BY <1>9 DEF ShownAs, ArgAfter, Takes, Numeric
  <2>3. s.arg = arg /\ x \in Marks(Chars)
    BY <1>1
  <2>4. Directive(s, ch) = [s EXCEPT !.out = Append(@, x)]
    <3> HIDE DEF s
    <3> QED  BY <2>1, <2>3, Zenon
  <2> HIDE DEF x
  <2>5. Directive(s, ch) = [state |-> st, arg |-> arg, out |-> Append(out, x)]
    BY <2>4
  <2>6. EndDirective(s, ch) = Between(arg, Append(out, x))
    BY <1>4, <2>5, Zenon
  <2> QED  BY <1>2, <2>2, <2>3, <2>6, Zenon
<1>10. CASE ch \notin {"c", "s", "%"} \cup Numeric
  <2>1. Directive(s, ch) = s
    BY <1>10 DEF Directive
  <2>2. ShownAs(p, arg) = <<>> /\ ArgAfter(p, arg) = arg
    BY <1>10 DEF ShownAs, ArgAfter, Takes
  <2> QED  BY <1>3, <1>4, <2>1, <2>2
<1> QED  BY <1>6, <1>7, <1>8, <1>9, <1>10

\* Where printf is after a piece.
After(Chars, F, p, arg, out) ==
  /\ F \o Text(p) \in Seq(Chars) /\ out \o ShownAs(p, arg) \in Seq(Marks(Chars))
  /\ ArgAfter(p, arg) \in Nat
  /\ Reaches(F \o Text(p), Between(ArgAfter(p, arg), out \o ShownAs(p, arg)))

\* A plain character.
LEMMA PlainShown ==
  ASSUME NEW Chars, "%" \in Chars, NEW p, IsPiece(p), p.ch \in Chars, p.kind = "plain",
         NEW F \in Seq(Chars), NEW arg \in Nat, NEW out \in Seq(Marks(Chars)),
         Reaches(F, Between(arg, out))
  PROVE  After(Chars, F, p, arg, out)
<1> DEFINE x == <<"plain", p.ch>>
<1>1. p.ch # "%"
  BY DEF IsPiece
<1>2. ShownAs(p, arg) = <<x>> /\ Text(p) = <<p.ch>> /\ ArgAfter(p, arg) = arg
  BY DEF ShownAs, Text, ArgAfter, Takes
<1>3. x \in Marks(Chars)
  <2>1. "plain" \in Kinds /\ p.ch \in Chars \cup Nat
    BY Zenon DEF Kinds
  <2> QED  BY <2>1, Zenon DEF Marks
<1>4. Step(Between(arg, out), p.ch) = [Between(arg, out) EXCEPT !.out = Append(@, x)]
  BY <1>1 DEF Step, Between
<1> HIDE DEF x
<1>5. out \o <<x>> \in Seq(Marks(Chars)) /\ Append(out, x) = out \o <<x>>
  <2>1. GrownBy(out, x, Marks(Chars))
    BY <1>3, OneMore, Zenon
  <2> QED  BY <2>1, Zenon DEF GrownBy
<1>6. [Between(arg, out) EXCEPT !.out = Append(@, x)] = Between(arg, Append(out, x))
  <2> DEFINE s == [state |-> "normal", arg |-> arg, out |-> out]
             y == Append(out, x)
  <2>1. [s EXCEPT !.out = Append(@, x)] = [s EXCEPT !.out = y]
    <3>1. s.out = out
      OBVIOUS
    <3> HIDE DEF s
    <3> QED  BY <3>1, Zenon
  <2> HIDE DEF y
  <2>2. [s EXCEPT !.out = y] = [state |-> "normal", arg |-> arg, out |-> y]
    OBVIOUS
  <2> HIDE DEF s
  <2> QED  BY <2>1, <2>2, Zenon DEF Between, s, y
<1>7. /\ F \o <<p.ch>> \in Seq(Chars)
      /\ Reaches(F \o <<p.ch>>, Step(Between(arg, out), p.ch))
  BY ReachesOn, Zenon
<1>8. Reaches(F \o <<p.ch>>, Between(arg, out \o <<x>>))
  BY <1>4, <1>5, <1>6, <1>7, Zenon
<1> QED  BY <1>2, <1>5, <1>7, <1>8, Zenon DEF After

\* A directive, whatever its length.
LEMMA LengthShown ==
  ASSUME NEW Chars, {"%", "h", "l"} \subseteq Chars,
         NEW p, IsPiece(p), p.ch \in Chars, p.kind = "directive",
         NEW F \in Seq(Chars), NEW arg \in Nat, NEW out \in Seq(Marks(Chars)),
         Reaches(F, Between(arg, out))
  PROVE  After(Chars, F, p, arg, out)
<1> DEFINE At(st) == [state |-> st, arg |-> arg, out |-> out]
           ch == p.ch
           end == Between(ArgAfter(p, arg), out \o ShownAs(p, arg))
           G == F \o <<"%">>
<1>1. p.length \in Lengths /\ ch \notin {"h", "l"} /\ "%" \in Chars /\ "h" \in Chars /\ "l" \in Chars
  BY DEF IsPiece
<1>2. /\ Step(Between(arg, out), "%") = At("length")
      /\ Step(At("length"), "h") = At("short")
      /\ Step(At("length"), "l") = At("long")
      /\ Step(At("short"), "h") = At("spec")
      /\ Step(At("long"), "l") = At("spec")
  BY DEF Step, Between
<1>3. \A st \in {"length", "short", "long", "spec"} : Step(At(st), ch) = end
  <2> SUFFICES ASSUME NEW st \in {"length", "short", "long", "spec"}
               PROVE  Step(At(st), ch) = end
    OBVIOUS
  <2>1. Step(At(st), ch) = EndDirective(At(st), ch)
    BY <1>1 DEF Step
  <2>2. EndDirective(At(st), ch) = end
    BY <1>1, DirectiveShown, ZenonT(40)
  <2> QED  BY <2>1, <2>2
<1> HIDE DEF At, end
<1>4. G \in Seq(Chars) /\ Reaches(G, At("length"))
  <2>1. G \in Seq(Chars) /\ Reaches(G, Step(Between(arg, out), "%"))
    BY <1>1, ReachesOn, Zenon
  <2> HIDE DEF G
  <2> QED  BY <1>2, <2>1, Zenon
<1>5. \A H, st : H \in Seq(Chars) /\ Reaches(H, At(st)) /\ st \in {"length", "short", "long", "spec"}
        => H \o <<ch>> \in Seq(Chars) /\ Reaches(H \o <<ch>>, end)
  <2> SUFFICES ASSUME NEW H \in Seq(Chars), NEW st \in {"length", "short", "long", "spec"},
                      Reaches(H, At(st))
               PROVE  H \o <<ch>> \in Seq(Chars) /\ Reaches(H \o <<ch>>, end)
    BY Zenon
  <2>1. H \o <<ch>> \in Seq(Chars) /\ Reaches(H \o <<ch>>, Step(At(st), ch))
    BY ReachesOn, Zenon
  <2> QED  BY <1>3, <2>1, Zenon
<1> DEFINE Last(H) == H \o <<ch>> \in Seq(Chars) /\ Reaches(H \o <<ch>>, end)
<1>6. Text(p) = (<<"%">> \o p.length) \o <<ch>>
  BY DEF Text
<1>7. F \o Text(p) \in Seq(Chars) /\ Reaches(F \o Text(p), end)
  <2>1. CASE p.length = <<>>
    <3>1. F \o ((<<"%">> \o <<>>) \o <<ch>>) = G \o <<ch>>
      BY <1>1
    <3> HIDE DEF G
    <3> QED  BY <1>4, <1>5, <1>6, <2>1, <3>1, Zenon
  <2>2. ASSUME NEW c \in {"h", "l"}, p.length = <<c>>
        PROVE  F \o Text(p) \in Seq(Chars) /\ Reaches(F \o Text(p), end)
    <3> DEFINE H == G \o <<c>>
    <3>1. F \o ((<<"%">> \o <<c>>) \o <<ch>>) = H \o <<ch>>
      BY <1>1
    <3>2. \E st \in {"short", "long"} : Step(At("length"), c) = At(st)
      BY <1>2
    <3> HIDE DEF G
    <3>3. H \in Seq(Chars) /\ Reaches(H, Step(At("length"), c))
      <4>1. c \in Chars
        BY <1>1
      <4> QED  BY <1>4, <4>1, ReachesOn, Zenon
    <3> HIDE DEF H
    <3> QED  BY <1>5, <1>6, <2>2, <3>1, <3>2, <3>3, Zenon
  <2>3. ASSUME NEW c \in {"h", "l"}, p.length = <<c, c>>
        PROVE  F \o Text(p) \in Seq(Chars) /\ Reaches(F \o Text(p), end)
    <3> DEFINE H == G \o <<c>>
               J == H \o <<c>>
    <3>0. c \in Chars
      BY <1>1
    <3>1. F \o ((<<"%">> \o <<c, c>>) \o <<ch>>) = J \o <<ch>>
      BY <1>1, <3>0
    <3>2. PICK st \in {"short", "long"} : /\ Step(At("length"), c) = At(st)
                                          /\ Step(At(st), c) = At("spec")
      BY <1>2
    <3> HIDE DEF G
    <3>3. H \in Seq(Chars) /\ Reaches(H, Step(At("length"), c))
      BY <1>4, <3>0, ReachesOn, Zenon
    <3>4. Reaches(H, At(st))
      BY <3>2, <3>3, Zenon
    <3> HIDE DEF H
    <3>5. J \in Seq(Chars) /\ Reaches(J, Step(At(st), c))
      BY <3>0, <3>3, <3>4, ReachesOn, Zenon
    <3> HIDE DEF J
    <3> QED  BY <1>5, <1>6, <2>3, <3>1, <3>2, <3>5, Zenon
  <2> QED  BY <1>1, <2>1, <2>2, <2>3 DEF Lengths
<1>8. out \o ShownAs(p, arg) \in Seq(Marks(Chars))
  <2>1. ShownAs(p, arg) \in Seq(Marks(Chars))
    BY <1>1, ShownMarks, Zenon
  <2> QED  BY <2>1
<1>9. ArgAfter(p, arg) \in Nat
  BY DEF ArgAfter
<1> QED  BY <1>7, <1>8, <1>9, Zenon DEF After, end

\* A piece.
LEMMA PieceShown ==
  ASSUME NEW Chars, {"%", "h", "l"} \subseteq Chars, NEW p, IsPiece(p), p.ch \in Chars,
         NEW F \in Seq(Chars), NEW arg \in Nat, NEW out \in Seq(Marks(Chars)),
         Reaches(F, Between(arg, out))
  PROVE  After(Chars, F, p, arg, out)
<1>1. "%" \in Chars
  OBVIOUS
<1>2. p.kind = "plain" \/ p.kind = "directive"
  BY Zenon DEF IsPiece
<1> QED  BY <1>1, <1>2, PlainShown, LengthShown, Zenon

-----------------------------------------------------------------------------
\* Texts one after the other.
Joins(texts, S, U) ==
  /\ U \in [0..Len(texts) -> Seq(S)] /\ U[0] = <<>>
  /\ \A k \in 1..Len(texts) : U[k] = U[k - 1] \o texts[k]

\* Joined joins them.
LEMMA JoinedJoins ==
  ASSUME NEW S, NEW n \in Nat, NEW texts \in [1..n -> Seq(S)], Len(texts) = n
  PROVE  \E U : Joins(texts, S, U) /\ Joined(texts) = U[n]
<1> DEFINE Q == Seq(S)
           g == [p \in (1..n) \X Q |-> p[2] \o texts[p[1]]]
           Rule(f) == [k \in 0..n |-> IF k = 0 THEN <<>> ELSE f[k - 1] \o texts[k]]
           U == CHOOSE f : f = Rule(f)
<1>1. <<>> \in Q /\ \A s, t \in Q : s \o t \in Q
  OBVIOUS
<1> HIDE DEF Q
<1>2. g \in [(1..n) \X Q -> Q]
  <2>1. ASSUME NEW p \in (1..n) \X Q PROVE p[2] \o texts[p[1]] \in Q
    <3>1. p[1] \in 1..n /\ p[2] \in Q
      OBVIOUS
    <3>2. texts[p[1]] \in Q
      BY <3>1 DEF Q
    <3> QED  BY <1>1, <3>1, <3>2
  <2> QED  BY <2>1
<1>3. PICK f : Loops(f, n, Q, <<>>, g)
  <2> HIDE DEF g
  <2> QED  BY <1>1, <1>2, LoopExists
<1>4. f \in [0..n -> Q] /\ f[0] = <<>> /\ \A k \in 1..n : f[k] = f[k - 1] \o texts[k]
  <2>1. f \in [0..n -> Q] /\ f[0] = <<>> /\ \A k \in 1..n : f[k] = g[<<k, f[k - 1]>>]
    BY <1>3, Zenon DEF Loops
  <2>2. ASSUME NEW k \in 1..n PROVE g[<<k, f[k - 1]>>] = f[k - 1] \o texts[k]
    <3>1. k - 1 \in 0..n
      OBVIOUS
    <3>2. f[k - 1] \in Q
      BY <2>1, <3>1
    <3> DEFINE p == <<k, f[k - 1]>>
    <3>3. p \in (1..n) \X Q /\ p[1] = k /\ p[2] = f[k - 1]
      BY <3>2
    <3> HIDE DEF p
    <3>4. g[p] = p[2] \o texts[p[1]]
      BY <3>3
    <3> QED  BY <3>3, <3>4, Zenon DEF p
  <2> QED  BY <2>1, <2>2, Zenon
<1>5. f = Rule(f)
  <2>1. f = [k \in 0..n |-> f[k]]
    BY <1>4
  <2>2. ASSUME NEW k \in 0..n PROVE f[k] = Rule(f)[k]
    <3>1. CASE k = 0
      BY <1>4, <3>1
    <3>2. CASE k # 0
      <4>1. k \in 1..n
        BY <3>2
      <4> QED  BY <1>4, <3>2, <4>1
    <3> QED  BY <3>1, <3>2
  <2> QED  BY <2>1, <2>2
<1>6. U = Rule(U)
  <2> HIDE DEF Rule
  <2> QED  BY <1>5
<1>7. Joined(texts) = U[n]
  BY DEF Joined
<1> HIDE DEF U
<1>8. U[0] = <<>> /\ U = [k \in 0..n |-> U[k]]
  <2>1. Rule(U)[0] = <<>> /\ Rule(U) = [k \in 0..n |-> Rule(U)[k]]
    OBVIOUS
  <2> HIDE DEF Rule
  <2> QED  BY <1>6, <2>1
<1>9. ASSUME NEW k \in 1..n PROVE U[k] = U[k - 1] \o texts[k]
  <2>1. Rule(U)[k] = U[k - 1] \o texts[k]
    OBVIOUS
  <2> HIDE DEF Rule
  <2> QED  BY <1>6, <2>1
<1>10. \A k \in 0..n : U[k] = f[k]
  <2>1. \A k \in 1..n : U[k - 1] = f[k - 1] => U[k] = f[k]
    BY <1>4, <1>9, Zenon
  <2>2. U[0] = f[0]
    BY <1>4, <1>8, Zenon
  <2>3. Lockstep(U, f, n)
    BY <2>1, <2>2, Zenon DEF Lockstep
  <2>4. Alike(U, f, n)
    BY <2>3, LoopsAgree, Zenon
  <2> QED  BY <2>4, Zenon DEF Alike
<1>11. U \in [0..n -> Q]
  BY <1>4, <1>8, <1>10
<1>12. Joins(texts, S, U)
  BY <1>8, <1>9, <1>11, Zenon DEF Joins, Q
<1> QED  BY <1>7, <1>12, Zenon

\* The arguments taken before a piece, and after it.
LEMMA TakenNext ==
  ASSUME NEW pieces, NEW k \in Nat, k > 0
  PROVE  /\ TakenBefore(pieces, k) \in Nat
         /\ ArgAfter(pieces[k], TakenBefore(pieces, k) + 1) = TakenBefore(pieces, k + 1) + 1
<1> DEFINE T == {j \in 1..k - 1 : Takes(pieces[j])}
           T2 == {j \in 1..(k + 1) - 1 : Takes(pieces[j])}
<1>1. IsFiniteSet(T)
  <2>1. IsFiniteSet(1..k - 1)
    BY FS_Interval
  <2>2. T \subseteq 1..k - 1
    OBVIOUS
  <2> HIDE DEF T
  <2> QED  BY <2>1, <2>2, FS_Subset
<1>2. TakenBefore(pieces, k) = Cardinality(T) /\ TakenBefore(pieces, k + 1) = Cardinality(T2)
  BY Zenon DEF TakenBefore
<1>3. Cardinality(T) \in Nat
  <2> HIDE DEF T
  <2> QED  BY <1>1, FS_CardinalityType
<1>4. k \notin T
  OBVIOUS
<1>5. CASE Takes(pieces[k])
  <2>1. T2 = T \cup {k}
    BY <1>5
  <2> HIDE DEF T, T2
  <2>2. Cardinality(T2) = Cardinality(T) + 1
    BY <1>1, <1>4, <2>1, FS_AddElement
  <2> QED  BY <1>2, <1>3, <1>5, <2>2 DEF ArgAfter
<1>6. CASE ~ Takes(pieces[k])
  <2>1. T2 = T
    BY <1>6
  <2> HIDE DEF T, T2
  <2> QED  BY <1>2, <1>3, <1>6, <2>1 DEF ArgAfter
<1> QED  BY <1>5, <1>6

\* Nothing is taken before the first.
LEMMA TakenFirst ==
  ASSUME NEW pieces
  PROVE  TakenBefore(pieces, 1) = 0
<1>1. {j \in 1..1 - 1 : Takes(pieces[j])} = {}
  OBVIOUS
<1> QED  BY <1>1, FS_EmptySet, Zenon DEF TakenBefore

\* The text of a piece.
LEMMA TextChars ==
  ASSUME NEW Chars, {"%", "h", "l"} \subseteq Chars, NEW p, IsPiece(p), p.ch \in Chars
  PROVE  Text(p) \in Seq(Chars)
<1>1. CASE p.kind = "plain"
  BY <1>1 DEF Text
<1>2. CASE p.kind = "directive"
  <2>1. Text(p) = <<"%">> \o p.length \o <<p.ch>>
    BY <1>2 DEF Text
  <2>2. p.length \in Seq(Chars)
    <3>1. p.length \in Lengths /\ "h" \in Chars /\ "l" \in Chars
      BY <1>2 DEF IsPiece
    <3>2. <<>> \in Seq(Chars) /\ \A c \in Chars : <<c>> \in Seq(Chars) /\ <<c, c>> \in Seq(Chars)
      OBVIOUS
    <3> QED  BY <3>1, <3>2, Zenon DEF Lengths
  <2> QED  BY <2>1, <2>2
<1> QED  BY <1>1, <1>2 DEF IsPiece

\* printf shows what a format of such pieces means.
LEMMA FormatIsShown ==
  ASSUME NEW pieces, NEW n \in Nat, Len(pieces) = n, DOMAIN pieces = 1..n,
         \A k \in 1..n : IsPiece(pieces[k])
  PROVE  printf(Joined([k \in DOMAIN pieces |-> Text(pieces[k])]))
           = Joined([k \in DOMAIN pieces |-> Shown(pieces, k)])
<1> DEFINE Chars == {"%", "h", "l"} \cup {pieces[k].ch : k \in 1..n}
           texts == [k \in 1..n |-> Text(pieces[k])]
           shown == [k \in 1..n |-> Shown(pieces, k)]
           taken(k) == TakenBefore(pieces, k)
<1>1. {"%", "h", "l"} \subseteq Chars /\ "%" \in Chars /\ \A k \in 1..n : pieces[k].ch \in Chars
  OBVIOUS
<1> HIDE DEF Chars
<1>2. texts \in [1..n -> Seq(Chars)]
  <2>1. \A k \in 1..n : Text(pieces[k]) \in Seq(Chars)
    BY <1>1, TextChars, Zenon
  <2> QED  BY <2>1
<1>3. shown \in [1..n -> Seq(Marks(Chars))]
  <2> SUFFICES ASSUME NEW k \in 1..n PROVE Shown(pieces, k) \in Seq(Marks(Chars))
    OBVIOUS
  <2>1. taken(k) + 1 \in Nat
    <3>1. k \in Nat /\ k > 0
      OBVIOUS
    <3>2. taken(k) \in Nat
      BY <3>1, TakenNext, Zenon
    <3> QED  BY <3>2
  <2>2. ShownAs(pieces[k], taken(k) + 1) \in Seq(Marks(Chars))
    BY <1>1, <2>1, ShownMarks, Zenon
  <2> QED  BY <2>2, Zenon DEF Shown
<1>4. Len(texts) = n /\ Len(shown) = n
  <2> HIDE DEF texts, shown
  <2> QED  BY <1>2, <1>3, FunctionIsSeq
<1>5. PICK F : Joins(texts, Chars, F) /\ Joined(texts) = F[n]
  <2> HIDE DEF texts
  <2> QED  BY <1>2, <1>4, JoinedJoins, Zenon
<1>6. PICK V : Joins(shown, Marks(Chars), V) /\ Joined(shown) = V[n]
  <2> HIDE DEF shown
  <2> QED  BY <1>3, <1>4, JoinedJoins, Zenon
<1>7. /\ F \in [0..n -> Seq(Chars)] /\ F[0] = <<>>
      /\ \A k \in 1..n : F[k] = F[k - 1] \o Text(pieces[k])
  <2>1. /\ F \in [0..n -> Seq(Chars)] /\ F[0] = <<>>
        /\ \A k \in 1..n : F[k] = F[k - 1] \o texts[k]
    BY <1>4, <1>5, Zenon DEF Joins
  <2> QED  BY <2>1
<1>8. /\ V \in [0..n -> Seq(Marks(Chars))] /\ V[0] = <<>>
      /\ \A k \in 1..n : V[k] = V[k - 1] \o Shown(pieces, k)
  <2>1. /\ V \in [0..n -> Seq(Marks(Chars))] /\ V[0] = <<>>
        /\ \A k \in 1..n : V[k] = V[k - 1] \o shown[k]
    BY <1>4, <1>6, Zenon DEF Joins
  <2> QED  BY <2>1
<1> DEFINE At(k) == Reaches(F[k], Between(taken(k + 1) + 1, V[k]))
           T == {k \in Nat : k <= n => At(k)}
<1>9. At(0)
  <2>1. taken(0 + 1) + 1 = 1
    BY TakenFirst
  <2>2. Between(1, <<>>) = Start
    BY Zenon DEF Between, Start
  <2> QED  BY <1>7, <1>8, <2>1, <2>2, ReachesStart, Zenon
<1>10. ASSUME NEW k \in 1..n, At(k - 1) PROVE At(k)
  <2> DEFINE p == pieces[k]
             arg == taken(k) + 1
  <2>1. k \in Nat /\ k > 0 /\ k - 1 \in 0..n /\ (k - 1) + 1 = k
    OBVIOUS
  <2>2. taken(k) \in Nat /\ ArgAfter(p, arg) = taken(k + 1) + 1
    BY <2>1, TakenNext, Zenon
  <2>3. arg \in Nat
    BY <2>2
  <2>4. F[k - 1] \in Seq(Chars) /\ V[k - 1] \in Seq(Marks(Chars))
    BY <1>7, <1>8, <2>1
  <2>5. Reaches(F[k - 1], Between(arg, V[k - 1]))
    BY <1>10, <2>1, Zenon
  <2>6. IsPiece(p) /\ p.ch \in Chars
    BY <1>1, Zenon
  <2> HIDE DEF arg
  <2>7. After(Chars, F[k - 1], p, arg, V[k - 1])
    BY <1>1, <2>3, <2>4, <2>5, <2>6, PieceShown, Zenon
  <2>8. Reaches(F[k - 1] \o Text(p), Between(ArgAfter(p, arg), V[k - 1] \o ShownAs(p, arg)))
    BY <2>7, Zenon DEF After
  <2>9. ShownAs(p, arg) = Shown(pieces, k)
    BY Zenon DEF Shown, arg
  <2>10. F[k] = F[k - 1] \o Text(p) /\ V[k] = V[k - 1] \o Shown(pieces, k)
    BY <1>7, <1>8, Zenon
  <2> QED  BY <2>2, <2>8, <2>9, <2>10, Zenon
<1> HIDE DEF At
<1>11. ASSUME NEW k \in Nat, \A j \in Nat : j < k => j \in T PROVE k \in T
  <2>1. CASE k = 0
    BY <1>9, <2>1
  <2>2. CASE k # 0 /\ k <= n
    <3>1. k \in 1..n /\ k - 1 \in Nat /\ k - 1 < k /\ k - 1 <= n
      BY <2>2
    <3>2. At(k - 1)
      BY <1>11, <3>1
    <3> QED  BY <1>10, <3>1, <3>2
  <2>3. CASE ~ (k <= n)
    BY <2>3
  <2> QED  BY <2>1, <2>2, <2>3
<1>12. At(n)
  <2>1. T \in SUBSET Nat
    OBVIOUS
  <2>2. T = Nat
    <3> HIDE DEF T
    <3> QED  BY <1>11, <2>1, Induction
  <2>3. n \in T /\ n <= n
    BY <2>2
  <2> QED  BY <2>3
<1>13. F[n] \in Seq(Chars)
  <2>1. n \in 0..n
    OBVIOUS
  <2> QED  BY <1>7, <2>1
<1>14. printf(F[n]) = V[n]
  <2>1. Reaches(F[n], Between(taken(n + 1) + 1, V[n]))
    BY <1>12, Zenon DEF At
  <2>2. Between(taken(n + 1) + 1, V[n]).out = V[n]
    BY DEF Between
  <2> QED  BY <1>13, <2>1, <2>2, PrintfRuns, Zenon
<1>15. printf(Joined(texts)) = Joined(shown)
  BY <1>5, <1>6, <1>14, Zenon
<1> QED  BY <1>15, Zenon

\* FormatShown, for every format of such pieces.
THEOREM FormatsAlwaysShown == Spec => []FormatShown
<1>1. InputInv => FormatShown
  <2> SUFFICES ASSUME InputInv, part = "format" PROVE FormatShown
    BY Zenon DEF FormatShown
  <2>1. input \in Formats
    BY Zenon DEF InputInv
  <2>2. /\ Len(input) \in Nat /\ DOMAIN input = 1 .. Len(input)
        /\ \A k \in DOMAIN input : IsPiece(input[k])
    BY <2>1, PureAssumption, Zenon DEF PureAssumption
  <2> QED  BY <2>2, FormatIsShown, Zenon DEF FormatShown
<1> QED  BY <1>1, AlwaysGiven, PTL

-----------------------------------------------------------------------------
(* Files on FAT volumes.                                                   *)

\* Products grow with their factors.
LEMMA MulMono ==
  ASSUME NEW a \in Nat, NEW b \in Nat, a <= b, NEW c \in Nat
  PROVE  a * c <= b * c /\ a * c \in Nat
<1> DEFINE d == b - a
<1>1. d \in Nat /\ b = a + d
  OBVIOUS
<1> HIDE DEF d
<1>2. d * c \in Nat /\ a * c \in Nat
  BY <1>1, SMT
<1>3. (a + d) * c = (a * c) + (d * c)
  BY <1>1, SMT
<1> QED  BY <1>1, <1>2, <1>3

\* Division with remainder.
LEMMA DivMod ==
  ASSUME NEW n \in Nat, NEW d \in Nat \ {0}
  PROVE  n \div d \in Nat /\ n % d \in 0..(d - 1) /\ n = (n \div d) * d + (n % d)
<1>1. n % d \in 0..(d - 1)
  BY SMT
<1>2. n \div d \in Nat
  BY SMT
<1>3. n = (n \div d) * d + (n % d)
  BY SMT
<1> QED  BY <1>1, <1>2, <1>3

\* It is the only one.
LEMMA DivUnique ==
  ASSUME NEW d \in Nat \ {0}, NEW j \in Nat, NEW i \in 0..(d - 1),
         NEW j2 \in Nat, NEW i2 \in 0..(d - 1), j * d + i = j2 * d + i2
  PROVE  j = j2 /\ i = i2
<1>1. j * d \in Nat /\ j2 * d \in Nat /\ d \in Nat
  BY SMT
<1>2. ~ (j < j2)
  <2> SUFFICES ASSUME j < j2 PROVE FALSE
    OBVIOUS
  <2>1. (j + 1) * d <= j2 * d
    BY MulMono
  <2>2. (j + 1) * d = (j * d) + d
    BY SMT
  <2> QED  BY <1>1, <2>1, <2>2
<1>3. ~ (j2 < j)
  <2> SUFFICES ASSUME j2 < j PROVE FALSE
    OBVIOUS
  <2>1. (j2 + 1) * d <= j * d
    BY MulMono
  <2>2. (j2 + 1) * d = (j2 * d) + d
    BY SMT
  <2> QED  BY <1>1, <2>1, <2>2
<1>4. j = j2
  BY <1>2, <1>3
<1> QED  BY <1>1, <1>4

\* Where the parts of a multiple end.
LEMMA DivOf ==
  ASSUME NEW d \in Nat \ {0}, NEW j \in Nat, NEW i \in 0..(d - 1)
  PROVE  (j * d + i) \div d = j /\ (j * d + i) % d = i
<1> DEFINE n == j * d + i
<1>1. n \in Nat
  <2>1. j * d \in Nat
    BY SMT
  <2> QED  BY <2>1
<1>2. n \div d \in Nat /\ n % d \in 0..(d - 1) /\ n = (n \div d) * d + (n % d)
  BY <1>1, DivMod, Zenon
<1> DEFINE q == n \div d
           r == n % d
<1>3. n = j * d + i
  OBVIOUS
<1> HIDE DEF n, q, r
<1>4. j * d + i = q * d + r /\ q \in Nat /\ r \in 0..(d - 1)
  BY <1>2, <1>3, Zenon DEF q, r
<1>5. j = q /\ i = r
  BY <1>4, DivUnique
<1> QED  BY <1>3, <1>5, Zenon DEF q, r

\* What is less than so many multiples.
LEMMA DivLess ==
  ASSUME NEW d \in Nat \ {0}, NEW k \in Nat, NEW n \in Nat, n < k * d
  PROVE  n \div d < k
<1> DEFINE q == n \div d
<1>1. q \in Nat /\ n % d \in 0..(d - 1) /\ n = q * d + (n % d)
  BY DivMod, Zenon
<1> HIDE DEF q
<1>2. ~ (k <= q)
  <2> SUFFICES ASSUME k <= q PROVE FALSE
    OBVIOUS
  <2>1. k * d <= q * d /\ k * d \in Nat
    BY <1>1, MulMono
  <2>2. q * d \in Nat
    BY <1>1, SMT
  <2> QED  BY <1>1, <2>1, <2>2
<1> QED  BY <1>1, <1>2 DEF q

\* The directory takes the sectors that the reader computes.
LEMMA DataStartIs ==
  ASSUME NEW bs, IsVolume(bs)
  PROVE  /\ DataStart(bs) = g_RootDirectoryEnd(bs)
         /\ DataStart(bs) = bs.ReservedSectors + bs.FatCount * bs.SectorsPerFat
                              + RootDirectorySectors(bs)
         /\ RootDirectory(bs) = bs.ReservedSectors + bs.FatCount * bs.SectorsPerFat
         /\ RootDirectory(bs) \in Nat /\ RootDirectorySectors(bs) \in Nat
<1> DEFINE B == bs.BytesPerSector
           c == bs.DirEntryCount
           E == EntrySize * c
           q == E \div B
           r == E % B
           m == RootDirectorySectors(bs)
           P(n) == n * B >= E /\ (n - 1) * B < E
<1>1. /\ bs.ReservedSectors \in Nat /\ bs.FatCount \in Nat /\ bs.SectorsPerFat \in Nat
      /\ c \in Nat /\ B \in Nat \ {0} /\ B >= 32
  BY DEF IsVolume, EntrySize
<1>2. E \in Nat /\ E = c * 32
  BY <1>1 DEF EntrySize
<1>3. m = IF r > 0 THEN q + 1 ELSE q
  <2>1. m = q + (IF r > 0 THEN 1 ELSE 0)
    BY Zenon DEF RootDirectorySectors
  <2>2. q \in Nat
    BY <1>1, <1>2, DivMod, Zenon
  <2> HIDE DEF q, r, m
  <2> QED  BY <2>1, <2>2
<1>4. RootDirectory(bs) = bs.ReservedSectors + bs.FatCount * bs.SectorsPerFat
      /\ RootDirectory(bs) \in Nat
  <2>1. bs.SectorsPerFat * bs.FatCount = bs.FatCount * bs.SectorsPerFat
        /\ bs.FatCount * bs.SectorsPerFat \in Nat
    BY <1>1
  <2> QED  BY <1>1, <2>1 DEF RootDirectory
<1>5. DataStart(bs) = bs.ReservedSectors + bs.FatCount * bs.SectorsPerFat
                        + (CHOOSE n \in 0..c : P(n))
  BY DEF DataStart
<1>6. g_RootDirectoryEnd(bs) = RootDirectory(bs) + m
  BY DEF g_RootDirectoryEnd
<1> HIDE DEF B, c, E
<1>7. q \in Nat /\ r \in 0..(B - 1) /\ E = q * B + r
  BY <1>1, <1>2, DivMod, Zenon
<1> HIDE DEF q, r, m
<1>8. m \in Nat /\ P(m)
  <2>1. q * B \in Nat /\ (q + 1) * B = (q * B) + B /\ (q - 1) * B = (q * B) - B
    BY <1>1, <1>7, SMT
  <2>2. CASE r > 0
    <3>1. m = q + 1 /\ m - 1 = q
      BY <1>3, <1>7, <2>2
    <3> QED  BY <1>1, <1>7, <2>1, <2>2, <3>1
  <2>3. CASE ~ (r > 0)
    <3>1. m = q /\ r = 0
      BY <1>3, <1>7, <2>3
    <3> QED  BY <1>1, <1>7, <2>1, <3>1
  <2> QED  BY <2>2, <2>3
<1>9. m \in 0..c
  <2>1. ~ (c < m)
    <3> SUFFICES ASSUME c < m PROVE FALSE
      OBVIOUS
    <3>1. c <= m - 1 /\ m - 1 \in Nat
      BY <1>1, <1>8
    <3>2. c * B <= (m - 1) * B
      BY <1>1, <3>1, MulMono
    <3>3. c * 32 <= c * B
      <4>1. 32 * c <= B * c
        BY <1>1, MulMono
      <4> QED  BY <1>1, <4>1
    <3>4. c * B \in Nat /\ (m - 1) * B \in Nat
      BY <1>1, <3>1, MulMono
    <3> QED  BY <1>1, <1>2, <1>8, <3>2, <3>3, <3>4
  <2> QED  BY <1>1, <1>8, <2>1
<1>10. ASSUME NEW n \in 0..c, P(n) PROVE n = m
  <2>1. n \in Nat /\ n * B \in Nat /\ m * B \in Nat
    BY <1>1, <1>8, SMT
  <2>2. ~ (n < m)
    <3> SUFFICES ASSUME n < m PROVE FALSE
      OBVIOUS
    <3>1. n * B <= (m - 1) * B /\ (m - 1) * B \in Nat
      BY <1>1, <1>8, <2>1, MulMono
    <3> QED  BY <1>2, <1>8, <1>10, <2>1, <3>1
  <2>3. ~ (m < n)
    <3> SUFFICES ASSUME m < n PROVE FALSE
      OBVIOUS
    <3>1. m * B <= (n - 1) * B /\ (n - 1) * B \in Nat
      BY <1>1, <1>8, <2>1, MulMono
    <3> QED  BY <1>2, <1>8, <1>10, <2>1, <3>1
  <2> QED  BY <1>8, <2>1, <2>2, <2>3
<1> HIDE DEF P
<1>11. (CHOOSE n \in 0..c : P(n)) = m
  BY <1>8, <1>9, <1>10
<1> QED  BY <1>4, <1>5, <1>6, <1>8, <1>11 DEF m

\* Two 12-bit entries read out of the three bytes they share.
LowEntry(pair) == pair % 4096
PairRead(a, b) ==
  /\ LowEntry((a % 256) + 256 * ((a \div 256) + 16 * (b % 16))) = a
  /\ (((a \div 256) + 16 * (b % 16)) + 256 * (b \div 16)) \div 16 = b

\* They come out as they went in.
LEMMA PackedPair ==
  ASSUME NEW a \in Entry12, NEW b \in Entry12
  PROVE  PairRead(a, b)
<1>0. a \in 0..4095 /\ b \in 0..4095
  BY DEF Entry12
<1>1. /\ a % 256 \in 0..255 /\ a \div 256 \in 0..15 /\ a = 256 * (a \div 256) + (a % 256)
      /\ b % 16 \in 0..15 /\ b \div 16 \in 0..255 /\ b = 16 * (b \div 16) + (b % 16)
  BY <1>0, SMTT(30)
<1> DEFINE x == a % 256
           y == a \div 256
           u == b % 16
           v == b \div 16
<1> HIDE DEF x, y, u, v
<1>2. x \in 0..255 /\ y \in 0..15 /\ u \in 0..15 /\ v \in 0..255
      /\ a = 256 * y + x /\ b = 16 * v + u
  BY <1>1 DEF x, y, u, v
<1>3. x + 256 * (y + 16 * u) = a + 4096 * u /\ (y + 16 * u) + 256 * v = y + 16 * b
  BY <1>0, <1>2, SMT
<1>4. (a + 4096 * u) % 4096 = a /\ (y + 16 * b) \div 16 = b
  BY <1>0, <1>2, SMT
<1> QED  BY <1>3, <1>4 DEF x, y, u, v, PairRead, LowEntry

\* Cluster c is the first of pair q, or the second.
FirstOf(c, q)  == c = 2 * q /\ c % 2 = 0 /\ (c * 3) \div 2 = 3 * q
SecondOf(c, q) == c = 2 * q + 1 /\ c % 2 # 0 /\ (c * 3) \div 2 = 3 * q + 1
InPair(c, q)   == FirstOf(c, q) \/ SecondOf(c, q)

\* It is one of them.
LEMMA ClusterHalves ==
  ASSUME NEW c \in Nat
  PROVE  \E q \in Nat : InPair(c, q)
<1> DEFINE q == c \div 2
<1>1. q \in Nat /\ (c = 2 * q \/ c = 2 * q + 1)
  BY SMT
<1>2. c = 2 * q => FirstOf(c, q)
  BY <1>1, SMT DEF FirstOf
<1>3. c = 2 * q + 1 => SecondOf(c, q)
  BY <1>1, SMT DEF SecondOf
<1> HIDE DEF q
<1> QED  BY <1>1, <1>2, <1>3 DEF InPair

\* The three bytes of pair q.
Bytes3(fat, table, q) ==
  LET a == table[2 * q + 1]
      b == table[2 * q + 2]
  IN  /\ fat[3 * q + 1] = a % 256
      /\ fat[3 * q + 2] = (a \div 256) + 16 * (b % 16)
      /\ fat[3 * q + 3] = b \div 16

\* They are where the reader looks.
LEMMA PairBytes ==
  ASSUME NEW table, NEW n \in Nat, Len(table) = 2 * n, NEW q \in 0 .. n - 1
  PROVE  Bytes3(Packed(table), table, q)
<1> DEFINE Entry(at) ==
             LET pair == (at - 1) \div 3
                 a    == table[2 * pair + 1]
                 b    == table[2 * pair + 2]
             IN  CASE (at - 1) % 3 = 0 -> a % 256
                   [] (at - 1) % 3 = 1 -> (a \div 256) + 16 * (b % 16)
                   [] (at - 1) % 3 = 2 -> b \div 16
<1>1. Packed(table) = [at \in 1 .. 3 * n |-> Entry(at)]
  <2>1. Len(table) \div 2 = n
    BY SMT
  <2>2. Packed(table) = [at \in 1 .. 3 * (Len(table) \div 2) |-> Entry(at)]
    BY Zenon DEF Packed
  <2> HIDE DEF Entry
  <2> QED  BY <2>1, <2>2, Zenon
<1>2. q \in Int /\ 3 * q + 1 \in 1 .. 3 * n /\ 3 * q + 2 \in 1 .. 3 * n /\ 3 * q + 3 \in 1 .. 3 * n
  OBVIOUS
<1>3. ((3 * q + 1) - 1) \div 3 = q /\ ((3 * q + 1) - 1) % 3 = 0
  BY <1>2, SMT
<1>4. ((3 * q + 2) - 1) \div 3 = q /\ ((3 * q + 2) - 1) % 3 = 1
  BY <1>2, SMT
<1>5. ((3 * q + 3) - 1) \div 3 = q /\ ((3 * q + 3) - 1) % 3 = 2
  BY <1>2, SMT
<1>6. Entry(3 * q + 1) = table[2 * q + 1] % 256
  <2> DEFINE p == ((3 * q + 1) - 1) \div 3
             r == ((3 * q + 1) - 1) % 3
  <2> HIDE DEF p, r
  <2>1. p = q /\ r = 0
    BY <1>3 DEF p, r
  <2>2. Entry(3 * q + 1) = CASE r = 0 -> table[2 * p + 1] % 256
                             [] r = 1 -> (table[2 * p + 1] \div 256) + 16 * (table[2 * p + 2] % 16)
                             [] r = 2 -> table[2 * p + 2] \div 16
    BY Zenon DEF p, r
  <2> HIDE DEF Entry
  <2> QED  BY <2>1, <2>2
<1>7. Entry(3 * q + 2) = (table[2 * q + 1] \div 256) + 16 * (table[2 * q + 2] % 16)
  <2> DEFINE p == ((3 * q + 2) - 1) \div 3
             r == ((3 * q + 2) - 1) % 3
  <2> HIDE DEF p, r
  <2>1. p = q /\ r = 1
    BY <1>4 DEF p, r
  <2>2. Entry(3 * q + 2) = CASE r = 0 -> table[2 * p + 1] % 256
                             [] r = 1 -> (table[2 * p + 1] \div 256) + 16 * (table[2 * p + 2] % 16)
                             [] r = 2 -> table[2 * p + 2] \div 16
    BY Zenon DEF p, r
  <2> HIDE DEF Entry
  <2> QED  BY <2>1, <2>2
<1>8. Entry(3 * q + 3) = table[2 * q + 2] \div 16
  <2> DEFINE p == ((3 * q + 3) - 1) \div 3
             r == ((3 * q + 3) - 1) % 3
  <2> HIDE DEF p, r
  <2>1. p = q /\ r = 2
    BY <1>5 DEF p, r
  <2>2. Entry(3 * q + 3) = CASE r = 0 -> table[2 * p + 1] % 256
                             [] r = 1 -> (table[2 * p + 1] \div 256) + 16 * (table[2 * p + 2] % 16)
                             [] r = 2 -> table[2 * p + 2] \div 16
    BY Zenon DEF p, r
  <2> HIDE DEF Entry
  <2> QED  BY <2>1, <2>2
<1> HIDE DEF Entry
<1>9. /\ Packed(table)[3 * q + 1] = Entry(3 * q + 1)
      /\ Packed(table)[3 * q + 2] = Entry(3 * q + 2)
      /\ Packed(table)[3 * q + 3] = Entry(3 * q + 3)
  BY <1>1, <1>2, Zenon
<1> QED  BY <1>6, <1>7, <1>8, <1>9, Zenon DEF Bytes3

\* The reader finds the entry of a cluster in the bytes of the table.
LEMMA NextIs ==
  ASSUME NEW table, NEW n \in Nat, Len(table) = 2 * n,
         \A k \in 1 .. Len(table) : table[k] \in Entry12,
         NEW c \in 0 .. Len(table) - 1
  PROVE  NextCluster(Packed(table), c) = table[c + 1]
<1> DEFINE fat == Packed(table)
<1>1. c \in Nat
  OBVIOUS
<1>2. PICK q \in Nat : InPair(c, q)
  BY <1>1, ClusterHalves, Zenon
<1>3. /\ q \in 0 .. n - 1 /\ 2 * q + 1 \in 1 .. Len(table) /\ 2 * q + 2 \in 1 .. Len(table)
      /\ (3 * q) + 1 = 3 * q + 1 /\ (3 * q) + 2 = 3 * q + 2
      /\ (3 * q + 1) + 1 = 3 * q + 2 /\ (3 * q + 1) + 2 = 3 * q + 3
  BY <1>2 DEF InPair, FirstOf, SecondOf
<1> DEFINE a == table[2 * q + 1]
           b == table[2 * q + 2]
<1>4. PairRead(a, b)
  <2>1. a \in Entry12 /\ b \in Entry12
    BY <1>3
  <2> HIDE DEF a, b
  <2> QED  BY <2>1, PackedPair, Zenon
<1>5. /\ fat[3 * q + 1] = a % 256 /\ fat[3 * q + 2] = (a \div 256) + 16 * (b % 16)
      /\ fat[3 * q + 3] = b \div 16
  <2>1. Bytes3(fat, table, q)
    <3> HIDE DEF a, b
    <3> QED  BY <1>3, PairBytes, Zenon
  <2> HIDE DEF fat
  <2> QED  BY <2>1, Zenon DEF Bytes3
<1> HIDE DEF fat
<1>6. NextCluster(fat, c) =
        LET at   == (c * 3) \div 2
            pair == fat[at + 1] + 256 * fat[at + 2]
        IN  IF c % 2 = 0 THEN LowEntry(pair) ELSE pair \div 16
  BY DEF NextCluster, LowEntry
<1>7. CASE FirstOf(c, q)
  <2>1. c = 2 * q /\ c % 2 = 0 /\ (c * 3) \div 2 = 3 * q
    BY <1>7, Zenon DEF FirstOf
  <2>2. c + 1 = 2 * q + 1
    BY <2>1
  <2>3. NextCluster(fat, c) = LowEntry(fat[3 * q + 1] + 256 * fat[3 * q + 2])
    BY <1>3, <1>6, <2>1, Zenon
  <2>4. table[c + 1] = a
    BY <2>2, Zenon
  <2> HIDE DEF a, b
  <2>5. NextCluster(fat, c) = LowEntry((a % 256) + 256 * ((a \div 256) + 16 * (b % 16)))
    BY <1>5, <2>3, Zenon
  <2>6. NextCluster(fat, c) = a
    BY <1>4, <2>5, Zenon DEF PairRead
  <2> QED  BY <2>4, <2>6, Zenon DEF fat
<1>8. CASE SecondOf(c, q)
  <2>1. c = 2 * q + 1 /\ c % 2 # 0 /\ (c * 3) \div 2 = 3 * q + 1
    BY <1>8, Zenon DEF SecondOf
  <2>2. c + 1 = 2 * q + 2
    BY <2>1
  <2>3. NextCluster(fat, c) = (fat[3 * q + 2] + 256 * fat[3 * q + 3]) \div 16
    BY <1>3, <1>6, <2>1, ZenonT(40)
  <2>4. table[c + 1] = b
    BY <2>2, Zenon
  <2> HIDE DEF a, b
  <2>5. NextCluster(fat, c) = (((a \div 256) + 16 * (b % 16)) + 256 * (b \div 16)) \div 16
    BY <1>5, <2>3, Zenon
  <2>6. NextCluster(fat, c) = b
    BY <1>4, <2>5, Zenon DEF PairRead
  <2> QED  BY <2>4, <2>6, Zenon DEF fat
<1> QED  BY <1>2, <1>7, <1>8, Zenon DEF InPair

-----------------------------------------------------------------------------
\* The sectors of the first k clusters of a chain.
Whole(bs, chain, k) == [s \in 1 .. k * bs.SectorsPerCluster |-> SectorOf(bs, chain, s - 1)]

\* The sectors of one cluster.
Cluster(bs, c) == [k \in 1 .. bs.SectorsPerCluster |-> FirstSector(bs, c) + k - 1]

Chain(chain) == /\ Len(chain) \in Nat \ {0} /\ DOMAIN chain = 1 .. Len(chain)
                /\ \A k \in 1 .. Len(chain) : chain[k] \in Nat

\* A sector of a file is one of its cluster.
LEMMA SectorIs ==
  ASSUME NEW bs, IsVolume(bs), NEW chain, Chain(chain),
         NEW j \in 0 .. Len(chain) - 1, NEW i \in 1 .. bs.SectorsPerCluster
  PROVE  /\ SectorOf(bs, chain, j * bs.SectorsPerCluster + i - 1)
              = FirstSector(bs, chain[j + 1]) + i - 1
         /\ FirstSector(bs, chain[j + 1]) + i - 1 \in Int
<1> DEFINE d == bs.SectorsPerCluster
           c == chain[j + 1]
           s == j * d + (i - 1)
<1>1. d \in Nat \ {0} /\ Len(chain) \in Nat \ {0} /\ c \in Nat /\ j \in Nat
  BY DEF IsVolume, Chain
<1>2. i - 1 \in 0..(d - 1) /\ j * d \in Nat
  BY <1>1, SMT
<1>3. s \div d = j /\ s % d = i - 1
  BY <1>1, <1>2, DivOf
<1>4. DataStart(bs) = g_RootDirectoryEnd(bs) /\ DataStart(bs) \in Int
  <2>1. /\ RootDirectorySectors(bs) \in Nat /\ RootDirectory(bs) \in Nat
        /\ DataStart(bs) = g_RootDirectoryEnd(bs)
    BY DataStartIs, Zenon
  <2>2. g_RootDirectoryEnd(bs) = RootDirectory(bs) + RootDirectorySectors(bs)
    BY Zenon DEF g_RootDirectoryEnd
  <2> QED  BY <2>1, <2>2
<1>5. j * d + i - 1 = s
  BY <1>1, <1>2
<1>6. SectorOf(bs, chain, s)
        = DataStart(bs) + (chain[(s \div d) + 1] - 2) * d + (s % d)
  BY DEF SectorOf
<1>7. SectorOf(bs, chain, s) = DataStart(bs) + (c - 2) * d + (i - 1)
  <2> HIDE DEF s
  <2> QED  BY <1>3, <1>6
<1>8. (c - 2) * d \in Int
  BY <1>1, SMT
<1>9. FirstSector(bs, c) = DataStart(bs) + (c - 2) * d
  BY <1>4, Zenon DEF FirstSector
<1> HIDE DEF s, d, c
<1>10. SectorOf(bs, chain, s) = FirstSector(bs, c) + i - 1
  BY <1>1, <1>4, <1>7, <1>8, <1>9
<1>11. FirstSector(bs, c) + i - 1 \in Int
  BY <1>4, <1>8, <1>9
<1> QED  BY <1>5, <1>10, <1>11 DEF d, c

\* Every sector of the first k clusters is a number.
LEMMA WholeIsSeq ==
  ASSUME NEW bs, IsVolume(bs), NEW chain, Chain(chain), NEW k \in 0 .. Len(chain)
  PROVE  Whole(bs, chain, k) \in Seq(Int) /\ Len(Whole(bs, chain, k)) = k * bs.SectorsPerCluster
<1> DEFINE d == bs.SectorsPerCluster
           W == Whole(bs, chain, k)
<1>1. d \in Nat \ {0} /\ Len(chain) \in Nat \ {0} /\ k \in Nat
  BY DEF IsVolume, Chain
<1>2. k * d \in Nat
  BY <1>1, SMT
<1>3. W = [s \in 1 .. k * d |-> SectorOf(bs, chain, s - 1)]
  BY Zenon DEF Whole
<1>4. ASSUME NEW s \in 1 .. k * d PROVE SectorOf(bs, chain, s - 1) \in Int
  <2> DEFINE j == (s - 1) \div d
             i == (s - 1) % d
  <2>1. s - 1 \in Nat /\ s - 1 < k * d
    BY <1>2
  <2>2. j \in Nat /\ i \in 0..(d - 1) /\ s - 1 = j * d + i /\ j < k
    BY <1>1, <2>1, DivMod, DivLess, Zenon
  <2> HIDE DEF i, j
  <2>3. j \in 0 .. Len(chain) - 1 /\ i + 1 \in 1 .. d
    BY <1>1, <2>2
  <2>4. s - 1 = j * d + (i + 1) - 1
    <3>1. j * d \in Nat
      BY <1>1, <2>2, SMT
    <3> QED  BY <2>2, <3>1
  <2>5. SectorOf(bs, chain, j * d + (i + 1) - 1) \in Int
    BY <2>3, SectorIs, Zenon
  <2> QED  BY <2>4, <2>5, Zenon
<1> HIDE DEF W, d
<1>5. W \in [1 .. k * d -> Int]
  BY <1>3, <1>4
<1>6. W \in Seq(Int) /\ Len(W) = k * d
  BY <1>2, <1>5
<1> QED  BY <1>6 DEF W, d

\* One cluster more.
LEMMA WholeGrows ==
  ASSUME NEW bs, IsVolume(bs), NEW chain, Chain(chain), NEW k \in 0 .. Len(chain) - 1
  PROVE  Whole(bs, chain, k) \o Cluster(bs, chain[k + 1]) = Whole(bs, chain, k + 1)
<1> DEFINE d == bs.SectorsPerCluster
           W == Whole(bs, chain, k)
           C == Cluster(bs, chain[k + 1])
           V == Whole(bs, chain, k + 1)
<1>1. d \in Nat \ {0} /\ Len(chain) \in Nat \ {0} /\ k \in Nat
  BY DEF IsVolume, Chain
<1>2. k * d \in Nat /\ (k + 1) * d = (k * d) + d
  BY <1>1, SMT
<1>3. W \in Seq(Int) /\ Len(W) = k * d
  <2>1. k \in 0 .. Len(chain)
    BY <1>1
  <2> QED  BY <2>1, WholeIsSeq, Zenon
<1>4. V \in Seq(Int) /\ Len(V) = (k * d) + d
  <2>1. k + 1 \in 0 .. Len(chain)
    BY <1>1
  <2>2. V \in Seq(Int) /\ Len(V) = (k + 1) * d
    BY <2>1, WholeIsSeq, Zenon
  <2> QED  BY <1>2, <2>2
<1>5. /\ \A i \in 1 .. k * d : W[i] = SectorOf(bs, chain, i - 1)
      /\ \A i \in 1 .. (k + 1) * d : V[i] = SectorOf(bs, chain, i - 1)
  BY Zenon DEF Whole
<1>6. /\ C \in Seq(Int) /\ Len(C) = d
      /\ \A i \in 1 .. d : C[i] = FirstSector(bs, chain[k + 1]) + i - 1
  <2>1. C = [i \in 1 .. d |-> FirstSector(bs, chain[k + 1]) + i - 1]
    BY Zenon DEF Cluster
  <2>2. \A i \in 1 .. d : FirstSector(bs, chain[k + 1]) + i - 1 \in Int
    BY SectorIs, Zenon
  <2> HIDE DEF C, d
  <2>3. C \in [1 .. d -> Int]
    BY <2>1, <2>2
  <2>4. C \in Seq(Int) /\ Len(C) = d
    BY <1>1, <2>3
  <2> QED  BY <2>1, <2>4
<1>7. \A i \in 1 .. d : SectorOf(bs, chain, k * d + i - 1) = FirstSector(bs, chain[k + 1]) + i - 1
  BY SectorIs, Zenon
<1> HIDE DEF W, C, V, d
<1>8. /\ W \o C \in Seq(Int) /\ Len(W \o C) = Len(V)
      /\ \A i \in 1 .. Len(W) + Len(C) :
           (W \o C)[i] = IF i <= Len(W) THEN W[i] ELSE C[i - Len(W)]
  <2>1. /\ W \o C \in Seq(Int) /\ Len(W \o C) = Len(W) + Len(C)
        /\ \A i \in 1 .. Len(W) + Len(C) :
             (W \o C)[i] = IF i <= Len(W) THEN W[i] ELSE C[i - Len(W)]
    BY <1>3, <1>6, ConcatProperties, Zenon
  <2>2. Len(W) + Len(C) = Len(V)
    BY <1>3, <1>4, <1>6, Zenon
  <2> QED  BY <2>1, <2>2, Zenon
<1>9. ASSUME NEW s \in 1 .. Len(V) PROVE (W \o C)[s] = V[s]
  <2>1. CASE s <= k * d
    <3>1. s \in 1 .. k * d /\ s \in 1 .. (k + 1) * d
      BY <1>1, <1>2, <1>4, <2>1
    <3>2. (W \o C)[s] = W[s]
      BY <1>3, <1>6, <1>2, <3>1
    <3> QED  BY <1>5, <3>1, <3>2, Zenon
  <2>2. CASE ~ (s <= k * d)
    <3> DEFINE i == s - k * d
    <3>1. i \in 1 .. d /\ s \in 1 .. (k + 1) * d /\ k * d + i - 1 = s - 1
      BY <1>1, <1>2, <1>4, <2>2
    <3>2. (W \o C)[s] = C[i]
      <4>1. s \in 1 .. Len(W) + Len(C) /\ ~ (s <= Len(W)) /\ s - Len(W) = i
        BY <1>3, <1>4, <1>6, <2>2, Zenon
      <4> HIDE DEF i
      <4> QED  BY <1>8, <4>1, Zenon
    <3> HIDE DEF i
    <3>3. SectorOf(bs, chain, s - 1) = C[i]
      BY <1>6, <1>7, <3>1, Zenon
    <3> QED  BY <1>5, <3>1, <3>2, <3>3, Zenon
  <2> QED  BY <2>1, <2>2
<1>10. W \o C = V
  BY <1>4, <1>8, <1>9, SeqEqual, Zenon
<1> QED  BY <1>10 DEF W, C, V

-----------------------------------------------------------------------------
\* A disk with the table of a chain.
ChainOn(disk, table, chain) ==
  /\ IsVolume(disk.bs) /\ Linked(table, chain) /\ disk.fat = Packed(table)

\* The cluster at k of a chain, from 0, can be read.
Readable(disk, chain, k) ==
  readSectors(disk, FirstSector(disk.bs, chain[k + 1]), disk.bs.SectorsPerCluster)

\* What readFile has after k + 1 turns.
FileAfter(disk, table, chain, k) ==
  [ok      |-> Readable(disk, chain, k),
   sectors |-> Whole(disk.bs, chain, k + 1),
   cluster |-> table[chain[k + 1] + 1]]

\* A table that links a chain.
LEMMA LinkedParts ==
  ASSUME NEW table, NEW chain, Linked(table, chain)
  PROVE  /\ Chain(chain)
         /\ \E n \in Nat : Len(table) = 2 * n
         /\ \A k \in 1 .. Len(table) : table[k] \in Entry12
         /\ \A k \in 0 .. Len(chain) - 1 : chain[k + 1] \in 0 .. Len(table) - 1
<1>1. /\ Len(table) \in Nat /\ Len(table) % 2 = 0
      /\ \A k \in 1 .. Len(table) : table[k] \in Entry12
      /\ Len(chain) \in Nat \ {0} /\ DOMAIN chain = 1 .. Len(chain)
      /\ \A k \in 1 .. Len(chain) : chain[k] \in 2 .. Len(table) - 1
  <2>1. /\ Len(table) \in Nat /\ Len(table) % 2 = 0
        /\ DOMAIN table = 1 .. Len(table) /\ \A k \in DOMAIN table : table[k] \in Entry12
        /\ Len(chain) \in Nat \ {0} /\ DOMAIN chain = 1 .. Len(chain)
        /\ \A k \in DOMAIN chain : chain[k] \in 2 .. Len(table) - 1
    BY Zenon DEF Linked
  <2> QED  BY <2>1, Zenon
<1>2. Chain(chain)
  <2>1. \A k \in 1 .. Len(chain) : chain[k] \in Nat
    BY <1>1
  <2> QED  BY <1>1, <2>1 DEF Chain
<1>3. \E n \in Nat : Len(table) = 2 * n
  <2> DEFINE l == Len(table)
             n == l \div 2
  <2> HIDE DEF l
  <2>1. l \in Nat /\ l % 2 = 0
    BY <1>1 DEF l
  <2>2. n \in Nat /\ l = 2 * n
    BY <2>1, SMT
  <2> HIDE DEF n
  <2> QED  BY <2>2 DEF l
<1>4. \A k \in 0 .. Len(chain) - 1 : chain[k + 1] \in 0 .. Len(table) - 1
  BY <1>1
<1>5. \A k \in 1 .. Len(table) : table[k] \in Entry12
  BY <1>1, Zenon
<1> QED  BY <1>2, <1>3, <1>4, <1>5

\* A turn at a cluster of the chain.
LEMMA TurnReads ==
  ASSUME NEW disk, NEW table, NEW chain, ChainOn(disk, table, chain),
         NEW k \in 0 .. Len(chain) - 1,
         NEW r, r.cluster = chain[k + 1], r.sectors = Whole(disk.bs, chain, k)
  PROVE  Turn(disk, r) = FileAfter(disk, table, chain, k)
<1>1. IsVolume(disk.bs) /\ Linked(table, chain) /\ disk.fat = Packed(table)
  BY Zenon DEF ChainOn
<1>2. Chain(chain) /\ chain[k + 1] \in 0 .. Len(table) - 1
  BY <1>1, LinkedParts, Zenon
<1>3. NextCluster(disk.fat, chain[k + 1]) = table[chain[k + 1] + 1]
  <2>1. PICK n \in Nat : Len(table) = 2 * n
    BY <1>1, LinkedParts, Zenon
  <2>2. \A j \in 1 .. Len(table) : table[j] \in Entry12
    BY <1>1, LinkedParts, Zenon
  <2> QED  BY <1>1, <1>2, <2>1, <2>2, NextIs, Zenon
<1>4. r.sectors \o Cluster(disk.bs, r.cluster) = Whole(disk.bs, chain, k + 1)
  BY <1>1, <1>2, WholeGrows, Zenon
<1>5. Turn(disk, r) =
        [ok      |-> readSectors(disk, FirstSector(disk.bs, r.cluster), disk.bs.SectorsPerCluster),
         sectors |-> r.sectors \o Cluster(disk.bs, r.cluster),
         cluster |-> NextCluster(disk.fat, r.cluster)]
  BY Zenon DEF Turn, Cluster
<1> QED  BY <1>3, <1>4, <1>5, Zenon DEF FileAfter, Readable

\* The loop ends at k or not.
LEMMA GoesOn ==
  ASSUME NEW disk, NEW table, NEW chain, ChainOn(disk, table, chain),
         NEW k \in 0 .. Len(chain) - 1
  PROVE  Goes(FileAfter(disk, table, chain, k)) <=> Readable(disk, chain, k) /\ k < Len(chain) - 1
<1> DEFINE e == table[chain[k + 1] + 1]
           L == Len(chain)
<1>1. Goes(FileAfter(disk, table, chain, k)) <=> Readable(disk, chain, k) /\ e < EndOfChain
  BY DEF Goes, FileAfter
<1>2. /\ L \in Nat \ {0} /\ DOMAIN chain = 1 .. L
      /\ \A j \in 1 .. L : chain[j] < EndOfChain
      /\ \A j \in 1 .. L : j < L => table[chain[j] + 1] = chain[j + 1]
      /\ table[chain[L] + 1] >= EndOfChain
  <2>1. /\ L \in Nat \ {0} /\ DOMAIN chain = 1 .. L
        /\ \A j \in DOMAIN chain : /\ chain[j] < EndOfChain
                                   /\ j < L => table[chain[j] + 1] = chain[j + 1]
        /\ table[chain[L] + 1] >= EndOfChain
    BY Zenon DEF ChainOn, Linked
  <2> HIDE DEF L
  <2>2. ASSUME NEW j \in 1 .. L
        PROVE  chain[j] < EndOfChain /\ (j < L => table[chain[j] + 1] = chain[j + 1])
    <3>1. j \in DOMAIN chain
      BY <2>1, Zenon
    <3> QED  BY <2>1, <3>1, Zenon
  <2> QED  BY <2>1, <2>2, Zenon
<1>3. CASE k < L - 1
  <2>1. k + 1 \in 1 .. L /\ k + 1 < L /\ (k + 1) + 1 \in 1 .. L
    BY <1>2, <1>3
  <2>2. e = chain[(k + 1) + 1] /\ chain[(k + 1) + 1] < EndOfChain
    BY <1>2, <2>1
  <2> QED  BY <1>1, <1>3, <2>2
<1>4. CASE ~ (k < L - 1)
  <2>1. k + 1 = L
    <3> HIDE DEF L
    <3>1. k \in 0 .. L - 1
      BY DEF L
    <3> QED  BY <1>2, <1>4, <3>1
  <2>2. e >= EndOfChain
    BY <1>2, <2>1, Zenon
  <2>3. e \in Nat
    <3>1. Linked(table, chain)
      BY Zenon DEF ChainOn
    <3>2. /\ \A j \in 1 .. Len(table) : table[j] \in Entry12
          /\ \A j \in 0 .. L - 1 : chain[j + 1] \in 0 .. Len(table) - 1
          /\ \E n \in Nat : Len(table) = 2 * n
      BY <3>1, LinkedParts, Zenon
    <3>3. chain[k + 1] + 1 \in 1 .. Len(table)
      BY <3>2
    <3>4. e \in Entry12
      BY <3>2, <3>3, Zenon
    <3> HIDE DEF e
    <3> QED  BY <3>4 DEF Entry12
  <2>4. ~ (e < EndOfChain)
    <3> HIDE DEF e
    <3> QED  BY <2>2, <2>3 DEF EndOfChain
  <2> QED  BY <1>1, <1>4, <2>4
<1> QED  BY <1>3, <1>4

\* Where it ends: after the whole chain, or at the first cluster that cannot be read.
ChainEnds(disk, chain, k) ==
  /\ k \in 0 .. Len(chain) - 1
  /\ \A j \in 0 .. k - 1 : Readable(disk, chain, j)
  /\ k = Len(chain) - 1 \/ ~ Readable(disk, chain, k)

\* It ends somewhere.
LEMMA HasEnd ==
  ASSUME NEW disk, NEW chain, Chain(chain)
  PROVE  \E k \in 0 .. Len(chain) - 1 : ChainEnds(disk, chain, k)
<1> DEFINE L == Len(chain)
           T == {k \in 0 .. L - 1 : k = L - 1 \/ ~ Readable(disk, chain, k)}
<1>1. L \in Nat \ {0}
  BY Zenon DEF Chain
<1>2. T \in SUBSET Nat
  BY <1>1
<1>3. T # {}
  <2>1. L - 1 \in T
    BY <1>1
  <2> QED  BY <2>1
<1>4. PICK k \in T : \A j \in T : k <= j
  <2> HIDE DEF T
  <2> QED  BY <1>2, <1>3, HasLeast
<1>5. ASSUME NEW j \in 0 .. k - 1 PROVE Readable(disk, chain, j)
  <2>1. j \in 0 .. L - 1 /\ ~ (k <= j)
    BY <1>1, <1>4
  <2> QED  BY <1>4, <2>1
<1>6. k \in 0 .. L - 1 /\ (k = L - 1 \/ ~ Readable(disk, chain, k))
  BY <1>4
<1> QED  BY <1>5, <1>6, Zenon DEF ChainEnds

\* readFile has what it has there.
LEMMA ReadsChain ==
  ASSUME NEW disk, NEW table, NEW chain, ChainOn(disk, table, chain),
         NEW k \in 0 .. Len(chain) - 1, ChainEnds(disk, chain, k)
  PROVE  readFile(disk, chain[1], Len(chain)) = FileAfter(disk, table, chain, k)
<1> DEFINE L == Len(chain)
           T(j) == FileAfter(disk, table, chain, j)
           start == [ok |-> TRUE, sectors |-> <<>>, cluster |-> chain[1]]
           Rule(f) == [j \in 0 .. L |->
                         IF j = 0 THEN Turn(disk, start)
                         ELSE IF Goes(f[j - 1]) THEN Turn(disk, f[j - 1]) ELSE f[j - 1]]
           U == CHOOSE f : f = Rule(f)
           f == [j \in 0 .. L |-> IF j < k THEN T(j) ELSE T(k)]
<1>1. readFile(disk, chain[1], L) = U[L]
  BY Zenon DEF readFile
<1>2. L \in Nat \ {0}
  BY DEF ChainOn, Linked
<1>3. Turn(disk, start) = T(0)
  <2>1. 0 \in 0 .. Len(chain) - 1 /\ 0 + 1 = 1
    BY <1>2
  <2>2. start.cluster = chain[0 + 1]
    BY <2>1
  <2>3. start.sectors = Whole(disk.bs, chain, 0)
    <3>1. disk.bs.SectorsPerCluster \in Nat
      BY DEF ChainOn, IsVolume
    <3>2. 0 * disk.bs.SectorsPerCluster = 0
      BY <3>1
    <3>3. Whole(disk.bs, chain, 0) = [s \in 1 .. 0 |-> SectorOf(disk.bs, chain, s - 1)]
      BY <3>2, Zenon DEF Whole
    <3> QED  BY <3>3
  <2> HIDE DEF start
  <2> QED  BY <2>1, <2>2, <2>3, TurnReads, Zenon
<1>4. \A j \in 0 .. L - 1 : Goes(T(j)) <=> Readable(disk, chain, j) /\ j < L - 1
  BY GoesOn, Zenon
<1>5. ASSUME NEW j \in 0 .. L - 1, j < L - 1 PROVE Turn(disk, T(j)) = T(j + 1)
  <2>1. /\ j + 1 \in 0 .. L - 1 /\ j + 1 \in 1 .. L /\ j + 1 < L
    BY <1>2, <1>5
  <2>2. T(j).cluster = table[chain[j + 1] + 1] /\ T(j).sectors = Whole(disk.bs, chain, j + 1)
    BY DEF FileAfter
  <2>3. table[chain[j + 1] + 1] = chain[(j + 1) + 1]
    BY <2>1 DEF ChainOn, Linked
  <2> DEFINE r == T(j)
  <2>4. r.cluster = chain[(j + 1) + 1] /\ r.sectors = Whole(disk.bs, chain, j + 1)
    BY <2>2, <2>3, Zenon
  <2> HIDE DEF r
  <2>5. Turn(disk, r) = T(j + 1)
    BY <2>1, <2>4, TurnReads, Zenon
  <2> QED  BY <2>5, Zenon DEF r
<1>6. /\ \A j \in 0 .. k - 1 : Goes(T(j)) /\ Turn(disk, T(j)) = T(j + 1)
      /\ ~ Goes(T(k))
  <2>1. /\ \A j \in 0 .. k - 1 : Readable(disk, chain, j)
        /\ k = L - 1 \/ ~ Readable(disk, chain, k)
    BY Zenon DEF ChainEnds
  <2>2. \A j \in 0 .. k - 1 : j \in 0 .. L - 1 /\ j < L - 1
    BY <1>2
  <2>3. k = L - 1 => ~ (k < L - 1)
    BY <1>2
  <2> HIDE DEF T, L
  <2> QED  BY <1>4, <1>5, <2>1, <2>2, <2>3, Zenon DEF L
<1> HIDE DEF T, start
<1>7. f[0] = T(0) /\ f[L] = T(k)
  <2>1. 0 \in 0 .. L /\ L \in 0 .. L /\ ~ (L < k) /\ (~ (0 < k) => k = 0)
    BY <1>2
  <2> HIDE DEF L
  <2> QED  BY <2>1, Zenon
<1>8. ASSUME NEW j \in 1 .. L
      PROVE  f[j] = IF Goes(f[j - 1]) THEN Turn(disk, f[j - 1]) ELSE f[j - 1]
  <2>0. j \in 0 .. L /\ j - 1 \in 0 .. L
    BY <1>2
  <2>1. CASE j - 1 < k
    <3>1. j - 1 \in 0 .. k - 1 /\ (j - 1) + 1 = j /\ (~ (j < k) => j = k)
      BY <2>0, <2>1
    <3>2. f[j - 1] = T(j - 1) /\ f[j] = T(j)
      <4>1. f[j - 1] = T(j - 1)
        BY <2>0, <2>1, Zenon
      <4>2. f[j] = IF j < k THEN T(j) ELSE T(k)
        BY <2>0, Zenon
      <4> QED  BY <3>1, <4>1, <4>2, Zenon
    <3> QED  BY <1>6, <3>1, <3>2, Zenon
  <2>2. CASE ~ (j - 1 < k)
    <3>1. ~ (j < k)
      BY <2>0, <2>2
    <3>2. f[j - 1] = T(k) /\ f[j] = T(k)
      BY <2>0, <2>2, <3>1, Zenon
    <3> QED  BY <1>6, <3>2, Zenon
  <2> QED  BY <2>1, <2>2
<1>9. f = Rule(f)
  <2>1. ASSUME NEW j \in 0 .. L PROVE f[j] = Rule(f)[j]
    <3>1. CASE j = 0
      BY <1>3, <1>7, <3>1, Zenon
    <3>2. CASE j # 0
      <4>1. j \in 1 .. L
        BY <1>2, <3>2
      <4>2. Rule(f)[j] = IF Goes(f[j - 1]) THEN Turn(disk, f[j - 1]) ELSE f[j - 1]
        <5> HIDE DEF f
        <5> QED  BY <3>2, Zenon
      <4> QED  BY <1>8, <4>1, <4>2, Zenon
    <3> QED  BY <3>1, <3>2
  <2>2. DOMAIN f = 0 .. L /\ f = [j \in 0 .. L |-> f[j]]
    OBVIOUS
  <2> HIDE DEF f
  <2>3. Rule(f) = [j \in 0 .. L |-> Rule(f)[j]]
    OBVIOUS
  <2> HIDE DEF Rule
  <2> QED  BY <2>1, <2>2, <2>3
<1>10. U = Rule(U)
  <2> HIDE DEF Rule, f
  <2> QED  BY <1>9
<1> HIDE DEF U
<1>11. Lockstep(U, f, L)
  <2>1. U[0] = f[0]
    <3>1. Rule(U)[0] = Turn(disk, start)
      BY <1>2
    <3>2. U[0] = Turn(disk, start)
      <4> HIDE DEF Rule
      <4> QED  BY <1>10, <3>1, Zenon
    <3> QED  BY <1>3, <1>7, <3>2, Zenon
  <2>2. ASSUME NEW j \in 1 .. L, U[j - 1] = f[j - 1] PROVE U[j] = f[j]
    <3>1. j \in 0 .. L /\ j # 0
      BY <1>2
    <3>2. Rule(U)[j] = IF Goes(U[j - 1]) THEN Turn(disk, U[j - 1]) ELSE U[j - 1]
      BY <3>1, Zenon
    <3> HIDE DEF Rule, f
    <3> QED  BY <1>8, <1>10, <2>2, <3>2, Zenon
  <2> HIDE DEF f
  <2> QED  BY <2>1, <2>2, Zenon DEF Lockstep
<1>12. Alike(U, f, L)
  <2> HIDE DEF f
  <2> QED  BY <1>2, <1>11, LoopsAgree, Zenon
<1>13. U[L] = f[L]
  <2>1. L \in 0 .. L
    BY <1>2
  <2> HIDE DEF f
  <2> QED  BY <1>12, <2>1, Zenon DEF Alike
<1> QED  BY <1>1, <1>7, <1>13, Zenon DEF T

\* The sectors of the chain.
InChain(disk, chain) ==
  LET whole == Whole(disk.bs, chain, Len(chain)) IN {whole[s] : s \in DOMAIN whole}

\* Every cluster can be read if every sector of the file can.
LEMMA ReadableSectors ==
  ASSUME NEW disk, IsVolume(disk.bs), NEW chain, Chain(chain)
  PROVE  (\A k \in 0 .. Len(chain) - 1 : Readable(disk, chain, k))
           <=> InChain(disk, chain) \cap disk.unreadable = {}
<1> DEFINE bs == disk.bs
           d == bs.SectorsPerCluster
           L == Len(chain)
           F(k) == FirstSector(bs, chain[k + 1])
           W == Whole(bs, chain, L)
<1>1. d \in Nat \ {0} /\ L \in Nat \ {0}
  BY DEF IsVolume, Chain
<1>2. /\ \A k \in 0 .. L - 1 : \A i \in 1 .. d :
           /\ SectorOf(bs, chain, k * d + i - 1) = F(k) + i - 1
           /\ F(k) + i - 1 \in Int
  BY SectorIs, Zenon
<1>3. W = [s \in 1 .. L * d |-> SectorOf(bs, chain, s - 1)]
  BY Zenon DEF Whole
<1>4. \A k \in 0 .. L - 1 : Readable(disk, chain, k) <=> \A s \in F(k) .. F(k) + d - 1 : s \notin disk.unreadable
  BY Zenon DEF Readable, readSectors
<1>5. InChain(disk, chain) = {W[s] : s \in DOMAIN W}
  BY Zenon DEF InChain
<1> HIDE DEF W, F, d, L
<1>6. L * d \in Nat
  BY <1>1, SMT
<1>7. ASSUME NEW k \in 0 .. L - 1 PROVE F(k) \in Int
  <2>1. 1 \in 1 .. d
    BY <1>1
  <2>2. F(k) + 1 - 1 \in Int
    BY <1>2, <2>1, Zenon
  <2>3. F(k) = DataStart(bs) + (chain[k + 1] - 2) * d
    <3>1. DataStart(bs) = g_RootDirectoryEnd(bs)
      BY DataStartIs, Zenon
    <3> QED  BY <3>1, Zenon DEF F, FirstSector, d
  <2>4. DataStart(bs) \in Int
    <3>1. RootDirectorySectors(bs) \in Nat /\ RootDirectory(bs) \in Nat
          /\ DataStart(bs) = g_RootDirectoryEnd(bs)
      BY DataStartIs, Zenon
    <3>2. g_RootDirectoryEnd(bs) = RootDirectory(bs) + RootDirectorySectors(bs)
      BY Zenon DEF g_RootDirectoryEnd
    <3> QED  BY <3>1, <3>2
  <2>5. (chain[k + 1] - 2) * d \in Int
    <3> DEFINE c == chain[k + 1]
    <3>1. c \in Nat
      BY <1>1 DEF Chain, L
    <3> HIDE DEF c
    <3>2. (c - 2) * d \in Int
      BY <1>1, <3>1, SMT
    <3> QED  BY <3>2, Zenon DEF c
  <2> QED  BY <2>3, <2>4, <2>5
<1>8. ASSUME \A k \in 0 .. L - 1 : Readable(disk, chain, k), NEW s \in 1 .. L * d
      PROVE  W[s] \notin disk.unreadable
  <2> DEFINE j == (s - 1) \div d
             i == (s - 1) % d
  <2>1. s - 1 \in Nat /\ s - 1 < L * d
    BY <1>6
  <2>2. L \in Nat
    BY <1>1
  <2>3. j \in Nat /\ i \in 0..(d - 1) /\ s - 1 = j * d + i /\ j < L
    BY <1>1, <2>1, <2>2, DivMod, DivLess, Zenon
  <2> HIDE DEF i, j
  <2>4. j \in 0 .. L - 1 /\ i + 1 \in 1 .. d
    BY <1>1, <2>3
  <2>5. j * d + (i + 1) - 1 = s - 1
    <3>1. j * d \in Nat
      BY <1>1, <2>3, SMT
    <3> QED  BY <2>3, <3>1
  <2>6. W[s] = F(j) + (i + 1) - 1
    <3>1. W[s] = SectorOf(bs, chain, s - 1)
      BY <1>3, Zenon
    <3>2. SectorOf(bs, chain, j * d + (i + 1) - 1) = F(j) + (i + 1) - 1
      BY <1>2, <2>4, Zenon
    <3> QED  BY <2>5, <3>1, <3>2, Zenon
  <2>7. F(j) \in Int
    BY <1>7, <2>4, Zenon
  <2>8. W[s] \in F(j) .. F(j) + d - 1
    BY <1>1, <2>4, <2>6, <2>7
  <2> QED  BY <1>4, <1>8, <2>4, <2>8, Zenon
<1>9. ASSUME \A s \in 1 .. L * d : W[s] \notin disk.unreadable, NEW k \in 0 .. L - 1,
             NEW at \in F(k) .. F(k) + d - 1
      PROVE  at \notin disk.unreadable
  <2> DEFINE i == at - F(k) + 1
  <2>1. F(k) \in Int
    BY <1>7, Zenon
  <2>2. i \in 1 .. d /\ F(k) + i - 1 = at
    BY <1>1, <2>1
  <2> HIDE DEF i
  <2>3. k * d \in Nat /\ (k + 1) * d <= L * d /\ (k + 1) * d = (k * d) + d
    <3>1. k \in Nat /\ k + 1 \in Nat /\ k + 1 <= L /\ L \in Nat /\ d \in Nat
      BY <1>1
    <3>2. (k + 1) * d <= L * d
      BY <3>1, MulMono, Zenon
    <3>3. k * d \in Nat /\ (k + 1) * d = (k * d) + d
      BY <3>1, SMT
    <3> QED  BY <3>2, <3>3
  <2>4. k * d + i \in 1 .. L * d
    BY <1>1, <1>6, <2>2, <2>3
  <2>5. W[k * d + i] = at
    <3>1. W[k * d + i] = SectorOf(bs, chain, k * d + i - 1)
      <4> DEFINE s == k * d + i
      <4>1. s \in 1 .. L * d
        BY <2>4, Zenon
      <4> HIDE DEF s
      <4>2. W[s] = SectorOf(bs, chain, s - 1)
        BY <1>3, <4>1, Zenon
      <4>3. s = k * d + i
        BY DEF s
      <4>4. s - 1 = k * d + i - 1
        <5> DEFINE kd == k * d
        <5> HIDE DEF kd
        <5>1. kd \in Nat /\ i \in Int /\ s = kd + i
          BY <2>2, <2>3, <4>3 DEF kd
        <5>2. s - 1 = kd + i - 1
          BY <5>1
        <5> QED  BY <5>2 DEF kd
      <4> QED  BY <4>2, <4>3, <4>4, Zenon
    <3> QED  BY <1>2, <2>2, <3>1, Zenon
  <2> QED  BY <1>9, <2>4, <2>5, Zenon
<1>10. DOMAIN W = 1 .. L * d
  BY <1>3, Zenon
<1>11. InChain(disk, chain) \cap disk.unreadable = {}
         <=> \A s \in 1 .. L * d : W[s] \notin disk.unreadable
  BY <1>5, <1>10
<1> QED  BY <1>4, <1>8, <1>9, <1>11, Zenon DEF L

\* The entry of a file that is listed is found, and no other.
LEMMA FoundListed ==
  ASSUME NEW disk, NEW file, IsVolume(disk.bs), Listed(disk.dir, file, disk.bs)
  PROVE  LET at == findFile(disk, file.name)
         IN  at # 0 /\ disk.dir[at].FirstClusterLow = file.chain[1]
                    /\ disk.dir[at].Size = file.size
<1> DEFINE dir == disk.dir
           count == disk.bs.DirEntryCount
           hits == {k \in 1 .. count : dir[k].Name = file.name}
<1>0. count \in Nat
  BY Zenon DEF IsVolume
<1>1. \E at \in 1 .. count :
        /\ dir[at].Name = file.name /\ dir[at].Size = file.size
        /\ dir[at].FirstClusterLow = file.chain[1]
        /\ \A k \in 1 .. at - 1 : dir[k].Name # file.name
  BY Zenon DEF Listed
<1>2. PICK at \in 1 .. count : /\ dir[at].Name = file.name /\ dir[at].Size = file.size
                               /\ dir[at].FirstClusterLow = file.chain[1]
                               /\ \A k \in 1 .. at - 1 : dir[k].Name # file.name
  BY <1>1, Zenon
<1>5. findFile(disk, file.name) = IF hits = {} THEN 0
                                  ELSE CHOOSE k \in hits : \A j \in hits : k <= j
  BY Zenon DEF findFile
<1> HIDE DEF dir, count
<1>3. at \in hits
  BY <1>2
<1>4. \A j \in hits : j \in Nat /\ at <= j
  BY <1>0, <1>2
<1> HIDE DEF hits
<1>6. \A k \in hits : (\A j \in hits : k <= j) => k = at
  BY <1>3, <1>4
<1>7. findFile(disk, file.name) = at
  BY <1>3, <1>4, <1>5, <1>6
<1>8. at # 0
  BY <1>0
<1> QED  BY <1>2, <1>7, <1>8, Zenon DEF dir

\* What is not listed is not found.
LEMMA AbsentNotFound ==
  ASSUME NEW disk, NEW name,
         \A k \in 1 .. disk.bs.DirEntryCount : disk.dir[k].Name # name
  PROVE  findFile(disk, name) = 0
<1>1. {k \in 1 .. disk.bs.DirEntryCount : disk.dir[k].Name = name} = {}
  BY Zenon
<1> QED  BY <1>1, Zenon DEF findFile

\* The sectors before the data region.
LEMMA ReadsRegions ==
  ASSUME NEW disk, IsVolume(disk.bs)
  PROVE  LET bs   == disk.bs
             fats == bs.ReservedSectors + bs.FatCount * bs.SectorsPerFat
         IN  /\ readFat(disk) <=>
                  (bs.ReservedSectors .. bs.ReservedSectors + bs.SectorsPerFat - 1)
                     \cap disk.unreadable = {}
             /\ readRootDirectory(disk) <=>
                  (fats .. DataStart(bs) - 1) \cap disk.unreadable = {}
<1> DEFINE bs == disk.bs
           fats == bs.ReservedSectors + bs.FatCount * bs.SectorsPerFat
           n == RootDirectorySectors(bs)
<1>1. readFat(disk) <=> \A k \in bs.ReservedSectors .. bs.ReservedSectors + bs.SectorsPerFat - 1 :
                          k \notin disk.unreadable
  BY Zenon DEF readFat, readSectors
<1>2. readRootDirectory(disk) <=> \A k \in RootDirectory(bs) .. RootDirectory(bs) + n - 1 :
                                    k \notin disk.unreadable
  BY Zenon DEF readRootDirectory, readSectors
<1>3. RootDirectory(bs) = fats /\ DataStart(bs) = fats + n
  BY DataStartIs, Zenon
<1> HIDE DEF bs, fats, n
<1>4. readFat(disk) <=>
        (bs.ReservedSectors .. bs.ReservedSectors + bs.SectorsPerFat - 1) \cap disk.unreadable = {}
  BY <1>1
<1>5. readRootDirectory(disk) <=> (fats .. DataStart(bs) - 1) \cap disk.unreadable = {}
  <2>1. RootDirectory(bs) + n - 1 = DataStart(bs) - 1
    <3>1. RootDirectory(bs) + n = DataStart(bs) /\ RootDirectory(bs) \in Nat /\ n \in Nat
      BY <1>3, DataStartIs, Zenon DEF bs, n
    <3> QED  BY <3>1
  <2>2. readRootDirectory(disk) <=> \A k \in fats .. DataStart(bs) - 1 : k \notin disk.unreadable
    BY <1>2, <1>3, <2>1, Zenon
  <2> DEFINE S == fats .. DataStart(bs) - 1
  <2>3. readRootDirectory(disk) <=> \A k \in S : k \notin disk.unreadable
    BY <2>2, Zenon
  <2> HIDE DEF S
  <2>4. readRootDirectory(disk) <=> S \cap disk.unreadable = {}
    BY <2>3, Zenon
  <2> QED  BY <2>4, Zenon DEF S
<1> QED  BY <1>4, <1>5 DEF bs, fats

\* What main does with what it reads.
MainIs(argc, disk, name, limit, at, r) ==
  main(argc, disk, name, limit) =
    LET failed(status) == [status |-> status, sectors |-> <<>>, bytes |-> 0]
    IN  IF argc < 3 \/ ~ disk.opens THEN failed(-1)
        ELSE IF 0 \in disk.unreadable THEN failed(-2)
        ELSE IF ~ readFat(disk) THEN failed(-3)
        ELSE IF ~ readRootDirectory(disk) THEN failed(-4)
        ELSE IF at = 0 \/ ~ r.ok THEN failed(-5)
        ELSE [status |-> 0, sectors |-> r.sectors, bytes |-> disk.dir[at].Size]

\* main, with the entry it finds and what readFile gives.
LEMMA MainReads ==
  ASSUME NEW argc, NEW disk, NEW name, NEW limit, NEW at, NEW r,
         at = findFile(disk, name),
         r = readFile(disk, disk.dir[at].FirstClusterLow, limit)
  PROVE  MainIs(argc, disk, name, limit, at, r)
BY Zenon DEF MainIs, main

\* The bytes of whole clusters.
LEMMA ClusterBytes ==
  ASSUME NEW n \in Nat, NEW d \in Nat, NEW B \in Nat
  PROVE  (n * d) * B = n * (d * B)
OBVIOUS

\* What readFile fills with clusters of one sector fits what main allocates.
LEMMA FitsBuffer ==
  ASSUME NEW L \in Nat \ {0}, NEW k \in 0 .. L - 1, NEW B \in Nat, NEW size \in Nat,
         (L - 1) * B < size
  PROVE  (k + 1) * B <= size + B
<1>1. k \in Nat /\ L - 1 \in Nat /\ k <= L - 1
  OBVIOUS
<1>2. k * B <= (L - 1) * B /\ k * B \in Nat
  BY <1>1, MulMono, Zenon
<1>3. (k + 1) * B = (k * B) + B
  BY <1>1, SMT
<1>4. (L - 1) * B \in Nat
  BY <1>1, SMT
<1> QED  BY <1>2, <1>3, <1>4

\* A file on a disk is printed, or what stopped it is told.
THEOREM FilesAlwaysPrinted == Spec => []FilePrinted
<1>1. InputInv => FilePrinted
  <2> SUFFICES ASSUME InputInv, part = "fat" PROVE FilePrinted
    BY Zenon DEF FilePrinted
  <2> DEFINE disk == input.disk
             bs == disk.bs
             chain == input.chain
             table == input.table
             L == Len(chain)
             d == bs.SectorsPerCluster
             B == bs.BytesPerSector
             at == findFile(disk, input.name)
             r == readFile(disk, disk.dir[at].FirstClusterLow, L)
             W == Whole(bs, chain, L)
  <2>1. IsOnDisk(input)
    <3>1. input \in Files
      BY DEF InputInv
    <3>2. \A x \in Files : IsOnDisk(x)
      BY PureAssumption, Zenon
    <3> QED  BY <3>1, <3>2, Zenon
  <2>2. /\ IsVolume(bs) /\ Linked(table, chain) /\ disk.fat = Packed(table)
        /\ Listed(disk.dir, input, bs)
        /\ \A k \in 1 .. disk.bs.DirEntryCount : disk.dir[k].Name # input.absent
        /\ disk.opens \in BOOLEAN
    BY <2>1, Zenon DEF IsOnDisk
  <2>3. ChainOn(disk, table, chain) /\ Chain(chain)
    BY <2>2, LinkedParts, Zenon DEF ChainOn
  <2>4. L \in Nat \ {0} /\ d \in Nat \ {0} /\ B \in Nat
    BY <2>2, <2>3 DEF Chain, IsVolume
  <2>5. /\ input.size \in Nat /\ input.size <= L * (d * B)
        /\ (L - 1) * (d * B) < input.size
    BY <2>2, Zenon DEF Listed
  <2>6. at # 0 /\ disk.dir[at].FirstClusterLow = chain[1] /\ disk.dir[at].Size = input.size
    BY <2>2, FoundListed, Zenon
  <2>7. PICK k \in 0 .. L - 1 : ChainEnds(disk, chain, k)
    BY <2>3, HasEnd, Zenon
  <2>8. /\ r = FileAfter(disk, table, chain, k)
        /\ readFile(disk, chain[1], L) = FileAfter(disk, table, chain, k)
    BY <2>3, <2>6, <2>7, ReadsChain, Zenon
  <2>9. /\ r.ok <=> Readable(disk, chain, k)
        /\ r.sectors = Whole(bs, chain, k + 1)
        /\ readFile(disk, chain[1], L).sectors = Whole(bs, chain, k + 1)
    <3> HIDE DEF r
    <3> QED  BY <2>8 DEF FileAfter
  <2>10. W \in Seq(Int) /\ Len(W) = L * d
    <3>1. L \in 0 .. L
      BY <2>4
    <3> QED  BY <2>2, <2>3, <3>1, WholeIsSeq, Zenon
  <2>11. /\ r.ok <=> InChain(disk, chain) \cap disk.unreadable = {}
         /\ r.ok => r.sectors = W
    <3>1. /\ k \in 0 .. L - 1 /\ \A j \in 0 .. k - 1 : Readable(disk, chain, j)
          /\ k = L - 1 \/ ~ Readable(disk, chain, k)
      BY <2>7, Zenon DEF ChainEnds
    <3>2. (\A j \in 0 .. L - 1 : Readable(disk, chain, j)) <=> InChain(disk, chain) \cap disk.unreadable = {}
      BY <2>2, <2>3, ReadableSectors, Zenon
    <3>3. ASSUME Readable(disk, chain, k), NEW j \in 0 .. L - 1 PROVE Readable(disk, chain, j)
      <4>1. k = L - 1
        BY <3>1, <3>3, Zenon
      <4>2. j \in 0 .. k - 1 \/ j = k
        BY <2>4, <4>1
      <4> QED  BY <3>1, <3>3, <4>2, Zenon
    <3>4. Readable(disk, chain, k) => k + 1 = L
      <4> HIDE DEF L
      <4> QED  BY <2>4, <3>1
    <3> HIDE DEF r, W, L
    <3> QED  BY <2>9, <3>1, <3>2, <3>3, <3>4, Zenon DEF W
  <2>12. MainIs(input.argc, disk, input.name, L, at, r)
    BY MainReads, Zenon
  <2>13. /\ readFat(disk) <=>
              (bs.ReservedSectors .. bs.ReservedSectors + bs.SectorsPerFat - 1)
                 \cap disk.unreadable = {}
         /\ readRootDirectory(disk) <=>
              (bs.ReservedSectors + bs.FatCount * bs.SectorsPerFat .. DataStart(bs) - 1)
                 \cap disk.unreadable = {}
    BY <2>2, ReadsRegions, Zenon
  <2> DEFINE fatOk == (bs.ReservedSectors .. bs.ReservedSectors + bs.SectorsPerFat - 1)
                        \cap disk.unreadable = {}
             dirOk == (bs.ReservedSectors + bs.FatCount * bs.SectorsPerFat .. DataStart(bs) - 1)
                        \cap disk.unreadable = {}
             fileOk == InChain(disk, chain) \cap disk.unreadable = {}
             bootOk == {0} \cap disk.unreadable = {}
             m == main(input.argc, disk, input.name, L)
             none == main(input.argc, disk, input.absent, L)
             starts == ~ (input.argc < 3 \/ ~ disk.opens)
             read == readFile(disk, chain[1], L)
  <2>14. /\ m.status = IF ~ starts THEN -1 ELSE IF ~ bootOk THEN -2 ELSE IF ~ fatOk THEN -3
                       ELSE IF ~ dirOk THEN -4 ELSE IF ~ fileOk THEN -5 ELSE 0
         /\ m.status = 0 => m.sectors = W /\ m.bytes = input.size
    <3>1. bootOk <=> 0 \notin disk.unreadable
      OBVIOUS
    <3>2. (readFat(disk) <=> fatOk) /\ (readRootDirectory(disk) <=> dirOk) /\ (r.ok <=> fileOk)
      BY <2>11, <2>13, Zenon
    <3> HIDE DEF starts, bootOk, fatOk, dirOk, fileOk, r, at, W
    <3>3. m = IF ~ starts THEN [status |-> -1, sectors |-> <<>>, bytes |-> 0]
              ELSE IF 0 \in disk.unreadable THEN [status |-> -2, sectors |-> <<>>, bytes |-> 0]
              ELSE IF ~ readFat(disk) THEN [status |-> -3, sectors |-> <<>>, bytes |-> 0]
              ELSE IF ~ readRootDirectory(disk) THEN [status |-> -4, sectors |-> <<>>, bytes |-> 0]
              ELSE IF at = 0 \/ ~ r.ok THEN [status |-> -5, sectors |-> <<>>, bytes |-> 0]
              ELSE [status |-> 0, sectors |-> r.sectors, bytes |-> disk.dir[at].Size]
      BY <2>12, Zenon DEF MainIs, starts
    <3> HIDE DEF m
    <3>4. CASE ~ starts
      <4>1. m.status = -1
        BY <3>3, <3>4
      <4> QED  BY <3>4, <4>1
    <3>5. CASE starts /\ ~ bootOk
      <4>1. m.status = -2
        BY <3>1, <3>3, <3>5
      <4> QED  BY <3>5, <4>1
    <3>6. CASE starts /\ bootOk /\ ~ fatOk
      <4>1. m.status = -3
        BY <3>1, <3>2, <3>3, <3>6
      <4> QED  BY <3>6, <4>1
    <3>7. CASE starts /\ bootOk /\ fatOk /\ ~ dirOk
      <4>1. m.status = -4
        BY <3>1, <3>2, <3>3, <3>7
      <4> QED  BY <3>7, <4>1
    <3>8. CASE starts /\ bootOk /\ fatOk /\ dirOk /\ ~ fileOk
      <4>1. m.status = -5
        BY <3>1, <3>2, <3>3, <3>8
      <4> QED  BY <3>8, <4>1
    <3>9. CASE starts /\ bootOk /\ fatOk /\ dirOk /\ fileOk
      <4>1. m = [status |-> 0, sectors |-> r.sectors, bytes |-> disk.dir[at].Size]
        BY <2>6, <3>1, <3>2, <3>3, <3>9, Zenon
      <4>2. m.status = 0 /\ m.sectors = r.sectors /\ m.bytes = disk.dir[at].Size
        BY <4>1
      <4> QED  BY <2>6, <2>11, <3>2, <3>9, <4>2, Zenon
    <3> QED  BY <3>4, <3>5, <3>6, <3>7, <3>8, <3>9, Zenon
  <2>15. input.size <= Len(W) * B
    <3> HIDE DEF W, L, d, B
    <3>1. (L * d) * B = L * (d * B)
      BY <2>4, ClusterBytes
    <3> QED  BY <2>5, <2>10, <3>1, Zenon
  <2>16. none.status = IF m.status \in -4 .. -1 THEN m.status ELSE -5
    <3>1. findFile(disk, input.absent) = 0
      BY <2>2, AbsentNotFound, Zenon
    <3> DEFINE r0 == readFile(disk, disk.dir[0].FirstClusterLow, L)
    <3>2. MainIs(input.argc, disk, input.absent, L, 0, r0)
      BY <3>1, MainReads, Zenon
    <3> HIDE DEF r0
    <3>3. none = IF ~ starts THEN [status |-> -1, sectors |-> <<>>, bytes |-> 0]
              ELSE IF 0 \in disk.unreadable THEN [status |-> -2, sectors |-> <<>>, bytes |-> 0]
              ELSE IF ~ readFat(disk) THEN [status |-> -3, sectors |-> <<>>, bytes |-> 0]
              ELSE IF ~ readRootDirectory(disk) THEN [status |-> -4, sectors |-> <<>>, bytes |-> 0]
              ELSE [status |-> -5, sectors |-> <<>>, bytes |-> 0]
      BY <3>2, Zenon DEF MainIs
    <3>4. /\ bootOk <=> 0 \notin disk.unreadable
          /\ readFat(disk) <=> fatOk
          /\ readRootDirectory(disk) <=> dirOk
      BY <2>13
    <3> HIDE DEF none, m, starts, bootOk, fatOk, dirOk, fileOk
    <3>5. none.status = IF ~ starts THEN -1 ELSE IF ~ bootOk THEN -2 ELSE IF ~ fatOk THEN -3
                        ELSE IF ~ dirOk THEN -4 ELSE -5
      BY <3>3, <3>4
    <3> QED  BY <2>14, <3>5
  <2>17. d = 1 => Len(read.sectors) * B <= BufferBytes(bs, input.size)
    <3> SUFFICES ASSUME d = 1 PROVE Len(read.sectors) * B <= BufferBytes(bs, input.size)
      OBVIOUS
    <3>1. Len(read.sectors) = (k + 1) * d
      <4>1. k + 1 \in 0 .. L
        BY <2>4, <2>7
      <4>2. Len(Whole(bs, chain, k + 1)) = (k + 1) * d
        BY <2>2, <2>3, <4>1, WholeIsSeq, Zenon
      <4> QED  BY <2>9, <4>2, Zenon
    <3>2. BufferBytes(bs, input.size) = input.size + B
      BY Zenon DEF BufferBytes
    <3> HIDE DEF read, B, L, d
    <3>3. (k + 1) * d = k + 1 /\ d * B = B /\ k \in 0 .. L - 1
      BY <2>4, <2>7
    <3>4. (L - 1) * B < input.size
      BY <2>5, <3>3, Zenon
    <3>5. (k + 1) * B <= input.size + B
      BY <2>4, <2>5, <3>3, <3>4, FitsBuffer, Zenon
    <3> QED  BY <3>1, <3>2, <3>3, <3>5, Zenon
  <2>18. {W[s] : s \in DOMAIN W} = InChain(disk, chain)
         /\ W = [s \in 1 .. L * d |-> SectorOf(bs, chain, s - 1)]
    BY Zenon DEF InChain, Whole
  <2>19. /\ m.status = IF ~ starts THEN -1
                        ELSE IF {0} \cap disk.unreadable # {} THEN -2
                        ELSE IF (bs.ReservedSectors .. bs.ReservedSectors + bs.SectorsPerFat - 1)
                                   \cap disk.unreadable # {} THEN -3
                        ELSE IF (bs.ReservedSectors + bs.FatCount * bs.SectorsPerFat
                                   .. DataStart(bs) - 1) \cap disk.unreadable # {} THEN -4
                        ELSE IF {W[s] : s \in DOMAIN W} \cap disk.unreadable # {} THEN -5
                        ELSE 0
         /\ m.status = 0 => m.sectors = W /\ m.bytes = input.size /\ m.bytes <= Len(m.sectors) * B
    <3>1. fileOk <=> {W[s] : s \in DOMAIN W} \cap disk.unreadable = {}
      BY <2>18, Zenon
    <3>2. m.status = 0 => m.sectors = W /\ m.bytes = input.size /\ m.bytes <= Len(m.sectors) * B
      <4> HIDE DEF m, W
      <4> QED  BY <2>14, <2>15, Zenon
    <3> DEFINE told == IF ~ starts THEN -1 ELSE IF ~ bootOk THEN -2 ELSE IF ~ fatOk THEN -3
                       ELSE IF ~ dirOk THEN -4
                       ELSE IF ~ ({W[s] : s \in DOMAIN W} \cap disk.unreadable = {}) THEN -5 ELSE 0
    <3>3. m.status = told
      <4> HIDE DEF m, starts, bootOk, fatOk, dirOk, fileOk, W
      <4> QED  BY <2>14, <3>1, Zenon
    <3> HIDE DEF m, W
    <3> QED  BY <3>2, <3>3, Zenon
  <2> DEFINE Told ==
        /\ m.status = IF input.argc < 3 \/ ~ disk.opens THEN -1
                      ELSE IF {0} \cap disk.unreadable # {} THEN -2
                      ELSE IF (bs.ReservedSectors .. bs.ReservedSectors + bs.SectorsPerFat - 1)
                                 \cap disk.unreadable # {} THEN -3
                      ELSE IF (bs.ReservedSectors + bs.FatCount * bs.SectorsPerFat
                                 .. DataStart(bs) - 1) \cap disk.unreadable # {} THEN -4
                      ELSE IF {W[s] : s \in DOMAIN W} \cap disk.unreadable # {} THEN -5
                      ELSE 0
        /\ m.status = 0 => m.sectors = W /\ m.bytes = input.size /\ m.bytes <= Len(m.sectors) * B
        /\ none.status = IF m.status \in -4 .. -1 THEN m.status ELSE -5
        /\ d = 1 => Len(read.sectors) * B <= BufferBytes(bs, input.size)
  <2>20. Told
    <3> HIDE DEF m, W, none, read, L
    <3> QED  BY <2>16, <2>17, <2>19, Zenon
  <2>21. Told => FilePrinted
    BY <2>18 DEF FilePrinted
  <2> QED  BY <2>20, <2>21, Zenon
<1> QED  BY <1>1, AlwaysGiven, PTL
=============================================================================
