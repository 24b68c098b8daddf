----------------------------- MODULE Descriptors -----------------------------
(***************************************************************************)
(* The tables the processor finds its segments and its interrupt handlers  *)
(* by: libkern/gdt.c, libkern/idt.c and the vectors that 8259_pic.c gives  *)
(* the interrupt controllers.  A 32-bit word is a record of its two        *)
(* halves.  How the processor reads an entry is external.                  *)
(***************************************************************************)
EXTENDS Integers

Half == 0 .. 65535
Word(hi, lo) == [hi |-> hi, lo |-> lo]

\* n with the bits of a mask of the form 2^k added, or'ed.
OrBit(n, k) == IF (n \div 2^k) % 2 = 1 THEN n ELSE n + 2^k

(***************************************************************************)
(* Segments.                                                               *)
(***************************************************************************)
\* A plausible slip: the third byte of the base is lost.
base_high_Middle(base) == base.hi % 256

base_high(base) == base.hi \div 256

gdt_set_entry(base, limit, access, gran) ==
  [segment_limit |-> limit.lo,
   base_low      |-> base.lo,
   base_middle   |-> base.hi % 256,
   access        |-> access,
   granularity   |-> (limit.hi % 16) + 16 * (gran \div 16),
   base_high     |-> base_high(base)]

\* gdt_init: null, kernel code and data, user code and data; NO_GDT_DESCRIPTORS is 8.
g_gdt == LET flat(access) == gdt_set_entry(Word(0, 0), Word(65535, 65535), access, 207)
             null         == gdt_set_entry(Word(0, 0), Word(0, 0), 0, 0)
         IN  [n \in 0..7 |-> CASE n = 1 -> flat(154) [] n = 2 -> flat(146)
                               [] n = 3 -> flat(250) [] n = 4 -> flat(242)
                               [] OTHER -> null]

\* The processor: base, 20-bit limit, flags; the access byte bit by bit.
Segment(e) == [base  |-> Word(e.base_high * 256 + e.base_middle, e.base_low),
               limit |-> Word(e.granularity % 16, e.segment_limit),
               flags |-> e.granularity \div 16,
               dpl   |-> (e.access \div 32) % 4,
               code  |-> (e.access \div 8) % 2 = 1,
               present |-> e.access \div 128 = 1]

\* Does a segment hold every address?
CoversAll(segment) == segment.base = Word(0, 0) /\ segment.limit = Word(15, 65535)

(***************************************************************************)
(* Interrupt gates.                                                        *)
(***************************************************************************)
idt_set_entry(base, seg_sel, flags) ==
  [base_low |-> base.lo, segment_selector |-> seg_sel, zero |-> 0,
   type |-> OrBit(OrBit(flags, 5), 6), base_high |-> base.hi]

\* The vectors of exceptions and interrupts that idt_init fills.
Vectors == 0..47 \cup {128}

\* idt_init: entry(v) is the address of exception_v, or of irq_(v - 32).
g_idt(entry) == [v \in Vectors |-> idt_set_entry(entry[v], 8, 142)]

\* The processor: an interrupt gate (type 14) clears the interrupt flag.
Gate(e) == [offset   |-> Word(e.base_high, e.base_low),
            selector |-> e.segment_selector,
            dpl      |-> (e.type \div 32) % 4,
            clearsIF |-> e.type % 16 = 14,
            present  |-> e.type \div 128 = 1]

(***************************************************************************)
(* From a request to its handler.                                          *)
(***************************************************************************)
IRQ_BASE == 32

\* A plausible slip: the slave is left at the vector of the BIOS.
pic8259_init_OneOnly == [master |-> 32, slave |-> 112]

\* ICW2 of each controller.
pic8259_init == [master |-> 32, slave |-> 40]

\* The vector a controller gives for a request: its ICW2 plus the line.
Vector(n) == IF n < 8 THEN pic8259_init.master + n ELSE pic8259_init.slave + n - 8

\* The number irq_n pushes for isr_irq_handler: the second column of irq.asm.
Pushed(n) == 32 + n

\* pic8259_eoi tells the slave.
EndsSlave(int_no) == int_no >= 40
=============================================================================
