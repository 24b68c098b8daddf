------------------------------- MODULE Frames -------------------------------
(***************************************************************************)
(* The way into and out of a handler: the stubs of libkern/exception.asm   *)
(* and libkern/irq.asm, the frame they build on the stack for the struct   *)
(* REGISTERS of isr.h, and what the handlers of isr.c do with it.          *)
(*                                                                         *)
(* A stack is the sequence of the 32-bit words pushed, the newest last;    *)
(* the interrupted registers are a record of numbers.  All runs in ring 0, *)
(* so the processor pushes no stack pointer of its own.                    *)
(***************************************************************************)
EXTENDS Descriptors, Sequences

\* The exceptions for which the processor pushes an error code.
WithErrorCode == {8, 10, 11, 12, 13, 14, 17}

CPUPushes(v, regs, code) ==
  <<regs.eflags, regs.cs, regs.eip>> \o (IF v \in WithErrorCode THEN <<code>> ELSE <<>>)

HALF == 65536   \* what 16 bits hold

\* A plausible slip: every stub pushes the default error code.
PushesDefault_All(v) == TRUE

\* The stubs of 8 and 10 to 14 leave the place to the processor's error code; that
\* of 17 does not.
PushesDefault(v) == v \notin {8, 10, 11, 12, 13, 14}

\* The number a stub pushes: exception_v its own, irq_n the second column of irq.asm.
NumberOf(v) == IF v \in 32..47 THEN Pushed(v - 32) ELSE v

PushA == <<"eax", "ecx", "edx", "ebx", "esp", "ebp", "esi", "edi">>

\* What the processor and the stub push before the common code.
Stubbed(v, regs, code) ==
  CPUPushes(v, regs, code) \o (IF PushesDefault(v) THEN <<0>> ELSE <<>>) \o <<NumberOf(v)>>

\* mov ax, ds and push eax: the upper half of eax stays beside ds.
SegmentWord(regs) == (regs.eax - (regs.eax % HALF)) + regs.ds

\* From the interrupt to the call of the C handler.  pusha pushes the esp it finds.
Entered(v, regs, code) ==
  LET pushed == Stubbed(v, regs, code)
      now    == [regs EXCEPT !["esp"] = regs.esp - 4 * Len(pushed)]
  IN  pushed \o [k \in 1..8 |-> now[PushA[k]]] \o <<SegmentWord(regs)>>

\* struct REGISTERS, from the lowest address up; useresp and ss are not there.
Members == <<"ds", "edi", "esi", "ebp", "esp", "ebx", "edx", "ecx", "eax",
             "int_no", "err_code", "eip", "cs", "eflags">>

MemberNames == {Members[k] : k \in DOMAIN Members}

\* What the handler finds in its argument: the words on top of the stack.
Seen(stack) ==
  [m \in MemberNames |->
     LET k == CHOOSE k \in DOMAIN Members : Members[k] = m
     IN  IF k <= Len(stack) THEN stack[Len(stack) + 1 - k] ELSE "below"]

DataSegments == {"ds", "es", "fs", "gs"}

\* The registers with a value of their own again after the return; esp is what is left.
Restored == (MemberNames \ {"int_no", "err_code", "esp"}) \cup DataSegments

\* pop ebx, whose lower half goes to every data segment, popa (which skips esp),
\* add esp 8, sti, iret.
Returned(stack) ==
  LET word(k) == stack[Len(stack) + 1 - k]
      bx == word(1) % HALF
  IN  [regs |-> [ds |-> bx, es |-> bx, fs |-> bx, gs |-> bx,
                 edi |-> word(2), esi |-> word(3), ebp |-> word(4),
                 ebx |-> word(6), edx |-> word(7), ecx |-> word(8), eax |-> word(9),
                 eip |-> word(12), cs |-> word(13), eflags |-> word(14)],
       left |-> Len(stack) - 14]

\* "halted" after the screen of an exception, else what is called with the frame, the
\* handler that is registered for the number, if any, and the interrupts that are ended.
isr_exception_handler(frame, g_interrupt_handlers) ==
  IF frame.int_no < 32 THEN [halted |-> TRUE, message |-> frame.int_no]
  ELSE [halted |-> FALSE, called |-> g_interrupt_handlers[frame.int_no], ended |-> {}]

isr_irq_handler(frame, g_interrupt_handlers) ==
  [halted |-> FALSE, called |-> g_interrupt_handlers[frame.int_no],
   ended  |-> {frame.int_no}]

\* What the common code of exception.asm or of irq.asm calls.
Handled(v, frame, g_interrupt_handlers) ==
  IF v \in 32..47 THEN isr_irq_handler(frame, g_interrupt_handlers)
  ELSE isr_exception_handler(frame, g_interrupt_handlers)

-----------------------------------------------------------------------------
(***************************************************************************)
(* What is interrupted: a kernel whose data segments are one selector, as  *)
(* libkern/load_gdt.asm leaves them, on a stack with room for the frame.   *)
(***************************************************************************)
IsInterruption(x) ==
  /\ x.vector \in Vectors
  /\ x.regs \in [Restored \cup {"esp"} -> Nat]
  /\ x.regs.esp >= 60
  /\ x.regs.ds < HALF /\ \A s \in DataSegments : x.regs[s] = x.regs.ds
=============================================================================
