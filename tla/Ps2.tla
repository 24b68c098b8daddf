-------------------------------- MODULE Ps2 --------------------------------
(***************************************************************************)
(* The mouse driver, libkern/mouse.c, with the dispatcher (isr.c, irq.asm) *)
(* and the interrupt controller (8259_pic.c) it runs under, on a PS/2      *)
(* controller that the mouse shares with the keyboard.                     *)
(*                                                                         *)
(* kmain runs mouse_init with interrupts enabled (idt_init ended in sti).  *)
(* One port access of mouse_init is one action; the two writes of a        *)
(* two-byte command are one, since a handler only reads.  A handler is a   *)
(* few actions: the devices go on meanwhile, kmain and the other handler   *)
(* do not (interrupt gates, cli).                                          *)
(*                                                                         *)
(* The controller is not in the repository.  It has one output buffer; a   *)
(* byte in it keeps the interrupt line of its device high, if the command  *)
(* byte enables that, and the PIC latches the rise of the line.  A read of *)
(* the empty buffer gives the last byte again.  Writes are taken at once,  *)
(* so that mouse_wait(true) returns at once.                               *)
(***************************************************************************)
EXTENDS Integers, Sequences

CONSTANTS VGA_WIDTH, VGA_HEIGHT,
          Codes, MaxKeys,        \* scan codes, bound on the key events
          Packets, MaxPackets,   \* three-byte packets, bound on the motions
          BootCommand,           \* the command byte the firmware leaves
          Prompt,   \* an interrupt is taken before kmain's next port access
          Timely    \* no device answers later than mouse_wait's time-out

ASSUME Ps2Assumption ==
  /\ VGA_WIDTH \in Nat \ 0..5 /\ VGA_HEIGHT \in Nat \ 0..2
  /\ Codes \subseteq 0..255 /\ MaxKeys \in Nat
  /\ Packets \subseteq (0..255) \X (0..255) \X (0..255) /\ MaxPackets \in Nat
  /\ BootCommand \in 0..255
  /\ Prompt \in BOOLEAN /\ Timely \in BOOLEAN

MOUSE_CMD_SET_DEFAULTS == 246
MOUSE_CMD_ENABLE_PACKET_STREAMING == 244
MOUSE_CMD_SAMPLE_RATE == 243
MOUSE_CMD_MOUSE_ID == 242
MOUSE_ACKNOWLEDGE == 250

VARIABLES
  \* the driver
  pc,            \* where mouse_init is: <<step, "send", "wait" or "read">>
  status,        \* its local
  registered,    \* mouse_handler is in g_interrupt_handlers
  mouse_cycle, mouse_byte, g_mouse_x_pos, g_mouse_y_pos,
  \* the processor and the PICs
  hpc, irq,      \* where the dispatcher is; the interrupt it serves
  irr, isr,      \* requests latched, interrupts in service
  \* the controller and its devices
  outbuf,        \* the output buffer
  command,       \* the command byte
  queue,         \* what the keyboard, the mouse and the controller will say
  streaming,
  keys,          \* number of key events so far
  \* history
  moves,         \* the packets sent and not yet taken, and how many were sent
  sent,
  early          \* a packet came before the handler was registered

initVars == <<pc, status, registered>>
mouseVars == <<mouse_cycle, mouse_byte, g_mouse_x_pos, g_mouse_y_pos>>
cpuVars == <<hpc, irq, isr>>
deviceVars == <<streaming, keys, sent>>
vars == <<initVars, mouseVars, cpuVars, irr, outbuf, command, queue, deviceVars,
          moves, early>>

Init ==
  /\ pc = <<"enable", "send">> /\ status = 0 /\ registered = FALSE
  /\ mouse_cycle = 0 /\ mouse_byte = <<0, 0, 0>>
  /\ g_mouse_x_pos = 5 /\ g_mouse_y_pos = 2
  /\ hpc = "none" /\ irq = 0 /\ irr = {} /\ isr = {}
  /\ outbuf = [full |-> FALSE, from |-> "kbd", val |-> 0]
  /\ command = BootCommand
  /\ queue = [kbd |-> <<>>, aux |-> <<>>, ctl |-> <<>>]
  /\ streaming = FALSE /\ keys = 0 /\ moves = <<>> /\ sent = 0 /\ early = FALSE

(***************************************************************************)
(* The controller.                                                         *)
(***************************************************************************)
Bit(n, k) == (n \div 2^k) % 2 = 1

SetBit(n, k) == IF Bit(n, k) THEN n ELSE n + 2^k
ClearBit(n, k) == IF Bit(n, k) THEN n - 2^k ELSE n

\* The interrupt lines a buffer b and a command byte m keep high.
Lines(b, m) == IF ~ b.full THEN {}
               ELSE IF b.from = "aux" THEN IF Bit(m, 1) THEN {12} ELSE {}
               ELSE IF Bit(m, 0) THEN {1} ELSE {}

\* Every action that changes the buffer or the command byte ends with this.
Latch == irr' = irr \cup (Lines(outbuf', command') \ Lines(outbuf, command))

Off(d) == \/ d = "kbd" /\ Bit(command, 4)
          \/ d = "aux" /\ Bit(command, 5)

\* The next byte of a device, or an answer of the controller, comes up.
Deliver(d) == /\ ~ outbuf.full /\ queue[d] # <<>> /\ ~ Off(d)
              /\ outbuf' = [full |-> TRUE, from |-> d, val |-> Head(queue[d])]
              /\ queue' = [queue EXCEPT ![d] = Tail(@)]
              /\ UNCHANGED command /\ Latch
              /\ UNCHANGED <<initVars, mouseVars, cpuVars, deviceVars, moves, early>>

KeyEvent(b) == /\ keys < MaxKeys /\ keys' = keys + 1
               /\ queue' = [queue EXCEPT !.kbd = Append(@, b)]
               /\ UNCHANGED <<initVars, mouseVars, cpuVars, irr, outbuf, command,
                              streaming, sent, moves, early>>

Motion(p) == /\ streaming /\ sent < MaxPackets /\ sent' = sent + 1
             /\ queue' = [queue EXCEPT !.aux = @ \o p]
             /\ moves' = Append(moves, p)
             /\ UNCHANGED <<initVars, mouseVars, cpuVars, irr, outbuf, command,
                            streaming, keys, early>>

\* Is there still a byte to come?
Coming == outbuf.full \/ \E d \in DOMAIN queue : queue[d] # <<>> /\ ~ Off(d)

(***************************************************************************)
(* mouse_init, a step for each byte it sends.                              *)
(***************************************************************************)
\* The requests the PICs let through: each holds back what is in service on it and
\* what ranks lower; the slave's requests rank as the master's 2.
Admitted == {n \in irr : isr \cap (IF n >= 8 THEN 0..2 \cup 8..n ELSE 0..n) = {}}

\* kmain runs, and no interrupt comes first.
Runs == hpc = "none" /\ (Prompt => Admitted = {})

\* A write that the keyboard answers: the mouse is not addressed without 0xD4.
ToKeyboard == [id        |-> MOUSE_CMD_MOUSE_ID,
               rate      |-> MOUSE_CMD_SAMPLE_RATE,
               rate_data |-> 10]

ToMouse == [defaults |-> MOUSE_CMD_SET_DEFAULTS,
            stream   |-> MOUSE_CMD_ENABLE_PACKET_STREAMING]

\* The next step, after an answer.
Then(step, ack) == CASE step = "id"        -> "rate"
                     [] step = "rate"      -> IF ack THEN "rate_data" ELSE "read_command"
                     [] step = "rate_data" -> "read_command"
                     [] step = "read_command" -> "write_command"
                     [] step = "defaults"  -> IF ack THEN "stream" ELSE "failed"
                     [] step = "stream"    -> IF ack THEN "register" ELSE "failed"

\* outportb(PS2_CMD_PORT, 0xA8)
EnableMouse == /\ Runs /\ pc = <<"enable", "send">>
               /\ pc' = <<"id", "send">>
               /\ command' = ClearBit(command, 5)
               /\ UNCHANGED outbuf /\ Latch
               /\ UNCHANGED <<status, registered, mouseVars, cpuVars, queue,
                              deviceVars, moves, early>>

SendToKeyboard ==
  \E s \in DOMAIN ToKeyboard :
    /\ Runs /\ pc = <<s, "send">> /\ pc' = <<s, "wait">>
    /\ queue' = [queue EXCEPT !.kbd = @ \o (IF s = "id" THEN <<250, 171, 65>>
                                            ELSE <<250>>)]
    /\ UNCHANGED <<status, registered, mouseVars, cpuVars, irr, outbuf, command,
                   deviceVars, moves, early>>

\* mouse_write
SendToMouse ==
  \E s \in DOMAIN ToMouse :
    /\ Runs /\ pc = <<s, "send">> /\ pc' = <<s, "wait">>
    /\ queue' = [queue EXCEPT !.aux = Append(@, MOUSE_ACKNOWLEDGE)]
    /\ streaming' = (s = "stream")
    /\ UNCHANGED <<status, registered, mouseVars, cpuVars, irr, outbuf, command,
                   keys, sent, moves, early>>

\* outportb(PS2_CMD_PORT, 0x20)
AskCommand == /\ Runs /\ pc = <<"read_command", "send">>
              /\ pc' = <<"read_command", "wait">>
              /\ queue' = [queue EXCEPT !.ctl = Append(@, command)]
              /\ UNCHANGED <<status, registered, mouseVars, cpuVars, irr, outbuf,
                             command, deviceVars, moves, early>>

WriteCommand == /\ Runs /\ pc = <<"write_command", "send">>
                /\ pc' = <<"defaults", "send">>
                /\ command' = status
                /\ UNCHANGED outbuf /\ Latch
                /\ UNCHANGED <<status, registered, mouseVars, cpuVars, queue,
                               deviceVars, moves, early>>

\* A plausible slip: mouse_wait(false) has no time-out.
Wait_Forever == /\ Runs /\ pc[2] = "wait" /\ outbuf.full
                /\ pc' = <<pc[1], "read">>
                /\ UNCHANGED <<status, registered, mouseVars, cpuVars, irr, outbuf,
                               command, queue, deviceVars, moves, early>>

\* mouse_wait(false) returns: the buffer is full, or the time is out.
Wait == /\ Runs /\ pc[2] = "wait"
        /\ outbuf.full \/ ~ (Timely /\ Coming)
        /\ pc' = <<pc[1], "read">>
        /\ UNCHANGED <<status, registered, mouseVars, cpuVars, irr, outbuf, command,
                       queue, deviceVars, moves, early>>

\* inportb(MOUSE_DATA_PORT), and what the answer leads to.
Read == /\ Runs /\ pc[2] = "read"
        /\ outbuf' = [outbuf EXCEPT !.full = FALSE]
        /\ status' = IF pc[1] = "read_command" THEN SetBit(outbuf.val, 1)
                     ELSE outbuf.val
        /\ pc' = <<Then(pc[1], outbuf.val = MOUSE_ACKNOWLEDGE), "send">>
        /\ UNCHANGED <<registered, mouseVars, cpuVars, irr, command, queue,
                       deviceVars, moves, early>>

\* A plausible slip: the handler is registered before streaming is enabled, and
\* takes the mouse's answer for the first byte of a packet.
Register_BeforeStream ==
  /\ Runs
  /\ \/ pc = <<"stream", "send">> /\ ~ registered /\ UNCHANGED pc
     \/ pc = <<"register", "send">> /\ pc' = <<"done", "send">>
  /\ registered' = TRUE
  /\ UNCHANGED <<status, mouseVars, cpuVars, irr, outbuf, command, queue,
                 deviceVars, moves, early>>

\* isr_register_interrupt_handler(IRQ_BASE + 12, mouse_handler)
Register == /\ Runs /\ pc = <<"register", "send">>
            /\ pc' = <<"done", "send">>
            /\ registered' = TRUE
            /\ UNCHANGED <<status, mouseVars, cpuVars, irr, outbuf, command, queue,
                           deviceVars, moves, early>>

mouse_init == \/ EnableMouse \/ SendToKeyboard \/ SendToMouse \/ AskCommand
              \/ WriteCommand \/ Wait \/ Read \/ Register

(***************************************************************************)
(* The interrupts.                                                         *)
(***************************************************************************)
First(s) == {n \in s : \A m \in s : n <= m}

\* A request of the slave is in service on both PICs.
InService(n) == IF n = 12 THEN {2, 12} ELSE {n}

\* irq_1, irq_12: the processor acknowledges the first request.
Interrupt == \E n \in First(Admitted) :
               /\ hpc = "none" /\ hpc' = "handler"
               /\ irq' = n /\ irr' = irr \ {n} /\ isr' = isr \cup InService(n)
               /\ UNCHANGED <<initVars, mouseVars, outbuf, command, queue,
                              deviceVars, moves, early>>

\* A plausible slip: the slave is never told.
pic8259_eoi_Master(s, n) == s \ First(s \cap 0..7)

\* The end of interrupt is not specific: each PIC ends its first.
pic8259_eoi(s, n) == s \ (First(s \cap 0..7)
                            \cup (IF n >= 8 THEN First(s \cap 8..15) ELSE {}))

\* A plausible slip: get_scancode goes on until nothing is left.
keyboard_handler_Drains ==
  /\ hpc = "handler" /\ irq = 1
  /\ outbuf.full \/ ~ (Timely /\ Coming)
  /\ hpc' = "eoi"
  /\ outbuf' = [outbuf EXCEPT !.full = FALSE]
  /\ queue' = [queue EXCEPT !.kbd = <<>>, !.aux = <<>>]
  /\ irr' = irr \cup (IF queue.aux # <<>> THEN {12} ELSE {})
  /\ UNCHANGED <<initVars, mouseVars, irq, isr, command, deviceVars, moves, early>>

\* get_scancode waits for a byte and takes it, or takes none when its count overflows;
\* the rest is in Keyboard.
keyboard_handler ==
  /\ hpc = "handler" /\ irq = 1
  /\ outbuf.full \/ ~ (Timely /\ Coming)
  /\ hpc' = "eoi"
  /\ outbuf' = [outbuf EXCEPT !.full = FALSE]
  /\ UNCHANGED <<initVars, mouseVars, irq, isr, irr, command, queue, deviceVars,
                 moves, early>>

\* g_interrupt_handlers[44] is still NULL.
NoHandler == /\ hpc = "handler" /\ irq = 12 /\ ~ registered
             /\ hpc' = "eoi"
             /\ early' = (early \/ (sent > 0 /\ pc[1] = "register"))
             /\ UNCHANGED <<initVars, mouseVars, irq, isr, irr, outbuf, command,
                            queue, deviceVars, moves>>

Signed(b) == IF b < 128 THEN b ELSE b - 256

\* A plausible slip: the position may leave the screen at the top and the left.
Clamp_Above(v, edge) == IF v > edge THEN edge - 1 ELSE v

Clamp(v, edge) == LET w == IF v < 0 THEN 0 ELSE v
                  IN  IF w > edge THEN edge - 1 ELSE w

NextCycle(k) == IF k = 2 THEN 0 ELSE k + 1

\* The drawing is in Terminal.
mouse_handler ==
  /\ hpc = "handler" /\ irq = 12 /\ registered
  /\ hpc' = "eoi"
  /\ IF mouse_cycle > 2 THEN UNCHANGED <<mouseVars, outbuf, moves>>
     ELSE /\ outbuf.full \/ ~ (Timely /\ Coming)
          /\ outbuf' = [outbuf EXCEPT !.full = FALSE]
          /\ mouse_byte' = [mouse_byte EXCEPT ![mouse_cycle + 1] = outbuf.val]
          /\ mouse_cycle' = NextCycle(mouse_cycle)
          /\ IF mouse_cycle < 2
             THEN UNCHANGED <<g_mouse_x_pos, g_mouse_y_pos, moves>>
             ELSE /\ g_mouse_x_pos' = Clamp(g_mouse_x_pos + Signed(mouse_byte[2]),
                                            VGA_WIDTH)
                  /\ g_mouse_y_pos' = Clamp(g_mouse_y_pos - Signed(outbuf.val),
                                            VGA_HEIGHT)
                  /\ moves' = IF moves = <<>> THEN <<>> ELSE Tail(moves)
  /\ isr' = pic8259_eoi(isr, irq)     \* isr_end_interrupt(IRQ_BASE + 12)
  /\ UNCHANGED <<initVars, irq, irr, command, queue, deviceVars, early>>

\* isr_irq_handler sends the end of interrupt, and irq.asm returns.
Return == /\ hpc = "eoi" /\ hpc' = "none"
          /\ isr' = pic8259_eoi(isr, irq)
          /\ UNCHANGED <<initVars, mouseVars, irq, irr, outbuf, command, queue,
                         deviceVars, moves, early>>

isr_irq_handler == keyboard_handler \/ NoHandler \/ mouse_handler \/ Return

Next == \/ mouse_init \/ Interrupt \/ isr_irq_handler
        \/ \E d \in DOMAIN queue : Deliver(d)
        \/ \E b \in Codes : KeyEvent(b)
        \/ \E p \in Packets : Motion(p)

Spec == Init /\ [][Next]_vars

\* kmain, the interrupts and the devices go on; nobody need touch a key or the mouse.
FairSpec == /\ Spec /\ WF_vars(mouse_init)
            /\ WF_vars(Interrupt) /\ WF_vars(isr_irq_handler)
            /\ \A d \in {"kbd", "aux", "ctl"} : WF_vars(Deliver(d))
-----------------------------------------------------------------------------
Steps == {"enable", "read_command", "write_command", "register", "done", "failed"}
           \cup DOMAIN ToKeyboard \cup DOMAIN ToMouse

\* The values of the variables; the pointer stays on the screen, or just past its
\* right and lower edge, which is what the clamp allows.
TypeOK ==
  /\ pc \in Steps \X {"send", "wait", "read"}
  /\ status \in 0..255 /\ registered \in BOOLEAN
  /\ mouse_cycle \in 0..2 /\ mouse_byte \in [1..3 -> 0..255]
  /\ g_mouse_x_pos \in 0 .. VGA_WIDTH /\ g_mouse_y_pos \in 0 .. VGA_HEIGHT
  /\ hpc \in {"none", "handler", "eoi"} /\ irq \in {0, 1, 12}
  /\ irr \subseteq {1, 12} /\ isr \subseteq {1, 2, 12}
  /\ outbuf \in [full : BOOLEAN, from : {"kbd", "aux", "ctl"}, val : 0..255]
  /\ command \in 0..255
  /\ queue \in [{"kbd", "aux", "ctl"} -> Seq(0..255)]
  /\ streaming \in BOOLEAN /\ keys \in 0 .. MaxKeys /\ sent \in 0 .. MaxPackets
  /\ moves \in Seq(Packets) /\ early \in BOOLEAN

\* A handler finds the byte of its own device in the shared buffer: keyboard_handler
\* never takes a byte of the mouse for a scan code and never waits with interrupts
\* off, mouse_handler never takes a scan code into a packet.
HandlersReadOwnByte ==
  hpc = "handler" /\ (irq = 12 => registered) =>
    /\ outbuf.full
    /\ outbuf.from = "aux" <=> irq = 12

\* The mouse's two ends of an interrupt end one interrupt, its own: whatever is
\* pending, none stays in service and none is ended for another.
InterruptsEnded ==
  /\ hpc = "none" => isr = {}
  /\ hpc # "none" => isr \subseteq InService(irq)

\* mouse_init comes to its end, although keyboard_handler takes the answers that the
\* keyboard gives it: then the time-out of mouse_wait ends the wait, and whatever
\* byte was there last is the answer.
InitEnds == <>(pc[1] \in {"done", "failed"})

\* With the mouse set up, every byte of the keyboard and of the mouse is taken in the
\* end, and every motion with it: no order of keys, packets and interrupts leaves a
\* byte that nobody reads.  Excepted are a packet that came before the handler was
\* registered, whose byte stops both for good, and a command byte that was written back
\* with the keyboard's interrupt off.
InputTaken ==
  pc[1] = "done" /\ ~ early /\ Bit(command, 0) ~>
    /\ moves = <<>> /\ hpc = "none" /\ ~ outbuf.full
    /\ \A d \in DOMAIN queue : queue[d] # <<>> => Off(d)

\* mouse_init only sets the bit of the mouse's interrupt in the command byte.
CommandByteKept == pc[1] \in {"defaults", "stream", "register", "done", "failed"} =>
                     command = SetBit(ClearBit(BootCommand, 5), 1)

MotionOf(p) == <<Signed(p[2]), - Signed(p[3])>>

\* The pointer takes the motions of the mouse, whole and in order: the bytes of two
\* packets, of a packet and an answer, or of a packet and a key are never mixed.
Pointer == INSTANCE Pointing
  WITH Motions <- {MotionOf(p) : p \in Packets},
       Width  <- VGA_WIDTH, Height <- VGA_HEIGHT,
       made   <- [k \in 1 .. Len(moves) |-> MotionOf(moves[k])],
       at     <- <<g_mouse_x_pos, g_mouse_y_pos>>

PointingSpec == Pointer!Spec
=============================================================================
