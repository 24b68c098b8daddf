------------------------------ MODULE Ps2Proofs ------------------------------
(***************************************************************************)
(* What the mouse driver guarantees for every packet and every number of   *)
(* key events and motions: the interrupts are ended, a handler finds the   *)
(* byte of its own device, and the pointer takes the motions whole.        *)
(***************************************************************************)
EXTENDS Ps2, SequenceTheorems, TLAPS

(***************************************************************************)
(* The invariant of the interrupts.                                        *)
(***************************************************************************)

\* The bytes that mouse_init waits for an answer to.
Asked == {"id", "rate", "rate_data", "read_command", "defaults", "stream"}

Answers == pc[2] \in {"wait", "read"} => pc[1] \in Asked

\* What is in service is what is served, until the first end of interrupt.
Serving == /\ hpc = "none" => isr = {}
           /\ hpc # "none" => irq \in {1, 12}
           /\ hpc = "handler" => isr = InService(irq)
           /\ hpc = "eoi" => isr \subseteq InService(irq)

\* A request stands for the byte that is in the buffer, and a handler was called for it.
Own == /\ \A n \in irr : outbuf.full /\ (outbuf.from = "aux" <=> n = 12)
       /\ hpc = "handler" => /\ irr = {} /\ outbuf.full
                             /\ outbuf.from = "aux" <=> irq = 12

(***************************************************************************)
(* The bits of the command byte.                                           *)
(***************************************************************************)

\* The powers of two.
LEMMA Powers == 2^0 = 1 /\ 2^1 = 2 /\ 2^4 = 16 /\ 2^5 = 32
<1>1. 2^0 = 1
  BY SMT
<1>2. 2^1 = 2
  BY SMT
<1>3. 2^4 = 16
  BY SMT
<1>4. 2^5 = 32
  BY SMT
<1> QED  BY <1>1, <1>2, <1>3, <1>4, Zenon

\* Setting bit 1 and clearing bit 5 leaves a byte, and the keyboard's bits alone.
LEMMA CommandBits ==
  ASSUME NEW n \in 0..255
  PROVE  /\ SetBit(n, 1) \in 0..255
         /\ ClearBit(n, 5) \in 0..255
         /\ Bit(n, 0) => Bit(ClearBit(n, 5), 0)
         /\ ~ Bit(n, 4) => ~ Bit(ClearBit(n, 5), 4)
         /\ Bit(n, 0) => n # MOUSE_ACKNOWLEDGE
<1>1. \A m \in 0..255 : /\ Bit(m, 0) <=> m % 2 = 1
                        /\ Bit(m, 1) <=> (m \div 2) % 2 = 1
                        /\ Bit(m, 4) <=> (m \div 16) % 2 = 1
                        /\ Bit(m, 5) <=> (m \div 32) % 2 = 1
  BY Powers DEF Bit
<1>2. SetBit(n, 1) \in 0..255
  <2>1. (n \div 2) % 2 # 1 => n + 2 \in 0..255
    OBVIOUS
  <2> QED  BY <1>1, <2>1, Powers DEF SetBit
<1>3. ClearBit(n, 5) = IF (n \div 32) % 2 = 1 THEN n - 32 ELSE n
  BY <1>1, Powers DEF ClearBit
<1>4. (n \div 32) % 2 = 1 => /\ n - 32 \in 0..255
                             /\ (n - 32) % 2 = n % 2
                             /\ ((n - 32) \div 16) % 2 = (n \div 16) % 2
  OBVIOUS
<1>5. n % 2 = 1 => n # MOUSE_ACKNOWLEDGE
  BY DEF MOUSE_ACKNOWLEDGE
<1>6. ClearBit(n, 5) \in 0..255
  BY <1>3, <1>4
<1>7. ClearBit(n, 5) % 2 = n % 2 /\ (ClearBit(n, 5) \div 16) % 2 = (n \div 16) % 2
  BY <1>3, <1>4
<1>8. Bit(n, 0) => Bit(ClearBit(n, 5), 0)
  BY <1>1, <1>6, <1>7, Zenon
<1>9. ~ Bit(n, 4) => ~ Bit(ClearBit(n, 5), 4)
  BY <1>1, <1>6, <1>7, Zenon
<1>10. Bit(n, 0) => n # MOUSE_ACKNOWLEDGE
  BY <1>1, <1>5, Zenon
<1> QED  BY <1>2, <1>6, <1>8, <1>9, <1>10, Zenon

(***************************************************************************)
(* Types.                                                                  *)
(***************************************************************************)

\* The names of the commands.
LEMMA CommandNames ==
  /\ DOMAIN ToKeyboard = {"id", "rate", "rate_data"}
  /\ DOMAIN ToMouse = {"defaults", "stream"}
BY DEF ToKeyboard, ToMouse

\* An answer leads to a step of mouse_init.
LEMMA ThenIsStep ==
  ASSUME NEW s \in Asked, NEW ack \in BOOLEAN
  PROVE  Then(s, ack) \in {"rate", "rate_data", "read_command", "write_command", "stream",
                           "register", "failed"}
BY DEF Asked, Then

\* What Latch leaves of the requests.
LEMMA LatchTypes ==
  ASSUME irr \subseteq {1, 12}, Latch
  PROVE  irr' \subseteq {1, 12}
BY DEF Latch, Lines

\* The pointer stays on the screen or just past its edge.
LEMMA ClampTypes ==
  ASSUME NEW v \in Int, NEW edge \in Nat \ {0}
  PROVE  Clamp(v, edge) \in 0 .. edge
BY DEF Clamp

\* The first of the requests is one of them.
LEMMA FirstIsOne ==
  ASSUME NEW S
  PROVE  First(S) \subseteq S
BY DEF First

Queues == [{"kbd", "aux", "ctl"} -> Seq(0..255)]

\* A queue is replaced by another one.
LEMMA QueueTypes ==
  ASSUME NEW w \in Queues, NEW d \in {"kbd", "aux", "ctl"}, NEW q \in Seq(0..255)
  PROVE  /\ w[d] \in Seq(0..255)
         /\ [w EXCEPT ![d] = q] \in Queues
         /\ [w EXCEPT ![d] = q][d] = q
         /\ \A e \in {"kbd", "aux", "ctl"} : e # d => [w EXCEPT ![d] = q][e] = w[e]
BY DEF Queues

\* What the queues hold after that.
LEMMA QueueAfter ==
  ASSUME queue \in Queues, NEW d \in {"kbd", "aux", "ctl"}, NEW q,
         queue' = [queue EXCEPT ![d] = q]
  PROVE  queue'[d] = q /\ \A e \in {"kbd", "aux", "ctl"} : e # d => queue'[e] = queue[e]
BY DEF Queues

\* The parts of two texts of bytes, one after the other.
LEMMA ConcatParts ==
  ASSUME NEW s \in Seq(0..255), NEW p \in Seq(0..255)
  PROVE  /\ Len(s \o p) = Len(s) + Len(p)
         /\ \A k \in 1 .. Len(s) + Len(p) :
               (s \o p)[k] = IF k <= Len(s) THEN s[k] ELSE p[k - Len(s)]
BY ConcatProperties

\* Three of them are put together in either order.
LEMMA ConcatThree ==
  \A S : \A v, q, p \in Seq(S) : (v \o q) \o p = v \o (q \o p)
BY ConcatAssociative, Zenon

\* The packets that remain are fewer by one.
LEMMA TailLength ==
  ASSUME NEW m \in Seq(Packets), m # <<>>
  PROVE  Len(Tail(m)) = Len(m) - 1
BY HeadTailProperties

\* The answers are bytes.
LEMMA AnswerTypes ==
  /\ <<250, 171, 65>> \in Seq(0..255) /\ <<250>> \in Seq(0..255)
  /\ MOUSE_ACKNOWLEDGE \in 0..255
  /\ \A p \in Packets : p \in Seq(0..255)
<1>1. \A p \in Packets : p \in (0..255) \X (0..255) \X (0..255)
  BY Ps2Assumption, Zenon
<1>2. \A a, b, c \in 0..255 : <<a, b, c>> \in Seq(0..255)
  OBVIOUS
<1>3. \A p \in (0..255) \X (0..255) \X (0..255) :
        /\ p = <<p[1], p[2], p[3]>>
        /\ p[1] \in 0..255 /\ p[2] \in 0..255 /\ p[3] \in 0..255
  OBVIOUS
<1>4. ASSUME NEW p \in (0..255) \X (0..255) \X (0..255)
      PROVE  p \in Seq(0..255)
  <2> DEFINE q == <<p[1], p[2], p[3]>>
  <2>1. q \in Seq(0..255)
    <3>1. p[1] \in 0..255 /\ p[2] \in 0..255 /\ p[3] \in 0..255
      BY <1>3, Zenon
    <3> QED  BY <1>2, <3>1, Zenon
  <2>2. p = q
    BY <1>3
  <2> HIDE DEF q
  <2> QED  BY <2>1, <2>2
<1>5. <<250, 171, 65>> \in Seq(0..255) /\ <<250>> \in Seq(0..255)
  OBVIOUS
<1> QED  BY <1>1, <1>4, <1>5 DEF MOUSE_ACKNOWLEDGE

\* mouse_init keeps the types.
LEMMA InitTypes ==
  ASSUME TypeOK, Answers, mouse_init
  PROVE  TypeOK' /\ Answers'
<1>1. CASE EnableMouse
  <2>1. command' \in 0..255
    BY <1>1, CommandBits DEF EnableMouse, TypeOK
  <2>2. irr' \subseteq {1, 12}
    BY <1>1, LatchTypes DEF EnableMouse, TypeOK
  <2>3. pc' = <<"id", "send">>
    BY <1>1 DEF EnableMouse
  <2> QED  BY <1>1, <2>1, <2>2, <2>3, CommandNames
           DEF EnableMouse, TypeOK, Steps, Answers, mouseVars, cpuVars, deviceVars
<1>2. CASE SendToKeyboard
  <2>1. PICK s \in DOMAIN ToKeyboard :
          /\ pc' = <<s, "wait">>
          /\ queue' = [queue EXCEPT !.kbd = @ \o (IF s = "id" THEN <<250, 171, 65>>
                                                  ELSE <<250>>)]
    BY <1>2 DEF SendToKeyboard
  <2>2. s \in {"id", "rate", "rate_data"}
    BY <2>1, CommandNames
  <2>3. queue' \in [{"kbd", "aux", "ctl"} -> Seq(0..255)]
    <3> DEFINE a == IF s = "id" THEN <<250, 171, 65>> ELSE <<250>>
    <3>1. queue \in Queues
      BY DEF TypeOK, Queues
    <3>2. a \in Seq(0..255) /\ queue.kbd \in Seq(0..255)
      BY <3>1, AnswerTypes DEF Queues
    <3>3. queue.kbd \o a \in Seq(0..255)
      BY <3>2, ConcatProperties
    <3>4. queue' = [queue EXCEPT !["kbd"] = queue.kbd \o a]
      BY <2>1
    <3> HIDE DEF a
    <3> QED  BY <3>1, <3>3, <3>4, QueueTypes DEF Queues
  <2>4. pc' \in Steps \X {"send", "wait", "read"} /\ Answers'
    BY <2>1, <2>2, CommandNames DEF Steps, Answers, Asked
  <2>5. UNCHANGED <<status, registered, mouseVars, cpuVars, irr, outbuf, command,
                    deviceVars, moves, early>>
    BY <1>2 DEF SendToKeyboard
  <2> QED  BY <2>3, <2>4, <2>5
           DEF TypeOK, mouseVars, cpuVars, deviceVars
<1>3. CASE SendToMouse
  <2>1. PICK s \in DOMAIN ToMouse :
          /\ pc' = <<s, "wait">> /\ streaming' = (s = "stream")
          /\ queue' = [queue EXCEPT !.aux = Append(@, MOUSE_ACKNOWLEDGE)]
    BY <1>3 DEF SendToMouse
  <2>2. s \in {"defaults", "stream"} /\ streaming' \in BOOLEAN
    BY <2>1, CommandNames
  <2>3. queue' \in [{"kbd", "aux", "ctl"} -> Seq(0..255)]
    <3>1. queue \in Queues
      BY DEF TypeOK, Queues
    <3>2. queue.aux \in Seq(0..255)
      BY <3>1 DEF Queues
    <3>3. Append(queue.aux, MOUSE_ACKNOWLEDGE) \in Seq(0..255)
      BY <3>2, AnswerTypes, AppendProperties
    <3>4. queue' = [queue EXCEPT !["aux"] = Append(queue.aux, MOUSE_ACKNOWLEDGE)]
      BY <2>1
    <3> QED  BY <3>1, <3>3, <3>4, QueueTypes DEF Queues
  <2>4. pc' \in Steps \X {"send", "wait", "read"} /\ Answers'
    BY <2>1, <2>2, CommandNames DEF Steps, Answers, Asked
  <2>5. UNCHANGED <<status, registered, mouseVars, cpuVars, irr, outbuf, command,
                    keys, sent, moves, early>>
    BY <1>3 DEF SendToMouse
  <2>6. /\ status' \in 0..255 /\ registered' \in BOOLEAN
        /\ mouse_cycle' \in 0..2 /\ mouse_byte' \in [1..3 -> 0..255]
        /\ g_mouse_x_pos' \in 0 .. VGA_WIDTH /\ g_mouse_y_pos' \in 0 .. VGA_HEIGHT
        /\ hpc' \in {"none", "handler", "eoi"} /\ irq' \in {0, 1, 12}
    BY <2>5, Zenon DEF TypeOK, mouseVars, cpuVars
  <2>7. /\ irr' \subseteq {1, 12} /\ isr' \subseteq {1, 2, 12} /\ command' \in 0..255
        /\ outbuf' \in [full : BOOLEAN, from : {"kbd", "aux", "ctl"}, val : 0..255]
        /\ keys' \in 0 .. MaxKeys /\ sent' \in 0 .. MaxPackets
        /\ moves' \in Seq(Packets) /\ early' \in BOOLEAN
    BY <2>5, Zenon DEF TypeOK, cpuVars
  <2> QED  BY <2>2, <2>3, <2>4, <2>6, <2>7, Zenon DEF TypeOK
<1>4. CASE AskCommand
  <2>1. queue' \in [{"kbd", "aux", "ctl"} -> Seq(0..255)]
    <3>1. queue \in Queues /\ command \in 0..255
      BY DEF TypeOK, Queues
    <3>2. queue.ctl \in Seq(0..255)
      BY <3>1 DEF Queues
    <3>3. Append(queue.ctl, command) \in Seq(0..255)
      BY <3>1, <3>2, AppendProperties
    <3>4. queue' = [queue EXCEPT !["ctl"] = Append(queue.ctl, command)]
      BY <1>4 DEF AskCommand
    <3> QED  BY <3>1, <3>3, <3>4, QueueTypes DEF Queues
  <2>2. pc' \in Steps \X {"send", "wait", "read"} /\ Answers'
    <3>1. pc' = <<"read_command", "wait">>
      BY <1>4 DEF AskCommand
    <3> QED  BY <3>1 DEF Steps, Answers, Asked
  <2>3. UNCHANGED <<status, registered, mouseVars, cpuVars, irr, outbuf, command,
                    deviceVars, moves, early>>
    BY <1>4 DEF AskCommand
  <2> QED  BY <2>1, <2>2, <2>3
           DEF TypeOK, mouseVars, cpuVars, deviceVars
<1>5. CASE WriteCommand
  <2>1. irr' \subseteq {1, 12}
    BY <1>5, LatchTypes DEF WriteCommand, TypeOK
  <2>2. pc' = <<"defaults", "send">> /\ command' \in 0..255
    BY <1>5 DEF WriteCommand, TypeOK
  <2> QED  BY <1>5, <2>1, <2>2, CommandNames
           DEF WriteCommand, TypeOK, Steps, Answers, mouseVars, cpuVars, deviceVars
<1>6. CASE Wait
  <2>1. pc' = <<pc[1], "read">> /\ pc[1] \in Asked /\ pc[1] \in Steps
    BY <1>6 DEF Wait, Answers, TypeOK
  <2> QED  BY <1>6, <2>1
           DEF Wait, TypeOK, Answers, initVars, mouseVars, cpuVars, deviceVars
<1>7. CASE Read
  <2>1. /\ pc' = <<Then(pc[1], outbuf.val = MOUSE_ACKNOWLEDGE), "send">>
        /\ pc[1] \in Asked /\ outbuf.val \in 0..255
    BY <1>7 DEF Read, Answers, TypeOK
  <2>2. Then(pc[1], outbuf.val = MOUSE_ACKNOWLEDGE) \in Steps
    BY <2>1, ThenIsStep, CommandNames DEF Steps
  <2>3. status' \in 0..255
    BY <1>7, <2>1, CommandBits DEF Read
  <2>4. outbuf' \in [full : BOOLEAN, from : {"kbd", "aux", "ctl"}, val : 0..255]
    BY <1>7 DEF Read, TypeOK
  <2> HIDE DEF Then
  <2> QED  BY <1>7, <2>1, <2>2, <2>3, <2>4
           DEF Read, TypeOK, Answers, mouseVars, cpuVars, deviceVars
<1>8. CASE Register
  <2>1. pc' = <<"done", "send">> /\ registered' \in BOOLEAN
    BY <1>8 DEF Register
  <2> QED  BY <1>8, <2>1 DEF Register, TypeOK, Steps, Answers, mouseVars, cpuVars, deviceVars
<1> QED  BY <1>1, <1>2, <1>3, <1>4, <1>5, <1>6, <1>7, <1>8 DEF mouse_init

\* The processor and the handlers keep the types.
LEMMA HandlerTypes ==
  ASSUME TypeOK, Answers, Interrupt \/ isr_irq_handler
  PROVE  TypeOK' /\ Answers'
<1>1. CASE Interrupt
  <2>1. PICK n \in First(Admitted) :
          irq' = n /\ irr' = irr \ {n} /\ isr' = isr \cup InService(n)
    BY <1>1 DEF Interrupt
  <2>2. n \in {1, 12}
    BY <2>1, FirstIsOne DEF Admitted, TypeOK
  <2>3. irq' \in {1, 12} /\ irr' \subseteq {1, 12} /\ isr' \subseteq {1, 2, 12}
    BY <2>1, <2>2 DEF InService, TypeOK
  <2>4. hpc' = "handler" /\ UNCHANGED <<initVars, mouseVars, outbuf, command, queue,
                                        deviceVars, moves, early>>
    BY <1>1 DEF Interrupt
  <2> QED  BY <2>3, <2>4 DEF TypeOK, Answers, initVars, mouseVars, deviceVars
<1>2. CASE keyboard_handler
  <2>1. outbuf' \in [full : BOOLEAN, from : {"kbd", "aux", "ctl"}, val : 0..255]
    BY <1>2 DEF keyboard_handler, TypeOK
  <2> QED  BY <1>2, <2>1 DEF keyboard_handler, TypeOK, Answers, initVars, mouseVars, deviceVars
<1>3. CASE NoHandler
  <2>1. early' \in BOOLEAN
    BY <1>3 DEF NoHandler, TypeOK
  <2> QED  BY <1>3, <2>1 DEF NoHandler, TypeOK, Answers, initVars, mouseVars, deviceVars
<1>4. CASE mouse_handler
  <2>1. isr' \subseteq {1, 2, 12} /\ hpc' = "eoi"
    BY <1>4 DEF mouse_handler, pic8259_eoi, TypeOK
  <2>2. mouse_cycle \in 0..2 /\ ~ (mouse_cycle > 2)
    BY DEF TypeOK
  <2>3. /\ outbuf' = [outbuf EXCEPT !.full = FALSE]
        /\ mouse_byte' = [mouse_byte EXCEPT ![mouse_cycle + 1] = outbuf.val]
        /\ mouse_cycle' = NextCycle(mouse_cycle)
        /\ \/ UNCHANGED <<g_mouse_x_pos, g_mouse_y_pos, moves>>
           \/ /\ g_mouse_x_pos' = Clamp(g_mouse_x_pos + Signed(mouse_byte[2]), VGA_WIDTH)
              /\ g_mouse_y_pos' = Clamp(g_mouse_y_pos - Signed(outbuf.val), VGA_HEIGHT)
              /\ moves' = IF moves = <<>> THEN <<>> ELSE Tail(moves)
    BY <1>4, <2>2 DEF mouse_handler
  <2>4. outbuf' \in [full : BOOLEAN, from : {"kbd", "aux", "ctl"}, val : 0..255]
    BY <2>3 DEF TypeOK
  <2>5. mouse_byte' \in [1..3 -> 0..255] /\ mouse_cycle' \in 0..2
    <3>1. outbuf.val \in 0..255 /\ mouse_byte \in [1..3 -> 0..255]
      BY DEF TypeOK
    <3>2. mouse_byte' \in [1..3 -> 0..255]
      BY <2>3, <3>1
    <3>3. mouse_cycle' \in 0..2
      BY <2>2, <2>3 DEF NextCycle
    <3> QED  BY <3>2, <3>3
  <2>6. VGA_WIDTH \in Nat \ {0} /\ VGA_HEIGHT \in Nat \ {0}
    BY Ps2Assumption
  <2>7. Signed(mouse_byte[2]) \in Int /\ Signed(outbuf.val) \in Int
    <3>1. outbuf.val \in 0..255 /\ mouse_byte[2] \in 0..255
      BY DEF TypeOK
    <3>2. \A b \in 0..255 : Signed(b) \in Int
      BY DEF Signed
    <3> QED  BY <3>1, <3>2
  <2>8. /\ Clamp(g_mouse_x_pos + Signed(mouse_byte[2]), VGA_WIDTH) \in 0 .. VGA_WIDTH
        /\ Clamp(g_mouse_y_pos - Signed(outbuf.val), VGA_HEIGHT) \in 0 .. VGA_HEIGHT
    <3>1. g_mouse_x_pos \in Int /\ g_mouse_y_pos \in Int
      BY <2>6 DEF TypeOK
    <3> DEFINE dx == Signed(mouse_byte[2])
               dy == Signed(outbuf.val)
    <3>2. dx \in Int /\ dy \in Int
      BY <2>7
    <3> HIDE DEF dx, dy
    <3>3. g_mouse_x_pos + dx \in Int /\ g_mouse_y_pos - dy \in Int
      BY <3>1, <3>2
    <3>4. /\ Clamp(g_mouse_x_pos + dx, VGA_WIDTH) \in 0 .. VGA_WIDTH
          /\ Clamp(g_mouse_y_pos - dy, VGA_HEIGHT) \in 0 .. VGA_HEIGHT
      BY <2>6, <3>3, ClampTypes
    <3> QED  BY <3>4 DEF dx, dy
  <2>9. g_mouse_x_pos' \in 0 .. VGA_WIDTH /\ g_mouse_y_pos' \in 0 .. VGA_HEIGHT
    BY <2>3, <2>8 DEF TypeOK
  <2>10. moves' \in Seq(Packets)
    <3>1. moves \in Seq(Packets)
      BY DEF TypeOK
    <3>2. moves # <<>> => Tail(moves) \in Seq(Packets)
      BY <3>1, HeadTailProperties
    <3>3. moves' = moves \/ (moves # <<>> /\ moves' = Tail(moves)) \/ (moves = <<>> /\ moves' = <<>>)
      BY <2>3
    <3> QED  BY <3>1, <3>2, <3>3
  <2>11. UNCHANGED <<initVars, irq, irr, command, queue, deviceVars, early>>
    BY <1>4 DEF mouse_handler
  <2> QED  BY <2>1, <2>4, <2>5, <2>9, <2>10, <2>11
           DEF TypeOK, Answers, initVars, deviceVars
<1>5. CASE Return
  <2>1. isr' \subseteq {1, 2, 12}
    BY <1>5 DEF Return, pic8259_eoi, TypeOK
  <2> QED  BY <1>5, <2>1 DEF Return, TypeOK, Answers, initVars, mouseVars, deviceVars
<1> QED  BY <1>1, <1>2, <1>3, <1>4, <1>5 DEF isr_irq_handler

\* The devices leave what the processor holds.
LEMMA ProcessorTypes ==
  ASSUME TypeOK, Answers, UNCHANGED <<initVars, mouseVars, cpuVars, command, early>>
  PROVE  /\ Answers'
         /\ pc' \in Steps \X {"send", "wait", "read"}
         /\ status' \in 0..255 /\ registered' \in BOOLEAN
         /\ mouse_cycle' \in 0..2 /\ mouse_byte' \in [1..3 -> 0..255]
         /\ g_mouse_x_pos' \in 0 .. VGA_WIDTH /\ g_mouse_y_pos' \in 0 .. VGA_HEIGHT
         /\ hpc' \in {"none", "handler", "eoi"} /\ irq' \in {0, 1, 12}
         /\ isr' \subseteq {1, 2, 12} /\ command' \in 0..255 /\ early' \in BOOLEAN
<1>1. /\ UNCHANGED <<pc, status, registered, mouse_cycle, mouse_byte, command, early>>
      /\ UNCHANGED <<g_mouse_x_pos, g_mouse_y_pos, hpc, irq, isr>>
  BY DEF initVars, mouseVars, cpuVars
<1>2. Answers'
  BY <1>1, Zenon DEF Answers
<1>3. /\ pc' \in Steps \X {"send", "wait", "read"} /\ command' \in 0..255
      /\ mouse_cycle' \in 0..2 /\ mouse_byte' \in [1..3 -> 0..255]
  BY <1>1 DEF TypeOK
<1>5. status' \in 0..255 /\ registered' \in BOOLEAN /\ early' \in BOOLEAN
  BY <1>1, Zenon DEF TypeOK
<1>4. /\ g_mouse_x_pos' \in 0 .. VGA_WIDTH /\ g_mouse_y_pos' \in 0 .. VGA_HEIGHT
      /\ hpc' \in {"none", "handler", "eoi"} /\ irq' \in {0, 1, 12}
      /\ isr' \subseteq {1, 2, 12}
  BY <1>1, Zenon DEF TypeOK
<1> QED  BY <1>2, <1>3, <1>4, <1>5, Zenon

\* The devices keep the types.
LEMMA DeviceTypes ==
  ASSUME TypeOK, Answers,
         \/ \E d \in DOMAIN queue : Deliver(d)
         \/ \E b \in Codes : KeyEvent(b)
         \/ \E p \in Packets : Motion(p)
  PROVE  TypeOK' /\ Answers'
<1>0. queue \in Queues /\ DOMAIN queue = {"kbd", "aux", "ctl"}
  BY DEF TypeOK, Queues
<1>1. ASSUME NEW d \in DOMAIN queue, Deliver(d) PROVE TypeOK' /\ Answers'
  <2>1. /\ queue[d] \in Seq(0..255) /\ queue[d] # <<>>
        /\ outbuf' = [full |-> TRUE, from |-> d, val |-> Head(queue[d])]
        /\ queue' = [queue EXCEPT ![d] = Tail(queue[d])]
    BY <1>0, <1>1 DEF Deliver, Queues
  <2>2. Head(queue[d]) \in 0..255 /\ Tail(queue[d]) \in Seq(0..255)
    BY <2>1, HeadTailProperties
  <2>3. queue' \in Queues
    <3> DEFINE t == Tail(queue[d])
    <3>1. queue' = [queue EXCEPT ![d] = t] /\ t \in Seq(0..255)
      BY <2>1, <2>2, Zenon
    <3>2. d \in {"kbd", "aux", "ctl"}
      BY <1>0 DEF Queues
    <3> HIDE DEF t
    <3>3. [queue EXCEPT ![d] = t] \in Queues
      BY <1>0, <3>1, <3>2 DEF Queues
    <3> QED  BY <3>1, <3>3, Zenon
  <2>4. outbuf' \in [full : BOOLEAN, from : {"kbd", "aux", "ctl"}, val : 0..255]
    BY <1>0, <2>1, <2>2
  <2>5. irr' \subseteq {1, 12}
    BY <1>1, LatchTypes DEF Deliver, TypeOK
  <2>6. UNCHANGED <<command, initVars, mouseVars, cpuVars, deviceVars, moves, early>>
    BY <1>1 DEF Deliver
  <2>7. /\ streaming' \in BOOLEAN /\ keys' \in 0 .. MaxKeys
        /\ sent' \in 0 .. MaxPackets /\ moves' \in Seq(Packets)
    BY <2>6, Zenon DEF TypeOK, deviceVars
  <2>8. UNCHANGED <<initVars, mouseVars, cpuVars, command, early>>
    BY <2>6, Zenon
  <2> QED  BY <2>3, <2>4, <2>5, <2>7, <2>8, ProcessorTypes, Zenon DEF TypeOK, Queues
<1>2. ASSUME NEW b \in Codes, KeyEvent(b) PROVE TypeOK' /\ Answers'
  <2>1. b \in 0..255 /\ MaxKeys \in Nat
    BY Ps2Assumption
  <2>2. queue.kbd \in Seq(0..255)
    BY <1>0 DEF Queues
  <2>3. Append(queue.kbd, b) \in Seq(0..255)
    BY <2>1, <2>2, AppendProperties
  <2>4. queue' = [queue EXCEPT !["kbd"] = Append(queue.kbd, b)]
    BY <1>2 DEF KeyEvent
  <2>5. queue' \in Queues
    BY <1>0, <2>3, <2>4, QueueTypes
  <2>6. keys' \in 0 .. MaxKeys
    BY <1>2, <2>1 DEF KeyEvent, TypeOK
  <2>7. UNCHANGED <<initVars, mouseVars, cpuVars, irr, outbuf, command, streaming, sent,
                    moves, early>>
    BY <1>2 DEF KeyEvent
  <2>8. /\ irr' \subseteq {1, 12} /\ streaming' \in BOOLEAN
        /\ outbuf' \in [full : BOOLEAN, from : {"kbd", "aux", "ctl"}, val : 0..255]
        /\ sent' \in 0 .. MaxPackets /\ moves' \in Seq(Packets)
    BY <2>7, Zenon DEF TypeOK
  <2>9. UNCHANGED <<initVars, mouseVars, cpuVars, command, early>>
    BY <2>7, Zenon
  <2> QED  BY <2>5, <2>6, <2>8, <2>9, ProcessorTypes, Zenon DEF TypeOK, Queues
<1>3. ASSUME NEW p \in Packets, Motion(p) PROVE TypeOK' /\ Answers'
  <2>1. p \in Seq(0..255) /\ MaxPackets \in Nat
    BY AnswerTypes, Ps2Assumption
  <2>2. queue.aux \in Seq(0..255)
    BY <1>0 DEF Queues
  <2>3. queue.aux \o p \in Seq(0..255)
    BY <2>1, <2>2, ConcatProperties
  <2>4. queue' = [queue EXCEPT !["aux"] = queue.aux \o p]
    BY <1>3 DEF Motion
  <2>5. queue' \in Queues
    BY <1>0, <2>3, <2>4, QueueTypes
  <2>6. sent' \in 0 .. MaxPackets
    <3>1. sent \in 0 .. MaxPackets /\ sent' = sent + 1 /\ sent < MaxPackets
      BY <1>3 DEF Motion, TypeOK
    <3> QED  BY <2>1, <3>1
  <2>7. moves' \in Seq(Packets)
    BY <1>3, AppendProperties DEF Motion, TypeOK
  <2>8. UNCHANGED <<initVars, mouseVars, cpuVars, irr, outbuf, command, streaming, keys,
                    early>>
    BY <1>3 DEF Motion
  <2>9. /\ irr' \subseteq {1, 12} /\ streaming' \in BOOLEAN
        /\ outbuf' \in [full : BOOLEAN, from : {"kbd", "aux", "ctl"}, val : 0..255]
        /\ keys' \in 0 .. MaxKeys
    BY <2>8, Zenon DEF TypeOK
  <2>10. UNCHANGED <<initVars, mouseVars, cpuVars, command, early>>
    BY <2>8, Zenon
  <2> QED  BY <2>5, <2>6, <2>7, <2>9, <2>10, ProcessorTypes, Zenon DEF TypeOK, Queues
<1> QED  BY <1>1, <1>2, <1>3

\* The types are kept.
LEMMA TypesKept ==
  ASSUME TypeOK, Answers, [Next]_vars
  PROVE  TypeOK' /\ Answers'
<1>1. CASE UNCHANGED vars
  BY <1>1 DEF vars, initVars, mouseVars, cpuVars, deviceVars, TypeOK, Answers
<1> QED  BY <1>1, InitTypes, HandlerTypes, DeviceTypes DEF Next

(***************************************************************************)
(* Interrupts in service.                                                  *)
(***************************************************************************)

\* An end of interrupt ends what is in service for one interrupt, on both PICs.
LEMMA EndEndsAll ==
  ASSUME NEW n \in {1, 12}, NEW S \in SUBSET InService(n)
  PROVE  pic8259_eoi(S, n) = {}
<1>1. ASSUME NEW k \in Int, NEW T, T \subseteq {k}
      PROVE  First(T) = T
  <2>1. \A a, b \in T : a = k /\ b = k
    BY <1>1
  <2>2. k <= k
    OBVIOUS
  <2>3. \A a, b \in T : a <= b
    BY <2>1, <2>2, Zenon
  <2> QED  BY <2>3 DEF First
<1>2. CASE n = 1
  <2>1. S \subseteq {1}
    BY <1>2 DEF InService
  <2>2. S \cap 0..7 = S
    <3>1. \A a \in S : a \in 0..7
      BY <2>1
    <3> QED  BY <3>1, Zenon
  <2>3. First(S) = S
    <3>1. 1 \in Int
      OBVIOUS
    <3> QED  BY <1>1, <2>1, <3>1
  <2> QED  BY <2>2, <2>3, Zenon DEF pic8259_eoi
<1>3. CASE n = 12
  <2>1. S \subseteq {2, 12}
    BY <1>3 DEF InService
  <2>2. S \cap 0..7 \subseteq {2} /\ S \cap 8..15 \subseteq {12}
    <3>1. /\ \A a \in S : a \in 0..7 => a = 2
          /\ \A a \in S : a \in 8..15 => a = 12
      BY <2>1
    <3> QED  BY <3>1, Zenon
  <2>3. First(S \cap 0..7) = S \cap 0..7 /\ First(S \cap 8..15) = S \cap 8..15
    <3>1. 2 \in Int /\ 12 \in Int
      OBVIOUS
    <3> QED  BY <1>1, <2>2, <3>1
  <2>4. S \ ((S \cap 0..7) \cup (S \cap 8..15)) = {}
    <3>1. \A a \in S : a \in 0..7 \/ a \in 8..15
      BY <2>1
    <3> QED  BY <3>1, Zenon
  <2>5. n >= 8
    BY <1>3
  <2> QED  BY <2>3, <2>4, <2>5, Zenon DEF pic8259_eoi
<1> QED  BY <1>2, <1>3

\* Steps that leave the processor alone.
LEMMA ProcessorAlone ==
  ASSUME \/ mouse_init
         \/ \E d \in DOMAIN queue : Deliver(d)
         \/ \E b \in Codes : KeyEvent(b)
         \/ \E p \in Packets : Motion(p)
         \/ UNCHANGED vars
  PROVE  UNCHANGED <<hpc, irq, isr>>
BY DEF mouse_init, EnableMouse, SendToKeyboard, SendToMouse, AskCommand, WriteCommand, Wait,
       Read, Register, Deliver, KeyEvent, Motion, vars, cpuVars

\* What is in service is what is served.
LEMMA ServingKept ==
  ASSUME TypeOK, Serving, [Next]_vars
  PROVE  Serving'
<1>1. CASE UNCHANGED <<hpc, irq, isr>>
  BY <1>1 DEF Serving
<1>2. CASE Interrupt
  <2>1. PICK n \in First(Admitted) :
          hpc = "none" /\ hpc' = "handler" /\ irq' = n /\ isr' = isr \cup InService(n)
    BY <1>2 DEF Interrupt
  <2>2. n \in {1, 12}
    BY <2>1, FirstIsOne DEF Admitted, TypeOK
  <2> QED  BY <2>1, <2>2 DEF Serving
<1>3. CASE keyboard_handler \/ NoHandler
  <2>1. hpc = "handler" /\ hpc' = "eoi" /\ UNCHANGED <<irq, isr>>
    BY <1>3 DEF keyboard_handler, NoHandler
  <2> QED  BY <2>1 DEF Serving
<1>4. CASE mouse_handler
  <2>1. hpc = "handler" /\ hpc' = "eoi" /\ irq' = irq /\ isr' = pic8259_eoi(isr, irq)
    BY <1>4 DEF mouse_handler
  <2>2. irq \in {1, 12} /\ isr' = {}
    BY <2>1, EndEndsAll DEF Serving
  <2> QED  BY <2>1, <2>2 DEF Serving
<1>5. CASE Return
  <2>1. hpc = "eoi" /\ hpc' = "none" /\ isr' = pic8259_eoi(isr, irq)
    BY <1>5 DEF Return
  <2>2. isr' = {}
    BY <2>1, EndEndsAll DEF Serving
  <2> QED  BY <2>1, <2>2 DEF Serving
<1> QED  BY <1>1, <1>2, <1>3, <1>4, <1>5, ProcessorAlone DEF Next, isr_irq_handler

\* Types and interrupts in service, in every state.
LEMMA BasicAlways == Spec => [](TypeOK /\ Answers /\ Serving)
<1>1. Init => TypeOK /\ Answers /\ Serving
  <2> SUFFICES ASSUME Init PROVE TypeOK /\ Answers /\ Serving
    OBVIOUS
  <2>1. /\ VGA_WIDTH \in Nat \ 0..5 /\ VGA_HEIGHT \in Nat \ 0..2
        /\ MaxKeys \in Nat /\ MaxPackets \in Nat /\ BootCommand \in 0..255
    BY Ps2Assumption, Zenon
  <2>2. g_mouse_x_pos \in 0 .. VGA_WIDTH /\ g_mouse_y_pos \in 0 .. VGA_HEIGHT
    BY <2>1 DEF Init
  <2>3. keys \in 0 .. MaxKeys /\ sent \in 0 .. MaxPackets
    BY <2>1 DEF Init
  <2>4. queue \in [{"kbd", "aux", "ctl"} -> Seq(0..255)]
    <3> DEFINE w == [kbd |-> <<>>, aux |-> <<>>, ctl |-> <<>>]
    <3>1. <<>> \in Seq(0..255)
      OBVIOUS
    <3>2. DOMAIN w = {"kbd", "aux", "ctl"}
      OBVIOUS
    <3>3. w["kbd"] = <<>> /\ w["aux"] = <<>> /\ w["ctl"] = <<>>
      OBVIOUS
    <3>4. w = [d \in DOMAIN w |-> w[d]]
      OBVIOUS
    <3>5. queue = w
      BY DEF Init
    <3> HIDE DEF w
    <3>6. \A d \in DOMAIN w : w[d] \in Seq(0..255)
      BY <3>1, <3>2, <3>3
    <3> QED  BY <3>2, <3>4, <3>5, <3>6
  <2>5. /\ outbuf \in [full : BOOLEAN, from : {"kbd", "aux", "ctl"}, val : 0..255]
        /\ mouse_byte \in [1..3 -> 0..255]
    BY DEF Init
  <2>6. pc \in Steps \X {"send", "wait", "read"}
    BY DEF Init, Steps
  <2>7. /\ status \in 0..255 /\ registered \in BOOLEAN /\ mouse_cycle \in 0..2
        /\ hpc = "none" /\ irq = 0 /\ irr = {} /\ isr = {} /\ command \in 0..255
        /\ streaming \in BOOLEAN /\ moves \in Seq(Packets) /\ early \in BOOLEAN
        /\ pc[2] = "send"
    <3>1. streaming \in BOOLEAN /\ early \in BOOLEAN /\ registered \in BOOLEAN
      BY DEF Init
    <3>2. <<>> \in Seq(Packets)
      OBVIOUS
    <3>3. status = 0 /\ mouse_cycle = 0 /\ pc[2] = "send"
      BY DEF Init
    <3> QED  BY <2>1, <3>1, <3>2, <3>3 DEF Init
  <2>8. TypeOK
    BY <2>2, <2>3, <2>4, <2>5, <2>6, <2>7 DEF TypeOK
  <2> QED  BY <2>7, <2>8 DEF Answers, Serving
<1>2. TypeOK /\ Answers /\ Serving /\ [Next]_vars => (TypeOK /\ Answers /\ Serving)'
  BY TypesKept, ServingKept
<1> QED  BY <1>1, <1>2, PTL DEF Spec

\* The variables keep their types: the pointer stays on the screen or just past its edge,
\* whatever the mouse sends.
THEOREM TypeCorrect == Spec => []TypeOK
BY BasicAlways, PTL

\* Every interrupt that is taken is ended, by its own ends of interrupt, on both PICs.
THEOREM InterruptsAreEnded == Spec => []InterruptsEnded
<1>1. TypeOK /\ Serving => InterruptsEnded
  BY DEF TypeOK, Serving, InterruptsEnded
<1> QED  BY <1>1, BasicAlways, PTL

(***************************************************************************)
(* The interrupts, if one is taken before kmain's next port access.        *)
(***************************************************************************)

\* kmain runs only when nothing is requested.
LEMMA Quiet ==
  ASSUME Prompt, Serving, Runs
  PROVE  hpc = "none" /\ irr = {}
<1>1. hpc = "none" /\ isr = {} /\ Admitted = {}
  BY DEF Runs, Serving
<1>2. Admitted = irr
  BY <1>1, Zenon DEF Admitted
<1> QED  BY <1>1, <1>2

\* A line is high for the byte that is in the buffer.
LEMMA LinesOwn ==
  ASSUME NEW b, NEW m, NEW n \in Lines(b, m)
  PROVE  b.full /\ (b.from = "aux" <=> n = 12)
BY DEF Lines

\* A handler is called for the byte that is in the buffer.
LEMMA OwnKept ==
  ASSUME Prompt, TypeOK, Serving, Own, [Next]_vars
  PROVE  Own'
<1>1. CASE mouse_init
  <2>1. Runs /\ UNCHANGED <<hpc, irq>>
    BY <1>1, ProcessorAlone
       DEF mouse_init, EnableMouse, SendToKeyboard, SendToMouse, AskCommand, WriteCommand,
           Wait, Read, Register
  <2>2. hpc' = "none" /\ irr = {}
    BY <2>1, Quiet
  <2>3. irr' = irr \/ Latch
    BY <1>1
       DEF mouse_init, EnableMouse, SendToKeyboard, SendToMouse, AskCommand, WriteCommand,
           Wait, Read, Register
  <2>4. irr' \subseteq Lines(outbuf', command')
    BY <2>2, <2>3 DEF Latch
  <2> QED  BY <2>2, <2>4, LinesOwn DEF Own
<1>2. ASSUME NEW d \in DOMAIN queue, Deliver(d) PROVE Own'
  <2>1. ~ outbuf.full /\ Latch /\ UNCHANGED <<hpc, irq>>
    BY <1>2 DEF Deliver, cpuVars
  <2>2. irr = {} /\ hpc # "handler"
    BY <2>1 DEF Own
  <2>3. irr' \subseteq Lines(outbuf', command')
    BY <2>1, <2>2 DEF Latch
  <2> QED  BY <2>1, <2>2, <2>3, LinesOwn DEF Own
<1>3. CASE Interrupt
  <2>1. PICK n \in irr : irq' = n /\ irr' = irr \ {n}
    BY <1>3, FirstIsOne DEF Interrupt, Admitted
  <2>2. hpc' = "handler" /\ UNCHANGED outbuf /\ irr \subseteq {1, 12}
    BY <1>3 DEF Interrupt, TypeOK
  <2>3. irr' = {}
    BY <2>1, <2>2 DEF Own
  <2> QED  BY <2>1, <2>2, <2>3 DEF Own
<1>4. CASE keyboard_handler \/ NoHandler \/ mouse_handler
  <2>1. hpc = "handler" /\ hpc' = "eoi" /\ UNCHANGED irr
    BY <1>4 DEF keyboard_handler, NoHandler, mouse_handler
  <2> QED  BY <2>1 DEF Own
<1>5. CASE Return
  <2>1. hpc' = "none" /\ UNCHANGED <<irr, outbuf>>
    BY <1>5 DEF Return
  <2> QED  BY <2>1 DEF Own
<1>6. CASE \/ \E b \in Codes : KeyEvent(b)
           \/ \E p \in Packets : Motion(p)
           \/ UNCHANGED vars
  <2>1. UNCHANGED <<hpc, irq, irr, outbuf>>
    BY <1>6 DEF KeyEvent, Motion, vars, cpuVars
  <2> QED  BY <2>1 DEF Own
<1> QED  BY <1>1, <1>2, <1>3, <1>4, <1>5, <1>6 DEF Next, isr_irq_handler

\* If an interrupt is taken before kmain's next port access, each handler finds the byte of
\* its own device: no scan code gets into a packet, no byte of a packet is taken for a scan
\* code, and keyboard_handler never waits with the interrupts off.
THEOREM HandlersFindTheirByte ==
  ASSUME Prompt
  PROVE  Spec => []HandlersReadOwnByte
<1>1. Init => Own
  BY DEF Init, Own
<1>2. TypeOK /\ Serving /\ Own /\ [Next]_vars => Own'
  BY OwnKept
<1>3. Own => HandlersReadOwnByte
  BY DEF Own, HandlersReadOwnByte
<1> QED  BY <1>1, <1>2, <1>3, BasicAlways, PTL DEF Spec

(***************************************************************************)
(* Bytes and packets.                                                      *)
(***************************************************************************)

\* The k-th byte of the packets m.
Byte(m, k) == m[((k - 1) \div 3) + 1][((k - 1) % 3) + 1]

\* The bytes s are a acknowledgements and the packets m, but for c bytes that are in b.
Follows(s, c, b, m, a) ==
  /\ c + Len(s) = a + 3 * Len(m)
  /\ \A k \in 1 .. c : b[k] = Byte(m, k)
  /\ \A k \in 1 .. Len(s) : s[k] = IF k <= a THEN MOUSE_ACKNOWLEDGE
                                   ELSE Byte(m, c + k - a)

\* Where the bytes of a packet are.
LEMMA ByteIndex ==
  ASSUME NEW n \in Nat, NEW i \in 1..3
  PROVE  (((3 * n + i) - 1) \div 3) + 1 = n + 1 /\ (((3 * n + i) - 1) % 3) + 1 = i
OBVIOUS

\* Each byte is one of a packet.
LEMMA ByteOfPacket ==
  ASSUME NEW n \in Nat, NEW k \in 1 .. 3 * n
  PROVE  ((k - 1) \div 3) + 1 \in 1 .. n /\ ((k - 1) % 3) + 1 \in 1 .. 3
OBVIOUS

\* A packet that is added leaves the bytes before it.
LEMMA BytesBefore ==
  ASSUME NEW m \in Seq(Packets), NEW p \in Packets, NEW k \in 1 .. 3 * Len(m)
  PROVE  Byte(Append(m, p), k) = Byte(m, k)
<1>1. Len(m) \in Nat
  OBVIOUS
<1>2. ((k - 1) \div 3) + 1 \in 1 .. Len(m)
  BY <1>1, ByteOfPacket
<1>3. \A j \in 1 .. Len(m) : Append(m, p)[j] = m[j]
  OBVIOUS
<1> QED  BY <1>2, <1>3 DEF Byte

\* The bytes without the first packet.
LEMMA BytesAfter ==
  ASSUME NEW m \in Seq(Packets), m # <<>>, NEW k \in 1 .. 3 * Len(Tail(m))
  PROVE  Byte(Tail(m), k) = Byte(m, k + 3)
<1>1. Len(Tail(m)) \in Nat /\ \A j \in 1 .. Len(Tail(m)) : Tail(m)[j] = m[j + 1]
  BY HeadTailProperties
<1>2. ((k - 1) \div 3) + 1 \in 1 .. Len(Tail(m))
  BY <1>1, ByteOfPacket
<1>3. /\ ((k + 3 - 1) \div 3) + 1 = (((k - 1) \div 3) + 1) + 1
      /\ ((k + 3 - 1) % 3) + 1 = ((k - 1) % 3) + 1
  <2>1. k \in Int
    BY <1>1
  <2> QED  BY <2>1
<1> QED  BY <1>1, <1>2, <1>3 DEF Byte

\* A packet is three bytes.
LEMMA PacketBytes ==
  ASSUME NEW p \in Packets
  PROVE  p \in Seq(0..255) /\ Len(p) = 3
<1>1. p \in Seq(0..255)
  BY AnswerTypes
<1>2. p \in (0..255) \X (0..255) \X (0..255)
  BY Ps2Assumption, Zenon
<1>3. Len(p) = 3
  BY <1>2
<1> QED  BY <1>1, <1>3

\* A motion adds its packet behind the bytes.
LEMMA FollowsMotion ==
  ASSUME NEW s \in Seq(0..255), NEW c \in 0..2, NEW b, NEW m \in Seq(Packets),
         NEW a \in {0, 1}, c = 0 \/ a = 0, NEW p \in Packets, Follows(s, c, b, m, a)
  PROVE  Follows(s \o p, c, b, Append(m, p), a)
<1> DEFINE n == Len(m)
<1>1. /\ n \in Nat /\ Len(s) \in Nat /\ c + Len(s) = a + 3 * n
      /\ \A k \in 1 .. c : b[k] = Byte(m, k)
      /\ \A k \in 1 .. Len(s) : s[k] = IF k <= a THEN MOUSE_ACKNOWLEDGE
                                       ELSE Byte(m, c + k - a)
  BY DEF Follows
<1>2. p \in Seq(0..255) /\ Len(p) = 3
  BY PacketBytes
<1>3. /\ Len(s \o p) = Len(s) + 3
      /\ \A k \in 1 .. Len(s) + 3 : (s \o p)[k] = IF k <= Len(s) THEN s[k] ELSE p[k - Len(s)]
  <2>1. /\ Len(s \o p) = Len(s) + Len(p)
        /\ \A k \in 1 .. Len(s) + Len(p) :
              (s \o p)[k] = IF k <= Len(s) THEN s[k] ELSE p[k - Len(s)]
    <3>1. s \in Seq(0..255) /\ p \in Seq(0..255)
      BY <1>2
    <3> HIDE DEF n
    <3> QED  BY <3>1, ConcatParts, Zenon
  <2> QED  BY <1>2, <2>1
<1>4. Len(Append(m, p)) = n + 1 /\ Append(m, p)[n + 1] = p
  BY AppendProperties
<1>5. \A k \in 1 .. c : b[k] = Byte(Append(m, p), k)
  <2> SUFFICES ASSUME NEW k \in 1 .. c PROVE b[k] = Byte(Append(m, p), k)
    OBVIOUS
  <2>1. k \in 1 .. 3 * Len(m)
    <3> HIDE DEF n
    <3>1. k \in 1 .. 3 * n
      BY <1>1
    <3> QED  BY <3>1 DEF n
  <2> QED  BY <1>1, <2>1, BytesBefore
<1>6. ASSUME NEW k \in 1 .. Len(s) + 3
      PROVE  (s \o p)[k] = IF k <= a THEN MOUSE_ACKNOWLEDGE
                           ELSE Byte(Append(m, p), c + k - a)
  <2>1. CASE k <= Len(s)
    <3>1. (s \o p)[k] = IF k <= a THEN MOUSE_ACKNOWLEDGE ELSE Byte(m, c + k - a)
      BY <1>1, <1>3, <2>1
    <3>2. k > a => c + k - a \in 1 .. 3 * Len(m)
      <4> HIDE DEF n
      <4>1. k > a => c + k - a \in 1 .. 3 * n
        BY <1>1, <2>1
      <4> QED  BY <4>1 DEF n
    <3> QED  BY <1>1, <3>1, <3>2, BytesBefore
  <2>2. CASE k > Len(s)
    <3> DEFINE i == k - Len(s)
    <3>1. (s \o p)[k] = p[i]
      BY <1>1, <1>3, <2>2
    <3>2. i \in 1..3 /\ k > a /\ c + k - a = 3 * n + i
      <4> DEFINE l == Len(s)
      <4>1. n \in Nat /\ l \in Nat /\ c + l = a + 3 * n /\ k \in 1 .. l + 3 /\ k > l
        BY <1>1, <2>2
      <4> HIDE DEF n, l
      <4>2. k - l \in 1..3 /\ k > a /\ c + k - a = 3 * n + (k - l)
        BY <4>1
      <4> QED  BY <4>2 DEF l
    <3> HIDE DEF i, n
    <3>3. Byte(Append(m, p), 3 * n + i) = Append(m, p)[n + 1][i]
      <4>1. (((3 * n + i) - 1) \div 3) + 1 = n + 1 /\ (((3 * n + i) - 1) % 3) + 1 = i
        BY <1>1, <3>2, ByteIndex
      <4> QED  BY <4>1 DEF Byte
    <3> QED  BY <1>4, <3>1, <3>2, <3>3
  <2>3. k <= Len(s) \/ k > Len(s)
    BY <1>1
  <2> QED  BY <2>1, <2>2, <2>3
<1>7. c + Len(s \o p) = a + 3 * Len(Append(m, p))
  <2> HIDE DEF n
  <2> QED  BY <1>1, <1>3, <1>4
<1> QED  BY <1>3, <1>5, <1>6, <1>7 DEF Follows

\* An answer comes when there is nothing before it.
LEMMA FollowsAnswer ==
  ASSUME NEW b
  PROVE  Follows(<<MOUSE_ACKNOWLEDGE>>, 0, b, <<>>, 1)
BY DEF Follows

\* mouse_init takes the answer that comes first.
LEMMA FollowsAcknowledged ==
  ASSUME NEW s \in Seq(0..255), NEW b, NEW m \in Seq(Packets), s # <<>>,
         Follows(s, 0, b, m, 1)
  PROVE  Follows(Tail(s), 0, b, m, 0)
<1>1. Len(s) \in Nat /\ Len(s) >= 1
  OBVIOUS
<1>2. Len(Tail(s)) = Len(s) - 1 /\ \A k \in 1 .. Len(s) - 1 : Tail(s)[k] = s[k + 1]
  BY HeadTailProperties
<1>3. Len(m) \in Nat
  OBVIOUS
<1>4. Len(s) = 1 + 3 * Len(m)
  BY <1>1, <1>3 DEF Follows
<1>5. ASSUME NEW k \in 1 .. Len(Tail(s)) PROVE Tail(s)[k] = Byte(m, k)
  <2>1. k + 1 \in 1 .. Len(s) /\ k \in Int /\ ~ (k + 1 <= 1) /\ 0 + (k + 1) - 1 = k
    BY <1>1, <1>2
  <2>2. s[k + 1] = Byte(m, 0 + (k + 1) - 1)
    BY <2>1 DEF Follows
  <2> QED  BY <1>1, <1>2, <2>1, <2>2
<1> QED  BY <1>1, <1>2, <1>3, <1>4, <1>5 DEF Follows

\* The next byte: it is one of the packets, and it is counted.
LEMMA FollowsByte ==
  ASSUME NEW s \in Seq(0..255), NEW c \in 0..2, NEW b \in [1..3 -> 0..255],
         NEW m \in Seq(Packets), s # <<>>, Follows(s, c, b, m, 0)
  PROVE  /\ m # <<>>
         /\ \A k \in 1 .. c : b[k] = Head(m)[k]
         /\ Head(s) = Head(m)[c + 1]
         /\ c < 2 => Follows(Tail(s), c + 1, [b EXCEPT ![c + 1] = Head(s)], m, 0)
         /\ c = 2 => \A d : Follows(Tail(s), 0, d, Tail(m), 0)
<1>1. /\ Len(s) \in Nat /\ Len(s) >= 1 /\ Len(m) \in Nat
      /\ c + Len(s) = 0 + 3 * Len(m)
      /\ \A k \in 1 .. c : b[k] = Byte(m, k)
      /\ \A k \in 1 .. Len(s) : s[k] = IF k <= 0 THEN MOUSE_ACKNOWLEDGE ELSE Byte(m, c + k - 0)
  BY DEF Follows
<1>2. \A k \in 1 .. Len(s) : s[k] = Byte(m, c + k)
  <2> SUFFICES ASSUME NEW k \in 1 .. Len(s) PROVE s[k] = Byte(m, c + k)
    OBVIOUS
  <2>1. ~ (k <= 0) /\ c + k - 0 = c + k
    BY <1>1
  <2> QED  BY <1>1, <2>1
<1>3. Len(m) >= 1
  BY <1>1
<1>4. m # <<>> /\ Head(m) = m[1] /\ Head(s) = s[1]
  BY <1>1, <1>3
<1>5. \A k \in 1..3 : Byte(m, k) = Head(m)[k]
  <2>1. ASSUME NEW k \in 1..3
        PROVE  ((k - 1) \div 3) + 1 = 1 /\ ((k - 1) % 3) + 1 = k
    <3>1. 0 \in Nat /\ (3 * 0 + k) - 1 = k - 1 /\ 0 + 1 = 1
      OBVIOUS
    <3>2. (((3 * 0 + k) - 1) \div 3) + 1 = 0 + 1 /\ (((3 * 0 + k) - 1) % 3) + 1 = k
      BY <3>1, ByteIndex
    <3> QED  BY <3>1, <3>2
  <2> QED  BY <1>4, <2>1 DEF Byte
<1>6. Head(s) = Byte(m, c + 1)
  BY <1>1, <1>2, <1>4
<1>7. /\ \A k \in 1 .. c : b[k] = Head(m)[k]
      /\ Head(s) = Head(m)[c + 1]
  <2>1. c + 1 \in 1..3 /\ \A k \in 1 .. c : k \in 1..3
    OBVIOUS
  <2> QED  BY <1>1, <1>5, <1>6, <2>1
<1>8. Len(Tail(s)) = Len(s) - 1 /\ \A k \in 1 .. Len(s) - 1 : Tail(s)[k] = s[k + 1]
  BY <1>1, HeadTailProperties
<1>9. \A k \in 1 .. Len(s) - 1 : Tail(s)[k] = Byte(m, c + k + 1)
  <2> SUFFICES ASSUME NEW k \in 1 .. Len(s) - 1 PROVE Tail(s)[k] = Byte(m, c + k + 1)
    OBVIOUS
  <2>1. k + 1 \in 1 .. Len(s) /\ c + (k + 1) = c + k + 1
    BY <1>1
  <2> QED  BY <1>2, <1>8, <2>1
<1>10. ASSUME c < 2
       PROVE  Follows(Tail(s), c + 1, [b EXCEPT ![c + 1] = Head(s)], m, 0)
  <2> DEFINE e == [b EXCEPT ![c + 1] = Head(s)]
  <2>1. (c + 1) + Len(Tail(s)) = 0 + 3 * Len(m)
    BY <1>1, <1>8
  <2>2. \A k \in 1 .. c + 1 : e[k] = Byte(m, k)
    <3>1. \A k \in 1 .. c + 1 : k \in 1..3 /\ (k = c + 1 \/ (k \in 1 .. c /\ k # c + 1))
      BY <1>10
    <3> QED  BY <1>1, <1>6, <3>1
  <2>3. ASSUME NEW k \in 1 .. Len(Tail(s))
        PROVE  Tail(s)[k] = IF k <= 0 THEN MOUSE_ACKNOWLEDGE ELSE Byte(m, (c + 1) + k - 0)
    <3>1. k \in 1 .. Len(s) - 1 /\ ~ (k <= 0) /\ (c + 1) + k - 0 = c + k + 1
      BY <1>1, <1>8
    <3> QED  BY <1>9, <3>1
  <2> HIDE DEF e
  <2>4. Follows(Tail(s), c + 1, e, m, 0)
    BY <2>1, <2>2, <2>3 DEF Follows
  <2> QED  BY <2>4 DEF e
<1>11. ASSUME c = 2, NEW d PROVE Follows(Tail(s), 0, d, Tail(m), 0)
  <2>1. Len(Tail(m)) = Len(m) - 1
    BY <1>4, TailLength, Zenon
  <2>2. 0 + Len(Tail(s)) = 0 + 3 * Len(Tail(m))
    <3> DEFINE n == Len(m)
               l == Len(s)
    <3>1. n \in Nat /\ l \in Nat /\ 2 + l = 0 + 3 * n
      BY <1>1, <1>11
    <3> HIDE DEF n, l
    <3>2. 0 + (l - 1) = 0 + 3 * (n - 1)
      BY <3>1
    <3> QED  BY <1>8, <2>1, <3>2 DEF n, l
  <2>3. ASSUME NEW k \in 1 .. Len(Tail(s))
        PROVE  Tail(s)[k] = IF k <= 0 THEN MOUSE_ACKNOWLEDGE ELSE Byte(Tail(m), 0 + k - 0)
    <3>1. k \in 1 .. Len(s) - 1 /\ ~ (k <= 0) /\ 0 + k - 0 = k /\ c + k + 1 = k + 3
      BY <1>1, <1>8, <1>11
    <3>3. k \in 1 .. 3 * Len(Tail(m))
      <4>1. Len(Tail(s)) = 3 * Len(Tail(m))
        <5>1. Len(Tail(m)) \in Nat /\ Len(Tail(s)) \in Nat
          BY <1>1, <1>4, HeadTailProperties
        <5> QED  BY <2>2, <5>1
      <4> QED  BY <4>1
    <3>2. Byte(Tail(m), k) = Byte(m, k + 3)
      BY <1>4, <3>3, BytesAfter
    <3> QED  BY <1>9, <3>1, <3>2
  <2> QED  BY <2>2, <2>3 DEF Follows
<1> QED  BY <1>4, <1>7, <1>10, <1>11

(***************************************************************************)
(* The invariant of the bytes.                                             *)
(***************************************************************************)

\* The firmware leaves the keyboard on and its interrupt enabled, no key's scan code is the
\* mouse's answer, and the two assumptions about time.
Usual == /\ Prompt /\ Timely
         /\ Bit(BootCommand, 0) /\ ~ Bit(BootCommand, 4)
         /\ MOUSE_ACKNOWLEDGE \notin Codes

\* The buffer holds a byte of the mouse.
FromMouse == outbuf.full /\ outbuf.from = "aux"

\* The bytes of the mouse that nobody has taken yet.
Flying == IF FromMouse THEN <<outbuf.val>> \o queue.aux ELSE queue.aux

\* The mouse's answer that mouse_init has not taken yet.
Owed == IF pc[1] \in {"defaults", "stream"} /\ pc[2] # "send" THEN 1 ELSE 0

\* What the mouse said and nobody has taken: an answer at most, and the packets.
InOrder == pc[1] # "failed" => Follows(Flying, mouse_cycle, mouse_byte, moves, Owed)

\* Where mouse_init is before it has written the command byte.
BeforeMouse == {"enable", "id", "rate", "rate_data", "read_command", "write_command"}

\* Until then the keyboard and its interrupt stay on,
KeyboardServed == pc[1] \in BeforeMouse => Bit(command, 0) /\ ~ Bit(command, 4)

\* and where they are on, a byte that is not the mouse's is asked for.
Requested == outbuf.full /\ outbuf.from # "aux" /\ Bit(command, 0) =>
               1 \in irr \/ (hpc = "handler" /\ irq = 1)

\* No byte that is not the mouse's reads as the mouse's answer,
NoAnswer == /\ \A k \in 1 .. Len(queue.kbd) : queue.kbd[k] # MOUSE_ACKNOWLEDGE
            /\ outbuf.full /\ outbuf.from # "aux" => outbuf.val # MOUSE_ACKNOWLEDGE

\* unless mouse_init waits for the keyboard's answers.
KeysOnly == ~ (pc[1] \in {"id", "rate", "rate_data"} /\ pc[2] = "wait") => NoAnswer

\* The controller answers one question.
Controller == queue.ctl = <<>> \/ (pc = <<"read_command", "wait">> /\ queue.ctl = <<command>>)

\* From there on the buffer reads as the mouse's answer only if it holds that.
LastRead ==
  /\ pc = <<"read_command", "wait">> => queue.ctl # <<>> \/ outbuf.val # MOUSE_ACKNOWLEDGE
  /\ pc \in {<<"read_command", "read">>, <<"write_command", "send">>, <<"defaults", "send">>}
       => outbuf.val # MOUSE_ACKNOWLEDGE
  /\ pc[1] = "defaults" => outbuf.val # MOUSE_ACKNOWLEDGE \/ FromMouse

\* A mouse that spoke is on, and it spoke when it was set up.
MouseOn == FromMouse \/ pc[1] \in {"stream", "register", "done"} => ~ Bit(command, 5)

\* The last answer is read from a buffer that nobody else empties.
AnswerThere == pc = <<"stream", "read">> => /\ outbuf.full /\ 1 \notin irr
                                            /\ ~ (hpc = "handler" /\ irq = 1)

\* The handler and the packets come last.
Stage == /\ registered => pc[1] = "done"
         /\ ~ registered => mouse_cycle = 0
         /\ ~ streaming => moves = <<>>
         /\ streaming => \/ pc[1] \in {"register", "done", "failed"}
                         \/ pc[1] = "stream" /\ pc[2] # "send"

\* The conjuncts that only the driver's state, the buffer and the queues are in.
Data == KeyboardServed /\ KeysOnly /\ Controller /\ LastRead /\ MouseOn /\ Stage /\ InOrder

IInv == TypeOK /\ Answers /\ Serving /\ Own /\ Data /\ Requested /\ AnswerThere

\* The bytes of the mouse, as the buffer and the queue hold them.
LEMMA FlyingBytes ==
  ASSUME TypeOK
  PROVE  /\ queue.aux \in Seq(0..255) /\ Flying \in Seq(0..255)
         /\ FromMouse => /\ Flying # <<>> /\ Len(Flying) = Len(queue.aux) + 1
                         /\ Head(Flying) = outbuf.val /\ Tail(Flying) = queue.aux
<1>1. queue.aux \in Seq(0..255) /\ outbuf.val \in 0..255
  BY DEF TypeOK
<1>2. <<outbuf.val>> \in Seq(0..255)
  BY <1>1
<1> DEFINE s == <<outbuf.val>> \o queue.aux
<1>3. /\ s \in Seq(0..255) /\ Len(s) = Len(queue.aux) + 1
      /\ s # <<>> /\ Head(s) = outbuf.val /\ Tail(s) = queue.aux
  <2>1. /\ s \in Seq(0..255) /\ Len(s) = 1 + Len(queue.aux)
        /\ \A k \in 1 .. 1 + Len(queue.aux) :
              s[k] = IF k <= 1 THEN <<outbuf.val>>[k] ELSE queue.aux[k - 1]
    BY <1>1, <1>2, ConcatProperties
  <2>2. Len(queue.aux) \in Nat
    BY <1>1
  <2> HIDE DEF s
  <2>3. s # <<>> /\ Len(s) = Len(queue.aux) + 1 /\ Head(s) = outbuf.val
    BY <2>1, <2>2
  <2>4. /\ Tail(s) \in Seq(0..255) /\ Len(Tail(s)) = Len(queue.aux)
        /\ \A k \in 1 .. Len(queue.aux) : Tail(s)[k] = s[k + 1]
    BY <2>1, <2>2, <2>3, HeadTailProperties
  <2>5. \A k \in 1 .. Len(queue.aux) : s[k + 1] = queue.aux[k]
    <3> SUFFICES ASSUME NEW k \in 1 .. Len(queue.aux) PROVE s[k + 1] = queue.aux[k]
      OBVIOUS
    <3>1. k + 1 \in 1 .. 1 + Len(queue.aux) /\ ~ (k + 1 <= 1) /\ (k + 1) - 1 = k
      BY <2>2
    <3> QED  BY <2>1, <3>1
  <2>6. Tail(s) = queue.aux
    BY <1>1, <2>4, <2>5, SeqEqual
  <2> QED  BY <2>1, <2>3, <2>6
<1> HIDE DEF s
<1> QED  BY <1>1, <1>3 DEF Flying, s

\* The mouse says nothing before it is spoken to.
LEMMA MouseSilent ==
  ASSUME TypeOK, Stage, InOrder,
         pc[1] \in BeforeMouse \/ pc \in {<<"defaults", "send">>, <<"stream", "send">>}
  PROVE  /\ ~ FromMouse /\ queue.aux = <<>> /\ moves = <<>> /\ mouse_cycle = 0
         /\ ~ registered /\ ~ streaming
<1>1. ~ registered /\ ~ streaming /\ moves = <<>> /\ mouse_cycle = 0
  BY DEF Stage, BeforeMouse
<1>2. Owed = 0 /\ pc[1] # "failed"
  BY DEF Owed, BeforeMouse
<1>3. 0 + Len(Flying) = 0 + 3 * Len(<<>>)
  BY <1>1, <1>2 DEF InOrder, Follows
<1>4. Len(Flying) = 0
  <2>1. Len(Flying) \in Nat /\ Len(<<>>) = 0
    BY FlyingBytes
  <2> QED  BY <1>3, <2>1
<1>5. ~ FromMouse
  <2>1. FromMouse => Len(Flying) = Len(queue.aux) + 1 /\ Len(queue.aux) \in Nat
    BY FlyingBytes
  <2> QED  BY <1>4, <2>1
<1>6. queue.aux = <<>>
  <2>1. Flying = queue.aux /\ queue.aux \in Seq(0..255)
    BY <1>5, FlyingBytes DEF Flying
  <2> QED  BY <1>4, <2>1, EmptySeq
<1> QED  BY <1>1, <1>5, <1>6

(***************************************************************************)
(* The handlers and the devices keep the invariant of the bytes.           *)
(***************************************************************************)

\* A step that leaves the driver's state, the buffer and the queues alone.
LEMMA DataSame ==
  ASSUME Data,
         UNCHANGED <<pc, registered, mouse_cycle, mouse_byte, outbuf, command, queue, streaming,
                     moves>>
  PROVE  Data'
BY DEF Data, KeyboardServed, KeysOnly, NoAnswer, Controller, LastRead, MouseOn, Stage, InOrder,
       FromMouse, Flying, Owed

\* An interrupt is taken, finds no handler, or returns.
LEMMA ProcessorKeeps ==
  ASSUME IInv, Interrupt \/ NoHandler \/ Return
  PROVE  (Data /\ Requested /\ AnswerThere)'
<1>1. UNCHANGED <<pc, registered, mouse_cycle, mouse_byte, outbuf, command, queue, streaming,
                  moves>>
  BY DEF Interrupt, NoHandler, Return, initVars, mouseVars, deviceVars
<1>2. Data'
  BY <1>1, DataSame DEF IInv
<1>3. CASE Interrupt
  <2>1. PICK n \in irr : irq' = n /\ irr' = irr \ {n}
    BY <1>3, FirstIsOne DEF Interrupt, Admitted
  <2>2. hpc = "none" /\ hpc' = "handler"
    BY <1>3 DEF Interrupt
  <2>3. Requested'
    <3> SUFFICES ASSUME outbuf.full, outbuf.from # "aux", Bit(command, 0)
                 PROVE  1 \in irr' \/ (hpc' = "handler" /\ irq' = 1)
      BY <1>1 DEF Requested
    <3>1. 1 \in irr
      BY <2>2 DEF IInv, Requested
    <3> QED  BY <2>1, <2>2, <3>1
  <2>4. AnswerThere'
    BY <1>1, <2>1 DEF IInv, AnswerThere
  <2> QED  BY <1>2, <2>3, <2>4
<1>4. CASE NoHandler
  <2>1. irq = 12 /\ irr' = irr /\ irq' = irq
    BY <1>4 DEF NoHandler
  <2>2. Requested' /\ AnswerThere'
    BY <1>1, <2>1 DEF IInv, Requested, AnswerThere
  <2> QED  BY <1>2, <2>2
<1>5. CASE Return
  <2>1. hpc = "eoi" /\ hpc' = "none" /\ irr' = irr
    BY <1>5 DEF Return
  <2>2. Requested' /\ AnswerThere'
    BY <1>1, <2>1 DEF IInv, Requested, AnswerThere
  <2> QED  BY <1>2, <2>2
<1> QED  BY <1>3, <1>4, <1>5

\* keyboard_handler takes a byte that is not the mouse's.
LEMMA KeyboardKeeps ==
  ASSUME IInv, keyboard_handler
  PROVE  (Data /\ Requested /\ AnswerThere)'
<1> TypeOK /\ Own /\ Data /\ AnswerThere
  BY DEF IInv
<1>1. /\ hpc = "handler" /\ irq = 1 /\ hpc' = "eoi"
      /\ outbuf' = [outbuf EXCEPT !.full = FALSE]
      /\ UNCHANGED <<pc, registered, mouse_cycle, mouse_byte, irr, command, queue, streaming,
                     moves>>
  BY DEF keyboard_handler, initVars, mouseVars, deviceVars
<1>2. ~ FromMouse
  BY <1>1 DEF Own, FromMouse
<1>3. outbuf'.full = FALSE /\ outbuf'.from = outbuf.from /\ outbuf'.val = outbuf.val
  BY <1>1 DEF TypeOK
<1>4. ~ FromMouse' /\ Flying' = Flying /\ Owed' = Owed
  BY <1>1, <1>2, <1>3 DEF FromMouse, Flying, Owed
<1>5. KeyboardServed' /\ KeysOnly' /\ Controller' /\ Stage'
  BY <1>1, <1>3 DEF Data, KeyboardServed, KeysOnly, NoAnswer, Controller, Stage
<1>6. LastRead' /\ MouseOn' /\ InOrder'
  BY <1>1, <1>2, <1>3, <1>4 DEF Data, LastRead, MouseOn, InOrder
<1>7. Requested' /\ AnswerThere'
  BY <1>1, <1>3 DEF Requested, AnswerThere
<1> QED  BY <1>5, <1>6, <1>7 DEF Data

\* mouse_handler takes the next byte of the mouse, and the last one of a packet with it.
LEMMA MouseKeeps ==
  ASSUME IInv, mouse_handler
  PROVE  (Data /\ Requested /\ AnswerThere)'
<1> TypeOK /\ Own /\ Data
  BY DEF IInv
<1>1. /\ hpc = "handler" /\ irq = 12 /\ registered /\ hpc' = "eoi"
      /\ UNCHANGED <<pc, registered, irq, irr, command, queue, streaming>>
  BY DEF mouse_handler, initVars, deviceVars
<1>2. mouse_cycle \in 0..2 /\ ~ (mouse_cycle > 2)
  BY DEF TypeOK
<1>3. /\ outbuf' = [outbuf EXCEPT !.full = FALSE]
      /\ mouse_byte' = [mouse_byte EXCEPT ![mouse_cycle + 1] = outbuf.val]
      /\ mouse_cycle' = IF mouse_cycle = 2 THEN 0 ELSE mouse_cycle + 1
      /\ mouse_cycle < 2 => UNCHANGED moves
      /\ ~ (mouse_cycle < 2) => moves' = IF moves = <<>> THEN <<>> ELSE Tail(moves)
  BY <1>2 DEF mouse_handler, NextCycle
<1>4. outbuf'.full = FALSE /\ outbuf'.from = outbuf.from /\ outbuf'.val = outbuf.val
  BY <1>3 DEF TypeOK
<1>5. pc[1] = "done" /\ pc'[1] = "done" /\ Owed = 0 /\ Owed' = 0
  BY <1>1 DEF Data, Stage, Owed
<1>6. FromMouse /\ ~ FromMouse' /\ Flying' = queue.aux
  BY <1>1, <1>4 DEF Own, FromMouse, Flying
<1>7. /\ Flying \in Seq(0..255) /\ Flying # <<>>
      /\ Head(Flying) = outbuf.val /\ Tail(Flying) = Flying'
  BY <1>6, FlyingBytes
<1>8. Follows(Flying, mouse_cycle, mouse_byte, moves, 0)
  BY <1>5 DEF Data, InOrder
<1>9. moves \in Seq(Packets) /\ mouse_byte \in [1..3 -> 0..255]
  BY DEF TypeOK
<1>10. InOrder' /\ (moves = <<>> => moves' = <<>>)
  <2>1. /\ moves # <<>>
        /\ mouse_cycle < 2 => Follows(Tail(Flying), mouse_cycle + 1,
                                      [mouse_byte EXCEPT ![mouse_cycle + 1] = Head(Flying)],
                                      moves, 0)
        /\ mouse_cycle = 2 => \A d : Follows(Tail(Flying), 0, d, Tail(moves), 0)
    BY <1>2, <1>7, <1>8, <1>9, FollowsByte
  <2>2. CASE mouse_cycle < 2
    <3>1. /\ mouse_cycle' = mouse_cycle + 1 /\ moves' = moves
          /\ mouse_byte' = [mouse_byte EXCEPT ![mouse_cycle + 1] = Head(Flying)]
      BY <1>2, <1>3, <1>7, <2>2
    <3> QED  BY <1>5, <1>7, <2>1, <2>2, <3>1 DEF InOrder
  <2>3. CASE mouse_cycle = 2
    <3>1. mouse_cycle' = 0 /\ moves' = Tail(moves)
      BY <1>3, <2>1, <2>3
    <3> QED  BY <1>5, <1>7, <2>1, <2>3, <3>1 DEF InOrder
  <2> QED  BY <1>2, <2>1, <2>2, <2>3
<1>11. KeyboardServed' /\ KeysOnly' /\ Controller' /\ LastRead' /\ MouseOn' /\ Stage'
  BY <1>1, <1>4, <1>5, <1>6, <1>10
     DEF Data, KeyboardServed, KeysOnly, NoAnswer, Controller, LastRead, MouseOn, Stage,
         BeforeMouse
<1>12. Requested' /\ AnswerThere'
  BY <1>4, <1>5 DEF Requested, AnswerThere
<1> QED  BY <1>10, <1>11, <1>12 DEF Data

\* A key adds a byte that is not the mouse's answer.
LEMMA KeyKeeps ==
  ASSUME Usual, IInv, NEW b \in Codes, KeyEvent(b)
  PROVE  (Data /\ Requested /\ AnswerThere)'
<1> TypeOK /\ Data /\ Requested /\ AnswerThere
  BY DEF IInv
<1>1. UNCHANGED <<pc, registered, mouse_cycle, mouse_byte, hpc, irq, irr, outbuf, command,
                  streaming, moves>>
  BY DEF KeyEvent, initVars, mouseVars, cpuVars
<1>2. /\ queue.kbd \in Seq(0..255) /\ b \in 0..255 /\ b # MOUSE_ACKNOWLEDGE
      /\ queue' = [queue EXCEPT !["kbd"] = Append(queue.kbd, b)]
  <2>1. queue.kbd \in Seq(0..255)
    BY DEF TypeOK
  <2>2. b \in 0..255 /\ b # MOUSE_ACKNOWLEDGE
    BY Ps2Assumption DEF Usual
  <2>3. queue' = [queue EXCEPT !["kbd"] = Append(queue.kbd, b)]
    BY DEF KeyEvent
  <2> QED  BY <2>1, <2>2, <2>3
<1>3. /\ queue'.kbd = Append(queue.kbd, b)
      /\ queue'.aux = queue.aux /\ queue'.ctl = queue.ctl
  <2>1. queue \in Queues
    BY DEF TypeOK, Queues
  <2>2. Append(queue.kbd, b) \in Seq(0..255)
    BY <1>2, AppendProperties
  <2>3. "kbd" \in {"kbd", "aux", "ctl"}
    OBVIOUS
  <2>4. /\ queue'["kbd"] = Append(queue.kbd, b)
        /\ \A e \in {"kbd", "aux", "ctl"} : e # "kbd" => queue'[e] = queue[e]
    BY <1>2, <2>1, <2>2, <2>3, QueueAfter
  <2> QED  BY <2>4
<1>4. NoAnswer => NoAnswer'
  <2> SUFFICES ASSUME NoAnswer PROVE NoAnswer'
    OBVIOUS
  <2>1. ASSUME NEW k \in 1 .. Len(queue'.kbd)
        PROVE  queue'.kbd[k] # MOUSE_ACKNOWLEDGE
    <3>1. /\ Len(queue'.kbd) = Len(queue.kbd) + 1 /\ Len(queue.kbd) \in Nat
          /\ \A j \in 1 .. Len(queue.kbd) : queue'.kbd[j] = queue.kbd[j]
          /\ queue'.kbd[Len(queue.kbd) + 1] = b
      BY <1>2, <1>3, AppendProperties
    <3>2. k \in 1 .. Len(queue.kbd) \/ k = Len(queue.kbd) + 1
      BY <3>1
    <3> QED  BY <1>2, <3>1, <3>2 DEF NoAnswer
  <2> QED  BY <1>1, <2>1 DEF NoAnswer
<1>5. Data'
  BY <1>1, <1>3, <1>4
     DEF Data, KeyboardServed, KeysOnly, Controller, LastRead, MouseOn, Stage, InOrder,
         FromMouse, Flying, Owed
<1>6. Requested' /\ AnswerThere'
  BY <1>1 DEF Requested, AnswerThere
<1> QED  BY <1>5, <1>6

\* A motion adds its packet.
LEMMA MotionKeeps ==
  ASSUME IInv, NEW p \in Packets, Motion(p)
  PROVE  (Data /\ Requested /\ AnswerThere)'
<1> TypeOK /\ Data /\ Requested /\ AnswerThere
  BY DEF IInv
<1>1. /\ UNCHANGED <<pc, registered, mouse_cycle, mouse_byte, hpc, irq, irr, outbuf, command,
                     streaming>>
      /\ streaming /\ moves' = Append(moves, p)
      /\ queue' = [queue EXCEPT !["aux"] = queue.aux \o p]
  BY DEF Motion, initVars, mouseVars, cpuVars
<1>2. /\ queue.aux \in Seq(0..255) /\ p \in Seq(0..255) /\ moves \in Seq(Packets)
      /\ mouse_cycle \in 0..2 /\ outbuf.val \in 0..255
  BY AnswerTypes DEF TypeOK
<1>3. /\ queue'.aux = queue.aux \o p
      /\ queue'.kbd = queue.kbd /\ queue'.ctl = queue.ctl
  <2>1. queue \in Queues
    BY DEF TypeOK, Queues
  <2>2. queue.aux \o p \in Seq(0..255)
    BY <1>2, ConcatProperties
  <2>3. "aux" \in {"kbd", "aux", "ctl"}
    OBVIOUS
  <2>4. /\ queue'["aux"] = queue.aux \o p
        /\ \A e \in {"kbd", "aux", "ctl"} : e # "aux" => queue'[e] = queue[e]
    BY <1>1, <2>1, <2>2, <2>3, QueueAfter
  <2> QED  BY <2>4
<1>4. Flying' = Flying \o p /\ Owed' = Owed /\ FromMouse' = FromMouse
  <2>1. <<outbuf.val>> \in Seq(0..255)
    BY <1>2
  <2>2. queue.aux \in Seq(0..255) /\ p \in Seq(0..255)
    BY <1>2
  <2>3. <<outbuf.val>> \o (queue.aux \o p) = (<<outbuf.val>> \o queue.aux) \o p
    <3> DEFINE v == <<outbuf.val>>
               q == queue.aux
               S == 0..255
    <3>1. v \in Seq(S) /\ q \in Seq(S) /\ p \in Seq(S)
      BY <2>1, <2>2, Zenon
    <3> HIDE DEF v, q, S
    <3>2. (v \o q) \o p = v \o (q \o p)
      BY <3>1, ConcatThree
    <3> QED  BY <3>2, Zenon DEF v, q
  <2> QED  BY <1>1, <1>3, <2>3 DEF Flying, FromMouse, Owed
<1>5. InOrder'
  <2> SUFFICES ASSUME pc[1] # "failed"
               PROVE  Follows(Flying \o p, mouse_cycle, mouse_byte, Append(moves, p), Owed)
    BY <1>1, <1>4 DEF InOrder
  <2>1. Follows(Flying, mouse_cycle, mouse_byte, moves, Owed)
    BY DEF Data, InOrder
  <2>2. Owed \in {0, 1} /\ (mouse_cycle = 0 \/ Owed = 0)
    BY DEF Data, Stage, Owed
  <2> QED  BY <1>2, <2>1, <2>2, FlyingBytes, FollowsMotion
<1>6. Stage'
  BY <1>1 DEF Data, Stage
<1>7. KeyboardServed' /\ KeysOnly' /\ Controller' /\ LastRead' /\ MouseOn'
  BY <1>1, <1>3, <1>4
     DEF Data, KeyboardServed, KeysOnly, NoAnswer, Controller, LastRead, MouseOn
<1>8. Requested' /\ AnswerThere'
  BY <1>1 DEF Requested, AnswerThere
<1> QED  BY <1>5, <1>6, <1>7, <1>8 DEF Data

\* The next byte of a device comes up.
LEMMA DeliveryKeeps ==
  ASSUME IInv, NEW d \in {"kbd", "aux", "ctl"}, Deliver(d)
  PROVE  (Data /\ Requested /\ AnswerThere)'
<1> TypeOK /\ Data /\ Requested /\ AnswerThere
  BY DEF IInv
<1>1. /\ ~ outbuf.full /\ queue[d] # <<>> /\ ~ Off(d) /\ Latch
      /\ outbuf' = [full |-> TRUE, from |-> d, val |-> Head(queue[d])]
      /\ queue' = [queue EXCEPT ![d] = Tail(queue[d])]
      /\ UNCHANGED <<pc, registered, mouse_cycle, mouse_byte, hpc, irq, command, streaming,
                     moves>>
  BY DEF Deliver, initVars, mouseVars, cpuVars, deviceVars
<1>2. outbuf'.full = TRUE /\ outbuf'.from = d /\ outbuf'.val = Head(queue[d])
  BY <1>1
<1>3. /\ queue[d] \in Seq(0..255)
      /\ Len(queue[d]) \in Nat /\ Len(queue[d]) >= 1 /\ Head(queue[d]) = queue[d][1]
      /\ Tail(queue[d]) \in Seq(0..255) /\ Len(Tail(queue[d])) = Len(queue[d]) - 1
      /\ \A k \in 1 .. Len(queue[d]) - 1 : Tail(queue[d])[k] = queue[d][k + 1]
  <2>1. queue[d] \in Seq(0..255)
    BY DEF TypeOK
  <2> QED  BY <1>1, <2>1, HeadTailProperties
<1>4. /\ queue'[d] = Tail(queue[d])
      /\ \A e \in {"kbd", "aux", "ctl"} : e # d => queue'[e] = queue[e]
  <2>1. queue \in Queues
    BY DEF TypeOK, Queues
  <2>2. Tail(queue[d]) \in Seq(0..255)
    BY <1>3
  <2>3. queue' = [queue EXCEPT ![d] = Tail(queue[d])]
    BY <1>1
  <2> DEFINE t == Tail(queue[d])
  <2> HIDE DEF t
  <2>4. queue' = [queue EXCEPT ![d] = t]
    BY <2>3 DEF t
  <2>5. queue'[d] = t /\ \A e \in {"kbd", "aux", "ctl"} : e # d => queue'[e] = queue[e]
    BY <2>1, <2>4, QueueAfter, Zenon
  <2> QED  BY <2>5 DEF t
<1>5. ~ FromMouse /\ (FromMouse' <=> d = "aux")
  BY <1>1, <1>2 DEF FromMouse
<1>6. Flying' = Flying /\ Owed' = Owed
  <2>1. CASE d = "aux"
    <3>1. queue.aux = <<Head(queue.aux)>> \o Tail(queue.aux)
      <4> DEFINE s == queue.aux
                 h == <<Head(s)>>
      <4>1. /\ s \in Seq(0..255) /\ s # <<>> /\ h \in Seq(0..255) /\ Tail(s) \in Seq(0..255)
            /\ Len(h) = 1 /\ Len(s) \in Nat /\ Len(Tail(s)) = Len(s) - 1
            /\ h[1] = s[1]
        <5>1. s \in Seq(0..255) /\ s # <<>> /\ Head(s) = s[1] /\ Head(s) \in 0..255
          BY <1>1, <1>3, <2>1, HeadTailProperties
        <5> QED  BY <1>3, <2>1, <5>1
      <4>2. /\ h \o Tail(s) \in Seq(0..255) /\ Len(h \o Tail(s)) = Len(h) + Len(Tail(s))
            /\ \A k \in 1 .. Len(h) + Len(Tail(s)) :
                 (h \o Tail(s))[k] = IF k <= Len(h) THEN h[k] ELSE Tail(s)[k - Len(h)]
        BY <4>1, ConcatProperties
      <4>3. Len(h \o Tail(s)) = Len(s)
        BY <4>1, <4>2
      <4>4. ASSUME NEW k \in 1 .. Len(s) PROVE (h \o Tail(s))[k] = s[k]
        <5> HIDE DEF h
        <5>1. CASE k = 1
          BY <4>1, <4>2, <5>1
        <5>2. CASE k # 1
          <6>1. /\ k \in 1 .. Len(h) + Len(Tail(s)) /\ ~ (k <= Len(h))
                /\ k - Len(h) = k - 1
            BY <4>1, <5>2
          <6>2. k - 1 \in 1 .. Len(s) - 1 /\ (k - 1) + 1 = k
            BY <4>1, <5>2
          <6>3. Tail(s)[k - 1] = s[(k - 1) + 1]
            BY <1>3, <2>1, <6>2
          <6> QED  BY <4>2, <6>1, <6>2, <6>3
        <5> QED  BY <5>1, <5>2
      <4> HIDE DEF s, h
      <4>5. s = h \o Tail(s)
        BY <4>1, <4>2, <4>3, <4>4, SeqEqual
      <4> QED  BY <4>5 DEF s, h
    <3> QED  BY <1>1, <1>2, <1>4, <1>5, <2>1, <3>1 DEF Flying, Owed
  <2>2. CASE d # "aux"
    BY <1>1, <1>4, <1>5, <2>2 DEF Flying, Owed
  <2> QED  BY <2>1, <2>2
<1>7. KeyboardServed' /\ Stage' /\ InOrder'
  BY <1>1, <1>6 DEF Data, KeyboardServed, Stage, InOrder
<1>8. d = "ctl" => /\ pc = <<"read_command", "wait">> /\ queue.ctl = <<command>>
                   /\ outbuf'.val = command /\ command # MOUSE_ACKNOWLEDGE
                   /\ queue'.ctl = <<>>
  <2> SUFFICES ASSUME d = "ctl"
               PROVE  /\ pc = <<"read_command", "wait">> /\ queue.ctl = <<command>>
                      /\ outbuf'.val = command /\ command # MOUSE_ACKNOWLEDGE
                      /\ queue'.ctl = <<>>
    OBVIOUS
  <2>1. pc = <<"read_command", "wait">> /\ queue.ctl = <<command>>
    BY <1>1 DEF Data, Controller
  <2>2. Bit(command, 0)
    <3>1. pc[1] \in BeforeMouse
      <4>1. pc[1] = "read_command"
        BY <2>1
      <4> QED  BY <4>1, Zenon DEF BeforeMouse
    <3> QED  BY <3>1, Zenon DEF Data, KeyboardServed
  <2>3. command # MOUSE_ACKNOWLEDGE
    <3>1. command \in 0..255
      BY DEF TypeOK
    <3> QED  BY <2>2, <3>1, CommandBits
  <2>4. outbuf'.val = command
    BY <1>2, <2>1
  <2>5. queue'.ctl = <<>>
    <3>1. queue[d] = queue.ctl /\ queue'[d] = queue'.ctl /\ Len(queue.ctl) = 1
      BY <2>1
    <3>2. queue'.ctl = Tail(queue[d]) /\ Len(queue[d]) = 1
      BY <1>4, <3>1
    <3>3. Len(Tail(queue[d])) = 0 /\ Tail(queue[d]) \in Seq(0..255)
      BY <1>3, <3>2
    <3> QED  BY <3>2, <3>3, EmptySeq
  <2> QED  BY <2>1, <2>3, <2>4, <2>5
<1>9. d = "kbd" /\ NoAnswer =>
        /\ outbuf'.val # MOUSE_ACKNOWLEDGE
        /\ \A k \in 1 .. Len(queue'.kbd) : queue'.kbd[k] # MOUSE_ACKNOWLEDGE
  <2> SUFFICES ASSUME d = "kbd", NoAnswer
               PROVE  /\ outbuf'.val # MOUSE_ACKNOWLEDGE
                      /\ \A k \in 1 .. Len(queue'.kbd) : queue'.kbd[k] # MOUSE_ACKNOWLEDGE
    OBVIOUS
  <2>1. \A k \in 1 .. Len(queue.kbd) : queue.kbd[k] # MOUSE_ACKNOWLEDGE
    BY DEF NoAnswer
  <2>2. 1 \in 1 .. Len(queue.kbd)
    BY <1>3
  <2>3. \A k \in 1 .. Len(queue.kbd) - 1 : k + 1 \in 1 .. Len(queue.kbd)
    BY <1>3
  <2>4. outbuf'.val = queue.kbd[1] /\ queue'.kbd = Tail(queue.kbd)
    BY <1>2, <1>3, <1>4
  <2>5. /\ Len(queue'.kbd) = Len(queue.kbd) - 1
        /\ \A k \in 1 .. Len(queue.kbd) - 1 : queue'.kbd[k] = queue.kbd[k + 1]
    BY <1>3, <2>4
  <2>6. outbuf'.val # MOUSE_ACKNOWLEDGE
    BY <2>1, <2>2, <2>4
  <2> QED  BY <2>1, <2>3, <2>5, <2>6
<1>10. KeysOnly'
  <2> SUFFICES ASSUME NoAnswer PROVE NoAnswer'
    BY <1>1 DEF Data, KeysOnly
  <2>1. CASE d = "kbd"
    BY <1>9, <2>1 DEF NoAnswer
  <2>2. CASE d # "kbd"
    <3>1. queue'.kbd = queue.kbd
      BY <1>4, <2>2
    <3>2. outbuf'.from # "aux" => outbuf'.val # MOUSE_ACKNOWLEDGE
      BY <1>2, <1>8, <2>2
    <3> QED  BY <3>1, <3>2 DEF NoAnswer
  <2> QED  BY <2>1, <2>2
<1>11. Controller'
  BY <1>1, <1>4, <1>8 DEF Data, Controller
<1>12. LastRead'
  <2>1. CASE d = "ctl"
    BY <1>1, <1>8, <2>1 DEF LastRead
  <2>2. CASE d = "kbd"
    <3>1. pc[1] \in {"read_command", "write_command", "defaults"} => NoAnswer
      BY DEF Data, KeysOnly
    <3> QED  BY <1>1, <1>9, <2>2, <3>1 DEF LastRead
  <2>3. CASE d = "aux"
    <3>1. /\ pc # <<"read_command", "wait">> /\ pc # <<"read_command", "read">>
          /\ pc # <<"write_command", "send">> /\ pc # <<"defaults", "send">>
      BY <1>1, <2>3, MouseSilent DEF Data, BeforeMouse
    <3> QED  BY <1>1, <1>5, <2>3, <3>1 DEF LastRead
  <2> QED  BY <2>1, <2>2, <2>3
<1>13. MouseOn'
  BY <1>1, <1>5 DEF Data, MouseOn, Off
<1>14. Requested'
  <2> SUFFICES ASSUME outbuf'.from # "aux", Bit(command', 0)
               PROVE  1 \in irr'
    BY DEF Requested
  <2>1. 1 \in Lines(outbuf', command')
    BY <1>2 DEF Lines
  <2>2. Lines(outbuf, command) = {}
    BY <1>1 DEF Lines
  <2> QED  BY <1>1, <2>1, <2>2 DEF Latch
<1>15. AnswerThere'
  BY <1>1 DEF AnswerThere
<1> QED  BY <1>7, <1>10, <1>11, <1>12, <1>13, <1>14, <1>15 DEF Data

(***************************************************************************)
(* mouse_init keeps the invariant of the bytes.                            *)
(***************************************************************************)

\* kmain runs while no byte that its handler would take is in the buffer.
LEMMA KmainQuiet ==
  ASSUME Usual, IInv, Runs
  PROVE  /\ hpc = "none" /\ irr = {}
         /\ ~ (outbuf.full /\ outbuf.from # "aux" /\ Bit(command, 0))
         /\ pc[1] \in BeforeMouse => ~ outbuf.full
<1>1. hpc = "none" /\ irr = {}
  BY Quiet DEF Usual, IInv
<1>2. ~ (outbuf.full /\ outbuf.from # "aux" /\ Bit(command, 0))
  BY <1>1 DEF IInv, Requested
<1>3. pc[1] \in BeforeMouse => ~ FromMouse /\ Bit(command, 0)
  BY MouseSilent DEF IInv, Data, KeyboardServed
<1> QED  BY <1>1, <1>2, <1>3 DEF FromMouse

\* The mouse is turned on.
LEMMA EnableKeeps ==
  ASSUME Usual, IInv, EnableMouse
  PROVE  (Data /\ Requested /\ AnswerThere)'
<1> TypeOK /\ Data
  BY DEF IInv
<1>1. /\ Runs /\ pc = <<"enable", "send">> /\ pc' = <<"id", "send">>
      /\ command' = ClearBit(command, 5)
      /\ UNCHANGED <<registered, mouse_cycle, mouse_byte, outbuf, queue, streaming, moves>>
  BY DEF EnableMouse, mouseVars, deviceVars
<1>2. ~ outbuf.full
  <2>1. pc[1] \in BeforeMouse
    <3>1. pc[1] = "enable"
      BY <1>1
    <3> QED  BY <3>1, Zenon DEF BeforeMouse
  <2> QED  BY <1>1, <2>1, KmainQuiet, Zenon
<1>3. KeyboardServed'
  BY <1>1, CommandBits DEF TypeOK, Data, KeyboardServed, BeforeMouse
<1>4. Flying' = Flying /\ Owed' = Owed /\ ~ FromMouse'
  BY <1>1, <1>2 DEF Flying, Owed, FromMouse
<1>5. KeysOnly' /\ Controller' /\ LastRead' /\ MouseOn' /\ Stage' /\ InOrder'
  BY <1>1, <1>4 DEF Data, KeysOnly, NoAnswer, Controller, LastRead, MouseOn, Stage, InOrder
<1>6. Requested' /\ AnswerThere'
  BY <1>1, <1>2 DEF Requested, AnswerThere
<1> QED  BY <1>3, <1>5, <1>6 DEF Data

\* The keyboard is asked.
LEMMA ToKeyboardKeeps ==
  ASSUME Usual, IInv, SendToKeyboard
  PROVE  (Data /\ Requested /\ AnswerThere)'
<1> TypeOK /\ Data /\ Requested
  BY DEF IInv
<1>0. PICK s \in DOMAIN ToKeyboard :
        /\ pc = <<s, "send">> /\ pc' = <<s, "wait">>
        /\ queue' = [queue EXCEPT !.kbd = @ \o (IF s = "id" THEN <<250, 171, 65>>
                                                ELSE <<250>>)]
  BY Zenon DEF SendToKeyboard
<1>1. s \in {"id", "rate", "rate_data"} /\ pc = <<s, "send">> /\ pc' = <<s, "wait">>
  BY <1>0, CommandNames
<1>2. UNCHANGED <<registered, mouse_cycle, mouse_byte, hpc, irq, irr, outbuf, command, streaming,
                  moves>>
  BY DEF SendToKeyboard, mouseVars, cpuVars, deviceVars
<1>3. queue'.aux = queue.aux /\ queue'.ctl = queue.ctl
  <2> DEFINE t == queue.kbd \o (IF s = "id" THEN <<250, 171, 65>> ELSE <<250>>)
  <2>1. queue' = [queue EXCEPT !["kbd"] = t]
    BY <1>0
  <2> HIDE DEF t
  <2>2. queue \in Queues
    BY DEF TypeOK, Queues
  <2> QED  BY <2>1, <2>2 DEF Queues
<1>4. Flying' = Flying /\ Owed' = Owed /\ FromMouse' = FromMouse
  BY <1>1, <1>2, <1>3 DEF Flying, Owed, FromMouse
<1>5. pc[1] = s /\ pc[2] = "send" /\ pc'[1] = s /\ pc'[2] = "wait"
  BY <1>1
<1>6. KeyboardServed' /\ KeysOnly' /\ Controller' /\ LastRead' /\ MouseOn' /\ Stage' /\ InOrder'
  BY <1>1, <1>2, <1>3, <1>4, <1>5
     DEF Data, KeyboardServed, KeysOnly, Controller, LastRead, MouseOn, Stage, InOrder,
         BeforeMouse
<1>7. Requested' /\ AnswerThere'
  BY <1>2, <1>5 DEF Requested, AnswerThere
<1> QED  BY <1>6, <1>7 DEF Data

\* The mouse is asked, and its answer is the first thing it says.
LEMMA ToMouseKeeps ==
  ASSUME Usual, IInv, SendToMouse
  PROVE  (Data /\ Requested /\ AnswerThere)'
<1> TypeOK /\ Data /\ Requested
  BY DEF IInv
<1>1. PICK s \in {"defaults", "stream"} :
        /\ pc = <<s, "send">> /\ pc' = <<s, "wait">> /\ streaming' = (s = "stream")
        /\ queue' = [queue EXCEPT !.aux = Append(@, MOUSE_ACKNOWLEDGE)]
  BY CommandNames DEF SendToMouse
<1>2. UNCHANGED <<registered, mouse_cycle, mouse_byte, hpc, irq, irr, outbuf, command, moves>>
  BY DEF SendToMouse, mouseVars, cpuVars
<1>3. /\ ~ FromMouse /\ queue.aux = <<>> /\ moves = <<>> /\ mouse_cycle = 0
      /\ ~ registered /\ ~ streaming
  BY <1>1, MouseSilent DEF Data
<1>4. /\ queue'.aux = <<MOUSE_ACKNOWLEDGE>>
      /\ queue'.kbd = queue.kbd /\ queue'.ctl = queue.ctl
  <2>1. queue' = [queue EXCEPT !["aux"] = <<MOUSE_ACKNOWLEDGE>>]
    <3>1. Append(queue.aux, MOUSE_ACKNOWLEDGE) = <<MOUSE_ACKNOWLEDGE>>
      BY <1>3
    <3> QED  BY <1>1, <3>1
  <2>2. queue \in Queues
    BY DEF TypeOK, Queues
  <2> QED  BY <2>1, <2>2 DEF Queues
<1>5. pc[1] = s /\ pc[2] = "send" /\ pc'[1] = s /\ pc'[2] = "wait"
  BY <1>1
<1>6. Flying' = <<MOUSE_ACKNOWLEDGE>> /\ Owed' = 1 /\ ~ FromMouse'
  BY <1>2, <1>3, <1>4, <1>5 DEF Flying, Owed, FromMouse
<1>7. InOrder'
  BY <1>2, <1>3, <1>6, FollowsAnswer DEF InOrder
<1>8. KeyboardServed' /\ KeysOnly' /\ Controller' /\ LastRead' /\ MouseOn'
  BY <1>1, <1>2, <1>4, <1>5, <1>6
     DEF Data, KeyboardServed, KeysOnly, NoAnswer, Controller, LastRead, MouseOn, BeforeMouse
<1>9. Stage'
  BY <1>1, <1>2, <1>3, <1>5 DEF Stage
<1>10. Requested' /\ AnswerThere'
  BY <1>2, <1>5 DEF Requested, AnswerThere
<1> QED  BY <1>7, <1>8, <1>9, <1>10 DEF Data

\* The controller is asked for its command byte.
LEMMA AskKeeps ==
  ASSUME Usual, IInv, AskCommand
  PROVE  (Data /\ Requested /\ AnswerThere)'
<1> TypeOK /\ Data /\ Requested
  BY DEF IInv
<1>1. /\ pc = <<"read_command", "send">> /\ pc' = <<"read_command", "wait">>
      /\ queue' = [queue EXCEPT !.ctl = Append(@, command)]
      /\ UNCHANGED <<registered, mouse_cycle, mouse_byte, hpc, irq, irr, outbuf, command,
                     streaming, moves>>
  BY DEF AskCommand, mouseVars, cpuVars, deviceVars
<1>2. queue.ctl = <<>>
  BY <1>1 DEF Data, Controller
<1>3. queue'.ctl = <<command>> /\ queue'.aux = queue.aux /\ queue'.kbd = queue.kbd
  <2>1. queue' = [queue EXCEPT !["ctl"] = <<command>>]
    <3>1. Append(queue.ctl, command) = <<command>>
      BY <1>2
    <3> QED  BY <1>1, <3>1
  <2>2. queue \in Queues
    BY DEF TypeOK, Queues
  <2> QED  BY <2>1, <2>2 DEF Queues
<1>4. Flying' = Flying /\ Owed' = Owed /\ FromMouse' = FromMouse
  BY <1>1, <1>3 DEF Flying, Owed, FromMouse
<1>5. <<command>> # <<>>
  OBVIOUS
<1>6. KeyboardServed' /\ KeysOnly' /\ Controller' /\ LastRead' /\ MouseOn' /\ Stage' /\ InOrder'
  BY <1>1, <1>3, <1>4, <1>5
     DEF Data, KeyboardServed, KeysOnly, NoAnswer, Controller, LastRead, MouseOn, Stage,
         InOrder, BeforeMouse
<1>7. Requested' /\ AnswerThere'
  BY <1>1 DEF Requested, AnswerThere
<1> QED  BY <1>6, <1>7 DEF Data

\* The command byte is written, whatever it is.
LEMMA WriteKeeps ==
  ASSUME Usual, IInv, WriteCommand
  PROVE  (Data /\ Requested /\ AnswerThere)'
<1> TypeOK /\ Data
  BY DEF IInv
<1>1. /\ Runs /\ pc = <<"write_command", "send">> /\ pc' = <<"defaults", "send">>
      /\ UNCHANGED <<registered, mouse_cycle, mouse_byte, outbuf, queue, streaming, moves>>
  BY DEF WriteCommand, mouseVars, deviceVars
<1>2. ~ outbuf.full
  BY <1>1, KmainQuiet DEF BeforeMouse
<1>3. Flying' = Flying /\ Owed' = Owed /\ ~ FromMouse'
  BY <1>1, <1>2 DEF Flying, Owed, FromMouse
<1>4. KeyboardServed' /\ KeysOnly' /\ Controller' /\ LastRead' /\ MouseOn' /\ Stage' /\ InOrder'
  BY <1>1, <1>3
     DEF Data, KeyboardServed, KeysOnly, NoAnswer, Controller, LastRead, MouseOn, Stage,
         InOrder, BeforeMouse
<1>5. Requested' /\ AnswerThere'
  BY <1>1, <1>2 DEF Requested, AnswerThere
<1> QED  BY <1>4, <1>5 DEF Data

\* The wait ends when all that the device said is there, or nothing more comes.
LEMMA WaitKeeps ==
  ASSUME Usual, IInv, Wait
  PROVE  (Data /\ Requested /\ AnswerThere)'
<1> TypeOK /\ Answers /\ Data /\ Requested
  BY DEF IInv
<1>1. /\ Runs /\ pc[2] = "wait" /\ pc' = <<pc[1], "read">>
      /\ outbuf.full \/ ~ Coming
      /\ UNCHANGED <<registered, mouse_cycle, mouse_byte, hpc, irq, irr, outbuf, command, queue,
                     streaming, moves>>
  BY DEF Wait, Usual, mouseVars, cpuVars, deviceVars
<1>2. pc = <<pc[1], "wait">> /\ pc'[1] = pc[1] /\ pc'[2] = "read" /\ pc[1] \in Asked
  BY <1>1 DEF TypeOK, Answers
<1>3. hpc = "none" /\ irr = {} /\ (pc[1] \in BeforeMouse => ~ outbuf.full)
  BY <1>1, KmainQuiet
<1>4. ~ outbuf.full => \A d \in {"kbd", "aux", "ctl"} : queue[d] = <<>> \/ Off(d)
  <2>1. DOMAIN queue = {"kbd", "aux", "ctl"}
    BY DEF TypeOK
  <2> QED  BY <1>1, <2>1 DEF Coming
<1>5. pc[1] \in BeforeMouse => queue.kbd = <<>> /\ queue.ctl = <<>>
  BY <1>3, <1>4 DEF Data, KeyboardServed, Off
<1>6. Flying' = Flying /\ Owed' = Owed /\ FromMouse' = FromMouse
  BY <1>1, <1>2 DEF Flying, Owed, FromMouse
<1>7. KeysOnly'
  <2>1. CASE pc[1] \in BeforeMouse
    BY <1>1, <1>3, <1>5, <2>1 DEF KeysOnly, NoAnswer
  <2>2. CASE pc[1] \notin BeforeMouse
    BY <1>1, <2>2 DEF Data, KeysOnly, NoAnswer, BeforeMouse
  <2> QED  BY <2>1, <2>2
<1>8. Controller'
  <2>1. queue.ctl = <<>>
    BY <1>2, <1>5 DEF Data, Controller, BeforeMouse
  <2> QED  BY <1>1, <2>1 DEF Controller
<1>9. LastRead'
  <2>1. pc[1] = "read_command" => outbuf.val # MOUSE_ACKNOWLEDGE
    BY <1>2, <1>5 DEF Data, LastRead, BeforeMouse
  <2> QED  BY <1>1, <1>2, <1>6, <2>1 DEF Data, LastRead
<1>10. KeyboardServed' /\ MouseOn' /\ Stage' /\ InOrder'
  BY <1>1, <1>2, <1>6 DEF Data, KeyboardServed, MouseOn, Stage, InOrder
<1>11. AnswerThere'
  <2> SUFFICES ASSUME pc[1] = "stream" PROVE outbuf.full
    BY <1>1, <1>2, <1>3 DEF AnswerThere
  <2>1. ~ Bit(command, 5)
    BY DEF Data, MouseOn
  <2>2. ~ outbuf.full => queue.aux = <<>>
    BY <1>4, <2>1 DEF Off
  <2>3. mouse_cycle = 0 /\ Owed = 1
    BY <1>1 DEF Data, Stage, Owed
  <2>4. 0 + Len(Flying) = 1 + 3 * Len(moves) /\ Len(moves) \in Nat
    BY <2>3 DEF Data, InOrder, Follows, TypeOK
  <2>5. ~ outbuf.full => Flying = queue.aux
    BY DEF Flying, FromMouse
  <2>6. Len(Flying) # 0
    <3>1. Len(Flying) \in Nat
      BY FlyingBytes
    <3> QED  BY <2>4, <3>1
  <2>7. Len(<<>>) = 0
    OBVIOUS
  <2> QED  BY <2>2, <2>5, <2>6, <2>7
<1>12. Requested'
  BY <1>1 DEF Requested
<1> QED  BY <1>7, <1>8, <1>9, <1>10, <1>11, <1>12 DEF Data

\* The answer is read: the mouse's, or mouse_init fails.
LEMMA ReadKeeps ==
  ASSUME Usual, IInv, Read
  PROVE  (Data /\ Requested /\ AnswerThere)'
<1> TypeOK /\ Answers /\ Data /\ AnswerThere
  BY DEF IInv
<1> DEFINE ack == outbuf.val = MOUSE_ACKNOWLEDGE
<1>1. /\ Runs /\ pc[2] = "read" /\ pc' = <<Then(pc[1], ack), "send">>
      /\ outbuf' = [outbuf EXCEPT !.full = FALSE]
      /\ UNCHANGED <<registered, mouse_cycle, mouse_byte, command, queue, streaming, moves>>
  BY DEF Read, mouseVars, deviceVars
<1>2. /\ pc = <<pc[1], "read">> /\ pc[1] \in Asked
      /\ pc'[1] = Then(pc[1], ack) /\ pc'[2] = "send"
  BY <1>1 DEF TypeOK, Answers
<1>3. outbuf'.full = FALSE /\ outbuf'.from = outbuf.from /\ outbuf'.val = outbuf.val
  BY <1>1 DEF TypeOK
<1>4. ~ FromMouse' /\ Flying' = queue.aux /\ Owed' = 0
  BY <1>1, <1>2, <1>3 DEF FromMouse, Flying, Owed
<1>5. queue.ctl = <<>> /\ NoAnswer /\ NoAnswer'
  <2>1. queue.ctl = <<>> /\ NoAnswer
    BY <1>2 DEF Data, Controller, KeysOnly
  <2> QED  BY <1>1, <1>3, <2>1 DEF NoAnswer
<1>6. KeysOnly' /\ Controller' /\ Requested' /\ AnswerThere'
  BY <1>1, <1>2, <1>3, <1>5 DEF KeysOnly, Controller, Requested, AnswerThere
<1>7. CASE pc[1] \in BeforeMouse
  <2>1. pc[1] \in {"id", "rate", "rate_data", "read_command"}
    BY <1>2, <1>7 DEF Asked, BeforeMouse
  <2>2. /\ pc'[1] \in {"rate", "rate_data", "read_command", "write_command"}
        /\ pc'[1] = "write_command" => pc[1] = "read_command"
    BY <1>2, <2>1 DEF Then
  <2>3. ~ FromMouse /\ moves = <<>> /\ mouse_cycle = 0 /\ ~ registered /\ ~ streaming
    BY <1>7, MouseSilent DEF Data
  <2>4. KeyboardServed' /\ MouseOn' /\ Stage'
    BY <1>1, <1>4, <1>7, <2>2, <2>3 DEF Data, KeyboardServed, MouseOn, Stage, BeforeMouse
  <2>5. LastRead'
    <3>1. pc' = <<"write_command", "send">> => outbuf'.val # MOUSE_ACKNOWLEDGE
      BY <1>2, <1>3, <2>2 DEF Data, LastRead
    <3> QED  BY <1>2, <2>2, <3>1 DEF LastRead
  <2>6. InOrder'
    <3>1. Owed = 0 /\ Flying = queue.aux /\ pc[1] # "failed"
      BY <1>7, <2>3 DEF Owed, Flying, BeforeMouse
    <3> QED  BY <1>1, <1>4, <3>1 DEF Data, InOrder
  <2> QED  BY <1>6, <2>4, <2>5, <2>6 DEF Data
<1>8. CASE pc[1] \in {"defaults", "stream"} /\ ~ ack
  <2>1. pc'[1] = "failed"
    BY <1>2, <1>8 DEF Then
  <2>2. ~ registered /\ mouse_cycle = 0
    BY <1>8 DEF Data, Stage
  <2>3. KeyboardServed' /\ LastRead' /\ MouseOn' /\ InOrder'
    BY <1>2, <1>4, <2>1 DEF KeyboardServed, LastRead, MouseOn, InOrder, BeforeMouse
  <2>4. Stage'
    BY <1>1, <2>1, <2>2 DEF Data, Stage
  <2> QED  BY <1>6, <2>3, <2>4 DEF Data
<1>9. CASE pc[1] \in {"defaults", "stream"} /\ ack
  <2>1. pc'[1] = IF pc[1] = "defaults" THEN "stream" ELSE "register"
    BY <1>2, <1>9 DEF Then
  <2>2. FromMouse
    <3>1. CASE pc[1] = "defaults"
      BY <1>9, <3>1 DEF Data, LastRead
    <3>2. CASE pc[1] = "stream"
      <4>1. outbuf.full
        BY <1>2, <3>2 DEF AnswerThere
      <4> QED  BY <1>5, <1>9, <4>1 DEF NoAnswer, FromMouse
    <3> QED  BY <1>9, <3>1, <3>2
  <2>3. ~ registered /\ mouse_cycle = 0 /\ (streaming => pc[1] = "stream")
    BY <1>9 DEF Data, Stage
  <2>4. KeyboardServed' /\ LastRead'
    BY <1>2, <2>1 DEF KeyboardServed, LastRead, BeforeMouse
  <2>5. MouseOn'
    BY <1>1, <2>2 DEF Data, MouseOn
  <2>6. Stage'
    BY <1>1, <2>1, <2>3 DEF Data, Stage
  <2>7. InOrder'
    <3>1. Owed = 1 /\ pc[1] # "failed"
      BY <1>1, <1>9 DEF Owed
    <3>2. Follows(Flying, 0, mouse_byte, moves, 1)
      BY <2>3, <3>1 DEF Data, InOrder
    <3>3. Flying \in Seq(0..255) /\ Flying # <<>> /\ Tail(Flying) = queue.aux
      BY <2>2, FlyingBytes
    <3>4. Follows(queue.aux, 0, mouse_byte, moves, 0)
      <4>1. moves \in Seq(Packets)
        BY DEF TypeOK
      <4> QED  BY <3>2, <3>3, <4>1, FollowsAcknowledged
    <3> QED  BY <1>1, <1>4, <2>3, <3>4 DEF InOrder
  <2> QED  BY <1>6, <2>4, <2>5, <2>6, <2>7 DEF Data
<1>10. pc[1] \in BeforeMouse \/ pc[1] \in {"defaults", "stream"}
  BY <1>2 DEF Asked, BeforeMouse
<1> QED  BY <1>7, <1>8, <1>9, <1>10

\* The handler is registered when no answer is owed.
LEMMA RegisterKeeps ==
  ASSUME Usual, IInv, Register
  PROVE  (Data /\ Requested /\ AnswerThere)'
<1> Data /\ Requested
  BY DEF IInv
<1>1. /\ pc = <<"register", "send">> /\ pc' = <<"done", "send">> /\ registered'
      /\ UNCHANGED <<mouse_cycle, mouse_byte, hpc, irq, irr, outbuf, command, queue, streaming,
                     moves>>
  BY DEF Register, mouseVars, cpuVars, deviceVars
<1>2. Flying' = Flying /\ Owed' = Owed /\ FromMouse' = FromMouse
  BY <1>1 DEF Flying, Owed, FromMouse
<1>3. KeyboardServed' /\ KeysOnly' /\ Controller' /\ LastRead' /\ MouseOn' /\ Stage' /\ InOrder'
  BY <1>1, <1>2
     DEF Data, KeyboardServed, KeysOnly, NoAnswer, Controller, LastRead, MouseOn, Stage,
         InOrder, BeforeMouse
<1>4. Requested' /\ AnswerThere'
  BY <1>1 DEF Requested, AnswerThere
<1> QED  BY <1>3, <1>4 DEF Data

\* The invariant of the bytes holds in every state.
LEMMA IInvAlways ==
  ASSUME Usual
  PROVE  Spec => []IInv
<1>1. Init => Own /\ Data /\ Requested /\ AnswerThere
  <2> SUFFICES ASSUME Init PROVE Own /\ Data /\ Requested /\ AnswerThere
    OBVIOUS
  <2>1. /\ pc = <<"enable", "send">> /\ registered = FALSE /\ mouse_cycle = 0 /\ hpc = "none"
        /\ irr = {} /\ outbuf.full = FALSE /\ command = BootCommand
        /\ queue.kbd = <<>> /\ queue.aux = <<>> /\ queue.ctl = <<>>
        /\ streaming = FALSE /\ moves = <<>>
    BY DEF Init
  <2>2. ~ FromMouse /\ Flying = <<>> /\ Owed = 0
    BY <2>1 DEF FromMouse, Flying, Owed
  <2>3. Follows(<<>>, 0, mouse_byte, <<>>, 0)
    BY DEF Follows
  <2>4. InOrder
    BY <2>1, <2>2, <2>3 DEF InOrder
  <2>5. KeyboardServed /\ KeysOnly /\ Controller /\ LastRead /\ MouseOn /\ Stage
    BY <2>1, <2>2 DEF Usual, KeyboardServed, KeysOnly, NoAnswer, Controller, LastRead, MouseOn,
                      Stage
  <2>6. Own /\ Requested /\ AnswerThere
    BY <2>1 DEF Own, Requested, AnswerThere
  <2> QED  BY <2>4, <2>5, <2>6 DEF Data
<1>2. IInv /\ [Next]_vars => (Own /\ Data /\ Requested /\ AnswerThere)'
  <2> SUFFICES ASSUME IInv, [Next]_vars PROVE (Own /\ Data /\ Requested /\ AnswerThere)'
    OBVIOUS
  <2>1. Own'
    BY OwnKept DEF IInv, Usual
  <2>2. CASE mouse_init
    BY <2>1, <2>2, EnableKeeps, ToKeyboardKeeps, ToMouseKeeps, AskKeeps, WriteKeeps, WaitKeeps,
       ReadKeeps, RegisterKeeps DEF mouse_init
  <2>3. CASE Interrupt \/ isr_irq_handler
    BY <2>1, <2>3, ProcessorKeeps, KeyboardKeeps, MouseKeeps DEF isr_irq_handler
  <2>4. CASE \E d \in DOMAIN queue : Deliver(d)
    <3>1. DOMAIN queue = {"kbd", "aux", "ctl"}
      BY DEF IInv, TypeOK
    <3> QED  BY <2>1, <2>4, <3>1, DeliveryKeeps
  <2>5. CASE (\E b \in Codes : KeyEvent(b)) \/ (\E p \in Packets : Motion(p))
    BY <2>1, <2>5, KeyKeeps, MotionKeeps
  <2>6. CASE UNCHANGED vars
    <3>1. UNCHANGED <<pc, registered, mouse_cycle, mouse_byte, hpc, irq, irr, outbuf, command,
                      queue, streaming, moves>>
      BY <2>6 DEF vars, initVars, mouseVars, cpuVars, deviceVars
    <3>2. Data'
      BY <3>1, DataSame DEF IInv
    <3>3. Requested' /\ AnswerThere'
      BY <3>1 DEF IInv, Requested, AnswerThere
    <3> QED  BY <2>1, <3>2, <3>3
  <2> QED  BY <2>2, <2>3, <2>4, <2>5, <2>6 DEF Next
<1> DEFINE Basic == TypeOK /\ Answers /\ Serving
           Bytes == Own /\ Data /\ Requested /\ AnswerThere
<1>3. Basic /\ Bytes => IInv
  BY DEF IInv
<1>4. IInv => Basic /\ Bytes
  BY DEF IInv
<1>5. Basic /\ Bytes /\ [Next]_vars => Bytes'
  BY <1>2, <1>3
<1>6. Init => Bytes
  BY <1>1
<1>7. Spec => []Basic
  BY BasicAlways
<1> HIDE DEF Basic, Bytes
<1> QED  BY <1>3, <1>5, <1>6, <1>7, PTL DEF Spec

(***************************************************************************)
(* The pointer.                                                            *)
(***************************************************************************)

\* The motions of packets.
Made(m) == [k \in 1 .. Len(m) |-> MotionOf(m[k])]

\* A packet that is added is a motion that is added.
LEMMA MotionMade ==
  ASSUME NEW m \in Seq(Packets), NEW p \in Packets
  PROVE  Made(Append(m, p)) = Append(Made(m), MotionOf(p))
<1> DEFINE S == {MotionOf(q) : q \in Packets}
           l == Append(m, p)
           r == Append(Made(m), MotionOf(p))
<1>1. Len(m) \in Nat /\ \A k \in 1 .. Len(m) : m[k] \in Packets
  OBVIOUS
<1>2. Made(m) \in Seq(S) /\ Len(Made(m)) = Len(m)
  BY <1>1 DEF Made
<1>3. /\ l \in Seq(Packets) /\ Len(l) = Len(m) + 1 /\ l[Len(m) + 1] = p
      /\ \A k \in 1 .. Len(m) : l[k] = m[k]
  BY AppendProperties
<1>4. MotionOf(p) \in S
  OBVIOUS
<1>5. /\ r \in Seq(S) /\ Len(r) = Len(m) + 1 /\ r[Len(m) + 1] = MotionOf(p)
      /\ \A k \in 1 .. Len(m) : r[k] = Made(m)[k]
  <2> HIDE DEF S
  <2> QED  BY <1>2, <1>4, AppendProperties
<1> HIDE DEF S, l, r
<1>6. Made(l) \in Seq(S) /\ Len(Made(l)) = Len(m) + 1
  BY <1>1, <1>3 DEF Made, S
<1>7. ASSUME NEW k \in 1 .. Len(m) + 1 PROVE Made(l)[k] = r[k]
  <2>1. Made(l)[k] = MotionOf(l[k])
    BY <1>3, <1>7 DEF Made
  <2>2. CASE k = Len(m) + 1
    BY <1>3, <1>5, <2>1, <2>2
  <2>3. CASE k \in 1 .. Len(m)
    <3>1. r[k] = MotionOf(m[k])
      BY <1>5, <2>3 DEF Made
    <3> QED  BY <1>3, <2>1, <2>3, <3>1
  <2> QED  BY <1>1, <2>2, <2>3
<1>8. Made(l) = r
  BY <1>5, <1>6, <1>7, SeqEqual
<1> QED  BY <1>8 DEF l, r

\* The packet that is taken is the motion that is taken.
LEMMA MotionTaken ==
  ASSUME NEW m \in Seq(Packets), m # <<>>
  PROVE  /\ Made(m) # <<>> /\ Head(Made(m)) = MotionOf(Head(m))
         /\ Made(Tail(m)) = Tail(Made(m))
<1> DEFINE S == {MotionOf(q) : q \in Packets}
<1>1. /\ Len(m) \in Nat /\ Len(m) >= 1 /\ Head(m) = m[1]
      /\ \A k \in 1 .. Len(m) : m[k] \in Packets
  OBVIOUS
<1>2. Made(m) \in Seq(S) /\ Len(Made(m)) = Len(m) /\ \A k \in 1 .. Len(m) : Made(m)[k] = MotionOf(m[k])
  BY <1>1 DEF Made
<1> HIDE DEF S
<1>3. Made(m) # <<>> /\ Head(Made(m)) = MotionOf(Head(m))
  BY <1>1, <1>2
<1>4. /\ Tail(m) \in Seq(Packets) /\ Len(Tail(m)) = Len(m) - 1
      /\ \A k \in 1 .. Len(m) - 1 : Tail(m)[k] = m[k + 1]
  BY <1>1, HeadTailProperties
<1>5. /\ Tail(Made(m)) \in Seq(S) /\ Len(Tail(Made(m))) = Len(m) - 1
      /\ \A k \in 1 .. Len(m) - 1 : Tail(Made(m))[k] = Made(m)[k + 1]
  BY <1>2, <1>3, HeadTailProperties
<1>6. Made(Tail(m)) \in Seq(S) /\ Len(Made(Tail(m))) = Len(m) - 1
  BY <1>1, <1>4 DEF Made, S
<1>7. ASSUME NEW k \in 1 .. Len(m) - 1 PROVE Made(Tail(m))[k] = Tail(Made(m))[k]
  <2>1. Made(Tail(m))[k] = MotionOf(m[k + 1])
    BY <1>4, <1>7 DEF Made
  <2>2. k + 1 \in 1 .. Len(m)
    BY <1>1
  <2> QED  BY <1>2, <1>5, <2>1, <2>2
<1>8. Made(Tail(m)) = Tail(Made(m))
  BY <1>5, <1>6, <1>7, SeqEqual
<1> QED  BY <1>3, <1>8

\* Under the usual conditions the pointer takes every motion of the mouse, whole and in order,
\* whatever keys are pressed meanwhile: mouse_handler never mixes the bytes of two packets, or
\* takes an answer or a scan code for one.
THEOREM PointerTakesMotions ==
  ASSUME Usual
  PROVE  Spec => PointingSpec
<1> DEFINE at == <<g_mouse_x_pos, g_mouse_y_pos>>
<1>1. Init => Pointer!Init
  <2> SUFFICES ASSUME Init PROVE Pointer!Init
    OBVIOUS
  <2>1. moves = <<>> /\ at = <<5, 2>>
    BY DEF Init
  <2>2. Made(<<>>) = <<>>
    BY DEF Made
  <2> QED  BY <2>1, <2>2 DEF Pointer!Init, Made
<1>2. IInv /\ [Next]_vars => [Pointer!Next]_<<Made(moves), at>>
  <2> SUFFICES ASSUME IInv, [Next]_vars
               PROVE  Pointer!Next \/ (Made(moves)' = Made(moves) /\ at' = at)
    OBVIOUS
  <2> TypeOK /\ Own /\ Data
    BY DEF IInv
  <2>1. CASE UNCHANGED <<moves, g_mouse_x_pos, g_mouse_y_pos>>
    BY <2>1 DEF Made
  <2>2. ASSUME NEW p \in Packets, Motion(p) PROVE Pointer!Next
    <3>1. moves' = Append(moves, p) /\ at' = at
      BY <2>2 DEF Motion, mouseVars
    <3>2. Made(moves') = Append(Made(moves), MotionOf(p))
      BY <3>1, MotionMade DEF TypeOK
    <3>3. Pointer!Move(MotionOf(p))
      BY <3>1, <3>2 DEF Pointer!Move, Made
    <3> QED  BY <3>3 DEF Pointer!Next
  <2>3. CASE mouse_handler /\ mouse_cycle # 2
    <3>1. mouse_cycle \in 0..2
      BY DEF TypeOK
    <3>2. UNCHANGED <<moves, g_mouse_x_pos, g_mouse_y_pos>>
      BY <2>3, <3>1 DEF mouse_handler
    <3> QED  BY <2>1, <3>2
  <2>4. CASE mouse_handler /\ mouse_cycle = 2
    <3>1. /\ hpc = "handler" /\ irq = 12 /\ registered
          /\ g_mouse_x_pos' = Clamp(g_mouse_x_pos + Signed(mouse_byte[2]), VGA_WIDTH)
          /\ g_mouse_y_pos' = Clamp(g_mouse_y_pos - Signed(outbuf.val), VGA_HEIGHT)
          /\ moves' = IF moves = <<>> THEN <<>> ELSE Tail(moves)
      BY <2>4 DEF mouse_handler
    <3>2. Follows(Flying, 2, mouse_byte, moves, 0)
      BY <2>4, <3>1 DEF Data, Stage, InOrder, Owed
    <3>3. FromMouse /\ Flying \in Seq(0..255) /\ Flying # <<>> /\ Head(Flying) = outbuf.val
      BY <3>1, FlyingBytes DEF Own, FromMouse
    <3>4. moves \in Seq(Packets) /\ mouse_byte \in [1..3 -> 0..255] /\ outbuf.val \in 0..255
      BY DEF TypeOK
    <3>5. moves # <<>> /\ mouse_byte[2] = Head(moves)[2] /\ outbuf.val = Head(moves)[3]
      <4>1. 2 \in 0..2 /\ 2 \in 1..2 /\ 2 + 1 = 3
        OBVIOUS
      <4> QED  BY <3>2, <3>3, <3>4, <4>1, FollowsByte
    <3> DEFINE dx == Signed(mouse_byte[2])
               dy == Signed(outbuf.val)
    <3>6. Head(Made(moves)) = <<dx, - dy>>
      BY <3>4, <3>5, MotionTaken DEF MotionOf
    <3>7. dx \in Int /\ dy \in Int
      <4>1. mouse_byte[2] \in 0..255 /\ \A b \in 0..255 : Signed(b) \in Int
        BY <3>4 DEF Signed
      <4> QED  BY <3>4, <4>1
    <3>8. \A v \in Int, e \in Nat \ {0} : Clamp(v, e) = Pointer!Stop(v, e)
      BY DEF Clamp, Pointer!Stop
    <3>9. /\ VGA_WIDTH \in Nat \ {0} /\ VGA_HEIGHT \in Nat \ {0}
          /\ g_mouse_x_pos \in Int /\ g_mouse_y_pos \in Int
      <4>1. VGA_WIDTH \in Nat \ {0} /\ VGA_HEIGHT \in Nat \ {0}
        BY Ps2Assumption
      <4> QED  BY <4>1 DEF TypeOK
    <3> HIDE DEF dx, dy
    <3>10. /\ at'[1] = Pointer!Stop(at[1] + Head(Made(moves))[1], VGA_WIDTH)
           /\ at'[2] = Pointer!Stop(at[2] + Head(Made(moves))[2], VGA_HEIGHT)
      <4>1. g_mouse_x_pos' = Pointer!Stop(g_mouse_x_pos + dx, VGA_WIDTH)
        <5>1. g_mouse_x_pos + dx \in Int
          BY <3>7, <3>9
        <5> QED  BY <3>1, <3>8, <3>9, <5>1 DEF dx
      <4>2. g_mouse_y_pos' = Pointer!Stop(g_mouse_y_pos + (- dy), VGA_HEIGHT)
        <5>1. g_mouse_y_pos - dy \in Int /\ g_mouse_y_pos - dy = g_mouse_y_pos + (- dy)
          BY <3>7, <3>9
        <5> QED  BY <3>1, <3>8, <3>9, <5>1 DEF dy
      <4> QED  BY <3>6, <4>1, <4>2
    <3>11. /\ Made(moves) # <<>> /\ Made(moves') = Tail(Made(moves))
      BY <3>1, <3>4, <3>5, MotionTaken
    <3>12. Pointer!Take
      BY <3>10, <3>11 DEF Pointer!Take, Made
    <3> QED  BY <3>12 DEF Pointer!Next
  <2>5. CASE \/ mouse_init \/ Interrupt \/ keyboard_handler \/ NoHandler \/ Return
             \/ \E d \in DOMAIN queue : Deliver(d)
             \/ \E b \in Codes : KeyEvent(b)
             \/ UNCHANGED vars
    <3>1. UNCHANGED <<moves, g_mouse_x_pos, g_mouse_y_pos>>
      BY <2>5 DEF mouse_init, EnableMouse, SendToKeyboard, SendToMouse, AskCommand, WriteCommand,
                  Wait, Read, Register, Interrupt, keyboard_handler, NoHandler, Return, Deliver,
                  KeyEvent, vars, mouseVars
    <3> QED  BY <2>1, <3>1
  <2> QED  BY <2>2, <2>3, <2>4, <2>5 DEF Next, isr_irq_handler
<1>3. IInv /\ [Next]_vars
        => [Pointer!Next]_<<[k \in 1 .. Len(moves) |-> MotionOf(moves[k])], at>>
  BY <1>2 DEF Made
<1> QED  BY <1>1, <1>3, IInvAlways, PTL DEF Spec, PointingSpec, Pointer!Spec
=============================================================================
