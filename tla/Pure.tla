-------------------------------- MODULE Pure --------------------------------
(***************************************************************************)
(* The pure parts over given inputs: every state is one input of one part, *)
(* and the invariants say what the code computes from it.                  *)
(***************************************************************************)
EXTENDS IdePorts, Frames, Fat12, Format, CStrings

CONSTANTS Accesses,        \* requests to ide_ata_access
          Segments,        \* what gdt_set_entry is given
          StubTables,      \* where the stubs of the vectors are
          Interruptions,   \* a vector, the registers it interrupts, an error code
          Files,           \* a file and the image of its disk, see Fat12
          Memories,        \* a memory and the addresses of two strings in it
          Formats,         \* texts, in pieces as Format has them
          Numbers,         \* what printf_number converts
          Ints,            \* what itoa converts
          WORD             \* the number of values of an int: 2^32

\* Numbers of 32 bits, and such words as pairs of halves.
Address == {n \in Nat : n \div W3 \in Byte}
Words == [hi : Half, lo : Half]
INT_MAX == 2147483647

\* Both strings end, and the one at src does not reach what the one at dst becomes
\* when it is put after it.
RoomFor(x) ==
  \E top \in DOMAIN x.memory : \E d, s \in 0 .. top :
    /\ x.memory \in [0 .. top -> Byte] /\ x.dst \in 0 .. d /\ x.src \in 0 .. s
    /\ x.memory[d] = 0 /\ x.memory[s] = 0
    /\ LET end == d + (s - x.src) IN end < x.src \/ (s < x.dst /\ end <= top)

ASSUME PureAssumption ==
  /\ \A x \in Accesses :
       x \in [lba : Address, lbaCapable : BOOLEAN, num : Byte \ {0},
              channel : 0..1, drive : 0..1, dir : {"read", "write"}]
  /\ \A x \in Segments : x \in [base : Words, limit : Words, gran : Byte]
  /\ \A entry \in StubTables : \A v \in Vectors : entry[v] \in Words
  /\ \A x \in Interruptions : IsInterruption(x)
  /\ \A x \in Files : IsOnDisk(x)
  /\ \A x \in Memories : RoomFor(x)
  /\ \A x \in Formats : /\ Len(x) \in Nat /\ DOMAIN x = 1 .. Len(x)
                        /\ \A k \in DOMAIN x : IsPiece(x[k])
  /\ \A x \in Numbers : x \in Int /\ x <= INT_MAX
  /\ WORD \in Nat \ {0}
  /\ \A x \in Ints : x \in [base : {"d", "u", "x"},
                            number : -(WORD \div 2) .. (WORD \div 2 - 1)]

VARIABLES part, input   \* which part, and what it is given
vars == <<part, input>>

Init == part = "none" /\ input = <<>>

Give(name, inputs) == part = "none" /\ part' = name /\ input' \in inputs

Access     == Give("lba", Accesses)
Load       == Give("gdt", Segments)
Boot       == Give("idt", StubTables)
Interrupt  == Give("frame", Interruptions)
ReadFile   == Give("fat", Files)
CopyString == Give("string", Memories)
Show       == Give("format", Formats)
Convert    == Give("number", Numbers)
Spell      == Give("itoa", Ints)

Next == \/ Access \/ Load \/ Boot \/ Interrupt \/ ReadFile
        \/ CopyString \/ Show \/ Convert \/ Spell

Spec == Init /\ [][Next]_vars

-----------------------------------------------------------------------------
\* Through the ports of its channel, and only of its channel, the drive that was meant
\* gets the command that was meant, for the address and number of sectors that were
\* meant, and the command last; an identification block comes whole from its data port.
\* The writes of CONTROL in between, which reach no drive, are not needed for it.
CommandReachesDrive ==
  part = "lba" /\ (input.lbaCapable \/ input.lba >= LBA28Limit \/ input.lba < CHSLimit) =>
    LET made  == ide_ata_access(input)
        ch    == input.channel
        other == g_ide_channels[1 - ch].base
        block == ide_read_buffer(ch, DATA, 128)
    IN  /\ Executed(ch, made) = [dir |-> input.dir, drive |-> input.drive,
                                 num |-> input.num, high |-> <<0, 0>>, lba |-> input.lba]
        /\ made[Len(made)].port = g_ide_channels[ch].base + COMMAND
        /\ \A s \in {made, block} : \A k \in DOMAIN s : s[k].port \notin other .. other + 7
        /\ 4 * Len(block) = 512
        /\ \A k \in DOMAIN block : block[k] = In(g_ide_channels[ch].base)

\* The processor finds the base, the flags and the low 20 bits of the limit that
\* gdt_set_entry was given, although the entry scatters them.
SegmentsDecode ==
  part = "gdt" =>
    LET s == Segment(gdt_set_entry(input.base, input.limit, 154, input.gran))
    IN  /\ s.base = input.base /\ s.flags = input.gran \div 16
        /\ s.limit = Word(input.limit.hi % 16, input.limit.lo)

\* Every interrupt the controllers can raise reaches its own stub, in a code segment that
\* covers all addresses, with the interrupts off; and the number the stub pushes is
\* the one the drivers register their handlers under and the end of interrupt tells
\* master from slave by.
InterruptsReachHandlers ==
  part = "idt" =>
    \A n \in 0..15 :
      LET gate == Gate(g_idt(input)[Vector(n)])
          code == Segment(g_gdt[gate.selector \div 8])
      IN  /\ Vector(n) \in Vectors /\ gate.present /\ gate.clearsIF
          /\ gate.offset = input[Vector(n)]
          /\ code.present /\ code.code /\ code.dpl = 0 /\ CoversAll(code)
          /\ Pushed(n) = Vector(n) /\ Pushed(n) = IRQ_BASE + n
          /\ EndsSlave(Pushed(n)) <=> n >= 8

\* main prints the sectors of the file in order and no more bytes than they hold, or ends
\* with the status of the first thing that is missing or cannot be read, in the middle
\* of the file as well; a name that only the slots past the directory's entries have is
\* a file that is missing.  readFile fills whole clusters: on volumes with one sector to a cluster
\* what it reads fits what main allocated.  (With more there is room for one sector of
\* the last cluster only.)
FilePrinted ==
  part = "fat" =>
    LET disk   == input.disk
        bs     == disk.bs
        limit  == Len(input.chain)
        whole  == [s \in 1 .. Len(input.chain) * bs.SectorsPerCluster |->
                     SectorOf(bs, input.chain, s - 1)]
        bad(S) == S \cap disk.unreadable # {}
        fats   == bs.ReservedSectors + bs.FatCount * bs.SectorsPerFat
        r      == main(input.argc, disk, input.name, limit)
        none   == main(input.argc, disk, input.absent, limit)
    IN  /\ r.status = IF input.argc < 3 \/ ~ disk.opens THEN -1
                      ELSE IF bad({0}) THEN -2
                      ELSE IF bad(bs.ReservedSectors ..
                                  bs.ReservedSectors + bs.SectorsPerFat - 1) THEN -3
                      ELSE IF bad(fats .. DataStart(bs) - 1) THEN -4
                      ELSE IF bad({whole[s] : s \in DOMAIN whole}) THEN -5 ELSE 0
        /\ r.status = 0 => /\ r.sectors = whole /\ r.bytes = input.size
                           /\ r.bytes <= Len(r.sectors) * bs.BytesPerSector
        /\ none.status = IF r.status \in -4 .. -1 THEN r.status ELSE -5
        /\ bs.SectorsPerCluster = 1 =>
             Len(readFile(disk, input.chain[1], limit).sectors) * bs.BytesPerSector
               <= BufferBytes(bs, input.size)

\* strcpy and strcat, as loops over memory, leave at the destination the text of the
\* source, after what was there for strcat, with its NUL and nothing beyond it
\* touched; strcmp says 0 for equal texts only, also when one begins the other.
StringsBehaveAsTexts ==
  part = "string" =>
    LET m    == input.memory
        dst  == input.dst
        src  == input.src
        to   == StringAt(m, dst)
        from == StringAt(m, src)
        copy == strcpy(m, dst, src)
        cat  == strcat(m, dst, src)
        kept(now, n) == \A a \in DOMAIN m \ (dst .. dst + n) : now[a] = m[a]
    IN  /\ StringAt(copy.memory, dst) = from /\ copy.length = Len(from)
        /\ kept(copy.memory, Len(from))
        /\ StringAt(cat, dst) = to \o from
        /\ kept(cat, Len(to) + Len(from))
        /\ (strcmp(m, dst, src) = 0) <=> (to = from)

\* Whatever interrupts the kernel, its handler finds the number of the vector, the
\* interrupted registers and the processor's error code, or 0, each under its own name in
\* REGISTERS: ds is in the lower half of its word, beside what eax had in its upper half,
\* and esp is where the words of the processor and the stub end, 20 bytes below the
\* interrupted one.  An exception gets no further than its screen; after any other handler
\* the kernel goes on with the registers, the segments and the stack it had, and an
\* interrupt of the controllers, no other, has been ended.  The alignment check has its
\* frame one word off, which its screen does not show.
FrameSeenAndRestored ==
  part = "frame" =>
    LET v     == input.vector
        regs  == input.regs
        stack == Entered(v, regs, input.code)
        seen  == Seen(stack)
        code  == IF v \in WithErrorCode THEN input.code ELSE 0
        done  == Handled(v, seen, [n \in Vectors |-> n])
    IN  /\ seen.int_no = v
        /\ v # 17 => /\ seen.err_code = code
                     /\ seen.ds % HALF = regs.ds /\ seen.esp = regs.esp - 20
                     /\ \A m \in MemberNames \ {"int_no", "err_code", "ds", "esp"} :
                          seen[m] = regs[m]
        /\ v < 32 => done = [halted |-> TRUE, message |-> v]
        /\ v >= 32 => /\ done = [halted |-> FALSE, called |-> v,
                                 ended  |-> {v} \cap {Vector(n) : n \in 0..15}]
                      /\ Returned(stack) = [regs |-> [r \in Restored |-> regs[r]],
                                            left |-> 0]

\* printf shows the plain text and each string or character argument in its place and
\* in order, whatever lengths the directives have.  A number is shown as the address
\* of the argument, and the directive after it takes the same argument.
FormatShown ==
  part = "format" =>
    printf(Joined([k \in DOMAIN input |-> Text(input[k])]))
      = Joined([k \in DOMAIN input |-> Shown(input, k)])

\* A number becomes the digits of its value, without leading zeros: a positive one in
\* printf_number's buffer, where they fit with the NUL; any int in itoa's, down to the
\* smallest, the sign apart from the digits it turns round, and without a sign a
\* negative number as the unsigned one with its bits.
NumbersSpelled ==
  /\ part = "number" /\ input > 0 =>
       LET digits == intToStr(input, <<0>>)
       IN  /\ ValueOf(digits, 10) = input
           /\ digits[1] # 0 /\ Len(digits) + 1 <= 12
  /\ part = "itoa" =>
       LET text == itoa(input.base, input.number, WORD)
       IN  /\ Value(text, IF input.base = "x" THEN 16 ELSE 10)
                = IF input.base = "d" THEN input.number ELSE input.number % WORD
           /\ Len(text) > 1 => text[1] # 48
=============================================================================
