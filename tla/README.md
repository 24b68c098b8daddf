# VDK in TLA+

A verification project for the VDK kernel (`src/`): TLA+ modules of its drivers and
of its file layer, TLC runs on small instances, and theorems checked by TLAPS.

VDK is a single-processor 32-bit x86 kernel in C, compiled without optimisation
(`Makefile`).  One thread, `kmain`, initialises the machine, writes two files to the
disk and then serves a command line for ever.  The only concurrency inside the kernel
is between that thread and the interrupt handlers; outside it are the keyboard, the
mouse and the disk, which work at their own pace and may fail.

## 1. Inventory

| component | code | state it keeps | operations | what is hard | what makes it correct |
|---|---|---|---|---|---|
| keyboard driver | `libkern/keyboard.c` | `g_ch`, `g_scan_code`, `g_caps_lock`, `g_shift_pressed` | IRQ1 `keyboard_handler`; `kb_getchar`, `kb_get_scancode` | handler and reader share two globals without masking | a keystroke is delivered once, in order, unaltered; the modifiers mean what the key caps say |
| ATA driver | `libkern/ide.c` | `g_ide_devices`, `g_ide_channels`, the drive's registers | `ide_read_sectors`, `ide_write_sectors`, `ide_ata_access`, `ide_polling`, `ide_print_error`, `ide_init`, `ata_get_drive_by_model` | the disk is a second process: busy times, errors, a write cache, power loss; detection without time-outs; 32-bit address arithmetic; the order of the register writes | what is read is what is stored; a write stays in its range; the register protocol is kept; errors are reported; the table lists the drives that are there |
| file layer | `osfs/fs.c` | `entries[12]`, two sectors per file | `VD_Open`, `VD_Write`, `VD_WriteData`, `VD_ReadData`, `VD_Read` | ignored results, table lost at restart, names that are not there | files do not interfere; what is read is what was last written |
| terminal | `libsa/stdio.c` | cursor, video memory, `terminal_buffer` | `terminal_initialize`, `bsod_initialize`, `terminal_putchar`, `terminal_scroll`, `printf` | the mouse interrupt resets the cursor in the middle of a character; an exception finds it anywhere | every character lands on the screen; the screen is the tail of what was printed |
| mouse driver | `libkern/mouse.c` | `mouse_cycle`, `mouse_byte`, position | `mouse_init`, IRQ12 `mouse_handler` | three-byte packets with no resynchronisation, a controller shared with the keyboard | packets are decoded from the right three bytes; the position stays on the screen |
| interrupt dispatch | `libkern/isr.c`, `irq.asm`, `exception.asm`, `8259_pic.c` | `g_interrupt_handlers`, the PIC's in-service bits, the frame on the stack | stubs, dispatch, registration, end of interrupt, fatal exceptions | the mouse ends its interrupt twice; some exceptions push an error code | an interrupt is ended once, its own; the handler sees the interrupted registers |
| command line | `libsa/main.c` | `buffer`, `buffer_index`, `isArg`, `CMDecho`, `CMDread`, `CMDarg1` | `kmain`'s loop | flags carried from one line to the next; NUL characters from the keyboard | the argument goes to the command that asked for it; the buffer is not overrun |
| descriptor tables | `libkern/gdt.c`, `idt.c` | `g_gdt`, `g_idt` | `gdt_set_entry`, `idt_set_entry` | bit fields split over the entry | the processor decodes what was passed in |
| formatted output | `libsa/stdio.c` `printf`, `intToStr` | none | state machine over the format | zero, negative numbers, which argument is printed | the decimal text of the argument |
| FAT reader | `tools/fat/fat.c` (host tool) | boot sector, FAT, root directory | `readFat`, `readRootDirectory`, `findFile`, `readFile`, `main` | cluster chains, 12-bit entries, a buffer of the file's size, five error exits | the file's bytes are printed, or the exit code says which step failed |
| C library helpers | `libsa/string.c` | none | `strlen`, `strcpy`, `strcat`, `strcmp`, `memcpy`, `itoa` | ends, overlaps, signs | what their names say |
| port I/O, boot, linker script | `ioport.c`, `boot.asm`, `linker.ld` | none | one instruction each | | |
| vSh and system calls | `libsyscall/` | `history.h` only | mostly stubs | not compiled by the Makefile | |
| loader, media tool | `osfs/exec.*`, `tools/media_creator.c` | none | stubs | | |

Interactions: the PIC raises IRQ1 and IRQ12; `irq.asm` disables interrupts and calls
`isr_irq_handler`, which calls the registered handler, so handlers are atomic with
respect to `kmain` and to each other.  `keyboard_handler` gives a character to
`kb_getchar` through a global; `kmain` collects a line, calls the file layer and the
terminal; the file layer calls the disk driver and ignores what it returns; the mouse
handler calls the terminal from inside an interrupt.

The hazards, with the lines where they bite and the properties about them, are `hazards`
in `PROJECT.json`.

## 2. Modules

| module | models | how it corresponds to the code |
|---|---|---|
| `KeyMap` | scan-code table, `isalpha`, `upper`, `alternate_chars`, the `default` branch of the handler | pure; characters are ASCII codes |
| `Keyboard` | `keyboard.c` | the handler is one action, with one disjunct per branch of its `switch`; each access of a read to a global is an action, since an interrupt can come between any two |
| `KeyMailbox` | what a reader is promised: a lossy mailbox of one keystroke | abstract; `Keyboard!MailboxSpec` is the refinement |
| `Ata` | `ide_read_sectors`, `ide_write_sectors`, `ide_ata_access`, `ide_polling`, `ide_print_error`, and the disk | an action is what the driver does between two points where the disk may act; the disk (external) busies itself, offers or wants a sector, fails, caches, writes back, loses power |
| `BlockDevice` | what the file layer is promised | abstract; `Ata!BlockDeviceSpec` is the refinement |
| `IdeInit` | `ide_init` against four devices | an action is one position's select and command, one poll, one read of an identification block, or a device's answer; the devices are external |
| `DriveTable` | the entry `ide_init` makes of an identification block; `ata_get_drive_by_model` | pure |
| `LbaModes` | the addressing part of `ide_ata_access` | pure: from an address to the task file and back as the drive reads it |
| `IdePorts` | `ide_write`, `ata_init`'s channels, and the register writes of a command | pure: from a command to the port accesses in their order, and back as the disk decodes them |
| `Storage` | `fs.c` on the disk driver | each operation is split at its driver call: begin, the driver's own steps, return, or a loss of power in between |
| `Vdfs` | `fs.c` with each operation as one action, and the way `kmain` uses it | abstract to `Storage`, detailed to `FileStore` |
| `FileStore` | what the command line is promised: named files that do not interfere | abstract; `Vdfs!FileStoreSpec` is the refinement |
| `Terminal` | `terminal_initialize`, `bsod_initialize`, `terminal_putchar`, `terminal_scroll`, and the drawing of `mouse_handler` | each access to the cursor is an action (`row++` is a load and a store, the test reloads), the copying loop goes row by row; the handler is one action, and so is an exception, whose screen is the last |
| `Ps2` | `mouse.c`, `isr_irq_handler`, `pic8259_eoi`, `get_scancode` | an action is one port access of `mouse_init`, one part of an interrupt (acknowledge, handler, end), or something a device does; the PS/2 controller, the PICs and the devices are external |
| `Pointing` | what the mouse driver does, a motion at a time | abstract; `Ps2!PointingSpec` is the refinement |
| `Shell` | the loop of `kmain` | one action per character `kb_getchar` returns; Enter goes through the four steps of the code as a composition of functions on the flags |
| `Console` | `Keyboard` and `Shell` together | a character reaches the loop only through the driver's mailbox, with key events between any two accesses of the read |
| `LineShell` | the command line, a line at a time | abstract; `Shell!LineShellSpec` is the refinement |
| `Descriptors` | `gdt.c`, `idt.c`, the vectors of `8259_pic.c` and `irq.asm` | pure: the entries, and how the processor reads them |
| `Frames` | the stubs of `exception.asm` and `irq.asm`, `struct REGISTERS`, `isr_exception_handler`, `isr_irq_handler` | pure: from the interrupted registers (numbers) to the stack, to the frame the handler sees, and back through `iret`; `pusha` pushes the esp it finds, ds shares its word with the upper half of eax |
| `Fat12` | all of `tools/fat/fat.c` | pure: from a volume and the arguments to what is printed and the exit code; the loop is a function of its turns; at the end what a FAT12 volume with a file on it is |
| `CStrings` | `libsa/string.c`, `strlen` | pure, over a memory: the accesses of each C loop in their order; a loop ends at the first turn at which its condition fails |
| `Format` | `printf`, `printf_number`, `intToStr` | pure: from a format to what is printed; the loop is a fold |
| `Numerals` | the digit loops of `intToStr` and `itoa` | pure: digits of a number, last first, their reversal, and the number that digits stand for |
| `Pure` | the pure parts together | one action gives a part an input; the properties say what the part makes of it, and `PureAssumption` what an input is |
| `MC*` | instances for TLC | |
| `*Proofs` | theorems and their proofs | |

Composition: `Console` composes the keyboard driver with the command line and keeps the
promise of `LineShell`; `Storage` composes the file layer with `BlockDevice`, which `Ata`
implements, and implements `Vdfs`, which implements `FileStore`.  Three refinements in a row
thus lead from the file names of `kmain` to the disk: an operation of `fs.c` may be taken as
one step although the driver works, caches and loses power in the middle of it, because only
`kmain` calls it and nothing is read from the disk but through it.  `Keyboard` takes for
granted that IRQ1 comes with a byte in the controller, which `Ps2!HandlersReadOwnByte`
shows; `Keyboard`, `Terminal` and `Ps2` take handlers to be atomic, which
`InterruptsReachHandlers` shows (every gate clears the interrupt flag).  `IdeInit` assumes
that the two drives of a channel do not disturb each other: the one that is not selected
does not answer.

Conventions: definitions keep the names of the code.  A definition whose name has a
suffix, such as `GetcharClear_Forgets`, is a plausible slip in the definition after it
and is not used: replacing the one by the other must break the property that
`PROJECT.json` names under `mutants`.  History variables, which the code does not have, are
`typed`, `taken` and `handed` (`Keyboard`; `struck` is its `typed` in `Console`), `typed`
(`Shell`), `answered` (`Console`), `failed` (`Ata`), `printed` and `moused` (`Terminal`),
`asked` and `out` (`Vdfs`), `moves`, `sent` and `early` (`Ps2`), `missed` and `early`
(`IdeInit`).

## 3. Runs

| run | question | instance and bounds | result |
|---|---|---|---|
| `keyboard` | do the two globals stay consistent, is the mailbox specification implemented, does it drain? | a letter, a digit, a key without a character, enter, the two modifiers, a release; both reads; `MaxBytes` = 4 interrupts, enough for one before, two during and one after a read | holds |
| `keyboard_phantom` | does `kb_getchar` return a character? | 3 interrupts | violated: a key release between the test and the read makes it return 0 |
| `console` | do arguments reach their commands, and lines what was typed, on the real driver? | two keys, Enter, shift and a release; five key events, each between any two accesses of a read, so that a read is interrupted, a line ends and its argument is asked for; a buffer of three and lines of up to 6 characters, so that it overflows; commands that are each other's prefixes | holds |
| `pure` | do the pure parts compute what they should? | 20 addresses each side of every boundary of bytes, tracks, cylinders, CHS, LBA28, and the top of TLC's integers; reads and writes of 1 and 255 sectors on either drive of either channel; segments from boundary words; every vector, with registers that all differ; volumes of four clusters with every chain of up to three, one and two sectors a cluster, one to three directory entries, one unreadable sector anywhere, a volume that does not open, too few arguments, a name that is in no entry or only in a slot past the last one; every format of up to three pieces; numbers around the powers of ten and of the base; every memory of two short strings, the destination in front of the source or behind it | holds |
| `detect` | does `ide_init` list the drives that are there, and end? | every choice of eight attachments (none, a floating bus, two disks, two packet devices, another and a faulty device) for four positions, each answering early or late | holds |
| `ata` | are the driver and the disk a block device, is the protocol kept, does every call return? | two sectors, two contents, calls of one and two sectors at 0, 1 and 7 in a word of 8 (so the range check wraps), a disk, a CD-ROM and an absent drive, two error registers, a failure or a loss of power at any time | holds |
| `ata_write_lost` | is a write that returned 0 on the platters? | one disk | violated: results of the write path are dropped, and the flush is sent to a busy disk |
| `storage` | are the two files independent and found, with a driver that works while they wait? | `kmain`'s files at sectors 1 and 3 of five, two slots (so that repeated writes fill the table), an absent and an empty name, failing calls, write-backs, a loss of power at any step | holds |
| `vdfs_absent_read` | does `read X` print only files? | the same | violated: an absent name reads sector 0 |
| `terminal` | does every character land on the screen, and is the screen the tail of what was printed? | 2 x 3 cells, two characters and newline; `MaxPrinted` = 7 characters before the mouse moves (a full screen and one), no bound after; packets at every position the clamp allows, texts of 0 and 2; an exception anywhere | holds |
| `ps2` | does each handler get its own bytes, the pointer whole packets, and does `mouse_init` end? | three key events and three packets at any time from boot on, packets of eight-bit motions, one with a byte that reads as an acknowledgement; prompt interrupts and timely answers | holds |
| `ps2_command` | does `mouse_init` keep the command byte? | one key event | violated: the scan code is written back |

Deadlock checking is off where a run ends at a bound (`keyboard*`, `console`, `terminal`,
`ps2*`), when detection has ended (`detect`), or after its one step (`pure`).  The passing
runs have between 50 and 350 thousand distinct states; none takes more than a minute and a
half.

`Ps2` has two assumptions of the hardware as constants.  `Prompt`: an interrupt is taken
before the next port access of `kmain`, which is so when the line rises with the status
bit.  `Timely`: no device answers later than the 100000 port reads of `mouse_wait`.  With
either `FALSE`, TLC finds `PointingSpec` violated: an acknowledgement is read by polling and
its interrupt then runs `mouse_handler` on the empty buffer, or a late acknowledgement is
taken for the first byte of a packet.  `InterruptsEnded` holds in all cases.  The end of
`get_scancode`'s wait without a byte, when its count overflows, is in `keyboard_handler`, and
only met without `Prompt`.

Some properties except, by a history variable, exactly the case the code gets wrong, so that
they hold and say how far the trouble goes.  `TableListsDrives` and `DiskFoundByName` except
packet devices that show status 0 when they are first polled (they are not listed) or that
are not ready when their data is read (their name and size are garbage).  `DetectionEnds`
excepts a faulty device, which raises neither ERR nor DRQ and keeps ide.c:260 looping.
`InputTaken` excepts a packet whose interrupt comes between the mouse's last acknowledgement
(mouse.c:198) and the registration of the handler (`early`): its byte stays in the buffer
and stops all input with it.  And it excepts a command byte written back with
the keyboard's interrupt off (the violation of `ps2_command`).

**Fairness.**  `Keyboard!FairSpec` has weak fairness of the reader only: handlers
return, and the loop of `kb_getchar` is a busy loop of a thread that is never descheduled.
Nothing is assumed of the keyboard, nor is it in `Console!FairConsole`.  `Ata!FairSpec` has
weak fairness of the driver, for the same reason, and of the disk while it is busy: it
answers or fails.  The driver has no time-out, so without the second assumption no call need return.  `IdeInit!FairSpec` is the
same for detection: the driver runs, and a device that was sent a command answers, except a
faulty one.  `Ps2!FairSpec` has `mouse_init` (whose waits end by counting), a pending and
admitted interrupt, the return of a handler, and a device that has something to deliver
into an empty buffer; not the keys or the motions.

### What the violations say

* `kb_getchar` (keyboard.c:132-135) tests `g_ch`, reads it again, and clears it, with
  interrupts enabled.  Between the test and the read any key event first sets `g_ch` to 0
  (keyboard.c:70); a break code leaves it there.  The "blocking character read" returns 0.
* `ide_ata_access` never looks at the status after a write (ide.c:449, 458), and its flush
  follows the last data word at once (ide.c:457), while the disk is busy with it; the 400 ns
  wait and the poll come after the command, not before.  Either way a write returns 0 with
  its data not on the platters.
* `VD_Open` returns `FirstSector` -1 for a missing file and `VD_ReadData` adds 1.
* The answers to `mouse_init`'s commands to the controller and to the keyboard (0xF2, 0xF3
  and the rate are sent without 0xD4, so they reach the keyboard) raise IRQ1, and
  `keyboard_handler` takes them.  `mouse_read` times out and reads the last byte again, which
  is the wanted one unless a key event came in between.

Reported in `PROJECT.json` under `findings`.  Other disagreements have no run.
`printf_number` (stdio.c:263) converts the pointer to its argument, so the drive number that
ide.c:328 prints is an address.  main.c:144 lists `echo X`, but a line `echo X` is
unrecognized: the argument is asked for on the next line.  fs.h:12 calls `FirstSector` the
"First sector, which sector data is stored in": the data is one sector further on
(`Vdfs!DataSector`).  ide.c:238 says it disables the disks' interrupts, but `ide_write` adds
2 to the control port for the registers from 0x0C on (`IdePorts`): the bit goes to 0x3F8 and
0x378, and the disks do interrupt; the dispatcher only ends those interrupts.
`exception_17` (exception.asm) pushes a dummy error code although the processor pushes one,
so that its handler, which does not return, shows registers one word off (`Frames`).  A file
on a volume with more than one sector to a cluster may be read past its buffer (`Fat12`;
the buffer part of `FilePrinted` is about one).

## 4. Proofs

All are for every value of the constants, under the named `ASSUME` of the module.

* `KeyboardProofs`.  `TypeCorrect`, then `ModifiersMeanXor`, `MailboxesStayInStep` and
  `MailboxHoldsNewest` on top of it, and `ImplementsMailbox`, a step simulation.  The
  lemmas about `KeyMap` (range of the table, letters have no alternate) carry the
  arithmetic of characters.  The types are split in two, the two Boolean flags apart from
  the rest.  `MailboxHoldsNewest` is inductive because `HoldsNewest` excepts the one
  program point where a character has been read and not yet erased; the refinement
  maps that point to an empty mailbox.
* `PureProofs`.  Every property of the run `pure`, for every input that `PureAssumption`
  admits.  `CommandsReachDrives` rests on `DriveDecodesLba` and `RegistersAreBytes`, for
  every 32-bit address (TLC stops at 2^31), by quotients: a byte of a number is a difference
  of two successive quotients.  The condition for drives without LBA, `lba < CHSLimit`, is
  needed: above it the 16-bit cylinder loses bits.  On top of that `Leaves` follows the port
  accesses: what they leave in a register and its high-order byte, access by access, with
  none to the other channel.  `SegmentsAlwaysDecode` and `InterruptsAlwaysReachHandlers`
  take the fields of an entry apart again; `FramesAlwaysRestored` follows a word of the
  stack by its depth (`Deep`) through the pushes of the stub and back, the registers replaced
  by the words that are pushed for them (`Shifted`); `IsInterruption` asks for data segments
  that are one selector, as load_gdt.asm leaves them.  The other four
  are about loops.  What a loop or a recursive function computes is shown by induction on
  its turns; the library's theorems of induction take an operator, so the module states
  what it needs of them for sets, from the library's theorem of least elements
  (`HasLeast`, `Induction`), that a function so defined exists (`Recursion`, `LoopExists`)
  and that two loops that start alike and keep alike are alike (`LoopsAgree`).
  `NumbersAlwaysSpelled`: the digits sum up to the number (`DigitsSpell`), ten are enough
  for an `int`, and the smallest `int` is spelled as well.  `StringsAlwaysTexts`: a copy that
  goes up never reads what it has written (`RoomFor`: neither string
  reaches into the other, the joined one included), so it copies the source as it was, NUL included.
  `FormatsAlwaysShown`: between two pieces of the format `printf` is in its first state,
  and `Takes` counts the arguments taken.  `FilesAlwaysPrinted`: the 12-bit entries
  come out of the bytes as they went in (`NextIs`), each turn adds the sectors of
  the next cluster (`WholeGrows`), and the loop ends after the chain or at the first cluster
  that cannot be read (`ReadsChain`).  `IsOnDisk` asks of the volume that a directory entry
  is no larger than a sector, that the file is in one of the `DirEntryCount` entries (fat.c:97
  looks no further), and that the chain is one: no theorem is about a volume
  whose chain comes back to itself (section 5).
* `TerminalProofs`.  `CursorStaysInBounds`, for a screen of any size, exceptions included.
  The invariant `TypeOK /\ CursorInBounds` is inductive as it is: it says at which program
  points the cursor may be one past an edge, and that the register of an increment never
  is, which is what an interrupt between load and store could break.
  `ScreenIsTail`: the screen shows the last lines of what was printed.  `Paper`, the reference,
  is a function defined from itself: that it exists (`PaperLaysOut`), that what is appended
  leaves the places before it (`PaperAppend`) and that no two characters share a place
  (`PaperAdvances`) are inductions over the text, each by the least position where it would
  fail, which the library's theorem on well-founded orders gives (`HasLeast`).  `TailInv` then
  says at each program point whether cursor and rows belong to the text before the character
  in work or after it; in the scroll, row by row.
* `ShellProofs`.  `TypeCorrect` and `OneArgument` are one induction: only with the flags
  right is it known which steps of a line run.  `ImplementsLines` adds `BufferHoldsTyped`
  (the buffer is what was typed, as far as it goes), from which the line in the buffer is
  the line typed, cut (`LineIsCut`); that its first NUL exists rests on the library's
  theorem of least elements of a well-founded order.  The properties are checked in the run
  `console`, where the characters come from the driver.  That composition is proved in three
  steps.  `KeystrokesDeliveredOnce` takes the driver's promises from `KeyboardProofs`
  (`KP`, with `typed` renamed to `struck`).  `ShellRuns`: the loop gets only characters of
  its alphabet (`CharInv`), so every behaviour of `Console` is one of `Shell`, whose
  theorems then hold of it (`ShellPromisesKept`).  `LinesAreTyped` needs `LineInv`, which
  carries one place in what was struck for every visible character of the line, and the
  place of the one in hand beyond them.

* `StorageProofs`.  `HeadersStayIntact`, `FilesStoreText` and `OperationsAreAtomic`, for
  every disk, number of slots, result of the driver and layout in which the files of
  `kmain` have sectors of their own.  The invariant has the table (a slot is free or holds a file
  of `kmain`, so that a name opens its one file, whichever slot is found first), the call
  that is pending (it is the one the operation made), and the headers, on what the disk shows and on
  what outlives a loss of power: `HeadersIntact` speaks of the first only, but a power
  failure brings the second back.  For `OperationsAreAtomic` the abstract table is ahead by
  the entry whose header `VD_Write` has written but not yet registered.
* `AtaProofs`.  `TypeCorrect`, `ProtocolIsKept`, `WritesInRange` and `DriverIsBlockDevice`.
  The invariant says for each place of the driver what the disk may be doing there (`Phase`,
  in words such as "has offered the i-th sector"), which address it is at, and that what a
  read has received is what the disk stores (`Progress`).  A write has to allow for a disk
  that has given up: the driver goes on with its loop without looking.  `NoCallAssumption`
  says that the model's mark for "no call" is not a call.
* `IdeInitProofs`.  `TypeCorrect`, `DrivesAreListed` and `DiskIsFound`, for every device
  that may be attached and however long it takes.  The invariant is the table for the
  positions that are done (`Table`), which devices have been touched (`Order`) and what the
  device of the current position can be (`Doing`); that the slots count the drives found so
  far (`SlotSteps`) is where cardinalities are needed.  `DeviceAssumption` says of a device
  that its identification block has the sizes and the name it stands for in the model, the
  name not empty, not longer than its field and without trailing spaces.
  The proof of `DiskIsFound` asked for the case of a packet device that was read too early:
  what it left in its slot may read as any name, that of the disk included.
* `Ps2Proofs`.  `TypeCorrect` and `InterruptsAreEnded` without hypotheses (what is in service
  is what is served until the first of the two ends of interrupt).  `HandlersFindTheirByte`
  under `Prompt`: a request stands for the byte in the buffer.  `PointerTakesMotions` under
  `Usual`: interrupts are prompt, answers timely, the firmware leaves the keyboard on with
  its interrupt enabled (BIOSes do), and no key's scan code is 0xFA, the mouse's answer.
  Its invariant follows the bytes: those on their way from the mouse continue those that
  `mouse_byte` holds, and together they are the packets sent, after one acknowledgement at
  most (`InOrder`); the conjuncts around it say why `mouse_init` takes exactly the
  acknowledgements, although `keyboard_handler` takes other answers before it and it then
  reads an old byte.  Without `Prompt`, `Timely`, the keyboard's interrupt enabled or the
  condition on scan codes TLC finds `PointingSpec` violated; that the keyboard is not
  disabled is only used to keep the invariant short.

Only model-checked, and why: liveness (`MailboxDrains`, `EnterAnswered`, `CallsReturn`,
`DetectionEnds`, `InitEnds`, `InputTaken`), which needs ENABLED and is out of the prover's
reach.  Every invariant and every refinement that a passing run checks is a theorem.  The
four properties that runs violate are not, of course.  The runs still check what is proved,
on instances in which the assumptions hold, and the mutants show that the properties can
fail.

## 5. What is not modelled

* The host compiler's freedom: the code is compiled without optimisation, so every access
  in the text is made, in order; no volatile is assumed or needed for that.
* Colours and the wording of messages.
* Interrupts nested in handlers (`irq.asm` disables them) and the time a handler takes.
* `num_sectors` = 0 and drive number 5, which the range checks of `ide_read_sectors` let
  through and no caller passes.
* The waiting of `mouse_wait(true)` (the controller takes a byte at once), and motions that
  need the ninth bit, which mouse.c never reads (mouse.c:114).
* The button bits of a packet, which only choose the text the handler prints.
* A cluster chain that comes back to itself, which `readFile` follows for ever (fat.c:122).
* Functions that nobody calls: `VD_Read`, `ide_wait_irq`, `ide_irq`, `memcmp`, `isspace`,
  `lower`.  (`memcmp` and `strcmp` have opposite conventions for equal.)  `memset` only fills.
* `ioport.asm`, `boot.asm` and the linker script: single instructions.
* `libsyscall/` (vSh), `osfs/exec.*` and `tools/media_creator.c`: never compiled, nearly all
  stubs.  The contents of `build/` are binaries.

## 6. Plan

The operations of the compiled kernel and of the host tool are modelled, and their safety is
proved.  What is left waits for the code: `history.h` of vSh, if it is ever compiled, and
the nine bits of a motion, if mouse.c comes to read the sign (mouse.c:114).
