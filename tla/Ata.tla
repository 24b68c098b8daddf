-------------------------------- MODULE Ata --------------------------------
(***************************************************************************)
(* The ATA driver, libkern/ide.c: ide_read_sectors and ide_write_sectors,  *)
(* the PIO transfer loop of ide_ata_access with its polling, the trailing  *)
(* cache flush and ide_print_error, against an ATA disk.                   *)
(*                                                                         *)
(* The driver polls.  The disk may interrupt, since nIEN never reaches it  *)
(* (IdePorts), but nothing is registered for IRQ 14 and 15 and the         *)
(* dispatcher only ends the interrupt: it shares no state with the driver. *)
(* Only kmain calls the driver, so it is one thread that interleaves with  *)
(* the disk.                                                               *)
(* Each of its actions is what it does between two points where the disk   *)
(* may change what the driver sees next: a status poll, a data transfer or *)
(* a write of the command register.                                        *)
(*                                                                         *)
(* The disk is not in the repository; it is modelled from how ide.c uses   *)
(* it.  It raises BSY when it accepts a command and after each sector it   *)
(* takes or gives, shows DRQ when it offers or wants a sector, ends with   *)
(* ERR or DF when it fails, and ignores the command register while BSY or  *)
(* DRQ is set.  It has a volatile write cache.                             *)
(***************************************************************************)
EXTENDS Integers, Sequences

CONSTANTS WORD,            \* size of a uint32_t: 2^32
          Size,            \* sectors of the disk
          Data,            \* contents of a sector
          Drives,          \* drive numbers the callers pass
          g_ide_devices,   \* what ide_init found in each slot
          Lbas, Counts,    \* arguments of the calls
          ErrorBits,       \* values of the error register
          Leftover,        \* bytes an uninitialised local may hold
          NoCall, NoData

MAXIMUM_IDE_DEVICES == 5
Sector == 0 .. Size - 1

ASSUME AtaAssumption ==
  /\ WORD \in Nat /\ Size \in 1 .. WORD - 1
  /\ Drives \subseteq 0..255
  /\ Lbas \subseteq 0 .. WORD - 1 /\ Counts \subseteq 1..255
  /\ \A d \in 0 .. MAXIMUM_IDE_DEVICES :
        g_ide_devices[d] \in [reserved : {0, 1}, type : {"ATA", "ATAPI"},
                              size : 0 .. WORD - 1]
  /\ \A d \in 0 .. MAXIMUM_IDE_DEVICES :
        g_ide_devices[d].reserved = 1 /\ g_ide_devices[d].type = "ATA"
           => g_ide_devices[d].size = Size
  /\ ErrorBits \subseteq SUBSET {"AMNF", "TK0NF", "ABRT", "MCR", "IDNF", "MC",
                                 "UNC", "BBK"}
  /\ Leftover \subseteq 0..255
  /\ NoData \notin Data

VARIABLES
  \* the driver
  pc, call,      \* where it is; the call it serves
  i, err,        \* the locals of ide_ata_access
  buf,           \* the sectors received so far
  ret,           \* what the last call returned
  \* the disk
  bsy, drq, fault, errreg,  \* status and error registers; fault is "", ERR or DF
  job,           \* the command in progress
  held,          \* the sector in the transfer buffer
  cache, media,  \* volatile cache (NoData where empty) and platters
  \* history
  failed         \* the disk failed a command since the call began

driverVars == <<pc, call, i, err, buf, ret>>
statusVars == <<bsy, drq, fault, errreg>>
diskVars   == <<statusVars, job, held, cache, media, failed>>
vars == <<driverVars, diskVars>>

NoJob == [kind |-> "none", at |-> 0, left |-> 0]

\* What the disk returns for a sector: the cached contents before the platters'.
Stored(s) == IF cache[s] # NoData THEN cache[s] ELSE media[s]

Calls ==
  [dir : {"read"}, drive : Drives, lba : Lbas, num : Counts, data : {<<>>}]
  \cup UNION {[dir : {"write"}, drive : Drives, lba : Lbas, num : {n},
               data : [1..n -> Data]] : n \in Counts}

ASSUME NoCallAssumption == NoCall \notin Calls

Init == /\ pc = "idle" /\ call = NoCall
        /\ i = 0 /\ err = 0 /\ buf = <<>> /\ ret = 0
        /\ bsy = FALSE /\ drq = FALSE /\ fault = "" /\ errreg = {}
        /\ job = NoJob /\ held = NoData /\ failed = FALSE
        /\ cache = [s \in Sector |-> NoData]
        /\ \E d \in Data : media = [s \in Sector |-> d]

(***************************************************************************)
(* The driver.                                                             *)
(***************************************************************************)
Present(d) == d <= MAXIMUM_IDE_DEVICES /\ g_ide_devices[d].reserved = 1

\* lba + num_sectors is computed in 32 bits.
OutOfRange(x) == /\ (x.lba + x.num) % WORD > g_ide_devices[x.drive].size
                 /\ g_ide_devices[x.drive].type = "ATA"

\* What ide_print_error makes of err: of several bits in the error register the
\* last one tested decides.
ErrorCodes == << <<"AMNF", 7>>, <<"TK0NF", 3>>, <<"ABRT", 20>>, <<"MCR", 3>>,
                 <<"IDNF", 21>>, <<"MC", 3>>, <<"UNC", 22>>, <<"BBK", 13>> >>

ide_print_error(e, bits) ==
  LET set == {k \in 1..8 : ErrorCodes[k][1] \in bits} IN
  CASE e = 1 -> 19
    [] e = 2 -> IF set = {} THEN 2
                ELSE ErrorCodes[CHOOSE k \in set : \A j \in set : j <= k][2]
    [] e = 3 -> 23
    [] e = 4 -> 8
    [] OTHER -> e

\* A caller enters ide_read_sectors or ide_write_sectors.
Enter(x) == /\ pc \in {"idle", "returned"}
            /\ pc' = "check" /\ call' = x
            /\ i' = 0 /\ err' = 0 /\ buf' = <<>> /\ ret' = 0
            /\ failed' = FALSE
            /\ UNCHANGED <<statusVars, job, held, cache, media>>

\* The checks they make first.  For an ATAPI drive err is reported although
\* nothing has assigned it.
Check == /\ pc = "check"
         /\ IF ~ Present(call.drive)
            THEN ret' = -1 /\ pc' = "returned" /\ UNCHANGED err
            ELSE IF OutOfRange(call)
            THEN ret' = -2 /\ pc' = "returned" /\ UNCHANGED err
            ELSE IF g_ide_devices[call.drive].type = "ATAPI"
            THEN pc' = "report" /\ err' \in Leftover /\ UNCHANGED ret
            ELSE pc' = "issue" /\ UNCHANGED <<err, ret>>
         /\ UNCHANGED <<call, i, buf, diskVars>>

\* Writing the command register: the disk takes the command only when it is idle.
Command(kind, at, left) ==
  IF bsy \/ drq THEN UNCHANGED <<statusVars, job>>
  ELSE /\ bsy' = TRUE /\ drq' = FALSE /\ fault' = "" /\ errreg' = {}
       /\ job' = [kind |-> kind, at |-> at, left |-> left]

\* Wait until the disk is not busy, select it, write the address, the count and
\* the command.  (LbaModes says what address the disk decodes: lba.)
Issue == /\ pc = "issue" /\ ~ bsy
         /\ Command(call.dir, call.lba, call.num)
         /\ pc' = IF call.dir = "read" THEN "read_poll" ELSE "write_poll"
         /\ UNCHANGED <<call, i, err, buf, ret, held, cache, media, failed>>

\* A plausible slip: the read polls without the advanced check.
ReadPoll_Unchecked == /\ pc = "read_poll" /\ ~ bsy
                      /\ pc' = "read_xfer"
                      /\ UNCHANGED <<call, i, err, buf, ret, diskVars>>

\* A plausible slip: the read waits for DRQ and never looks for an error.
ReadPoll_WaitsForDRQ == /\ pc = "read_poll" /\ ~ bsy /\ drq
                        /\ pc' = "read_xfer"
                        /\ UNCHANGED <<call, i, err, buf, ret, diskVars>>

\* ide_polling(channel, 1): the order of the three tests decides the code.
ReadPoll == /\ pc = "read_poll" /\ ~ bsy
            /\ err' = CASE fault = "ERR" -> 2
                        [] fault = "DF"  -> 1
                        [] fault = "" /\ ~ drq -> 3
                        [] OTHER -> 0
            /\ pc' = IF err' = 0 THEN "read_xfer" ELSE "report"
            /\ UNCHANGED <<call, i, buf, ret, diskVars>>

\* rep insw: 256 words from the data port.  The disk goes on to the next sector.
ReadXfer == /\ pc = "read_xfer"
            /\ buf' = Append(buf, held)
            /\ i' = i + 1
            /\ pc' = IF i' < call.num THEN "read_poll" ELSE "report"
            /\ IF drq
               THEN /\ drq' = FALSE
                    /\ bsy' = (job.left > 1)
                    /\ job' = IF job.left > 1
                              THEN [job EXCEPT !.at = @ + 1, !.left = @ - 1]
                              ELSE NoJob
                    /\ UNCHANGED <<fault, errreg>>
               ELSE UNCHANGED <<statusVars, job>>
            /\ UNCHANGED <<call, err, ret, held, cache, media, failed>>

\* A plausible slip: the write sends its sector without waiting for the disk.
WritePoll_NoWait == /\ pc = "write_poll"
                    /\ pc' = "write_xfer"
                    /\ UNCHANGED <<call, i, err, buf, ret, diskVars>>

\* ide_polling(channel, 0), whose result is not looked at.
WritePoll == /\ pc = "write_poll" /\ ~ bsy
             /\ pc' = "write_xfer"
             /\ UNCHANGED <<call, i, err, buf, ret, diskVars>>

\* A plausible slip: buffer is not advanced and the first sector is sent again.
SectorToSend_First == call.data[1]
SectorToSend == call.data[i + 1]

\* rep outsw: a disk that does not ask for data ignores it.
WriteXfer == /\ pc = "write_xfer"
             /\ i' = i + 1
             /\ pc' = IF i' < call.num THEN "write_poll" ELSE "flush"
             /\ IF drq
                THEN /\ held' = SectorToSend
                     /\ drq' = FALSE /\ bsy' = TRUE
                     /\ job' = [job EXCEPT !.kind = "store"]
                ELSE UNCHANGED <<drq, bsy, held, job>>
             /\ UNCHANGED <<call, err, buf, ret, fault, errreg, cache, media, failed>>

\* The flush command is written without waiting for the disk to be ready for it.
Flush == /\ pc = "flush"
         /\ Command("flush", 0, 0)
         /\ pc' = "flush_poll"
         /\ UNCHANGED <<call, i, err, buf, ret, held, cache, media, failed>>

\* A plausible slip: the write returns without waiting for the disk.
FlushPoll_NoWait == /\ pc = "flush_poll"
                    /\ pc' = "report"
                    /\ UNCHANGED <<call, i, err, buf, ret, diskVars>>

\* ide_polling(channel, 0), result not looked at again.
FlushPoll == /\ pc = "flush_poll" /\ ~ bsy
             /\ pc' = "report"
             /\ UNCHANGED <<call, i, err, buf, ret, diskVars>>

\* return ide_print_error(drive, err)
Report == /\ pc = "report"
          /\ ret' = ide_print_error(err, errreg)
          /\ pc' = "returned"
          /\ UNCHANGED <<call, i, err, buf, diskVars>>

Driver == \/ Check \/ Issue \/ ReadPoll \/ ReadXfer \/ WritePoll \/ WriteXfer
          \/ Flush \/ FlushPoll \/ Report

(***************************************************************************)
(* The disk.                                                               *)
(***************************************************************************)
\* It gives up the command.
Fail == /\ bsy /\ bsy' = FALSE
        /\ drq' = FALSE /\ job' = NoJob /\ failed' = TRUE
        /\ \/ fault' = "ERR" /\ errreg' \in ErrorBits
           \/ fault' = "DF"  /\ errreg' = {}
        /\ UNCHANGED <<driverVars, held, cache, media>>

\* It offers the next sector of a read.
Offer == /\ bsy /\ job.kind = "read" /\ job.at \in Sector
         /\ held' = Stored(job.at)
         /\ bsy' = FALSE /\ drq' = TRUE
         /\ UNCHANGED <<driverVars, fault, errreg, job, cache, media, failed>>

\* It asks for the next sector of a write.
Ask == /\ bsy /\ job.kind = "write" /\ job.at \in Sector
       /\ bsy' = FALSE /\ drq' = TRUE
       /\ UNCHANGED <<driverVars, fault, errreg, job, held, cache, media, failed>>

\* It puts the sector it was sent into the cache.
Keep == /\ bsy /\ job.kind = "store"
        /\ cache' = [cache EXCEPT ![job.at] = held]
        /\ IF job.left > 1
           THEN /\ job' = [kind |-> "write", at |-> job.at + 1,
                           left |-> job.left - 1]
                /\ UNCHANGED bsy
           ELSE job' = NoJob /\ bsy' = FALSE
        /\ UNCHANGED <<driverVars, drq, fault, errreg, held, media, failed>>

\* It obeys a flush.
Sync == /\ bsy /\ job.kind = "flush"
        /\ media' = [s \in Sector |-> Stored(s)]
        /\ cache' = [s \in Sector |-> NoData]
        /\ job' = NoJob /\ bsy' = FALSE
        /\ UNCHANGED <<driverVars, drq, fault, errreg, held, failed>>

\* It moves a sector from the cache to the platters, at any time.
Destage(s) == /\ cache[s] # NoData
              /\ media' = [media EXCEPT ![s] = cache[s]]
              /\ cache' = [cache EXCEPT ![s] = NoData]
              /\ UNCHANGED <<driverVars, statusVars, job, held, failed>>

DiskStep == Fail \/ Offer \/ Ask \/ Keep \/ Sync

\* Power is lost and comes back: the kernel starts anew.
PowerCycle == /\ pc' = "idle" /\ call' = NoCall
              /\ i' = 0 /\ err' = 0 /\ buf' = <<>> /\ ret' = 0
              /\ bsy' = FALSE /\ drq' = FALSE /\ fault' = "" /\ errreg' = {}
              /\ job' = NoJob /\ held' = NoData /\ failed' = FALSE
              /\ cache' = [s \in Sector |-> NoData]
              /\ UNCHANGED media

Next == \/ \E x \in Calls : Enter(x)
        \/ Driver
        \/ DiskStep
        \/ \E s \in Sector : Destage(s)
        \/ PowerCycle

Spec == Init /\ [][Next]_vars

\* kmain runs the driver without ever blocking, and a busy disk answers some day:
\* with what it was asked for or with a fault.
FairSpec == Spec /\ WF_vars(Driver) /\ WF_vars(DiskStep)

-----------------------------------------------------------------------------
Idle == pc \in {"idle", "returned"}

ErrorCodeSet == {-2, -1, 0, 2, 3, 7, 13, 19, 20, 21, 22, 23}

\* The values the driver's locals and the disk's registers take.
TypeOK ==
  /\ pc \in {"idle", "check", "issue", "read_poll", "read_xfer", "write_poll",
             "write_xfer", "flush", "flush_poll", "report", "returned"}
  /\ call \in Calls \cup {NoCall}
  /\ i \in Nat /\ err \in 0..255 /\ ret \in -2..255
  /\ buf \in Seq(Data)
  /\ bsy \in BOOLEAN /\ drq \in BOOLEAN
  /\ fault \in {"", "ERR", "DF"} /\ errreg \in ErrorBits \cup {{}}
  /\ job \in [kind : {"none", "read", "write", "store", "flush"},
              at : Nat, left : Nat]
  /\ held \in Data \cup {NoData}
  /\ cache \in [Sector -> Data \cup {NoData}]
  /\ media \in [Sector -> Data]
  /\ failed \in BOOLEAN

ToDisk(x) == Present(x.drive) /\ g_ide_devices[x.drive].type = "ATA"

\* The driver follows the protocol of the disk.  It moves data only when the disk has
\* raised DRQ; a write whose command failed is the one exception, and there the words
\* are ignored.  And it never leaves the disk in the middle of a command: when no call
\* is being served the disk neither is busy nor waits for data, so that the next command
\* is not ignored.
ProtocolKept ==
  /\ pc = "read_xfer" => drq
  /\ pc = "write_xfer" => drq \/ failed
  /\ Idle => ~ bsy /\ ~ drq /\ job = NoJob

\* What the disk stores changes only inside the range of the write being served,
\* only to the data of that write, and otherwise by a loss of power.
WritesStayInRange ==
  [][ \A s \in Sector : Stored(s)' # Stored(s) =>
        \/ /\ call # NoCall /\ call.dir = "write" /\ ~ Idle
           /\ s \in call.lba .. call.lba + call.num - 1
           /\ Stored(s)' = call.data[s - call.lba + 1]
        \/ pc' = "idle" /\ Stored(s)' = media[s] ]_vars

\* The driver and the disk together are a BlockDevice: a read that returns 0 has filled
\* the buffer with what the disk stores, whatever errors and write-backs happened on the
\* way, and a write puts its data in its range or nowhere.
Block == INSTANCE BlockDevice
  WITH Call    <- Calls,
       Disks   <- {d \in Drives : Present(d) /\ g_ide_devices[d].type = "ATA"},
       disk    <- [s \in Sector |-> Stored(s)],
       durable <- media,
       call    <- IF Idle THEN NoCall ELSE call,
       answer  <- IF pc = "returned" /\ ret = 0 /\ ToDisk(call) THEN buf ELSE <<>>

BlockDeviceSpec == Block!Spec

\* Every call returns (or power is lost): the polling loops have no bound of their
\* own and rest on the disk answering.
CallsReturn == ~ Idle ~> Idle

\* ide.c:456 "send the flush commands", ide.c:511 "print if any error in writing": a
\* write that returns 0 has put its data on the platters, where no loss of power can
\* undo it.
WriteOnPlatters ==
  pc = "returned" /\ call.dir = "write" /\ ToDisk(call) /\ ret = 0 =>
     \A k \in 1 .. call.num : media[call.lba + k - 1] = call.data[k]
=============================================================================
