------------------------------ MODULE AtaProofs ------------------------------
(***************************************************************************)
(* What the ATA driver and its disk guarantee together, for every size of  *)
(* the disk, every set of drives and every call: the driver follows the    *)
(* disk's protocol, writes stay in their range, and the two are a          *)
(* BlockDevice.                                                            *)
(***************************************************************************)
EXTENDS Ata, TLAPS

(***************************************************************************)
(* The invariant: what the disk is doing at each place of the driver.      *)
(***************************************************************************)
DriverTypes ==
  /\ pc \in {"idle", "check", "issue", "read_poll", "read_xfer", "write_poll",
             "write_xfer", "flush", "flush_poll", "report", "returned"}
  /\ call \in Calls \cup {NoCall}
  /\ i \in Nat /\ err \in 0..255 /\ ret \in -2..255
  /\ buf \in Seq(Data)

JobType == [kind : {"none", "read", "write", "store", "flush"}, at : Nat, left : Nat]

RegisterTypes ==
  /\ fault \in {"", "ERR", "DF"} /\ errreg \in ErrorBits \cup {{}}
  /\ job \in JobType

StoreTypes ==
  /\ held \in Data \cup {NoData}
  /\ cache \in [Sector -> Data \cup {NoData}]
  /\ media \in [Sector -> Data]

FlagTypes == bsy \in BOOLEAN /\ drq \in BOOLEAN /\ failed \in BOOLEAN

\* A call beyond the checks is one of a disk, in the loop of its direction.
CallOK ==
  /\ pc # "idle" => call \in Calls
  /\ pc \in {"issue", "read_poll", "read_xfer", "write_poll", "write_xfer", "flush",
             "flush_poll"} => ToDisk(call)
  /\ pc \in {"read_poll", "read_xfer"} => call.dir = "read"
  /\ pc \in {"write_poll", "write_xfer", "flush", "flush_poll"} => call.dir = "write"

\* The disk at rest, and in the middle of the i-th sector of a command.
JobIs(kind, at, left) == job = [kind |-> kind, at |-> at, left |-> left]

Quiet    == bsy = FALSE /\ drq = FALSE /\ job = NoJob
Fetching == /\ bsy = TRUE /\ drq = FALSE /\ fault = ""
            /\ JobIs("read", call.lba + i, call.num - i)
Offered  == /\ bsy = FALSE /\ drq = TRUE /\ fault = ""
            /\ JobIs("read", call.lba + i, call.num - i)
            /\ call.lba + i \in Sector /\ held = Stored(call.lba + i)
Asking   == /\ bsy = TRUE /\ drq = FALSE
            /\ JobIs("write", call.lba + i, call.num - i)
Wanting  == /\ bsy = FALSE /\ drq = TRUE
            /\ JobIs("write", call.lba + i, call.num - i)
            /\ call.lba + i \in Sector
Keeping  == /\ bsy = TRUE /\ drq = FALSE
            /\ i >= 1 /\ JobIs("store", call.lba + i - 1, call.num - i + 1)
            /\ call.lba + i - 1 \in Sector /\ held = call.data[i]
Syncing  == bsy = TRUE /\ drq = FALSE /\ JobIs("flush", 0, 0)

\* In a write a command that failed leaves the disk at rest for the rest of the loop.
Phase ==
  /\ pc \in {"idle", "check", "issue", "report", "returned"} => Quiet
  /\ pc = "read_poll"  => Fetching \/ Offered \/ (Quiet /\ fault # "")
  /\ pc = "read_xfer"  => Offered
  /\ pc = "write_poll" => Asking \/ Wanting \/ Keeping \/ (Quiet /\ failed = TRUE)
  /\ pc = "write_xfer" => Wanting \/ (Quiet /\ failed = TRUE)
  /\ pc = "flush"      => Keeping \/ Quiet
  /\ pc = "flush_poll" => Keeping \/ Syncing \/ Quiet

\* What a read has received is what the disk stores.
Received ==
  /\ Len(buf) = i
  /\ \A k \in 1 .. i : call.lba + k - 1 \in Sector /\ buf[k] = Stored(call.lba + k - 1)

Progress ==
  /\ pc \in {"check", "issue"} => i = 0 /\ buf = <<>>
  /\ pc \in {"read_poll", "read_xfer", "write_poll", "write_xfer"} => i < call.num
  /\ pc \in {"flush", "flush_poll"} => i = call.num
  /\ pc \in {"read_poll", "read_xfer"} => Received
  /\ pc = "report" /\ call.dir = "read" /\ ToDisk(call) /\ err = 0 =>
        Received /\ i = call.num
  /\ pc # "idle" /\ call.dir = "write" => buf = <<>>

IInv == /\ DriverTypes /\ RegisterTypes /\ StoreTypes /\ FlagTypes
        /\ CallOK /\ Phase /\ Progress

(***************************************************************************)
(* Facts about calls and sectors.                                          *)
(***************************************************************************)

\* The parts of a call.
LEMMA CallFields ==
  ASSUME NEW x \in Calls
  PROVE  /\ x.dir \in {"read", "write"} /\ x.drive \in Drives
         /\ x.lba \in Nat /\ x.num \in Nat /\ x.num >= 1
         /\ x.dir = "write" => x.data \in [1 .. x.num -> Data]
<1>1. Lbas \subseteq Nat /\ Counts \subseteq Nat \ {0}
  <2>1. WORD \in Nat /\ Lbas \subseteq 0 .. WORD - 1 /\ Counts \subseteq 1..255
    BY AtaAssumption, Zenon
  <2> QED  BY <2>1
<1>2. CASE x \in [dir : {"read"}, drive : Drives, lba : Lbas, num : Counts, data : {<<>>}]
  <2>1. x.dir = "read" /\ x.drive \in Drives /\ x.lba \in Lbas /\ x.num \in Counts
    BY <1>2
  <2>2. x.lba \in Nat /\ x.num \in Nat \ {0}
    BY <1>1, <2>1, Zenon
  <2>3. x.num \in Nat /\ x.num >= 1
    BY <2>2
  <2>4. "read" # "write"
    OBVIOUS
  <2> QED  BY <2>1, <2>2, <2>3, <2>4, Zenon
<1>3. ASSUME NEW n \in Counts,
             x \in [dir : {"write"}, drive : Drives, lba : Lbas, num : {n},
                    data : [1..n -> Data]]
      PROVE  /\ x.dir = "write" /\ x.drive \in Drives
             /\ x.lba \in Nat /\ x.num \in Nat /\ x.num >= 1
             /\ x.data \in [1 .. x.num -> Data]
  <2>1. /\ x.dir = "write" /\ x.drive \in Drives /\ x.lba \in Lbas /\ x.num = n
        /\ x.data \in [1..n -> Data]
    BY <1>3
  <2>2. x.lba \in Nat /\ x.num \in Nat \ {0}
    BY <1>1, <2>1, Zenon
  <2>3. x.num \in Nat /\ x.num >= 1
    BY <2>2
  <2> QED  BY <2>1, <2>2, <2>3, Zenon
<1> QED  BY <1>2, <1>3 DEF Calls

\* What the disk returns for a sector is data, never the mark of an empty cache.
LEMMA StoredIsData ==
  ASSUME StoreTypes, NEW s \in Sector
  PROVE  Stored(s) \in Data
BY DEF StoreTypes, Stored

\* It is the same as long as neither the cache nor the platters change.
LEMMA StoredSame ==
  ASSUME UNCHANGED <<cache, media>>
  PROVE  \A s : Stored(s)' = Stored(s)
BY DEF Stored

\* The codes of ide_print_error: none of them is 0 but that of no error, and a
\* return value fits a byte.
LEMMA ErrorCode ==
  ASSUME NEW e \in 0..255, NEW bits
  PROVE  /\ ide_print_error(e, bits) \in 0..255
         /\ e # 0 => ide_print_error(e, bits) # 0
         /\ e = 0 => ide_print_error(e, bits) = 0
<1> DEFINE set == {k \in 1..8 : ErrorCodes[k][1] \in bits}
           top == CHOOSE k \in set : \A j \in set : j <= k
<1>1. \A k \in 1..8 : ErrorCodes[k][2] \in 1..255
  BY DEF ErrorCodes
<1>2. set # {} => top \in 1..8
  <2>1. \A T \in SUBSET (1..8) : T # {} => \E k \in T : \A j \in T : j <= k
    <3> SUFFICES ASSUME NEW T \in SUBSET (1..8), T # {}
                 PROVE  \E k \in T : \A j \in T : j <= k
      OBVIOUS
    <3>1. \A k \in T : k \in Int /\ k <= 8
      OBVIOUS
    <3>2. CASE 8 \in T \/ 7 \in T \/ 6 \in T \/ 5 \in T
      BY <3>1, <3>2
    <3>3. CASE 4 \in T \/ 3 \in T \/ 2 \in T \/ 1 \in T
      BY <3>1, <3>2, <3>3
    <3>4. PICK k \in T : TRUE
      OBVIOUS
    <3>5. k \in {1, 2, 3, 4, 5, 6, 7, 8}
      BY <3>1, <3>4
    <3> QED  BY <3>2, <3>3, <3>4, <3>5
  <2>2. set \in SUBSET (1..8)
    OBVIOUS
  <2> HIDE DEF set
  <2> QED  BY <2>1, <2>2
<1>3. CASE e = 2
  <2>1. ide_print_error(e, bits) = IF set = {} THEN 2 ELSE ErrorCodes[top][2]
    BY <1>3 DEF ide_print_error
  <2> HIDE DEF set, top
  <2>2. CASE set = {}
    BY <1>3, <2>1, <2>2
  <2>3. CASE set # {}
    <3> DEFINE code == ErrorCodes[top][2]
    <3>1. code \in 1..255
      BY <1>1, <1>2, <2>3
    <3>2. ide_print_error(e, bits) = code
      BY <2>1, <2>3
    <3> HIDE DEF code
    <3> QED  BY <1>3, <3>1, <3>2
  <2> QED  BY <2>2, <2>3
<1>4. CASE e # 2
  BY <1>4 DEF ide_print_error
<1> QED  BY <1>3, <1>4

\* The bytes an uninitialised err may hold are bytes, and the mark of an empty cache is
\* no data.
LEMMA Values == Leftover \subseteq 0..255 /\ NoData \notin Data
BY AtaAssumption, Zenon

\* A command has a kind, an address and a count.
LEMMA JobTypes ==
  /\ NoJob \in JobType
  /\ \A kind \in {"none", "read", "write", "store", "flush"}, at \in Nat, left \in Nat :
        [kind |-> kind, at |-> at, left |-> left] \in JobType
<1>1. NoJob \in JobType
  BY DEF NoJob, JobType
<1> QED  BY <1>1 DEF JobType

\* The next sector of a command, and a sector on its way to the disk.
LEMMA NextJob ==
  ASSUME NEW j \in JobType
  PROVE  /\ j.at \in Nat /\ j.left \in Nat
         /\ j.kind \in {"none", "read", "write", "store", "flush"}
         /\ [j EXCEPT !.kind = "store"] = [kind |-> "store", at |-> j.at, left |-> j.left]
         /\ [j EXCEPT !.at = @ + 1, !.left = @ - 1]
              = [kind |-> j.kind, at |-> j.at + 1, left |-> j.left - 1]
         /\ [j EXCEPT !.kind = "store"] \in JobType
         /\ j.left > 1 => /\ [kind |-> j.kind, at |-> j.at + 1, left |-> j.left - 1] \in JobType
                         /\ [kind |-> "write", at |-> j.at + 1, left |-> j.left - 1] \in JobType
<1>1. /\ j.at \in Nat /\ j.left \in Nat
      /\ j.kind \in {"none", "read", "write", "store", "flush"}
  BY DEF JobType
<1>2. [j EXCEPT !.kind = "store"] = [kind |-> "store", at |-> j.at, left |-> j.left]
  BY DEF JobType
<1>3. [j EXCEPT !.at = @ + 1, !.left = @ - 1]
        = [kind |-> j.kind, at |-> j.at + 1, left |-> j.left - 1]
  <2> DEFINE k == [j EXCEPT !.at = @ + 1]
  <2>1. k = [kind |-> j.kind, at |-> j.at + 1, left |-> j.left]
    BY DEF JobType
  <2>2. [j EXCEPT !.at = @ + 1, !.left = @ - 1] = [k EXCEPT !.left = @ - 1]
    BY DEF JobType
  <2> HIDE DEF k
  <2>3. [k EXCEPT !.left = @ - 1] = [kind |-> j.kind, at |-> j.at + 1, left |-> j.left - 1]
    BY <2>1
  <2> QED  BY <2>2, <2>3
<1>4. [j EXCEPT !.kind = "store"] \in JobType
  BY <1>1, <1>2, JobTypes
<1>5. ASSUME j.left > 1
      PROVE  /\ [kind |-> j.kind, at |-> j.at + 1, left |-> j.left - 1] \in JobType
             /\ [kind |-> "write", at |-> j.at + 1, left |-> j.left - 1] \in JobType
  <2>1. j.at + 1 \in Nat /\ j.left - 1 \in Nat
    BY <1>1, <1>5
  <2> QED  BY <1>1, <2>1, JobTypes
<1> QED  BY <1>1, <1>2, <1>3, <1>4, <1>5

(***************************************************************************)
(* The types.                                                              *)
(***************************************************************************)

\* What the driver keeps has its type, whatever step is taken.
LEMMA DriverTypesKept ==
  ASSUME IInv, [Next]_vars
  PROVE  DriverTypes'
<1> DriverTypes /\ StoreTypes /\ CallOK /\ Phase
  BY DEF IInv
<1>1. ASSUME NEW x \in Calls, Enter(x) PROVE DriverTypes'
  BY <1>1 DEF DriverTypes, Enter
<1>2. CASE Check
  <2>1. UNCHANGED <<call, i, buf>> /\ pc' \in {"returned", "report", "issue"}
    BY <1>2 DEF Check
  <2>2. ret' \in {-1, -2, ret} /\ err' \in Leftover \cup {err}
    BY <1>2 DEF Check
  <2>3. ret' \in -2..255 /\ err' \in 0..255
    BY <2>2, Values DEF DriverTypes
  <2> QED  BY <2>1, <2>3 DEF DriverTypes
<1>3. CASE Issue
  BY <1>3 DEF DriverTypes, Issue
<1>4. CASE ReadPoll
  <2>1. err' \in 0..255
    <3>1. err' \in {2, 1, 3, 0}
      BY <1>4, Zenon DEF ReadPoll
    <3> QED  BY <3>1
  <2> QED  BY <1>4, <2>1 DEF DriverTypes, ReadPoll
<1>5. CASE ReadXfer
  <2>1. held = Stored(call.lba + i) /\ call.lba + i \in Sector
    BY <1>5 DEF ReadXfer, Phase, Offered
  <2>2. held \in Data
    BY <2>1, StoredIsData
  <2>3. buf' \in Seq(Data) /\ i' \in Nat
    BY <1>5, <2>2 DEF ReadXfer, DriverTypes
  <2> QED  BY <1>5, <2>3 DEF DriverTypes, ReadXfer
<1>6. CASE WritePoll
  BY <1>6 DEF DriverTypes, WritePoll
<1>7. CASE WriteXfer
  BY <1>7 DEF DriverTypes, WriteXfer
<1>8. CASE Flush \/ FlushPoll
  <2>1. CASE Flush
    BY <2>1 DEF DriverTypes, Flush
  <2>2. CASE FlushPoll
    BY <2>2 DEF DriverTypes, FlushPoll
  <2> QED  BY <1>8, <2>1, <2>2
<1>9. CASE Report
  <2>1. ret' \in -2..255
    <3>1. ret' = ide_print_error(err, errreg)
      BY <1>9, Zenon DEF Report
    <3>2. ide_print_error(err, errreg) \in 0..255
      BY ErrorCode, Zenon DEF DriverTypes
    <3>3. ret' \in 0..255
      BY <3>1, <3>2, Zenon
    <3> QED  BY <3>3
  <2>2. pc' = "returned" /\ UNCHANGED <<call, i, err, buf>>
    BY <1>9 DEF Report
  <2> QED  BY <2>1, <2>2 DEF DriverTypes
<1>10. CASE DiskStep \/ \E s \in Sector : Destage(s)
  <2>1. UNCHANGED driverVars
    BY <1>10, Zenon DEF DiskStep, Fail, Offer, Ask, Keep, Sync, Destage
  <2> QED  BY <2>1 DEF driverVars, DriverTypes
<1>11. CASE PowerCycle
  <2>1. /\ pc' = "idle" /\ call' = NoCall
        /\ i' = 0 /\ err' = 0 /\ ret' = 0 /\ buf' = <<>>
    BY <1>11 DEF PowerCycle
  <2> QED  BY <2>1 DEF DriverTypes
<1>12. CASE UNCHANGED vars
  BY <1>12 DEF vars, driverVars, DriverTypes
<1> QED  BY <1>1, <1>2, <1>3, <1>4, <1>5, <1>6, <1>7, <1>8, <1>9, <1>10, <1>11, <1>12
         DEF Next, Driver

\* So does what its registers show.
LEMMA RegisterTypesKept ==
  ASSUME IInv, [Next]_vars
  PROVE  RegisterTypes'
<1> DriverTypes /\ RegisterTypes /\ CallOK /\ Phase /\ Progress
  BY DEF IInv
<1>1. CASE UNCHANGED <<fault, errreg, job>>
  BY <1>1 DEF RegisterTypes
<1>2. ASSUME NEW kind \in {"read", "write", "flush"}, NEW at \in Nat, NEW left \in Nat,
             Command(kind, at, left)
      PROVE  RegisterTypes'
  <2>1. CASE bsy \/ drq
    BY <1>1, <1>2, <2>1 DEF Command, statusVars
  <2>2. CASE ~ (bsy \/ drq)
    <3>1. job' \in JobType
      BY <1>2, <2>2, JobTypes DEF Command
    <3>2. fault' = "" /\ errreg' = {}
      BY <1>2, <2>2 DEF Command
    <3> QED  BY <3>1, <3>2 DEF RegisterTypes
  <2> QED  BY <2>1, <2>2
<1>3. CASE Issue
  BY <1>2, <1>3, CallFields DEF Issue, CallOK
<1>4. CASE ReadXfer
  <2>1. CASE drq
    <3>1. job' \in JobType
      <4>1. job' = IF job.left > 1 THEN [job EXCEPT !.at = @ + 1, !.left = @ - 1] ELSE NoJob
        BY <1>4, <2>1 DEF ReadXfer
      <4>2. job \in JobType
        BY DEF RegisterTypes
      <4> QED  BY <4>1, <4>2, JobTypes, NextJob
    <3> QED  BY <1>4, <2>1, <3>1 DEF ReadXfer, RegisterTypes
  <2>2. CASE ~ drq
    BY <1>1, <1>4, <2>2 DEF ReadXfer, statusVars
  <2> QED  BY <2>1, <2>2
<1>5. CASE WriteXfer
  <2>1. job' \in JobType
    <3>1. job' \in {job, [job EXCEPT !.kind = "store"]}
      BY <1>5 DEF WriteXfer
    <3>2. job \in JobType
      BY DEF RegisterTypes
    <3> QED  BY <3>1, <3>2, JobTypes, NextJob
  <2> QED  BY <1>5, <2>1 DEF WriteXfer, RegisterTypes
<1>6. CASE Flush
  BY <1>2, <1>6 DEF Flush
<1>7. CASE Fail
  BY <1>7, JobTypes DEF Fail, RegisterTypes
<1>8. CASE Keep
  <2>1. job' \in JobType
    <3>1. job' = IF job.left > 1
                 THEN [kind |-> "write", at |-> job.at + 1, left |-> job.left - 1]
                 ELSE NoJob
      BY <1>8 DEF Keep
    <3>2. job \in JobType
      BY DEF RegisterTypes
    <3> QED  BY <3>1, <3>2, JobTypes, NextJob
  <2> QED  BY <1>8, <2>1 DEF Keep, RegisterTypes
<1>9. CASE Sync
  BY <1>9, JobTypes DEF Sync, RegisterTypes
<1>10. CASE PowerCycle
  BY <1>10, JobTypes DEF PowerCycle, RegisterTypes
<1>11. CASE Check \/ ReadPoll \/ WritePoll \/ FlushPoll \/ Report
  BY <1>1, <1>11 DEF Check, ReadPoll, WritePoll, FlushPoll, Report, diskVars, statusVars
<1>12. CASE (\E x \in Calls : Enter(x)) \/ Offer \/ Ask \/ (\E s \in Sector : Destage(s))
  BY <1>1, <1>12 DEF Enter, Offer, Ask, Destage, statusVars
<1>13. CASE UNCHANGED vars
  BY <1>1, <1>13 DEF vars, diskVars, statusVars
<1> QED  BY <1>3, <1>4, <1>5, <1>6, <1>7, <1>8, <1>9, <1>10, <1>11, <1>12, <1>13
         DEF Next, Driver, DiskStep

\* And what it stores.
LEMMA StoreTypesKept ==
  ASSUME IInv, [Next]_vars
  PROVE  StoreTypes'
<1> DriverTypes /\ RegisterTypes /\ StoreTypes /\ CallOK /\ Phase /\ Progress
  BY DEF IInv
<1>1. CASE UNCHANGED <<held, cache, media>>
  BY <1>1 DEF StoreTypes
<1>2. CASE WriteXfer
  <2>1. call.data \in [1 .. call.num -> Data] /\ i < call.num /\ call.num \in Nat /\ i \in Nat
    BY <1>2, CallFields DEF WriteXfer, CallOK, Progress, DriverTypes
  <2>2. SectorToSend \in Data
    BY <2>1 DEF SectorToSend
  <2>3. held' \in Data \cup {NoData} /\ UNCHANGED <<cache, media>>
    BY <1>2, <2>2 DEF WriteXfer, StoreTypes
  <2> QED  BY <2>3 DEF StoreTypes
<1>3. CASE Offer
  BY <1>3, StoredIsData DEF Offer, StoreTypes
<1>4. CASE Keep
  BY <1>4 DEF Keep, StoreTypes
<1>5. CASE Sync
  BY <1>5, StoredIsData DEF Sync, StoreTypes
<1>6. ASSUME NEW s \in Sector, Destage(s) PROVE StoreTypes'
  BY <1>6 DEF Destage, StoreTypes
<1>7. CASE PowerCycle
  BY <1>7 DEF PowerCycle, StoreTypes
<1>8. CASE Check \/ ReadPoll \/ WritePoll \/ FlushPoll \/ Report
  BY <1>1, <1>8 DEF Check, ReadPoll, WritePoll, FlushPoll, Report, diskVars
<1>9. CASE (\E x \in Calls : Enter(x)) \/ Issue \/ ReadXfer \/ Flush \/ Fail \/ Ask
  BY <1>1, <1>9 DEF Enter, Issue, ReadXfer, Flush, Fail, Ask
<1>10. CASE UNCHANGED vars
  BY <1>1, <1>10 DEF vars, diskVars
<1> QED  BY <1>2, <1>3, <1>4, <1>5, <1>6, <1>7, <1>8, <1>9, <1>10 DEF Next, Driver, DiskStep

(***************************************************************************)
(* What the disk is doing.                                                 *)
(***************************************************************************)

\* A command the disk at rest accepts.
LEMMA Accepted ==
  ASSUME Quiet, NEW kind, NEW at, NEW left, Command(kind, at, left)
  PROVE  bsy' = TRUE /\ drq' = FALSE /\ fault' = "" /\ JobIs(kind, at, left)'
BY DEF Quiet, Command, JobIs

\* A command it ignores.
LEMMA Ignored ==
  ASSUME Keeping, NEW kind, NEW at, NEW left, Command(kind, at, left)
  PROVE  UNCHANGED <<statusVars, job>>
BY DEF Keeping, Command

\* A step of the driver that leaves the disk alone leaves it as it was.
LEMMA DiskUntouched ==
  ASSUME UNCHANGED <<i, call, diskVars>>
  PROVE  /\ Quiet' = Quiet /\ Fetching' = Fetching /\ Offered' = Offered
         /\ Asking' = Asking /\ Wanting' = Wanting /\ Keeping' = Keeping
         /\ Syncing' = Syncing /\ UNCHANGED <<fault, failed>>
BY DEF Quiet, Fetching, Offered, Asking, Wanting, Keeping, Syncing, JobIs, Stored,
       diskVars, statusVars

\* The driver's steps and what the disk is doing.
LEMMA DriverPhase ==
  ASSUME IInv, Driver
  PROVE  Phase'
<1> DriverTypes /\ RegisterTypes /\ CallOK /\ Phase /\ Progress
  BY DEF IInv
<1>1. CASE Check
  <2>1. Quiet /\ pc' \in {"returned", "report", "issue"} /\ UNCHANGED <<i, call, diskVars>>
    BY <1>1 DEF Check, Phase
  <2> QED  BY <2>1, DiskUntouched DEF Phase
<1>2. CASE Issue
  <2>1. /\ Quiet /\ Command(call.dir, call.lba, call.num) /\ i = 0
        /\ UNCHANGED <<i, call>> /\ call \in Calls
        /\ pc' = IF call.dir = "read" THEN "read_poll" ELSE "write_poll"
    BY <1>2 DEF Issue, Phase, Progress, CallOK
  <2>2. bsy' = TRUE /\ drq' = FALSE /\ fault' = "" /\ JobIs(call.dir, call.lba, call.num)'
    BY <2>1, Accepted
  <2>3. call.lba + 0 = call.lba /\ call.num - 0 = call.num
    BY <2>1, CallFields
  <2>4. CASE call.dir = "read"
    BY <2>1, <2>2, <2>3, <2>4 DEF Phase, Fetching, JobIs
  <2>5. CASE call.dir = "write"
    BY <2>1, <2>2, <2>3, <2>5 DEF Phase, Asking, JobIs
  <2> QED  BY <2>1, <2>4, <2>5, CallFields
<1>3. CASE ReadPoll
  <2>1. /\ Offered \/ (Quiet /\ fault # "")
        /\ UNCHANGED <<i, call, diskVars>>
    BY <1>3 DEF ReadPoll, Phase, Fetching
  <2>2. CASE Offered
    <3>1. err' = 0
      BY <1>3, <2>2 DEF ReadPoll, Offered
    <3>2. pc' = "read_xfer"
      BY <1>3, <3>1 DEF ReadPoll
    <3> QED  BY <2>1, <2>2, <3>2, DiskUntouched DEF Phase
  <2>3. CASE Quiet /\ fault # ""
    <3>1. fault \in {"ERR", "DF"}
      BY <2>3 DEF RegisterTypes
    <3>2. err' \in {1, 2}
      BY <1>3, <3>1 DEF ReadPoll
    <3>3. pc' = "report"
      <4>1. ~ (err' = 0)
        BY <3>2
      <4>2. pc' = IF err' = 0 THEN "read_xfer" ELSE "report"
        BY <1>3 DEF ReadPoll
      <4> QED  BY <4>1, <4>2
    <3> QED  BY <2>1, <2>3, <3>3, DiskUntouched DEF Phase
  <2> QED  BY <2>1, <2>2, <2>3
<1>4. CASE ReadXfer
  <2>1. /\ Offered /\ i < call.num /\ i \in Nat
        /\ call \in Calls /\ UNCHANGED <<call, fault>> /\ i' = i + 1
        /\ pc' = IF i' < call.num THEN "read_poll" ELSE "report"
    BY <1>4 DEF ReadXfer, Phase, Progress, CallOK, DriverTypes, Offered
  <2>2. call.lba \in Nat /\ call.num \in Nat
    BY <2>1, CallFields
  <2>3. drq = TRUE /\ fault = "" /\ job \in JobType
    BY <2>1 DEF Offered, RegisterTypes
  <2>4. job.left = call.num - i /\ job.at = call.lba + i /\ job.kind = "read"
    BY <2>1 DEF Offered, JobIs
  <2>5. CASE job.left > 1
    <3>1. /\ bsy' = TRUE /\ drq' = FALSE
          /\ job' = [job EXCEPT !.at = @ + 1, !.left = @ - 1]
      BY <1>4, <2>3, <2>5 DEF ReadXfer
    <3>2. job' = [kind |-> "read", at |-> job.at + 1, left |-> job.left - 1]
      BY <2>3, <2>4, <3>1, NextJob
    <3>3. /\ job.at + 1 = call.lba + (i + 1) /\ job.left - 1 = call.num - (i + 1)
          /\ i + 1 < call.num
      BY <2>1, <2>2, <2>4, <2>5
    <3>4. Fetching' /\ pc' = "read_poll"
      BY <2>1, <2>3, <3>1, <3>2, <3>3 DEF Fetching, JobIs
    <3> QED  BY <3>4 DEF Phase
  <2>6. CASE ~ (job.left > 1)
    <3>1. bsy' = FALSE /\ drq' = FALSE /\ job' = NoJob
      <4>1. /\ drq' = FALSE /\ bsy' = (job.left > 1)
            /\ job' = IF job.left > 1 THEN [job EXCEPT !.at = @ + 1, !.left = @ - 1]
                      ELSE NoJob
        BY <1>4, <2>3 DEF ReadXfer
      <4>2. job' = NoJob
        BY <2>6, <4>1
      <4>3. (job.left > 1) = FALSE
        BY <2>6
      <4> QED  BY <4>1, <4>2, <4>3, Zenon
    <3>2. ~ (i + 1 < call.num)
      BY <2>1, <2>2, <2>4, <2>6
    <3>3. Quiet' /\ pc' = "report"
      BY <2>1, <3>1, <3>2 DEF Quiet
    <3> QED  BY <3>3 DEF Phase
  <2> QED  BY <2>5, <2>6
<1>5. CASE WritePoll
  <2>1. /\ Wanting \/ (Quiet /\ failed = TRUE)
        /\ UNCHANGED <<i, call, diskVars>> /\ pc' = "write_xfer"
    BY <1>5 DEF WritePoll, Phase, Asking, Keeping
  <2> QED  BY <2>1, DiskUntouched DEF Phase
<1>6. CASE WriteXfer
  <2>1. /\ i < call.num /\ i \in Nat /\ call \in Calls
        /\ UNCHANGED <<call, failed>> /\ i' = i + 1
        /\ pc' = IF i' < call.num THEN "write_poll" ELSE "flush"
    BY <1>6 DEF WriteXfer, Progress, CallOK, DriverTypes
  <2>2. call.lba \in Nat /\ call.num \in Nat
    BY <2>1, CallFields
  <2>3. CASE Wanting
    <3>1. drq = TRUE /\ job \in JobType
      BY <2>3 DEF Wanting, RegisterTypes
    <3>2. /\ held' = call.data[i + 1] /\ drq' = FALSE /\ bsy' = TRUE
          /\ job' = [job EXCEPT !.kind = "store"]
      BY <1>6, <3>1 DEF WriteXfer, SectorToSend
    <3>3. job.left = call.num - i /\ job.at = call.lba + i /\ job.at \in Sector
      BY <2>3 DEF Wanting, JobIs
    <3>4. job' = [kind |-> "store", at |-> job.at, left |-> job.left]
      BY <3>1, <3>2, NextJob
    <3>5. /\ call.lba + i = call.lba + (i + 1) - 1
          /\ call.num - i = call.num - (i + 1) + 1 /\ i + 1 >= 1
      BY <2>1, <2>2
    <3>6. Keeping'
      BY <2>1, <3>2, <3>3, <3>4, <3>5 DEF Keeping, JobIs
    <3> QED  BY <2>1, <3>6 DEF Phase
  <2>4. CASE Quiet /\ failed = TRUE
    <3>1. UNCHANGED <<drq, bsy, job>>
      BY <1>6, <2>4 DEF WriteXfer, Quiet
    <3>2. Quiet' /\ failed' = TRUE
      BY <2>1, <2>4, <3>1 DEF Quiet
    <3> QED  BY <2>1, <3>2 DEF Phase
  <2> QED  BY <1>6, <2>3, <2>4 DEF WriteXfer, Phase
<1>7. CASE Flush
  <2>1. /\ Keeping \/ Quiet
        /\ Command("flush", 0, 0) /\ pc' = "flush_poll"
        /\ UNCHANGED <<i, call, held, cache, media, failed>>
    BY <1>7 DEF Flush, Phase
  <2>2. CASE Quiet
    <3>1. Syncing'
      BY <2>1, <2>2, Accepted DEF Syncing
    <3> QED  BY <2>1, <3>1 DEF Phase
  <2>3. CASE Keeping
    <3>1. UNCHANGED <<i, call, diskVars>>
      BY <2>1, <2>3, Ignored DEF diskVars
    <3> QED  BY <2>1, <2>3, <3>1, DiskUntouched DEF Phase
  <2> QED  BY <2>1, <2>2, <2>3
<1>8. CASE FlushPoll
  <2>1. Quiet /\ pc' = "report" /\ UNCHANGED <<i, call, diskVars>>
    BY <1>8 DEF FlushPoll, Phase, Keeping, Syncing
  <2> QED  BY <2>1, DiskUntouched DEF Phase
<1>9. CASE Report
  <2>1. Quiet /\ pc' = "returned" /\ UNCHANGED <<i, call, diskVars>>
    BY <1>9 DEF Report, Phase
  <2> QED  BY <2>1, DiskUntouched DEF Phase
<1> QED  BY <1>1, <1>2, <1>3, <1>4, <1>5, <1>6, <1>7, <1>8, <1>9 DEF Driver

\* A step of the disk at work is one of these, in these places of the driver.
LEMMA DiskAtWork ==
  ASSUME IInv, bsy
  PROVE  \/ pc = "read_poll" /\ Fetching
         \/ pc = "write_poll" /\ (Asking \/ Keeping)
         \/ pc = "flush" /\ Keeping
         \/ pc = "flush_poll" /\ (Keeping \/ Syncing)
<1>1. Phase /\ DriverTypes
  BY DEF IInv
<1>2. ~ Quiet /\ ~ Offered /\ ~ Wanting
  BY DEF Quiet, Offered, Wanting
<1> QED  BY <1>1, <1>2 DEF Phase, DriverTypes

\* The command it is working on.
LEMMA JobKinds ==
  /\ Fetching => job.kind = "read"
  /\ Asking => job.kind = "write"
  /\ Keeping => job.kind = "store"
  /\ Syncing => job.kind = "flush"
<1>1. ASSUME NEW kind, NEW at, NEW left, JobIs(kind, at, left) PROVE job.kind = kind
  BY <1>1 DEF JobIs
<1> QED  BY <1>1 DEF Fetching, Asking, Keeping, Syncing

\* Moving a sector to the platters does not change what the disk returns.
LEMMA DestageKeepsStored ==
  ASSUME StoreTypes, NEW s \in Sector, Destage(s)
  PROVE  \A r \in Sector : Stored(r)' = Stored(r)
BY DEF StoreTypes, Destage, Stored

\* The disk's steps, the next call and the loss of power, and what the disk is doing.
LEMMA DiskPhase ==
  ASSUME IInv,
         \/ DiskStep \/ PowerCycle
         \/ \E x \in Calls : Enter(x)
         \/ \E s \in Sector : Destage(s)
  PROVE  Phase'
<1> DriverTypes /\ RegisterTypes /\ StoreTypes /\ CallOK /\ Phase /\ Progress
  BY DEF IInv
<1>1. CASE Fail
  <2>1. Quiet' /\ fault' # "" /\ failed' = TRUE /\ UNCHANGED pc
    BY <1>1 DEF Fail, Quiet, driverVars
  <2>2. pc \in {"read_poll", "write_poll", "flush", "flush_poll"}
    BY <1>1, DiskAtWork DEF Fail
  <2> QED  BY <2>1, <2>2 DEF Phase
<1>2. CASE Offer
  <2>1. job.kind = "read" /\ bsy
    BY <1>2 DEF Offer
  <2>2. Fetching /\ pc = "read_poll"
    BY <2>1, DiskAtWork, JobKinds
  <2>3. job.at = call.lba + i
    BY <2>2 DEF Fetching, JobIs
  <2>4. Offered'
    BY <1>2, <2>2, <2>3 DEF Offer, Fetching, Offered, JobIs, Stored, driverVars
  <2> QED  BY <1>2, <2>2, <2>4 DEF Offer, Phase, driverVars
<1>3. CASE Ask
  <2>1. job.kind = "write" /\ bsy
    BY <1>3 DEF Ask
  <2>2. Asking /\ pc = "write_poll"
    BY <2>1, DiskAtWork, JobKinds
  <2>3. job.at = call.lba + i
    BY <2>2 DEF Asking, JobIs
  <2>4. Wanting'
    BY <1>3, <2>2, <2>3 DEF Ask, Asking, Wanting, JobIs, driverVars
  <2> QED  BY <1>3, <2>2, <2>4 DEF Ask, Phase, driverVars
<1>4. CASE Keep
  <2>1. job.kind = "store" /\ bsy
    BY <1>4 DEF Keep
  <2>2. Keeping /\ pc \in {"write_poll", "flush", "flush_poll"}
    BY <2>1, DiskAtWork, JobKinds
  <2>3. UNCHANGED <<pc, i, call>> /\ call \in Calls /\ i \in Nat
    BY <1>4, <2>2 DEF Keep, driverVars, CallOK, DriverTypes
  <2>4. call.lba \in Nat /\ call.num \in Nat
    BY <2>3, CallFields
  <2>5. job.at = call.lba + i - 1 /\ job.left = call.num - i + 1 /\ drq = FALSE
    BY <2>2 DEF Keeping, JobIs
  <2>6. CASE pc = "write_poll"
    <3>1. job.left > 1
      BY <2>3, <2>4, <2>5, <2>6 DEF Progress
    <3>2. /\ job' = [kind |-> "write", at |-> job.at + 1, left |-> job.left - 1]
          /\ UNCHANGED <<bsy, drq>>
      BY <1>4, <3>1 DEF Keep
    <3>3. job.at + 1 = call.lba + i /\ job.left - 1 = call.num - i
      BY <2>3, <2>4, <2>5
    <3>4. Asking'
      BY <2>2, <2>3, <3>2, <3>3 DEF Keeping, Asking, JobIs
    <3> QED  BY <2>3, <2>6, <3>4 DEF Phase
  <2>7. CASE pc \in {"flush", "flush_poll"}
    <3>1. ~ (job.left > 1)
      BY <2>3, <2>4, <2>5, <2>7 DEF Progress
    <3>2. bsy' = FALSE /\ drq' = FALSE /\ job' = NoJob
      BY <1>4, <2>5, <3>1 DEF Keep
    <3>3. Quiet'
      BY <3>2 DEF Quiet
    <3> QED  BY <2>3, <2>7, <3>3 DEF Phase
  <2> QED  BY <2>2, <2>6, <2>7
<1>5. CASE Sync
  <2>1. job.kind = "flush" /\ bsy
    BY <1>5 DEF Sync
  <2>2. Syncing /\ pc = "flush_poll"
    BY <2>1, DiskAtWork, JobKinds
  <2>3. Quiet'
    BY <1>5, <2>2 DEF Sync, Syncing, Quiet
  <2> QED  BY <1>5, <2>2, <2>3 DEF Sync, Phase, driverVars
<1>6. ASSUME NEW s \in Sector, Destage(s) PROVE Phase'
  <2>1. UNCHANGED <<pc, i, call, statusVars, job, held, failed>>
    BY <1>6 DEF Destage, driverVars
  <2>2. Offered' = Offered
    <3>1. call.lba + i \in Sector => Stored(call.lba + i)' = Stored(call.lba + i)
      BY <1>6, <2>1, DestageKeepsStored DEF Stored
    <3> QED  BY <2>1, <3>1 DEF Offered, JobIs, statusVars
  <2>3. /\ Quiet' = Quiet /\ Fetching' = Fetching /\ Asking' = Asking
        /\ Wanting' = Wanting /\ Keeping' = Keeping /\ Syncing' = Syncing
    BY <2>1 DEF Quiet, Fetching, Asking, Wanting, Keeping, Syncing, JobIs, statusVars
  <2> QED  BY <2>1, <2>2, <2>3 DEF Phase, statusVars
<1>7. CASE PowerCycle
  <2>1. Quiet' /\ pc' = "idle"
    BY <1>7 DEF PowerCycle, Quiet
  <2> QED  BY <2>1 DEF Phase
<1>8. ASSUME NEW x \in Calls, Enter(x) PROVE Phase'
  <2>1. Quiet /\ pc' = "check" /\ UNCHANGED <<statusVars, job>>
    BY <1>8 DEF Enter, Phase
  <2>2. Quiet'
    BY <2>1 DEF Quiet, statusVars
  <2> QED  BY <2>1, <2>2 DEF Phase
<1> QED  BY <1>1, <1>2, <1>3, <1>4, <1>5, <1>6, <1>7, <1>8 DEF DiskStep

\* What the disk is doing, whatever step is taken.
LEMMA PhaseKept ==
  ASSUME IInv, [Next]_vars
  PROVE  Phase' /\ FlagTypes'
<1>1. CASE UNCHANGED vars
  <2>1. UNCHANGED <<pc, i, call, diskVars>>
    BY <1>1 DEF vars, driverVars
  <2>2. Phase'
    BY <2>1, DiskUntouched DEF IInv, Phase
  <2>3. FlagTypes'
    BY <2>1 DEF IInv, FlagTypes, diskVars, statusVars
  <2> QED  BY <2>2, <2>3
<1>2. CASE Next
  <2>1. Phase'
    BY <1>2, DriverPhase, DiskPhase DEF Next
  <2>2. DriverTypes'
    BY <1>2, DriverTypesKept
  <2>3. bsy' \in BOOLEAN /\ drq' \in BOOLEAN
    <3>1. \/ Quiet' \/ Fetching' \/ Offered' \/ Asking' \/ Wanting' \/ Keeping' \/ Syncing'
      BY <2>1, <2>2 DEF Phase, DriverTypes
    <3> QED  BY <3>1 DEF Quiet, Fetching, Offered, Asking, Wanting, Keeping, Syncing
  <2>4. failed' \in {TRUE, FALSE, failed}
    BY <1>2 DEF Next, Enter, Driver, Check, Issue, ReadPoll, ReadXfer, WritePoll,
                WriteXfer, Flush, FlushPoll, Report, DiskStep, Fail, Offer, Ask, Keep,
                Sync, Destage, PowerCycle, diskVars
  <2>5. failed' \in BOOLEAN
    BY <2>4 DEF IInv, FlagTypes
  <2> QED  BY <2>1, <2>3, <2>5 DEF FlagTypes
<1> QED  BY <1>1, <1>2

\* The driver goes on with the call it checked.
LEMMA CallKept ==
  ASSUME IInv, [Next]_vars
  PROVE  CallOK'
<1> DriverTypes /\ CallOK
  BY DEF IInv
<1>1. ASSUME NEW x \in Calls, Enter(x) PROVE CallOK'
  BY <1>1 DEF Enter, CallOK
<1>2. CASE Check
  <2>1. /\ call \in Calls /\ UNCHANGED call
        /\ pc' \in {"returned", "report", "issue"}
    BY <1>2 DEF Check, CallOK
  <2>2. CASE pc' = "issue"
    <3>1. Present(call.drive) /\ g_ide_devices[call.drive].type # "ATAPI"
      BY <1>2, <2>2 DEF Check
    <3>2. Drives \subseteq 0..255
      BY AtaAssumption, Zenon
    <3>3. call.drive \in 0 .. MAXIMUM_IDE_DEVICES
      <4>1. call.drive \in Drives
        BY <2>1, CallFields
      <4>2. call.drive \in 0..255 /\ call.drive <= MAXIMUM_IDE_DEVICES
        BY <3>1, <3>2, <4>1, Zenon DEF Present
      <4> QED  BY <4>2 DEF MAXIMUM_IDE_DEVICES
    <3>4. g_ide_devices[call.drive] \in [reserved : {0, 1}, type : {"ATA", "ATAPI"},
                                         size : 0 .. WORD - 1]
      BY <3>3, AtaAssumption, Zenon
    <3>5. ToDisk(call)
      BY <3>1, <3>4 DEF ToDisk
    <3>6. ToDisk(call)'
      BY <2>1, <3>5 DEF ToDisk, Present
    <3> QED  BY <2>1, <2>2, <3>6 DEF CallOK
  <2>3. CASE pc' # "issue"
    BY <2>1, <2>3 DEF CallOK
  <2> QED  BY <2>2, <2>3
<1>3. CASE Issue
  BY <1>3, CallFields DEF Issue, CallOK, ToDisk, Present
<1>4. CASE ReadPoll \/ ReadXfer
  BY <1>4 DEF ReadPoll, ReadXfer, CallOK, ToDisk, Present
<1>5. CASE WritePoll \/ WriteXfer \/ Flush \/ FlushPoll \/ Report
  BY <1>5 DEF WritePoll, WriteXfer, Flush, FlushPoll, Report, CallOK, ToDisk, Present
<1>6. CASE UNCHANGED <<pc, call>>
  BY <1>6 DEF CallOK, ToDisk, Present
<1>7. CASE DiskStep \/ (\E s \in Sector : Destage(s)) \/ UNCHANGED vars
  BY <1>6, <1>7 DEF DiskStep, Fail, Offer, Ask, Keep, Sync, Destage, vars, driverVars
<1>8. CASE PowerCycle
  BY <1>8 DEF PowerCycle, CallOK
<1> QED  BY <1>1, <1>2, <1>3, <1>4, <1>5, <1>7, <1>8 DEF Next, Driver

\* What was received stays what the disk stores as long as that does not change.
LEMMA ReceivedKept ==
  ASSUME Received, UNCHANGED <<i, buf, call>>,
         \A s \in Sector : Stored(s)' = Stored(s)
  PROVE  Received'
<1>1. \A k \in 1 .. i : /\ call.lba + k - 1 \in Sector
                        /\ buf[k] = Stored(call.lba + k - 1)'
  BY DEF Received
<1> QED  BY <1>1 DEF Received, Stored

\* A read receives the sectors one by one.
LEMMA ProgressKept ==
  ASSUME IInv, [Next]_vars
  PROVE  Progress'
<1> DriverTypes /\ RegisterTypes /\ StoreTypes /\ CallOK /\ Phase /\ Progress
  BY DEF IInv
<1>1. ASSUME UNCHANGED <<pc, i, err, buf, call>>,
             pc \in {"read_poll", "read_xfer", "report"} =>
               \A s \in Sector : Stored(s)' = Stored(s)
      PROVE  Progress'
  <2>1. pc \in {"read_poll", "read_xfer", "report"} /\ Received => Received'
    BY <1>1, ReceivedKept
  <2>2. ToDisk(call)' = ToDisk(call)
    BY <1>1 DEF ToDisk, Present
  <2> QED  BY <1>1, <2>1, <2>2 DEF Progress
<1>2. ASSUME NEW x \in Calls, Enter(x) PROVE Progress'
  BY <1>2 DEF Enter, Progress
<1>3. CASE Check
  <2>1. /\ i' = 0 /\ buf' = <<>> /\ UNCHANGED call
        /\ pc' \in {"returned", "report", "issue"}
    BY <1>3 DEF Check, Progress
  <2>2. pc' = "report" => ~ ToDisk(call)'
    BY <1>3 DEF Check, ToDisk, Present
  <2> QED  BY <2>1, <2>2 DEF Progress
<1>4. CASE Issue
  <2>1. /\ i' = 0 /\ buf' = <<>> /\ UNCHANGED call /\ call \in Calls
        /\ pc' \in {"read_poll", "write_poll"}
    BY <1>4 DEF Issue, Progress, CallOK
  <2>2. i' < call.num /\ Received'
    BY <2>1, CallFields DEF Received
  <2> QED  BY <2>1, <2>2 DEF Progress
<1>5. CASE ReadPoll
  <2>1. Received /\ i < call.num /\ UNCHANGED <<i, buf, call, cache, media>>
    BY <1>5 DEF ReadPoll, Progress, diskVars
  <2>2. Received'
    BY <2>1, StoredSame, ReceivedKept
  <2>3. \/ pc' = "read_xfer"
        \/ pc' = "report" /\ err' # 0
    BY <1>5 DEF ReadPoll
  <2>4. call.dir = "read"
    BY <1>5 DEF ReadPoll, CallOK
  <2> QED  BY <2>1, <2>2, <2>3, <2>4 DEF Progress
<1>6. CASE ReadXfer
  <2>1. /\ Received /\ i < call.num /\ i \in Nat /\ buf \in Seq(Data)
        /\ UNCHANGED <<call, cache, media>> /\ call \in Calls /\ call.dir = "read"
        /\ i' = i + 1 /\ buf' = Append(buf, held)
        /\ pc' = IF i' < call.num THEN "read_poll" ELSE "report"
    BY <1>6 DEF ReadXfer, Progress, DriverTypes, CallOK
  <2>2. held = Stored(call.lba + i) /\ call.lba + i \in Sector
    BY <1>6 DEF ReadXfer, Phase, Offered
  <2>3. call.num \in Nat /\ call.lba \in Nat
    BY <2>1, CallFields
  <2>4. Len(buf') = i' /\ \A k \in 1 .. i : buf'[k] = buf[k]
    BY <2>1 DEF Received
  <2>5. buf'[i + 1] = held /\ call.lba + (i + 1) - 1 = call.lba + i
    BY <2>1, <2>3 DEF Received
  <2>6. \A k \in 1 .. i + 1 : /\ call.lba + k - 1 \in Sector
                              /\ buf'[k] = Stored(call.lba + k - 1)
    <3> SUFFICES ASSUME NEW k \in 1 .. i + 1
                 PROVE  call.lba + k - 1 \in Sector /\ buf'[k] = Stored(call.lba + k - 1)
      OBVIOUS
    <3>1. CASE k \in 1 .. i
      BY <2>1, <2>4, <3>1 DEF Received
    <3>2. CASE k = i + 1
      BY <2>2, <2>5, <3>2
    <3>3. i \in Nat
      BY <2>1
    <3>4. k \in 1 .. i \/ k = i + 1
      BY <3>3
    <3> QED  BY <3>1, <3>2, <3>4
  <2>7. Received'
    BY <2>1, <2>4, <2>6 DEF Received, Stored
  <2>8. ~ (i' < call.num) => i' = call.num
    BY <2>1, <2>3
  <2> QED  BY <2>1, <2>7, <2>8 DEF Progress
<1>7. CASE WritePoll
  BY <1>7 DEF WritePoll, Progress
<1>8. CASE WriteXfer
  <2>1. /\ i < call.num /\ i \in Nat /\ call \in Calls /\ call.dir = "write"
        /\ UNCHANGED <<call, buf>> /\ i' = i + 1 /\ buf = <<>>
        /\ pc' = IF i' < call.num THEN "write_poll" ELSE "flush"
    BY <1>8 DEF WriteXfer, Progress, DriverTypes, CallOK
  <2>2. ~ (i' < call.num) => i' = call.num
    BY <2>1, CallFields
  <2> QED  BY <2>1, <2>2 DEF Progress
<1>9. CASE Flush \/ FlushPoll
  BY <1>9 DEF Flush, FlushPoll, Progress, CallOK
<1>10. CASE Report
  BY <1>10 DEF Report, Progress
<1>11. CASE Fail \/ Offer \/ Ask \/ UNCHANGED vars
  <2>1. UNCHANGED <<pc, i, err, buf, call, cache, media>>
    BY <1>11 DEF Fail, Offer, Ask, vars, driverVars, diskVars
  <2> QED  BY <1>1, <2>1, StoredSame
<1>12. CASE Keep \/ Sync
  <2>1. pc \notin {"read_poll", "read_xfer", "report"}
    BY <1>12, DiskAtWork, JobKinds DEF Keep, Sync
  <2>2. UNCHANGED <<pc, i, err, buf, call>>
    BY <1>12 DEF Keep, Sync, driverVars
  <2> QED  BY <1>1, <2>1, <2>2
<1>13. ASSUME NEW s \in Sector, Destage(s) PROVE Progress'
  <2>1. UNCHANGED <<pc, i, err, buf, call>>
    BY <1>13 DEF Destage, driverVars
  <2> QED  BY <1>1, <1>13, <2>1, DestageKeepsStored
<1>14. CASE PowerCycle
  BY <1>14 DEF PowerCycle, Progress
<1> QED  BY <1>2, <1>3, <1>4, <1>5, <1>6, <1>7, <1>8, <1>9, <1>10, <1>11, <1>12, <1>13, <1>14
         DEF Next, Driver, DiskStep

\* The invariant always holds.
LEMMA IInvAlways == Spec => []IInv
<1>1. Init => IInv
  <2> SUFFICES ASSUME Init PROVE IInv
    OBVIOUS
  <2>1. DriverTypes
    <3>1. /\ pc = "idle" /\ call = NoCall
          /\ i = 0 /\ err = 0 /\ ret = 0 /\ buf = <<>>
      BY DEF Init
    <3> QED  BY <3>1 DEF DriverTypes
  <2>2. RegisterTypes
    BY JobTypes DEF Init, RegisterTypes
  <2>3. StoreTypes
    BY DEF Init, StoreTypes
  <2>4. FlagTypes
    BY DEF Init, FlagTypes
  <2>5. CallOK /\ Progress
    BY DEF Init, CallOK, Progress
  <2>6. Phase
    BY DEF Init, Phase, Quiet
  <2> QED  BY <2>1, <2>2, <2>3, <2>4, <2>5, <2>6 DEF IInv
<1>2. IInv /\ [Next]_vars => IInv'
  BY DriverTypesKept, RegisterTypesKept, StoreTypesKept, PhaseKept, CallKept, ProgressKept
     DEF IInv
<1> QED  BY <1>1, <1>2, PTL DEF Spec

(***************************************************************************)
(* What holds of every run.                                                *)
(***************************************************************************)

\* The driver's locals and the disk's registers keep their types: no index, error code
\* or command ever leaves its range.
THEOREM TypeCorrect == Spec => []TypeOK
<1>1. IInv => TypeOK
  BY DEF IInv, DriverTypes, RegisterTypes, StoreTypes, FlagTypes, JobType, TypeOK
<1> QED  BY <1>1, IInvAlways, PTL

\* For every disk, every call and every failure: data moves only when the disk asks for
\* it, and the disk is at rest between calls.
THEOREM ProtocolIsKept == Spec => []ProtocolKept
<1>1. IInv => ProtocolKept
  <2> SUFFICES ASSUME IInv PROVE ProtocolKept
    OBVIOUS
  <2>1. Phase
    BY DEF IInv
  <2>2. pc = "read_xfer" => drq
    BY <2>1 DEF Phase, Offered
  <2>3. pc = "write_xfer" => drq \/ failed
    BY <2>1 DEF Phase, Wanting
  <2>4. Idle => ~ bsy /\ ~ drq /\ job = NoJob
    BY <2>1 DEF Phase, Quiet, Idle
  <2> QED  BY <2>2, <2>3, <2>4 DEF ProtocolKept
<1> QED  BY <1>1, IInvAlways, PTL

\* The disk stores the sector of the write it was sent.
LEMMA KeepStores ==
  ASSUME IInv, Keep
  PROVE  /\ call \in Calls /\ ToDisk(call) /\ call.dir = "write" /\ ~ Idle
         /\ i \in 1 .. call.num /\ call.lba + i - 1 \in Sector
         /\ \A s \in Sector : Stored(s)' = IF s = call.lba + i - 1 THEN call.data[i]
                                           ELSE Stored(s)
         /\ UNCHANGED <<driverVars, media>>
<1>1. DriverTypes /\ StoreTypes /\ CallOK /\ Progress
  BY DEF IInv
<1>2. Keeping /\ pc \in {"write_poll", "flush", "flush_poll"}
  BY DiskAtWork, JobKinds DEF Keep
<1>3. call \in Calls /\ ToDisk(call) /\ call.dir = "write" /\ ~ Idle
  BY <1>1, <1>2 DEF CallOK, Idle
<1>4. call.num \in Nat /\ i <= call.num /\ i \in Nat /\ i >= 1
  BY <1>1, <1>2, <1>3, CallFields DEF Progress, DriverTypes, Keeping
<1>5. job.at = call.lba + i - 1 /\ held = call.data[i] /\ call.lba + i - 1 \in Sector
  BY <1>2 DEF Keeping, JobIs
<1>6. call.data[i] # NoData
  <2>1. call.data[i] \in Data
    BY <1>3, <1>4, CallFields
  <2> QED  BY <2>1, Values
<1>7. cache' = [cache EXCEPT ![call.lba + i - 1] = call.data[i]] /\ UNCHANGED media
  BY <1>5 DEF Keep
<1>8. \A s \in Sector : Stored(s)' = IF s = call.lba + i - 1 THEN call.data[i]
                                     ELSE Stored(s)
  BY <1>1, <1>5, <1>6, <1>7 DEF Stored, StoreTypes
<1> QED  BY <1>3, <1>4, <1>5, <1>7, <1>8 DEF Keep

\* Obeying a flush does not change what the disk returns.
LEMMA SyncKeepsStored ==
  ASSUME Sync
  PROVE  \A s \in Sector : Stored(s)' = Stored(s)
BY DEF Sync, Stored

\* A driver's step leaves the sectors alone.
LEMMA DriverKeepsStored ==
  ASSUME Driver \/ (\E x \in Calls : Enter(x)) \/ Fail \/ Offer \/ Ask \/ UNCHANGED vars
  PROVE  UNCHANGED <<cache, media>>
BY DEF Driver, Enter, Check, Issue, ReadPoll, ReadXfer, WritePoll, WriteXfer, Flush,
       FlushPoll, Report, Fail, Offer, Ask, diskVars, vars

\* Whatever the drive, the call and the failures: a sector changes only inside the range
\* of the write being served, to its data, or falls back to what was on the platters.
THEOREM WritesInRange == Spec => WritesStayInRange
<1> DEFINE InRange(s) ==
             \/ /\ call # NoCall /\ call.dir = "write" /\ ~ Idle
                /\ s \in call.lba .. call.lba + call.num - 1
                /\ Stored(s)' = call.data[s - call.lba + 1]
             \/ pc' = "idle" /\ Stored(s)' = media[s]
<1>1. ASSUME IInv, [Next]_vars, NEW s \in Sector, Stored(s)' # Stored(s)
      PROVE  InRange(s)
  <2>1. CASE Keep
    <3>1. /\ call \in Calls /\ call.dir = "write" /\ ~ Idle
          /\ i \in 1 .. call.num /\ s = call.lba + i - 1
          /\ Stored(s)' = call.data[i]
      BY <1>1, <2>1, KeepStores
    <3>2. call # NoCall
      BY <3>1, NoCallAssumption
    <3>3. call.lba \in Nat /\ call.num \in Nat
      BY <3>1, CallFields
    <3>4. s \in call.lba .. call.lba + call.num - 1 /\ s - call.lba + 1 = i
      BY <3>1, <3>3
    <3> QED  BY <3>1, <3>2, <3>4
  <2>2. CASE PowerCycle
    <3>1. /\ cache' = [r \in Sector |-> NoData] /\ UNCHANGED media /\ pc' = "idle"
      BY <2>2 DEF PowerCycle
    <3>2. Stored(s)' = media[s]
      BY <3>1 DEF Stored
    <3> QED  BY <3>1, <3>2
  <2>3. CASE Sync \/ \E r \in Sector : Destage(r)
    BY <1>1, <2>3, SyncKeepsStored, DestageKeepsStored DEF IInv
  <2>4. CASE \/ Driver \/ (\E x \in Calls : Enter(x)) \/ Fail \/ Offer \/ Ask
             \/ UNCHANGED vars
    BY <1>1, <2>4, DriverKeepsStored, StoredSame
  <2> QED  BY <1>1, <2>1, <2>2, <2>3, <2>4 DEF Next, DiskStep
<1>2. IInv /\ [Next]_vars => [\A s \in Sector : Stored(s)' # Stored(s) => InRange(s)]_vars
  BY <1>1
<1> QED  BY <1>2, IInvAlways, PTL DEF Spec, WritesStayInRange

(***************************************************************************)
(* The driver and its disk are a BlockDevice.                              *)
(***************************************************************************)
blockDisk   == [s \in Sector |-> Stored(s)]
blockCall   == IF Idle THEN NoCall ELSE call
blockAnswer == IF pc = "returned" /\ ret = 0 /\ ToDisk(call) THEN buf ELSE <<>>
blockView   == <<blockDisk, media, blockCall, ret, blockAnswer>>

\* The drives that are disks.
DiskSet == {d \in Drives : Present(d) /\ g_ide_devices[d].type = "ATA"}

\* A call goes to one of the BlockDevice's disks when ToDisk says that it does.
LEMMA DiskCalls ==
  ASSUME NEW x \in Calls
  PROVE  x.drive \in DiskSet <=> ToDisk(x)
BY CallFields DEF DiskSet, ToDisk

\* What the disk returns, seen as one function.
LEMMA BlockDiskSame ==
  ASSUME \A s \in Sector : Stored(s)' = Stored(s)
  PROVE  blockDisk' = blockDisk
BY DEF blockDisk

\* A step between the start and the end of a call is none of the BlockDevice unless it
\* changes what is stored.
LEMMA Between ==
  ASSUME ~ Idle, ~ Idle', UNCHANGED <<call, ret, media>>, blockDisk' = blockDisk
  PROVE  UNCHANGED blockView
BY DEF Idle, blockView, blockCall, blockAnswer

\* The end of the call: a read without an error returns what is stored, another return
\* carries nothing.
LEMMA BlockReport ==
  ASSUME IInv, Report
  PROVE  Block!ReadOk \/ Block!Finish
<1> DriverTypes /\ CallOK /\ Progress
  BY DEF IInv
<1>1. /\ pc = "report" /\ pc' = "returned" /\ UNCHANGED <<call, i, buf, err>>
      /\ ret' = ide_print_error(err, errreg)
      /\ call \in Calls /\ call # NoCall
  BY NoCallAssumption DEF Report, CallOK
<1>2. UNCHANGED <<cache, media>> /\ err \in 0..255
  BY DriverKeepsStored DEF Driver, DriverTypes
<1>3. blockDisk' = blockDisk
  BY <1>2, StoredSame, BlockDiskSame
<1>4. ret' \in 0..255 /\ (ret' = 0 <=> err = 0)
  <2> DEFINE code == ide_print_error(err, errreg)
  <2>1. code \in 0..255 /\ (err # 0 => code # 0) /\ (err = 0 => code = 0)
    <3>1. /\ ide_print_error(err, errreg) \in 0..255
          /\ err # 0 => ide_print_error(err, errreg) # 0
          /\ err = 0 => ide_print_error(err, errreg) = 0
      BY <1>2, ErrorCode
    <3> QED  BY <3>1, Zenon
  <2>2. ret' = code
    BY <1>1, Zenon
  <2> HIDE DEF code
  <2> QED  BY <2>1, <2>2
<1>5. blockCall = call /\ blockCall' = NoCall
  BY <1>1 DEF blockCall, Idle
<1>6. ToDisk(call)' = ToDisk(call)
  BY <1>1 DEF ToDisk, Present
<1>7. CASE call.dir = "read" /\ ToDisk(call) /\ err = 0
  <2>1. Received /\ i = call.num /\ buf \in Seq(Data)
    BY <1>1, <1>7 DEF Progress, DriverTypes
  <2>2. call.num \in Nat /\ call.lba \in Nat
    BY <1>1, CallFields
  <2>3. buf = [k \in 1 .. call.num |-> blockDisk[call.lba + k - 1]]
    BY <2>1, <2>2 DEF Received, blockDisk
  <2>4. \A k \in 1 .. call.num : call.lba + k - 1 \in Sector
    BY <2>1 DEF Received
  <2>5. ret' = 0 /\ blockAnswer' = buf
    BY <1>1, <1>4, <1>6, <1>7 DEF blockAnswer
  <2>6. call.drive \in DiskSet
    BY <1>1, <1>7, DiskCalls
  <2>7. Block!ReadOk
    BY <1>1, <1>2, <1>3, <1>5, <1>7, <2>3, <2>4, <2>5, <2>6
       DEF Block!ReadOk, blockDisk, blockCall, blockAnswer, DiskSet
  <2> QED  BY <2>7
<1>8. CASE ~ (call.dir = "read" /\ ToDisk(call) /\ err = 0)
  <2>1. blockAnswer' = <<>>
    <3>1. CASE call.dir = "write"
      BY <1>1, <3>1 DEF blockAnswer, Progress
    <3>2. CASE call.dir = "read" /\ ~ (ret' = 0 /\ ToDisk(call)')
      BY <3>2 DEF blockAnswer
    <3> QED  BY <1>1, <1>4, <1>6, <1>8, <3>1, <3>2, CallFields
  <2>2. call.dir = "read" /\ call.drive \in DiskSet => ret' # 0
    BY <1>1, <1>4, <1>8, DiskCalls
  <2>3. ret' \in -2..255
    BY <1>4
  <2>4. Block!Finish
    BY <1>1, <1>2, <1>3, <1>5, <2>1, <2>2, <2>3
       DEF Block!Finish, blockDisk, blockCall, blockAnswer, DiskSet
  <2> QED  BY <2>4
<1> QED  BY <1>7, <1>8

\* Each step of driver and disk is one of the BlockDevice, or none.
LEMMA BlockStep ==
  ASSUME IInv, [Next]_vars
  PROVE  [Block!Next]_(Block!blockVars)
<1> DriverTypes /\ StoreTypes /\ CallOK /\ Progress
  BY DEF IInv
<1>1. UNCHANGED blockView => UNCHANGED Block!blockVars
  BY DEF blockView, Block!blockVars, blockDisk, blockCall, blockAnswer
<1>2. ASSUME NEW x \in Calls, Enter(x) PROVE Block!Accept(x)
  <2>1. UNCHANGED <<cache, media>>
    BY <1>2, DriverKeepsStored
  <2>2. blockDisk' = blockDisk
    BY <2>1, StoredSame, BlockDiskSame
  <2>3. blockCall = NoCall /\ blockCall' = x /\ ret' = 0 /\ blockAnswer' = <<>>
    BY <1>2 DEF Enter, blockCall, blockAnswer, Idle
  <2> QED  BY <2>1, <2>2, <2>3 DEF Block!Accept, blockDisk, blockCall, blockAnswer
<1>3. CASE Check
  <2>1. UNCHANGED <<cache, media>>
    BY <1>3, DriverKeepsStored DEF Driver
  <2>2. blockDisk' = blockDisk
    BY <2>1, StoredSame, BlockDiskSame
  <2>3. pc = "check" /\ call \in Calls /\ UNCHANGED call
    BY <1>3 DEF Check, CallOK
  <2>4. CASE pc' = "returned"
    <3>1. ret' \in {-1, -2}
      BY <1>3, <2>4 DEF Check
    <3>2. ret' \in -2..255 /\ ret' # 0
      BY <3>1
    <3>3. blockCall = call /\ blockCall' = NoCall /\ blockAnswer' = <<>>
      BY <2>3, <2>4, <3>2 DEF blockCall, blockAnswer, Idle
    <3>4. call # NoCall
      BY <2>3, NoCallAssumption
    <3>5. Block!Finish
      BY <2>1, <2>2, <3>2, <3>3, <3>4 DEF Block!Finish, blockDisk, blockCall, blockAnswer
    <3> QED  BY <3>5 DEF Block!Next
  <2>5. CASE pc' # "returned"
    <3>1. ~ Idle /\ ~ Idle' /\ UNCHANGED ret
      BY <1>3, <2>5 DEF Check, Idle
    <3> QED  BY <1>1, <2>1, <2>2, <2>3, <3>1, Between
  <2> QED  BY <2>4, <2>5
<1>4. CASE Issue \/ ReadPoll \/ ReadXfer \/ WritePoll \/ WriteXfer \/ Flush \/ FlushPoll
  <2>1. UNCHANGED <<cache, media>>
    BY <1>4, DriverKeepsStored DEF Driver
  <2>2. ~ Idle /\ ~ Idle' /\ UNCHANGED <<call, ret>>
    BY <1>4 DEF Issue, ReadPoll, ReadXfer, WritePoll, WriteXfer, Flush, FlushPoll, Idle
  <2> QED  BY <1>1, <2>1, <2>2, StoredSame, BlockDiskSame, Between
<1>5. CASE Report
  BY <1>5, BlockReport DEF Block!Next
<1>6. ASSUME UNCHANGED <<pc, call, ret, buf>>
      PROVE  UNCHANGED <<blockCall, ret, blockAnswer>>
  BY <1>6 DEF blockCall, blockAnswer, Idle, ToDisk, Present
<1>7. CASE Fail \/ Offer \/ Ask \/ UNCHANGED vars
  <2>1. UNCHANGED <<pc, call, ret, buf, cache, media>>
    BY <1>7 DEF Fail, Offer, Ask, driverVars, vars, diskVars
  <2> QED  BY <1>1, <1>6, <2>1, StoredSame, BlockDiskSame DEF blockView
<1>8. CASE Keep
  <2>1. /\ call \in Calls /\ ToDisk(call) /\ call.dir = "write" /\ ~ Idle
        /\ i \in 1 .. call.num /\ call.lba + i - 1 \in Sector
        /\ \A s \in Sector : Stored(s)' = IF s = call.lba + i - 1 THEN call.data[i]
                                          ELSE Stored(s)
        /\ UNCHANGED <<pc, call, ret, buf, media>>
    BY <1>8, KeepStores DEF driverVars
  <2>2. call.lba \in Nat /\ call.num \in Nat /\ call.drive \in DiskSet /\ call # NoCall
    BY <2>1, CallFields, DiskCalls, NoCallAssumption
  <2>3. /\ i - 1 \in 0 .. call.num - 1 /\ (i - 1) + 1 = i
        /\ call.lba + (i - 1) = call.lba + i - 1
    BY <2>1, <2>2
  <2>4. blockDisk' = [blockDisk EXCEPT ![call.lba + (i - 1)] = call.data[(i - 1) + 1]]
    BY <2>1, <2>3 DEF blockDisk
  <2>5. blockCall = call
    BY <2>1 DEF blockCall
  <2>6. Block!Store(i - 1)
    BY <1>6, <2>1, <2>2, <2>3, <2>4, <2>5
       DEF Block!Store, blockDisk, blockCall, blockAnswer, DiskSet
  <2> QED  BY <2>2, <2>3, <2>5, <2>6 DEF Block!Next, blockCall
<1>9. CASE Sync
  <2>1. UNCHANGED <<pc, call, ret, buf>> /\ media' = [s \in Sector |-> Stored(s)]
    BY <1>9 DEF Sync, driverVars
  <2>2. blockDisk' = blockDisk
    BY <1>9, SyncKeepsStored, BlockDiskSame
  <2>3. media' = [s \in Sector |-> IF s \in Sector THEN blockDisk[s] ELSE media[s]]
    BY <2>1 DEF blockDisk
  <2>4. Block!Settle(Sector)
    BY <1>6, <2>1, <2>2, <2>3 DEF Block!Settle, blockDisk, blockCall, blockAnswer
  <2> QED  BY <2>4 DEF Block!Next
<1>10. ASSUME NEW s \in Sector, Destage(s) PROVE Block!Settle({s})
  <2>1. UNCHANGED <<pc, call, ret, buf>>
    BY <1>10 DEF Destage, driverVars
  <2>2. blockDisk' = blockDisk
    BY <1>10, DestageKeepsStored, BlockDiskSame
  <2>3. media' = [media EXCEPT ![s] = Stored(s)]
    BY <1>10 DEF Destage, Stored
  <2>4. media' = [r \in Sector |-> IF r \in {s} THEN blockDisk[r] ELSE media[r]]
    BY <2>3 DEF blockDisk, StoreTypes
  <2> QED  BY <1>6, <2>1, <2>2, <2>4 DEF Block!Settle, blockDisk, blockCall, blockAnswer
<1>11. CASE PowerCycle
  <2>1. /\ pc' = "idle" /\ ret' = 0 /\ UNCHANGED media
        /\ cache' = [s \in Sector |-> NoData]
    BY <1>11 DEF PowerCycle
  <2>2. \A s \in Sector : Stored(s)' = media[s]
    BY <2>1 DEF Stored
  <2>3. blockDisk' = media
    BY <2>2 DEF blockDisk, StoreTypes
  <2>4. blockCall' = NoCall /\ blockAnswer' = <<>>
    BY <2>1 DEF blockCall, blockAnswer, Idle
  <2>5. Block!PowerFailure
    BY <2>1, <2>3, <2>4 DEF Block!PowerFailure, blockDisk, blockCall, blockAnswer
  <2> QED  BY <2>5 DEF Block!Next
<1>12. ASSUME NEW S \in SUBSET Sector, Block!Settle(S) PROVE Block!Next
  BY <1>12 DEF Block!Next
<1> QED  BY <1>2, <1>3, <1>4, <1>5, <1>7, <1>8, <1>9, <1>10, <1>11, <1>12
         DEF Next, Driver, DiskStep, Block!Next

\* For every disk, drive table and call: a call is served alone, a read that returns 0
\* has filled its buffer with what the disk stores, whatever failed or was written back
\* meanwhile, a write puts its data in its range or nowhere, and a loss of power undoes
\* only what was not on the platters.
THEOREM DriverIsBlockDevice == Spec => BlockDeviceSpec
<1>1. Init => Block!Init
  <2> SUFFICES ASSUME Init PROVE Block!Init
    OBVIOUS
  <2>1. PICK d \in Data : media = [s \in Sector |-> d]
    BY DEF Init
  <2>2. \A s \in Sector : Stored(s) = d
    BY <2>1 DEF Init, Stored
  <2>3. blockDisk = media /\ blockDisk \in [Sector -> Data]
    BY <2>1, <2>2 DEF blockDisk
  <2>4. blockCall = NoCall /\ ret = 0 /\ blockAnswer = <<>>
    BY DEF Init, blockCall, blockAnswer, Idle
  <2> QED  BY <2>3, <2>4 DEF Block!Init, blockDisk, blockCall, blockAnswer
<1>2. IInv /\ [Next]_vars => [Block!Next]_(Block!blockVars)
  BY BlockStep
<1> QED  BY <1>1, <1>2, IInvAlways, PTL DEF Spec, BlockDeviceSpec, Block!Spec
=============================================================================
