---------------------------- MODULE StorageProofs ----------------------------
(***************************************************************************)
(* What the file layer guarantees on a driver that works while it waits,   *)
(* for every disk, every table and every layout of disjoint files: headers *)
(* are never overwritten, the files are those of FileStore, and each       *)
(* operation is as if done at once.                                        *)
(***************************************************************************)
EXTENDS Storage, TLAPS, WellFoundedInduction

(***************************************************************************)
(* The layout and the table.                                               *)
(***************************************************************************)

\* A set of naturals that is not empty has a least element.
LEMMA HasLeast ==
  ASSUME NEW T \in SUBSET Nat, T # {}
  PROVE  \E k \in T : \A j \in T : k <= j
<1> DEFINE Below == OpToRel(<, Nat)
<1>1. PICK k \in T : \A j \in T : <<j, k>> \notin Below
  <2>1. IsWellFoundedOn(Below, Nat)
    BY NatLessThanWellFounded
  <2> HIDE DEF Below
  <2> QED  BY <2>1, WFMin
<1>2. ASSUME NEW j \in T PROVE k <= j
  <2>1. ~ (j < k)
    BY <1>1 DEF OpToRel
  <2> QED  BY <2>1
<1> QED  BY <1>2

\* The numbers of the assumption.
LEMMA Sizes ==
  /\ WORD \in Nat /\ Size \in Nat /\ Size < WORD - 1
  /\ Slots \in Nat
<1>1. /\ WORD \in Nat /\ Size \in Nat /\ Size < WORD - 1
      /\ Slots \in Nat \ {0}
  BY VdfsAssumption, Zenon
<1> QED  BY <1>1

\* A number below the modulus is its own remainder.
LEMMA SmallMod ==
  ASSUME NEW w \in Nat, NEW n \in 0 .. w - 1
  PROVE  n % w = n
OBVIOUS

\* The data of a file is in the sector after its header, both on the disk.
LEMMA FileSectors ==
  ASSUME NEW e \in Files
  PROVE  /\ e.FirstSector \in Sector /\ e.FirstSector # 0
         /\ DataSector(e) = e.FirstSector + 1 /\ DataSector(e) \in Sector
<1>1. e.FirstSector \in 1 .. Size - 2
  BY VdfsAssumption
<1>2. (e.FirstSector + 1) % WORD = e.FirstSector + 1
  BY <1>1, Sizes, SmallMod
<1> QED  BY <1>1, <1>2, Sizes DEF DataSector, Sector

\* What a name that is not in the table opens has its data in sector 0.
LEMMA NotFoundSector == DataSector(NotFound) = 0
<1>1. WORD \in Nat /\ WORD > 0
  BY Sizes
<1>2. WORD % WORD = 0
  BY <1>1
<1> QED  BY <1>1, <1>2 DEF DataSector, NotFound

\* The sectors of the files are disjoint, and none of them is sector 0.
LEMMA Layout ==
  ASSUME NEW e \in Files, NEW f \in Files
  PROVE  /\ DataSector(e) # f.FirstSector /\ DataSector(e) # 0
         /\ DataSector(e) = DataSector(f) => e = f
         /\ e.FirstSector = f.FirstSector => e = f
<1>1. e # f => \/ e.FirstSector + 1 < f.FirstSector
               \/ f.FirstSector + 1 < e.FirstSector
  BY VdfsAssumption
<1>2. e.FirstSector \in Int /\ f.FirstSector \in Int
  BY FileSectors DEF Sector
<1> QED  BY <1>1, <1>2, FileSectors DEF Sector

\* The names of the files tell them apart, and none is the name of a free slot.
LEMMA FileByName ==
  /\ "" \notin FileNames
  /\ \A e \in Files : e.Name \in FileNames /\ FileOf(e.Name) = e
  /\ \A n \in FileNames : FileOf(n) \in Files /\ FileOf(n).Name = n
<1>1. "" \notin FileNames
  BY VdfsAssumption DEF FileNames
<1>2. ASSUME NEW e \in Files PROVE e.Name \in FileNames /\ FileOf(e.Name) = e
  <2>1. \A f \in Files : f.Name = e.Name => f = e
    BY VdfsAssumption
  <2> QED  BY <2>1 DEF FileOf, FileNames
<1>3. ASSUME NEW n \in FileNames PROVE FileOf(n) \in Files /\ FileOf(n).Name = n
  BY <1>2 DEF FileNames
<1> QED  BY <1>1, <1>2, <1>3

\* What the table holds.
TableOK == entries \in [1 .. Slots -> Files \cup {FreeSlot}]

\* The first slot with a name is a slot with that name.
LEMMA FirstMatch ==
  ASSUME NEW path, Matches(path) # {}
  PROVE  First(Matches(path)) \in 1 .. Slots /\ entries[First(Matches(path))].Name = path
<1>1. Matches(path) \in SUBSET Nat
  BY Sizes DEF Matches
<1>2. \E k \in Matches(path) : \A j \in Matches(path) : k <= j
  BY <1>1, HasLeast
<1> QED  BY <1>2 DEF Matches, First

\* A name in the table opens the one file of that name; another opens NotFound.
LEMMA OpensFile ==
  ASSUME TableOK, NEW n \in FileNames
  PROVE  VD_Open(n) = IF Matches(n) = {} THEN NotFound ELSE FileOf(n)
<1>1. CASE Matches(n) # {}
  <2> DEFINE k == First(Matches(n))
  <2>1. k \in 1 .. Slots /\ entries[k].Name = n
    BY <1>1, FirstMatch
  <2> HIDE DEF k
  <2>2. entries[k] \in Files
    <3>1. entries[k] \in Files \cup {FreeSlot}
      BY <2>1 DEF TableOK
    <3>2. entries[k].Name # FreeSlot.Name
      BY <2>1, FileByName DEF FreeSlot
    <3> QED  BY <3>1, <3>2
  <2>3. entries[k] = FileOf(n)
    BY <2>1, <2>2, FileByName
  <2> QED  BY <1>1, <2>3 DEF VD_Open, k
<1> QED  BY <1>1 DEF VD_Open

\* Any name opens the entry of a file, a free slot or NotFound, whose data is somewhere.
LEMMA OpensSomething ==
  ASSUME TableOK, NEW n
  PROVE  DataSector(VD_Open(n)) \in 0 .. WORD - 1
<1>1. VD_Open(n) \in Files \cup {FreeSlot, NotFound}
  <2>1. CASE Matches(n) # {}
    BY <2>1, FirstMatch DEF VD_Open, TableOK
  <2>2. CASE Matches(n) = {}
    BY <2>2 DEF VD_Open
  <2> QED  BY <2>1, <2>2
<1>2. DataSector(FreeSlot) \in 0 .. WORD - 1
  <2>1. 0 + 1 \in 0 .. WORD - 1
    BY Sizes
  <2>2. (0 + 1) % WORD = 0 + 1
    BY <2>1, Sizes, SmallMod
  <2> QED  BY <2>1, <2>2 DEF DataSector, FreeSlot
<1>3. Sector \subseteq 0 .. WORD - 1 /\ 0 \in 0 .. WORD - 1
  BY Sizes DEF Sector
<1> QED  BY <1>1, <1>2, <1>3, FileSectors, NotFoundSector

\* So text goes where the data of the file is, or to sector 0.
LEMMA OpenedSector ==
  ASSUME TableOK, NEW n \in FileNames
  PROVE  /\ DataSector(VD_Open(n)) \in Nat
         /\ DataSector(VD_Open(n)) = IF Matches(n) = {} THEN 0
                                     ELSE DataSector(FileOf(n))
<1>1. FileOf(n) \in Files
  BY FileByName
<1> QED  BY <1>1, OpensFile, NotFoundSector, FileSectors DEF Sector

\* Registering an entry keeps the table a table, adds its name at most, and takes no
\* other name away.
LEMMA Registers ==
  ASSUME TableOK, NEW e \in Files
  PROVE  /\ Register(e) \in [1 .. Slots -> Files \cup {FreeSlot}]
         /\ \A k \in 1 .. Slots :
              \/ Register(e)[k] = entries[k]
              \/ entries[k].Name = "" /\ Register(e)[k] = e
<1>1. CASE Matches("") # {}
  <2> DEFINE k == First(Matches(""))
  <2>1. k \in 1 .. Slots /\ entries[k].Name = ""
    BY <1>1, FirstMatch
  <2>2. Register(e) = [entries EXCEPT ![k] = e]
    BY <1>1 DEF Register
  <2> HIDE DEF k
  <2> QED  BY <2>1, <2>2 DEF TableOK
<1>2. CASE Matches("") = {}
  BY <1>2 DEF Register, TableOK
<1> QED  BY <1>1, <1>2

(***************************************************************************)
(* What the driver is doing is what the operation asked of it.             *)
(***************************************************************************)
Pending ==
  \/ op = None /\ call = NoCall
  \/ \E e \in Files :
       /\ op = Op("VD_Write", e, "")
       /\ call = DriverCall("write", e.FirstSector, <<Header(e)>>)
  \/ \E n \in FileNames, t \in Texts :
       /\ op = Op("VD_WriteData", VD_Open(n), "")
       /\ call = DriverCall("write", DataSector(VD_Open(n)), <<TextOf(t)>>)
  \/ \E n \in Names :
       /\ op = Op("VD_ReadData", FreeSlot, n)
       /\ call = DriverCall("read", DataSector(VD_Open(n)), <<>>)

\* The entry of a pending VD_Write is that of a file, which its call goes to.
LEMMA PendingWrite ==
  ASSUME Pending, op.kind = "VD_Write"
  PROVE  /\ op.entry \in Files
         /\ call = DriverCall("write", op.entry.FirstSector, <<Header(op.entry)>>)
<1>1. /\ None.kind # "VD_Write"
      /\ \A e, path : /\ Op("VD_WriteData", e, path).kind # "VD_Write"
                      /\ Op("VD_ReadData", e, path).kind # "VD_Write"
  BY DEF None, Op
<1>2. PICK e \in Files : /\ op = Op("VD_Write", e, "")
                         /\ call = DriverCall("write", e.FirstSector, <<Header(e)>>)
  BY <1>1, Zenon DEF Pending
<1>3. op.entry = e
  BY <1>2 DEF Op
<1> QED  BY <1>2, <1>3

\* The same table opens the same entries.
LEMMA SameTable ==
  ASSUME UNCHANGED entries, NEW n
  PROVE  Matches(n)' = Matches(n) /\ VD_Open(n)' = VD_Open(n)
BY DEF Matches, VD_Open

\* The table and the driver agree with the operation, whatever step is taken.
LEMMA PendingKept ==
  ASSUME TableOK, Pending, [StorageNext]_storageVars
  PROVE  TableOK' /\ Pending'
<1>1. ASSUME NEW e \in Files, BeginWrite(e) PROVE TableOK' /\ Pending'
  BY <1>1 DEF BeginWrite, Begin, Driver!Accept, TableOK, Pending
<1>2. ASSUME NEW n \in FileNames, NEW t \in Texts, BeginWriteData(t, VD_Open(n))
      PROVE  TableOK' /\ Pending'
  <2>1. UNCHANGED entries /\ TableOK'
    BY <1>2 DEF BeginWriteData, Begin, TableOK
  <2>2. /\ op' = Op("VD_WriteData", VD_Open(n)', "")
        /\ call' = DriverCall("write", DataSector(VD_Open(n)'), <<TextOf(t)>>)
    BY <1>2, <2>1, SameTable DEF BeginWriteData, Begin, Driver!Accept
  <2> QED  BY <2>1, <2>2 DEF Pending
<1>3. ASSUME NEW n \in Names, BeginReadData(n) PROVE TableOK' /\ Pending'
  <2>1. UNCHANGED entries /\ TableOK'
    BY <1>3 DEF BeginReadData, Begin, TableOK
  <2>2. /\ op' = Op("VD_ReadData", FreeSlot, n)
        /\ call' = DriverCall("read", DataSector(VD_Open(n)'), <<>>)
    BY <1>3, <2>1, SameTable DEF BeginReadData, Begin, Driver!Accept
  <2> QED  BY <2>1, <2>2 DEF Pending
<1>4. ASSUME Return PROVE TableOK' /\ Pending'
  <2>1. op' = None /\ call' = NoCall /\ call # NoCall
    BY <1>4 DEF Return, Driver!ReadOk, Driver!Finish
  <2>2. op.kind = "VD_Write" => op.entry \in Files
    BY PendingWrite
  <2>3. CASE op.kind = "VD_Write"
    <3>1. entries' = Register(op.entry)
      BY <1>4, <2>3 DEF Return
    <3> QED  BY <2>1, <2>2, <2>3, <3>1, Registers DEF TableOK, Pending
  <2>4. CASE op.kind # "VD_Write"
    BY <1>4, <2>1, <2>4 DEF Return, TableOK, Pending
  <2> QED  BY <2>3, <2>4
<1>5. ASSUME DiskWorks \/ UNCHANGED storageVars PROVE TableOK' /\ Pending'
  <2>1. UNCHANGED <<entries, op, call>>
    BY <1>5 DEF DiskWorks, Driver!Store, Driver!Settle, storageVars, driverVars
  <2>2. \A n : VD_Open(n)' = VD_Open(n)
    BY <2>1, SameTable
  <2> QED  BY <2>1, <2>2 DEF TableOK, Pending
<1>6. ASSUME PowerFailure PROVE TableOK' /\ Pending'
  BY <1>6 DEF PowerFailure, Driver!PowerFailure, TableOK, Pending
<1> QED  BY <1>1, <1>2, <1>3, <1>4, <1>5, <1>6 DEF StorageNext

\* So they do all the time.
LEMMA PendingAlways == StorageSpec => [](TableOK /\ Pending)
<1>1. StorageInit => TableOK /\ Pending
  BY DEF StorageInit, Driver!Init, TableOK, Pending
<1>2. TableOK /\ Pending /\ [StorageNext]_storageVars => (TableOK /\ Pending)'
  BY PendingKept
<1> QED  BY <1>1, <1>2, PTL DEF StorageSpec

(***************************************************************************)
(* What a step does to the disk and to the caller.                         *)
(***************************************************************************)

\* A sector written by the operation e writes.
Writes(s, x) == Reachable(s) /\ disk' = [disk EXCEPT ![s] = x]

\* What the driver stores is the header of the operation or its text.
LEMMA Stores ==
  ASSUME TableOK, Pending, call # NoCall, Driver!Store(0)
  PROVE  \/ \E e \in Files : /\ op = Op("VD_Write", e, "")
                             /\ Writes(e.FirstSector, Header(e))
         \/ \E n \in FileNames, t \in Texts :
              /\ op = Op("VD_WriteData", VD_Open(n), "")
              /\ Writes(DataSector(VD_Open(n)), TextOf(t))
<1>1. ASSUME NEW s \in Int, NEW x, call = DriverCall("write", s, <<x>>)
      PROVE  Writes(s, x)
  <2>1. call.lba + 0 = s /\ call.data[0 + 1] = x
    BY <1>1 DEF DriverCall
  <2>2. s \in Sector /\ disk' = [disk EXCEPT ![s] = x] /\ DriveFound
    BY <2>1 DEF Driver!Store
  <2>3. s + 1 \in 0 .. WORD - 1 /\ s + 1 <= Size
    BY <2>2, Sizes DEF Sector
  <2> QED  BY <2>2, <2>3, Sizes, SmallMod DEF Writes, Reachable
<1>2. CASE \E e \in Files :
            /\ op = Op("VD_Write", e, "")
            /\ call = DriverCall("write", e.FirstSector, <<Header(e)>>)
  <2>1. \A e \in Files : e.FirstSector \in Int
    BY FileSectors DEF Sector
  <2> QED  BY <1>1, <1>2, <2>1, Zenon
<1>3. CASE \E n \in FileNames, t \in Texts :
            /\ op = Op("VD_WriteData", VD_Open(n), "")
            /\ call = DriverCall("write", DataSector(VD_Open(n)), <<TextOf(t)>>)
  <2>1. \A n \in FileNames : DataSector(VD_Open(n)) \in Int
    BY OpenedSector
  <2> QED  BY <1>1, <1>3, <2>1
<1>4. ~ \E n \in Names : call = DriverCall("read", DataSector(VD_Open(n)), <<>>)
  BY DEF Driver!Store, DriverCall
<1> QED  BY <1>2, <1>3, <1>4 DEF Pending

(***************************************************************************)
(* No step overwrites a header.                                            *)
(***************************************************************************)
HeadersIn(d) ==
  /\ d \in [Sector -> Content]
  /\ \A e \in Files : d[e.FirstSector] \in {Header(e)} \cup {TextOf(t) : t \in Foreign}

\* A write of something else than its header into no first sector, or of its header into
\* one, leaves the headers as they are.
LEMMA HeadersKeptByWrite ==
  ASSUME HeadersIn(disk), NEW s, NEW x \in Content, Writes(s, x),
         \A e \in Files : e.FirstSector = s => x = Header(e)
  PROVE  HeadersIn(disk')
<1>1. s \in Sector /\ disk' = [disk EXCEPT ![s] = x]
  BY DEF Writes, Reachable
<1>2. disk' \in [Sector -> Content]
  BY <1>1 DEF HeadersIn
<1>3. ASSUME NEW e \in Files
      PROVE  disk'[e.FirstSector] \in {Header(e)} \cup {TextOf(t) : t \in Foreign}
  <2>1. disk'[e.FirstSector] = IF e.FirstSector = s THEN x ELSE disk[e.FirstSector]
    BY <1>1, FileSectors DEF HeadersIn
  <2> QED  BY <2>1 DEF HeadersIn
<1> QED  BY <1>2, <1>3 DEF HeadersIn

\* What is on the disk and what outlives a power failure have intact headers.
LEMMA HeadersKept ==
  ASSUME TableOK, Pending, HeadersIn(disk), HeadersIn(durable),
         [StorageNext]_storageVars
  PROVE  HeadersIn(disk') /\ HeadersIn(durable')
<1>1. CASE UNCHANGED <<disk, durable>>
  BY <1>1
<1>2. CASE call # NoCall /\ Driver!Store(0)
  <2>1. UNCHANGED durable
    BY <1>2 DEF Driver!Store
  <2>2. ASSUME NEW e \in Files, Writes(e.FirstSector, Header(e))
        PROVE  HeadersIn(disk')
    <3>1. \A f \in Files : f.FirstSector = e.FirstSector => f = e
      BY Layout
    <3>2. Header(e) \in Content
      BY DEF Content
    <3> QED  BY <2>2, <3>1, <3>2, HeadersKeptByWrite
  <2>3. ASSUME NEW n \in FileNames, NEW t \in Texts,
               Writes(DataSector(VD_Open(n)), TextOf(t))
        PROVE  HeadersIn(disk')
    <3>1. FileOf(n) \in Files
      BY FileByName
    <3>2. \A e \in Files : e.FirstSector # DataSector(VD_Open(n))
      BY <3>1, OpenedSector, Layout, FileSectors
    <3>3. TextOf(t) \in Content
      BY DEF Content
    <3> QED  BY <2>3, <3>2, <3>3, HeadersKeptByWrite
  <2>4. HeadersIn(disk')
    BY <1>2, <2>2, <2>3, Stores
  <2> QED  BY <2>1, <2>4
<1>3. ASSUME NEW s \in Sector, Driver!Settle({s})
      PROVE  HeadersIn(disk') /\ HeadersIn(durable')
  <2>1. /\ durable' = [r \in Sector |-> IF r \in {s} THEN disk[r] ELSE durable[r]]
        /\ UNCHANGED disk
    BY <1>3 DEF Driver!Settle
  <2>2. durable' \in [Sector -> Content]
    BY <2>1 DEF HeadersIn
  <2>3. \A e \in Files : durable'[e.FirstSector] \in {disk[e.FirstSector], durable[e.FirstSector]}
    BY <2>1, FileSectors
  <2> QED  BY <2>1, <2>2, <2>3 DEF HeadersIn
<1>4. CASE disk' = durable /\ UNCHANGED durable
  BY <1>4
<1>5. CASE PowerFailure
  BY <1>4, <1>5 DEF PowerFailure, Driver!PowerFailure
<1>6. CASE DiskWorks
  BY <1>2, <1>3, <1>6 DEF DiskWorks
<1>7. CASE Return \/ UNCHANGED storageVars
  BY <1>1, <1>7 DEF Return, Driver!ReadOk, Driver!Finish, storageVars, driverVars
<1>8. ASSUME NEW o, NEW x, Begin(o, x) PROVE UNCHANGED <<disk, durable>>
  BY <1>8 DEF Begin, Driver!Accept
<1> QED  BY <1>1, <1>5, <1>6, <1>7, <1>8
         DEF StorageNext, BeginWrite, BeginWriteData, BeginReadData

\* The invariant of the composition: the table, the pending call, and the headers on
\* the disk and on what outlives a power failure.
IInv == /\ TableOK /\ Pending
        /\ HeadersIn(disk) /\ HeadersIn(durable)

\* It always holds.
LEMMA IInvAlways == StorageSpec => []IInv
<1>1. StorageInit => IInv
  <2> SUFFICES ASSUME StorageInit PROVE IInv
    OBVIOUS
  <2>1. disk \in [Sector -> {TextOf(t) : t \in Foreign}] /\ durable = disk
    BY DEF StorageInit, Driver!Init
  <2>2. HeadersIn(disk)
    BY <2>1, FileSectors DEF HeadersIn, Content
  <2>3. TableOK /\ Pending
    BY DEF StorageInit, Driver!Init, TableOK, Pending
  <2> QED  BY <2>1, <2>2, <2>3 DEF IInv
<1>2. IInv /\ [StorageNext]_storageVars => IInv'
  BY PendingKept, HeadersKept DEF IInv
<1> QED  BY <1>1, <1>2, PTL DEF StorageSpec

\* What is written into a file never lands on a header, whatever the table holds, while
\* the driver works and after a power failure as well.
THEOREM HeadersStayIntact == StorageSpec => []HeadersIntact
<1>1. IInv => HeadersIntact
  BY DEF IInv, HeadersIn, HeadersIntact
<1> QED  BY <1>1, IInvAlways, PTL

(***************************************************************************)
(* The files are those of FileStore.                                       *)
(***************************************************************************)
Known == {n \in FileNames : Matches(n) # {}}

\* Registering an entry makes its name known at most.
LEMMA RegistersName ==
  ASSUME TableOK, NEW e \in Files, entries' = Register(e)
  PROVE  Known' \in {Known, Known \cup {e.Name}}
<1>1. \A k \in 1 .. Slots : \/ entries'[k] = entries[k]
                            \/ entries[k].Name = "" /\ entries'[k] = e
  <2>1. \A k \in 1 .. Slots : \/ Register(e)[k] = entries[k]
                              \/ entries[k].Name = "" /\ Register(e)[k] = e
    BY Registers
  <2> QED  BY <2>1
<1>2. ASSUME NEW n \in Known PROVE n \in Known'
  <2>1. PICK k \in 1 .. Slots : entries[k].Name = n
    BY <1>2 DEF Known, Matches
  <2>2. n \in FileNames /\ n # ""
    BY <1>2, FileByName DEF Known
  <2> QED  BY <1>1, <2>1, <2>2 DEF Known, Matches
<1>3. ASSUME NEW n \in Known', n \notin Known PROVE n = e.Name
  <2>1. PICK k \in 1 .. Slots : entries'[k].Name = n
    BY <1>3 DEF Known, Matches
  <2>2. n \in FileNames
    BY <1>3 DEF Known
  <2> QED  BY <1>1, <1>3, <2>1, <2>2 DEF Known, Matches
<1> QED  BY <1>2, <1>3

\* A write changes the text of the files whose data is in that sector, and no other.
LEMMA HeldAfterWrite ==
  ASSUME HeadersIn(disk), NEW s, NEW x, Writes(s, x)
  PROVE  Held(disk') = [n \in FileNames |->
                          IF DataSector(FileOf(n)) = s THEN AsString(x)
                          ELSE AsString(disk[DataSector(FileOf(n))])]
<1>1. disk' = [disk EXCEPT ![s] = x] /\ s \in Sector
  BY DEF Writes, Reachable
<1>2. \A r \in Sector : disk'[r] = IF r = s THEN x ELSE disk[r]
  BY <1>1 DEF HeadersIn
<1>3. \A n \in FileNames : DataSector(FileOf(n)) \in Sector
  BY FileByName, FileSectors
<1> QED  BY <1>2, <1>3 DEF Held

\* What the driver stores changes the text of the file it is for, if that is open.
LEMMA StoresText ==
  ASSUME IInv, call # NoCall, Driver!Store(0)
  PROVE  \/ Held(disk') = Held(disk)
         \/ \E n \in Known, t \in Texts : Held(disk') = [Held(disk) EXCEPT ![n] = t]
<1> TableOK /\ Pending /\ HeadersIn(disk)
  BY DEF IInv
<1>1. ASSUME NEW e \in Files, Writes(e.FirstSector, Header(e))
      PROVE  Held(disk') = Held(disk)
  <2>1. \A n \in FileNames : DataSector(FileOf(n)) # e.FirstSector
    BY FileByName, Layout
  <2> QED  BY <1>1, <2>1, HeldAfterWrite DEF Held
<1>2. ASSUME NEW n \in FileNames, NEW t \in Texts, n \notin Known,
             Writes(DataSector(VD_Open(n)), TextOf(t))
      PROVE  Held(disk') = Held(disk)
  <2>1. DataSector(VD_Open(n)) = 0
    BY <1>2, OpenedSector DEF Known
  <2>2. \A m \in FileNames : DataSector(FileOf(m)) # 0
    BY FileByName, Layout
  <2> QED  BY <1>2, <2>1, <2>2, HeldAfterWrite DEF Held
<1>3. ASSUME NEW n \in Known, NEW t \in Texts, Writes(DataSector(VD_Open(n)), TextOf(t))
      PROVE  Held(disk') = [Held(disk) EXCEPT ![n] = t]
  <2>1. n \in FileNames /\ DataSector(VD_Open(n)) = DataSector(FileOf(n))
    BY OpenedSector DEF Known
  <2>2. \A m \in FileNames : DataSector(FileOf(m)) = DataSector(FileOf(n)) => m = n
    BY <2>1, FileByName, Layout, Zenon
  <2>3. AsString(TextOf(t)) = t
    BY DEF AsString, TextOf
  <2>4. Held(disk') = [m \in FileNames |->
                         IF DataSector(FileOf(m)) = DataSector(FileOf(n)) THEN t
                         ELSE AsString(disk[DataSector(FileOf(m))])]
    BY <1>3, <2>1, <2>3, HeldAfterWrite
  <2> QED  BY <2>1, <2>2, <2>4 DEF Held
<1> QED  BY <1>1, <1>2, <1>3, Stores DEF Known

\* A read returns the text of the sector its name opens, or none.
LEMMA Reads ==
  ASSUME TableOK, Pending, Return, op.kind = "VD_ReadData"
  PROVE  \E n \in Names :
           LET s == DataSector(VD_Open(n)) IN
           /\ asked' = n
           /\ \/ out' = ""
              \/ Reachable(s) /\ out' = AsString(disk[s])
<1>1. /\ None.kind # "VD_ReadData"
      /\ \A e, path : /\ Op("VD_Write", e, path).kind # "VD_ReadData"
                      /\ Op("VD_WriteData", e, path).kind # "VD_ReadData"
  BY DEF None, Op
<1>2. PICK n \in Names : /\ op = Op("VD_ReadData", FreeSlot, n)
                         /\ call = DriverCall("read", DataSector(VD_Open(n)), <<>>)
  BY <1>1, Zenon DEF Pending
<1> DEFINE s == DataSector(VD_Open(n))
<1>3. asked' = n /\ out' = Shown(answer')
  BY <1>2 DEF Return, Op
<1>4. CASE answer' = <<>>
  BY <1>3, <1>4 DEF Shown
<1>5. CASE answer' # <<>>
  <2>1. Driver!ReadOk
    BY <1>5 DEF Return, Driver!Finish
  <2>2. call.num = 1 /\ call.lba = s /\ call.drive = DRIVE
    BY <1>2 DEF DriverCall
  <2>3. DriveFound /\ s + 1 - 1 \in Sector
    BY <2>1, <2>2 DEF Driver!ReadOk
  <2>4. answer' = [k \in 1 .. 1 |-> disk[s + k - 1]]
    BY <2>1, <2>2 DEF Driver!ReadOk
  <2>5. s \in Int
    BY OpensSomething
  <2>6. s \in Sector /\ answer'[1] = disk[s]
    BY <2>3, <2>4, <2>5
  <2>7. (s + 1) % WORD = s + 1
    BY <2>6, Sizes, SmallMod DEF Sector
  <2>8. Reachable(s)
    BY <2>3, <2>6, <2>7, Sizes DEF Reachable, Sector
  <2>9. out' = AsString(disk[s])
    BY <1>3, <1>5, <2>6 DEF Shown
  <2> QED  BY <1>3, <2>8, <2>9
<1> QED  BY <1>4, <1>5

\* The state of FileStore.
storeView == <<Known, Held(disk), Held(durable), asked, out>>

\* A step of the composition is one of FileStore, or none.
LEMMA StoreStep ==
  ASSUME IInv, [StorageNext]_storageVars
  PROVE  [Store!Next]_(Store!storeVars)
<1> TableOK /\ Pending /\ HeadersIn(disk)
  BY DEF IInv
<1>1. UNCHANGED storeView => UNCHANGED Store!storeVars
  BY DEF storeView, Store!storeVars, Known
<1>2. UNCHANGED entries => UNCHANGED Known
  BY SameTable DEF Known
<1>3. CASE UNCHANGED <<entries, disk, durable, asked, out>>
  BY <1>1, <1>2, <1>3 DEF storeView
<1>4. CASE Return
  <2>1. UNCHANGED <<disk, durable>>
    BY <1>4 DEF Return, Driver!ReadOk, Driver!Finish
  <2>2. CASE op.kind = "VD_Write"
    <3>1. op.entry \in Files /\ entries' = Register(op.entry) /\ UNCHANGED <<asked, out>>
      BY <1>4, <2>2, PendingWrite DEF Return
    <3>2. Known' \in {Known, Known \cup {op.entry.Name}}
      BY <3>1, RegistersName
    <3>3. Store!Create(op.entry.Name)
      BY <2>1, <3>1, <3>2 DEF Store!Create, Known
    <3>4. op.entry.Name \in FileNames
      BY <3>1, FileByName
    <3> QED  BY <3>3, <3>4 DEF Store!Next
  <2>3. CASE op.kind = "VD_ReadData"
    <3>1. UNCHANGED Known
      BY <1>2, <1>4, <2>3 DEF Return
    <3>2. PICK n \in Names :
            /\ asked' = n
            /\ out' = "" \/ out' = AsString(disk[DataSector(VD_Open(n))])
      BY <1>4, <2>3, Reads
    <3>3. CASE n \in Known
      <4>1. n \in FileNames /\ DataSector(VD_Open(n)) = DataSector(FileOf(n))
        BY <3>3, OpenedSector DEF Known
      <4>2. out' \in {Held(disk)[n], ""}
        BY <3>2, <4>1 DEF Held
      <4>3. Store!Get(n)
        BY <2>1, <3>1, <3>2, <3>3, <4>2 DEF Store!Get, Known
      <4> QED  BY <4>1, <4>3 DEF Store!Next
    <3>4. CASE n \notin Known
      BY <2>1, <3>1, <3>2, <3>4 DEF Store!Next, Store!GetUnknown, Known
    <3> QED  BY <3>3, <3>4
  <2>4. CASE op.kind \notin {"VD_Write", "VD_ReadData"}
    BY <1>3, <1>4, <2>1, <2>4 DEF Return
  <2> QED  BY <2>2, <2>3, <2>4
<1>5. CASE DiskWorks
  <2>1. UNCHANGED <<Known, asked, out>>
    BY <1>2, <1>5 DEF DiskWorks
  <2>2. CASE call # NoCall /\ Driver!Store(0)
    <3>1. UNCHANGED durable
      BY <2>2 DEF Driver!Store
    <3>2. CASE Held(disk') = Held(disk)
      BY <1>1, <2>1, <3>1, <3>2 DEF storeView
    <3>3. ASSUME NEW n \in Known, NEW t \in Texts,
                 Held(disk') = [Held(disk) EXCEPT ![n] = t]
          PROVE  Store!Put(n, t) /\ n \in FileNames
      BY <2>1, <3>1, <3>3 DEF Store!Put, Known
    <3> QED  BY <2>2, <3>2, <3>3, StoresText DEF Store!Next
  <2>3. ASSUME NEW s \in Sector, Driver!Settle({s})
        PROVE  Store!Settle({n \in FileNames : DataSector(FileOf(n)) = s})
    <3>1. /\ durable' = [r \in Sector |-> IF r \in {s} THEN disk[r] ELSE durable[r]]
          /\ UNCHANGED disk
      BY <2>3 DEF Driver!Settle
    <3>2. \A n \in FileNames : DataSector(FileOf(n)) \in Sector
      BY FileByName, FileSectors
    <3>3. Held(durable') =
            [n \in FileNames |->
               IF n \in {m \in FileNames : DataSector(FileOf(m)) = s}
               THEN Held(disk)[n] ELSE Held(durable)[n]]
      BY <3>1, <3>2 DEF Held
    <3> QED  BY <2>1, <3>1, <3>3 DEF Store!Settle, Known
  <2> QED  BY <1>5, <2>2, <2>3 DEF DiskWorks, Store!Next
<1>6. CASE PowerFailure
  <2>1. Known' = {}
    BY <1>6, FileByName DEF PowerFailure, Known, Matches, FreeSlot
  <2>2. /\ disk' = durable /\ UNCHANGED durable
        /\ asked' = "" /\ out' = ""
    BY <1>6 DEF PowerFailure, Driver!PowerFailure
  <2>3. Store!PowerFailure
    BY <2>1, <2>2 DEF Store!PowerFailure, Known
  <2> QED  BY <2>3 DEF Store!Next
<1>7. ASSUME NEW o, NEW x, Begin(o, x)
      PROVE  UNCHANGED <<entries, disk, durable, asked, out>>
  BY <1>7 DEF Begin, Driver!Accept
<1>8. CASE UNCHANGED storageVars
  BY <1>3, <1>8 DEF storageVars, driverVars
<1> QED  BY <1>3, <1>4, <1>5, <1>6, <1>7, <1>8
         DEF StorageNext, BeginWrite, BeginWriteData, BeginReadData

\* For every drive, table and set of disjoint files: the text of one file never changes
\* with another, what is read of a file that is open is what was last stored in it, and
\* after a power failure a file holds a text it held before.
THEOREM FilesStoreText == StorageSpec => FileStoreSpec
<1>1. StorageInit => Store!Init
  <2> SUFFICES ASSUME StorageInit PROVE Store!Init
    OBVIOUS
  <2>1. disk \in [Sector -> {TextOf(t) : t \in Foreign}] /\ durable = disk
    BY DEF StorageInit, Driver!Init
  <2>2. \A s \in Sector : AsString(disk[s]) \in Foreign
    BY <2>1 DEF AsString, TextOf
  <2>3. \A n \in FileNames : DataSector(FileOf(n)) \in Sector
    BY FileByName, FileSectors
  <2>4. Held(disk) \in [FileNames -> Texts \cup Foreign]
    BY <2>2, <2>3 DEF Held
  <2>5. Known = {}
    BY FileByName DEF StorageInit, Known, Matches, FreeSlot
  <2> QED  BY <2>1, <2>4, <2>5 DEF StorageInit, Store!Init, Known
<1>2. IInv /\ [StorageNext]_storageVars => [Store!Next]_(Store!storeVars)
  BY StoreStep
<1> QED  BY <1>1, <1>2, IInvAlways, PTL DEF StorageSpec, FileStoreSpec, Store!Spec

(***************************************************************************)
(* Every operation is as if done at once.                                  *)
(***************************************************************************)

\* The table as Vdfs sees it.
V == IF HeaderThere THEN Register(op.entry) ELSE entries

atomicView == <<V, disk, durable, asked, out>>

\* Without a call there is no operation.
LEMMA NoOperation ==
  ASSUME TableOK, Pending, call = NoCall
  PROVE  op = None
<1>1. \A e \in Files : DriverCall("write", e.FirstSector, <<Header(e)>>) \in Calls
  <2>1. \A e \in Files : e.FirstSector \in 0 .. WORD - 1 /\ Header(e) \in Content
    BY FileSectors, Sizes DEF Sector, Content
  <2> QED  BY <2>1 DEF Calls
<1>2. \A n \in FileNames, t \in Texts :
        DriverCall("write", DataSector(VD_Open(n)), <<TextOf(t)>>) \in Calls
  <2>1. \A t \in Texts : TextOf(t) \in Content
    BY DEF Content
  <2> QED  BY <2>1, OpensSomething DEF Calls
<1>3. \A n \in Names : DriverCall("read", DataSector(VD_Open(n)), <<>>) \in Calls
  BY OpensSomething DEF Calls
<1>4. NoCall \notin Calls
  BY StorageAssumption
<1> QED  BY <1>1, <1>2, <1>3, <1>4, Zenon DEF Pending

\* While no header is there too early, Vdfs sees the table as it is.
LEMMA SeesTable ==
  ASSUME ~ HeaderThere
  PROVE  /\ V = entries
         /\ \A n : Atomic!VD_Open(n) = VD_Open(n)
         /\ \A e : Atomic!Register(e) = Register(e)
<1>1. \A n : Atomic!Matches(n) = Matches(n)
  BY DEF Atomic!Matches, Matches
<1>2. \A S : Atomic!First(S) = First(S)
  BY DEF Atomic!First, First
<1> QED  BY <1>1, <1>2
         DEF V, Atomic!VD_Open, VD_Open, Atomic!Register, Register, Atomic!NotFound, NotFound

\* The operation's start: a header that is there already counts as written.
LEMMA AtomicBegin ==
  ASSUME IInv, NEW e, NEW path, NEW kind, NEW x, Begin(Op(kind, e, path), x),
         kind = "VD_Write" => e \in Files
  PROVE  [Atomic!Next]_(Atomic!vars)
<1>1. /\ UNCHANGED <<entries, disk, durable, asked, out>>
      /\ op' = Op(kind, e, path) /\ call = NoCall
  BY DEF Begin, Driver!Accept
<1>2. ~ HeaderThere
  <2>1. op = None
    BY <1>1, NoOperation DEF IInv
  <2> QED  BY <2>1 DEF HeaderThere, None, Op
<1>3. op'.kind = kind /\ op'.entry = e
  BY <1>1 DEF Op
<1>4. Register(e)' = Register(e)
  BY <1>1 DEF Register, Matches
<1>5. CASE HeaderThere'
  <2>1. kind = "VD_Write"
    BY <1>3, <1>5 DEF HeaderThere
  <2>2. V' = Atomic!Register(e)
    BY <1>2, <1>3, <1>4, <1>5, SeesTable DEF V
  <2>3. Atomic!VD_Write(e)
    BY <1>1, <2>2 DEF Atomic!VD_Write, Atomic!WriteSector, V
  <2> QED  BY <2>1, <2>3 DEF Atomic!Next
<1>6. CASE ~ HeaderThere'
  <2>1. V' = V
    BY <1>1, <1>2, <1>6 DEF V
  <2> QED  BY <1>1, <2>1 DEF Atomic!vars, V
<1> QED  BY <1>5, <1>6

\* Its end: a header that is not there then was not written.
LEMMA AtomicReturn ==
  ASSUME IInv, Return
  PROVE  [Atomic!Next]_(Atomic!vars)
<1> TableOK /\ Pending
  BY DEF IInv
<1>1. UNCHANGED <<disk, durable>> /\ op' = None
  BY DEF Return, Driver!ReadOk, Driver!Finish
<1>2. V' = entries'
  BY <1>1 DEF V, HeaderThere, None, Op
<1>3. CASE op.kind = "VD_Write"
  <2>1. entries' = Register(op.entry) /\ op.entry \in Files /\ UNCHANGED <<asked, out>>
    BY <1>3, PendingWrite DEF Return
  <2>2. CASE HeaderThere
    BY <1>1, <1>2, <2>1, <2>2 DEF V, Atomic!vars
  <2>3. CASE ~ HeaderThere
    <3>1. V' = Atomic!Register(op.entry)
      BY <1>2, <2>1, <2>3, SeesTable
    <3>2. Atomic!VD_Write(op.entry)
      BY <1>1, <2>1, <3>1 DEF Atomic!VD_Write, Atomic!WriteSector, V
    <3> QED  BY <2>1, <3>2 DEF Atomic!Next
  <2> QED  BY <2>2, <2>3
<1>4. CASE op.kind # "VD_Write"
  <2>1. ~ HeaderThere /\ entries' = entries
    BY <1>4 DEF HeaderThere, Return
  <2>2. V' = V
    BY <1>2, <2>1 DEF V
  <2>3. CASE op.kind = "VD_ReadData"
    <3>1. PICK n \in Names :
            LET s == DataSector(VD_Open(n)) IN
            /\ asked' = n
            /\ \/ out' = ""
               \/ Reachable(s) /\ out' = AsString(disk[s])
      BY <2>3, Reads
    <3>2. Atomic!VD_Open(n) = VD_Open(n)
      BY <2>1, SeesTable
    <3>3. Atomic!VD_ReadData(n)
      BY <1>1, <2>2, <3>1, <3>2
         DEF Atomic!VD_ReadData, Atomic!Reachable, Reachable, Atomic!Sector, Sector,
             Atomic!DataSector, DataSector, Atomic!AsString, AsString, V
    <3> QED  BY <3>3 DEF Atomic!Next, Atomic!Names, Names, Atomic!FileNames, FileNames
  <2>4. CASE op.kind # "VD_ReadData"
    BY <1>1, <2>2, <2>4 DEF Return, Atomic!vars, V
  <2> QED  BY <2>3, <2>4
<1> QED  BY <1>3, <1>4

\* What the disk does meanwhile.
LEMMA AtomicDisk ==
  ASSUME IInv, DiskWorks
  PROVE  [Atomic!Next]_(Atomic!vars)
<1> TableOK /\ Pending /\ HeadersIn(disk)
  BY DEF IInv
<1>1. UNCHANGED <<entries, asked, out, op>>
  BY DEF DiskWorks
<1>2. Register(op.entry)' = Register(op.entry)
  BY <1>1 DEF Register, Matches
<1>3. CASE call # NoCall /\ Driver!Store(0)
  <2>1. UNCHANGED durable
    BY <1>3 DEF Driver!Store
  <2>2. ASSUME NEW e \in Files, op = Op("VD_Write", e, ""), Writes(e.FirstSector, Header(e))
        PROVE  [Atomic!Next]_(Atomic!vars)
    <3>1. op.kind = "VD_Write" /\ op.entry = e
      BY <2>2 DEF Op
    <3>2. /\ Reachable(e.FirstSector)
          /\ disk' = [disk EXCEPT ![e.FirstSector] = Header(e)]
      BY <2>2 DEF Writes
    <3>3. disk'[e.FirstSector] = Header(e)
      BY <3>2, FileSectors DEF HeadersIn
    <3>4. V' = Register(e)
      BY <1>1, <1>2, <3>1, <3>3 DEF V, HeaderThere
    <3>5. CASE HeaderThere
      <4>1. disk' = disk
        BY <3>1, <3>2, <3>5, FileSectors DEF HeadersIn, HeaderThere
      <4>2. V' = V
        BY <3>1, <3>4, <3>5 DEF V
      <4> QED  BY <1>1, <2>1, <4>1, <4>2 DEF Atomic!vars, V
    <3>6. CASE ~ HeaderThere
      <4>1. V' = Atomic!Register(e)
        BY <3>4, <3>6, SeesTable
      <4>2. Atomic!VD_Write(e)
        BY <1>1, <2>1, <3>2, <4>1
           DEF Atomic!VD_Write, Atomic!WriteSector, Atomic!Reachable, Reachable,
               Atomic!Sector, Sector, Atomic!Header, Header, Atomic!FreeSlot, FreeSlot, V
      <4> QED  BY <4>2 DEF Atomic!Next
    <3> QED  BY <3>5, <3>6
  <2>3. ASSUME NEW n \in FileNames, NEW t \in Texts,
               op = Op("VD_WriteData", VD_Open(n), ""),
               Writes(DataSector(VD_Open(n)), TextOf(t))
        PROVE  [Atomic!Next]_(Atomic!vars)
    <3>1. ~ HeaderThere /\ ~ HeaderThere'
      BY <1>1, <2>3 DEF HeaderThere, Op
    <3>2. V' = V
      BY <1>1, <3>1 DEF V
    <3>3. Atomic!VD_Open(n) = VD_Open(n)
      BY <3>1, SeesTable
    <3>4. /\ Reachable(DataSector(VD_Open(n)))
          /\ disk' = [disk EXCEPT ![DataSector(VD_Open(n))] = TextOf(t)]
      BY <2>3 DEF Writes
    <3>5. Atomic!VD_WriteData(t, Atomic!VD_Open(n))
      BY <1>1, <2>1, <3>2, <3>3, <3>4
         DEF Atomic!VD_WriteData, Atomic!WriteSector, Atomic!Reachable, Reachable,
             Atomic!Sector, Sector, Atomic!TextOf, TextOf, Atomic!FreeSlot, FreeSlot,
             Atomic!DataSector, DataSector, V
    <3> QED  BY <3>5 DEF Atomic!Next, Atomic!FileNames, FileNames
  <2> QED  BY <1>3, <2>2, <2>3, Stores
<1>4. ASSUME NEW s \in Sector, Driver!Settle({s})
      PROVE  [Atomic!Next]_(Atomic!vars)
  <2>1. /\ durable' = [r \in Sector |-> IF r \in {s} THEN disk[r] ELSE durable[r]]
        /\ UNCHANGED disk
    BY <1>4 DEF Driver!Settle
  <2>2. V' = V
    BY <1>1, <1>2, <2>1 DEF V, HeaderThere
  <2>3. Atomic!Settle({s})
    BY <1>1, <2>1, <2>2 DEF Atomic!Settle, Atomic!Sector, Sector, V
  <2> QED  BY <2>3 DEF Atomic!Next, Atomic!Sector, Sector
<1> QED  BY <1>3, <1>4 DEF DiskWorks

\* An operation is as if done at once: its header at the moment it is on the disk, its
\* text when it is stored, its read when the driver returns; a power failure falls before
\* or after it.  So what holds of Vdfs holds of the file layer on the driver.
THEOREM OperationsAreAtomic == StorageSpec => VdfsSpec
<1>1. StorageInit => Atomic!Init
  <2> SUFFICES ASSUME StorageInit PROVE Atomic!Init
    OBVIOUS
  <2>1. ~ HeaderThere
    BY DEF StorageInit, HeaderThere, None, Op
  <2>2. /\ disk \in [Sector -> {TextOf(t) : t \in Foreign}] /\ durable = disk
        /\ entries = [k \in 1 .. Slots |-> FreeSlot] /\ asked = "" /\ out = ""
    BY DEF StorageInit, Driver!Init
  <2>3. disk \in [Atomic!Sector -> {Atomic!TextOf(t) : t \in Foreign}]
    BY <2>2 DEF Atomic!Sector, Sector, Atomic!TextOf, TextOf, Atomic!FreeSlot, FreeSlot
  <2> QED  BY <2>1, <2>2, <2>3 DEF Atomic!Init, Atomic!FreeSlot, FreeSlot
<1>2. IInv /\ [StorageNext]_storageVars => [Atomic!Next]_(Atomic!vars)
  <2> SUFFICES ASSUME IInv, [StorageNext]_storageVars
               PROVE  [Atomic!Next]_(Atomic!vars)
    OBVIOUS
  <2>1. ASSUME NEW e \in Files, BeginWrite(e) PROVE [Atomic!Next]_(Atomic!vars)
    BY <2>1, AtomicBegin DEF BeginWrite
  <2>2. ASSUME NEW text, NEW e, BeginWriteData(text, e) PROVE [Atomic!Next]_(Atomic!vars)
    <3>1. Begin(Op("VD_WriteData", e, ""), DriverCall("write", DataSector(e), <<TextOf(text)>>))
      BY <2>2 DEF BeginWriteData
    <3> DEFINE x == DriverCall("write", DataSector(e), <<TextOf(text)>>)
    <3>2. Begin(Op("VD_WriteData", e, ""), x)
      BY <3>1
    <3> HIDE DEF x
    <3> QED  BY <3>2, AtomicBegin
  <2>3. ASSUME NEW n, BeginReadData(n) PROVE [Atomic!Next]_(Atomic!vars)
    BY <2>3, AtomicBegin DEF BeginReadData
  <2>4. CASE PowerFailure
    <3>1. ~ HeaderThere'
      BY <2>4 DEF PowerFailure, HeaderThere, None, Op
    <3>2. V' = entries'
      BY <3>1 DEF V
    <3>3. Atomic!Restart
      BY <2>4, <3>2
         DEF PowerFailure, Driver!PowerFailure, Atomic!Restart, Atomic!FreeSlot, FreeSlot, V
    <3> QED  BY <3>3 DEF Atomic!Next
  <2>5. CASE UNCHANGED storageVars
    <3>1. Register(op.entry)' = Register(op.entry)
      BY <2>5 DEF Register, Matches, storageVars
    <3>2. V' = V
      BY <2>5, <3>1 DEF V, HeaderThere, storageVars, driverVars
    <3> QED  BY <2>5, <3>2 DEF V, Atomic!vars, storageVars, driverVars
  <2> QED  BY <2>1, <2>2, <2>3, <2>4, <2>5, AtomicReturn, AtomicDisk DEF StorageNext
<1> QED  BY <1>1, <1>2, IInvAlways, PTL DEF StorageSpec, VdfsSpec, Atomic!Spec
=============================================================================
