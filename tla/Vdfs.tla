-------------------------------- MODULE Vdfs --------------------------------
(***************************************************************************)
(* The file layer, osfs/fs.c: a table of entries in memory, filled by      *)
(* VD_Write and never read back from the disk, and two sectors per file,   *)
(* a header at FirstSector and the data in the sector after it.            *)
(*                                                                         *)
(* Each operation makes at most one call of the disk driver, of which it   *)
(* ignores the result, and only kmain runs it; so an operation is one      *)
(* action here, and Storage takes it apart.  A write may fail silently, a  *)
(* read may fail, and a power failure undoes writes that had not settled.  *)
(***************************************************************************)
EXTENDS Integers, Sequences

CONSTANTS WORD,         \* size of a uint32_t: 2^32
          Size,         \* sectors of the drive
          DriveFound,   \* ata_get_drive_by_model finds "QEMU HARDDISK"
          Slots,        \* length of entries: 12
          Files,        \* the VD_Entry values the kernel writes
          Absent,       \* other names the user may type
          Texts,        \* texts it writes into files
          Foreign       \* texts found in sectors it has not written

Sector == 0 .. Size - 1
Entry  == [Name : STRING, FirstSector : 0 .. WORD - 1]

\* The zeroed slot of the table, and what VD_Open returns when nothing matches:
\* FirstSector = -1 is the largest uint32_t.
FreeSlot == [Name |-> "", FirstSector |-> 0]
NotFound == [Name |-> "NULL", FirstSector |-> WORD - 1]

FileNames == {e.Name : e \in Files}

\* The kernel lays its files out by hand: two sectors each, disjoint, from sector
\* 1 on, under different names.
ASSUME VdfsAssumption ==
  /\ WORD \in Nat /\ Size \in Nat /\ Size < WORD - 1
  /\ DriveFound \in BOOLEAN
  /\ Slots \in Nat \ {0}
  /\ Files \subseteq Entry
  /\ \A e \in Files : /\ e.FirstSector \in 1 .. Size - 2
                      /\ e.Name \notin {"", "NULL"}
  /\ \A e, f \in Files :
        e # f => /\ e.Name # f.Name
                 /\ \/ e.FirstSector + 1 < f.FirstSector
                    \/ f.FirstSector + 1 < e.FirstSector
  /\ Absent \cap FileNames = {}
  /\ Foreign # {}

VARIABLES entries,        \* the table
          disk,           \* what the sectors hold
          durable,        \* what they hold after a power failure
          asked, out      \* argument and result of the last VD_ReadData

vars == <<entries, disk, durable, asked, out>>

\* What a sector holds: the header of a file, or text.
Header(e) == [kind |-> "header", entry |-> e, text |-> ""]
TextOf(t) == [kind |-> "text", entry |-> FreeSlot, text |-> t]
Content == {Header(e) : e \in Files} \cup {TextOf(t) : t \in Texts \cup Foreign}

\* strcpy stops at the first NUL: of a header it copies the name.
AsString(x) == IF x.kind = "header" THEN x.entry.Name ELSE x.text

Init == /\ entries = [k \in 1 .. Slots |-> FreeSlot]
        /\ disk \in [Sector -> {TextOf(t) : t \in Foreign}]
        /\ durable = disk
        /\ asked = "" /\ out = ""

\* The driver lets the call through and the disk has the sector.
Reachable(s) == DriveFound /\ (s + 1) % WORD <= Size /\ s \in Sector

\* ide_write_sectors(DRIVE, 1, s, x), its result ignored.
WriteSector(s, x) == \/ UNCHANGED disk
                     \/ Reachable(s) /\ disk' = [disk EXCEPT ![s] = x]

\* A plausible slip: the data goes where the header is.
DataSector_Header(e) == e.FirstSector

\* LBA + e.FirstSector + 1, in 32 bits.
DataSector(e) == (e.FirstSector + 1) % WORD

Matches(path) == {k \in 1 .. Slots : entries[k].Name = path}
First(S) == CHOOSE k \in S : \A j \in S : k <= j

\* A plausible slip: the search starts at the second slot.
VD_Open_FromSecond(path) ==
  LET found == Matches(path) \ {1} IN
  IF found = {} THEN NotFound ELSE entries[First(found)]

\* The first entry with that name; the empty name matches a free slot.
VD_Open(path) == IF Matches(path) = {} THEN NotFound ELSE entries[First(Matches(path))]

\* The entry goes to the first slot whose name is empty; it is dropped when none is.
Register(e) == IF Matches("") = {} THEN entries
               ELSE [entries EXCEPT ![First(Matches(""))] = e]

VD_Write(e) == /\ WriteSector(e.FirstSector, Header(e))
               /\ entries' = Register(e)
               /\ UNCHANGED <<durable, asked, out>>

VD_WriteData(text, e) == /\ WriteSector(DataSector(e), TextOf(text))
                         /\ UNCHANGED <<entries, durable, asked, out>>

\* When the read fails the buffer keeps the zeros it was filled with.
VD_ReadData(path) ==
  LET s == DataSector(VD_Open(path)) IN
  /\ asked' = path
  /\ \/ out' = ""
     \/ Reachable(s) /\ out' = AsString(disk[s])
  /\ UNCHANGED <<entries, disk, durable>>

\* The disk's own doing, and the loss of power, after which the table is empty.
Settle(S) == /\ durable' = [s \in Sector |-> IF s \in S THEN disk[s] ELSE durable[s]]
             /\ UNCHANGED <<entries, disk, asked, out>>

Restart == /\ entries' = [k \in 1 .. Slots |-> FreeSlot]
           /\ disk' = durable
           /\ asked' = "" /\ out' = ""
           /\ UNCHANGED durable

\* The kernel writes through entries it opened by the names of its files, whether
\* they are in the table or not; the user may ask to read anything, even nothing.
Names == FileNames \cup Absent \cup {""}

Next == \/ \E e \in Files : VD_Write(e)
        \/ \E n \in FileNames, t \in Texts : VD_WriteData(t, VD_Open(n))
        \/ \E n \in Names : VD_ReadData(n)
        \/ \E s \in Sector : Settle({s})
        \/ Restart

Spec == Init /\ [][Next]_vars

-----------------------------------------------------------------------------
\* What is written into a file never lands on a header, neither its own nor that of
\* another file: the first sector of a file holds what was there before the kernel
\* or its header.
HeadersIntact ==
  \A e \in Files : disk[e.FirstSector] \in {Header(e)} \cup {TextOf(t) : t \in Foreign}

\* The file layer implements FileStore: with the kernel's layout files do not
\* interfere, what is read is what was last stored, and a name in the table opens its one
\* file, whichever slots and however many of them its entries took.
FileOf(n) == CHOOSE e \in Files : e.Name = n

Held(d) == [n \in FileNames |-> AsString(d[DataSector(FileOf(n))])]

Store == INSTANCE FileStore
  WITH FileName <- FileNames,
       Text     <- Texts \cup Foreign,
       Nothing  <- "",
       known    <- {n \in FileNames : Matches(n) # {}},
       content  <- Held(disk),
       safe     <- Held(durable),
       answer   <- out

FileStoreSpec == Store!Spec

\* main.c:145 "read X - Reads file X and prints it's contents.": a text is printed
\* only if there is a file X.
ReadsOnlyFiles ==
  out # "" => \E k \in 1 .. Slots : entries[k].Name = asked
=============================================================================
