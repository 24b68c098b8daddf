------------------------------ MODULE Storage ------------------------------
(***************************************************************************)
(* The file layer on the disk driver: an operation of osfs/fs.c calls      *)
(* ide_read_sectors or ide_write_sectors, the driver works, the power may  *)
(* fail, and what the operation does with the table or with the caller's   *)
(* buffer it does when the driver has returned.                            *)
(*                                                                         *)
(* The driver is the BlockDevice that Ata implements.  That an operation   *)
(* may be taken as one step, as Vdfs does, is VdfsSpec.                    *)
(***************************************************************************)
EXTENDS Vdfs

CONSTANTS NoCall,
          Results     \* what the driver may return; fs.c looks at none of it

VARIABLES op,                  \* the operation that waits for the driver
          call, ret, answer    \* of the driver

driverVars == <<disk, durable, call, ret, answer>>
storageVars == <<entries, asked, out, op, driverVars>>

\* -1, for a drive that was not found, is 255 in a uint8_t.
DRIVE == IF DriveFound THEN 0 ELSE 255

DriverCall(dir, s, data) ==
  [dir |-> dir, drive |-> DRIVE, lba |-> s, num |-> 1, data |-> data]

Calls == {DriverCall("read", s, <<>>) : s \in 0 .. WORD - 1}
           \cup {DriverCall("write", s, <<x>>) : s \in 0 .. WORD - 1, x \in Content}

ASSUME StorageAssumption == Results \subseteq -2..255 /\ NoCall \notin Calls

Driver == INSTANCE BlockDevice
  WITH Data  <- Content,
       Call  <- Calls,
       Disks <- IF DriveFound THEN {DRIVE} ELSE {}

Op(kind, e, path) == [kind |-> kind, entry |-> e, path |-> path]
None == Op("none", FreeSlot, "")

StorageInit == /\ Driver!Init
               /\ entries = [k \in 1 .. Slots |-> FreeSlot]
               /\ disk \in [Sector -> {TextOf(t) : t \in Foreign}]
               /\ asked = "" /\ out = "" /\ op = None

\* An operation up to its driver call.
Begin(o, x) == /\ Driver!Accept(x) /\ op' = o
               /\ UNCHANGED <<entries, asked, out>>

BeginWrite(e) ==
  Begin(Op("VD_Write", e, ""), DriverCall("write", e.FirstSector, <<Header(e)>>))

BeginWriteData(text, e) ==
  Begin(Op("VD_WriteData", e, ""), DriverCall("write", DataSector(e), <<TextOf(text)>>))

BeginReadData(path) ==
  Begin(Op("VD_ReadData", FreeSlot, path),
        DriverCall("read", DataSector(VD_Open(path)), <<>>))

\* A plausible slip: the buffer is static and not cleared, so that a read that fails
\* shows what the last one did.
Shown_Stale(got) == IF got = <<>> THEN out ELSE AsString(got[1])

\* strcpy(out, buf), the buffer full of zeros before the read.
Shown(got) == IF got = <<>> THEN "" ELSE AsString(got[1])

\* The driver has returned, and so does the operation.
Return ==
  /\ \/ Driver!ReadOk
     \/ Driver!Finish /\ ret' \in Results
  /\ entries' = IF op.kind = "VD_Write" THEN Register(op.entry) ELSE entries
  /\ IF op.kind = "VD_ReadData" THEN asked' = op.path /\ out' = Shown(answer')
     ELSE UNCHANGED <<asked, out>>
  /\ op' = None

\* The driver puts the sector on the disk; the disk makes it last.
DiskWorks == /\ \/ call # NoCall /\ Driver!Store(0)
                \/ \E s \in Sector : Driver!Settle({s})
             /\ UNCHANGED <<entries, asked, out, op>>

PowerFailure == /\ Driver!PowerFailure
                /\ entries' = [k \in 1 .. Slots |-> FreeSlot]
                /\ asked' = "" /\ out' = "" /\ op' = None

StorageNext == \/ \E e \in Files : BeginWrite(e)
               \/ \E n \in FileNames, t \in Texts : BeginWriteData(t, VD_Open(n))
               \/ \E n \in Names : BeginReadData(n)
               \/ Return \/ DiskWorks \/ PowerFailure

StorageSpec == StorageInit /\ [][StorageNext]_storageVars

-----------------------------------------------------------------------------
\* VD_Write counts as done when its header is on the disk, although the entry gets into
\* the table when the driver has returned; without a header it is done then.
HeaderThere == op.kind = "VD_Write" /\ disk[op.entry.FirstSector] = Header(op.entry)

\* Every operation is as if done at once, with the power failing before or after it and
\* write-backs in the middle of it; so what holds of Vdfs holds of it on the driver.
Atomic == INSTANCE Vdfs
  WITH entries <- IF HeaderThere THEN Register(op.entry) ELSE entries

VdfsSpec == Atomic!Spec
=============================================================================
