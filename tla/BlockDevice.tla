----------------------------- MODULE BlockDevice -----------------------------
(***************************************************************************)
(* What the disk driver promises its caller, the file system.  A call is   *)
(* served alone.  A read that reports success returns what the disk holds  *)
(* over the whole range.  A write puts each sector of its range on the     *)
(* disk or leaves it as it was, and touches no other sector.  What is on   *)
(* the disk becomes durable some time later; a power failure undoes what   *)
(* is not durable yet.                                                     *)
(***************************************************************************)
EXTENDS Integers, Sequences

CONSTANTS Sector,   \* the addressable sectors
          Data,     \* what a sector can hold
          Call,     \* the calls, records with fields dir, drive, lba, num, data
          Disks,    \* the drive numbers that are disks
          NoCall

VARIABLES disk,     \* what a read of each sector returns
          durable,  \* what each sector holds after a power failure
          call,     \* the call being served, NoCall if none
          ret,      \* what the last finished call returned, 0 for success
          answer    \* the sectors the last finished successful read returned

blockVars == <<disk, durable, call, ret, answer>>

Init == /\ disk \in [Sector -> Data]
        /\ durable = disk
        /\ call = NoCall /\ ret = 0 /\ answer = <<>>

Accept(x) == /\ call = NoCall
             /\ call' = x /\ ret' = 0 /\ answer' = <<>>
             /\ UNCHANGED <<disk, durable>>

\* One sector of a write reaches the disk.
Store(k) == /\ call # NoCall /\ call.dir = "write" /\ k \in 0 .. call.num - 1
            /\ call.drive \in Disks
            /\ call.lba + k \in Sector
            /\ disk' = [disk EXCEPT ![call.lba + k] = call.data[k + 1]]
            /\ UNCHANGED <<durable, call, ret, answer>>

ReadOk == /\ call # NoCall /\ call.dir = "read" /\ call.drive \in Disks
          /\ \A k \in 1 .. call.num : call.lba + k - 1 \in Sector
          /\ answer' = [k \in 1 .. call.num |-> disk[call.lba + k - 1]]
          /\ ret' = 0 /\ call' = NoCall
          /\ UNCHANGED <<disk, durable>>

\* A write may report success whatever became of its sectors, and so may a read
\* of a drive that is no disk.
Finish == /\ call # NoCall
          /\ ret' \in -2..255
          /\ call.dir = "read" /\ call.drive \in Disks => ret' # 0
          /\ call' = NoCall /\ answer' = <<>>
          /\ UNCHANGED <<disk, durable>>

Settle(S) == /\ durable' = [s \in Sector |-> IF s \in S THEN disk[s]
                                              ELSE durable[s]]
             /\ UNCHANGED <<disk, call, ret, answer>>

PowerFailure == /\ disk' = durable
                /\ call' = NoCall /\ ret' = 0 /\ answer' = <<>>
                /\ UNCHANGED durable

Next == \/ \E x \in Call : Accept(x)
        \/ call # NoCall /\ \E k \in 0 .. call.num - 1 : Store(k)
        \/ ReadOk \/ Finish
        \/ \E S \in SUBSET Sector : Settle(S)
        \/ PowerFailure

Spec == Init /\ [][Next]_blockVars
=============================================================================
