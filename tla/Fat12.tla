-------------------------------- MODULE Fat12 --------------------------------
(***************************************************************************)
(* The FAT12 reader of the host tools, tools/fat/fat.c: where the data     *)
(* region begins, how a 12-bit entry is taken out of the FAT, the cluster  *)
(* chain that readFile follows, and what main prints or gives up on.       *)
(*                                                                         *)
(* A disk image is a record: whether it can be opened, the fields of the   *)
(* boot sector bs, the bytes of the FAT, the directory, and the sectors    *)
(* that cannot be read.                                                    *)
(***************************************************************************)
EXTENDS Integers, Sequences

EntrySize == 32       \* sizeof(DirectoryEntry)
EndOfChain == 4088    \* 0x0FF8

RootDirectorySectors(bs) ==
  LET size == EntrySize * bs.DirEntryCount
  IN  (size \div bs.BytesPerSector) + (IF size % bs.BytesPerSector > 0 THEN 1 ELSE 0)

RootDirectory(bs) == bs.ReservedSectors + bs.SectorsPerFat * bs.FatCount

\* readRootDirectory: lba + sectors.
g_RootDirectoryEnd(bs) == RootDirectory(bs) + RootDirectorySectors(bs)

readSectors(disk, lba, count) == \A k \in lba .. lba + count - 1 : k \notin disk.unreadable

readFat(disk) == readSectors(disk, disk.bs.ReservedSectors, disk.bs.SectorsPerFat)
readRootDirectory(disk) ==
  readSectors(disk, RootDirectory(disk.bs), RootDirectorySectors(disk.bs))

\* 0 for NULL.  The sectors of the directory may hold more than the entries it has.
findFile(disk, name) ==
  LET hits == {k \in 1 .. disk.bs.DirEntryCount : disk.dir[k].Name = name}
  IN  IF hits = {} THEN 0 ELSE CHOOSE k \in hits : \A j \in hits : k <= j

\* Two entries share three bytes; at indexes g_Fat from 0.
NextCluster(fat, cluster) ==
  LET at   == (cluster * 3) \div 2
      pair == fat[at + 1] + 256 * fat[at + 2]
  IN  IF cluster % 2 = 0 THEN pair % 4096 ELSE pair \div 16

\* A plausible slip: clusters are counted from 0.
FirstSector_FromZero(bs, cluster) ==
  g_RootDirectoryEnd(bs) + cluster * bs.SectorsPerCluster

FirstSector(bs, cluster) ==
  g_RootDirectoryEnd(bs) + (cluster - 2) * bs.SectorsPerCluster

\* ok && currentCluster < 0x0FF8
Goes(r) == r.ok /\ r.cluster < EndOfChain

\* One turn of readFile's loop: r.sectors is what the buffer has received.
Turn(disk, r) ==
  LET first == FirstSector(disk.bs, r.cluster)
      here  == [k \in 1 .. disk.bs.SectorsPerCluster |-> first + k - 1]
  IN  [ok      |-> readSectors(disk, first, disk.bs.SectorsPerCluster),
       sectors |-> r.sectors \o here,
       cluster |-> NextCluster(disk.fat, r.cluster)]

\* readFile on a chain of at most limit clusters; do ... while.
readFile(disk, first, limit) ==
  LET start == [ok |-> TRUE, sectors |-> <<>>, cluster |-> first]
      after[k \in 0 .. limit] ==
        IF k = 0 THEN Turn(disk, start)
        ELSE IF Goes(after[k - 1]) THEN Turn(disk, after[k - 1]) ELSE after[k - 1]
  IN  after[limit]

\* What main allocates for readFile to fill.
BufferBytes(bs, size) == size + bs.BytesPerSector

\* main, with argc words on its command line: the exit status, and on 0 the file that
\* was printed, Size bytes of the sectors in the buffer.
main(argc, disk, name, limit) ==
  LET failed(status) == [status |-> status, sectors |-> <<>>, bytes |-> 0]
      at == findFile(disk, name)
      r  == readFile(disk, disk.dir[at].FirstClusterLow, limit)
  IN  IF argc < 3 \/ ~ disk.opens THEN failed(-1)
      ELSE IF 0 \in disk.unreadable THEN failed(-2)
      ELSE IF ~ readFat(disk) THEN failed(-3)
      ELSE IF ~ readRootDirectory(disk) THEN failed(-4)
      ELSE IF at = 0 \/ ~ r.ok THEN failed(-5)
      ELSE [status |-> 0, sectors |-> r.sectors, bytes |-> disk.dir[at].Size]

-----------------------------------------------------------------------------
(***************************************************************************)
(* What a FAT12 volume is: the bytes of a table of entries, the sectors of *)
(* a chain of clusters, and how a file has them.                           *)
(***************************************************************************)
Entry12 == 0 .. 4095

\* entries[k] is the entry of cluster k - 1; their number is even.
Packed(entries) ==
  [at \in 1 .. 3 * (Len(entries) \div 2) |->
     LET pair == (at - 1) \div 3
         a    == entries[2 * pair + 1]
         b    == entries[2 * pair + 2]
     IN  CASE (at - 1) % 3 = 0 -> a % 256
           [] (at - 1) % 3 = 1 -> (a \div 256) + 16 * (b % 16)
           [] (at - 1) % 3 = 2 -> b \div 16]

\* The data region follows the reserved sectors, the FATs and the directory.
DataStart(bs) ==
  LET dir == CHOOSE n \in 0 .. bs.DirEntryCount :
               /\ n * bs.BytesPerSector >= EntrySize * bs.DirEntryCount
               /\ (n - 1) * bs.BytesPerSector < EntrySize * bs.DirEntryCount
  IN  bs.ReservedSectors + bs.FatCount * bs.SectorsPerFat + dir

\* Sector number s, from 0, of a file with these clusters.
SectorOf(bs, clusters, s) ==
  DataStart(bs) + (clusters[s \div bs.SectorsPerCluster + 1] - 2) * bs.SectorsPerCluster
    + (s % bs.SectorsPerCluster)

\* An entry is no larger than a sector.
IsVolume(bs) ==
  /\ bs.ReservedSectors \in Nat /\ bs.FatCount \in Nat /\ bs.SectorsPerFat \in Nat
  /\ bs.DirEntryCount \in Nat /\ bs.SectorsPerCluster \in Nat \ {0}
  /\ bs.BytesPerSector \in Nat /\ bs.BytesPerSector >= EntrySize

\* The table links the clusters of the chain.
Linked(table, chain) ==
  /\ Len(table) \in Nat /\ Len(table) % 2 = 0
  /\ DOMAIN table = 1 .. Len(table) /\ \A k \in DOMAIN table : table[k] \in Entry12
  /\ Len(chain) \in Nat \ {0} /\ DOMAIN chain = 1 .. Len(chain)
  /\ \A k \in DOMAIN chain : /\ chain[k] \in 2 .. Len(table) - 1
                             /\ chain[k] < EndOfChain
                             /\ k < Len(chain) => table[chain[k] + 1] = chain[k + 1]
  /\ table[chain[Len(chain)] + 1] >= EndOfChain

\* The file is the first of its name among the entries of the directory, and has no
\* more clusters than it needs.
Listed(dir, file, bs) ==
  LET cluster == bs.SectorsPerCluster * bs.BytesPerSector
  IN  /\ Len(dir) \in Nat /\ bs.DirEntryCount <= Len(dir)
      /\ \E at \in 1 .. bs.DirEntryCount :
           /\ dir[at].Name = file.name /\ dir[at].Size = file.size
           /\ dir[at].FirstClusterLow = file.chain[1]
           /\ \A k \in 1 .. at - 1 : dir[k].Name # file.name
      /\ file.size \in Nat /\ file.size <= Len(file.chain) * cluster
      /\ (Len(file.chain) - 1) * cluster < file.size

\* A file, its table, and the disk it is on.  No entry of the directory has the name
\* absent; what its last sector holds past them may.
IsOnDisk(file) ==
  /\ IsVolume(file.disk.bs) /\ Linked(file.table, file.chain)
  /\ file.disk.fat = Packed(file.table) /\ Listed(file.disk.dir, file, file.disk.bs)
  /\ \A k \in 1 .. file.disk.bs.DirEntryCount : file.disk.dir[k].Name # file.absent
  /\ file.disk.opens \in BOOLEAN /\ file.argc \in Nat
=============================================================================
