------------------------------- MODULE MCPure -------------------------------
(***************************************************************************)
(* Samples for Pure.  Addresses around every boundary of the three modes   *)
(* (TLC's integers end at 2^31 - 1); segments and gates; FAT volumes with  *)
(* every chain of up to three clusters; every format of up to three        *)
(* pieces.                                                                 *)
(***************************************************************************)
EXTENDS Pure

CONSTANTS Spread   \* how far from a boundary the samples reach

\* A byte, a track, a cylinder, two bytes, three bytes, the last cylinder and 28
\* bits.
Boundaries == {0, 256, 63, 16 * 63, W2, W3, CHSLimit, LBA28Limit}

Near == {b + d : b \in Boundaries, d \in -Spread .. Spread} \cap Nat
Samples == Near \cup {2147483647 - d : d \in 0 .. Spread}

MCAccesses == [lba : Samples, lbaCapable : BOOLEAN, num : {1, 255},
               channel : 0..1, drive : 0..1, dir : {"read", "write"}]

MCWords == {Word(h, l) : h \in {0, 1, 255, 256, 4660, 65535}, l \in {0, 65535}}

MCSegments == [base : MCWords, limit : MCWords, gran : {0, 64, 207}]

MCStubTables == {[v \in Vectors |-> Word((w.hi + v) % 65536, w.lo)] : w \in MCWords}

\* Registers that all hold something else, below and above 16 bits.
MCRegisters ==
  {[eax |-> a, ecx |-> 1002, edx |-> 70003, ebx |-> 1004, esp |-> e, ebp |-> 90005,
    esi |-> 1006, edi |-> 1007, eip |-> 1008, cs |-> 8, eflags |-> 514,
    ds |-> d, es |-> d, fs |-> d, gs |-> d] :
      a \in {1001, 305419896}, e \in {60, 589824}, d \in {16, 43981}}

MCInterruptions == [vector : Vectors, regs : MCRegisters, code : {0, 1009}]

BootSectors == {[ReservedSectors |-> 1, FatCount |-> 2, SectorsPerFat |-> 1,
                 DirEntryCount |-> n, BytesPerSector |-> 64, SectorsPerCluster |-> c] :
                   n \in 1..3, c \in 1..2}

Clusters == 2..5
Chains == {c \in UNION {[1..n -> Clusters] : n \in 1..3} :
             \A j, k \in DOMAIN c : j # k => c[j] # c[k]}

\* The table of a volume with one file; the other clusters hold spare.
Table(chain, spare) ==
  [n \in 1..6 |->
     LET at == {k \in DOMAIN chain : chain[k] = n - 1}
     IN  IF at = {} THEN spare
         ELSE LET k == CHOOSE k \in at : TRUE
              IN  IF k = Len(chain) THEN 4095 ELSE chain[k + 1]]

\* The slots of the sectors, two to each, of a directory of n entries: the file is the
\* first of its name, in the middle, and past the entries is the name absent.
Directory(n, first, size) ==
  LET at == (n + 1) \div 2
  IN  [k \in 1 .. 2 * ((n + 1) \div 2) |->
         [Name            |-> IF k < at THEN "b" ELSE IF k <= n THEN "a" ELSE "c",
          FirstClusterLow |-> IF k = at THEN first ELSE 3,
          Size            |-> IF k = at THEN size ELSE 1]]

\* The last cluster of the file holds one byte, or all it can.
FileOn(bs, chain, spare, unreadable, start, full) ==
  LET cluster == bs.SectorsPerCluster * bs.BytesPerSector
      size    == IF full THEN Len(chain) * cluster ELSE (Len(chain) - 1) * cluster + 1
  IN  [chain |-> chain, size |-> size, name |-> "a", absent |-> "c", argc |-> start.argc,
       table |-> Table(chain, spare),
       disk  |-> [opens |-> start.opens, bs |-> bs, fat |-> Packed(Table(chain, spare)),
                  dir |-> Directory(bs.DirEntryCount, chain[1], size),
                  unreadable |-> {unreadable}]]

MCFiles == {FileOn(bs, c, e, bad, start, full) :
              bs \in BootSectors, c \in Chains, e \in {0, 3, 4087}, bad \in 0..12,
              start \in {[argc |-> 2, opens |-> TRUE], [argc |-> 3, opens |-> FALSE],
                         [argc |-> 3, opens |-> TRUE]},
              full \in BOOLEAN}

\* The destination before the source, and after it.
MCMemories == {[memory |-> [a \in 0..9 |-> IF a \in {2, 9} THEN 0 ELSE m[a]],
                dst |-> 0, src |-> 6] : m \in [(0..9) \ {2, 9} -> 0..2]}
              \cup {[memory |-> [a \in 0..9 |-> IF a \in {2, 6} THEN 0 ELSE m[a]],
                     dst |-> 3, src |-> 0] : m \in [(0..9) \ {2, 6} -> 0..2]}

Pieces == {[kind |-> "plain", ch |-> ch] : ch \in {"a", "h"}}
            \cup {[kind |-> "directive", length |-> l, ch |-> ch] :
                     l \in Lengths, ch \in {"c", "s", "%", "z", "d"}}

MCFormats == UNION {[1..n -> Pieces] : n \in 0..3}

MCNumbers == {10^k + d : k \in 0..9, d \in -2..2} \cup {2147483647}

MCInts == [base   : {"d", "x", "u"},
           number : {m * (10^k + d) : m \in {-1, 1}, k \in 0..4, d \in -2..2}
                      \cup {-32768, 32767}]
=============================================================================
