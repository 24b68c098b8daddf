---------------------------- MODULE IdeInitProofs ----------------------------
(***************************************************************************)
(* What ide_init guarantees for every device that may be attached, however *)
(* long each takes to answer: the table lists the drives that were found,  *)
(* and the kernel finds its disk in it.                                    *)
(***************************************************************************)
EXTENDS IdeInit, FiniteSetTheorems, WellFoundedInduction, TLAPS

(***************************************************************************)
(* The invariant: the table for the positions that are done, and how far   *)
(* the detection of the current one is.                                    *)
(***************************************************************************)
Types == /\ pc \in {"select", "first", "poll", "signature", "read", "done"}
         /\ pos \in Positions
         /\ type \in {"ATA", "ATAPI"}
         /\ dev \in [Positions -> Device]
         /\ state \in [Positions -> {"idle", "identify", "packet", "ERR", "DRQ", "DF"}]
         /\ DOMAIN g_ide_devices = Slots

\* The position that is next, 5 when all are done.
Here == IF pc = "done" THEN 5 ELSE pos

\* The positions before it are done; those after it have not been touched.
Order == /\ pc = "done" => pos = 4
         /\ missed \cup early \subseteq {p \in Positions : p < Here /\ dev[p].kind \in Packet}
         /\ \A p \in Positions :
               p > Here \/ (p = Here /\ pc = "select") => state[p] = "idle"

\* What a position's device answers to IDENTIFY.
Answered(p) == state[p] = CASE dev[p].kind = "faulty" -> "DF"
                            [] dev[p].kind = "ATA"    -> "DRQ"
                            [] OTHER                  -> "ERR"

\* How far the device of the current position is.
Doing ==
  /\ pc \in {"first", "poll", "signature"} =>
        /\ type = "ATA"
        /\ state[pos] = "identify" \/ Answered(pos)
  /\ pc = "signature" => dev[pos].kind \in {"floating", "other"} \cup Packet
  /\ pc = "read" => \/ type = "ATA" /\ dev[pos].kind = "ATA" /\ state[pos] = "DRQ"
                    \/ type = "ATAPI" /\ dev[pos].kind \in Packet
                       /\ state[pos] \in {"packet", "DRQ"}

\* What a slot says of a drive apart from its name and size.
Plain(r) == [r EXCEPT !.size = 0, !.model = <<>>]

\* The slot of a drive that was found.
Listed(p) == LET slot == g_ide_devices[SlotOf(Found, p)]
             IN  IF p \in early THEN Plain(slot) = Plain(RecordOf(dev, p))
                 ELSE slot = RecordOf(dev, p)

Table == /\ count = SlotOf(Found, Here)
         /\ \A p \in Found : p < Here => Listed(p)
         /\ \A d \in Slots : d >= count => g_ide_devices[d] = Unused
         /\ \A d \in 0 .. count - 1 : \E p \in Found : p < Here /\ SlotOf(Found, p) = d

IInv == Types /\ Order /\ Doing /\ Table

(***************************************************************************)
(* Counting the drives before a position.                                  *)
(***************************************************************************)

\* The slots are counted position by position.
LEMMA SlotSteps ==
  ASSUME NEW D \in SUBSET Positions
  PROVE  /\ SlotOf(D, 1) = 0
         /\ \A p \in Positions : /\ SlotOf(D, p) \in Nat
                                 /\ p \in D => SlotOf(D, p + 1) = SlotOf(D, p) + 1
                                 /\ p \notin D => SlotOf(D, p + 1) = SlotOf(D, p)
         /\ SlotOf(D, 5) = Cardinality(D)
<1> DEFINE Low(p) == {q \in D : q < p}
<1>0. \A q \in D : q \in Int /\ 1 <= q /\ q <= 4
  BY DEF Positions
<1>1. IsFiniteSet(D)
  <2>1. IsFiniteSet(Positions)
    <3>1. IsFiniteSet(1..4)
      <4>1. 1 \in Int /\ 4 \in Int
        OBVIOUS
      <4> QED  BY <4>1, FS_Interval, Zenon
    <3> QED  BY <3>1 DEF Positions
  <2> QED  BY <2>1, FS_Subset
<1>2. \A p \in 1..5 : IsFiniteSet(Low(p))
  BY <1>1, FS_Subset
<1>3. SlotOf(D, 1) = 0
  <2>1. Low(1) = {}
    BY <1>0
  <2> QED  BY <2>1, FS_EmptySet DEF SlotOf
<1>4. ASSUME NEW p \in Positions
      PROVE  /\ SlotOf(D, p) \in Nat
             /\ p \in D => SlotOf(D, p + 1) = SlotOf(D, p) + 1
             /\ p \notin D => SlotOf(D, p + 1) = SlotOf(D, p)
  <2>1. IsFiniteSet(Low(p)) /\ p \notin Low(p)
    BY <1>2 DEF Positions
  <2> p \in Int
    BY DEF Positions
  <2>0. \A q \in D : q < p + 1 <=> q < p \/ q = p
    BY <1>0
  <2>2. p \in D => Low(p + 1) = Low(p) \cup {p}
    BY <2>0, Zenon
  <2>3. p \notin D => Low(p + 1) = Low(p)
    BY <2>0, Zenon
  <2>4. SlotOf(D, p) = Cardinality(Low(p)) /\ SlotOf(D, p + 1) = Cardinality(Low(p + 1))
    BY DEF SlotOf
  <2>5. Cardinality(Low(p)) \in Nat
    BY <2>1, FS_CardinalityType
  <2>6. Cardinality(Low(p) \cup {p}) = Cardinality(Low(p)) + 1
    BY <2>1, FS_AddElement
  <2> HIDE DEF Low
  <2> QED  BY <2>2, <2>3, <2>4, <2>5, <2>6
<1>5. SlotOf(D, 5) = Cardinality(D)
  <2>1. Low(5) = D
    BY <1>0
  <2> QED  BY <2>1 DEF SlotOf
<1> QED  BY <1>3, <1>4, <1>5

\* A drive has a smaller slot than those after it, and at most its own place.
LEMMA SlotOrder ==
  ASSUME NEW D \in SUBSET Positions, NEW p \in 1..5
  PROVE  /\ SlotOf(D, p) \in 0 .. p - 1
         /\ \A q \in 1..5 : q < p => /\ SlotOf(D, q) <= SlotOf(D, p)
                                     /\ q \in D => SlotOf(D, q) < SlotOf(D, p)
<1> DEFINE s(q) == SlotOf(D, q)
           b(q) == IF q \in D THEN 1 ELSE 0
<1>1. s(1) = 0
  BY SlotSteps
<1>2. \A q \in Positions : s(q) \in Nat /\ s(q + 1) = s(q) + b(q)
  BY SlotSteps
<1>3. /\ s(2) = s(1) + b(1) /\ s(3) = s(2) + b(2)
      /\ s(4) = s(3) + b(3) /\ s(5) = s(4) + b(4)
  <2>1. 1 \in Positions /\ 2 \in Positions /\ 3 \in Positions /\ 4 \in Positions
    BY DEF Positions
  <2>2. 1 + 1 = 2 /\ 2 + 1 = 3 /\ 3 + 1 = 4 /\ 4 + 1 = 5
    OBVIOUS
  <2> HIDE DEF s, b
  <2> QED  BY <1>2, <2>1, <2>2
<1>4. \A q \in 1..5 : b(q) \in {0, 1} /\ (q \in D => b(q) = 1)
  OBVIOUS
<1>5. 5 \notin D
  BY DEF Positions
<1>6. p \in {1, 2, 3, 4, 5} /\ \A q \in 1..5 : q \in {1, 2, 3, 4, 5}
  OBVIOUS
<1> SUFFICES ASSUME NEW q \in {1, 2, 3, 4, 5}
             PROVE  /\ s(p) \in 0 .. p - 1
                    /\ q < p => s(q) <= s(p) /\ (q \in D => s(q) < s(p))
  BY <1>6
<1> HIDE DEF s, b
<1> QED  BY <1>1, <1>3, <1>4, <1>5, <1>6

\* Only the drives before a position matter for its slot.
LEMMA SlotLocal ==
  ASSUME NEW D, NEW E, NEW p,
         \A q : q < p => (q \in D <=> q \in E)
  PROVE  SlotOf(D, p) = SlotOf(E, p)
<1>1. {q \in D : q < p} = {q \in E : q < p}
  OBVIOUS
<1> QED  BY <1>1 DEF SlotOf

(***************************************************************************)
(* What ide_init makes of an identification block.                         *)
(***************************************************************************)

\* The bytes of the block are swapped back into the padded name, and what is trimmed is
\* the padding.
LEMMA NameDecoded ==
  ASSUME NEW d \in Device
  PROVE  Trim(SwapBytes(d.model)) = d.label
<1> DEFINE l == d.label
           n == Len(l)
           M == ModelLength
           pad == Padded(l)
<1>1. /\ M \in Nat /\ M % 2 = 0
      /\ l \in Seq(STRING) /\ n \in 1 .. M /\ l[n] # Space /\ d.model = Block(l)
  BY DeviceAssumption, Zenon
<1>2. Block(l) = [k \in 1 .. M |-> IF k % 2 = 1 THEN pad[k + 1] ELSE pad[k - 1]]
  <2>1. ASSUME NEW k \in 1 .. M, NEW w \in Nat, w = (k + 1) \div 2
        PROVE  <<pad[2 * w], pad[2 * w - 1]>>[2 - (k % 2)]
                 = IF k % 2 = 1 THEN pad[k + 1] ELSE pad[k - 1]
    <3>1. k \in Nat /\ k % 2 \in {0, 1}
      BY <1>1
    <3>2. CASE k % 2 = 1
      <4>1. 2 * w = k + 1
        BY <2>1, <3>1, <3>2
      <4> QED  BY <3>2, <4>1
    <3>3. CASE k % 2 = 0
      <4>1. 2 * w = k
        BY <2>1, <3>1, <3>3
      <4>2. 2 * w - 1 = k - 1
        BY <4>1
      <4> QED  BY <3>3, <4>2
    <3> QED  BY <3>1, <3>2, <3>3
  <2>2. \A k \in 1 .. M : (k + 1) \div 2 \in Nat
    BY <1>1
  <2> QED  BY <2>1, <2>2 DEF Block
<1>3. SwapBytes(Block(l)) = [k \in 1 .. M |-> pad[k]]
  <2> DEFINE B == Block(l)
  <2>1. Len(B) = M
    BY <1>1, <1>2
  <2>2. ASSUME NEW k \in 1 .. M
        PROVE  B[IF k % 2 = 1 THEN k + 1 ELSE k - 1] = pad[k]
    <3>1. k \in Nat /\ k % 2 \in {0, 1}
      BY <1>1
    <3>2. CASE k % 2 = 1
      <4>1. k + 1 \in 1 .. M /\ (k + 1) % 2 = 0 /\ (k + 1) - 1 = k
        BY <1>1, <3>1, <3>2
      <4> QED  BY <1>2, <3>2, <4>1
    <3>3. CASE k % 2 = 0
      <4>1. k - 1 \in 1 .. M /\ (k - 1) % 2 = 1 /\ (k - 1) + 1 = k
        BY <1>1, <3>1, <3>3
      <4> QED  BY <1>2, <3>3, <4>1
    <3> QED  BY <3>1, <3>2, <3>3
  <2> QED  BY <2>1, <2>2 DEF SwapBytes
<1>4. Trim([k \in 1 .. M |-> pad[k]]) = l
  <2> DEFINE t == [k \in 1 .. M |-> pad[k]]
             used == {k \in 1 .. Len(t) : \E j \in k .. Len(t) : t[j] # Space}
  <2>1. Len(t) = M
    BY <1>1
  <2>2. \A k \in 1 .. M : t[k] = IF k <= n THEN l[k] ELSE Space
    BY DEF Padded
  <2>3. used = 1 .. n
    <3>1. ASSUME NEW k \in used PROVE k \in 1 .. n
      <4>1. PICK j \in k .. M : t[j] # Space
        BY <2>1
      <4>2. k \in 1 .. M
        BY <2>1
      <4>3. j \in 1 .. M /\ k <= j
        BY <1>1, <4>2
      <4>4. j <= n
        BY <2>2, <4>1, <4>3
      <4> QED  BY <1>1, <4>2, <4>3, <4>4
    <3>2. ASSUME NEW k \in 1 .. n PROVE k \in used
      <4>1. n \in k .. Len(t) /\ t[n] # Space /\ k \in 1 .. Len(t)
        BY <1>1, <2>1, <2>2
      <4> QED  BY <4>1
    <3> QED  BY <3>1, <3>2
  <2>4. Trim(t) = [k \in used |-> t[k]]
    BY DEF Trim
  <2>5. l = [k \in 1 .. n |-> l[k]]
    BY <1>1
  <2>6. \A k \in 1 .. n : t[k] = l[k]
    BY <1>1, <2>2
  <2>7. Trim(t) = l
    <3> HIDE DEF used, t, n, l
    <3> QED  BY <2>3, <2>4, <2>5, <2>6
  <2> QED  BY <2>7
<1> QED  BY <1>1, <1>3, <1>4

\* What is left of a slot without the name and the size.
LEMMA PlainRecord ==
  ASSUME NEW a, NEW b, NEW c, NEW e, NEW f, NEW g
  PROVE  Plain([reserved |-> a, type |-> b, channel |-> c, drive |-> e, size |-> f,
                model |-> g])
           = [reserved |-> a, type |-> b, channel |-> c, drive |-> e, size |-> 0,
              model |-> <<>>]
<1> DEFINE r == [reserved |-> a, type |-> b, channel |-> c, drive |-> e, size |-> f,
                 model |-> g]
           q == [r EXCEPT !.size = 0]
<1>1. q = [reserved |-> a, type |-> b, channel |-> c, drive |-> e, size |-> 0, model |-> g]
  OBVIOUS
<1>2. Plain(r) = [q EXCEPT !.model = <<>>]
  BY DEF Plain
<1> HIDE DEF q
<1>3. [q EXCEPT !.model = <<>>]
        = [reserved |-> a, type |-> b, channel |-> c, drive |-> e, size |-> 0,
           model |-> <<>>]
  BY <1>1
<1> QED  BY <1>2, <1>3

\* The entry of a device that was read in time is its record; the entry of one that was
\* read too early is so but for the name and the size.
LEMMA EntryIsRecord ==
  ASSUME Types, NEW p \in Positions, NEW t,
         t = IF dev[p].kind = "ATA" THEN "ATA" ELSE "ATAPI"
  PROVE  /\ Entry(p, t, dev[p]) = RecordOf(dev, p)
         /\ \A ident : Plain(Entry(p, t, ident)) = Plain(RecordOf(dev, p))
<1>1. dev[p] \in Device
  BY DEF Types
<1>2. /\ Trim(SwapBytes(dev[p].model)) = dev[p].label
      /\ dev[p].size = IF dev[p].lba48 THEN dev[p].maxExt ELSE dev[p].max
  BY <1>1, NameDecoded, DeviceAssumption, Zenon
<1>3. Entry(p, t, dev[p]) = RecordOf(dev, p)
  BY <1>2 DEF Entry, RecordOf
<1>4. \A ident : Plain(Entry(p, t, ident)) = Plain(RecordOf(dev, p))
  <2> SUFFICES ASSUME NEW ident
               PROVE  Plain(Entry(p, t, ident)) = Plain(RecordOf(dev, p))
    OBVIOUS
  <2> DEFINE z == [reserved |-> 1, type |-> t, channel |-> ChannelOf(p),
                   drive |-> DriveOf(p), size |-> 0, model |-> <<>>]
  <2>1. Plain(Entry(p, t, ident)) = z
    BY PlainRecord DEF Entry
  <2>2. Plain(RecordOf(dev, p)) = z
    BY PlainRecord DEF RecordOf
  <2> QED  BY <2>1, <2>2
<1> QED  BY <1>3, <1>4

(***************************************************************************)
(* The steps.                                                              *)
(***************************************************************************)

\* The loops go on to the next position.
LEMMA Moves ==
  ASSUME Types, pc # "done", Continue
  PROVE  /\ Here = pos /\ Here' = pos + 1 /\ pos \in 1..4
         /\ pc' \in {"select", "done"} /\ pos' \in Positions
         /\ pc' = "done" => pos' = 4
         /\ pc' = "select" => pos' = pos + 1
<1>1. pos \in 1..4 /\ Here = pos
  BY DEF Types, Here, Positions
<1>2. CASE pos = 4
  BY <1>1, <1>2 DEF Continue, Here, Positions
<1>3. CASE pos # 4
  <2>1. pc' = "select" /\ pos' = pos + 1
    BY <1>3 DEF Continue
  <2>2. pos + 1 \in 1..4
    BY <1>1, <1>3
  <2> QED  BY <1>1, <2>1, <2>2 DEF Here, Positions
<1> QED  BY <1>2, <1>3

\* The drives that were found are some of the positions, none of them missed.
LEMMA FoundPositions ==
  /\ Found \in SUBSET Positions
  /\ \A p \in Positions : dev[p].kind = "ATA" /\ p \notin missed => p \in Found
BY DEF Found

\* The driver's locals keep their types.
LEMMA TypesKept ==
  ASSUME Types, [Next]_vars
  PROVE  Types'
<1>1. CASE Identify
  BY <1>1 DEF Identify, Types
<1>2. CASE FirstStatus
  <2>1. (pc' = "poll" /\ UNCHANGED pos) \/ Continue
    BY <1>2 DEF FirstStatus
  <2>2. pc # "done" /\ UNCHANGED <<type, dev, state, g_ide_devices>>
    BY <1>2 DEF FirstStatus
  <2> QED  BY <2>1, <2>2, Moves DEF Types
<1>3. CASE Poll
  BY <1>3 DEF Poll, Types
<1>4. CASE Probe
  <2>1. /\ pc # "done" /\ UNCHANGED <<dev, g_ide_devices>>
        /\ state' \in {state, [state EXCEPT ![pos] = "packet"]}
        /\ (pc' = "read" /\ UNCHANGED pos) \/ Continue
        /\ type' \in {type, "ATAPI"}
    BY <1>4 DEF Probe
  <2>2. state' \in [Positions -> {"idle", "identify", "packet", "ERR", "DRQ", "DF"}]
    BY <2>1 DEF Types
  <2> QED  BY <2>1, <2>2, Moves DEF Types
<1>5. CASE ReadIdentification
  <2>1. /\ pc # "done" /\ UNCHANGED <<type, dev>> /\ Continue
        /\ state' \in {state, [state EXCEPT ![pos] = "idle"]}
        /\ DOMAIN g_ide_devices' = DOMAIN g_ide_devices
    BY <1>5 DEF ReadIdentification
  <2>2. state' \in [Positions -> {"idle", "identify", "packet", "ERR", "DRQ", "DF"}]
    BY <2>1 DEF Types
  <2> QED  BY <2>1, <2>2, Moves DEF Types
<1>6. ASSUME NEW p \in Positions, Answer(p) PROVE Types'
  <2>1. /\ UNCHANGED <<pc, pos, type, dev, g_ide_devices>>
        /\ \E x \in {"DF", "DRQ", "ERR"} : state' = [state EXCEPT ![p] = x]
    <3> DEFINE x == CASE dev[p].kind = "faulty" -> "DF"
                      [] dev[p].kind = "ATA" \/ state[p] = "packet" -> "DRQ"
                      [] OTHER -> "ERR"
    <3>1. state' = [state EXCEPT ![p] = x] /\ UNCHANGED <<pc, pos, type, dev, g_ide_devices>>
      BY <1>6 DEF Answer
    <3>2. x \in {"DF", "DRQ", "ERR"}
      OBVIOUS
    <3> QED  BY <3>1, <3>2
  <2> QED  BY <2>1 DEF Types
<1>7. CASE UNCHANGED vars
  BY <1>7 DEF vars, Types
<1> QED  BY <1>1, <1>2, <1>3, <1>4, <1>5, <1>6, <1>7 DEF Next, Driver

\* A position without a drive takes no slot.
LEMMA Skips ==
  ASSUME Types, Order, Table, pc # "done", Continue,
         Found' = Found \ {pos},
         UNCHANGED <<count, g_ide_devices, dev, early>>
  PROVE  Table'
<1>1. Here = pos /\ Here' = pos + 1 /\ pos \in Positions
  BY Moves DEF Positions
<1>2. Found \in SUBSET Positions /\ Found' \in SUBSET Positions /\ pos \notin Found'
  BY FoundPositions
<1>3. \A p \in Positions : p <= pos => SlotOf(Found', p) = SlotOf(Found, p)
  <2> SUFFICES ASSUME NEW p \in Positions, p <= pos
               PROVE  SlotOf(Found', p) = SlotOf(Found, p)
    OBVIOUS
  <2>1. \A q \in Positions : q < p => q # pos
    BY <1>1 DEF Positions
  <2>2. \A q : q < p => (q \in Found' <=> q \in Found)
    BY <1>2, <2>1
  <2> QED  BY <2>2, SlotLocal
<1>4. count' = SlotOf(Found', Here')
  <2>1. SlotOf(Found', pos + 1) = SlotOf(Found', pos)
    BY <1>1, <1>2, SlotSteps
  <2>2. SlotOf(Found', pos) = SlotOf(Found, pos)
    BY <1>1, <1>3 DEF Positions
  <2> QED  BY <1>1, <2>1, <2>2 DEF Table
<1>5. \A p \in Found' : p < Here' => p \in Found /\ p < Here
  BY <1>1, <1>2 DEF Positions
<1>6. ASSUME NEW p \in Found', p < Here' PROVE Listed(p)'
  <2>1. Listed(p) /\ p <= pos /\ p \in Positions
    BY <1>1, <1>2, <1>5, <1>6 DEF Table, Positions
  <2>2. SlotOf(Found', p) = SlotOf(Found, p)
    BY <1>3, <2>1
  <2> QED  BY <2>1, <2>2 DEF Listed, RecordOf
<1>7. ASSUME NEW d \in 0 .. count' - 1
      PROVE  \E p \in Found' : p < Here' /\ SlotOf(Found', p) = d
  <2>1. PICK p \in Found : p < Here /\ SlotOf(Found, p) = d
    BY <1>7 DEF Table
  <2>2. p \in Found' /\ p < Here' /\ p <= pos /\ p \in Positions
    BY <1>1, <1>2, <2>1 DEF Positions
  <2> QED  BY <1>3, <2>1, <2>2
<1>8. \A d \in Slots : d >= count' => g_ide_devices'[d] = Unused
  BY DEF Table
<1> QED  BY <1>4, <1>6, <1>7, <1>8 DEF Table

\* A position with one takes the next.
LEMMA Fills ==
  ASSUME Types, Order, Table, pc # "done", Continue,
         pos \in Found, Found' = Found, UNCHANGED dev,
         early' \in {early, early \cup {pos}}, NEW e,
         pos \in early' => Plain(e) = Plain(RecordOf(dev, pos)),
         pos \notin early' => e = RecordOf(dev, pos),
         count' = count + 1, g_ide_devices' = [g_ide_devices EXCEPT ![count] = e]
  PROVE  Table'
<1>1. Here = pos /\ Here' = pos + 1 /\ pos \in 1..4
  BY Moves
<1>2. Found \in SUBSET Positions
  BY FoundPositions
<1>3. count = SlotOf(Found, pos) /\ count \in 0 .. pos - 1
  BY <1>1, <1>2, SlotOrder DEF Table
<1>4. count \in Slots
  BY <1>1, <1>3 DEF Slots, DeviceSlots
<1>5. \A d \in Slots : g_ide_devices'[d] = IF d = count THEN e ELSE g_ide_devices[d]
  BY <1>4 DEF Types
<1>6. count' = SlotOf(Found', Here')
  BY <1>1, <1>2, <1>3, SlotSteps DEF Positions
<1>7. ASSUME NEW p \in Found', p < Here' PROVE Listed(p)'
  <2>1. CASE p = pos
    <3>1. g_ide_devices'[SlotOf(Found', p)] = e
      BY <1>3, <1>4, <1>5, <2>1
    <3>2. RecordOf(dev, p)' = RecordOf(dev, p)
      BY DEF RecordOf
    <3> QED  BY <2>1, <3>1, <3>2 DEF Listed, Plain
  <2>2. CASE p # pos
    <3>0. p \in 1..4 /\ p \in Found
      BY <1>2 DEF Positions
    <3>1. p \in 1..4 /\ p < pos /\ p \in Found
      BY <1>1, <1>7, <2>2, <3>0
    <3>2. SlotOf(Found, p) < count /\ SlotOf(Found, p) \in 0 .. p - 1
      BY <1>1, <1>2, <1>3, <3>1, SlotOrder
    <3>3. SlotOf(Found, p) \in Slots
      BY <3>1, <3>2 DEF Slots, DeviceSlots
    <3>4. g_ide_devices'[SlotOf(Found, p)] = g_ide_devices[SlotOf(Found, p)]
      BY <1>3, <1>5, <3>2, <3>3
    <3>5. Listed(p) /\ (p \in early' <=> p \in early)
      BY <1>1, <2>2, <3>1 DEF Table
    <3> QED  BY <3>4, <3>5 DEF Listed, RecordOf, Plain
  <2> QED  BY <2>1, <2>2
<1>8. \A d \in Slots : d >= count' => g_ide_devices'[d] = Unused
  <2>1. \A d \in Slots : d >= count + 1 => d >= count /\ d # count
    BY <1>3 DEF Slots
  <2> QED  BY <1>5, <2>1 DEF Table
<1>9. ASSUME NEW d \in 0 .. count' - 1
      PROVE  \E p \in Found' : p < Here' /\ SlotOf(Found', p) = d
  <2>1. CASE d = count
    BY <1>1, <1>3, <2>1
  <2>2. CASE d # count
    <3>1. d \in 0 .. count - 1
      BY <1>3, <2>2
    <3>2. PICK p \in Found : p < Here /\ SlotOf(Found, p) = d
      BY <3>1 DEF Table
    <3>3. p \in 1..4
      BY <1>2, <3>2 DEF Positions
    <3>4. p < Here'
      BY <1>1, <3>2, <3>3
    <3> QED  BY <3>2, <3>4
  <2> QED  BY <2>1, <2>2
<1> QED  BY <1>6, <1>7, <1>8, <1>9 DEF Table

\* A step that changes no slot leaves the table as it should be.
LEMMA TableSame ==
  ASSUME Table, UNCHANGED <<count, dev, missed, early>>, Here' = Here,
         \A d \in Slots : g_ide_devices'[d] = g_ide_devices[d]
  PROVE  Table'
<1>1. Found' = Found /\ Found \in SUBSET Positions
  BY FoundPositions DEF Found
<1>2. ASSUME NEW p \in Found PROVE Listed(p)' = Listed(p)
  <2>1. p \in 1..4
    BY <1>1 DEF Positions
  <2>2. SlotOf(Found, p) \in 0 .. p - 1
    BY <1>1, <2>1, SlotOrder
  <2>3. SlotOf(Found, p) \in Slots
    BY <2>1, <2>2 DEF Slots, DeviceSlots
  <2>4. g_ide_devices'[SlotOf(Found', p)] = g_ide_devices[SlotOf(Found, p)]
    BY <1>1, <2>3
  <2> QED  BY <2>4 DEF Listed, RecordOf, Plain
<1> QED  BY <1>1, <1>2 DEF Table

\* The position that is detected has a place in the table, and neither was missed nor
\* read too early.
LEMMA HereNew ==
  ASSUME Types, Order, Table, pc # "done"
  PROVE  Here = pos /\ pos \in 1..4 /\ pos \notin missed \cup early /\ count \in Slots
<1>1. Here = pos /\ pos \in 1..4
  BY DEF Types, Here, Positions
<1>2. pos \notin missed \cup early
  BY <1>1 DEF Order
<1>3. count \in 0 .. pos - 1
  BY <1>1, FoundPositions, SlotOrder DEF Table
<1> QED  BY <1>1, <1>2, <1>3 DEF Slots, DeviceSlots

\* The table lists the drives found so far, whatever step is taken.
LEMMA TableKept ==
  ASSUME IInv, [Next]_vars
  PROVE  Table'
<1> Types /\ Order /\ Doing /\ Table
  BY DEF IInv
<1>1. CASE Identify
  <2>1. /\ UNCHANGED <<count, dev, missed, early>> /\ Here' = Here /\ pc # "done"
        /\ g_ide_devices' = [g_ide_devices EXCEPT ![count].reserved = 0]
    BY <1>1 DEF Identify, Here
  <2>2. count \in Slots
    BY <2>1, HereNew
  <2>3. g_ide_devices[count] = Unused
    <3>1. count >= count
      BY <2>2 DEF Slots, DeviceSlots
    <3> QED  BY <2>2, <3>1 DEF Table
  <2>4. [Unused EXCEPT !.reserved = 0] = Unused
    BY DEF Unused
  <2>5. \A d \in Slots : g_ide_devices'[d] = g_ide_devices[d]
    BY <2>1, <2>3, <2>4 DEF Types
  <2> QED  BY <2>1, <2>5, TableSame
<1>2. CASE FirstStatus
  <2>1. /\ UNCHANGED <<count, g_ide_devices, dev, early>> /\ pc = "first"
    BY <1>2 DEF FirstStatus
  <2>2. CASE Status = "zero" /\ Continue /\ UNCHANGED missed
    <3>1. state[pos] \in {"identify", "DF", "DRQ", "ERR"}
      BY <2>1 DEF Doing, Answered
    <3>2. dev[pos].kind = "none"
      BY <2>2, <3>1 DEF Status
    <3>3. Found' = Found \ {pos}
      BY <2>1, <2>2, <3>2 DEF Found, Packet
    <3> QED  BY <2>1, <2>2, <3>3, Skips
  <2>3. CASE Continue /\ missed' = missed \cup {pos}
    <3>1. Found' = Found \ {pos}
      BY <2>1, <2>3 DEF Found
    <3> QED  BY <2>1, <2>3, <3>1, Skips
  <2>4. CASE pc' = "poll" /\ UNCHANGED <<pos, missed>>
    <3>1. Here' = Here
      BY <2>1, <2>4 DEF Here
    <3> QED  BY <2>1, <2>4, <3>1, TableSame
  <2> QED  BY <1>2, <2>2, <2>3, <2>4 DEF FirstStatus
<1>3. CASE Poll
  <2>1. Here' = Here
    BY <1>3 DEF Poll, Here
  <2> QED  BY <1>3, <2>1, TableSame DEF Poll
<1>4. CASE Probe
  <2>1. /\ UNCHANGED <<count, g_ide_devices, dev, missed, early>> /\ pc = "signature"
    BY <1>4 DEF Probe
  <2>2. CASE Continue /\ Signature(dev[pos]) \notin {<<20, 235>>, <<105, 150>>}
    <3>1. dev[pos].kind \notin Packet
      BY <2>2 DEF Signature, Packet
    <3>2. pos \notin Found
      BY <2>1, <3>1 DEF Doing, Found, Packet
    <3>3. Found' = Found \ {pos}
      BY <2>1, <3>2 DEF Found
    <3> QED  BY <2>1, <2>2, <3>3, Skips
  <2>3. CASE pc' = "read" /\ UNCHANGED pos
    <3>1. Here' = Here
      BY <2>1, <2>3 DEF Here
    <3> QED  BY <2>1, <3>1, TableSame
  <2> QED  BY <1>4, <2>2, <2>3 DEF Probe
<1>5. CASE ReadIdentification
  <2> DEFINE ident == IF state[pos] = "DRQ" THEN dev[pos] ELSE Garbage
             e == Entry(pos, type, ident)
  <2>1. /\ pc = "read" /\ Continue /\ UNCHANGED <<dev, missed>> /\ count' = count + 1
        /\ g_ide_devices' = [g_ide_devices EXCEPT ![count] = e]
        /\ early' = IF state[pos] = "DRQ" THEN early ELSE early \cup {pos}
    BY <1>5 DEF ReadIdentification, NextSlot
  <2>2. pos \in Positions /\ pos \notin missed /\ pos \notin early
    BY <2>1, HereNew DEF Positions
  <2>3. /\ dev[pos].kind \in {"ATA"} \cup Packet
        /\ type = IF dev[pos].kind = "ATA" THEN "ATA" ELSE "ATAPI"
    BY <2>1 DEF Doing, Packet
  <2>4. pos \in Found /\ Found' = Found
    BY <2>1, <2>2, <2>3 DEF Found
  <2>5. /\ Entry(pos, type, dev[pos]) = RecordOf(dev, pos)
        /\ Plain(e) = Plain(RecordOf(dev, pos))
    BY <2>2, <2>3, EntryIsRecord
  <2>6. pos \notin early' => e = RecordOf(dev, pos)
    BY <2>1, <2>5
  <2> HIDE DEF e
  <2> QED  BY <2>1, <2>4, <2>5, <2>6, Fills
<1>6. CASE (\E p \in Positions : Answer(p)) \/ UNCHANGED vars
  <2>1. UNCHANGED <<pc, pos, count, g_ide_devices, dev, missed, early>>
    BY <1>6 DEF Answer, vars
  <2>2. Here' = Here
    BY <2>1 DEF Here
  <2> QED  BY <2>1, <2>2, TableSame
<1> QED  BY <1>1, <1>2, <1>3, <1>4, <1>5, <1>6 DEF Next, Driver

\* Going on keeps the order of the positions.
LEMMA OrderMoves ==
  ASSUME Types, Order, pc # "done", Continue, UNCHANGED dev,
         missed' \cup early' \subseteq missed \cup early \cup {pos},
         pos \in missed' \cup early' => dev[pos].kind \in Packet,
         \A p \in Positions : p # pos => state'[p] = state[p]
  PROVE  Order'
<1>1. Here = pos /\ Here' = pos + 1 /\ pos \in 1..4 /\ (pc' = "done" => pos' = 4)
  BY Moves
<1>2. ASSUME NEW p \in missed' \cup early'
      PROVE  p \in Positions /\ p < Here' /\ dev'[p].kind \in Packet
  <2>1. CASE p = pos
    BY <1>1, <1>2, <2>1 DEF Positions
  <2>2. CASE p # pos
    <3>1. p \in Positions /\ p < Here /\ dev[p].kind \in Packet
      BY <1>2, <2>2 DEF Order
    <3>2. p \in 1..4
      BY <3>1 DEF Positions
    <3> QED  BY <1>1, <3>1, <3>2
  <2> QED  BY <2>1, <2>2
<1>3. ASSUME NEW p \in Positions, p > Here' \/ p = Here'
      PROVE  state'[p] = "idle"
  <2>1. p > Here /\ p # pos
    BY <1>1, <1>3 DEF Positions
  <2> QED  BY <2>1 DEF Order
<1> QED  BY <1>1, <1>2, <1>3 DEF Order

\* Positions are handled in their order, whatever step is taken.
LEMMA OrderKept ==
  ASSUME IInv, [Next]_vars
  PROVE  Order'
<1> Types /\ Order /\ Doing /\ Table
  BY DEF IInv
<1>1. ASSUME pc # "done", pc' # "done", pc' # "select", UNCHANGED <<pos, dev, missed, early>>,
             \A p \in Positions : p # pos => state'[p] = state[p]
      PROVE  Order'
  <2>1. Here = pos /\ Here' = pos /\ pos \in 1..4
    BY <1>1 DEF Types, Here, Positions
  <2>2. \A p \in Positions : p > pos => p # pos
    BY <2>1 DEF Positions
  <2> QED  BY <1>1, <2>1, <2>2 DEF Order
<1>2. CASE Identify
  BY <1>1, <1>2 DEF Identify, Types
<1>3. CASE FirstStatus
  <2>1. /\ pc = "first" /\ UNCHANGED <<dev, state, early>>
        /\ \/ Continue /\ UNCHANGED missed
           \/ Continue /\ missed' = missed \cup {pos} /\ dev[pos].kind \in Packet
           \/ pc' = "poll" /\ UNCHANGED <<pos, missed>>
    BY <1>3 DEF FirstStatus
  <2>2. pos \notin missed \cup early
    BY <2>1, HereNew
  <2> QED  BY <1>1, <2>1, <2>2, OrderMoves
<1>4. CASE Poll
  BY <1>1, <1>4 DEF Poll
<1>5. CASE Probe
  <2>1. /\ pc = "signature" /\ UNCHANGED <<dev, missed, early>>
        /\ \/ Continue /\ UNCHANGED state
           \/ pc' = "read" /\ UNCHANGED pos /\ state' = [state EXCEPT ![pos] = "packet"]
    BY <1>5 DEF Probe
  <2>2. \A p \in Positions : p # pos => state'[p] = state[p]
    BY <2>1 DEF Types
  <2>3. pos \notin missed \cup early
    BY <2>1, HereNew
  <2> QED  BY <1>1, <2>1, <2>2, <2>3, OrderMoves
<1>6. CASE ReadIdentification
  <2>1. /\ pc = "read" /\ Continue /\ UNCHANGED <<dev, missed>>
        /\ early' = IF state[pos] = "DRQ" THEN early ELSE early \cup {pos}
        /\ state' \in {state, [state EXCEPT ![pos] = "idle"]}
    BY <1>6 DEF ReadIdentification
  <2>2. \A p \in Positions : p # pos => state'[p] = state[p]
    BY <2>1 DEF Types
  <2>3. pos \notin missed \cup early
    BY <2>1, HereNew
  <2>4. pos \in early' => dev[pos].kind \in Packet
    BY <2>1, <2>3 DEF Doing
  <2> QED  BY <2>1, <2>2, <2>3, <2>4, OrderMoves
<1>7. ASSUME NEW p \in Positions, Answer(p) PROVE Order'
  <2>1. /\ UNCHANGED <<pc, pos, dev, missed, early>>
        /\ state[p] # "idle"
    BY <1>7 DEF Answer
  <2>2. \A q \in Positions : q # p => state'[q] = state[q]
    BY <1>7 DEF Answer, Types
  <2>3. Here' = Here
    BY <2>1 DEF Here
  <2> QED  BY <2>1, <2>2, <2>3 DEF Order
<1>8. CASE UNCHANGED vars
  BY <1>8 DEF vars, Order, Here
<1> QED  BY <1>2, <1>3, <1>4, <1>5, <1>6, <1>7, <1>8 DEF Next, Driver

\* How far the device of the current position is, whatever step is taken.
LEMMA DoingKept ==
  ASSUME IInv, [Next]_vars
  PROVE  Doing'
<1> Types /\ Order /\ Doing /\ Table
  BY DEF IInv
<1>1. ASSUME pc # "done", Continue PROVE Doing'
  <2>1. pc' \in {"select", "done"}
    BY <1>1, Moves
  <2> QED  BY <2>1 DEF Doing
<1>2. CASE Identify
  <2>1. pc' = "first" /\ type' = "ATA" /\ state'[pos'] = "identify"
    BY <1>2 DEF Identify, Types
  <2> QED  BY <2>1 DEF Doing
<1>3. CASE FirstStatus
  <2>1. CASE Continue
    BY <1>1, <1>3, <2>1 DEF FirstStatus
  <2>2. CASE pc' = "poll" /\ UNCHANGED pos
    BY <1>3, <2>2 DEF FirstStatus, Doing, Answered
  <2> QED  BY <1>3, <2>1, <2>2 DEF FirstStatus
<1>4. CASE Poll
  <2>1. /\ pc = "poll" /\ UNCHANGED <<pos, type, dev, state>> /\ Status \in {"ERR", "DRQ"}
        /\ pc' = IF Status = "ERR" THEN "signature" ELSE "read"
    BY <1>4 DEF Poll
  <2>2. type = "ATA" /\ (state[pos] = "identify" \/ Answered(pos))
    BY <2>1 DEF Doing
  <2>3. dev[pos] \in Device /\ pos \in Positions
    BY DEF Types
  <2>4. dev[pos].kind \in {"none", "floating", "other", "faulty", "ATA"} \cup Packet
    BY <2>3, DeviceAssumption, Zenon
  <2>5. CASE Status = "ERR"
    <3>1. dev[pos].kind \in {"floating", "other"} \cup Packet
      BY <2>2, <2>4, <2>5 DEF Status, Answered
    <3> QED  BY <2>1, <2>2, <2>5, <3>1 DEF Doing, Answered
  <2>6. CASE Status = "DRQ"
    <3>1. dev[pos].kind = "ATA" /\ state[pos] = "DRQ"
      BY <2>2, <2>4, <2>6 DEF Status, Answered
    <3> QED  BY <2>1, <2>2, <2>6, <3>1 DEF Doing
  <2> QED  BY <2>1, <2>5, <2>6
<1>5. CASE Probe
  <2>1. CASE Continue
    BY <1>1, <1>5, <2>1 DEF Probe
  <2>2. CASE /\ pc' = "read" /\ type' = "ATAPI" /\ UNCHANGED pos
             /\ state' = [state EXCEPT ![pos] = "packet"]
             /\ Signature(dev[pos]) \in {<<20, 235>>, <<105, 150>>}
    <3>1. pc = "signature" /\ UNCHANGED dev
      BY <1>5 DEF Probe
    <3>2. dev[pos].kind \in {"floating", "other"} \cup Packet
      BY <3>1 DEF Doing
    <3>3. dev[pos].kind \in Packet
      BY <2>2, <3>2 DEF Signature, Packet
    <3>4. state'[pos] = "packet"
      BY <2>2 DEF Types
    <3> QED  BY <2>2, <3>1, <3>3, <3>4 DEF Doing
  <2> QED  BY <1>5, <2>1, <2>2 DEF Probe
<1>6. CASE ReadIdentification
  BY <1>1, <1>6 DEF ReadIdentification
<1>7. ASSUME NEW p \in Positions, Answer(p) PROVE Doing'
  <2>1. /\ UNCHANGED <<pc, pos, type, dev>> /\ state[p] \in {"identify", "packet"}
        /\ dev[p].kind \notin {"none", "floating"}
        /\ state' = [state EXCEPT ![p] =
                       CASE dev[p].kind = "faulty" -> "DF"
                         [] dev[p].kind = "ATA" \/ @ = "packet" -> "DRQ"
                         [] OTHER -> "ERR"]
    BY <1>7 DEF Answer
  <2>2. CASE p # pos
    <3>1. state'[pos] = state[pos]
      BY <2>1, <2>2 DEF Types
    <3> QED  BY <2>1, <3>1 DEF Doing, Answered
  <2>3. CASE p = pos
    <3>1. state'[pos] = CASE dev[pos].kind = "faulty" -> "DF"
                          [] dev[pos].kind = "ATA" \/ state[pos] = "packet" -> "DRQ"
                          [] OTHER -> "ERR"
      BY <2>1, <2>3 DEF Types
    <3>2. CASE state[pos] = "identify"
      <4>1. Answered(pos)'
        BY <2>1, <3>1, <3>2 DEF Answered
      <4>2. pc # "read"
        BY <3>2 DEF Doing
      <4> QED  BY <2>1, <4>1, <4>2 DEF Doing
    <3>3. CASE state[pos] = "packet"
      <4>1. pc \notin {"first", "poll", "signature"}
        BY <3>3 DEF Doing, Answered
      <4>2. pc = "read" => dev[pos].kind \in Packet /\ type = "ATAPI" /\ state'[pos] = "DRQ"
        BY <3>1, <3>3 DEF Doing, Packet
      <4> QED  BY <2>1, <4>1, <4>2 DEF Doing
    <3> QED  BY <2>1, <2>3, <3>2, <3>3
  <2> QED  BY <2>2, <2>3
<1>8. CASE UNCHANGED vars
  BY <1>8 DEF vars, Doing, Answered
<1> QED  BY <1>2, <1>3, <1>4, <1>5, <1>6, <1>7, <1>8 DEF Next, Driver

\* The invariant holds in every state.
LEMMA IInvAlways == Spec => []IInv
<1>1. Init => IInv
  <2> SUFFICES ASSUME Init PROVE IInv
    OBVIOUS
  <2>1. Types
    BY DEF Init, Types, Positions
  <2>2. Here = 1 /\ pc = "select"
    BY DEF Init, Here
  <2>3. Order
    BY <2>2 DEF Init, Order
  <2>4. Doing
    BY <2>2 DEF Doing
  <2>5. \A p \in Found : ~ (p < Here)
    BY <2>2, FoundPositions DEF Positions
  <2>6. count = 0 /\ count = SlotOf(Found, Here)
    BY <2>2, FoundPositions, SlotSteps DEF Init
  <2>7. Table
    <3>1. \A d \in Slots : g_ide_devices[d] = Unused
      BY DEF Init
    <3>2. 0 .. count - 1 = {}
      BY <2>6
    <3> QED  BY <2>5, <2>6, <3>1, <3>2 DEF Table
  <2> QED  BY <2>1, <2>3, <2>4, <2>7 DEF IInv
<1>2. IInv /\ [Next]_vars => IInv'
  <2> SUFFICES ASSUME IInv, [Next]_vars PROVE IInv'
    OBVIOUS
  <2>1. Types'
    BY TypesKept DEF IInv
  <2> QED  BY <2>1, OrderKept, DoingKept, TableKept DEF IInv
<1> QED  BY <1>1, <1>2, PTL DEF Spec

(***************************************************************************)
(* The theorems.                                                           *)
(***************************************************************************)

\* The locals of ide_init keep their types, and the slot it fills is inside the table,
\* whatever is attached.
THEOREM TypeCorrect == Spec => []TypeOK
<1>1. IInv => TypeOK
  <2> SUFFICES ASSUME IInv PROVE TypeOK
    OBVIOUS
  <2> Types /\ Order /\ Table
    BY DEF IInv
  <2>1. missed \subseteq Positions /\ early \subseteq Positions
    BY DEF Order
  <2>2. count \in 0 .. Here - 1
    <3>1. Here \in 1 .. 5
      BY DEF Types, Here, Positions
    <3> QED  BY <3>1, FoundPositions, SlotOrder DEF Table
  <2>3. count \in 0 .. pos /\ (pc # "done" => count < pos)
    <3>1. CASE pc = "done"
      <4>1. Here = 5 /\ pos = 4
        BY <3>1 DEF Order, Here
      <4> QED  BY <2>2, <3>1, <4>1
    <3>2. CASE pc # "done"
      <4>1. Here = pos /\ pos \in 1..4
        BY <3>2 DEF Types, Here, Positions
      <4> QED  BY <2>2, <3>2, <4>1
    <3> QED  BY <3>1, <3>2
  <2> QED  BY <2>1, <2>3 DEF Types, TypeOK
<1> QED  BY <1>1, IInvAlways, PTL

\* When detection is over the table lists the drives in the order of their positions, each
\* with its own record, and nothing else, whatever is attached and however long it took.
THEOREM DrivesAreListed == Spec => []TableListsDrives
<1>1. IInv => TableListsDrives
  <2> SUFFICES ASSUME IInv, pc = "done" PROVE TableListsDrives
    BY DEF TableListsDrives
  <2>1. Here = 5 /\ Table
    BY DEF IInv, Here
  <2>2. Found \in SUBSET Positions
    BY FoundPositions
  <2>3. count = Cardinality(Found)
    BY <2>1, <2>2, SlotSteps DEF Table
  <2>4. \A p \in Found : Listed(p)
    <3>1. \A p \in Found : p < Here
      BY <2>1, <2>2 DEF Positions
    <3> QED  BY <2>1, <3>1 DEF Table
  <2>5. \A p \in Found :
          LET slot == g_ide_devices[SlotOf(Found, p)]
          IN  IF p \in early
              THEN [slot EXCEPT !.size = 0, !.model = <<>>]
                     = [RecordOf(dev, p) EXCEPT !.size = 0, !.model = <<>>]
              ELSE slot = RecordOf(dev, p)
    BY <2>4, Zenon DEF Listed, Plain
  <2>6. \A d \in Slots : d >= Cardinality(Found) => g_ide_devices[d] = Unused
    BY <2>1, <2>3 DEF Table
  <2> QED  BY <2>5, <2>6, Zenon DEF TableListsDrives
<1> QED  BY <1>1, IInvAlways, PTL

\* The search returns the first slot with the name, if there is one.
LEMMA SearchFindsFirst ==
  ASSUME NEW table, NEW model, NEW s \in Slots, table[s].model = model
  PROVE  LET got == ata_get_drive_by_model(table, model)
         IN  got \in 0 .. s /\ table[got].model = model
<1> DEFINE hits == {d \in Slots : table[d].model = model}
           Below == OpToRel(<, Nat)
<1>1. hits \in SUBSET Nat /\ s \in hits
  BY DEF Slots, DeviceSlots
<1>2. PICK k \in hits : \A j \in hits : <<j, k>> \notin Below
  <2>1. IsWellFoundedOn(Below, Nat)
    BY NatLessThanWellFounded
  <2> HIDE DEF Below, hits
  <2> QED  BY <1>1, <2>1, WFMin
<1>3. \A j \in hits : k <= j
  <2> SUFFICES ASSUME NEW j \in hits PROVE k <= j
    OBVIOUS
  <2>1. ~ (j < k)
    BY <1>1, <1>2 DEF OpToRel
  <2> QED  BY <1>1, <2>1
<1> DEFINE got == CHOOSE d \in hits : \A e \in hits : d <= e
<1>4. got \in hits /\ \A e \in hits : got <= e
  <2> HIDE DEF hits
  <2> QED  BY <1>3
<1>5. ata_get_drive_by_model(table, model) = got
  BY <1>1 DEF ata_get_drive_by_model
<1>6. got \in 0 .. s /\ table[got].model = model
  <2> HIDE DEF got
  <2> QED  BY <1>1, <1>4
<1> HIDE DEF got
<1> QED  BY <1>5, <1>6

\* The kernel finds its disk by its name in whatever company it is, unless an earlier slot
\* shows that name.
THEOREM DiskIsFound == Spec => []DiskFoundByName
<1>1. IInv => DiskFoundByName
  <2> SUFFICES ASSUME IInv, pc = "done", NEW p \in Positions, dev[p].kind = "ATA"
               PROVE  LET got == ata_get_drive_by_model(g_ide_devices, dev[p].label)
                      IN  /\ got \in 0 .. SlotOf(Found, p)
                          /\ got < SlotOf(Found, p) =>
                               \E q \in Found : /\ q < p /\ got = SlotOf(Found, q)
                                                /\ q \in early \/ dev[q].label = dev[p].label
    BY DEF DiskFoundByName
  <2> DEFINE s == SlotOf(Found, p)
             got == ata_get_drive_by_model(g_ide_devices, dev[p].label)
  <2>1. Here = 5 /\ Table /\ Order
    BY DEF IInv, Here
  <2>2. Found \in SUBSET Positions /\ p \in 1..4 /\ \A q \in Found : q \in 1..4
    BY FoundPositions DEF Positions
  <2>3. p \notin missed /\ p \notin early
    BY <2>1 DEF Order, Packet
  <2>4. p \in Found
    BY <2>3, FoundPositions
  <2>5. s \in 0 .. p - 1 /\ s < count
    <3>1. 5 \in 1..5 /\ p \in 1..5 /\ p < 5
      BY <2>2
    <3>2. s \in 0 .. p - 1
      BY <2>2, <3>1, SlotOrder
    <3>3. SlotOf(Found, p) < SlotOf(Found, 5)
      BY <2>2, <2>4, <3>1, SlotOrder
    <3> QED  BY <2>1, <3>2, <3>3 DEF Table
  <2>6. s \in Slots
    BY <2>2, <2>5 DEF Slots, DeviceSlots
  <2>7. g_ide_devices[s].model = dev[p].label
    <3>1. Listed(p)
      BY <2>1, <2>2, <2>4 DEF Table
    <3>2. g_ide_devices[s] = RecordOf(dev, p)
      BY <2>3, <3>1 DEF Listed
    <3> QED  BY <3>2 DEF RecordOf
  <2>8. got \in 0 .. s /\ g_ide_devices[got].model = dev[p].label
    <3> HIDE DEF s
    <3> QED  BY <2>6, <2>7, SearchFindsFirst
  <2>9. ASSUME got < s
        PROVE  \E q \in Found : /\ q < p /\ got = SlotOf(Found, q)
                                /\ q \in early \/ dev[q].label = dev[p].label
    <3>1. got \in 0 .. count - 1
      <4> count \in Nat
        BY <2>1, <2>2, SlotOrder DEF Table
      <4> HIDE DEF got, s
      <4> QED  BY <2>5, <2>8, <2>9
    <3>2. PICK q \in Found : q < Here /\ SlotOf(Found, q) = got
      BY <2>1, <3>1 DEF Table
    <3>3. q < p
      <4>1. q \in 1..5 /\ p \in 1..5
        BY <2>2, <3>2
      <4>2. p < q => s <= got
        BY <2>2, <3>2, <4>1, SlotOrder
      <4>3. p = q => s = got
        BY <3>2
      <4> HIDE DEF got, s
      <4> QED  BY <2>5, <2>8, <2>9, <4>1, <4>2, <4>3
    <3>4. q \in early \/ dev[q].label = dev[p].label
      <4>1. Listed(q)
        BY <2>1, <3>2 DEF Table
      <4>2. q \notin early => g_ide_devices[got] = RecordOf(dev, q)
        BY <3>2, <4>1 DEF Listed
      <4>3. RecordOf(dev, q).model = dev[q].label
        BY DEF RecordOf
      <4> HIDE DEF got
      <4> QED  BY <2>8, <4>2, <4>3
    <3> QED  BY <3>2, <3>3, <3>4
  <2> HIDE DEF got
  <2> QED  BY <2>8, <2>9 DEF got
<1> QED  BY <1>1, IInvAlways, PTL
=============================================================================
