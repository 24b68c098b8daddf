--------------------------- MODULE TerminalProofs ---------------------------
(***************************************************************************)
(* For a screen of any size, and whatever mouse interrupts strike between  *)
(* the accesses of terminal_putchar to the cursor, no character is written *)
(* outside the screen; and what is printed before the mouse draws is shown *)
(* as a page would show it, its last lines.                                *)
(*                                                                         *)
(* The first invariant is inductive as TypeOK /\ CursorInBounds: the types *)
(* give the cursor one place past each edge, and CursorInBounds says in    *)
(* which program points it may be there.  Both are split by what they are  *)
(* about, so that each action has one short step for each part.            *)
(*                                                                         *)
(* The second needs the places of the characters on the paper, a function  *)
(* that is defined from itself: that it exists, and that its places follow *)
(* one another, is shown by the least number where it would fail.  TailInv *)
(* then relates the cursor and the rows of the screen to the paper at each *)
(* program point of terminal_putchar and terminal_scroll.                  *)
(***************************************************************************)
EXTENDS Terminal, TLAPS, WellFoundedInduction

Line == [Cols -> Chars \cup {Blank, "m", "X"}]

ScreenTypes == /\ screen \in [Rows -> Line]
               /\ c \in Chars \cup {NewLine}
               /\ x \in Cols /\ y \in Rows

CursorTypes == /\ terminal_row \in 0 .. VGA_HEIGHT
               /\ terminal_column \in 0 .. VGA_WIDTH
               /\ tmp \in Nat

PcTypes == pc \in {"ready", "init_col", "init_map", "init_clear", "put_y", "put_x",
                   "put_cell", "col_load", "col_store", "col_test", "col_reset",
                   "row_load", "row_store", "row_test", "row_clamp", "scroll"}

BootTypes == /\ boot \in {"mouse_init", "before", "after", "crashed"}
             /\ printed \in Seq(Chars \cup {NewLine})

FlagTypes == mapped \in BOOLEAN /\ moused \in BOOLEAN

\* The type invariant is the conjunction of its parts.
LEMMA TypeParts == TypeOK <=> ScreenTypes /\ CursorTypes /\ PcTypes
                              /\ BootTypes /\ FlagTypes
BY Zenon DEF TypeOK, ScreenTypes, CursorTypes, PcTypes, BootTypes, FlagTypes, Line

\* The actions of kmain that take no argument.
Step == \/ mouse_init \/ bsod_initialize \/ terminal_initialize \/ InitColumn
        \/ InitBuffer \/ InitClear \/ putchar_step

-----------------------------------------------------------------------------
(* Each part is preserved by every action.                                  *)

\* The boot phase and the printed history keep their types.
LEMMA BootStep ==
  ASSUME BootTypes, [Next]_vars
  PROVE  BootTypes'
<1>1. CASE terminal_initialize \/ bsod_initialize
  <2>1. printed' = <<>> /\ boot' \in {"after", "crashed"}
    BY <1>1, Zenon DEF terminal_initialize, bsod_initialize
  <2> QED  BY <2>1, SMT DEF BootTypes
<1>2. CASE mouse_init
  BY <1>2, SMT DEF BootTypes, mouse_init, history
<1>3. CASE InitBuffer
  BY <1>3, SMT DEF BootTypes, InitBuffer, history
<1>4. CASE InitColumn \/ InitClear \/ putchar_step \/ UNCHANGED vars
  BY <1>4, SMT DEF BootTypes, InitColumn, InitClear, putchar_step, LoadY, LoadX,
     terminal_putentryat, ColumnLoad, ColumnStore, ColumnTest, ColumnReset,
     RowLoad, RowStore, RowTest, RowClamp, ScrollRow, vars, history
<1>5. ASSUME NEW ch \in Chars \cup {NewLine}, Putchar(ch)
      PROVE  BootTypes'
  BY <1>5, SMT DEF BootTypes, Putchar
<1>6. ASSUME NEW mx \in 0 .. VGA_WIDTH, NEW my \in 0 .. VGA_HEIGHT,
             NEW n \in MouseText, mouse_handler(mx, my, n)
      PROVE  BootTypes'
  BY <1>6, SMT DEF BootTypes, mouse_handler
<1> QED  BY <1>1, <1>2, <1>3, <1>4, <1>5, <1>6, Zenon DEF Next

\* The two flags stay Boolean.
LEMMA FlagStep ==
  ASSUME FlagTypes, [Next]_vars
  PROVE  FlagTypes'
<1>1. CASE mapped' = mapped /\ moused' = moused
  BY <1>1, Zenon DEF FlagTypes
<1>2. CASE mapped' = TRUE /\ (moused' = moused \/ moused' = TRUE)
  BY <1>2, Zenon DEF FlagTypes
<1>3. CASE InitBuffer
  BY <1>2, <1>3, Zenon DEF InitBuffer, history
<1>4. CASE bsod_initialize
  <2>1. mapped' = TRUE /\ moused' = FALSE
    BY <1>4, Zenon DEF bsod_initialize
  <2> QED  BY <2>1, Zenon DEF FlagTypes
<1>5. CASE (Step /\ ~ InitBuffer /\ ~ bsod_initialize) \/ UNCHANGED vars
  BY <1>1, <1>5, Zenon DEF Step, mouse_init, terminal_initialize, InitColumn,
     InitClear, putchar_step, LoadY, LoadX, terminal_putentryat, ColumnLoad,
     ColumnStore, ColumnTest, ColumnReset, RowLoad, RowStore, RowTest, RowClamp,
     ScrollRow, vars, history
<1>6. ASSUME NEW ch \in Chars \cup {NewLine}, Putchar(ch)
      PROVE  FlagTypes'
  BY <1>1, <1>6, Zenon DEF Putchar
<1>7. ASSUME NEW mx \in 0 .. VGA_WIDTH, NEW my \in 0 .. VGA_HEIGHT,
             NEW n \in MouseText, mouse_handler(mx, my, n)
      PROVE  FlagTypes'
  BY <1>2, <1>7, Zenon DEF mouse_handler
<1> QED  BY <1>3, <1>4, <1>5, <1>6, <1>7, Zenon DEF Next, Step

\* kmain stays at a known program point.
LEMMA PcStep ==
  ASSUME PcTypes, [Next]_vars
  PROVE  PcTypes'
<1>1. CASE Step \/ UNCHANGED vars
  BY <1>1, SMT DEF PcTypes, Step, mouse_init, bsod_initialize,
     terminal_initialize, InitColumn, InitBuffer, InitClear, putchar_step, LoadY, LoadX, terminal_putentryat,
     ColumnLoad, ColumnStore, ColumnTest, ColumnReset, RowLoad, RowStore, RowTest,
     RowClamp, ScrollRow, vars
<1>2. ASSUME NEW ch \in Chars \cup {NewLine}, Putchar(ch)
      PROVE  PcTypes'
  BY <1>2, SMT DEF PcTypes, Putchar
<1>3. ASSUME NEW mx \in 0 .. VGA_WIDTH, NEW my \in 0 .. VGA_HEIGHT,
             NEW n \in MouseText, mouse_handler(mx, my, n)
      PROVE  PcTypes'
  BY <1>3, SMT DEF PcTypes, mouse_handler
<1> QED  BY <1>1, <1>2, <1>3, Zenon DEF Next, Step

\* The cursor and the register of an increment keep their ranges.
LEMMA CursorStep ==
  ASSUME CursorTypes, CursorInBounds, [Next]_vars
  PROVE  CursorTypes'
<1>1. CASE Step \/ UNCHANGED vars
  BY <1>1, TerminalAssumption, SMT DEF CursorTypes, CursorInBounds, Step, mouse_init,
     bsod_initialize, terminal_initialize, InitColumn, InitBuffer, InitClear, putchar_step, LoadY,
     LoadX, terminal_putentryat, ColumnLoad, ColumnStore, ColumnTest, ColumnReset,
     RowLoad, RowStore, RowTest, RowClamp, ScrollRow, vars, cursor, locals
<1>2. ASSUME NEW ch \in Chars \cup {NewLine}, Putchar(ch)
      PROVE  CursorTypes'
  BY <1>2, SMT DEF CursorTypes, Putchar, cursor
<1>3. ASSUME NEW mx \in 0 .. VGA_WIDTH, NEW my \in 0 .. VGA_HEIGHT,
             NEW n \in MouseText, mouse_handler(mx, my, n)
      PROVE  CursorTypes'
  BY <1>3, TerminalAssumption, SMT DEF CursorTypes, mouse_handler, locals
<1> QED  BY <1>1, <1>2, <1>3, Zenon DEF Next, Step

\* No action takes the cursor past an edge at a program point that does not expect it.
LEMMA BoundsStep ==
  ASSUME CursorTypes, CursorInBounds, [Next]_vars
  PROVE  CursorInBounds'
<1>1. CASE mouse_init \/ bsod_initialize \/ terminal_initialize \/ InitColumn
           \/ InitBuffer \/ InitClear \/ UNCHANGED vars
  BY <1>1, TerminalAssumption, SMT DEF CursorTypes, CursorInBounds, mouse_init,
     bsod_initialize, terminal_initialize, InitColumn, InitBuffer, InitClear, vars, cursor, locals
<1>2. CASE LoadY \/ LoadX \/ terminal_putentryat \/ ColumnLoad \/ ColumnStore
           \/ ColumnTest \/ ColumnReset
  BY <1>2, TerminalAssumption, SMT DEF CursorTypes, CursorInBounds, LoadY, LoadX,
     terminal_putentryat, ColumnLoad, ColumnStore, ColumnTest, ColumnReset,
     cursor, locals
<1>3. CASE RowLoad \/ RowStore \/ RowTest \/ RowClamp \/ ScrollRow
  BY <1>3, TerminalAssumption, SMT DEF CursorTypes, CursorInBounds, RowLoad,
     RowStore, RowTest, RowClamp, ScrollRow, cursor, locals
<1>4. ASSUME NEW ch \in Chars \cup {NewLine}, Putchar(ch)
      PROVE  CursorInBounds'
  BY <1>4, SMT DEF CursorTypes, CursorInBounds, Putchar, cursor
<1>5. ASSUME NEW mx \in 0 .. VGA_WIDTH, NEW my \in 0 .. VGA_HEIGHT,
             NEW n \in MouseText, mouse_handler(mx, my, n)
      PROVE  CursorInBounds'
  BY <1>5, TerminalAssumption, SMT DEF CursorTypes, CursorInBounds, mouse_handler,
     locals
<1> QED  BY <1>1, <1>2, <1>3, <1>4, <1>5, Zenon DEF Next, putchar_step

\* What the mouse handler draws is a screen.
LEMMA MouseScreen ==
  ASSUME NEW mx, NEW my, NEW n
  PROVE  WithMouse(mx, my, n) \in [Rows -> Line]
<1> SUFFICES ASSUME NEW r \in Rows
             PROVE  WithMouse(mx, my, n)[r] \in Line
  BY Zenon DEF WithMouse
<1>1. ASSUME NEW k \in Cols
      PROVE  WithMouse(mx, my, n)[r][k] \in Chars \cup {Blank, "m", "X"}
  BY Zenon DEF WithMouse
<1>2. WithMouse(mx, my, n)[r] = [k \in Cols |-> WithMouse(mx, my, n)[r][k]]
  BY Zenon DEF WithMouse
<1> QED  BY <1>1, <1>2, Zenon DEF Line

\* A cleared screen is a screen.
LEMMA ClearScreen == Clear \in [Rows -> Line]
BY Zenon DEF Clear, Line

\* What is drawn is a character and lands in a cell.
LEMMA ScreenStep ==
  ASSUME ScreenTypes, CursorTypes, CursorInBounds, [Next]_vars
  PROVE  ScreenTypes'
<1>0. [k \in Cols |-> Blank] \in Line
  BY Zenon DEF Line
<1>1. CASE InitClear
  BY <1>0, <1>1, TerminalAssumption, SMT DEF ScreenTypes, InitClear, Rows
<1>2. CASE ScrollRow
  BY <1>0, <1>2, TerminalAssumption, SMT DEF ScreenTypes, ScrollRow, Rows
<1>3. CASE terminal_putentryat
  <2>1. c \in Chars
    BY <1>3, SMT DEF ScreenTypes, CursorInBounds, terminal_putentryat
  <2>2. [screen[y] EXCEPT ![x] = c] \in Line
    BY <2>1, SMT DEF ScreenTypes, Line
  <2>3. [screen EXCEPT ![y][x] = c] \in [Rows -> Line]
    BY <2>2, SMT DEF ScreenTypes
  <2> QED  BY <1>3, <2>3, Zenon DEF ScreenTypes, terminal_putentryat, locals
<1>4. CASE LoadY \/ LoadX \/ InitBuffer \/ RowClamp
  BY <1>4, TerminalAssumption, SMT DEF ScreenTypes, CursorTypes, CursorInBounds,
     LoadY, LoadX, InitBuffer, RowClamp, Rows, Cols
<1>5. CASE mouse_init \/ terminal_initialize \/ InitColumn \/ ColumnLoad
           \/ ColumnStore \/ ColumnTest \/ ColumnReset \/ RowLoad \/ RowStore
           \/ RowTest \/ UNCHANGED vars
  BY <1>5, SMT DEF ScreenTypes, mouse_init, terminal_initialize, InitColumn,
     ColumnLoad, ColumnStore, ColumnTest, ColumnReset, RowLoad, RowStore, RowTest,
     vars, locals
<1>6. CASE bsod_initialize
  BY <1>6, ClearScreen, Zenon DEF ScreenTypes, bsod_initialize, locals
<1>7. ASSUME NEW ch \in Chars \cup {NewLine}, Putchar(ch)
      PROVE  ScreenTypes'
  BY <1>7, SMT DEF ScreenTypes, Putchar
<1>8. ASSUME NEW mx \in 0 .. VGA_WIDTH, NEW my \in 0 .. VGA_HEIGHT,
             NEW n \in MouseText, mouse_handler(mx, my, n)
      PROVE  ScreenTypes'
  BY <1>8, MouseScreen, Zenon DEF ScreenTypes, mouse_handler, locals
<1> QED  BY <1>1, <1>2, <1>3, <1>4, <1>5, <1>6, <1>7, <1>8, Zenon DEF Next, putchar_step

-----------------------------------------------------------------------------
\* The boot state satisfies the invariant.
LEMMA Initially == Init => TypeOK /\ CursorInBounds
<1> SUFFICES ASSUME Init PROVE TypeOK /\ CursorInBounds
  OBVIOUS
<1>1. ScreenTypes
  <2>2. 0 \in Rows /\ 0 \in Cols
    BY TerminalAssumption, SMT DEF Rows, Cols
  <2> QED  BY ClearScreen, <2>2, Zenon DEF Init, ScreenTypes
<1>2. CursorTypes /\ CursorInBounds
  BY TerminalAssumption, SMT DEF Init, CursorTypes, CursorInBounds
<1>3. PcTypes /\ BootTypes /\ FlagTypes
  <2>1. <<>> \in Seq(Chars \cup {NewLine})
    BY SMT
  <2> QED  BY <2>1, Zenon DEF Init, PcTypes, BootTypes, FlagTypes
<1> QED  BY <1>1, <1>2, <1>3, TypeParts, Zenon

\* The terminal of stdio.c keeps its cursor on the screen, whatever the size of the
\* screen, the characters printed and the mouse interrupts in between: TypeOK puts
\* the argument of every terminal_putentryat on the screen.
THEOREM CursorStaysInBounds == Spec => [](TypeOK /\ CursorInBounds)
<1>1. TypeOK /\ CursorInBounds /\ [Next]_vars => (TypeOK /\ CursorInBounds)'
  <2> SUFFICES ASSUME TypeOK, CursorInBounds, [Next]_vars
               PROVE  TypeOK' /\ CursorInBounds'
    OBVIOUS
  <2>1. ScreenTypes /\ CursorTypes /\ PcTypes /\ BootTypes /\ FlagTypes
    BY TypeParts, Zenon
  <2>2. ScreenTypes'
    BY <2>1, ScreenStep, Zenon
  <2>3. CursorTypes' /\ CursorInBounds'
    BY <2>1, CursorStep, BoundsStep, Zenon
  <2>4. PcTypes' /\ BootTypes' /\ FlagTypes'
    BY <2>1, PcStep, BootStep, FlagStep, Zenon
  <2>5. TypeOK' <=> /\ ScreenTypes' /\ CursorTypes' /\ PcTypes'
                    /\ BootTypes' /\ FlagTypes'
    BY TypeParts, PTL
  <2> QED  BY <2>2, <2>3, <2>4, <2>5, Zenon
<1> QED  BY <1>1, Initially, PTL DEF Spec

\* In particular every variable has its type: x and y, where the next character is
\* written, are a column and a row of the screen whatever came in between.
THEOREM TypeCorrect == Spec => []TypeOK
BY CursorStaysInBounds, PTL

(***************************************************************************)
(* The paper: where each character of a text goes on a page without end.   *)
(***************************************************************************)

Text == Seq(Chars \cup {NewLine})

Place == [line : Nat, col : Cols]

At(l, k) == [line |-> l, col |-> k]

\* The place after a character at the place p.
NextPlace(p, ch) == IF ch = NewLine \/ p.col = VGA_WIDTH - 1
                    THEN At(p.line + 1, 0) ELSE At(p.line, p.col + 1)

\* Paper, as a function of the text.
PaperOf(s) == CHOOSE f : f = [k \in 0 .. Len(s) |->
  IF k = 0 THEN [line |-> 0, col |-> 0]
  ELSE IF s[k] = NewLine \/ f[k - 1].col = VGA_WIDTH - 1
       THEN [line |-> f[k - 1].line + 1, col |-> 0]
       ELSE [line |-> f[k - 1].line, col |-> f[k - 1].col + 1]]

\* The characters among the first m that go to a place, and what is seen there.
Here(s, m, l, k) == {j \in 1 .. m : s[j] # NewLine /\ PaperOf(s)[j - 1] = At(l, k)}

Glyph(s, m, l, k) == IF Here(s, m, l, k) = {} THEN Blank
                     ELSE s[CHOOSE j \in Here(s, m, l, k) : TRUE]

\* The first line on the screen after m characters.
TopAt(s, m) == LET l == PaperOf(s)[m].line
               IN  IF l < VGA_HEIGHT THEN 0 ELSE l - (VGA_HEIGHT - 1)

\* A set of naturals that is not empty has a least element.
LEMMA HasLeast ==
  ASSUME NEW T \in SUBSET Nat, T # {}
  PROVE  \E k \in T : \A j \in T : k <= j
<1> DEFINE Below == OpToRel(<, Nat)
<1>1. PICK k \in T : \A j \in T : <<j, k>> \notin Below
  <2>1. IsWellFoundedOn(Below, Nat)
    BY NatLessThanWellFounded
  <2> HIDE DEF Below
  <2> QED  BY <2>1, WFMin
<1>2. ASSUME NEW j \in T PROVE k <= j
  <2>1. ~ (j < k)
    BY <1>1 DEF OpToRel
  <2> QED  BY <2>1
<1> QED  BY <1>2

\* f lays out the first m characters of s.
LaysOut(f, s, m) ==
  /\ f \in [0 .. m -> Place]
  /\ f[0] = At(0, 0)
  /\ \A k \in 1 .. m : f[k] = NextPlace(f[k - 1], s[k])

\* The next place is a place.
LEMMA NextIsPlace ==
  ASSUME NEW p \in Place, NEW ch
  PROVE  NextPlace(p, ch) \in Place
<1>1. VGA_WIDTH \in Nat \ {0}
  BY TerminalAssumption
<1>2. CASE ch = NewLine \/ p.col = VGA_WIDTH - 1
  BY <1>1, <1>2 DEF NextPlace, Place, At, Cols
<1>3. CASE ~ (ch = NewLine \/ p.col = VGA_WIDTH - 1)
  BY <1>1, <1>3 DEF NextPlace, Place, At, Cols
<1> QED  BY <1>2, <1>3

\* A layout is continued by one character.
LEMMA LayoutExtends ==
  ASSUME NEW s, NEW m \in Nat, NEW f, LaysOut(f, s, m)
  PROVE  \E g : LaysOut(g, s, m + 1)
<1> DEFINE g == [k \in 0 .. m + 1 |-> IF k = m + 1 THEN NextPlace(f[m], s[m + 1]) ELSE f[k]]
<1>1. NextPlace(f[m], s[m + 1]) \in Place
  BY NextIsPlace DEF LaysOut
<1>2. \A k \in 0 .. m : g[k] = f[k] /\ f[k] \in Place
  BY DEF LaysOut
<1>3. g[m + 1] = NextPlace(f[m], s[m + 1])
  OBVIOUS
<1>4. DOMAIN g = 0 .. m + 1 /\ g = [k \in 0 .. m + 1 |-> g[k]]
  OBVIOUS
<1> HIDE DEF g
<1>5. \A k \in 0 .. m + 1 : k \in 0 .. m \/ k = m + 1
  OBVIOUS
<1>6. g \in [0 .. m + 1 -> Place]
  BY <1>1, <1>2, <1>3, <1>4, <1>5
<1>7. g[0] = At(0, 0)
  BY <1>2 DEF LaysOut
<1>8. ASSUME NEW k \in 1 .. m + 1
      PROVE  g[k] = NextPlace(g[k - 1], s[k])
  <2>1. CASE k = m + 1
    BY <1>2, <1>3, <2>1
  <2>2. CASE k \in 1 .. m
    <3>1. f[k] = NextPlace(f[k - 1], s[k]) /\ k - 1 \in 0 .. m /\ k \in 0 .. m
      BY <2>2 DEF LaysOut
    <3> QED  BY <1>2, <3>1
  <2> QED  BY <2>1, <2>2
<1> QED  BY <1>6, <1>7, <1>8 DEF LaysOut

\* Every text has a layout.
LEMMA LayoutExists ==
  ASSUME NEW s, NEW n \in Nat
  PROVE  \E f : LaysOut(f, s, n)
<1> DEFINE Bad == {m \in Nat : ~ \E f : LaysOut(f, s, m)}
<1>1. CASE Bad # {}
  <2>1. PICK m \in Bad : \A j \in Bad : m <= j
    BY <1>1, HasLeast
  <2>2. m # 0
    <3> DEFINE f == [k \in 0 .. 0 |-> At(0, 0)]
    <3>1. 0 \in Cols
      BY TerminalAssumption DEF Cols
    <3>2. LaysOut(f, s, 0)
      BY <3>1 DEF LaysOut, Place, At
    <3> QED  BY <3>2
  <2>3. m - 1 \in Nat /\ m - 1 \notin Bad /\ (m - 1) + 1 = m
    BY <2>1, <2>2
  <2>4. \E f : LaysOut(f, s, (m - 1) + 1)
    BY <2>3, LayoutExtends
  <2> QED  BY <2>1, <2>3, <2>4
<1> QED  BY <1>1

\* PaperOf lays the whole text out.
LEMMA PaperLaysOut ==
  ASSUME NEW s \in Text
  PROVE  LaysOut(PaperOf(s), s, Len(s))
<1> DEFINE n == Len(s)
           Rule(f) == [k \in 0 .. n |->
             IF k = 0 THEN [line |-> 0, col |-> 0]
             ELSE IF s[k] = NewLine \/ f[k - 1].col = VGA_WIDTH - 1
                  THEN [line |-> f[k - 1].line + 1, col |-> 0]
                  ELSE [line |-> f[k - 1].line, col |-> f[k - 1].col + 1]]
           P == PaperOf(s)
<1>1. n \in Nat
  BY DEF Text
<1>2. PICK f : LaysOut(f, s, n)
  BY <1>1, LayoutExists
<1>3. f = Rule(f)
  <2>1. f = [k \in 0 .. n |-> f[k]]
    BY <1>2 DEF LaysOut
  <2>2. ASSUME NEW k \in 0 .. n PROVE f[k] = Rule(f)[k]
    <3>1. CASE k = 0
      BY <1>2, <3>1 DEF LaysOut, At
    <3>2. CASE k # 0
      <4>1. k \in 1 .. n
        BY <1>1, <3>2
      <4>2. f[k] = NextPlace(f[k - 1], s[k])
        BY <1>2, <4>1 DEF LaysOut
      <4> QED  BY <3>2, <4>2 DEF NextPlace, At
    <3> QED  BY <3>1, <3>2
  <2> QED  BY <2>1, <2>2
<1>4. P = Rule(P)
  <2>1. P = CHOOSE g : g = Rule(g)
    BY DEF PaperOf
  <2> HIDE DEF P, Rule
  <2> QED  BY <1>3, <2>1
<1>5. P[0] = At(0, 0) /\ P = [k \in 0 .. n |-> P[k]]
  <2> HIDE DEF P
  <2>1. P[0] = Rule(P)[0]
    BY <1>4
  <2>2. 0 \in 0 .. n
    BY <1>1
  <2>3. DOMAIN P = 0 .. n /\ P = [k \in DOMAIN P |-> P[k]]
    <3>1. DOMAIN Rule(P) = 0 .. n /\ Rule(P) = [k \in 0 .. n |-> Rule(P)[k]]
      OBVIOUS
    <3> HIDE DEF Rule
    <3> QED  BY <1>4, <3>1
  <2> QED  BY <2>1, <2>2, <2>3 DEF At
<1>6. ASSUME NEW k \in 1 .. n
      PROVE  P[k] = NextPlace(P[k - 1], s[k])
  <2> HIDE DEF P
  <2>1. k \in 0 .. n /\ k # 0
    BY <1>1
  <2>2. P[k] = Rule(P)[k]
    BY <1>4
  <2> QED  BY <2>1, <2>2 DEF NextPlace, At
<1>7. \A k \in 0 .. n : P[k] \in Place
  <2> DEFINE Bad == {k \in 0 .. n : P[k] \notin Place}
  <2> HIDE DEF P
  <2>1. CASE Bad # {}
    <3>0. Bad \in SUBSET Nat
      BY <1>1
    <3>1. PICK k \in Bad : \A j \in Bad : k <= j
      <4> HIDE DEF Bad
      <4> QED  BY <3>0, <2>1, HasLeast
    <3>2. 0 \in Cols
      BY TerminalAssumption DEF Cols
    <3>3. k # 0
      BY <1>5, <3>1, <3>2 DEF Place, At
    <3>4. k \in 1 .. n /\ k - 1 \in 0 .. n /\ k - 1 \notin Bad
      BY <1>1, <3>1, <3>3
    <3>5. P[k] = NextPlace(P[k - 1], s[k]) /\ P[k - 1] \in Place
      BY <1>6, <3>4
    <3> QED  BY <3>1, <3>5, NextIsPlace
  <2> QED  BY <2>1
<1> HIDE DEF P
<1>8. P \in [0 .. n -> Place]
  BY <1>5, <1>7
<1>9. LaysOut(P, s, n)
  BY <1>5, <1>6, <1>8 DEF LaysOut
<1> QED  BY <1>9 DEF P

\* The parts of a layout.
LEMMA PaperParts ==
  ASSUME NEW s \in Text
  PROVE  /\ Len(s) \in Nat
         /\ \A k \in 0 .. Len(s) : /\ PaperOf(s)[k] \in Place
                                   /\ PaperOf(s)[k].line \in Nat /\ PaperOf(s)[k].col \in Cols
         /\ PaperOf(s)[0] = At(0, 0)
         /\ \A k \in 1 .. Len(s) : PaperOf(s)[k] = NextPlace(PaperOf(s)[k - 1], s[k])
<1>1. LaysOut(PaperOf(s), s, Len(s))
  BY PaperLaysOut
<1>2. \A k \in 0 .. Len(s) : PaperOf(s)[k] \in Place
  BY <1>1 DEF LaysOut
<1> QED  BY <1>1, <1>2 DEF LaysOut, Place, Text

\* What is appended leaves the places before it.
LEMMA PaperAppend ==
  ASSUME NEW s \in Text, NEW ch \in Chars \cup {NewLine}
  PROVE  /\ Append(s, ch) \in Text /\ Len(Append(s, ch)) = Len(s) + 1
         /\ \A k \in 1 .. Len(s) : Append(s, ch)[k] = s[k]
         /\ Append(s, ch)[Len(s) + 1] = ch
         /\ \A k \in 0 .. Len(s) : PaperOf(Append(s, ch))[k] = PaperOf(s)[k]
<1> DEFINE t == Append(s, ch)
           f == PaperOf(s)
           g == PaperOf(t)
           Bad == {k \in 0 .. Len(s) : g[k] # f[k]}
<1>1. /\ t \in Text /\ Len(t) = Len(s) + 1
      /\ \A k \in 1 .. Len(s) : t[k] = s[k]
      /\ t[Len(s) + 1] = ch
  BY DEF Text
<1>2. Len(s) \in Nat /\ Bad \in SUBSET Nat
  BY DEF Text
<1> HIDE DEF t
<1>3. /\ f[0] = At(0, 0) /\ g[0] = At(0, 0)
      /\ \A k \in 1 .. Len(s) : f[k] = NextPlace(f[k - 1], s[k])
      /\ \A k \in 1 .. Len(s) + 1 : g[k] = NextPlace(g[k - 1], t[k])
  BY <1>1, PaperParts
<1>4. CASE Bad # {}
  <2>1. PICK k \in Bad : \A j \in Bad : k <= j
    <3> HIDE DEF Bad
    <3> QED  BY <1>2, <1>4, HasLeast
  <2> HIDE DEF f, g
  <2>2. k \in 1 .. Len(s)
    BY <1>2, <1>3, <2>1
  <2>3. k - 1 \in 0 .. Len(s) /\ k - 1 \notin Bad /\ k \in 1 .. Len(s) + 1
    BY <1>2, <2>1, <2>2
  <2>4. g[k - 1] = f[k - 1]
    BY <2>3
  <2> QED  BY <1>1, <1>3, <2>1, <2>2, <2>3, <2>4
<1>5. CASE Bad = {}
  <2>1. \A k \in 0 .. Len(s) : g[k] = f[k]
    <3> HIDE DEF f, g
    <3> QED  BY <1>5
  <2> QED  BY <1>1, <2>1 DEF t
<1> QED  BY <1>4, <1>5

\* Reading order.
IsBefore(p, q) == p.line < q.line \/ (p.line = q.line /\ p.col < q.col)

\* Reading order is an order.
LEMMA BeforeTransitive ==
  ASSUME NEW p \in Place, NEW q \in Place, NEW r \in Place,
         IsBefore(p, q), IsBefore(q, r)
  PROVE  IsBefore(p, r)
<1>1. p.line \in Nat /\ q.line \in Nat /\ r.line \in Nat
  BY DEF Place
<1>2. p.col \in Nat /\ q.col \in Nat /\ r.col \in Nat
  BY DEF Place, Cols
<1> QED  BY <1>1, <1>2 DEF IsBefore

\* A character's place is before all later ones.
LEMMA PaperAdvances ==
  ASSUME NEW s \in Text
  PROVE  \A k \in 0 .. Len(s) : \A j \in 0 .. Len(s) :
            j < k => IsBefore(PaperOf(s)[j], PaperOf(s)[k])
<1> DEFINE f == PaperOf(s)
           Good(k) == \A j \in 0 .. Len(s) : j < k => IsBefore(f[j], f[k])
           Bad == {k \in 0 .. Len(s) : ~ Good(k)}
<1>1. /\ Len(s) \in Nat
      /\ \A k \in 0 .. Len(s) : f[k] \in Place /\ f[k].line \in Nat /\ f[k].col \in Cols
      /\ \A k \in 1 .. Len(s) : f[k] = NextPlace(f[k - 1], s[k])
  BY PaperParts
<1> HIDE DEF f
<1>2. ASSUME NEW k \in 1 .. Len(s) PROVE IsBefore(f[k - 1], f[k])
  <2>1. f[k] = NextPlace(f[k - 1], s[k]) /\ k - 1 \in 0 .. Len(s)
    BY <1>1
  <2>2. f[k - 1].line \in Nat /\ f[k - 1].col \in Nat
    BY <1>1, <2>1 DEF Cols
  <2> QED  BY <2>1, <2>2 DEF NextPlace, At, IsBefore
<1>3. CASE Bad # {}
  <2>0. Bad \in SUBSET Nat
    BY <1>1
  <2>1. PICK k \in Bad : \A i \in Bad : k <= i
    <3> HIDE DEF Bad
    <3> QED  BY <2>0, <1>3, HasLeast
  <2>2. PICK j \in 0 .. Len(s) : j < k /\ ~ IsBefore(f[j], f[k])
    BY <2>1
  <2>3. k \in 1 .. Len(s) /\ k - 1 \in 0 .. Len(s) /\ k - 1 \notin Bad /\ k \in 0 .. Len(s)
    <3>1. k \in 0 .. Len(s) /\ k # 0
      BY <2>1, <2>2
    <3>2. k \in 1 .. Len(s) /\ k - 1 \in 0 .. Len(s) /\ ~ (k <= k - 1)
      BY <1>1, <3>1
    <3> HIDE DEF Bad
    <3>3. k - 1 \notin Bad
      BY <2>1, <3>2
    <3> QED  BY <3>1, <3>2, <3>3
  <2>4. IsBefore(f[k - 1], f[k])
    BY <1>2, <2>3
  <2>5. j # k - 1 /\ j < k - 1
    BY <1>1, <2>2, <2>3, <2>4
  <2>6. IsBefore(f[j], f[k - 1])
    BY <2>3, <2>5
  <2>7. f[j] \in Place /\ f[k - 1] \in Place /\ f[k] \in Place
    BY <1>1, <2>3
  <2> QED  BY <2>2, <2>4, <2>6, <2>7, BeforeTransitive
<1>4. CASE Bad = {}
  BY <1>4 DEF f
<1> QED  BY <1>3, <1>4

\* What is appended is not among the characters before it.
LEMMA GlyphsAppend ==
  ASSUME NEW s \in Text, NEW ch \in Chars \cup {NewLine}, NEW l, NEW k
  PROVE  Glyph(Append(s, ch), Len(s), l, k) = Glyph(s, Len(s), l, k)
<1> DEFINE t == Append(s, ch)
<1>1. /\ \A j \in 1 .. Len(s) : t[j] = s[j]
      /\ \A j \in 0 .. Len(s) : PaperOf(t)[j] = PaperOf(s)[j]
  BY PaperAppend
<1>2. Len(s) \in Nat
  BY DEF Text
<1> HIDE DEF t
<1>3. Here(t, Len(s), l, k) = Here(s, Len(s), l, k)
  <2>1. \A j \in 1 .. Len(s) : j - 1 \in 0 .. Len(s)
    BY <1>2
  <2> QED  BY <1>1, <2>1 DEF Here
<1>4. Glyph(t, Len(s), l, k) = Glyph(s, Len(s), l, k)
  <2>1. CASE Here(s, Len(s), l, k) = {}
    BY <1>3, <2>1 DEF Glyph
  <2>2. CASE Here(s, Len(s), l, k) # {}
    <3> DEFINE j == CHOOSE j \in Here(s, Len(s), l, k) : TRUE
    <3>1. j \in 1 .. Len(s)
      BY <2>2 DEF Here
    <3> QED  BY <1>1, <1>3, <2>2, <3>1 DEF Glyph
  <2> QED  BY <2>1, <2>2
<1> QED  BY <1>4 DEF t

\* The last character is seen at its place, and nowhere else.
LEMMA GlyphPut ==
  ASSUME NEW s \in Text, s # <<>>, s[Len(s)] # NewLine, NEW l, NEW k
  PROVE  LET p == PaperOf(s)[Len(s) - 1] IN
         Glyph(s, Len(s), l, k) = IF l = p.line /\ k = p.col THEN s[Len(s)]
                                  ELSE Glyph(s, Len(s) - 1, l, k)
<1> DEFINE n == Len(s)
           f == PaperOf(s)
           p == f[n - 1]
<1>1. /\ n \in Nat /\ n # 0 /\ n - 1 \in 0 .. n /\ n \in 1 .. n
      /\ \A j \in 1 .. n : j \in 1 .. n - 1 \/ j = n
      /\ \A j \in 1 .. n - 1 : j \in 1 .. n
  BY DEF Text
<1>2. /\ \A j \in 0 .. n : f[j] \in Place
      /\ \A i \in 0 .. n : \A j \in 0 .. n : j < i => IsBefore(f[j], f[i])
  BY PaperParts, PaperAdvances
<1> HIDE DEF f
<1>3. p \in Place /\ p = At(p.line, p.col)
  BY <1>1, <1>2 DEF Place, At
<1>4. CASE l = p.line /\ k = p.col
  <2>1. n \in Here(s, n, l, k)
    BY <1>1, <1>3, <1>4 DEF Here, f
  <2>2. ASSUME NEW j \in 1 .. n - 1 PROVE f[j - 1] # At(l, k)
    <3>1. j - 1 \in 0 .. n /\ j - 1 < n - 1
      BY <1>1
    <3>2. IsBefore(f[j - 1], p)
      BY <1>1, <1>2, <3>1
    <3>3. ~ IsBefore(p, p)
      BY <1>3 DEF IsBefore, Place, Cols
    <3> QED  BY <1>3, <1>4, <3>2, <3>3
  <2>3. Here(s, n, l, k) = {n}
    BY <1>1, <2>1, <2>2 DEF Here, f
  <2> QED  BY <1>4, <2>3 DEF Glyph, f
<1>5. CASE ~ (l = p.line /\ k = p.col)
  <2>1. p # At(l, k)
    BY <1>3, <1>5 DEF At
  <2>2. Here(s, n, l, k) = Here(s, n - 1, l, k)
    BY <1>1, <2>1 DEF Here, f
  <2>3. Glyph(s, n, l, k) = Glyph(s, n - 1, l, k)
    BY <2>2 DEF Glyph
  <2> QED  BY <1>5, <2>3 DEF f
<1> QED  BY <1>4, <1>5

\* A newline is not seen.
LEMMA GlyphNewLine ==
  ASSUME NEW s \in Text, s # <<>>, s[Len(s)] = NewLine, NEW l, NEW k
  PROVE  Glyph(s, Len(s), l, k) = Glyph(s, Len(s) - 1, l, k)
<1> DEFINE n == Len(s)
<1>1. /\ \A j \in 1 .. n : j \in 1 .. n - 1 \/ j = n
      /\ \A j \in 1 .. n - 1 : j \in 1 .. n
  BY DEF Text
<1>2. Here(s, n, l, k) = Here(s, n - 1, l, k)
  BY <1>1 DEF Here
<1> QED  BY <1>2 DEF Glyph

\* The line after the last character is blank when it has just begun.
LEMMA GlyphBelow ==
  ASSUME NEW s \in Text, s # <<>>, NEW k,
         NEW l \in Nat, PaperOf(s)[Len(s) - 1].line < l
  PROVE  Glyph(s, Len(s), l, k) = Blank
<1> DEFINE n == Len(s)
           f == PaperOf(s)
<1>1. n \in Nat /\ n # 0 /\ n - 1 \in 0 .. n
  BY DEF Text
<1>2. /\ \A j \in 0 .. n : f[j] \in Place
      /\ \A i \in 0 .. n : \A j \in 0 .. n : j < i => IsBefore(f[j], f[i])
  BY PaperParts, PaperAdvances
<1> HIDE DEF f
<1>3. ASSUME NEW j \in 1 .. n PROVE f[j - 1] # At(l, k)
  <2>1. j - 1 \in 0 .. n /\ (j - 1 < n - 1 \/ j - 1 = n - 1)
    BY <1>1
  <2>2. f[j - 1] \in Place /\ f[n - 1] \in Place
    BY <1>1, <1>2, <2>1
  <2>3. f[j - 1] = f[n - 1] \/ IsBefore(f[j - 1], f[n - 1])
    BY <1>1, <1>2, <2>1
  <2>4. f[j - 1].line \in Nat /\ f[n - 1].line \in Nat /\ f[n - 1].line < l
    BY <2>2 DEF Place, f
  <2>5. f[j - 1].line < l
    BY <2>3, <2>4 DEF IsBefore
  <2> QED  BY <2>4, <2>5 DEF At
<1>4. Here(s, n, l, k) = {}
  BY <1>3 DEF Here, f
<1> QED  BY <1>4 DEF Glyph

(***************************************************************************)
(* The invariant: the cursor and the screen while a character is printed.  *)
(***************************************************************************)

\* The text was printed from a clear screen on, and nothing else was.
Tracked == ~ moused /\ boot \in {"after", "crashed"}

Initialising == pc \in {"init_col", "init_map", "init_clear"}

\* Before and after the character that is being printed.
Old == PaperOf(printed)[Len(printed) - 1]
New == PaperOf(printed)[Len(printed)]
OldTop == TopAt(printed, Len(printed) - 1)
NewTop == TopAt(printed, Len(printed))

\* A row of the screen shows the line l of m characters.
RowShows(row, s, m, l) == \A k \in Cols : row[k] = Glyph(s, m, l, k)

Fresh == Initialising =>
           /\ printed = <<>> /\ terminal_row = 0
           /\ pc # "init_col" => terminal_column = 0
           /\ pc = "init_clear" => \A r \in Rows : r < y => screen[r] = [k \in Cols |-> Blank]

Printing == pc # "ready" /\ ~ Initialising => printed # <<>> /\ c = printed[Len(printed)]

\* The cursor is where the old character or the new one goes, and a line ends at a
\* newline or at the edge.
CursorAt ==
  /\ pc = "ready" => terminal_row = New.line - NewTop /\ terminal_column = New.col
  /\ pc \in {"put_y", "put_x", "put_cell", "col_load", "col_store"} => terminal_column = Old.col
  /\ pc = "col_test" => terminal_column = Old.col + 1
  /\ pc \in {"row_test", "row_clamp", "scroll"} \/ (pc \in {"row_load", "row_store"} /\ c # NewLine)
       => terminal_column = 0
  /\ pc \in {"put_y", "put_x", "put_cell", "col_load", "col_store", "col_test",
             "row_load", "row_store"} \/ (pc = "col_reset" /\ c # NewLine)
       => terminal_row = Old.line - OldTop
  /\ pc = "row_test" \/ (pc = "col_reset" /\ c = NewLine)
       => terminal_row = Old.line - OldTop + 1
  /\ pc \in {"row_clamp", "scroll"} => Old.line - OldTop + 1 = VGA_HEIGHT
  /\ pc = "scroll" => terminal_row = VGA_HEIGHT - 1
  /\ pc \in {"col_reset", "row_load", "row_store", "row_test", "row_clamp", "scroll"}
       => c = NewLine \/ Old.col = VGA_WIDTH - 1

\* What has been loaded from it.
Loaded == /\ pc \in {"put_x", "put_cell"} => y = terminal_row
          /\ pc = "put_cell" => x = terminal_column
          /\ pc = "col_store" => tmp = terminal_column
          /\ pc = "row_store" => tmp = terminal_row

\* What the rows of the screen show, which in the scroll are up to y the new ones.
Image ==
  /\ pc \notin {"init_col", "init_map"} => mapped = TRUE
  /\ pc = "ready" => \A r \in Rows : RowShows(screen[r], printed, Len(printed), NewTop + r)
  /\ pc \in {"put_y", "put_x", "put_cell"} =>
       \A r \in Rows : RowShows(screen[r], printed, Len(printed) - 1, OldTop + r)
  /\ pc \in {"col_load", "col_store", "col_test", "col_reset", "row_load", "row_store",
             "row_test", "row_clamp"} =>
       \A r \in Rows : RowShows(screen[r], printed, Len(printed), OldTop + r)
  /\ pc = "scroll" =>
       \A r \in Rows : RowShows(screen[r], printed, Len(printed),
                               IF r < y THEN OldTop + r + 1 ELSE OldTop + r)

TailInv == Tracked => Fresh /\ Printing /\ CursorAt /\ Loaded /\ Image
\* Where the places of the last character are.
LEMMA PlacesTypes ==
  ASSUME printed \in Text
  PROVE  /\ Len(printed) \in Nat /\ VGA_WIDTH \in Nat \ {0} /\ VGA_HEIGHT \in Nat \ {0}
         /\ New.line \in Nat /\ New.col \in 0 .. VGA_WIDTH - 1 /\ NewTop \in Nat
         /\ printed # <<>> => /\ Old.line \in Nat /\ Old.col \in 0 .. VGA_WIDTH - 1
                              /\ OldTop \in Nat
                              /\ Old.line - OldTop \in 0 .. VGA_HEIGHT - 1
<1>1. /\ Len(printed) \in Nat
      /\ \A k \in 0 .. Len(printed) : /\ PaperOf(printed)[k].line \in Nat
                                      /\ PaperOf(printed)[k].col \in Cols
  BY PaperParts
<1>2. VGA_WIDTH \in Nat \ {0} /\ VGA_HEIGHT \in Nat \ {0}
  BY TerminalAssumption
<1>3. New.line \in Nat /\ New.col \in 0 .. VGA_WIDTH - 1
  BY <1>1 DEF New, Cols
<1>4. NewTop = IF New.line < VGA_HEIGHT THEN 0 ELSE New.line - (VGA_HEIGHT - 1)
  BY DEF NewTop, TopAt, New
<1>5. NewTop \in Nat
  BY <1>2, <1>3, <1>4
<1>6. ASSUME printed # <<>>
      PROVE  /\ Old.line \in Nat /\ Old.col \in 0 .. VGA_WIDTH - 1
             /\ OldTop \in Nat
             /\ Old.line - OldTop \in 0 .. VGA_HEIGHT - 1
  <2>1. Len(printed) - 1 \in 0 .. Len(printed)
    BY <1>1, <1>6 DEF Text
  <2>2. Old.line \in Nat /\ Old.col \in 0 .. VGA_WIDTH - 1
    BY <1>1, <2>1 DEF Old, Cols
  <2>3. OldTop = IF Old.line < VGA_HEIGHT THEN 0 ELSE Old.line - (VGA_HEIGHT - 1)
    BY DEF OldTop, TopAt, Old
  <2> QED  BY <1>2, <2>2, <2>3
<1> QED  BY <1>1, <1>2, <1>3, <1>5, <1>6

\* The new place, by what the last character is and where it went.
LEMMA NewPlace ==
  ASSUME printed \in Text, printed # <<>>
  PROVE  LET ends == printed[Len(printed)] = NewLine \/ Old.col = VGA_WIDTH - 1 IN
         /\ ends => New.line = Old.line + 1 /\ New.col = 0
         /\ ~ ends => /\ New.line = Old.line /\ New.col = Old.col + 1
                      /\ NewTop = OldTop
         /\ ends /\ Old.line - OldTop + 1 < VGA_HEIGHT => NewTop = OldTop
         /\ ends /\ Old.line - OldTop + 1 = VGA_HEIGHT => NewTop = OldTop + 1
<1>1. Len(printed) \in 1 .. Len(printed)
  BY DEF Text
<1>2. New = NextPlace(Old, printed[Len(printed)])
  BY <1>1, PaperParts DEF New, Old
<1>3. NewTop = IF New.line < VGA_HEIGHT THEN 0 ELSE New.line - (VGA_HEIGHT - 1)
  BY DEF NewTop, TopAt, New
<1>4. OldTop = IF Old.line < VGA_HEIGHT THEN 0 ELSE Old.line - (VGA_HEIGHT - 1)
  BY DEF OldTop, TopAt, Old
<1>5. Old.line \in Nat /\ VGA_HEIGHT \in Nat \ {0}
  BY PlacesTypes
<1>6. CASE printed[Len(printed)] = NewLine \/ Old.col = VGA_WIDTH - 1
  <2>1. New.line = Old.line + 1 /\ New.col = 0
    BY <1>2, <1>6 DEF NextPlace, At
  <2> QED  BY <1>3, <1>4, <1>5, <1>6, <2>1
<1>7. CASE ~ (printed[Len(printed)] = NewLine \/ Old.col = VGA_WIDTH - 1)
  <2>1. New.line = Old.line /\ New.col = Old.col + 1
    BY <1>2, <1>7 DEF NextPlace, At
  <2> QED  BY <1>3, <1>4, <1>5, <1>7, <2>1
<1> QED  BY <1>6, <1>7

\* A screen that shows nothing, with the cursor in its corner, is that of the empty text.
Corner ==
  /\ Len(printed) = 0 /\ New.line = 0 /\ New.col = 0 /\ NewTop = 0
  /\ \A row, l : (\A k \in Cols : row[k] = Blank) => RowShows(row, printed, 0, l)

\* It is so when nothing has been printed.
LEMMA NothingPrinted == printed = <<>> => Corner
<1> SUFFICES ASSUME printed = <<>> PROVE Corner
  OBVIOUS
<1>1. printed \in Text /\ Len(printed) = 0
  BY DEF Text
<1>2. New = At(0, 0)
  BY <1>1, PaperParts DEF New
<1>3. New.line = 0 /\ New.col = 0
  BY <1>2 DEF At
<1>4. VGA_HEIGHT \in Nat \ {0}
  BY TerminalAssumption
<1>5. NewTop = 0
  BY <1>3, <1>4 DEF NewTop, TopAt, New
<1>6. \A l, k : Here(printed, 0, l, k) = {}
  BY DEF Here
<1> QED  BY <1>1, <1>3, <1>5, <1>6 DEF Corner, RowShows, Glyph

\* kmain's accesses to the cursor leave the screen and the text alone.
QuietStep == \/ LoadY \/ LoadX \/ ColumnLoad \/ ColumnStore \/ ColumnTest \/ ColumnReset
             \/ RowLoad \/ RowStore \/ RowTest \/ RowClamp

\* The accesses to the cursor move it from the old place to the new one.
LEMMA TailQuiet ==
  ASSUME TypeOK, CursorInBounds, TailInv, Tracked, QuietStep
  PROVE  TailInv'
<1> Fresh /\ Printing /\ CursorAt /\ Loaded /\ Image
  BY DEF TailInv
<1>1. UNCHANGED <<boot, mapped, screen, c, printed, moused>> /\ ~ Initialising /\ pc # "ready"
  BY DEF QuietStep, LoadY, LoadX, ColumnLoad, ColumnStore, ColumnTest, ColumnReset, RowLoad,
         RowStore, RowTest, RowClamp, locals, history, Initialising
<1>2. Old' = Old /\ New' = New /\ OldTop' = OldTop /\ NewTop' = NewTop
  BY <1>1 DEF Old, New, OldTop, NewTop
<1>3. printed \in Text /\ printed # <<>> /\ c = printed[Len(printed)]
  BY <1>1 DEF TypeOK, Text, Printing
<1>4. /\ terminal_row \in Nat /\ terminal_column \in Nat /\ y \in Nat
      /\ VGA_WIDTH \in Nat \ {0} /\ VGA_HEIGHT \in Nat \ {0}
  BY TerminalAssumption DEF TypeOK, Rows
<1>5. /\ Old.line \in Nat /\ Old.col \in 0 .. VGA_WIDTH - 1 /\ OldTop \in Nat
      /\ Old.line - OldTop \in 0 .. VGA_HEIGHT - 1
  BY <1>3, PlacesTypes
<1>6. LET ends == c = NewLine \/ Old.col = VGA_WIDTH - 1 IN
      /\ ends => New.line = Old.line + 1 /\ New.col = 0
      /\ ~ ends => /\ New.line = Old.line /\ New.col = Old.col + 1
                   /\ NewTop = OldTop
      /\ ends /\ Old.line - OldTop + 1 < VGA_HEIGHT => NewTop = OldTop
      /\ ends /\ Old.line - OldTop + 1 = VGA_HEIGHT => NewTop = OldTop + 1
  BY <1>3, NewPlace
<1>7. Fresh' /\ Printing'
  <2>1. ~ Initialising'
    BY DEF QuietStep, LoadY, LoadX, ColumnLoad, ColumnStore, ColumnTest, ColumnReset,
           RowLoad, RowStore, RowTest, RowClamp, Initialising
  <2> QED  BY <1>1, <1>3, <2>1 DEF Fresh, Printing
<1>8. CursorAt' /\ Loaded' /\ Image'
  <2>1. CASE LoadY
    BY <1>1, <1>2, <1>4, <2>1 DEF LoadY, CursorAt, Loaded, Image, cursor
  <2>2. CASE LoadX
    BY <1>1, <1>2, <1>4, <2>2 DEF LoadX, CursorAt, Loaded, Image, cursor
  <2>3. CASE ColumnLoad
    BY <1>1, <1>2, <1>4, <2>3 DEF ColumnLoad, CursorAt, Loaded, Image, cursor
  <2>4. CASE ColumnStore
    BY <1>1, <1>2, <1>4, <2>4 DEF ColumnStore, CursorAt, Loaded, Image, locals
  <2>5. CASE ColumnTest
    <3>1. c # NewLine
      BY <2>5 DEF ColumnTest, CursorInBounds
    <3>2. /\ pc = "col_test" /\ UNCHANGED <<terminal_row, terminal_column>>
          /\ pc' = IF terminal_column = VGA_WIDTH THEN "col_reset" ELSE "ready"
      BY <2>5 DEF ColumnTest, cursor
    <3>3. terminal_column = Old.col + 1 /\ terminal_row = Old.line - OldTop
      BY <3>2 DEF CursorAt
    <3>4. CASE terminal_column = VGA_WIDTH
      <4>1. Old.col = VGA_WIDTH - 1
        BY <1>4, <1>5, <3>3, <3>4
      <4>2. CursorAt' /\ Loaded'
        BY <1>1, <1>2, <3>1, <3>2, <3>3, <3>4, <4>1 DEF CursorAt, Loaded
      <4>3. Image'
        BY <1>1, <1>2, <3>2, <3>4 DEF Image
      <4> QED  BY <4>2, <4>3
    <3>5. CASE terminal_column # VGA_WIDTH
      <4>1. New.line = Old.line /\ New.col = Old.col + 1 /\ NewTop = OldTop
        BY <1>4, <1>5, <1>6, <3>1, <3>3, <3>5
      <4>2. CursorAt' /\ Loaded'
        BY <1>2, <3>2, <3>3, <3>5, <4>1 DEF CursorAt, Loaded
      <4>3. Image'
        BY <1>1, <1>2, <3>2, <3>5, <4>1 DEF Image
      <4> QED  BY <4>2, <4>3
    <3> QED  BY <3>4, <3>5
  <2>6. CASE ColumnReset
    BY <1>1, <1>2, <1>4, <2>6 DEF ColumnReset, CursorAt, Loaded, Image, locals
  <2>7. CASE RowLoad
    BY <1>1, <1>2, <1>4, <2>7 DEF RowLoad, CursorAt, Loaded, Image, cursor
  <2>8. CASE RowStore
    BY <1>1, <1>2, <1>4, <2>8 DEF RowStore, CursorAt, Loaded, Image, locals
  <2>9. CASE RowTest
    <3>1. /\ pc = "row_test" /\ UNCHANGED <<terminal_row, terminal_column>>
          /\ pc' = IF terminal_row >= VGA_HEIGHT THEN "row_clamp" ELSE "ready"
      BY <2>9 DEF RowTest, cursor
    <3>2. /\ terminal_column = 0 /\ terminal_row = Old.line - OldTop + 1
          /\ c = NewLine \/ Old.col = VGA_WIDTH - 1
      BY <3>1 DEF CursorAt
    <3>3. CASE terminal_row >= VGA_HEIGHT
      <4>1. Old.line - OldTop + 1 = VGA_HEIGHT
        BY <1>4, <1>5, <3>2, <3>3
      <4>2. CursorAt' /\ Loaded'
        BY <1>1, <1>2, <3>1, <3>2, <3>3, <4>1 DEF CursorAt, Loaded
      <4>3. Image'
        BY <1>1, <1>2, <3>1, <3>3 DEF Image
      <4> QED  BY <4>2, <4>3
    <3>4. CASE ~ (terminal_row >= VGA_HEIGHT)
      <4>1. New.line = Old.line + 1 /\ New.col = 0 /\ NewTop = OldTop
        BY <1>4, <1>5, <1>6, <3>2, <3>4
      <4>2. terminal_row = New.line - NewTop
        BY <1>5, <3>2, <4>1
      <4>3. CursorAt' /\ Loaded'
        BY <1>2, <3>1, <3>2, <3>4, <4>1, <4>2 DEF CursorAt, Loaded
      <4>4. Image'
        BY <1>1, <1>2, <3>1, <3>4, <4>1 DEF Image
      <4> QED  BY <4>3, <4>4
    <3> QED  BY <3>3, <3>4
  <2>10. CASE RowClamp
    BY <1>1, <1>2, <1>4, <1>5, <2>10 DEF RowClamp, CursorAt, Loaded, Image, Rows
  <2> QED  BY <2>1, <2>2, <2>3, <2>4, <2>5, <2>6, <2>7, <2>8, <2>9, <2>10 DEF QuietStep
<1> QED  BY <1>7, <1>8 DEF TailInv


\* The types of what TailInv is about.
LEMMA TailTypes ==
  ASSUME TypeOK
  PROVE  /\ printed \in Text /\ Len(printed) \in Nat /\ (printed # <<>> <=> Len(printed) # 0)
         /\ terminal_row \in Nat /\ terminal_column \in Nat
         /\ VGA_WIDTH \in Nat \ {0} /\ VGA_HEIGHT \in Nat \ {0}
         /\ y \in Rows /\ x \in Cols /\ y \in Nat
         /\ DOMAIN screen = Rows /\ screen = [r \in Rows |-> screen[r]]
         /\ \A r \in Rows : r \in Nat /\ r <= VGA_HEIGHT - 1
<1>1. VGA_WIDTH \in Nat \ {0} /\ VGA_HEIGHT \in Nat \ {0}
  BY TerminalAssumption
<1>2. /\ terminal_row \in Nat /\ terminal_column \in Nat
      /\ y \in Rows /\ x \in Cols /\ y \in Nat
  BY <1>1 DEF TypeOK, Rows
<1>3. DOMAIN screen = Rows /\ screen = [r \in Rows |-> screen[r]]
  BY DEF TypeOK
<1>4. printed \in Text /\ Len(printed) \in Nat /\ (printed # <<>> <=> Len(printed) # 0)
  BY DEF TypeOK, Text
<1>5. \A r \in Rows : r \in Nat /\ r <= VGA_HEIGHT - 1
  BY <1>1 DEF Rows
<1> QED  BY <1>1, <1>2, <1>3, <1>4, <1>5

\* A screen is cleared by an exception, which then prints.
LEMMA TailCrash ==
  ASSUME bsod_initialize
  PROVE  TailInv'
<1>1. /\ pc' = "ready" /\ printed' = <<>> /\ terminal_row' = 0 /\ terminal_column' = 0
      /\ mapped' = TRUE /\ screen' = Clear
  BY DEF bsod_initialize
<1>2. /\ Len(printed)' = 0 /\ New'.line = 0 /\ New'.col = 0 /\ NewTop' = 0
      /\ \A row, l : (\A k \in Cols : row[k] = Blank) => RowShows(row, printed', 0, l)
  <2>1. (printed = <<>>)' => Corner'
    BY NothingPrinted, PTL
  <2>2. Corner'
    BY <1>1, <2>1
  <2> QED  BY <2>2 DEF Corner
<1>3. \A r \in Rows : \A k \in Cols : screen'[r][k] = Blank
  BY <1>1 DEF Clear
<1>4. ~ Initialising'
  BY <1>1 DEF Initialising
<1>5. Fresh' /\ Printing'
  BY <1>1, <1>4 DEF Fresh, Printing
<1>6. CursorAt' /\ Loaded'
  BY <1>1, <1>2 DEF CursorAt, Loaded
<1>7. Image'
  BY <1>1, <1>2, <1>3 DEF Image
<1> QED  BY <1>5, <1>6, <1>7 DEF TailInv

\* terminal_initialize clears the screen and sets the cursor to its corner.
LEMMA TailClear ==
  ASSUME TypeOK, TailInv, Tracked',
         terminal_initialize \/ InitColumn \/ InitBuffer \/ InitClear
  PROVE  TailInv'
<1>0. /\ VGA_HEIGHT \in Nat \ {0} /\ y \in Nat /\ y \in Rows
      /\ DOMAIN screen = Rows
      /\ \A r \in Rows : r \in Nat /\ r <= VGA_HEIGHT - 1
  BY TailTypes
<1>1. CASE terminal_initialize
  <2>1. pc' = "init_col" /\ terminal_row' = 0 /\ printed' = <<>>
    BY <1>1 DEF terminal_initialize
  <2>2. Fresh'
    BY <2>1 DEF Fresh
  <2>3. Printing' /\ CursorAt' /\ Loaded' /\ Image'
    BY <2>1 DEF Printing, Initialising, CursorAt, Loaded, Image
  <2> QED  BY <2>2, <2>3 DEF TailInv
<1>2. CASE InitColumn \/ InitBuffer \/ InitClear
  <2>1. Tracked /\ Initialising
    BY <1>2 DEF Tracked, Initialising, InitColumn, InitBuffer, InitClear, history
  <2> Fresh /\ Image
    BY <2>1 DEF TailInv
  <2>2. printed = <<>> /\ terminal_row = 0
    BY <2>1 DEF Fresh
  <2>3. UNCHANGED <<printed, terminal_row>>
    BY <1>2 DEF InitColumn, InitBuffer, InitClear, cursor, history
  <2>4. CASE InitColumn
    <3>1. pc' = "init_map" /\ terminal_column' = 0
      BY <2>4 DEF InitColumn
    <3>2. Fresh'
      BY <2>2, <2>3, <3>1 DEF Fresh
    <3>3. Printing' /\ CursorAt' /\ Loaded' /\ Image'
      BY <3>1 DEF Printing, Initialising, CursorAt, Loaded, Image
    <3> QED  BY <3>2, <3>3 DEF TailInv
  <2>5. CASE InitBuffer
    <3>1. /\ pc = "init_map" /\ pc' = "init_clear" /\ terminal_column' = terminal_column
          /\ mapped' = TRUE /\ y' = 0
      BY <2>5 DEF InitBuffer, cursor
    <3>2. terminal_column = 0
      BY <2>1, <3>1 DEF Fresh
    <3>3. Fresh'
      <4>1. \A r \in Rows : ~ (r < y')
        BY <1>0, <3>1
      <4> QED  BY <2>2, <2>3, <3>1, <3>2, <4>1 DEF Fresh
    <3>4. Printing' /\ CursorAt' /\ Loaded' /\ Image'
      BY <3>1 DEF Printing, Initialising, CursorAt, Loaded, Image
    <3> QED  BY <3>3, <3>4 DEF TailInv
  <2>6. CASE InitClear
    <3> DEFINE blank == [k \in Cols |-> Blank]
    <3>1. /\ pc = "init_clear" /\ UNCHANGED <<terminal_column, mapped>>
          /\ screen' = [screen EXCEPT ![y] = blank]
          /\ \/ y < VGA_HEIGHT - 1 /\ y' = y + 1 /\ pc' = pc
             \/ ~ (y < VGA_HEIGHT - 1) /\ pc' = "ready"
      BY <2>6 DEF InitClear, cursor
    <3>2. terminal_column = 0 /\ mapped = TRUE /\ \A r \in Rows : r < y => screen[r] = blank
      BY <2>1, <3>1 DEF Fresh, Image
    <3> HIDE DEF blank
    <3>3. \A r \in Rows : screen'[r] = IF r = y THEN blank ELSE screen[r]
      BY <1>0, <3>1
    <3>4. CASE y < VGA_HEIGHT - 1 /\ y' = y + 1 /\ pc' = pc
      <4>1. \A r \in Rows : r < y' => screen'[r] = blank
        <5>1. \A r \in Rows : r < y => screen[r] = blank
          BY <3>2
        <5>2. \A r \in Rows : r < y' => r < y \/ r = y
          BY <1>0, <3>4
        <5> QED  BY <3>3, <5>1, <5>2
      <4>2. Fresh'
        BY <2>2, <2>3, <3>1, <3>2, <3>4, <4>1 DEF Fresh, blank
      <4>3. Printing' /\ CursorAt' /\ Loaded' /\ Image'
        BY <3>1, <3>2, <3>4 DEF Printing, Initialising, CursorAt, Loaded, Image
      <4> QED  BY <4>2, <4>3 DEF TailInv
    <3>5. CASE ~ (y < VGA_HEIGHT - 1) /\ pc' = "ready"
      <4>1. \A r \in Rows : screen'[r] = blank
        BY <1>0, <3>2, <3>3, <3>5
      <4>2. \A r \in Rows : \A k \in Cols : screen'[r][k] = Blank
        BY <4>1 DEF blank
      <4>3. /\ Len(printed) = 0 /\ New.line = 0 /\ New.col = 0 /\ NewTop = 0
            /\ \A row, l : (\A k \in Cols : row[k] = Blank) => RowShows(row, printed, 0, l)
        BY <2>2, NothingPrinted DEF Corner
      <4>4. New' = New /\ NewTop' = NewTop
        BY <2>3 DEF New, NewTop
      <4>5. Fresh' /\ Printing'
        BY <3>5 DEF Fresh, Printing, Initialising
      <4>6. CursorAt' /\ Loaded'
        BY <2>2, <2>3, <3>1, <3>2, <3>5, <4>3, <4>4 DEF CursorAt, Loaded
      <4>7. Image'
        BY <2>3, <3>1, <3>2, <3>5, <4>2, <4>3, <4>4 DEF Image
      <4> QED  BY <4>5, <4>6, <4>7 DEF TailInv
    <3> QED  BY <3>1, <3>4, <3>5
  <2> QED  BY <1>2, <2>4, <2>5, <2>6
<1> QED  BY <1>1, <1>2

\* A character is begun: the new place becomes the old one.
LEMMA TailPutchar ==
  ASSUME TypeOK, TailInv, Tracked, NEW ch \in Chars \cup {NewLine}, Putchar(ch)
  PROVE  TailInv'
<1> CursorAt /\ Image
  BY DEF TailInv
<1> DEFINE s == printed
           n == Len(printed)
           t == Append(printed, ch)
<1>1. /\ pc = "ready" /\ UNCHANGED <<cursor, mapped, screen>> /\ c' = ch /\ printed' = t
      /\ pc' = IF ch = NewLine THEN "row_load" ELSE "put_y"
  BY DEF Putchar, Tracked
<1>2. s \in Text /\ n \in Nat
  BY TailTypes
<1>3. /\ t \in Text /\ Len(t) = n + 1 /\ t[n + 1] = ch
      /\ \A k \in 0 .. n : PaperOf(t)[k] = PaperOf(s)[k]
  BY <1>2, PaperAppend
<1>4. t # <<>> /\ Len(t) - 1 = n /\ t[Len(t)] = ch
  BY <1>2, <1>3
<1>5. Old' = New /\ OldTop' = NewTop
  <2>1. PaperOf(t)[n] = PaperOf(s)[n]
    BY <1>2, <1>3
  <2>2. Old' = PaperOf(t)[Len(t) - 1] /\ OldTop' = TopAt(t, Len(t) - 1)
    BY <1>1 DEF Old, OldTop
  <2> QED  BY <1>4, <2>1, <2>2 DEF New, NewTop, TopAt
<1>6. \A l, k : Glyph(t, n, l, k) = Glyph(s, n, l, k)
  BY <1>2, GlyphsAppend
<1>7. \A r \in Rows : RowShows(screen[r], t, n, NewTop + r)
  BY <1>1, <1>6 DEF Image, RowShows
<1>8. ch = NewLine => \A r \in Rows : RowShows(screen[r], t, Len(t), NewTop + r)
  <2> SUFFICES ASSUME ch = NewLine
               PROVE  \A r \in Rows : RowShows(screen[r], t, Len(t), NewTop + r)
    OBVIOUS
  <2> HIDE DEF t
  <2>1. \A l, k : Glyph(t, Len(t), l, k) = Glyph(t, Len(t) - 1, l, k)
    BY <1>3, <1>4, GlyphNewLine
  <2> QED  BY <1>4, <1>7, <2>1 DEF RowShows
<1> HIDE DEF t, n, s
<1>9. Fresh' /\ Printing'
  BY <1>1, <1>4 DEF Fresh, Printing, Initialising
<1>10. terminal_row' = New.line - NewTop /\ terminal_column' = New.col
  BY <1>1 DEF CursorAt, cursor
<1>11. CursorAt' /\ Loaded'
  BY <1>1, <1>5, <1>10 DEF CursorAt, Loaded
<1>12. mapped' = TRUE
  BY <1>1 DEF Image
<1>13. Image'
  BY <1>1, <1>4, <1>5, <1>7, <1>8, <1>12 DEF Image
<1> QED  BY <1>9, <1>11, <1>13 DEF TailInv

\* It is drawn where the cursor is.
LEMMA TailDraw ==
  ASSUME TypeOK, CursorInBounds, TailInv, Tracked, terminal_putentryat
  PROVE  TailInv'
<1> Printing /\ CursorAt /\ Loaded /\ Image
  BY DEF TailInv
<1>1. /\ pc = "put_cell" /\ pc' = "col_load" /\ UNCHANGED <<cursor, mapped, c, printed>>
      /\ screen' = IF mapped THEN [screen EXCEPT ![y][x] = c] ELSE screen
  BY DEF terminal_putentryat, locals, history
<1>2. mapped = TRUE /\ \A r \in Rows : RowShows(screen[r], printed, Len(printed) - 1, OldTop + r)
  BY <1>1 DEF Image
<1>3. printed # <<>> /\ c = printed[Len(printed)] /\ c # NewLine
  BY <1>1 DEF Printing, Initialising, CursorInBounds
<1>4. /\ terminal_column = Old.col /\ terminal_row = Old.line - OldTop
      /\ y = terminal_row /\ x = terminal_column
  BY <1>1 DEF CursorAt, Loaded
<1>5. printed \in Text /\ y \in Rows /\ x \in Cols /\ y \in Nat
      /\ \A r \in Rows : r \in Nat
  BY TailTypes
<1>6. Old.line \in Nat /\ OldTop \in Nat
  BY <1>3, <1>5, PlacesTypes
<1>7. \A l, k : Glyph(printed, Len(printed), l, k) =
        IF l = Old.line /\ k = Old.col THEN c ELSE Glyph(printed, Len(printed) - 1, l, k)
  BY <1>3, <1>5, GlyphPut DEF Old
<1>8. \A r \in Rows : \A k \in Cols :
        screen'[r][k] = IF r = y /\ k = x THEN c ELSE screen[r][k]
  <2>1. screen \in [Rows -> [Cols -> Chars \cup {Blank, "m", "X"}]]
    BY DEF TypeOK
  <2> QED  BY <1>1, <1>2, <1>5, <2>1
<1>9. ASSUME NEW r \in Rows
      PROVE  RowShows(screen'[r], printed, Len(printed), OldTop + r)
  <2>1. OldTop + r = Old.line <=> r = y
    BY <1>4, <1>5, <1>6
  <2>2. \A k \in Cols : screen[r][k] = Glyph(printed, Len(printed) - 1, OldTop + r, k)
    BY <1>2 DEF RowShows
  <2>3. \A k \in Cols : screen'[r][k] = Glyph(printed, Len(printed), OldTop + r, k)
    BY <1>4, <1>7, <1>8, <2>1, <2>2
  <2> QED  BY <2>3 DEF RowShows
<1>10. Old' = Old /\ OldTop' = OldTop
  BY <1>1 DEF Old, OldTop
<1>11. Fresh' /\ Printing'
  BY <1>1, <1>3 DEF Fresh, Printing, Initialising
<1>12. CursorAt' /\ Loaded'
  BY <1>1, <1>4, <1>10 DEF CursorAt, Loaded, cursor
<1>13. Image'
  BY <1>1, <1>2, <1>9, <1>10 DEF Image
<1> QED  BY <1>11, <1>12, <1>13 DEF TailInv

\* The scroll moves the screen down the paper by a line, a row at a time.
LEMMA TailScroll ==
  ASSUME TypeOK, TailInv, Tracked, ScrollRow
  PROVE  TailInv'
<1> Printing /\ CursorAt /\ Image
  BY DEF TailInv
<1> DEFINE blank == [k \in Cols |-> Blank]
           n == Len(printed)
<1>1. /\ pc = "scroll" /\ UNCHANGED <<terminal_row, terminal_column, mapped, c, printed>>
      /\ mapped =>
           \/ /\ y < VGA_HEIGHT - 1 /\ y' = y + 1 /\ pc' = "scroll"
              /\ screen' = [screen EXCEPT ![y] = screen[y + 1]]
           \/ /\ ~ (y < VGA_HEIGHT - 1) /\ pc' = "ready"
              /\ screen' = [screen EXCEPT ![y] = blank]
  BY DEF ScrollRow, cursor, history
<1>2. /\ mapped = TRUE
      /\ \A r \in Rows : RowShows(screen[r], printed, n,
                                  IF r < y THEN OldTop + r + 1 ELSE OldTop + r)
  BY <1>1 DEF Image
<1>3. printed # <<>> /\ c = printed[n]
  BY <1>1 DEF Printing, Initialising
<1>4. /\ terminal_column = 0 /\ terminal_row = VGA_HEIGHT - 1
      /\ Old.line - OldTop + 1 = VGA_HEIGHT
      /\ c = NewLine \/ Old.col = VGA_WIDTH - 1
  BY <1>1 DEF CursorAt
<1>5. /\ printed \in Text /\ y \in Rows /\ y \in Nat /\ VGA_HEIGHT \in Nat \ {0}
      /\ DOMAIN screen = Rows
      /\ \A r \in Rows : r \in Nat /\ r <= VGA_HEIGHT - 1
  BY TailTypes
<1>6. Old.line \in Nat /\ OldTop \in Nat
  BY <1>3, <1>5, PlacesTypes
<1>7. New.line = Old.line + 1 /\ New.col = 0 /\ NewTop = OldTop + 1
  BY <1>3, <1>4, <1>5, NewPlace
<1>8. Old' = Old /\ OldTop' = OldTop /\ New' = New /\ NewTop' = NewTop
  BY <1>1 DEF Old, OldTop, New, NewTop
<1> HIDE DEF n, blank
<1>9. CASE /\ y < VGA_HEIGHT - 1 /\ y' = y + 1 /\ pc' = "scroll"
           /\ screen' = [screen EXCEPT ![y] = screen[y + 1]]
  <2>1. \A r \in Rows : screen'[r] = IF r = y THEN screen[y + 1] ELSE screen[r]
    BY <1>5, <1>9
  <2>2. ASSUME NEW r \in Rows
        PROVE  RowShows(screen'[r], printed, n, IF r < y' THEN OldTop + r + 1 ELSE OldTop + r)
    <3>1. CASE r = y
      <4>1. y + 1 \in Rows /\ ~ (y + 1 < y)
        BY <1>5, <1>9 DEF Rows
      <4>2. RowShows(screen[y + 1], printed, n, OldTop + (y + 1))
        BY <1>2, <4>1
      <4>3. r < y' /\ OldTop + r + 1 = OldTop + (y + 1)
        BY <1>5, <1>6, <1>9, <3>1
      <4> QED  BY <2>1, <3>1, <4>2, <4>3
    <3>2. CASE r # y
      <4>1. r < y' <=> r < y
        BY <1>5, <1>9, <3>2
      <4> QED  BY <1>2, <2>1, <3>2, <4>1
    <3> QED  BY <3>1, <3>2
  <2>3. Fresh' /\ Printing'
    BY <1>1, <1>3, <1>9 DEF Fresh, Printing, Initialising, n
  <2>4. CursorAt' /\ Loaded'
    BY <1>1, <1>4, <1>8, <1>9 DEF CursorAt, Loaded
  <2>5. Image'
    BY <1>1, <1>2, <1>8, <1>9, <2>2 DEF Image, n
  <2> QED  BY <2>3, <2>4, <2>5 DEF TailInv
<1>10. CASE /\ ~ (y < VGA_HEIGHT - 1) /\ pc' = "ready"
            /\ screen' = [screen EXCEPT ![y] = blank]
  <2>1. \A r \in Rows : screen'[r] = IF r = y THEN blank ELSE screen[r]
    BY <1>5, <1>10
  <2>2. y = VGA_HEIGHT - 1
    BY <1>5, <1>10
  <2>3. ASSUME NEW r \in Rows
        PROVE  RowShows(screen'[r], printed, n, NewTop + r)
    <3>1. CASE r = y
      <4>1. NewTop + r \in Nat /\ Old.line < NewTop + r
        BY <1>4, <1>5, <1>6, <1>7, <2>2, <3>1
      <4>2. \A k : Glyph(printed, n, NewTop + r, k) = Blank
        BY <1>3, <1>5, <4>1, GlyphBelow DEF Old, n
      <4> QED  BY <2>1, <3>1, <4>2 DEF RowShows, blank
    <3>2. CASE r # y
      <4>1. r < y /\ NewTop + r = OldTop + r + 1
        BY <1>5, <1>6, <1>7, <2>2, <3>2
      <4> QED  BY <1>2, <2>1, <3>2, <4>1
    <3> QED  BY <3>1, <3>2
  <2>4. Fresh' /\ Printing'
    BY <1>10 DEF Fresh, Printing, Initialising
  <2>5. terminal_row' = New'.line - NewTop' /\ terminal_column' = New'.col
    BY <1>1, <1>4, <1>6, <1>7, <1>8
  <2>6. CursorAt' /\ Loaded'
    BY <1>10, <2>5 DEF CursorAt, Loaded
  <2>7. Image'
    BY <1>1, <1>2, <1>8, <1>10, <2>3 DEF Image, n
  <2> QED  BY <2>4, <2>6, <2>7 DEF TailInv
<1> QED  BY <1>1, <1>2, <1>9, <1>10

\* Every step keeps the invariant.
LEMMA TailKept ==
  ASSUME TypeOK, CursorInBounds, TailInv, [Next]_vars
  PROVE  TailInv'
<1> SUFFICES ASSUME Tracked' PROVE TailInv'
  BY DEF TailInv
<1>1. CASE mouse_init
  BY <1>1 DEF mouse_init, Tracked
<1>2. CASE bsod_initialize
  BY <1>2, TailCrash
<1>3. CASE terminal_initialize \/ InitColumn \/ InitBuffer \/ InitClear
  BY <1>3, TailClear
<1>4. ASSUME NEW ch \in Chars \cup {NewLine}, Putchar(ch) PROVE TailInv'
  <2>1. Tracked
    BY <1>4 DEF Putchar, Tracked
  <2> QED  BY <1>4, <2>1, TailPutchar
<1>5. CASE putchar_step
  <2>1. Tracked
    BY <1>5 DEF putchar_step, Tracked, LoadY, LoadX, terminal_putentryat, ColumnLoad, ColumnStore,
       ColumnTest, ColumnReset, RowLoad, RowStore, RowTest, RowClamp, ScrollRow, history
  <2>2. terminal_putentryat \/ ScrollRow \/ QuietStep
    BY <1>5 DEF putchar_step, QuietStep
  <2> QED  BY <2>1, <2>2, TailDraw, TailScroll, TailQuiet
<1>6. ASSUME NEW mx \in 0 .. VGA_WIDTH, NEW my \in 0 .. VGA_HEIGHT,
             NEW n \in MouseText, mouse_handler(mx, my, n)
      PROVE  TailInv'
  BY <1>6 DEF mouse_handler, Tracked
<1>7. CASE UNCHANGED vars
  <2>1. UNCHANGED <<terminal_row, terminal_column, boot, mapped, screen, pc, c, x, y, tmp,
                    printed, moused>>
    BY <1>7 DEF vars, cursor, locals, history
  <2>2. Tracked
    BY <2>1 DEF Tracked
  <2>3. Old' = Old /\ New' = New /\ OldTop' = OldTop /\ NewTop' = NewTop
    BY <2>1 DEF Old, New, OldTop, NewTop
  <2>4. Fresh /\ Printing /\ CursorAt /\ Loaded /\ Image
    BY <2>2 DEF TailInv
  <2>5. Fresh' /\ Printing'
    BY <2>1, <2>4 DEF Fresh, Printing, Initialising
  <2>6. CursorAt' /\ Loaded'
    BY <2>1, <2>3, <2>4 DEF CursorAt, Loaded
  <2>7. Image'
    BY <2>1, <2>3, <2>4 DEF Image
  <2> QED  BY <2>5, <2>6, <2>7 DEF TailInv
<1> QED  BY <1>1, <1>2, <1>3, <1>4, <1>5, <1>6, <1>7, Zenon DEF Next

\* What the invariant says while kmain is between two characters.
LEMMA TailShown ==
  ASSUME TypeOK, TailInv
  PROVE  ScreenShowsTail
<1> SUFFICES ASSUME pc = "ready", boot \in {"after", "crashed"}, ~ moused
             PROVE  /\ terminal_row = Paper[Len(printed)].line - Top
                    /\ terminal_column = Paper[Len(printed)].col
                    /\ \A r \in Rows, k \in Cols :
                         screen[r][k] =
                           LET here == {j \in 1 .. Len(printed) :
                                          /\ printed[j] # NewLine
                                          /\ Paper[j - 1] = [line |-> Top + r, col |-> k]}
                           IN  IF here = {} THEN Blank ELSE printed[CHOOSE j \in here : TRUE]
  BY Zenon DEF ScreenShowsTail
<1>1. Paper = PaperOf(printed)
  BY Zenon DEF Paper, PaperOf
<1>2. New = Paper[Len(printed)] /\ NewTop = Top
  BY <1>1 DEF New, NewTop, TopAt, Top
<1>3. CursorAt /\ Image
  BY DEF TailInv, Tracked
<1>4. terminal_row = Paper[Len(printed)].line - Top /\ terminal_column = Paper[Len(printed)].col
  BY <1>2, <1>3 DEF CursorAt
<1>5. ASSUME NEW r \in Rows, NEW k \in Cols
      PROVE  screen[r][k] = Glyph(printed, Len(printed), Top + r, k)
  BY <1>2, <1>3 DEF Image, RowShows
<1>6. ASSUME NEW r \in Rows, NEW k \in Cols
      PROVE  screen[r][k] =
               LET here == {j \in 1 .. Len(printed) :
                              /\ printed[j] # NewLine
                              /\ Paper[j - 1] = [line |-> Top + r, col |-> k]}
               IN  IF here = {} THEN Blank ELSE printed[CHOOSE j \in here : TRUE]
  <2> DEFINE here == {j \in 1 .. Len(printed) :
                        /\ printed[j] # NewLine
                        /\ Paper[j - 1] = [line |-> Top + r, col |-> k]}
  <2>1. here = Here(printed, Len(printed), Top + r, k)
    <3> DEFINE P == Paper
    <3>1. P = PaperOf(printed)
      BY <1>1
    <3> HIDE DEF P
    <3>2. here = {j \in 1 .. Len(printed) :
                    printed[j] # NewLine /\ P[j - 1] = [line |-> Top + r, col |-> k]}
      BY Zenon DEF P
    <3> HIDE DEF here
    <3> QED  BY <3>1, <3>2 DEF Here, At
  <2> HIDE DEF here
  <2>2. screen[r][k] = IF here = {} THEN Blank ELSE printed[CHOOSE j \in here : TRUE]
    BY <1>5, <2>1, Zenon DEF Glyph
  <2> QED  BY <2>2, Zenon DEF here
<1> QED  BY <1>4, <1>6, Zenon

\* The boot state is not tracked.
LEMMA TailInitially == Init => TailInv
BY DEF Init, TailInv, Tracked

\* On a screen of any size, after any text and whatever was on it before, the screen is the
\* last lines of the text, wrapped at the edge, and the cursor is where the next character
\* goes: terminal_putchar and terminal_scroll of stdio.c, until the mouse draws.
THEOREM ScreenIsTail == Spec => []ScreenShowsTail
<1>1. TypeOK /\ CursorInBounds /\ TailInv /\ [Next]_vars => TailInv'
  BY TailKept
<1>2. TypeOK /\ TailInv => ScreenShowsTail
  BY TailShown
<1> QED  BY <1>1, <1>2, TailInitially, CursorStaysInBounds, PTL DEF Spec
=============================================================================
