------------------------------ MODULE Terminal ------------------------------
(***************************************************************************)
(* The text terminal, libsa/stdio.c: terminal_initialize, terminal_putchar *)
(* and terminal_scroll, run by kmain, and the mouse interrupt handler of   *)
(* libkern/mouse.c, which at the end of a packet clears the screen, resets *)
(* the cursor and prints, without kmain knowing.                           *)
(*                                                                         *)
(* The handler runs behind an interrupt gate and is one atomic action.     *)
(* kmain is interruptible: each access of terminal_putchar to the cursor   *)
(* is an action (compiled without -O, row++ is a load and a store, and a   *)
(* test reloads what was just stored), and the copying loop of the scroll  *)
(* advances a row at a time.  An exception may strike anywhere: its screen *)
(* is printed with interrupts off and is the last.  Colours are left out.  *)
(***************************************************************************)
EXTENDS Integers, Sequences

CONSTANTS VGA_WIDTH, VGA_HEIGHT,
          Chars,        \* the printable characters in use
          Blank,        \* the space the screen is cleared with
          MaxPrinted,   \* bound on what kmain prints before the mouse moves
          MouseOn,      \* are there mouse interrupts?
          MouseText     \* lengths of what print_mouse_info prints

NewLine == "\n"

\* The handler prints at most three messages, which fit a row (60 of 80).
ASSUME TerminalAssumption ==
  /\ VGA_WIDTH \in Nat \ {0} /\ VGA_HEIGHT \in Nat \ {0}
  /\ MaxPrinted \in Nat /\ MouseOn \in BOOLEAN
  /\ MouseText \subseteq 0 .. VGA_WIDTH - 1
  /\ NewLine \notin Chars

Rows == 0 .. VGA_HEIGHT - 1
Cols == 0 .. VGA_WIDTH - 1
Clear == [y \in Rows |-> [x \in Cols |-> Blank]]

VARIABLES terminal_row, terminal_column,
          boot,     \* how far kmain is: in mouse_init, before or after
                    \* terminal_initialize, or crashed
          mapped,   \* terminal_buffer points to the screen (it is NULL at boot)
          screen,   \* the video memory, row by row
          pc, c,    \* where kmain is; the character it prints
          x, y,     \* the arguments of terminal_putentryat; y also counts rows in loops
          tmp,      \* the register of an increment
          printed,  \* history: what was printed since the terminal was initialised,
          moused    \* and whether the mouse has drawn since the boot

cursor == <<terminal_row, terminal_column>>
locals == <<c, x, y, tmp>>
history == <<printed, moused>>
vars == <<cursor, boot, mapped, screen, pc, locals, history>>

Init == /\ terminal_row = 0 /\ terminal_column = 0
        /\ boot = "mouse_init" /\ mapped = FALSE /\ screen = Clear
        /\ pc = "ready" /\ c = NewLine /\ x = 0 /\ y = 0 /\ tmp = 0
        /\ printed = <<>> /\ moused = FALSE

(***************************************************************************)
(* kmain.  mouse_init prints before terminal_initialize gives the terminal *)
(* its buffer; what is printed until then goes to address 0.  Its last act *)
(* is to register mouse_handler.                                           *)
(***************************************************************************)
mouse_init == /\ pc = "ready" /\ boot = "mouse_init"
              /\ boot' = "before"
              /\ UNCHANGED <<cursor, mapped, screen, pc, locals, history>>

\* terminal_initialize is called: the row, the column, the buffer, row by row the
\* blanks.
terminal_initialize == /\ pc = "ready" /\ boot = "before"
                       /\ boot' = "after" /\ pc' = "init_col"
                       /\ terminal_row' = 0
                       /\ printed' = <<>>
                       /\ UNCHANGED <<terminal_column, mapped, screen, locals, moused>>

InitColumn == /\ pc = "init_col" /\ terminal_column' = 0
              /\ pc' = "init_map"
              /\ UNCHANGED <<terminal_row, boot, mapped, screen, locals, history>>

InitBuffer == /\ pc = "init_map" /\ mapped' = TRUE
              /\ y' = 0 /\ pc' = "init_clear"
              /\ UNCHANGED <<cursor, boot, screen, c, x, tmp, history>>

InitClear == /\ pc = "init_clear"
             /\ screen' = [screen EXCEPT ![y] = [k \in Cols |-> Blank]]
             /\ IF y < VGA_HEIGHT - 1 THEN y' = y + 1 /\ UNCHANGED pc
                ELSE pc' = "ready" /\ UNCHANGED y
             /\ UNCHANGED <<cursor, boot, mapped, c, x, tmp, history>>

\* terminal_putchar(ch) is called.
Putchar(ch) == /\ pc = "ready" /\ boot # "before"
               /\ moused \/ Len(printed) < MaxPrinted
               /\ c' = ch
               /\ printed' = IF moused THEN printed ELSE Append(printed, ch)
               /\ pc' = IF ch = NewLine THEN "row_load" ELSE "put_y"
               /\ UNCHANGED <<cursor, boot, mapped, screen, x, y, tmp, moused>>

\* The arguments of terminal_putentryat are pushed from the last to the first.
LoadY == /\ pc = "put_y" /\ y' = terminal_row /\ pc' = "put_x"
         /\ UNCHANGED <<cursor, boot, mapped, screen, c, x, tmp, history>>

LoadX == /\ pc = "put_x" /\ x' = terminal_column /\ pc' = "put_cell"
         /\ UNCHANGED <<cursor, boot, mapped, screen, c, y, tmp, history>>

terminal_putentryat == /\ pc = "put_cell"
                       /\ screen' = IF mapped THEN [screen EXCEPT ![y][x] = c]
                                    ELSE screen
                       /\ pc' = "col_load"
                       /\ UNCHANGED <<cursor, boot, mapped, locals, history>>

\* ++terminal_column == VGA_WIDTH
ColumnLoad == /\ pc = "col_load" /\ tmp' = terminal_column /\ pc' = "col_store"
              /\ UNCHANGED <<cursor, boot, mapped, screen, c, x, y, history>>

ColumnStore == /\ pc = "col_store" /\ terminal_column' = tmp + 1
               /\ pc' = "col_test"
               /\ UNCHANGED <<terminal_row, boot, mapped, screen, locals, history>>

\* A plausible slip: the test comes one column late.
ColumnTest_Late == /\ pc = "col_test"
                   /\ pc' = IF terminal_column > VGA_WIDTH THEN "col_reset"
                            ELSE "ready"
                   /\ UNCHANGED <<cursor, boot, mapped, screen, locals, history>>

ColumnTest == /\ pc = "col_test"
              /\ pc' = IF terminal_column = VGA_WIDTH THEN "col_reset" ELSE "ready"
              /\ UNCHANGED <<cursor, boot, mapped, screen, locals, history>>

\* terminal_column = 0: before the row is counted up on a wrap, after it on \n.
ColumnReset == /\ pc = "col_reset" /\ terminal_column' = 0
               /\ pc' = IF c = NewLine THEN "row_test" ELSE "row_load"
               /\ UNCHANGED <<terminal_row, boot, mapped, screen, locals, history>>

RowLoad == /\ pc = "row_load" /\ tmp' = terminal_row /\ pc' = "row_store"
           /\ UNCHANGED <<cursor, boot, mapped, screen, c, x, y, history>>

RowStore == /\ pc = "row_store" /\ terminal_row' = tmp + 1
            /\ pc' = IF c = NewLine THEN "col_reset" ELSE "row_test"
            /\ UNCHANGED <<terminal_column, boot, mapped, screen, locals, history>>

RowTest == /\ pc = "row_test"
           /\ pc' = IF terminal_row >= VGA_HEIGHT THEN "row_clamp" ELSE "ready"
           /\ UNCHANGED <<cursor, boot, mapped, screen, locals, history>>

\* terminal_row = VGA_HEIGHT - 1; terminal_scroll() begins with y = 0.
RowClamp == /\ pc = "row_clamp" /\ terminal_row' = VGA_HEIGHT - 1
            /\ y' = 0 /\ pc' = "scroll"
            /\ UNCHANGED <<terminal_column, boot, mapped, screen, c, x, tmp, history>>

\* A plausible slip: the last line is left as it was.
ScrollRow_KeepsLast ==
  /\ pc = "scroll"
  /\ IF y < VGA_HEIGHT - 1
     THEN /\ screen' = IF mapped THEN [screen EXCEPT ![y] = screen[y + 1]] ELSE screen
          /\ y' = y + 1 /\ UNCHANGED pc
     ELSE pc' = "ready" /\ UNCHANGED <<screen, y>>
  /\ UNCHANGED <<cursor, boot, mapped, c, x, tmp, history>>

\* One row moves up, or the last line is cleared.
ScrollRow ==
  /\ pc = "scroll"
  /\ IF y < VGA_HEIGHT - 1
     THEN /\ screen' = IF mapped THEN [screen EXCEPT ![y] = screen[y + 1]] ELSE screen
          /\ y' = y + 1 /\ UNCHANGED pc
     ELSE /\ screen' = IF mapped THEN [screen EXCEPT ![y] = [k \in Cols |-> Blank]]
                       ELSE screen
          /\ pc' = "ready" /\ UNCHANGED y
  /\ UNCHANGED <<cursor, boot, mapped, c, x, tmp, history>>

putchar_step == \/ LoadY \/ LoadX \/ terminal_putentryat
                \/ ColumnLoad \/ ColumnStore \/ ColumnTest \/ ColumnReset
                \/ RowLoad \/ RowStore \/ RowTest \/ RowClamp \/ ScrollRow

(***************************************************************************)
(* The third byte of a mouse packet: terminal_initialize, an X at the      *)
(* mouse's position, then what print_mouse_info prints, n characters that  *)
(* stay within the first row.  The position is clamped to 0..VGA_WIDTH and *)
(* 0..VGA_HEIGHT, one too many each: at mx = VGA_WIDTH the X appears at    *)
(* the start of the next row, below the last row it is not seen.           *)
(***************************************************************************)
WithMouse(mx, my, n) ==
  LET cell == my * VGA_WIDTH + mx
  IN  [r \in Rows |-> [k \in Cols |->
         IF r = 0 /\ k < n THEN "m"
         ELSE IF r * VGA_WIDTH + k = cell THEN "X" ELSE Blank]]

mouse_handler(mx, my, n) ==
  /\ MouseOn /\ boot \in {"before", "after"}
  /\ mapped' = TRUE
  /\ screen' = WithMouse(mx, my, n)
  /\ terminal_row' = 0 /\ terminal_column' = n
  /\ printed' = <<>> /\ moused' = TRUE
  /\ UNCHANGED <<boot, pc, locals>>

(***************************************************************************)
(* isr_exception_handler starts its screen anew, wherever terminal_putchar *)
(* or the mouse handler was; neither goes on.  Its text is printed like    *)
(* any other, by Putchar.                                                  *)
(***************************************************************************)
bsod_initialize ==
  /\ boot # "crashed" /\ boot' = "crashed"
  /\ terminal_row' = 0 /\ terminal_column' = 0
  /\ mapped' = TRUE /\ screen' = Clear
  /\ pc' = "ready" /\ printed' = <<>> /\ moused' = FALSE
  /\ UNCHANGED locals

Next == \/ mouse_init \/ bsod_initialize
        \/ terminal_initialize \/ InitColumn \/ InitBuffer \/ InitClear
        \/ \E ch \in Chars \cup {NewLine} : Putchar(ch)
        \/ putchar_step
        \/ \E mx \in 0 .. VGA_WIDTH, my \in 0 .. VGA_HEIGHT, n \in MouseText :
              mouse_handler(mx, my, n)

Spec == Init /\ [][Next]_vars

-----------------------------------------------------------------------------
\* The values the variables take.
TypeOK ==
  /\ terminal_row \in 0 .. VGA_HEIGHT /\ terminal_column \in 0 .. VGA_WIDTH
  /\ boot \in {"mouse_init", "before", "after", "crashed"}
  /\ mapped \in BOOLEAN
  /\ screen \in [Rows -> [Cols -> Chars \cup {Blank, "m", "X"}]]
  /\ pc \in {"ready", "init_col", "init_map", "init_clear", "put_y", "put_x",
             "put_cell", "col_load", "col_store", "col_test", "col_reset",
             "row_load", "row_store", "row_test", "row_clamp", "scroll"}
  /\ c \in Chars \cup {NewLine}
  /\ x \in Cols /\ y \in Rows /\ tmp \in Nat
  /\ printed \in Seq(Chars \cup {NewLine})
  /\ moused \in BOOLEAN

\* Whatever mouse interrupts come between the accesses of terminal_putchar to the
\* cursor, every character goes to a cell of the screen: the cursor is past the
\* edge only in the few instructions that bring it back, the register of an
\* increment never holds an edge, and a newline is never drawn.
CursorInBounds ==
  /\ terminal_column = VGA_WIDTH => pc \in {"col_test", "col_reset"}
  /\ terminal_row = VGA_HEIGHT =>
        \/ pc \in {"row_test", "row_clamp"}
        \/ pc = "col_reset" /\ c = NewLine
  /\ pc = "col_store" => tmp < VGA_WIDTH
  /\ pc = "row_store" => tmp < VGA_HEIGHT
  /\ pc \in {"put_y", "put_x", "put_cell", "col_load", "col_store", "col_test"}
        => c # NewLine

\* Where the cursor is on an endless paper after k characters.
Paper[k \in 0 .. Len(printed)] ==
  IF k = 0 THEN [line |-> 0, col |-> 0]
  ELSE IF printed[k] = NewLine \/ Paper[k - 1].col = VGA_WIDTH - 1
       THEN [line |-> Paper[k - 1].line + 1, col |-> 0]
       ELSE [line |-> Paper[k - 1].line, col |-> Paper[k - 1].col + 1]

\* The first line of the paper that is on the screen.
Top == LET line == Paper[Len(printed)].line
       IN  IF line < VGA_HEIGHT THEN 0 ELSE line - (VGA_HEIGHT - 1)

\* Until the mouse draws, the screen is the last VGA_HEIGHT lines of the paper, wrapped at
\* VGA_WIDTH, and the cursor is where the next character goes.  So it is with what an
\* exception prints, in whatever state kmain and the mouse left the terminal.
ScreenShowsTail ==
  pc = "ready" /\ boot \in {"after", "crashed"} /\ ~ moused =>
    /\ terminal_row = Paper[Len(printed)].line - Top
    /\ terminal_column = Paper[Len(printed)].col
    /\ \A r \in Rows, k \in Cols :
         screen[r][k] =
           LET here == {j \in 1 .. Len(printed) :
                          /\ printed[j] # NewLine
                          /\ Paper[j - 1] = [line |-> Top + r, col |-> k]}
           IN  IF here = {} THEN Blank ELSE printed[CHOOSE j \in here : TRUE]
=============================================================================
