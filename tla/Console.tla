------------------------------- MODULE Console -------------------------------
(***************************************************************************)
(* The keyboard driver and the command line together: the loop of kmain in *)
(* libsa/main.c takes what kb_getchar returns, while the interrupt handler *)
(* goes on writing to the mailbox kb_getchar reads.                        *)
(*                                                                         *)
(* Shell's actions happen when kb_getchar returns; Keyboard's histories    *)
(* keep their meaning, `struck' being its `typed'.                         *)
(***************************************************************************)
EXTENDS Shell

CONSTANTS Scancodes, Reads, MaxBytes   \* of Keyboard

VARIABLES g_ch, g_scan_code, g_caps_lock, g_shift_pressed,
          pc, c, bytes, struck, taken, handed,
          answered   \* history: the index in struck of the last Enter answered

K == INSTANCE Keyboard WITH typed <- struck

\* What the Enter key leaves in the mailbox.
EnterKey == K!g_scan_code_chars[K!SCAN_CODE_KEY_ENTER]

\* Chars has what the keys in use give, but for Enter and the keys that give nothing.
ASSUME ConsoleAssumption ==
  /\ Scancodes \subseteq 0..255 /\ Reads \subseteq {"char", "scan"} /\ MaxBytes \in Nat
  /\ NUL = 0 /\ EnterKey \notin Chars
  /\ \A b \in Scancodes, caps, shift \in BOOLEAN :
       b < 128 => K!KeyChar(b, caps, shift) \in Chars \cup {NUL, EnterKey}

consoleVars == <<vars, K!vars, answered>>

ConsoleInit == Init /\ K!Init /\ answered = 0

\* A plausible slip: Enter is expected to be a carriage return.
NewLine_Return == 13

NewLine == 10

\* ch = kb_getchar(); and what the loop does with it, up to the next call.
Uses == /\ K!CallerUses
        /\ IF c = NewLine THEN EnterPressed /\ answered' = taken
           ELSE AddCharacter(c) /\ UNCHANGED answered

Reader == \/ K!GetcharStep /\ UNCHANGED <<vars, answered>>
          \/ Uses

KeyEvent == /\ \E b \in Scancodes : K!keyboard_handler(b)
            /\ UNCHANGED <<vars, answered>>

ConsoleNext == KeyEvent \/ Reader

ConsoleSpec == ConsoleInit /\ [][ConsoleNext]_consoleVars

\* kmain never blocks, and the interrupt handler returns.
FairConsole == ConsoleSpec /\ WF_consoleVars(Reader)

-----------------------------------------------------------------------------
\* The places of a line that hold a character and not a NUL.
Shown(line) == {i \in DOMAIN line : line[i] # NUL}

\* Is every character shown in line one of the elements of s from m to n, each used
\* at most once, and the order kept?
ComesFrom(line, s, m, n) ==
  \E at \in [Shown(line) -> m..n] :
     /\ \A i \in Shown(line) : s[at[i]] = line[i]
     /\ \A i, j \in Shown(line) : i < j => at[i] < at[j]

\* Whatever key events fall between the accesses of kb_getchar, the line being typed
\* holds keystrokes struck after the Enter that ended the line before, each at most
\* once and in their order, with nothing made up but NULs.
LineAsTyped ==
  /\ answered # 0 => struck[answered] = EnterKey
  /\ ComesFrom(typed, struck, answered + 1, taken)

\* An Enter that comes while kmain polls is answered, if no key event follows before
\* that.
EnterAnswered ==
  \A n \in 1 .. MaxBytes :
    pc = "char_wait" /\ g_ch = EnterKey /\ bytes = n
      ~> bytes > n \/ (pc = "out" /\ typed = <<>> /\ g_ch = 0)
=============================================================================
