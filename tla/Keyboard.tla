------------------------------ MODULE Keyboard ------------------------------
(***************************************************************************)
(* The keyboard driver, libkern/keyboard.c: the IRQ1 handler and the two   *)
(* blocking reads, which share the globals g_ch and g_scan_code without    *)
(* masking interrupts.                                                     *)
(*                                                                         *)
(* The handler runs behind an interrupt gate and a cli (irq.asm), so it is *)
(* one atomic action.  A read is interruptible between any two of its      *)
(* accesses to the globals, so each access is an action of its own.  The   *)
(* Makefile compiles with no -O flag: every access the C spells out is     *)
(* made, in the order of the text.                                         *)
(***************************************************************************)
EXTENDS KeyMap

CONSTANTS Scancodes,  \* the bytes the keyboard sends
          Reads,      \* the blocking reads in use: "char", "scan" or both
          MaxBytes    \* bound on the number of IRQ1 interrupts

ASSUME KeyboardAssumption == /\ Scancodes \subseteq 0..255
                             /\ Reads \subseteq {"char", "scan"}
                             /\ MaxBytes \in Nat

VARIABLES g_ch, g_scan_code, g_caps_lock, g_shift_pressed,
          pc,      \* where the reading code is
          c,       \* the local c (kb_getchar) or code (kb_get_scancode)
          bytes,   \* number of IRQ1 interrupts so far
          typed,   \* history: every character the handler stored in g_ch
          taken,   \* history: Len(typed) when kb_getchar last read a character
          handed   \* history: that character

driverVars == <<g_ch, g_scan_code, g_caps_lock, g_shift_pressed>>
readerVars == <<pc, c, taken, handed>>
vars == <<driverVars, readerVars, bytes, typed>>

Init == /\ g_ch = 0 /\ g_scan_code = 0
        /\ g_caps_lock = FALSE /\ g_shift_pressed = FALSE
        /\ pc = "out" /\ c = 0
        /\ bytes = 0 /\ typed = <<>> /\ taken = 0 /\ handed = 0

(***************************************************************************)
(* The interrupt handler.  IRQ1 is raised because a byte is in the         *)
(* controller, so get_scancode finds the status bit set and returns it.    *)
(***************************************************************************)
\* A plausible slip: the byte is kept unsigned, as it would be in an int.
SignedChar_Unsigned(b) == b

\* g_scan_code is a (signed) char: break codes become negative.
SignedChar(b) == IF b < 128 THEN b ELSE b - 256

\* A plausible slip: only a make code that finds the mailbox empty is recorded.
LatchScancode_FirstWins(b) ==
  g_scan_code' = IF g_scan_code > 0 THEN g_scan_code ELSE SignedChar(b)

LatchScancode(b) == g_scan_code' = SignedChar(b)

KeyReleased(b) == /\ b >= 128
                  /\ g_ch' = 0
                  /\ UNCHANGED <<g_caps_lock, g_shift_pressed>>

CapsLockPressed(b) == /\ b = SCAN_CODE_KEY_CAPS_LOCK
                      /\ g_ch' = 0
                      /\ g_caps_lock' = ~g_caps_lock
                      /\ UNCHANGED g_shift_pressed

LeftShiftPressed(b) == /\ b = SCAN_CODE_KEY_LEFT_SHIFT
                       /\ g_ch' = 0
                       /\ g_shift_pressed' = TRUE
                       /\ UNCHANGED g_caps_lock

EnterOrTabPressed(b) == /\ \/ b = SCAN_CODE_KEY_ENTER /\ g_ch' = 10
                           \/ b = SCAN_CODE_KEY_TAB /\ g_ch' = 9
                        /\ UNCHANGED <<g_caps_lock, g_shift_pressed>>

\* With caps lock off an ordinary key uses the shift up; with it on it does not.
OrdinaryKeyPressed(b) ==
  /\ b < 128
  /\ b \notin {SCAN_CODE_KEY_CAPS_LOCK, SCAN_CODE_KEY_LEFT_SHIFT,
               SCAN_CODE_KEY_ENTER, SCAN_CODE_KEY_TAB}
  /\ g_ch' = KeyChar(b, g_caps_lock, g_shift_pressed)
  /\ g_shift_pressed' = (g_shift_pressed /\ g_caps_lock)
  /\ UNCHANGED g_caps_lock

keyboard_handler(b) ==
  /\ bytes < MaxBytes
  /\ bytes' = bytes + 1
  /\ LatchScancode(b)
  /\ \/ KeyReleased(b)
     \/ CapsLockPressed(b)
     \/ LeftShiftPressed(b)
     \/ EnterOrTabPressed(b)
     \/ OrdinaryKeyPressed(b)
  /\ typed' = IF g_ch' # 0 THEN Append(typed, g_ch') ELSE typed
  /\ UNCHANGED readerVars

(***************************************************************************)
(* kb_getchar, one access to a global per action.                          *)
(***************************************************************************)
CallGetchar == /\ pc = "out" /\ "char" \in Reads
               /\ pc' = "char_wait"
               /\ UNCHANGED <<driverVars, c, bytes, typed, taken, handed>>

\* while(g_ch <= 0);   the loop is left
GetcharReady == /\ pc = "char_wait" /\ g_ch > 0
                /\ pc' = "char_take"
                /\ UNCHANGED <<driverVars, c, bytes, typed, taken, handed>>

\* c = g_ch;
GetcharTake == /\ pc = "char_take"
               /\ pc' = "char_clear"
               /\ c' = g_ch
               /\ IF g_ch = 0 THEN UNCHANGED <<taken, handed>>
                  ELSE taken' = Len(typed) /\ handed' = g_ch
               /\ UNCHANGED <<driverVars, bytes, typed>>

\* A plausible slip: the read forgets to empty the mailbox.
GetcharClear_Forgets == /\ pc = "char_clear"
                        /\ pc' = "char_clear_scan"
                        /\ UNCHANGED <<driverVars, c, bytes, typed, taken, handed>>

\* g_ch = 0;
GetcharClear == /\ pc = "char_clear"
                /\ pc' = "char_clear_scan"
                /\ g_ch' = 0
                /\ UNCHANGED <<g_scan_code, g_caps_lock, g_shift_pressed,
                               c, bytes, typed, taken, handed>>

\* g_scan_code = 0; return c;
GetcharReturn == /\ pc = "char_clear_scan"
                 /\ pc' = "char_returned"
                 /\ g_scan_code' = 0
                 /\ UNCHANGED <<g_ch, g_caps_lock, g_shift_pressed,
                                c, bytes, typed, taken, handed>>

(***************************************************************************)
(* kb_get_scancode: the same shape, around g_scan_code.                    *)
(***************************************************************************)
CallGetScancode == /\ pc = "out" /\ "scan" \in Reads
                   /\ pc' = "scan_wait"
                   /\ UNCHANGED <<driverVars, c, bytes, typed, taken, handed>>

ScancodeReady == /\ pc = "scan_wait" /\ g_scan_code > 0
                 /\ pc' = "scan_take"
                 /\ UNCHANGED <<driverVars, c, bytes, typed, taken, handed>>

ScancodeTake == /\ pc = "scan_take"
                /\ pc' = "scan_clear"
                /\ c' = g_scan_code
                /\ UNCHANGED <<driverVars, bytes, typed, taken, handed>>

ScancodeClear == /\ pc = "scan_clear"
                 /\ pc' = "scan_clear_scan"
                 /\ g_ch' = 0
                 /\ UNCHANGED <<g_scan_code, g_caps_lock, g_shift_pressed,
                                c, bytes, typed, taken, handed>>

ScancodeReturn == /\ pc = "scan_clear_scan"
                  /\ pc' = "scan_returned"
                  /\ g_scan_code' = 0
                  /\ UNCHANGED <<g_ch, g_caps_lock, g_shift_pressed,
                                 c, bytes, typed, taken, handed>>

\* The caller uses the result and comes back for more (the shell's while(1)).
CallerUses == /\ pc \in {"char_returned", "scan_returned"}
              /\ pc' = "out"
              /\ UNCHANGED <<driverVars, c, bytes, typed, taken, handed>>

GetcharStep == CallGetchar \/ GetcharReady \/ GetcharTake \/ GetcharClear
               \/ GetcharReturn
ScancodeStep == CallGetScancode \/ ScancodeReady \/ ScancodeTake
                \/ ScancodeClear \/ ScancodeReturn
Reader == GetcharStep \/ ScancodeStep \/ CallerUses

Next == (\E b \in Scancodes : keyboard_handler(b)) \/ Reader

Spec == Init /\ [][Next]_vars

\* kmain never stops polling, and interrupt handlers return: the reader runs.
FairSpec == Spec /\ WF_vars(Reader)

-----------------------------------------------------------------------------
ModifierTypes == g_caps_lock \in BOOLEAN /\ g_shift_pressed \in BOOLEAN

MailboxTypes ==
  /\ g_ch \in 0..127
  /\ g_scan_code \in -128..127
  /\ pc \in {"out", "char_wait", "char_take", "char_clear", "char_clear_scan",
             "char_returned", "scan_wait", "scan_take", "scan_clear",
             "scan_clear_scan", "scan_returned"}
  /\ c \in -128..127
  /\ bytes \in Nat
  /\ typed \in Seq(1..127)
  /\ taken \in 0..Len(typed)
  /\ handed \in 0..127

\* The values each variable takes in keyboard.c.
TypeOK == ModifierTypes /\ MailboxTypes

\* Of the two mailboxes, when both are full they describe one key press: the
\* reader's unmasked two-step clearing can tear them (empty one, leave the
\* other) but never leaves the character of one key with the code of another.
MailboxesAgree ==
  (g_ch # 0 /\ g_scan_code > 0) =>
     \/ g_scan_code = SCAN_CODE_KEY_ENTER /\ g_ch = 10
     \/ g_scan_code = SCAN_CODE_KEY_TAB /\ g_ch = 9
     \/ \E caps, shift \in BOOLEAN : g_ch = KeyChar(g_scan_code, caps, shift)

\* Whatever modifiers a history of key events has left, the next ordinary key
\* gives a capital exactly when one of caps lock and shift is on, and the upper
\* symbol exactly when shift is.  The code has no branch for a letter under both:
\* it relies on alternate_chars leaving letters alone.
CapsXorShift ==
  \A sc \in 0..127 :
    LET ch  == g_scan_code_chars[sc]
        key == KeyChar(sc, g_caps_lock, g_shift_pressed)
    IN  IF isalpha(ch)
        THEN key = IF g_caps_lock # g_shift_pressed THEN upper(ch) ELSE ch
        ELSE key = IF g_shift_pressed THEN alternate_chars(ch) ELSE ch

\* A full mailbox holds the newest keystroke, and one the reader has not had,
\* except between the reader's c = g_ch and its g_ch = 0.
HoldsNewest ==
  g_ch # 0 => /\ typed # <<>>
              /\ g_ch = typed[Len(typed)]
              /\ pc # "char_clear" => taken < Len(typed)

\* The driver implements the lossy mailbox: between c = g_ch and g_ch = 0 the
\* mailbox is already empty, and what is typed in that window is lost.
Pending == IF g_ch = 0 \/ pc = "char_clear" THEN 0 ELSE Len(typed)

Mailbox == INSTANCE KeyMailbox
             WITH Char <- 1..127, waiting <- Pending, last <- taken, got <- handed

\* Delivered keystrokes are delivered once, unaltered and in order.
MailboxSpec == Mailbox!Spec

\* A keystroke stays in the mailbox for ever only while the reader sits in
\* kb_get_scancode, which does not look at g_ch.
MailboxDrains == (g_ch # 0) ~> (g_ch = 0 \/ pc = "scan_wait")

\* keyboard.h:96 calls kb_getchar "a blocking character read": it returns a
\* character.
BlockingCharacterRead == pc = "char_returned" => c # 0
=============================================================================
