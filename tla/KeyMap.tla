------------------------------- MODULE KeyMap -------------------------------
(***************************************************************************)
(* The pure part of the keyboard driver (libkern/keyboard.c): how a make   *)
(* code and the two modifier flags become a character.  Characters are     *)
(* ASCII codes, 0 meaning "no character", as in the C.                     *)
(***************************************************************************)
EXTENDS Integers, Sequences

SCAN_CODE_KEY_TAB        == 15    \* 0x0F
SCAN_CODE_KEY_ENTER      == 28    \* 0x1C
SCAN_CODE_KEY_LEFT_SHIFT == 42    \* 0x2A
SCAN_CODE_KEY_CAPS_LOCK  == 58    \* 0x3A

\* The characters the initialiser lists for make codes 0..57.
ListedChars == <<
    0,  27,  49,  50,  51,  52,  53,  54,  55,  56,  57,  48,  45,  61,   8,
    9, 113, 119, 101, 114, 116, 121, 117, 105, 111, 112,  91,  93,  10,
    0,  97, 115, 100, 102, 103, 104, 106, 107, 108,  59,  39,  96,   0,
   92, 122, 120,  99, 118,  98, 110, 109,  44,  46,  47,   0,  42,   0,  32 >>

\* Beyond them only the keypad minus (0x4A) and plus (0x4E) are not zero.
g_scan_code_chars ==
  [sc \in 0..127 |-> IF sc < 58 THEN ListedChars[sc + 1]
                     ELSE IF sc = 74 THEN 45
                     ELSE IF sc = 78 THEN 43 ELSE 0]

isalpha(ch) == ch \in 65..90 \/ ch \in 97..122

upper(ch) == IF ch \in 97..122 THEN ch - 32 ELSE ch

\* Unshifted and shifted symbols, in the order of the cases of the switch.
PlainSymbols ==
  <<96, 49, 50, 51, 52, 53, 54, 55, 56, 57, 48, 45, 61, 91, 93, 92, 59, 39,
    44, 46, 47>>
ShiftedSymbols ==
  <<126, 33, 64, 35, 36, 37, 94, 38, 42, 40, 41, 95, 43, 123, 125, 124, 58, 34,
    60, 62, 63>>

alternate_chars(ch) ==
  IF \E i \in 1..21 : PlainSymbols[i] = ch
  THEN ShiftedSymbols[CHOOSE i \in 1..21 : PlainSymbols[i] = ch]
  ELSE ch

\* A plausible slip for KeyChar: caps lock wins over shift.
KeyChar_CapsWins(sc, caps, shift) ==
  LET ch == g_scan_code_chars[sc] IN
  IF caps THEN upper(ch)
  ELSE IF shift THEN IF isalpha(ch) THEN upper(ch) ELSE alternate_chars(ch)
  ELSE ch

\* The default branch of the handler's switch: the character of an ordinary key.
KeyChar(sc, caps, shift) ==
  LET ch == g_scan_code_chars[sc] IN
  CASE caps /\ shift           -> alternate_chars(ch)
    [] caps /\ ~shift          -> upper(ch)
    [] ~caps /\ shift          -> IF isalpha(ch) THEN upper(ch)
                                  ELSE alternate_chars(ch)
    [] OTHER                   -> ch
=============================================================================
