--------------------------- MODULE KeyboardProofs ---------------------------
(***************************************************************************)
(* What the keyboard driver guarantees for every set of keys, every number *)
(* of interrupts and every way they interleave with the reads: its types,  *)
(* the meaning of the modifiers, the agreement of its two mailboxes, and   *)
(* that it implements the lossy mailbox of KeyMailbox.                     *)
(***************************************************************************)
EXTENDS Keyboard, TLAPS

-----------------------------------------------------------------------------
(* The character tables.                                                   *)

\* Every entry of the scancode table is a non-negative char.
LEMMA TableRange == \A sc \in 0..127 : g_scan_code_chars[sc] \in 0..127
<1>1. \A i \in 1..58 : ListedChars[i] \in 0..127
  BY DEF ListedChars
<1> QED  BY <1>1 DEF g_scan_code_chars

\* alternate_chars maps chars to chars.
LEMMA AlternateRange ==
  ASSUME NEW ch \in 0..127
  PROVE  alternate_chars(ch) \in 0..127
<1>1. \A i \in 1..21 : ShiftedSymbols[i] \in 0..127
  BY DEF ShiftedSymbols
<1> QED  BY <1>1 DEF alternate_chars

\* alternate_chars leaves letters alone: none is in its switch.
LEMMA LetterHasNoAlternate ==
  ASSUME NEW ch \in 0..127, isalpha(ch)
  PROVE  alternate_chars(ch) = ch
<1>1. \A i \in 1..21 : ~ isalpha(PlainSymbols[i])
  BY DEF PlainSymbols, isalpha
<1> QED  BY <1>1 DEF alternate_chars

\* The character of a key is a char whatever the modifiers.
LEMMA KeyCharRange ==
  ASSUME NEW sc \in 0..127, NEW caps \in BOOLEAN, NEW shift \in BOOLEAN
  PROVE  KeyChar(sc, caps, shift) \in 0..127
<1> DEFINE ch == g_scan_code_chars[sc]
<1>1. ch \in 0..127
  BY TableRange
<1>2. alternate_chars(ch) \in 0..127
  BY <1>1, AlternateRange
<1>3. upper(ch) \in 0..127
  BY <1>1 DEF upper
<1>4. KeyChar(sc, caps, shift) \in {ch, alternate_chars(ch), upper(ch)}
  BY DEF KeyChar
<1> QED  BY <1>1, <1>2, <1>3, <1>4

\* A letter is a capital exactly when one of caps lock and shift is on; any
\* other key gives its upper symbol exactly when shift is.
LEMMA KeyCharMeaning ==
  ASSUME NEW sc \in 0..127, NEW caps \in BOOLEAN, NEW shift \in BOOLEAN
  PROVE  LET ch  == g_scan_code_chars[sc]
             key == KeyChar(sc, caps, shift)
         IN  IF isalpha(ch)
             THEN key = IF caps # shift THEN upper(ch) ELSE ch
             ELSE key = IF shift THEN alternate_chars(ch) ELSE ch
<1> DEFINE ch  == g_scan_code_chars[sc]
           key == KeyChar(sc, caps, shift)
<1>1. ch \in 0..127
  BY TableRange
<1>2. isalpha(ch) => alternate_chars(ch) = ch
  BY <1>1, LetterHasNoAlternate
<1>3. ~ isalpha(ch) => upper(ch) = ch
  BY DEF isalpha, upper
<1>4. CASE caps /\ shift
  BY <1>2, <1>4 DEF KeyChar
<1>5. CASE caps /\ ~ shift
  BY <1>3, <1>5 DEF KeyChar
<1>6. CASE ~ caps /\ shift
  BY <1>6 DEF KeyChar
<1>7. CASE ~ caps /\ ~ shift
  BY <1>7 DEF KeyChar
<1> QED  BY <1>4, <1>5, <1>6, <1>7

-----------------------------------------------------------------------------
(* Type correctness.                                                       *)

\* An interrupt leaves a char in g_ch and flags in the modifiers.
LEMMA HandlerTypes ==
  ASSUME TypeOK, NEW b \in 0..255, keyboard_handler(b)
  PROVE  g_ch' \in 0..127 /\ ModifierTypes'
<1>1. CASE KeyReleased(b)
  BY <1>1 DEF KeyReleased, TypeOK, ModifierTypes
<1>2. CASE CapsLockPressed(b)
  BY <1>2 DEF CapsLockPressed, TypeOK, ModifierTypes
<1>3. CASE LeftShiftPressed(b)
  BY <1>3 DEF LeftShiftPressed, TypeOK, ModifierTypes
<1>4. CASE EnterOrTabPressed(b)
  BY <1>4 DEF EnterOrTabPressed, TypeOK, ModifierTypes
<1>5. CASE OrdinaryKeyPressed(b)
  <2>1. b \in 0..127
    BY <1>5 DEF OrdinaryKeyPressed
  <2>2. KeyChar(b, g_caps_lock, g_shift_pressed) \in 0..127
    BY <2>1, KeyCharRange, Zenon DEF TypeOK, ModifierTypes
  <2>3. ModifierTypes'
    BY <1>5 DEF OrdinaryKeyPressed, TypeOK, ModifierTypes
  <2> QED  BY <1>5, <2>2, <2>3 DEF OrdinaryKeyPressed
<1> QED  BY <1>1, <1>2, <1>3, <1>4, <1>5 DEF keyboard_handler

\* The reads leave the modifiers alone.
LEMMA ReaderKeepsModifiers ==
  Reader => UNCHANGED <<g_caps_lock, g_shift_pressed>>
BY DEF Reader, GetcharStep, CallGetchar, GetcharReady, GetcharTake,
       GetcharClear, GetcharReturn, ScancodeStep, CallGetScancode,
       ScancodeReady, ScancodeTake, ScancodeClear, ScancodeReturn, CallerUses,
       driverVars

\* Type correctness of the driver and of the history that observes it.
THEOREM TypeCorrect == Spec => []TypeOK
<1>1. Init => TypeOK
  <2>1. Init => ModifierTypes
    BY DEF Init, ModifierTypes
  <2>2. Init => MailboxTypes
    BY DEF Init, MailboxTypes
  <2> QED  BY <2>1, <2>2 DEF TypeOK
<1>2. TypeOK /\ [Next]_vars => TypeOK'
  <2> SUFFICES ASSUME TypeOK, [Next]_vars
               PROVE  TypeOK'
    OBVIOUS
  <2>1. ASSUME NEW b \in Scancodes, keyboard_handler(b)
        PROVE  TypeOK'
    <3>1. b \in 0..255
      BY KeyboardAssumption
    <3>2. g_ch' \in 0..127 /\ ModifierTypes'
      BY <2>1, <3>1, HandlerTypes
    <3>3. g_scan_code' \in -128..127
      BY <2>1, <3>1 DEF keyboard_handler, LatchScancode, SignedChar
    <3>4. typed' \in Seq(1..127) /\ Len(typed') >= Len(typed)
      <4>1. typed' = IF g_ch' # 0 THEN Append(typed, g_ch') ELSE typed
        BY <2>1 DEF keyboard_handler
      <4>2. typed \in Seq(1..127)
        BY DEF TypeOK, MailboxTypes
      <4>3. CASE g_ch' = 0
        BY <4>1, <4>2, <4>3
      <4>4. CASE g_ch' # 0
        BY <3>2, <4>1, <4>2, <4>4
      <4> QED  BY <4>3, <4>4
    <3>5. bytes' \in Nat /\ UNCHANGED <<pc, c, taken, handed>>
      BY <2>1 DEF keyboard_handler, readerVars, TypeOK, MailboxTypes
    <3> QED  BY <3>2, <3>3, <3>4, <3>5 DEF TypeOK, MailboxTypes
  <2>2. ASSUME Reader
        PROVE  TypeOK'
    <3> USE DEF TypeOK, MailboxTypes
    <3>1. ModifierTypes'
      BY <2>2, ReaderKeepsModifiers DEF ModifierTypes
    <3>2. CASE CallGetchar
      BY <3>1, <3>2 DEF CallGetchar, driverVars
    <3>3. CASE GetcharReady
      BY <3>1, <3>3 DEF GetcharReady, driverVars
    <3>4. CASE GetcharTake
      <4>1. typed \in Seq(1..127) /\ Len(typed) \in 0..Len(typed)
        OBVIOUS
      <4>2. g_ch \in -128..127
        OBVIOUS
      <4>3. taken' \in 0..Len(typed') /\ handed' \in 0..127
        BY <3>4, <4>1 DEF GetcharTake
      <4> QED  BY <3>1, <3>4, <4>2, <4>3 DEF GetcharTake, driverVars
    <3>5. CASE GetcharClear
      BY <3>1, <3>5 DEF GetcharClear
    <3>6. CASE GetcharReturn
      BY <3>1, <3>6 DEF GetcharReturn
    <3>7. CASE CallGetScancode
      BY <3>1, <3>7 DEF CallGetScancode, driverVars
    <3>8. CASE ScancodeReady
      BY <3>1, <3>8 DEF ScancodeReady, driverVars
    <3>9. CASE ScancodeTake
      BY <3>1, <3>9 DEF ScancodeTake, driverVars
    <3>10. CASE ScancodeClear
      BY <3>1, <3>10 DEF ScancodeClear
    <3>11. CASE ScancodeReturn
      BY <3>1, <3>11 DEF ScancodeReturn
    <3>12. CASE CallerUses
      BY <3>1, <3>12 DEF CallerUses, driverVars
    <3> QED
      BY <2>2, <3>2, <3>3, <3>4, <3>5, <3>6, <3>7, <3>8, <3>9, <3>10, <3>11,
         <3>12 DEF Reader, GetcharStep, ScancodeStep
  <2>3. CASE UNCHANGED vars
    <3>1. ModifierTypes'
      BY <2>3 DEF TypeOK, ModifierTypes, vars, driverVars
    <3> QED  BY <2>3, <3>1 DEF TypeOK, MailboxTypes, vars, driverVars, readerVars
  <2> QED  BY <2>1, <2>2, <2>3 DEF Next
<1> QED  BY <1>1, <1>2, PTL DEF Spec

\* The modifiers keep their meaning in every reachable state.
THEOREM ModifiersMeanXor == Spec => []CapsXorShift
<1>1. TypeOK => CapsXorShift
  BY KeyCharMeaning, Zenon DEF TypeOK, ModifierTypes, CapsXorShift
<1> QED  BY <1>1, TypeCorrect, PTL

-----------------------------------------------------------------------------
(* The two mailboxes.                                                      *)

\* Whenever both mailboxes are full they describe one key press.
THEOREM MailboxesStayInStep == Spec => []MailboxesAgree
<1>1. Init => MailboxesAgree
  BY DEF Init, MailboxesAgree
<1>2. TypeOK /\ MailboxesAgree /\ [Next]_vars => MailboxesAgree'
  <2> SUFFICES ASSUME TypeOK, MailboxesAgree, [Next]_vars
               PROVE  MailboxesAgree'
    OBVIOUS
  <2>1. ASSUME NEW b \in Scancodes, keyboard_handler(b), g_ch' # 0
        PROVE  MailboxesAgree'
    <3>1. b \in 0..255 /\ g_scan_code' = SignedChar(b)
      BY <2>1, KeyboardAssumption DEF keyboard_handler, LatchScancode
    <3>2. CASE EnterOrTabPressed(b)
      BY <3>1, <3>2 DEF EnterOrTabPressed, MailboxesAgree, SignedChar,
                        SCAN_CODE_KEY_ENTER, SCAN_CODE_KEY_TAB
    <3>3. CASE OrdinaryKeyPressed(b)
      <4>1. g_scan_code' = b
        BY <3>1, <3>3 DEF OrdinaryKeyPressed, SignedChar
      <4>2. g_ch' = KeyChar(b, g_caps_lock, g_shift_pressed)
        BY <3>3 DEF OrdinaryKeyPressed
      <4>3. g_caps_lock \in BOOLEAN /\ g_shift_pressed \in BOOLEAN
        BY DEF TypeOK, ModifierTypes
      <4> QED  BY <4>1, <4>2, <4>3, Zenon DEF MailboxesAgree
    <3> QED
      BY <2>1, <3>2, <3>3 DEF keyboard_handler, KeyReleased, CapsLockPressed,
                              LeftShiftPressed
  <2>2. ASSUME UNCHANGED <<g_ch, g_scan_code>>
        PROVE  MailboxesAgree'
    BY <2>2, Zenon DEF MailboxesAgree
  <2>3. ASSUME g_ch' = 0 \/ g_scan_code' = 0
        PROVE  MailboxesAgree'
    BY <2>3 DEF MailboxesAgree
  <2>4. ASSUME Reader
        PROVE  MailboxesAgree'
    <3>1. \/ UNCHANGED <<g_ch, g_scan_code>>
          \/ g_ch' = 0 \/ g_scan_code' = 0
      BY <2>4 DEF Reader, GetcharStep, CallGetchar, GetcharReady, GetcharTake,
           GetcharClear, GetcharReturn, ScancodeStep, CallGetScancode,
           ScancodeReady, ScancodeTake, ScancodeClear, ScancodeReturn,
           CallerUses, driverVars
    <3> QED  BY <3>1, <2>2, <2>3
  <2>5. CASE UNCHANGED vars
    BY <2>5, <2>2 DEF vars, driverVars
  <2> QED  BY <2>1, <2>3, <2>4, <2>5 DEF Next
<1> QED  BY <1>1, <1>2, TypeCorrect, PTL DEF Spec

\* A full mailbox holds the newest keystroke, undelivered unless the reader is
\* just between taking it and clearing it.
THEOREM MailboxHoldsNewest == Spec => []HoldsNewest
<1>1. Init => HoldsNewest
  BY DEF Init, HoldsNewest
<1>2. TypeOK /\ HoldsNewest /\ [Next]_vars => HoldsNewest'
  <2> SUFFICES ASSUME MailboxTypes, HoldsNewest, [Next]_vars, g_ch' # 0
               PROVE  HoldsNewest'
    BY DEF TypeOK, HoldsNewest
  <2> USE DEF MailboxTypes
  <2>1. ASSUME NEW b \in Scancodes, keyboard_handler(b)
        PROVE  HoldsNewest'
    <3>1. typed' = Append(typed, g_ch') /\ taken' = taken
      BY <2>1 DEF keyboard_handler, readerVars
    <3>2. Len(typed') = Len(typed) + 1 /\ typed'[Len(typed')] = g_ch'
      BY <3>1
    <3> QED  BY <3>1, <3>2 DEF HoldsNewest
  <2>2. CASE CallGetchar
    BY <2>2 DEF CallGetchar, driverVars, HoldsNewest
  <2>3. CASE GetcharReady
    BY <2>3 DEF GetcharReady, driverVars, HoldsNewest
  <2>4. CASE GetcharTake
    BY <2>4 DEF GetcharTake, driverVars, HoldsNewest
  <2>5. CASE GetcharReturn
    BY <2>5 DEF GetcharReturn, HoldsNewest
  <2>6. CASE CallGetScancode \/ ScancodeReady \/ ScancodeTake \/ CallerUses
    BY <2>6 DEF CallGetScancode, ScancodeReady, ScancodeTake, CallerUses,
                driverVars, HoldsNewest
  <2>7. CASE ScancodeReturn
    BY <2>7 DEF ScancodeReturn, HoldsNewest
  <2>8. CASE UNCHANGED vars
    BY <2>8 DEF vars, driverVars, readerVars, HoldsNewest
  <2>9. ~ GetcharClear /\ ~ ScancodeClear
    BY DEF GetcharClear, ScancodeClear
  <2> QED
    BY <2>1, <2>2, <2>3, <2>4, <2>5, <2>6, <2>7, <2>8, <2>9
       DEF Next, Reader, GetcharStep, ScancodeStep
<1> QED  BY <1>1, <1>2, TypeCorrect, PTL DEF Spec

\* The driver implements KeyMailbox: a delivered keystroke is delivered once,
\* unaltered and in order, however the interrupts fall among the accesses of
\* the reads.
THEOREM ImplementsMailbox == Spec => MailboxSpec
<1>1. Init => Mailbox!Init
  BY DEF Init, Mailbox!Init, Pending
<1>2. TypeOK /\ HoldsNewest /\ [Next]_vars
        => [Mailbox!Next]_(Mailbox!mailboxVars)
  <2> SUFFICES ASSUME TypeOK, MailboxTypes, HoldsNewest, [Next]_vars
               PROVE  \/ Mailbox!Next
                      \/ UNCHANGED <<typed, Pending, taken, handed>>
    BY DEF TypeOK, Mailbox!mailboxVars
  <2> USE DEF MailboxTypes
  <2>1. ASSUME NEW b \in Scancodes, keyboard_handler(b)
        PROVE  Mailbox!Next
    <3>1. b \in 0..255
      BY KeyboardAssumption
    <3>2. g_ch' \in 0..127
      BY <2>1, <3>1, HandlerTypes
    <3>3. /\ typed' = IF g_ch' # 0 THEN Append(typed, g_ch') ELSE typed
          /\ UNCHANGED <<pc, taken, handed>>
      BY <2>1 DEF keyboard_handler, readerVars
    <3>4. CASE g_ch' = 0
      BY <3>3, <3>4 DEF Mailbox!Next, Mailbox!Erase, Pending
    <3>5. CASE g_ch' # 0
      <4>1. g_ch' \in 1..127
        BY <3>2, <3>5
      <4>2. Mailbox!Type(g_ch')
        BY <3>3, <3>5 DEF Mailbox!Type, Pending
      <4> QED  BY <4>1, <4>2 DEF Mailbox!Next
    <3> QED  BY <3>4, <3>5
  <2>2. CASE GetcharTake
    <3>1. CASE g_ch = 0
      BY <2>2, <3>1 DEF GetcharTake, driverVars, Pending
    <3>2. CASE g_ch # 0
      BY <2>2, <3>2 DEF GetcharTake, driverVars, Pending, HoldsNewest,
                        Mailbox!Next, Mailbox!Deliver
    <3> QED  BY <3>1, <3>2
  <2>3. CASE GetcharClear
    BY <2>3 DEF GetcharClear, Pending
  <2>4. CASE ScancodeClear
    BY <2>4 DEF ScancodeClear, Pending, Mailbox!Next, Mailbox!Erase
  <2>5. CASE CallGetchar \/ GetcharReady \/ GetcharReturn
    BY <2>5 DEF CallGetchar, GetcharReady, GetcharReturn, driverVars, Pending
  <2>6. CASE CallGetScancode \/ ScancodeReady \/ ScancodeTake \/ ScancodeReturn
             \/ CallerUses
    BY <2>6 DEF CallGetScancode, ScancodeReady, ScancodeTake, ScancodeReturn,
                CallerUses, driverVars, Pending
  <2>7. CASE UNCHANGED vars
    BY <2>7 DEF vars, driverVars, readerVars, Pending
  <2> QED
    BY <2>1, <2>2, <2>3, <2>4, <2>5, <2>6, <2>7
       DEF Next, Reader, GetcharStep, ScancodeStep
<1> QED
  BY <1>1, <1>2, TypeCorrect, MailboxHoldsNewest, PTL
     DEF Spec, MailboxSpec, Mailbox!Spec
=============================================================================
