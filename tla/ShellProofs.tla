----------------------------- MODULE ShellProofs -----------------------------
(***************************************************************************)
(* What the command line guarantees for every buffer size, every choice of *)
(* command words and lines of any length: its types, that at most one      *)
(* command waits for an argument, and that the loop with its buffer and    *)
(* flags implements the line-at-a-time specification LineShell.  And what  *)
(* the loop and the keyboard driver guarantee together, for every set of   *)
(* keys and every way interrupts fall: the loop is given no character      *)
(* Shell does not know, and the line is what was typed.                    *)
(***************************************************************************)
EXTENDS Console, TLAPS, WellFoundedInduction

Strings == Seq(Chars \cup {NUL})

-----------------------------------------------------------------------------
(* Where a string ends.                                                    *)

\* A set of naturals that is not empty has a least element.
LEMMA HasLeast ==
  ASSUME NEW T \in SUBSET Nat, T # {}
  PROVE  \E k \in T : \A j \in T : k <= j
<1> DEFINE Below == OpToRel(<, Nat)
<1>1. PICK k \in T : \A j \in T : <<j, k>> \notin Below
  <2>1. IsWellFoundedOn(Below, Nat)
    BY NatLessThanWellFounded
  <2> HIDE DEF Below
  <2> QED  BY <2>1, WFMin
<1>2. ASSUME NEW j \in T PROVE k <= j
  <2>1. ~ (j < k)
    BY <1>1 DEF OpToRel
  <2> QED  BY <2>1
<1> QED  BY <1>2

\* m characters of s come before its end: the first NUL, or the whole of it.
EndsAt(s, m) == /\ m \in 0..Len(s)
                /\ \A j \in 1..m : s[j] # NUL
                /\ m < Len(s) => s[m + 1] = NUL

\* CString keeps what comes before the end of its argument.
LEMMA CStringEnds ==
  ASSUME NEW s \in Strings
  PROVE  \E m \in 0..Len(s) : EndsAt(s, m) /\ CString(s) = SubSeq(s, 1, m)
<1> DEFINE nuls == {k \in 1..Len(s) : s[k] = NUL}
<1>1. CASE nuls = {}
  <2>1. EndsAt(s, Len(s))
    BY <1>1 DEF EndsAt, Strings
  <2>2. CString(s) = SubSeq(s, 1, Len(s))
    BY <1>1 DEF CString, Strings
  <2> QED  BY <2>1, <2>2 DEF EndsAt
<1>2. CASE nuls # {}
  <2> DEFINE first == CHOOSE k \in nuls : \A j \in nuls : k <= j
  <2>1. nuls \in SUBSET Nat
    BY DEF Strings
  <2>2. \E k \in nuls : \A j \in nuls : k <= j
    <3> HIDE DEF nuls
    <3> QED  BY <1>2, <2>1, HasLeast
  <2>3. first \in nuls /\ \A j \in nuls : first <= j
    <3> HIDE DEF nuls
    <3> QED  BY <2>2
  <2>4. CString(s) = SubSeq(s, 1, first - 1)
    BY <1>2 DEF CString
  <2>5. EndsAt(s, first - 1)
    <3> HIDE DEF first
    <3> QED  BY <2>3 DEF EndsAt, Strings
  <2> QED  BY <2>4, <2>5 DEF EndsAt
<1> QED  BY <1>1, <1>2

\* A C string has no NUL in it.
LEMMA CStringTypes ==
  ASSUME NEW s \in Strings
  PROVE  CString(s) \in Seq(Chars)
<1>1. PICK m \in 0..Len(s) : EndsAt(s, m) /\ CString(s) = SubSeq(s, 1, m)
  BY CStringEnds
<1>2. \A j \in 1..m : s[j] \in Chars
  BY <1>1 DEF EndsAt, Strings
<1>3. SubSeq(s, 1, m) \in Seq(Chars)
  BY <1>2 DEF Strings
<1> QED  BY <1>1, <1>3

-----------------------------------------------------------------------------
(* Type correctness.                                                       *)

\* The parts of the type invariant, the Boolean ones apart from the others.
BufferTypes == buffer \in Strings /\ Len(buffer) < BUFFER_SIZE
TypedTypes == typed \in Strings
FlagTypes == isArg \in BOOLEAN /\ CMDecho \in BOOLEAN /\ CMDread \in BOOLEAN
ArgTypes == CMDarg1 \in Seq(Chars)

\* The type invariant is the conjunction of its parts.
LEMMA TypeParts ==
  TypeOK <=> BufferTypes /\ TypedTypes /\ FlagTypes /\ ArgTypes
BY DEF TypeOK, BufferTypes, TypedTypes, FlagTypes, ArgTypes, Strings

\* The state in which the steps of a line leave the flags and the output.
LineResult ==
  LET line == CString(buffer)
      s0   == [isArg |-> isArg, echo |-> CMDecho, read |-> CMDread,
               arg |-> CMDarg1, out |-> <<>>]
  IN  Dispatch(RunRead(RunEcho(TakeArgument(s0, line))), line)

\* A line that no command waits for is a command only.
LEMMA PlainLine ==
  ASSUME isArg = FALSE, CMDecho = FALSE, CMDread = FALSE
  PROVE  LET word == Word(CString(buffer)) IN
         LineResult = [isArg |-> word \in {"echo", "read"},
                       echo |-> word = "echo", read |-> word = "read",
                       arg |-> CMDarg1,
                       out |-> << <<word, CString(buffer)>> >>]
BY DEF LineResult, TakeArgument, RunEcho, RunRead, Dispatch

\* A line after `echo' is printed, and is a command as well.
LEMMA EchoedLine ==
  ASSUME isArg = TRUE, CMDecho = TRUE, CMDread = FALSE
  PROVE  LET line == CString(buffer)
             word == Word(line)
         IN  LineResult = [isArg |-> word \in {"echo", "read"},
                           echo |-> word = "echo", read |-> word = "read",
                           arg |-> line,
                           out |-> << <<"echo", line>>, <<word, line>> >>]
BY DEF LineResult, TakeArgument, RunEcho, RunRead, Dispatch

\* A line after `read' names the file to read, and is a command as well.
LEMMA FileNameLine ==
  ASSUME isArg = TRUE, CMDecho = FALSE, CMDread = TRUE
  PROVE  LET line == CString(buffer)
             word == Word(line)
         IN  LineResult = [isArg |-> word \in {"echo", "read"},
                           echo |-> word = "echo", read |-> word = "read",
                           arg |-> line,
                           out |-> << <<"read", line>>, <<word, line>> >>]
BY DEF LineResult, TakeArgument, RunEcho, RunRead, Dispatch

\* The flags and the argument after a line, whatever they were.
LEMMA LineFlags ==
  ASSUME FlagTypes, OneArgumentAwaited
  PROVE  LET word == Word(CString(buffer)) IN
         /\ LineResult.isArg = (word \in {"echo", "read"})
         /\ LineResult.echo = (word = "echo")
         /\ LineResult.read = (word = "read")
         /\ LineResult.arg \in {CMDarg1, CString(buffer)}
<1> DEFINE line == CString(buffer)
           word == Word(line)
<1>1. CASE isArg = FALSE /\ CMDecho = FALSE /\ CMDread = FALSE
  <2>1. LineResult = [isArg |-> word \in {"echo", "read"},
                      echo |-> word = "echo", read |-> word = "read",
                      arg |-> CMDarg1, out |-> << <<word, line>> >>]
    BY <1>1, PlainLine, Zenon
  <2> QED  BY <2>1
<1>2. CASE isArg = TRUE /\ CMDecho = TRUE /\ CMDread = FALSE
  <2>1. LineResult = [isArg |-> word \in {"echo", "read"},
                      echo |-> word = "echo", read |-> word = "read",
                      arg |-> line, out |-> << <<"echo", line>>, <<word, line>> >>]
    BY <1>2, EchoedLine, Zenon
  <2> QED  BY <2>1
<1>3. CASE isArg = TRUE /\ CMDecho = FALSE /\ CMDread = TRUE
  <2>1. LineResult = [isArg |-> word \in {"echo", "read"},
                      echo |-> word = "echo", read |-> word = "read",
                      arg |-> line, out |-> << <<"read", line>>, <<word, line>> >>]
    BY <1>3, FileNameLine, Zenon
  <2> QED  BY <2>1
<1> QED  BY <1>1, <1>2, <1>3, Zenon DEF FlagTypes, OneArgumentAwaited

\* Enter moves the result of the line to the variables and empties the buffer.
LEMMA EnterMovesResult ==
  EnterPressed <=> /\ isArg' = LineResult.isArg
                   /\ CMDecho' = LineResult.echo /\ CMDread' = LineResult.read
                   /\ CMDarg1' = LineResult.arg /\ out' = LineResult.out
                   /\ buffer' = <<>> /\ typed' = <<>>
BY Zenon DEF EnterPressed, LineResult, NextLine

\* Types and flags are inductive together: only with the flags right is it known
\* which steps of the line run.
IInv == TypeOK /\ OneArgumentAwaited

\* Both hold at the start.
LEMMA InitIInv == Init => IInv
<1> SUFFICES ASSUME Init PROVE IInv
  OBVIOUS
<1>1. BufferTypes /\ TypedTypes /\ ArgTypes
  BY ShellAssumption DEF Init, BufferTypes, TypedTypes, ArgTypes, Strings
<1>2. FlagTypes /\ OneArgumentAwaited
  BY DEF Init, FlagTypes, OneArgumentAwaited
<1> QED  BY <1>1, <1>2, TypeParts DEF IInv

\* A character leaves both true, added or not.
LEMMA AddCharacterIInv ==
  ASSUME IInv, NEW ch \in Chars \cup {NUL}, AddCharacter(ch)
  PROVE  IInv'
<1>1. BufferTypes'
  BY TypeParts, ShellAssumption
     DEF IInv, AddCharacter, HasSpace, BufferTypes, Strings
<1>2. TypedTypes'
  BY TypeParts DEF IInv, AddCharacter, TypedTypes, Strings
<1>3. FlagTypes' /\ ArgTypes' /\ OneArgumentAwaited'
  BY TypeParts, Zenon
     DEF IInv, AddCharacter, flags, FlagTypes, ArgTypes, OneArgumentAwaited
<1>4. TypeOK' <=> (BufferTypes /\ TypedTypes /\ FlagTypes /\ ArgTypes)'
  BY TypeParts, PTL
<1> QED  BY <1>1, <1>2, <1>3, <1>4 DEF IInv

\* Enter leaves both true.
LEMMA EnterIInv ==
  ASSUME IInv, EnterPressed
  PROVE  IInv'
<1> DEFINE word == Word(CString(buffer))
<1>1. /\ isArg' = (word \in {"echo", "read"})
      /\ CMDecho' = (word = "echo") /\ CMDread' = (word = "read")
      /\ CMDarg1' \in {CMDarg1, CString(buffer)}
      /\ buffer' = <<>> /\ typed' = <<>>
  BY TypeParts, LineFlags, EnterMovesResult, Zenon DEF IInv
<1> HIDE DEF word
<1>2. BufferTypes' /\ TypedTypes'
  BY <1>1, ShellAssumption DEF BufferTypes, TypedTypes, Strings
<1>3. FlagTypes'
  BY <1>1 DEF FlagTypes
<1>4. ArgTypes'
  BY <1>1, TypeParts, CStringTypes DEF IInv, BufferTypes, ArgTypes
<1>5. OneArgumentAwaited'
  <2>1. CASE word = "echo"
    <3>1. isArg' = TRUE /\ CMDecho' = TRUE /\ CMDread' = FALSE
      BY <1>1, <2>1
    <3> QED  BY <3>1, Zenon DEF OneArgumentAwaited
  <2>2. CASE word = "read"
    <3>1. isArg' = TRUE /\ CMDecho' = FALSE /\ CMDread' = TRUE
      BY <1>1, <2>2
    <3> QED  BY <3>1, Zenon DEF OneArgumentAwaited
  <2>3. CASE word \notin {"echo", "read"}
    <3>1. (word \in {"echo", "read"}) = FALSE
      BY <2>3
    <3>2. (word = "echo") = FALSE /\ (word = "read") = FALSE
      BY <2>3
    <3>3. isArg' = FALSE /\ CMDecho' = FALSE /\ CMDread' = FALSE
      BY <1>1, <3>1, <3>2, Zenon
    <3> QED  BY <3>3, Zenon DEF OneArgumentAwaited
  <2> QED  BY <2>1, <2>2, <2>3
<1>6. TypeOK' <=> (BufferTypes /\ TypedTypes /\ FlagTypes /\ ArgTypes)'
  BY TypeParts, PTL
<1> QED  BY <1>2, <1>3, <1>4, <1>5, <1>6 DEF IInv

\* Types and flags are right in every reachable state.
LEMMA AlwaysIInv == Spec => []IInv
<1>1. ASSUME IInv, [Next]_vars
      PROVE  IInv'
  <2>1. CASE EnterPressed
    BY <1>1, <2>1, EnterIInv
  <2>2. ASSUME NEW ch \in Chars \cup {NUL}, AddCharacter(ch)
        PROVE  IInv'
    BY <1>1, <2>2, AddCharacterIInv
  <2>3. CASE UNCHANGED vars
    BY <1>1, <2>3 DEF IInv, vars, flags, TypeOK, OneArgumentAwaited
  <2> QED  BY <1>1, <2>1, <2>2, <2>3 DEF Next
<1> QED  BY InitIInv, <1>1, PTL DEF Spec

\* Type correctness of the loop in kmain: there is always a place in the buffer
\* for the NUL that ends the line.
THEOREM TypeCorrect == Spec => []TypeOK
<1>1. IInv => TypeOK
  BY DEF IInv
<1> QED  BY AlwaysIInv, <1>1, PTL

\* At most one command waits for an argument, and isArg says whether one does.
THEOREM OneArgument == Spec => []OneArgumentAwaited
<1>1. IInv => OneArgumentAwaited
  BY DEF IInv
<1> QED  BY AlwaysIInv, <1>1, PTL

-----------------------------------------------------------------------------
(* The loop implements the command line of LineShell.                      *)

\* The buffer holds what was typed since the last Enter, as far as it goes.
Width == BUFFER_SIZE - 1
BufferHoldsTyped ==
  /\ Len(buffer) = IF Len(typed) < Width THEN Len(typed) ELSE Width
  /\ \A k \in 1..Len(buffer) : buffer[k] = typed[k]

\* BufferHoldsTyped is kept by every step.
LEMMA StepKeepsBuffer ==
  ASSUME IInv, BufferHoldsTyped, [Next]_vars
  PROVE  BufferHoldsTyped'
<1>1. BufferTypes /\ TypedTypes
  BY TypeParts DEF IInv
<1>2. CASE EnterPressed
  BY <1>2, ShellAssumption, EnterMovesResult DEF BufferHoldsTyped, Width
<1>3. ASSUME NEW ch \in Chars \cup {NUL}, AddCharacter(ch)
      PROVE  BufferHoldsTyped'
  <2>1. CASE HasSpace
    <3>1. buffer' = Append(buffer, ch) /\ typed' = Append(typed, ch)
      BY <1>3, <2>1 DEF AddCharacter
    <3>2. Len(buffer) < Width /\ Len(buffer) = Len(typed)
      BY <1>1, <2>1 DEF HasSpace, BufferHoldsTyped, Width, BufferTypes, TypedTypes, Strings
    <3>3. BUFFER_SIZE \in Nat /\ Width \in Int
      BY ShellAssumption DEF Width
    <3> HIDE DEF Width
    <3> QED  BY <1>1, <3>1, <3>2, <3>3
             DEF BufferHoldsTyped, BufferTypes, TypedTypes, Strings
  <2>2. CASE ~ HasSpace
    <3>1. buffer' = buffer /\ typed' = Append(typed, ch)
      BY <1>3, <2>2 DEF AddCharacter
    <3>2. BUFFER_SIZE \in Nat /\ Width \in Int /\ Width = BUFFER_SIZE - 1
      BY ShellAssumption DEF Width
    <3>3. Len(buffer) = Width /\ Len(typed) >= Width
      BY <1>1, <2>2, <3>2
         DEF HasSpace, BufferHoldsTyped, BufferTypes, TypedTypes, Strings
    <3> HIDE DEF Width
    <3> QED  BY <1>1, <3>1, <3>2, <3>3
             DEF BufferHoldsTyped, BufferTypes, TypedTypes, Strings
  <2> QED  BY <2>1, <2>2
<1>4. CASE UNCHANGED vars
  BY <1>4 DEF vars, BufferHoldsTyped
<1> QED  BY <1>2, <1>3, <1>4 DEF Next

\* The string in the buffer is the line as LineShell cuts it.
LEMMA LineIsCut ==
  ASSUME BufferTypes, TypedTypes, BufferHoldsTyped
  PROVE  CString(buffer) = Lines!Cut(typed)
<1> DEFINE kept == {k \in 0..Len(typed) :
                      k <= Width /\ \A j \in 1..k : typed[j] # NUL}
<1>1. PICK m \in 0..Len(buffer) :
        EndsAt(buffer, m) /\ CString(buffer) = SubSeq(buffer, 1, m)
  BY CStringEnds DEF BufferTypes
<1>2. Len(buffer) \in Nat /\ Len(typed) \in Nat /\ Width \in Int
  BY ShellAssumption DEF BufferTypes, TypedTypes, Strings, Width
<1> HIDE DEF Width
<1>3. m \in kept
  BY <1>1, <1>2 DEF EndsAt, BufferHoldsTyped
<1>4. ASSUME NEW k \in kept PROVE k <= m
  <2>1. k <= Len(buffer)
    BY <1>2 DEF BufferHoldsTyped
  <2>2. CASE m < k
    <3>1. m + 1 \in 1..k /\ m < Len(buffer) /\ m + 1 \in 1..Len(buffer)
      BY <1>2, <2>1, <2>2
    <3>2. typed[m + 1] = NUL
      BY <1>1, <3>1 DEF EndsAt, BufferHoldsTyped
    <3> QED  BY <3>1, <3>2
  <2> QED  BY <1>2, <2>2
<1>5. (CHOOSE k \in kept : \A j \in kept : j <= k) = m
  <2>1. \A k \in kept : (\A j \in kept : j <= k) => k = m
    BY <1>2, <1>3, <1>4
  <2>2. \A j \in kept : j <= m
    BY <1>4
  <2> HIDE DEF kept
  <2> QED  BY <1>3, <2>1, <2>2
<1>6. Lines!Cut(typed) = SubSeq(typed, 1, m)
  BY <1>5 DEF Lines!Cut, Width
<1>7. SubSeq(buffer, 1, m) = SubSeq(typed, 1, m)
  BY <1>1, <1>2 DEF BufferHoldsTyped, BufferTypes, TypedTypes, Strings
<1> QED  BY <1>1, <1>6, <1>7

\* A line that is `echo' or `read' is answered as that command.
LEMMA ArgumentWords ==
  \A line : (Word(line) = "echo" <=> line = echo)
            /\ (Word(line) = "read" <=> line = read)
BY ShellAssumption DEF Word

\* Enter in the code is Enter in LineShell.
LEMMA EnterImplementsEnter ==
  ASSUME IInv, BufferHoldsTyped, EnterPressed
  PROVE  Lines!Enter
<1> DEFINE line == CString(buffer)
           word == Word(line)
           mode == IF CMDecho THEN "echo" ELSE IF CMDread THEN "read" ELSE "none"
<1>1. line = Lines!Cut(typed)
  BY TypeParts, LineIsCut DEF IInv
<1>2. typed' = <<>> /\ out' = LineResult.out
  BY EnterMovesResult
<1>3. CMDecho' = (word = "echo") /\ CMDread' = (word = "read")
  BY TypeParts, LineFlags, EnterMovesResult, Zenon DEF IInv
<1>4. mode' = IF line = echo THEN "echo" ELSE IF line = read THEN "read" ELSE "none"
  <2>1. (word = "echo" <=> line = echo) /\ (word = "read" <=> line = read)
    BY ArgumentWords
  <2> HIDE DEF line, word
  <2> QED  BY <1>3, <2>1, Zenon
<1>5. LineResult.out = (IF mode = "none" THEN <<>> ELSE << <<mode, line>> >>)
                         \o << <<word, line>> >>
  <2>1. CASE isArg = FALSE /\ CMDecho = FALSE /\ CMDread = FALSE
    <3>1. LineResult = [isArg |-> word \in {"echo", "read"},
                        echo |-> word = "echo", read |-> word = "read",
                        arg |-> CMDarg1, out |-> << <<word, line>> >>]
      BY <2>1, PlainLine, Zenon
    <3>2. mode = "none"
      BY <2>1
    <3> HIDE DEF line, word, mode
    <3> QED  BY <3>1, <3>2
  <2>2. CASE isArg = TRUE /\ CMDecho = TRUE /\ CMDread = FALSE
    <3>1. LineResult = [isArg |-> word \in {"echo", "read"},
                        echo |-> word = "echo", read |-> word = "read",
                        arg |-> line, out |-> << <<"echo", line>>, <<word, line>> >>]
      BY <2>2, EchoedLine, Zenon
    <3>2. mode = "echo"
      BY <2>2
    <3> HIDE DEF line, word, mode
    <3> QED  BY <3>1, <3>2
  <2>3. CASE isArg = TRUE /\ CMDecho = FALSE /\ CMDread = TRUE
    <3>1. LineResult = [isArg |-> word \in {"echo", "read"},
                        echo |-> word = "echo", read |-> word = "read",
                        arg |-> line, out |-> << <<"read", line>>, <<word, line>> >>]
      BY <2>3, FileNameLine, Zenon
    <3>2. mode = "read"
      BY <2>3
    <3> HIDE DEF line, word, mode
    <3> QED  BY <3>1, <3>2
  <2> QED  BY TypeParts, <2>1, <2>2, <2>3, Zenon
           DEF IInv, FlagTypes, OneArgumentAwaited
<1> QED  BY <1>1, <1>2, <1>4, <1>5 DEF Lines!Enter

\* The loop implements LineShell: the argument goes to the command that asked, and
\* a line is what was typed, cut to the buffer and at the first NUL.
THEOREM ImplementsLines == Spec => LineShellSpec
<1>1. Init => BufferHoldsTyped /\ Lines!Init
  <2>1. Init => BufferHoldsTyped
    BY ShellAssumption DEF Init, BufferHoldsTyped, Width
  <2>2. Init => Lines!Init
    BY DEF Init, Lines!Init
  <2> QED  BY <2>1, <2>2
<1>2. IInv /\ BufferHoldsTyped /\ [Next]_vars => BufferHoldsTyped'
  BY StepKeepsBuffer
<1>3. IInv /\ BufferHoldsTyped /\ [Next]_vars => [Lines!Next]_(Lines!lineVars)
  <2> SUFFICES ASSUME IInv, BufferHoldsTyped, [Next]_vars
               PROVE  [Lines!Next]_(Lines!lineVars)
    OBVIOUS
  <2>1. CASE EnterPressed
    BY <2>1, EnterImplementsEnter DEF Lines!Next
  <2>2. ASSUME NEW ch \in Chars \cup {NUL}, AddCharacter(ch)
        PROVE  Lines!Type(ch)
    BY <2>2 DEF AddCharacter, flags, Lines!Type
  <2>3. CASE UNCHANGED vars
    BY <2>3 DEF vars, flags, Lines!lineVars
  <2> QED  BY <2>1, <2>2, <2>3 DEF Next, Lines!Next
<1> QED  BY <1>1, <1>2, <1>3, AlwaysIInv, PTL DEF Spec, LineShellSpec, Lines!Spec

-----------------------------------------------------------------------------
(* The keyboard under the command line: what KeyboardProofs shows of the   *)
(* driver alone holds here, where the loop is its only reader.             *)

KP == INSTANCE KeyboardProofs WITH typed <- struck

\* The keys are the keyboard's.
LEMMA KeysAssumed == KP!KeyboardAssumption
BY ConsoleAssumption DEF KP!KeyboardAssumption

\* An interrupt is the driver's, and leaves the line alone.
LEMMA KeyEventIsDriver == KeyEvent => KP!Next
<1>1. ASSUME NEW b \in Scancodes, K!keyboard_handler(b)
      PROVE  KP!keyboard_handler(b)
  <2>1. K!OrdinaryKeyPressed(b) <=> KP!OrdinaryKeyPressed(b)
    <3>1. K!KeyChar(b, g_caps_lock, g_shift_pressed)
            = KP!KeyChar(b, g_caps_lock, g_shift_pressed)
      BY DEF K!KeyChar, KP!KeyChar, K!g_scan_code_chars, KP!g_scan_code_chars,
             K!ListedChars, KP!ListedChars, K!alternate_chars, KP!alternate_chars,
             K!upper, KP!upper, K!isalpha, KP!isalpha, K!PlainSymbols,
             KP!PlainSymbols, K!ShiftedSymbols, KP!ShiftedSymbols
    <3> QED
      BY <3>1 DEF K!OrdinaryKeyPressed, KP!OrdinaryKeyPressed,
           K!SCAN_CODE_KEY_CAPS_LOCK, K!SCAN_CODE_KEY_LEFT_SHIFT,
           K!SCAN_CODE_KEY_ENTER, K!SCAN_CODE_KEY_TAB,
           KP!SCAN_CODE_KEY_CAPS_LOCK, KP!SCAN_CODE_KEY_LEFT_SHIFT,
           KP!SCAN_CODE_KEY_ENTER, KP!SCAN_CODE_KEY_TAB
  <2> QED
    BY <1>1, <2>1 DEF K!keyboard_handler, KP!keyboard_handler,
      K!LatchScancode, KP!LatchScancode, K!SignedChar, KP!SignedChar,
      K!KeyReleased, KP!KeyReleased, K!CapsLockPressed, KP!CapsLockPressed,
      K!LeftShiftPressed, KP!LeftShiftPressed,
      K!EnterOrTabPressed, KP!EnterOrTabPressed,
      K!SCAN_CODE_KEY_CAPS_LOCK, K!SCAN_CODE_KEY_LEFT_SHIFT,
      K!SCAN_CODE_KEY_ENTER, K!SCAN_CODE_KEY_TAB,
      KP!SCAN_CODE_KEY_CAPS_LOCK, KP!SCAN_CODE_KEY_LEFT_SHIFT,
      KP!SCAN_CODE_KEY_ENTER, KP!SCAN_CODE_KEY_TAB, K!readerVars, KP!readerVars
<1> QED  BY <1>1 DEF KeyEvent, KP!Next

\* So are the steps of the loop.
LEMMA ReaderIsDriver == Reader => KP!Next
BY DEF Reader, Uses, K!GetcharStep, K!CallGetchar, K!GetcharReady, K!GetcharTake,
   K!GetcharClear, K!GetcharReturn, K!CallerUses, K!driverVars,
   KP!Next, KP!Reader, KP!GetcharStep, KP!CallGetchar, KP!GetcharReady, KP!GetcharTake,
   KP!GetcharClear, KP!GetcharReturn, KP!CallerUses, KP!driverVars

\* Whatever the loop does with the characters, the driver runs as it does alone.
LEMMA DriverRuns == ConsoleSpec => KP!Spec
<1>1. ConsoleInit => KP!Init
  BY DEF ConsoleInit, K!Init, KP!Init
<1>2. [ConsoleNext]_consoleVars => [KP!Next]_(KP!vars)
  <2>1. UNCHANGED consoleVars => UNCHANGED KP!vars
    BY DEF consoleVars, K!vars, K!driverVars, K!readerVars,
           KP!vars, KP!driverVars, KP!readerVars
  <2> QED  BY <2>1, KeyEventIsDriver, ReaderIsDriver DEF ConsoleNext
<1> QED  BY <1>1, <1>2, PTL DEF ConsoleSpec, KP!Spec

\* Its types, and a full mailbox that holds the newest keystroke.
LEMMA DriverAlways == ConsoleSpec => [](KP!TypeOK /\ KP!HoldsNewest)
BY DriverRuns, KeysAssumed, KP!TypeCorrect, KP!MailboxHoldsNewest, PTL


\* In particular its keystrokes are delivered once, unaltered and in order.
THEOREM KeystrokesDeliveredOnce == ConsoleSpec => KP!MailboxSpec
BY DriverRuns, KeysAssumed, KP!ImplementsMailbox, PTL

-----------------------------------------------------------------------------
(* The characters that reach the loop.                                     *)

Given == Chars \cup {NUL, EnterKey}

\* Where the loop is in kb_getchar, the only read it makes.
GetcharPcs == {"out", "char_wait", "char_take", "char_clear", "char_clear_scan",
               "char_returned"}

CharInv == pc \in GetcharPcs /\ g_ch \in Given /\ c \in Given

\* The loop looks for what the Enter key gives.
LEMMA EnterIsNewLine == EnterKey = NewLine
BY DEF EnterKey, NewLine, K!g_scan_code_chars, K!SCAN_CODE_KEY_ENTER, K!ListedChars

\* A key event leaves one of these characters in the mailbox, or none.
LEMMA KeyGives ==
  ASSUME NEW b \in Scancodes, K!keyboard_handler(b),
         g_caps_lock \in BOOLEAN, g_shift_pressed \in BOOLEAN
  PROVE  g_ch' \in Given
<1>1. b \in 0..255 /\ 0 \in Given /\ EnterKey \in Given
  BY ConsoleAssumption DEF Given
<1>2. b < 128 => \A caps, shift \in BOOLEAN : K!KeyChar(b, caps, shift) \in Given
  BY ConsoleAssumption DEF Given
<1>3. CASE K!KeyReleased(b) \/ K!CapsLockPressed(b) \/ K!LeftShiftPressed(b)
  BY <1>1, <1>3 DEF K!KeyReleased, K!CapsLockPressed, K!LeftShiftPressed
<1>4. CASE K!EnterOrTabPressed(b)
  <2>1. CASE b = K!SCAN_CODE_KEY_ENTER /\ g_ch' = 10
    BY <1>1, <2>1, EnterIsNewLine DEF NewLine
  <2>2. CASE b = K!SCAN_CODE_KEY_TAB /\ g_ch' = 9
    <3>1. K!KeyChar(b, FALSE, FALSE) = 9
      BY <2>2 DEF K!KeyChar, K!g_scan_code_chars, K!ListedChars, K!SCAN_CODE_KEY_TAB
    <3>2. b < 128
      BY <2>2 DEF K!SCAN_CODE_KEY_TAB
    <3>3. K!KeyChar(b, FALSE, FALSE) \in Given
      BY <1>2, <3>2, Zenon
    <3> QED  BY <2>2, <3>1, <3>3
  <2> QED  BY <1>4, <2>1, <2>2 DEF K!EnterOrTabPressed
<1>5. CASE K!OrdinaryKeyPressed(b)
  <2>1. g_ch' = K!KeyChar(b, g_caps_lock, g_shift_pressed) /\ b < 128
    BY <1>5 DEF K!OrdinaryKeyPressed
  <2> QED  BY <1>2, <2>1, Zenon
<1> QED  BY <1>3, <1>4, <1>5 DEF K!keyboard_handler

\* What the loop is given is a character of the line, Enter or NUL, always.
LEMMA AlwaysGiven == ConsoleSpec => []CharInv
<1>1. ConsoleInit => CharInv
  BY ConsoleAssumption DEF ConsoleInit, K!Init, CharInv, GetcharPcs, Given
<1>2. KP!TypeOK /\ CharInv /\ [ConsoleNext]_consoleVars => CharInv'
  <2> SUFFICES ASSUME KP!TypeOK, CharInv, [ConsoleNext]_consoleVars
               PROVE  CharInv'
    OBVIOUS
  <2>1. CASE KeyEvent
    <3>1. PICK b \in Scancodes : K!keyboard_handler(b)
      BY <2>1 DEF KeyEvent
    <3>2. g_caps_lock \in BOOLEAN /\ g_shift_pressed \in BOOLEAN
      BY DEF KP!TypeOK, KP!ModifierTypes
    <3>3. g_ch' \in Given
      BY <3>1, <3>2, KeyGives
    <3>4. UNCHANGED <<pc, c>>
      BY <3>1 DEF K!keyboard_handler, K!readerVars
    <3> QED  BY <3>3, <3>4 DEF CharInv
  <2>2. CASE Reader
    <3>1. 0 \in Given
      BY ConsoleAssumption DEF Given
    <3>2. CASE K!GetcharStep
      BY <3>1, <3>2 DEF CharInv, GetcharPcs, K!GetcharStep, K!CallGetchar,
           K!GetcharReady, K!GetcharTake, K!GetcharClear, K!GetcharReturn,
           K!driverVars
    <3>3. CASE Uses
      BY <3>3 DEF CharInv, GetcharPcs, Uses, K!CallerUses, K!driverVars
    <3> QED  BY <2>2, <3>2, <3>3 DEF Reader
  <2>3. CASE UNCHANGED consoleVars
    BY <2>3 DEF consoleVars, K!vars, K!driverVars, K!readerVars, CharInv
  <2> QED  BY <2>1, <2>2, <2>3 DEF ConsoleNext
<1> QED  BY <1>1, <1>2, DriverAlways, PTL DEF ConsoleSpec

\* On top of the driver the loop runs as Shell has it alone: the characters Shell
\* assumes are all that the keyboard can give.
THEOREM ShellRuns == ConsoleSpec => Spec
<1>1. ConsoleInit => Init
  BY DEF ConsoleInit
<1>2. CharInv /\ [ConsoleNext]_consoleVars => [Next]_vars
  <2> SUFFICES ASSUME CharInv, [ConsoleNext]_consoleVars
               PROVE  [Next]_vars
    OBVIOUS
  <2>1. CASE Uses
    <3>1. CASE c = NewLine
      BY <2>1, <3>1 DEF Uses, Next
    <3>2. CASE c # NewLine
      <4>1. c \in Chars \cup {NUL}
        BY <3>2, EnterIsNewLine DEF CharInv, Given
      <4>2. AddCharacter(c)
        BY <2>1, <3>2 DEF Uses
      <4> QED  BY <4>1, <4>2 DEF Next
    <3> QED  BY <3>1, <3>2
  <2>2. CASE UNCHANGED vars
    BY <2>2
  <2> QED  BY <2>1, <2>2 DEF ConsoleNext, KeyEvent, Reader, consoleVars
<1> QED  BY <1>1, <1>2, AlwaysGiven, PTL DEF ConsoleSpec, Spec

\* So what Shell promises alone, it keeps: its types, one argument awaited at most,
\* and the command line that LineShell describes.
THEOREM ShellPromisesKept ==
  ConsoleSpec => [](TypeOK /\ OneArgumentAwaited) /\ LineShellSpec
BY ShellRuns, TypeCorrect, OneArgument, ImplementsLines, PTL


-----------------------------------------------------------------------------
(* Where the characters of the line come from.                             *)

\* What comes from elements m to n of a sequence comes from a longer stretch of any
\* sequence with the same elements there.
LEMMA KeepsComing ==
  ASSUME NEW line, NEW s, NEW s2, NEW m \in Nat, NEW n \in Nat, NEW n2 \in Nat,
         n <= n2, \A k \in m..n : s2[k] = s[k], ComesFrom(line, s, m, n)
  PROVE  ComesFrom(line, s2, m, n2)
<1>1. PICK at \in [Shown(line) -> m..n] :
         /\ \A i \in Shown(line) : s[at[i]] = line[i]
         /\ \A i, j \in Shown(line) : i < j => at[i] < at[j]
  BY DEF ComesFrom
<1>2. at \in [Shown(line) -> m..n2]
  BY <1>1
<1>3. \A i \in Shown(line) : s2[at[i]] = line[i]
  BY <1>1
<1> QED  BY <1>1, <1>2, <1>3 DEF ComesFrom

\* A NUL adds nothing that is shown.
LEMMA NULNotShown ==
  ASSUME NEW T, NEW line \in Seq(T), NEW s, NEW m, NEW n, NUL \in T,
         ComesFrom(line, s, m, n)
  PROVE  ComesFrom(Append(line, NUL), s, m, n)
<1>1. Shown(Append(line, NUL)) = Shown(line)
  BY DEF Shown
<1>2. \A i \in Shown(line) : Append(line, NUL)[i] = line[i]
  BY DEF Shown
<1>3. PICK at \in [Shown(line) -> m..n] :
         /\ \A i \in Shown(line) : s[at[i]] = line[i]
         /\ \A i, j \in Shown(line) : i < j => at[i] < at[j]
  BY DEF ComesFrom
<1> QED  BY <1>1, <1>2, <1>3, Zenon DEF ComesFrom

\* The element after those a line comes from may be added to it.
LEMMA OneMoreShown ==
  ASSUME NEW T, NEW line \in Seq(T), NEW ch \in T, ch # NUL, NEW s,
         NEW m \in Nat, NEW n \in Nat, m <= n, s[n] = ch,
         ComesFrom(line, s, m, n - 1)
  PROVE  ComesFrom(Append(line, ch), s, m, n)
<1> DEFINE longer == Append(line, ch)
           last == Len(line) + 1
<1>1. Shown(longer) = Shown(line) \cup {last}
  BY DEF Shown
<1>2. /\ \A i \in Shown(line) : longer[i] = line[i] /\ i \in Nat /\ i < last
      /\ longer[last] = ch
  BY DEF Shown
<1>3. PICK at \in [Shown(line) -> m..(n - 1)] :
         /\ \A i \in Shown(line) : s[at[i]] = line[i]
         /\ \A i, j \in Shown(line) : i < j => at[i] < at[j]
  BY DEF ComesFrom
<1> DEFINE to == [i \in Shown(longer) |-> IF i = last THEN n ELSE at[i]]
<1>4. last \in Nat
  OBVIOUS
<1> HIDE DEF longer, last
<1>5. \A i \in Shown(line) : to[i] = at[i] /\ at[i] \in m..(n - 1)
  BY <1>1, <1>2, <1>3
<1>6. to[last] = n
  BY <1>1
<1>7. to \in [Shown(longer) -> m..n]
  BY <1>1, <1>2, <1>3
<1> HIDE DEF to
<1>8. \A i \in Shown(longer) : s[to[i]] = longer[i]
  BY <1>1, <1>2, <1>3, <1>5, <1>6
<1>9. \A i, j \in Shown(longer) : i < j => to[i] < to[j]
  BY <1>1, <1>2, <1>3, <1>4, <1>5, <1>6
<1>10. ComesFrom(longer, s, m, n)
  BY <1>7, <1>8, <1>9, Zenon DEF ComesFrom
<1> QED  BY <1>10 DEF longer

\* Nothing comes from anywhere.
LEMMA NothingShown == \A s, m, n : ComesFrom(<<>>, s, m, n)
<1> SUFFICES ASSUME NEW s, NEW m, NEW n PROVE ComesFrom(<<>>, s, m, n)
  OBVIOUS
<1>1. Shown(<<>>) = {}
  BY DEF Shown
<1>2. <<>> \in [{} -> m..n]
  OBVIOUS
<1> QED  BY <1>1, <1>2 DEF ComesFrom

-----------------------------------------------------------------------------
(* The line as it was typed.                                               *)

\* kb_getchar has taken a character that the loop has not used.
InHand == pc \in {"char_clear", "char_clear_scan", "char_returned"} /\ c # 0

\* The last keystroke whose character the loop has used.
Used == IF InHand THEN taken - 1 ELSE taken

\* The Enter the line began after comes before what the line is made of, and the
\* character in hand comes after it.
LineInv ==
  /\ answered \in Nat /\ answered <= Used
  /\ InHand => struck[taken] = c
  /\ answered # 0 => struck[answered] = EnterKey
  /\ ComesFrom(typed, struck, answered + 1, Used)

\* What the proof needs of the types: of the driver, and of the line.
LineTypes == /\ struck \in Seq(1..127) /\ taken \in 0..Len(struck)
             /\ typed \in Seq(Chars \cup {NUL})
             /\ g_ch # 0 => g_ch = struck[Len(struck)]
                            /\ (pc # "char_clear" => taken < Len(struck))

\* They follow from what the two parts promise.
LEMMA LineTypesAlways == ConsoleSpec => []LineTypes
<1>1. KP!TypeOK /\ KP!HoldsNewest /\ TypeOK => LineTypes
  BY DEF KP!TypeOK, KP!MailboxTypes, KP!HoldsNewest, TypeOK, LineTypes
<1> QED  BY <1>1, DriverAlways, ShellPromisesKept, PTL

\* A key event strikes at most one key more.
LEMMA KeyEventKeepsLine ==
  ASSUME LineTypes, LineTypes', LineInv, KeyEvent
  PROVE  LineInv'
<1>1. PICK b \in Scancodes : K!keyboard_handler(b)
  BY DEF KeyEvent
<1>2. UNCHANGED <<pc, c, taken, typed, answered>>
  BY <1>1 DEF KeyEvent, K!keyboard_handler, K!readerVars, vars
<1>3. \A k \in 1..Len(struck) : struck'[k] = struck[k]
  <2>1. struck' = struck \/ struck' = Append(struck, g_ch')
    BY <1>1 DEF K!keyboard_handler
  <2>2. struck \in Seq(1..127)
    BY DEF LineTypes
  <2>3. \A e : \A k \in 1..Len(struck) : Append(struck, e)[k] = struck[k]
    BY <2>2
  <2> QED  BY <2>1, <2>3, Zenon
<1>4. InHand' = InHand /\ Used' = Used
  BY <1>2 DEF InHand, Used
<1>5. /\ Used \in Nat /\ taken \in Nat /\ Len(struck) \in Nat /\ answered \in Nat
      /\ answered <= Used /\ Used <= taken /\ taken <= Len(struck)
      /\ InHand => taken # 0
  BY DEF LineInv, LineTypes, Used
<1>6. ComesFrom(typed, struck', answered + 1, Used)
  <2>1. \A k \in (answered + 1)..Used : struck'[k] = struck[k]
    <3>1. \A k \in (answered + 1)..Used : k \in 1..Len(struck)
      BY <1>5
    <3> QED  BY <1>3, <3>1, Zenon
  <2> QED  BY <1>5, <2>1, KeepsComing DEF LineInv
<1>7. InHand => struck'[taken] = c
  <2>1. InHand => taken \in 1..Len(struck)
    BY <1>5
  <2> QED  BY <1>3, <2>1, Zenon DEF LineInv
<1>8. answered # 0 => struck'[answered] = EnterKey
  <2>1. answered # 0 => answered \in 1..Len(struck)
    BY <1>5
  <2> QED  BY <1>3, <2>1, Zenon DEF LineInv
<1> QED  BY <1>2, <1>4, <1>5, <1>6, <1>7, <1>8 DEF LineInv

\* kb_getchar uses none of its characters; what it takes is newer than all it had.
LEMMA GetcharKeepsLine ==
  ASSUME LineTypes, LineInv, K!GetcharStep, UNCHANGED <<vars, answered>>
  PROVE  LineInv'
<1>1. UNCHANGED <<struck, typed, answered>>
  BY DEF K!GetcharStep, K!CallGetchar, K!GetcharReady, K!GetcharTake,
         K!GetcharClear, K!GetcharReturn, vars
<1>2. CASE K!GetcharTake /\ g_ch # 0
  <2>1. ~ InHand /\ InHand' /\ taken' = Len(struck) /\ taken < Len(struck) /\ c' = g_ch
    BY <1>2 DEF K!GetcharTake, InHand, LineTypes
  <2>2. Used = taken /\ Used' = taken' - 1
    BY <2>1 DEF Used
  <2>3. answered \in Nat /\ taken \in Nat /\ Len(struck) \in Nat /\ answered <= taken
    BY <2>2 DEF LineTypes, LineInv
  <2>4. ComesFrom(typed, struck, answered + 1, taken' - 1)
    <3>1. taken' - 1 \in Nat /\ taken <= taken' - 1
      BY <2>1, <2>3
    <3> QED  BY <2>2, <2>3, <3>1, KeepsComing DEF LineInv
  <2>5. struck[taken'] = c'
    BY <1>2, <2>1 DEF LineTypes
  <2> QED  BY <1>1, <2>1, <2>2, <2>3, <2>4, <2>5 DEF LineInv
<1>3. CASE ~ (K!GetcharTake /\ g_ch # 0)
  <2>1. UNCHANGED taken
    BY <1>3 DEF K!GetcharStep, K!CallGetchar, K!GetcharReady, K!GetcharTake,
                K!GetcharClear, K!GetcharReturn
  <2>2. InHand' = InHand /\ (InHand => c' = c)
    BY <1>3 DEF InHand, K!GetcharStep, K!CallGetchar, K!GetcharReady,
                K!GetcharTake, K!GetcharClear, K!GetcharReturn
  <2>3. Used' = Used
    BY <2>1, <2>2 DEF Used
  <2> QED  BY <1>1, <2>1, <2>2, <2>3 DEF LineInv
<1> QED  BY <1>2, <1>3

\* The loop adds the character in hand to the line, or answers the line.
LEMMA UseKeepsLine ==
  ASSUME LineTypes, LineTypes', CharInv, LineInv, Uses
  PROVE  LineInv'
<1>1. /\ pc = "char_returned" /\ pc' = "out"
      /\ UNCHANGED <<c, struck, taken>>
  BY DEF Uses, K!CallerUses, CharInv, GetcharPcs
<1>2. ~ InHand' /\ Used' = taken
  BY <1>1 DEF InHand, Used
<1>3. /\ InHand <=> c # 0
      /\ Used = IF c # 0 THEN taken - 1 ELSE taken
  BY <1>1 DEF InHand, Used
<1>4. /\ answered \in Nat /\ taken \in Nat /\ Used \in Int
      /\ answered <= Used /\ Used <= taken
  BY <1>3 DEF LineInv, LineTypes
<1>5. CASE c = NewLine
  <2>1. typed' = <<>> /\ answered' = taken
    BY <1>5 DEF Uses, EnterPressed
  <2>2. struck[taken] = EnterKey
    BY <1>3, <1>5, EnterIsNewLine DEF LineInv, NewLine
  <2>3. ComesFrom(typed', struck, answered' + 1, taken)
    BY <2>1, NothingShown
  <2> QED  BY <1>1, <1>2, <1>4, <2>1, <2>2, <2>3 DEF LineInv
<1>6. CASE c # NewLine
  <2>1. typed' = Append(typed, c) /\ answered' = answered
    BY <1>6 DEF Uses, AddCharacter
  <2>2. c \in Chars \cup {NUL} /\ NUL = 0
    BY <1>6, EnterIsNewLine, ConsoleAssumption DEF CharInv, Given
  <2>3. ComesFrom(typed', struck, answered + 1, taken)
    <3>1. CASE c = 0
      BY <1>3, <2>1, <2>2, <3>1, NULNotShown DEF LineInv, LineTypes
    <3>2. CASE c # 0
      <4>1. answered + 1 \in Nat /\ answered + 1 <= taken
        BY <1>3, <1>4, <3>2
      <4>2. struck[taken] = c /\ ComesFrom(typed, struck, answered + 1, taken - 1)
        BY <1>3, <3>2 DEF LineInv
      <4> QED  BY <1>4, <2>1, <2>2, <3>2, <4>1, <4>2, OneMoreShown DEF LineTypes
    <3> QED  BY <3>1, <3>2
  <2>4. answered <= taken
    BY <1>4
  <2> QED  BY <1>1, <1>2, <1>4, <2>1, <2>3, <2>4, Zenon DEF LineInv
<1> QED  BY <1>5, <1>6

\* Whatever key events fall between the accesses of kb_getchar, the line being typed
\* holds keystrokes struck after the Enter that ended the line before, each at most
\* once and in their order, with nothing made up but NULs.
THEOREM LinesAreTyped == ConsoleSpec => []LineAsTyped
<1>1. ConsoleInit => LineInv
  <2>1. ConsoleInit => answered = 0 /\ taken = 0 /\ pc = "out" /\ typed = <<>>
    BY DEF ConsoleInit, K!Init, Init
  <2>2. ConsoleInit => ~ InHand /\ Used = 0
    BY <2>1 DEF InHand, Used
  <2> QED  BY <2>1, <2>2, NothingShown DEF LineInv
<1>2. LineTypes /\ LineTypes' /\ CharInv /\ LineInv /\ [ConsoleNext]_consoleVars => LineInv'
  <2> SUFFICES ASSUME LineTypes, LineTypes', CharInv, LineInv, [ConsoleNext]_consoleVars
               PROVE  LineInv'
    OBVIOUS
  <2>1. CASE UNCHANGED consoleVars
    BY <2>1 DEF consoleVars, vars, K!vars, K!readerVars, LineInv, InHand, Used
  <2> QED  BY <2>1, KeyEventKeepsLine, GetcharKeepsLine, UseKeepsLine
           DEF ConsoleNext, Reader
<1>3. LineTypes /\ LineInv => LineAsTyped
  <2> SUFFICES ASSUME LineTypes, LineInv
               PROVE  LineAsTyped
    OBVIOUS
  <2>1. Used \in Nat /\ taken \in Nat /\ Used <= taken /\ answered + 1 \in Nat
    BY DEF LineTypes, LineInv, Used
  <2>2. ComesFrom(typed, struck, answered + 1, taken)
    BY <2>1, KeepsComing DEF LineInv
  <2> QED  BY <2>2 DEF LineInv, LineAsTyped
<1> QED  BY <1>1, <1>2, <1>3, LineTypesAlways, AlwaysGiven, PTL DEF ConsoleSpec
=============================================================================
