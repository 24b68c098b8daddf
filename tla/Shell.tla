-------------------------------- MODULE Shell --------------------------------
(***************************************************************************)
(* The command line, the loop of kmain in libsa/main.c: it takes one       *)
(* character at a time from kb_getchar, collects a line in a fixed buffer, *)
(* and at Enter goes through the four steps of the code in their order,    *)
(* with the flags that carry `echo' and `read' over to the next line.      *)
(*                                                                         *)
(* The characters are any that Keyboard shows kb_getchar to return, NUL    *)
(* among them.  Strings are sequences of characters.  The echo of single   *)
(* characters, the prompts and the wording of the answers are left out.    *)
(***************************************************************************)
EXTENDS Integers, Sequences

CONSTANTS Chars,                      \* the characters in use, not Enter or NUL
          NUL,
          BUFFER_SIZE,
          hello, help, echo, read,    \* the command words, as strings
          MaxTyped                    \* bound on the characters before an Enter

ASSUME ShellAssumption ==
  /\ NUL \notin Chars
  /\ BUFFER_SIZE \in Nat \ {0} /\ MaxTyped \in Nat
  /\ {hello, help, echo, read} \subseteq Seq(Chars)
  /\ echo # read /\ {hello, help} \cap {echo, read} = {}

VARIABLES buffer,        \* the first buffer_index characters of the C array
          isArg,         \* the next line is an argument
          CMDecho, CMDread, CMDarg1,
          typed,         \* history: all characters since the last Enter
          out            \* history: what the last line printed

flags == <<isArg, CMDecho, CMDread, CMDarg1>>
vars == <<buffer, flags, typed, out>>

Init == /\ buffer = <<>>
        /\ isArg = FALSE /\ CMDecho = FALSE /\ CMDread = FALSE /\ CMDarg1 = <<>>
        /\ typed = <<>> /\ out = <<>>

\* The string in the array once buffer[buffer_index] = '\0'.
CString(s) == LET nuls == {k \in 1..Len(s) : s[k] = NUL} IN
              IF nuls = {} THEN s
              ELSE SubSeq(s, 1, (CHOOSE k \in nuls : \A j \in nuls : k <= j) - 1)

\* A plausible slip: the place for the NUL is given away.
HasSpace_Full == Len(buffer) < BUFFER_SIZE

HasSpace == Len(buffer) < BUFFER_SIZE - 1

\* An ordinary character: it is added, or the "Buffer overflow" message printed.
AddCharacter(c) == /\ Len(typed) < MaxTyped
                   /\ buffer' = IF HasSpace THEN Append(buffer, c) ELSE buffer
                   /\ typed' = Append(typed, c)
                   /\ UNCHANGED <<flags, out>>

(***************************************************************************)
(* The steps of a line.  The state they pass on is a record of the flags,  *)
(* the argument and the output.                                            *)
(***************************************************************************)
TakeArgument(s, line) ==
  IF s.isArg THEN [s EXCEPT !.arg = line, !.isArg = FALSE] ELSE s

\* A plausible slip: the flag is not reset, and every later line is echoed.
RunEcho_KeepsFlag(s) ==
  IF s.echo THEN [s EXCEPT !.out = Append(@, <<"echo", s.arg>>)] ELSE s

RunEcho(s) ==
  IF s.echo THEN [s EXCEPT !.out = Append(@, <<"echo", s.arg>>), !.echo = FALSE]
  ELSE s

\* VD_ReadData(CMDarg1, bofreA) and the printing of what it returned.
RunRead(s) ==
  IF s.read THEN [s EXCEPT !.out = Append(@, <<"read", s.arg>>), !.read = FALSE]
  ELSE s

Word(line) == IF line = hello THEN "hello" ELSE IF line = help THEN "help"
              ELSE IF line = echo THEN "echo" ELSE IF line = read THEN "read"
              ELSE "unrecognized"

\* The argument line comes here too.  The last else is silent only if both flags
\* are set.
Dispatch(s, line) ==
  LET word   == Word(line)
      silent == word = "unrecognized" /\ s.echo /\ s.read
  IN  [isArg |-> s.isArg \/ word \in {"echo", "read"},
       echo  |-> s.echo \/ word = "echo",
       read  |-> s.read \/ word = "read",
       arg   |-> s.arg,
       out   |-> IF silent THEN s.out ELSE Append(s.out, <<word, line>>)]

\* A plausible slip: the line is not emptied after an argument.
NextLine_KeepsArgument(s) == buffer' = IF s.isArg THEN buffer ELSE <<>>

\* buffer_index = 0
NextLine(s) == buffer' = <<>>

EnterPressed ==
  LET line == CString(buffer)
      s0   == [isArg |-> isArg, echo |-> CMDecho, read |-> CMDread,
               arg |-> CMDarg1, out |-> <<>>]
      s    == Dispatch(RunRead(RunEcho(TakeArgument(s0, line))), line)
  IN  /\ isArg' = s.isArg /\ CMDecho' = s.echo /\ CMDread' = s.read
      /\ CMDarg1' = s.arg /\ out' = s.out
      /\ NextLine(s)
      /\ typed' = <<>>

Next == EnterPressed \/ \E c \in Chars \cup {NUL} : AddCharacter(c)

Spec == Init /\ [][Next]_vars

-----------------------------------------------------------------------------
\* The values of the variables; the NUL at the end of the line has its place.
TypeOK == /\ buffer \in Seq(Chars \cup {NUL}) /\ Len(buffer) < BUFFER_SIZE
          /\ isArg \in BOOLEAN /\ CMDecho \in BOOLEAN /\ CMDread \in BOOLEAN
          /\ CMDarg1 \in Seq(Chars)
          /\ typed \in Seq(Chars \cup {NUL})

\* A line is an argument exactly when one command waits for one: never both, so
\* that a line is answered whatever was typed before.
OneArgumentAwaited == /\ isArg = (CMDecho \/ CMDread)
                      /\ ~ (CMDecho /\ CMDread)

\* The loop implements the command line of LineShell: arguments reach the command
\* that asked, once, and a line is what was typed since the last Enter, cut to the
\* buffer and at the first NUL.
Lines == INSTANCE LineShell
  WITH Char   <- Chars \cup {NUL},
       Width  <- BUFFER_SIZE - 1,
       Answer <- Word,
       mode   <- IF CMDecho THEN "echo" ELSE IF CMDread THEN "read" ELSE "none"

LineShellSpec == Lines!Spec
=============================================================================
