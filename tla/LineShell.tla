------------------------------ MODULE LineShell ------------------------------
(***************************************************************************)
(* What the command line does, a line at a time.  A line is what was typed *)
(* since the last Enter, cut to Width characters and then at the first     *)
(* NUL.  The line after `echo' or `read' is the argument of that command   *)
(* and no other's, and is itself a command as well.                        *)
(***************************************************************************)
EXTENDS Integers, Sequences

CONSTANTS Char, NUL, Width,
          echo, read,     \* the two commands with an argument
          Answer(_)       \* what a line is answered as a command

VARIABLES typed,          \* the characters since the last Enter
          mode,           \* whose argument the next line is, "none" if nobody's
          out             \* what the last line printed

lineVars == <<typed, mode, out>>

Cut(s) == LET kept == {k \in 0..Len(s) :
                         k <= Width /\ \A j \in 1..k : s[j] # NUL}
          IN  SubSeq(s, 1, CHOOSE k \in kept : \A j \in kept : j <= k)

Init == typed = <<>> /\ mode = "none" /\ out = <<>>

Type(ch) == typed' = Append(typed, ch) /\ UNCHANGED <<mode, out>>

Enter == LET line == Cut(typed) IN
         /\ out' = (IF mode = "none" THEN <<>> ELSE << <<mode, line>> >>)
                     \o << <<Answer(line), line>> >>
         /\ mode' = IF line = echo THEN "echo" ELSE IF line = read THEN "read"
                    ELSE "none"
         /\ typed' = <<>>

Next == Enter \/ \E ch \in Char : Type(ch)

Spec == Init /\ [][Next]_lineVars
=============================================================================
