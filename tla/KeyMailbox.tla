----------------------------- MODULE KeyMailbox -----------------------------
(***************************************************************************)
(* What the keyboard driver promises its one reader: a mailbox that holds  *)
(* at most one keystroke.  A keystroke may be lost (overwritten, erased by *)
(* a later key event, or dropped in a race with the reader), but one that  *)
(* is delivered is delivered once, unaltered and in the order of typing.   *)
(***************************************************************************)
EXTENDS Integers, Sequences

CONSTANT Char       \* the characters a key can produce

VARIABLES typed,    \* every character typed so far, oldest first
          waiting,  \* index in typed of the keystroke in the mailbox, 0 if none
          last,     \* index in typed of the last keystroke delivered, 0 if none
          got       \* the last character delivered, 0 if none

mailboxVars == <<typed, waiting, last, got>>

Init == typed = <<>> /\ waiting = 0 /\ last = 0 /\ got = 0

\* A key is typed; it replaces what was waiting, or is itself lost.
Type(ch) == /\ typed' = Append(typed, ch)
            /\ waiting' \in {0, Len(typed')}
            /\ UNCHANGED <<last, got>>

\* The waiting keystroke is lost.
Erase == waiting' = 0 /\ UNCHANGED <<typed, last, got>>

\* The reader obtains the waiting keystroke, which leaves the mailbox.
Deliver == /\ waiting > last
           /\ last' = waiting
           /\ got' = typed[waiting]
           /\ waiting' = 0
           /\ UNCHANGED typed

Next == (\E ch \in Char : Type(ch)) \/ Erase \/ Deliver

Spec == Init /\ [][Next]_mailboxVars
=============================================================================
