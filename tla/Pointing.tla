------------------------------ MODULE Pointing ------------------------------
(***************************************************************************)
(* What the mouse driver does, a motion at a time: the pointer takes every *)
(* motion of the mouse, in the order they were made, and stops at the      *)
(* edges of the screen.                                                    *)
(***************************************************************************)
EXTENDS Integers, Sequences

CONSTANTS Motions,         \* pairs <<dx, dy>>
          Width, Height

VARIABLES made,            \* the motions the pointer has not taken yet
          at               \* where the pointer is

Stop(v, edge) == IF v < 0 THEN 0 ELSE IF v > edge THEN edge - 1 ELSE v

Init == made = <<>> /\ at = <<5, 2>>

Move(m) == made' = Append(made, m) /\ UNCHANGED at

Take == /\ made # <<>>
        /\ at' = << Stop(at[1] + Head(made)[1], Width),
                    Stop(at[2] + Head(made)[2], Height) >>
        /\ made' = Tail(made)

Next == Take \/ \E m \in Motions : Move(m)

Spec == Init /\ [][Next]_<<made, at>>
=============================================================================
