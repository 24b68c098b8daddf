------------------------------- MODULE Format -------------------------------
(***************************************************************************)
(* printf of libsa/stdio.c, the state machine over the format, and         *)
(* intToStr.  Formats are sequences of characters; what is printed is a    *)
(* sequence of pairs: <<"plain", a character>>, or how an argument is      *)
(* shown and its number, from 1.                                           *)
(*                                                                         *)
(* printf_number converts the pointer argp instead of the number it points *)
(* to, and returns it as it was: a number prints as the address of the     *)
(* argument, <<"address", k>>, and the next directive takes that argument  *)
(* again.                                                                  *)
(***************************************************************************)
EXTENDS Numerals, FiniteSets

Numeric == {"d", "i", "u", "X", "x", "p", "o"}

\* PRINTF_STATE_SPEC; any other character prints nothing.
Directive(s, ch) ==
  CASE ch = "c" -> [s EXCEPT !.out = Append(@, <<"char", s.arg>>), !.arg = @ + 1]
    [] ch = "s" -> [s EXCEPT !.out = Append(@, <<"string", s.arg>>), !.arg = @ + 1]
    [] ch = "%" -> [s EXCEPT !.out = Append(@, <<"plain", "%">>)]
    [] ch \in Numeric -> [s EXCEPT !.out = Append(@, <<"address", s.arg>>)]
    [] OTHER -> s

\* A plausible slip: the state is left as it is after a directive.
EndDirective_Stays(s, ch) == Directive(s, ch)

\* The directive, and state = PRINTF_STATE_NORMAL.
EndDirective(s, ch) == [Directive(s, ch) EXCEPT !.state = "normal"]

\* One turn of the loop.  The lengths h, hh, l and ll are read and have no effect.
Step(s, ch) ==
  CASE s.state = "normal" ->
         IF ch = "%" THEN [s EXCEPT !.state = "length"]
         ELSE [s EXCEPT !.out = Append(@, <<"plain", ch>>)]
    [] s.state = "length" /\ ch = "h" -> [s EXCEPT !.state = "short"]
    [] s.state = "length" /\ ch = "l" -> [s EXCEPT !.state = "long"]
    [] s.state = "short"  /\ ch = "h" -> [s EXCEPT !.state = "spec"]
    [] s.state = "long"   /\ ch = "l" -> [s EXCEPT !.state = "spec"]
    [] OTHER -> EndDirective(s, ch)

printf(fmt) ==
  LET after[k \in 0 .. Len(fmt)] ==
        IF k = 0 THEN [state |-> "normal", arg |-> 1, out |-> <<>>]
        ELSE Step(after[k - 1], fmt[k])
  IN  after[Len(fmt)].out

\* A plausible slip: the digits are not put the other way round.
intToStr_Backwards(num, left) == IF num > 0 THEN Digits(num, 10) ELSE <<>>

\* The string in the buffer, which held left before: no NUL is put after a lone 0,
\* and a negative number has no digits.
intToStr(num, left) == IF num = 0 THEN <<0>> \o Tail(left)
                       ELSE IF num < 0 THEN <<>> ELSE Reversed(Digits(num, 10))

-----------------------------------------------------------------------------
(***************************************************************************)
(* What a format means: a directive is a %, a length and a letter, and     *)
(* everything else stands for itself.                                      *)
(***************************************************************************)
Lengths == {<<>>, <<"h">>, <<"l">>, <<"h", "h">>, <<"l", "l">>}

\* A text is a sequence of pieces: a character other than %, or a directive, whose
\* letter is not h or l.
IsPiece(p) == \/ p.kind = "plain" /\ p.ch # "%"
              \/ /\ p.kind = "directive" /\ p.length \in Lengths
                 /\ p.ch \notin {"h", "l"}

Text(piece) == IF piece.kind = "plain" THEN <<piece.ch>>
               ELSE <<"%">> \o piece.length \o <<piece.ch>>

\* Texts one after the other.
Joined(texts) ==
  LET upto[k \in 0 .. Len(texts)] == IF k = 0 THEN <<>> ELSE upto[k - 1] \o texts[k]
  IN  upto[Len(texts)]

\* The pieces that take an argument.  A numeric directive takes none.
Takes(piece) == piece.kind = "directive" /\ piece.ch \in {"c", "s"}

TakenBefore(pieces, k) == Cardinality({j \in 1 .. k - 1 : Takes(pieces[j])})

\* How a piece is shown, when arg is the next argument.
ShownAs(piece, arg) ==
  CASE piece.kind = "plain" -> << <<"plain", piece.ch>> >>
    [] piece.kind = "directive" /\ piece.ch = "c" -> << <<"char", arg>> >>
    [] piece.kind = "directive" /\ piece.ch = "s" -> << <<"string", arg>> >>
    [] piece.kind = "directive" /\ piece.ch = "%" -> << <<"plain", "%">> >>
    [] piece.kind = "directive" /\ piece.ch \in Numeric -> << <<"address", arg>> >>
    [] OTHER -> <<>>

Shown(pieces, k) == ShownAs(pieces[k], TakenBefore(pieces, k) + 1)
=============================================================================
