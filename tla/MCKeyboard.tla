----------------------------- MODULE MCKeyboard -----------------------------
(* Instance of Keyboard for TLC: a letter, a digit, a key with no character *)
(* (right shift), Enter, the two modifiers and a release.                   *)
EXTENDS Keyboard

MCScancodes == {30, 2, 54, 28, 42, 58, 158}
=============================================================================
