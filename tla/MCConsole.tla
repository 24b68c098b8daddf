------------------------------ MODULE MCConsole ------------------------------
(* Instance of Console for TLC: the keys e, r and Enter, a release and the   *)
(* shift that makes E of an e; echo is the word e, read the word r, in a     *)
(* buffer of three.                                                          *)
EXTENDS Console

MCScancodes == {18, 19, 28, 42, 146}
MCChars == {69, 82, 101, 114}
MChello == <<69>>
MChelp  == <<101, 114>>
MCecho  == <<101>>
MCread  == <<114>>
=============================================================================
