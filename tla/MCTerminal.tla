----------------------------- MODULE MCTerminal -----------------------------
(* Instances of Terminal for TLC: a screen of two rows of three columns.     *)
EXTENDS Terminal
=============================================================================
