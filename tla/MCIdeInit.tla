----------------------------- MODULE MCIdeInit -----------------------------
(* Instance of IdeInit for TLC: each position is empty, floats, or holds one *)
(* of six devices; a disk, a packet device and what is read too early have   *)
(* the same name.                                                            *)
EXTENDS IdeInit

Attached(kind, label, ext) ==
  [kind |-> kind, label |-> label, size |-> IF ext THEN 9 ELSE 4,
   lba48 |-> ext, max |-> 4, maxExt |-> 9, model |-> Block(label)]

MCDevice == {Attached(k, <<"a">>, FALSE) :
                k \in {"none", "floating", "other", "faulty", "SATAPI", "ATA"}}
              \cup {Attached("ATA", <<"b", Space, "a">>, TRUE),
                    Attached("ATAPI", <<"c">>, FALSE)}

MCGarbage == Attached("none", <<"a">>, TRUE)
=============================================================================
