------------------------------ MODULE FileStore ------------------------------
(***************************************************************************)
(* What the file layer promises the shell: named files that do not         *)
(* interfere.  Writing one changes its content and no other; reading one   *)
(* that is open returns its content.  The content lives on the disk and    *)
(* outlives a restart; the list of known names does not.  Every operation  *)
(* may fail silently, and nothing is promised about unknown names.         *)
(***************************************************************************)
CONSTANTS FileName, Text,
          Nothing     \* what a failed read returns

VARIABLES known,      \* the names the file layer knows
          content,    \* the text each file holds
          safe,       \* the text each file holds after a power failure
          asked,      \* the name last read
          answer      \* what that read returned

storeVars == <<known, content, safe, asked, answer>>

Init == /\ known = {}
        /\ content \in [FileName -> Text] /\ safe = content
        /\ asked = Nothing /\ answer = Nothing

Create(n) == /\ known' \in {known, known \cup {n}}
             /\ UNCHANGED <<content, safe, asked, answer>>

Put(n, text) == /\ n \in known
                /\ content' = [content EXCEPT ![n] = text]
                /\ UNCHANGED <<known, safe, asked, answer>>

Get(n) == /\ n \in known
          /\ asked' = n
          /\ answer' \in {content[n], Nothing}
          /\ UNCHANGED <<known, content, safe>>

GetUnknown == /\ asked' \notin known
              /\ UNCHANGED <<known, content, safe>>

Settle(S) == /\ safe' = [n \in FileName |-> IF n \in S THEN content[n] ELSE safe[n]]
             /\ UNCHANGED <<known, content, asked, answer>>

PowerFailure == /\ known' = {} /\ content' = safe
                /\ asked' = Nothing /\ answer' = Nothing
                /\ UNCHANGED safe

Next == \/ \E n \in FileName : Create(n) \/ Get(n)
        \/ \E n \in FileName, text \in Text : Put(n, text)
        \/ GetUnknown
        \/ \E S \in SUBSET FileName : Settle(S)
        \/ PowerFailure

Spec == Init /\ [][Next]_storeVars
=============================================================================
