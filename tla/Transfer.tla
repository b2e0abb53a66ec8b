------------------------------ MODULE Transfer ------------------------------
(***************************************************************************)
(* What the upload page promises whoever holds the link, apart from how it *)
(* keeps it: files can be sent while a session is open and only then, a    *)
(* file is called sent when the other side holds it, every file that was   *)
(* begun comes to an end, a finished session does not revive, and a        *)
(* reload continues only a session that the tab remembers.                 *)
(***************************************************************************)
CONSTANT Files

VARIABLES
    session,    \* "unpaired", "open" or "complete"
    kept,       \* the tab remembers a session
    file,       \* what the page says of each file
    held        \* the files the other side holds

vars == <<session, kept, file, held>>

Init ==
    /\ session = "unpaired"
    /\ kept = FALSE
    /\ file = [f \in Files |-> "none"]
    /\ held = {}

Open ==
    /\ session = "unpaired"
    /\ session' = "open"
    /\ kept' = TRUE
    /\ UNCHANGED <<file, held>>

(* Wherever the page was, a new document knows of no file any more.        *)
Reload ==
    /\ session' \in {"unpaired", "open"}
    /\ kept' \in {kept, FALSE}
    /\ session' = "open" => kept'
    /\ file' = [f \in Files |-> IF file[f] = "none" THEN "none" ELSE "gone"]
    /\ UNCHANGED held

Begin(files) ==
    /\ session = "open"
    /\ \A f \in files : file[f] = "none"
    /\ file' = [f \in Files |-> IF f \in files THEN "underway" ELSE file[f]]
    /\ UNCHANGED <<session, kept, held>>

(* Of a document that is gone, too.                                        *)
Store(f) ==
    /\ file[f] \in {"underway", "gone"}
    /\ held' = held \union {f}
    /\ UNCHANGED <<session, kept, file>>

End(f) ==
    /\ file[f] = "underway"
    /\ \/ f \in held /\ file' = [file EXCEPT ![f] = "sent"]
       \/ file' = [file EXCEPT ![f] = "failed"]
    /\ UNCHANGED <<session, kept, held>>

Finish ==
    /\ session = "open"
    /\ \A f \in Files : file[f] # "underway"
    /\ \E f \in Files : file[f] \in {"sent", "failed"}
    /\ session' = "complete"
    /\ kept' = FALSE
    /\ UNCHANGED <<file, held>>

Next ==
    \/ Open \/ Reload \/ Finish
    \/ \E files \in SUBSET Files : Begin(files)
    \/ \E f \in Files : Store(f) \/ End(f)

Safety == Init /\ [][Next]_vars

Spec == Safety /\ \A f \in Files : WF_vars(End(f))
=============================================================================
