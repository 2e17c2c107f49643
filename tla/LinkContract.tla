----------------------------- MODULE LinkContract -----------------------------
(***************************************************************************)
(* What the backend promises about one public link, whoever closes it and  *)
(* however often the cleanup is interrupted:                               *)
(*   - the link is closed once, for one cause, and never reopened;         *)
(*   - the one-shot cause is used only once every file has been taken;     *)
(*   - the bytes leave storage only after the link is closed, and the row  *)
(*     is declared deactivated, or dropped, only when no byte is left.     *)
(* TransferLifecycle implements it with requests, cron runs and faults.    *)
(***************************************************************************)
CONSTANTS Files, Reasons, None

VARIABLES
    phase,      \* "active", "pending_file_deletion", "deactivated", "deleted"
    cause,      \* why the link closed, None while it is open
    bytes,      \* files whose object is still in storage
    taken       \* files somebody has been given a URL for

vars == <<phase, cause, bytes, taken>>

Init ==
    /\ phase = "active"
    /\ cause = None
    /\ bytes = Files
    /\ taken = {}

Take ==
    /\ taken' \in SUBSET Files
    /\ taken \subseteq taken'
    /\ UNCHANGED <<phase, cause, bytes>>

Close(c) ==
    /\ phase = "active"
    /\ c = "first_download" => taken = Files
    /\ phase' = "pending_file_deletion"
    /\ cause' = c
    /\ UNCHANGED <<bytes, taken>>

Wipe(f) ==
    /\ phase = "pending_file_deletion"
    /\ bytes' = bytes \ {f}
    /\ UNCHANGED <<phase, cause, taken>>

Finish ==
    /\ phase = "pending_file_deletion"
    /\ bytes = {}
    /\ phase' = "deactivated"
    /\ UNCHANGED <<cause, bytes, taken>>

Drop ==
    /\ phase \in {"pending_file_deletion", "deactivated"}
    /\ bytes = {}
    /\ phase' = "deleted"
    /\ UNCHANGED <<cause, bytes, taken>>

Next ==
    \/ Take \/ Finish \/ Drop
    \/ \E c \in Reasons : Close(c)
    \/ \E f \in Files : Wipe(f)

Spec == Init /\ [][Next]_vars
=============================================================================
