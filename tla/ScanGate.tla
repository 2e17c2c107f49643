------------------------------- MODULE ScanGate -------------------------------
(***************************************************************************)
(* What the antivirus stage promises about the files of one draft:         *)
(*   - a file's verdict is decided once; only a verdict that says "the     *)
(*     scan failed" may be reopened;                                       *)
(*   - the draft becomes a transfer only when every file it holds is       *)
(*     passed, and from then on nothing about it is decided any more.      *)
(* ScanPipeline implements it with polls, a reaper, queues and callbacks.  *)
(***************************************************************************)
CONSTANT Files

VARIABLES
    parent,     \* "draft", "transfer", or "gone" with its files
    held,       \* the files attached to it
    verdict     \* per file: "open", "retry", "passed" or "blocked"

vars == <<parent, held, verdict>>

Init ==
    /\ parent = "draft"
    /\ held = {}
    /\ verdict = [f \in Files |-> "open"]

Attach(f) ==
    /\ parent = "draft" /\ verdict[f] = "open"
    /\ held' = held \cup {f}
    /\ UNCHANGED <<parent, verdict>>

Withdraw(f) ==
    /\ parent = "draft" /\ f \in held
    /\ held' = held \ {f}
    /\ parent' \in {"draft", "gone"}
    /\ parent' = "gone" <=> held' = {}
    /\ UNCHANGED verdict

Decide(f, v) ==
    /\ parent = "draft" /\ verdict[f] = "open"
    /\ verdict' = [verdict EXCEPT ![f] = v]
    /\ UNCHANGED <<parent, held>>

\* A failed scan is tried again, for any number of files at once.
Reopen ==
    /\ parent = "draft"
    /\ \E F \in SUBSET {f \in held : verdict[f] = "retry"} :
          verdict' = [f \in Files |-> IF f \in F THEN "open" ELSE verdict[f]]
    /\ UNCHANGED <<parent, held>>

\* Sharing exempts what is still open (a confidential transfer) or requires
\* that nothing is.
Share ==
    /\ parent = "draft" /\ held # {}
    /\ \A f \in held : verdict[f] \in {"open", "passed"}
    /\ parent' = "transfer"
    /\ verdict' = [f \in Files |-> IF f \in held THEN "passed" ELSE verdict[f]]
    /\ UNCHANGED held

Drop ==
    /\ parent = "draft"
    /\ parent' = "gone"
    /\ held' = {}
    /\ UNCHANGED verdict

Next ==
    \/ Reopen \/ Share \/ Drop
    \/ \E f \in Files : Attach(f) \/ Withdraw(f)
    \/ \E f \in Files, v \in {"retry", "passed", "blocked"} : Decide(f, v)

Spec == Init /\ [][Next]_vars
===============================================================================
