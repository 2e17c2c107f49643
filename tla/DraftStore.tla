------------------------------ MODULE DraftStore ------------------------------
(***************************************************************************)
(* One draft and the storage behind it.  A request works under the draft's *)
(* row lock and talks to storage before its transaction commits            *)
(* (draft.py); the Drive imports run beside it, outside the lock and at    *)
(* least once (tasks.py); the daily sweep compares what storage lists with *)
(* what the database knows (s3_sweep.py).                                  *)
(*                                                                         *)
(* A file has one row and one key.  A multipart upload is named after what *)
(* opened it: a browser file, or a run of the import task.                 *)
(***************************************************************************)
EXTENDS Integers, FiniteSets

CONSTANTS
    Browser,    \* files the sender uploads
    Drive,      \* files imported from Drive
    Runs,       \* deliveries of an import message
    MaxFaults,  \* processes killed, storage calls that fail, sends refused
    None

ASSUME FilesAssumption  == IsFiniteSet(Browser \cup Drive) /\ IsFiniteSet(Runs)
ASSUME NamesAssumption  == /\ Browser \cap Drive = {} /\ Runs \cap Browser = {}
                           /\ None \notin Browser \cup Drive \cup Runs
ASSUME FaultsAssumption == MaxFaults \in Nat
\* Each fault costs at most one more delivery.
ASSUME RunsAssumption   == Cardinality(Runs) >= Cardinality(Drive) + MaxFaults

Files   == Browser \cup Drive
Uploads == Browser \cup Runs

Ages     == {"none", "new", "old"}     \* of what storage holds; "old": over a day
Ops      == {"none", "add", "land", "remove", "drop"}
RunSteps == {"free", "queued", "abort", "clear", "open", "park", "stream", "save",
             "failAbort", "failDelete", "failSave", "end"}
SweepSteps == {"idle", "objects", "known", "uploads"}

\* What a property may not survive.
\*   torn   a removal was killed, or could not commit, after it had cleaned
\*          storage up: the rows are back
\*   twice  two runs imported the same file at the same time
Slips == {"torn", "twice"}

VARIABLES
    row,      \* TransferFile: what it belongs to, upload_id, and its stamps
    draft,    \* TransferDraft: "none", "open", "gone" or "shared"
    aged,     \* the draft is more than a day old
    object,   \* storage: the object of each file
    mpu,      \* storage: the multipart uploads in progress
    req,      \* the request that holds the draft's lock, past its storage calls
    outbox,   \* import messages that its commit lets go
    run,      \* import_drive_file_task
    sweep,    \* sweep_orphan_s3_storage_task
    faults, slips

vars == <<row, draft, aged, object, mpu, req, outbox, run, sweep, faults, slips>>

NoRow   == [at |-> "none", up |-> None, landed |-> FALSE, started |-> FALSE, failed |-> FALSE]
NoReq   == [op |-> "none", files |-> {}]
NoSweep == [at |-> "idle", known |-> {}]

Init ==
    /\ row = [f \in Files |-> NoRow]
    /\ draft = "none" /\ aged = FALSE
    /\ object = [f \in Files |-> "none"] /\ mpu = [u \in Uploads |-> "none"]
    /\ req = NoReq /\ outbox = {}
    /\ run = [r \in Runs |-> [at |-> "free", file |-> None, saw |-> None]]
    /\ sweep = NoSweep
    /\ faults = 0 /\ slips = {}

Held      == {f \in Files : row[f].at = "held"}
Exists(f) == row[f].at \in {"held", "shared"}
Unlocked  == req = NoReq
Fault     == faults < MaxFaults /\ faults' = faults + 1
Active(r) == run[r].at \notin {"free", "queued", "end"}

\* Best-effort calls to storage, one per item: those that fail are logged.
MayKeep(kept)   == IF kept = {} THEN UNCHANGED faults ELSE Fault
AbortAll(U)     == mpu' = [u \in Uploads |-> IF u \in U THEN "none" ELSE mpu[u]]
DeleteAll(F)    == object' = [f \in Files |-> IF f \in F THEN "none" ELSE object[f]]
UploadsOf(F)    == {row[f].up : f \in F} \ {None}

-----------------------------------------------------------------------------
(* Requests, under the draft's lock: storage first, then the commit. *)

\* add_file: the upload is opened before the row is saved.
AddBegin(f) ==
    /\ Unlocked /\ draft \in {"none", "open"} /\ row[f].at = "none"
    /\ mpu' = IF f \in Browser THEN [mpu EXCEPT ![f] = "new"] ELSE mpu
    /\ req' = [op |-> "add", files |-> {f}]
    /\ UNCHANGED <<row, draft, aged, object, outbox, run, sweep, faults, slips>>

AddEnd ==
    /\ req.op = "add"
    /\ row' = [f \in Files |-> IF f \in req.files
                 THEN [NoRow EXCEPT !.at = "held", !.up = IF f \in Browser THEN f ELSE None]
                 ELSE row[f]]
    /\ draft' = "open" /\ req' = NoReq
    /\ UNCHANGED <<aged, object, mpu, outbox, run, sweep, faults, slips>>

\* The save fails: the upload is aborted, if storage lets it.
AddFails ==
    /\ req.op = "add" /\ Fault
    /\ AbortAll(req.files) \/ UNCHANGED mpu
    /\ row' = [f \in Files |-> IF f \in req.files THEN [NoRow EXCEPT !.at = "gone"] ELSE row[f]]
    /\ req' = NoReq
    /\ UNCHANGED <<draft, aged, object, outbox, run, sweep, slips>>

\* complete_upload of a file that is still uploading.
Completing(f) == Unlocked /\ f \in Held \cap Browser /\ ~row[f].landed /\ row[f].up # None

CompleteBegin(f) ==
    /\ Completing(f) /\ mpu[f] # "none"
    /\ AbortAll({f})
    /\ object' = [object EXCEPT ![f] = "new"]
    /\ req' = [op |-> "land", files |-> {f}]
    /\ UNCHANGED <<row, draft, aged, outbox, run, sweep, faults, slips>>

\* Storage refuses the list of parts, or no longer knows the upload: the
\* uploads of the draft are aborted (and not its objects), the draft goes.
CompleteRejected(f) ==
    /\ Completing(f)
    /\ \E kept \in SUBSET UploadsOf(Held) : MayKeep(kept) /\ AbortAll(UploadsOf(Held) \ kept)
    /\ req' = [op |-> "drop", files |-> Held]
    /\ UNCHANGED <<row, draft, aged, object, outbox, run, sweep, slips>>

\* Abort the uploads of these rows, delete their objects.
CleanUp(F) ==
    \E keptU \in SUBSET UploadsOf(F), keptF \in SUBSET F :
        /\ MayKeep(keptU \cup keptF)
        /\ AbortAll(UploadsOf(F) \ keptU)
        /\ DeleteAll(F \ keptF)

\* The object that storage made of the parts is not as long as declared:
\* everything goes.
CompleteMismatch(f) ==
    /\ Completing(f) /\ mpu[f] # "none"
    /\ \E keptU \in SUBSET (UploadsOf(Held) \ {f}), keptF \in SUBSET Held :
         /\ MayKeep(keptU \cup keptF)
         /\ AbortAll(UploadsOf(Held) \ keptU)
         /\ object' = [g \in Files |-> IF g \in Held \ keptF THEN "none"
                                       ELSE IF g = f THEN "new" ELSE object[g]]
    /\ req' = [op |-> "drop", files |-> Held]
    /\ UNCHANGED <<row, draft, aged, outbox, run, sweep, slips>>

LandEnd ==
    /\ req.op = "land"
    /\ row' = [f \in Files |-> IF f \in req.files
                 THEN [row[f] EXCEPT !.landed = TRUE, !.up = None] ELSE row[f]]
    /\ req' = NoReq
    /\ UNCHANGED <<draft, aged, object, mpu, outbox, run, sweep, faults, slips>>

RemoveBegin(f) ==
    /\ Unlocked /\ draft = "open" /\ f \in Held
    /\ CleanUp({f})
    /\ req' = [op |-> "remove", files |-> {f}]
    /\ UNCHANGED <<row, draft, aged, outbox, run, sweep, slips>>

\* abort, or the cleanup of abandoned drafts.
DropBegin ==
    /\ Unlocked /\ draft = "open"
    /\ CleanUp(Held)
    /\ req' = [op |-> "drop", files |-> Held]
    /\ UNCHANGED <<row, draft, aged, outbox, run, sweep, slips>>

\* The rows are deleted; with the last file, or in a drop, the draft.
RemovalEnd ==
    /\ req.op \in {"remove", "drop"}
    /\ row' = [f \in Files |-> IF f \in req.files THEN [NoRow EXCEPT !.at = "gone"] ELSE row[f]]
    /\ draft' = IF Held \subseteq req.files THEN "gone" ELSE draft
    /\ req' = NoReq
    /\ UNCHANGED <<aged, object, mpu, outbox, run, sweep, faults, slips>>

\* The worker is killed or the commit fails: the database forgets what the
\* request did, storage does not.
Rollback ==
    /\ req.op # "none" /\ Fault
    /\ row' = IF req.op = "add"
              THEN [f \in Files |-> IF f \in req.files THEN [NoRow EXCEPT !.at = "gone"] ELSE row[f]]
              ELSE row
    /\ slips' = IF req.op \in {"remove", "drop"} THEN slips \cup {"torn"} ELSE slips
    /\ req' = NoReq
    /\ UNCHANGED <<draft, aged, object, mpu, outbox, run, sweep>>

-----------------------------------------------------------------------------
(* finalize: the imports are started, or everything is shared. *)

Finalizable == /\ Unlocked /\ draft = "open" /\ Held # {}
               /\ \A f \in Held : ~row[f].failed /\ (f \in Browser => row[f].landed)

M_StartImportsLanded ==
    /\ Finalizable
    /\ LET starting == {f \in Held : ~row[f].started} IN
       /\ starting # {}
       /\ row' = [f \in Files |-> IF f \in starting THEN [row[f] EXCEPT !.started = TRUE] ELSE row[f]]
       /\ outbox' = outbox \cup starting
    /\ UNCHANGED <<draft, aged, object, mpu, req, run, sweep, faults, slips>>

\* Files that have landed are passed over; the others are stamped, and the
\* messages of those that were not yet leave after the commit.
StartImports ==
    /\ Finalizable
    /\ LET starting == {f \in Held : ~row[f].landed /\ ~row[f].started} IN
       /\ starting # {}
       /\ row' = [f \in Files |-> IF f \in starting THEN [row[f] EXCEPT !.started = TRUE] ELSE row[f]]
       /\ outbox' = outbox \cup starting
    /\ UNCHANGED <<draft, aged, object, mpu, req, run, sweep, faults, slips>>

Queue(r, f) == run[r].at = "free" /\ run' = [run EXCEPT ![r] = [at |-> "queued", file |-> f, saw |-> None]]

\* After the commit the messages are sent; a refusal (the broker may have
\* stored it all the same) takes the stamp back.
Send(f) ==
    /\ f \in outbox
    /\ outbox' = outbox \ {f}
    /\ \/ /\ \E r \in Runs : Queue(r, f)
          /\ UNCHANGED <<row, faults>>
       \/ /\ Fault
          /\ row' = IF Exists(f) THEN [row EXCEPT ![f].started = FALSE] ELSE row
          /\ (\E r \in Runs : Queue(r, f)) \/ UNCHANGED run
    /\ UNCHANGED <<draft, aged, object, mpu, req, sweep, slips>>

\* The process dies between the commit and the sends.
LoseOutbox ==
    /\ outbox # {} /\ Fault
    /\ outbox' = {}
    /\ UNCHANGED <<row, draft, aged, object, mpu, req, run, sweep, slips>>

Share ==
    /\ Finalizable
    /\ \A f \in Held : row[f].landed
    /\ row' = [f \in Files |-> IF f \in Held THEN [row[f] EXCEPT !.at = "shared"] ELSE row[f]]
    /\ draft' = "shared"
    /\ UNCHANGED <<aged, object, mpu, req, outbox, run, sweep, faults, slips>>

-----------------------------------------------------------------------------
(* import_drive_file_task. *)

Goto(r, s) == run' = [run EXCEPT ![r].at = s]

M_TakeAgain(r) ==
    /\ run[r].at = "queued"
    /\ LET f == run[r].file IN
       /\ run' = [run EXCEPT ![r].at = IF ~Exists(f) THEN "end"
                                       ELSE IF row[f].up # None THEN "abort" ELSE "open",
                             ![r].saw = row[f].up]
       /\ slips' = IF \E x \in Runs \ {r} : run[x].file = f /\ Active(x) THEN slips \cup {"twice"}
                   ELSE slips
    /\ UNCHANGED <<row, draft, aged, object, mpu, req, outbox, sweep, faults>>

\* The row is read once; a row that is gone, or landed, ends the run.
Take(r) ==
    /\ run[r].at = "queued"
    /\ LET f == run[r].file IN
       /\ run' = [run EXCEPT ![r].at = IF ~Exists(f) \/ row[f].landed THEN "end"
                                       ELSE IF row[f].up # None THEN "abort" ELSE "open",
                             ![r].saw = row[f].up]
       /\ slips' = IF \E x \in Runs \ {r} : run[x].file = f /\ Active(x) THEN slips \cup {"twice"}
                   ELSE slips
    /\ UNCHANGED <<row, draft, aged, object, mpu, req, outbox, sweep, faults>>

\* An earlier run left its upload parked on the row.
AbortStale(r) ==
    /\ run[r].at = "abort"
    /\ \/ AbortAll({run[r].saw}) /\ UNCHANGED faults
       \/ Fault /\ UNCHANGED mpu
    /\ Goto(r, "clear")
    /\ UNCHANGED <<row, draft, aged, object, req, outbox, sweep, slips>>

ClearStale(r) ==
    /\ run[r].at = "clear"
    /\ row' = IF Exists(run[r].file) THEN [row EXCEPT ![run[r].file].up = None] ELSE row
    /\ Goto(r, "open")
    /\ UNCHANGED <<draft, aged, object, mpu, req, outbox, sweep, faults, slips>>

\* Drive answers, and an upload is opened; or it does not.
OpenUpload(r) ==
    /\ run[r].at = "open"
    /\ \/ mpu' = [mpu EXCEPT ![r] = "new"] /\ Goto(r, "park")
       \/ Goto(r, "failDelete") /\ UNCHANGED mpu
    /\ UNCHANGED <<row, draft, aged, object, req, outbox, sweep, faults, slips>>

\* The upload is parked on the row, for whoever cleans up after a death; a
\* row deleted since cannot be saved.
Park(r) ==
    /\ run[r].at = "park"
    /\ LET f == run[r].file IN
       IF Exists(f) THEN row' = [row EXCEPT ![f].up = r] /\ Goto(r, "stream")
       ELSE Goto(r, "failAbort") /\ UNCHANGED row
    /\ UNCHANGED <<draft, aged, object, mpu, req, outbox, sweep, faults, slips>>

\* The parts go up and the upload is completed; or Drive, or storage, fails.
Stream(r) ==
    /\ run[r].at = "stream"
    /\ \/ /\ mpu[r] # "none"
          /\ AbortAll({r})
          /\ object' = [object EXCEPT ![run[r].file] = "new"]
          /\ Goto(r, "save")
       \/ Goto(r, "failAbort") /\ UNCHANGED <<object, mpu>>
    /\ UNCHANGED <<row, draft, aged, req, outbox, sweep, faults, slips>>

Save(r) ==
    /\ run[r].at = "save"
    /\ LET f == run[r].file IN
       IF Exists(f) THEN /\ row' = [row EXCEPT ![f].landed = TRUE, ![f].up = None]
                         /\ Goto(r, "end")
       ELSE Goto(r, "failAbort") /\ UNCHANGED row
    /\ UNCHANGED <<draft, aged, object, mpu, req, outbox, sweep, faults, slips>>

\* The except branch: abort, delete, mark the row failed.
FailAbort(r) ==
    /\ run[r].at = "failAbort"
    /\ \/ AbortAll({r}) /\ UNCHANGED faults
       \/ Fault /\ UNCHANGED mpu
    /\ Goto(r, "failDelete")
    /\ UNCHANGED <<row, draft, aged, object, req, outbox, sweep, slips>>

FailDelete(r) ==
    /\ run[r].at = "failDelete"
    /\ \/ DeleteAll({run[r].file}) /\ UNCHANGED faults
       \/ Fault /\ UNCHANGED object
    /\ Goto(r, "failSave")
    /\ UNCHANGED <<row, draft, aged, mpu, req, outbox, sweep, slips>>

FailSave(r) ==
    /\ run[r].at = "failSave"
    /\ LET f == run[r].file IN
       row' = IF Exists(f) THEN [row EXCEPT ![f].up = None, ![f].failed = TRUE] ELSE row
    /\ Goto(r, "end")
    /\ UNCHANGED <<draft, aged, object, mpu, req, outbox, sweep, faults, slips>>

\* The worker is lost, or the time limit cuts the run short (no except
\* branch sees it): the broker delivers the message again.
Redeliver(r) ==
    /\ Active(r) /\ Fault
    /\ \E x \in Runs :
         /\ run[x].at = "free"
         /\ run' = [run EXCEPT ![r].at = "end",
                               ![x] = [at |-> "queued", file |-> run[r].file, saw |-> None]]
    /\ UNCHANGED <<row, draft, aged, object, mpu, req, outbox, sweep, slips>>

-----------------------------------------------------------------------------
(* The daily sweep: what the database knows is read before storage is *)
(* listed, objects first, then uploads.                               *)

SweepBegin ==
    /\ sweep.at = "idle"
    /\ sweep' = [at |-> "objects", known |-> {f \in Files : Exists(f)}]
    /\ UNCHANGED <<row, draft, aged, object, mpu, req, outbox, run, faults, slips>>

M_OldObjectsAny == {f \in Files : object[f] # "none"}

OldObjects == {f \in Files : object[f] = "old"}

SweepObjects ==
    /\ sweep.at = "objects"
    /\ \/ DeleteAll(OldObjects \ sweep.known) /\ UNCHANGED faults
       \/ Fault /\ UNCHANGED object
    /\ sweep' = [sweep EXCEPT !.at = "known", !.known = {}]
    /\ UNCHANGED <<row, draft, aged, mpu, req, outbox, run, slips>>

M_SweepKnownByKey ==
    /\ sweep.at = "known"
    /\ sweep' = [sweep EXCEPT !.at = "uploads",
                  !.known = {f \in Browser : Exists(f)}
                            \cup {r \in Runs : \E f \in Drive : Exists(f) /\ run[r].file = f}]
    /\ UNCHANGED <<row, draft, aged, object, mpu, req, outbox, run, faults, slips>>

SweepKnown ==
    /\ sweep.at = "known"
    /\ sweep' = [sweep EXCEPT !.at = "uploads", !.known = UploadsOf({f \in Files : Exists(f)})]
    /\ UNCHANGED <<row, draft, aged, object, mpu, req, outbox, run, faults, slips>>

SweepUploads ==
    /\ sweep.at = "uploads"
    /\ \/ AbortAll({u \in Uploads : mpu[u] = "old"} \ sweep.known) /\ UNCHANGED faults
       \/ Fault /\ UNCHANGED mpu
    /\ sweep' = NoSweep
    /\ UNCHANGED <<row, draft, aged, object, req, outbox, run, slips>>

\* A day goes by.  No request, import or sweep takes that long (gunicorn's
\* timeout, the task's time limit of two hours).
Day ==
    /\ Unlocked /\ outbox = {} /\ sweep = NoSweep
    /\ \A r \in Runs : ~Active(r)
    /\ object' = [f \in Files |-> IF object[f] = "none" THEN "none" ELSE "old"]
    /\ mpu' = [u \in Uploads |-> IF mpu[u] = "none" THEN "none" ELSE "old"]
    /\ aged' = (draft # "none")
    /\ UNCHANGED <<row, draft, req, outbox, run, sweep, faults, slips>>

-----------------------------------------------------------------------------
Commit  == AddEnd \/ LandEnd \/ RemovalEnd
Import(r) == \/ Take(r) \/ AbortStale(r) \/ ClearStale(r) \/ OpenUpload(r) \/ Park(r)
             \/ Stream(r) \/ Save(r) \/ FailAbort(r) \/ FailDelete(r) \/ FailSave(r)
Sweep   == SweepBegin \/ SweepObjects \/ SweepKnown \/ SweepUploads
Abandon == aged /\ DropBegin

Next ==
    \/ \E f \in Files : AddBegin(f) \/ RemoveBegin(f) \/ Send(f)
    \/ \E f \in Browser : CompleteBegin(f) \/ CompleteRejected(f) \/ CompleteMismatch(f)
    \/ DropBegin \/ AddFails \/ Commit \/ Rollback
    \/ StartImports \/ LoseOutbox \/ Share
    \/ \E r \in Runs : Import(r) \/ Redeliver(r)
    \/ Sweep \/ Day

Spec == Init /\ [][Next]_vars

\* Requests end, messages are delivered, crons fire, and time passes.
FairSpec ==
    /\ Spec
    /\ WF_vars(Commit) /\ WF_vars(\E f \in Files : Send(f))
    /\ \A r \in Runs : WF_vars(Import(r))
    /\ WF_vars(Abandon) /\ WF_vars(Sweep) /\ SF_vars(Day)

-----------------------------------------------------------------------------
(* Properties. *)

\* The state has its type: in particular the upload a row names is its own,
\* or that of a run which imports it.
TypeOK ==
    /\ row \in [Files -> [at : {"none", "held", "shared", "gone"}, up : Uploads \cup {None},
                          landed : BOOLEAN, started : BOOLEAN, failed : BOOLEAN]]
    /\ \A f \in Browser : row[f].up \in {f, None}
    /\ draft \in {"none", "open", "gone", "shared"} /\ aged \in BOOLEAN
    /\ object \in [Files -> Ages] /\ mpu \in [Uploads -> Ages]
    /\ req \in [op : Ops, files : SUBSET Files]
    /\ outbox \subseteq Drive
    /\ run \in [Runs -> [at : RunSteps, file : Drive \cup {None}, saw : Runs \cup {None}]]
    /\ sweep \in [at : SweepSteps, known : SUBSET (Files \cup Uploads)]
    /\ faults \in 0 .. MaxFaults /\ slips \subseteq Slips

\* A row that says its bytes have landed has its object, whatever is aborted,
\* imported again, rolled back or swept beside it; a shared row above all.
\* Only the request that is about to delete the row is ahead of it.
LandedIsStored ==
    slips = {} => \A f \in Files : Exists(f) /\ row[f].landed =>
        object[f] # "none" \/ (req.op \in {"remove", "drop"} /\ f \in req.files)

\* The sweep takes nothing that a row still owns: neither the object of a
\* file that was being registered or uploaded when the sweep read the
\* database, nor an upload that a row names (run_orphan_sweep).
SweepSparesOwned ==
    [][sweep' # sweep =>
        /\ \A f \in Files : Exists(f) => object'[f] = object[f]
        /\ \A f \in Files : Exists(f) /\ row[f].up # None => mpu'[row[f].up] = mpu[row[f].up]]_vars

\* What was not shared does not stay: every object and upload left by a
\* removal, a rejected completion, a rollback, a failed or killed import, or
\* an abandoned draft is gone in the end, and what was shared has no upload
\* in progress.
Stray == \/ \E f \in Files : object[f] # "none" /\ row[f].at # "shared"
         \/ \E u \in Uploads : mpu[u] # "none"

NothingLingers == []<>(Stray => "twice" \in slips)
=============================================================================
