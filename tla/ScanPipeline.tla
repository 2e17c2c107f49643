----------------------------- MODULE ScanPipeline -----------------------------
(***************************************************************************)
(* The antivirus stage of one draft, SCAN_ENABLED, from its files' uploads *)
(* to the transfer, under every actor that touches a scan:                 *)
(*   Requests  finalize polls and rescans (viewsets/draft.py), each one a  *)
(*             transaction under the draft's row lock, then its on_commit  *)
(*             sends, outside it                                           *)
(*   Runs      runs of reap_stale_pending_scans_task, in autocommit        *)
(*   workers   at-least-once deliveries of submit_scan_task                *)
(*   scanner   jobs whose callbacks reach ScanResultWebhookView            *)
(* The lock serialises requests; runs, workers and callbacks ignore it, so *)
(* a row may change between the read and the writes of any of them.        *)
(***************************************************************************)
EXTENDS Naturals

CONSTANTS
    Files,          \* browser uploads of the draft
    Large,          \* those over SCAN_MAX_FILE_SIZE
    Keys,           \* encryption keys a sender may post
    Requests, Runs,
    Stamps,         \* values of scan_submitted_at (see Fresh)
    MaxQueue,       \* bound: messages queued, tasks running, jobs, per file
    MaxFaults,      \* bound: refusals, losses and deaths per behaviour
    None            \* a NULL column, an empty key

Actors == Requests \cup Runs

ASSUME PipelineAssumption ==
    /\ Large \subseteq Files
    /\ Requests \cap Runs = {}
    /\ Stamps \subseteq Nat
    /\ MaxQueue \in Nat \ {0} /\ MaxFaults \in Nat
    /\ None \notin Stamps \cup Keys \cup Files

\* scan_status, with ERROR split by scan_error_kind.
Released     == {"clean", "skipped", "too_large", "unscannable"}
Blocked      == {"infected", "error_file"}
ScanStatuses == {"pending", "error_transient"} \cup Released \cup Blocked

Labels == {"idle", "waiting", "sharing", "rescanning", "sending",
           "reaping", "claimed"}
Jobs   == [at : Labels, todo : SUBSET Files,
           seenScan : [Files -> ScanStatuses],
           seenStamp : [Files -> Stamps \cup {None}],
           now : Stamps \cup {None}, want : Keys \cup {None},
           file : Files \cup {None}]

VARIABLES
    parent,         \* "draft", then "transfer" or "gone"
    key,            \* encryption_key, parked on the draft and then copied
    linkKey,        \* the key of the poll that created the transfer
    upload,         \* per file: "absent", "uploading", "landed", "gone"
    scan,           \* per file: scan_status
    stamp,          \* per file: scan_submitted_at
    late,           \* files whose stamp is older than their scan budget
    queued,         \* per file: messages of submit_scan_task in the broker
    running,        \* per file: tasks past their checks, about to POST
    scanning,       \* per file: jobs the scanner accepted
    handed,         \* history: keys given to the scanner
    job,            \* what each request and each run is in the middle of
    faults

row  == <<upload, scan, stamp, late>>
doc  == <<parent, key, linkKey>>
work == <<queued, running, scanning, handed>>
vars == <<doc, row, work, job, faults>>

Idle == [at |-> "idle", todo |-> {},
         seenScan |-> [f \in Files |-> "pending"],
         seenStamp |-> [f \in Files |-> None],
         now |-> None, want |-> None, file |-> None]

Init ==
    /\ parent = "draft"
    /\ key = None /\ linkKey = None
    /\ upload = [f \in Files |-> "absent"]
    /\ scan = [f \in Files |-> "pending"]
    /\ stamp = [f \in Files |-> None]
    /\ late = {}
    /\ queued = [f \in Files |-> 0]
    /\ running = [f \in Files |-> 0]
    /\ scanning = [f \in Files |-> 0]
    /\ handed = {}
    /\ job = [a \in Actors |-> Idle]
    /\ faults = 0

-----------------------------------------------------------------------------
(* Shared notions.                                                         *)

At(a, l) == job[a].at = l

\* The request holds the draft's row lock (select_for_update).
Busy(q) == job[q].at \in {"waiting", "sharing", "rescanning"}

Locked == \E q \in Requests : Busy(q)

Held == {f \in Files : upload[f] \in {"uploading", "landed"}}

\* timezone.now(): a time nobody has read yet.  Only equality of two stamps
\* matters, so a stamp no row and no actor remembers is used again.
Fresh(s) ==
    LET used == {stamp[f] : f \in Files} \cup {job[a].now : a \in Actors}
                  \cup {job[a].seenStamp[f] : a \in Actors, f \in Files}
    IN  /\ s \in Stamps \ used
        /\ \A t \in Stamps \ used : s <= t

\* The rows of F get the stamp s, and their budgets start again.
Restamp(F, s) ==
    /\ stamp' = [f \in Files |-> IF f \in F THEN s ELSE stamp[f]]
    /\ late' = late \ F

SetScan(F, v) == scan' = [f \in Files |-> IF f \in F THEN v ELSE scan[f]]

\* An actor remembers the rows of F as it read them, and the time it did.
Read(l, F, s) ==
    [Idle EXCEPT !.at = l, !.todo = F, !.now = s,
        !.seenScan = [f \in Files |-> IF f \in F THEN scan[f] ELSE "pending"],
        !.seenStamp = [f \in Files |-> IF f \in F THEN stamp[f] ELSE None]]

\* The row is still as the actor read it.
Unchanged(a, f) ==
    /\ f \in Held
    /\ scan[f] = job[a].seenScan[f] /\ stamp[f] = job[a].seenStamp[f]

More(count, f) == count[f] < MaxQueue /\ count' = [count EXCEPT ![f] = @ + 1]

Fewer(count, f) == count[f] > 0 /\ count' = [count EXCEPT ![f] = @ - 1]

Fault == faults < MaxFaults /\ faults' = faults + 1

End(a) == job' = [job EXCEPT ![a] = Idle]

\* The end of a transaction: the callbacks of on_commit run outside it.
Commit(q, F) ==
    job' = [job EXCEPT ![q] =
        IF F = {} THEN Idle ELSE [Idle EXCEPT !.at = "sending", !.todo = F]]

-----------------------------------------------------------------------------
(* The draft's short transactions: add_file, complete_upload, remove_file, *)
(* and whatever deletes it (abort, the 24 h cleanup, a rejected upload).   *)

\* Without the row lock, add_file could attach a file behind finalize's back.
M_AddFile(f) ==
    /\ parent = "draft"
    /\ upload[f] = "absent"
    /\ upload' = [upload EXCEPT ![f] = "uploading"]
    /\ UNCHANGED <<doc, scan, stamp, late, work, job, faults>>

AddFile(f) ==
    /\ parent = "draft" /\ ~Locked
    /\ upload[f] = "absent"
    /\ upload' = [upload EXCEPT ![f] = "uploading"]
    /\ UNCHANGED <<doc, scan, stamp, late, work, job, faults>>

CompleteUpload(f) ==
    /\ parent = "draft" /\ ~Locked
    /\ upload[f] = "uploading"
    /\ upload' = [upload EXCEPT ![f] = "landed"]
    /\ SetScan({f} \cap Large, "too_large")
    /\ UNCHANGED <<doc, stamp, late, work, job, faults>>

\* The draft goes with its last file.
RemoveFile(f) ==
    /\ parent = "draft" /\ ~Locked
    /\ f \in Held
    /\ upload' = [upload EXCEPT ![f] = "gone"]
    /\ parent' = IF Held = {f} THEN "gone" ELSE "draft"
    /\ UNCHANGED <<key, linkKey, scan, stamp, late, work, job, faults>>

DropDraft ==
    /\ parent = "draft" /\ ~Locked
    /\ parent' = "gone"
    /\ upload' = [f \in Files |-> IF f \in Held THEN "gone" ELSE upload[f]]
    /\ UNCHANGED <<key, linkKey, scan, stamp, late, work, job, faults>>

-----------------------------------------------------------------------------
(* finalize, one poll.                                                     *)

\* _reject_bad_finalize_shape
ShapeAllowed == Held # {} /\ \A f \in Held : upload[f] = "landed"

M_KeyAllowed(k) == key # None => k # None   \* a different key is not refused

\* _reject_key_change; want is None for a confidential poll.
KeyAllowed(k) == key # None => k = key

Pending == {f \in Held : scan[f] = "pending"}

\* _scan_gate: a failed scan refuses the poll.
Refused == \E f \in Held : scan[f] \in Blocked \cup {"error_transient"}

\* The lock is taken and the files are read.  What follows depends on what was
\* read only: a confidential poll exempts the pending files, another one will
\* wait for them, and stamp and send those that are not yet (todo, in both
\* cases: _submit_pending_scans).  A refused poll raises, which rolls back.
FinalizeBegin(q, k) ==
    /\ parent = "draft" /\ ~Locked
    /\ At(q, "idle")
    /\ ShapeAllowed /\ KeyAllowed(k) /\ ~Refused
    /\ job' = [job EXCEPT ![q] =
         IF k = None \/ Pending = {}
         THEN [Idle EXCEPT !.at = "sharing", !.todo = Pending, !.want = k]
         ELSE [Idle EXCEPT !.at = "waiting", !.want = k,
                           !.todo = {f \in Pending : stamp[f] = None}]]
    /\ UNCHANGED <<doc, row, work, faults>>

\* The poll's key, once parked (_park_encryption_key).
Parked(q) == IF key = None THEN job[q].want ELSE key

\* 202: the writes are committed, the sends follow.
FinalizeWait(q) ==
    /\ At(q, "waiting")
    /\ key' = Parked(q)
    /\ \E s \in Stamps : Fresh(s) /\ Restamp(job[q].todo, s)
    /\ Commit(q, job[q].todo)
    /\ UNCHANGED <<parent, linkKey, upload, scan, work, faults>>

\* _create_transfer_from_draft moves every file that is on the draft by now.
FinalizeShare(q) ==
    /\ At(q, "sharing")
    /\ parent' = "transfer"
    /\ key' = Parked(q)
    /\ linkKey' = job[q].want
    /\ SetScan(job[q].todo, "skipped")
    /\ End(q)
    /\ UNCHANGED <<upload, stamp, late, work, faults>>

-----------------------------------------------------------------------------
(* rescan.                                                                 *)

M_Rescannable ==                \* a scan inside its budget counts as lost
    {f \in Files : upload[f] = "landed" /\ scan[f] \in {"pending", "error_transient"}}

\* Landed files whose scan is past its budget, never started, or failed in a
\* way a retry can clear.
Rescannable ==
    {f \in Files : upload[f] = "landed" /\
        \/ scan[f] = "error_transient"
        \/ scan[f] = "pending" /\ (stamp[f] = None \/ f \in late)}

M_RescanBegin(q) ==             \* get_object(): the lock is not taken
    /\ parent = "draft"
    /\ At(q, "idle") /\ Rescannable # {}
    /\ \E s \in Stamps : Fresh(s) /\
         job' = [job EXCEPT ![q] = Read("rescanning", Rescannable, s)]
    /\ UNCHANGED <<doc, row, work, faults>>

RescanBegin(q) ==
    /\ parent = "draft" /\ ~Locked
    /\ At(q, "idle") /\ Rescannable # {}
    /\ \E s \in Stamps : Fresh(s) /\
         job' = [job EXCEPT ![q] = Read("rescanning", Rescannable, s)]
    /\ UNCHANGED <<doc, row, work, faults>>

M_Claimed(q) == job[q].todo \cap Held   \* UPDATE ... WHERE id alone

\* The conditional UPDATE matches the rows that nobody touched since.
Claimed(q) == {f \in job[q].todo : Unchanged(q, f)}

RescanEnd(q) ==
    /\ At(q, "rescanning")
    /\ SetScan(Claimed(q), "pending")
    /\ Restamp(Claimed(q), job[q].now)
    /\ Commit(q, Claimed(q))
    /\ UNCHANGED <<doc, upload, work, faults>>

\* on_commit callbacks: the first one the broker refuses stops the rest.  A
\* refusal may come for a message that was stored.
Send(q, f) ==
    /\ At(q, "sending") /\ f \in job[q].todo
    /\ \/ /\ More(queued, f)
          /\ Commit(q, job[q].todo \ {f})
          /\ UNCHANGED faults
       \/ /\ Fault
          /\ End(q)
          /\ UNCHANGED queued \/ More(queued, f)
    /\ UNCHANGED <<doc, row, running, scanning, handed>>

-----------------------------------------------------------------------------
(* The reaper.                                                             *)

Stale == {f \in Held : scan[f] = "pending" /\ stamp[f] # None /\ f \in late}

ReapBegin(r) ==
    /\ At(r, "idle") /\ Stale # {}
    /\ \E s \in Stamps : Fresh(s) /\
         job' = [job EXCEPT ![r] = Read("reaping", Stale, s)]
    /\ UNCHANGED <<doc, row, work, faults>>

\* On to the next stale file.
NextStale(r, f) ==
    LET left == job[r].todo \ {f}
    IN  job' = [job EXCEPT ![r] =
            IF left = {} THEN Idle
            ELSE [job[r] EXCEPT !.at = "reaping", !.todo = left, !.file = None]]

\* The claim; a row somebody else re-armed, decided or deleted is skipped.
ReapClaim(r, f) ==
    /\ At(r, "reaping") /\ f \in job[r].todo
    /\ \/ /\ Unchanged(r, f)
          /\ Restamp({f}, job[r].now)
          /\ job' = [job EXCEPT ![r].at = "claimed", ![r].file = f]
       \/ /\ ~Unchanged(r, f)
          /\ NextStale(r, f)
          /\ UNCHANGED <<stamp, late>>
    /\ UNCHANGED <<doc, upload, scan, work, faults>>

ReapSend(r) ==
    /\ At(r, "claimed")
    /\ More(queued, job[r].file)
    /\ NextStale(r, job[r].file)
    /\ UNCHANGED <<doc, row, running, scanning, handed, faults>>

M_GiveBack(r, f) ==             \* the stamp is cleared instead of restored
    /\ stamp' = [stamp EXCEPT ![f] = None]
    /\ UNCHANGED late

M_GiveBackAlways(r, f) ==       \* UPDATE ... WHERE id alone
    /\ stamp' = [stamp EXCEPT ![f] = job[r].seenStamp[f]]
    /\ late' = IF stamp[f] = job[r].now THEN late \cup {f} ELSE late

\* The old stamp is given back, unless the row has another one by now.
GiveBack(r, f) ==
    IF f \in Held /\ stamp[f] = job[r].now
    THEN /\ stamp' = [stamp EXCEPT ![f] = job[r].seenStamp[f]]
         /\ late' = late \cup {f}
    ELSE UNCHANGED <<stamp, late>>

\* The broker refuses (perhaps after storing the message): the run raises.
ReapRefused(r) ==
    /\ At(r, "claimed")
    /\ Fault
    /\ GiveBack(r, job[r].file)
    /\ UNCHANGED queued \/ More(queued, job[r].file)
    /\ End(r)
    /\ UNCHANGED <<doc, upload, scan, running, scanning, handed>>

-----------------------------------------------------------------------------
(* submit_scan_task: deliveries of one message per file.                   *)

\* The checks, on the row as it is read; a message they refuse is done with.
Deliver(f) ==
    /\ Fewer(queued, f)
    /\ IF upload[f] = "landed" /\ scan[f] = "pending"
       THEN More(running, f)
       ELSE UNCHANGED running
    /\ UNCHANGED <<doc, row, scanning, handed, job, faults>>

\* The key is read from the parent, and the POST accepted.  No key, no POST; a
\* file that left since may have been in time or not.
Post(f) ==
    /\ Fewer(running, f)
    /\ \/ key # None /\ More(scanning, f) /\ handed' = handed \cup {key}
       \/ (key = None \/ f \notin Held) /\ UNCHANGED <<scanning, handed>>
    /\ UNCHANGED <<doc, row, queued, job, faults>>

\* The POST fails, or the worker dies before or after it: the message comes
\* back, or is dropped once its retries are exhausted.
PostFails(f) ==
    /\ Fewer(running, f)
    /\ Fault
    /\ UNCHANGED queued \/ More(queued, f)
    /\ \/ UNCHANGED <<scanning, handed>>
       \/ key # None /\ More(scanning, f) /\ handed' = handed \cup {key}
    /\ UNCHANGED <<doc, row, job>>

-----------------------------------------------------------------------------
(* The scanner's callbacks (ScanResultWebhookView).                        *)

\* The bodies it may send: not an object, or a status, a malware verdict and
\* an error kind, each possibly missing or unknown.
Payloads == [status : {"done", "error"}, object : BOOLEAN,
             verdict : {"clean", "malware", "partial", "error", "flagged", "none"},
             kind : {"transient", "file", "none"}]

M_Result(p) ==                  \* the scanner's word, unmapped
    IF p.object /\ p.status = "done" THEN p.verdict ELSE "error_transient"

\* _status_from_payload and _error_kind_from_payload: fails closed.
Result(p) ==
    CASE ~p.object -> "error_transient"
      [] p.object /\ p.status = "done" /\ p.verdict = "clean" -> "clean"
      [] p.object /\ p.status = "done" /\ p.verdict = "malware" -> "infected"
      [] p.object /\ p.status = "done" /\ p.verdict = "partial" -> "unscannable"
      [] OTHER -> IF p.verdict = "flagged" \/ p.kind = "file"
                  THEN "error_file" ELSE "error_transient"

Results == {Result(p) : p \in Payloads}

M_Apply(f, v) ==                \* UPDATE ... WHERE id alone
    SetScan({f} \cap Held, v)

\* UPDATE ... WHERE scan_status = 'pending'; anything else is acknowledged.
Apply(f, v) ==
    SetScan({g \in {f} \cap Held : scan[g] = "pending"}, v)

\* The scanner may deliver a result again: the job stays.
Callback(f, v) ==
    /\ scanning[f] > 0
    /\ Apply(f, v)
    /\ UNCHANGED scanning \/ Fewer(scanning, f)
    /\ UNCHANGED <<doc, upload, stamp, late, queued, running, handed, job, faults>>

LoseJob(f) ==
    /\ Fewer(scanning, f)
    /\ Fault
    /\ UNCHANGED <<doc, row, queued, running, handed, job>>

-----------------------------------------------------------------------------
(* The environment.                                                        *)

\* A process dies: an open transaction is rolled back, what was committed
\* stays, and the sends that were left are lost.
Die(a) ==
    /\ ~At(a, "idle")
    /\ Fault
    /\ End(a)
    /\ UNCHANGED <<doc, row, work>>

\* scan_wait_seconds, and the reap window, have passed since the stamp.
Lapse(f) ==
    /\ f \in Held /\ stamp[f] # None /\ f \notin late
    /\ late' = late \cup {f}
    /\ UNCHANGED <<doc, upload, scan, stamp, work, job, faults>>

-----------------------------------------------------------------------------
DraftStep ==
    \/ DropDraft
    \/ \E f \in Files : AddFile(f) \/ CompleteUpload(f) \/ RemoveFile(f)

RequestContinues(q) ==
    \/ FinalizeWait(q) \/ FinalizeShare(q)
    \/ RescanEnd(q)
    \/ \E f \in Files : Send(q, f)

RequestStep(q) ==
    \/ \E k \in Keys \cup {None} : FinalizeBegin(q, k)
    \/ RescanBegin(q)
    \/ RequestContinues(q)

RunStep(r) ==
    \/ ReapBegin(r) \/ ReapSend(r) \/ ReapRefused(r)
    \/ \E f \in Files : ReapClaim(r, f)

ScanStep(f) ==
    \/ Deliver(f) \/ Post(f) \/ PostFails(f) \/ LoseJob(f)
    \/ \E v \in Results : Callback(f, v)

Next ==
    \/ DraftStep
    \/ \E q \in Requests : RequestStep(q)
    \/ \E r \in Runs : RunStep(r)
    \/ \E f \in Files : ScanStep(f) \/ Lapse(f)
    \/ \E a \in Actors : Die(a)

Spec == Init /\ [][Next]_vars

\* A request that began ends, cron keeps starting runs (every 5 minutes), the
\* broker delivers, workers work, the scanner answers what it did not lose,
\* and budgets run out.  Nobody is bound to upload, poll, rescan or abort.
Fairness ==
    /\ \A q \in Requests : WF_vars(RequestContinues(q))
    /\ \A r \in Runs : WF_vars(RunStep(r))
    /\ \A f \in Files :
          /\ WF_vars(Deliver(f)) /\ WF_vars(Post(f)) /\ WF_vars(Lapse(f))
          /\ WF_vars(\E v \in Results : Callback(f, v) /\ Fewer(scanning, f))

FairSpec == Spec /\ Fairness

-----------------------------------------------------------------------------
(* Properties.                                                             *)

\* Every variable keeps its type (columns of core_transfer_draft and
\* core_transfer_file, local variables, messages and jobs in flight).
TypeOK ==
    /\ parent \in {"draft", "transfer", "gone"}
    /\ key \in Keys \cup {None} /\ linkKey \in Keys \cup {None}
    /\ upload \in [Files -> {"absent", "uploading", "landed", "gone"}]
    /\ scan \in [Files -> ScanStatuses]
    /\ stamp \in [Files -> Stamps \cup {None}]
    /\ late \subseteq Files
    /\ queued \in [Files -> 0..MaxQueue]
    /\ running \in [Files -> 0..MaxQueue]
    /\ scanning \in [Files -> 0..MaxQueue]
    /\ handed \subseteq Keys
    /\ job \in [Actors -> Jobs]
    /\ faults \in Nat

\* A transfer holds only complete files whose scan lets them out, for good:
\* no late callback, no reaper and no file attached meanwhile can change that
\* (the gate of finalize decided on rows it had read earlier).
SharedIsSettled ==
    parent = "transfer" =>
        \A f \in Held : upload[f] = "landed" /\ scan[f] \in Released

\* The transfer is stored under the key of the link its sender got, every
\* scan used that key, and a confidential transfer was never given to the
\* scanner, however many polls with other metadata came before.
SharedUnderOneKey ==
    parent = "transfer" => key = linkKey /\ handed \subseteq {linkKey} \ {None}

\* A scan is started again only when it never started, failed, or is past its
\* budget: of a poll, a rescan and the reaper that meet on a file one submits
\* it, and nobody re-arms the scan the other has just started.
ArmedOnlyWhenLost ==
    [][\A f \in Files : stamp'[f] # stamp[f] /\ f \notin late' =>
          stamp[f] = None \/ f \in late \/ scan[f] = "error_transient"]_vars

\* What the serializer says of scan_submitted: a pending file with a stamp has
\* a scan in flight, which finalize's key made possible.
SubmittedHasKey ==
    \A f \in Held : scan[f] = "pending" /\ stamp[f] # None => key # None

Class(s) ==
    CASE s = "pending" -> "open"
      [] s = "error_transient" -> "retry"
      [] s \in Released -> "passed"
      [] OTHER -> "blocked"

Verdict == [f \in Files |-> Class(scan[f])]

Gate == INSTANCE ScanGate WITH held <- Held, verdict <- Verdict

\* The gate keeps its promise: verdicts decided once, reopened only after a
\* failed scan of a draft, sharing only what is passed or exempted.
ImplementsGate == Gate!Spec

\* A submitted file gets an answer whatever is lost on the way: the reaper
\* tries again until one comes, or the file leaves.
SubmittedIsAnswered ==
    \A f \in Files :
        (f \in Held /\ stamp[f] # None /\ key # None)
            ~> (scan[f] # "pending" \/ f \notin Held)
===============================================================================
