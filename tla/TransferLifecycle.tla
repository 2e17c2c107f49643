--------------------------- MODULE TransferLifecycle ---------------------------
(***************************************************************************)
(* One row of core_transfer from finalize to the end of its life, with its *)
(* S3 objects and its audit journal, under every actor that touches them:  *)
(*   Requests  visitors' GET .../files/<id>/  (viewsets/download.py)       *)
(*   Owners    the sender's deactivate and destroy (viewsets/transfer.py)  *)
(*   Runs      cron runs of deactivate_expired_transfers_task and          *)
(*             delete_pending_transfer_files_task (tasks.py)               *)
(* Views run in autocommit: each database statement, and each              *)
(* transaction.atomic() block, is a step of its own, and what an actor     *)
(* read earlier (seen, todo) may be stale when it acts.  Rows of two       *)
(* transfers never meet in a statement, so one row stands for all.         *)
(***************************************************************************)
EXTENDS Naturals

CONSTANTS
    Files,          \* the files finalize moved onto the transfer
    Released,       \* those whose scan_status lets them be downloaded
    Requests, Owners, Runs,
    ExpiresAt,      \* expires_at
    PurgeDelay,     \* TRANSFER_PURGE_DELAY_HOURS
    UrlTTL,         \* TRANSFER_PRESIGNED_URL_EXPIRY
    RequestLimit,   \* gunicorn's timeout: a request outlives no more ticks
    Horizon,        \* bound: the clock stops here once no deadline is pending
    MaxFaults,      \* bound: S3 errors and killed workers per behaviour
    None            \* a NULL column

Actors == Requests \cup Owners \cup Runs

ASSUME LifecycleAssumption ==
    /\ Files # {} /\ Released \subseteq Files
    /\ Requests \cap Owners = {} /\ Requests \cap Runs = {}
    /\ Owners \cap Runs = {}
    /\ {ExpiresAt, PurgeDelay, UrlTTL, RequestLimit, Horizon, MaxFaults}
         \subseteq Nat
    /\ UrlTTL > 0 /\ UrlTTL + RequestLimit <= PurgeDelay
    /\ None \notin Nat
    /\ None \notin {"manual", "expired", "first_download"}

Statuses == {"active", "pending_file_deletion", "deactivated", "deleted"}
Reasons  == {"manual", "expired", "first_download"}
Events   == Reasons \cup {"file_deleted", "transfer_deleted"}

Labels   == {"idle", "admitted", "recorded", "deactivating", "deactivated",
             "wiping", "wiped", "expiring", "expired"}
Jobs     == [at : Labels, seen : Statuses, todo : SUBSET Files,
             failed : BOOLEAN, started : Nat]

VARIABLES
    now,
    oneShot,        \* auto_archive_on_download
    status,         \* "deleted" once the row is gone
    reason,         \* deactivation_reason
    pendingAt,      \* pending_deletion_at
    objects,        \* files whose object is in the bucket
    downloaded,     \* files with a FILE_DOWNLOADED event
    logged,         \* how many events of each kind the journal holds
    resume,         \* per file, when the newest resume token was signed
    urls,           \* unexpired URLs handed out while the link was open
    job,            \* what each actor is in the middle of
    missedCheck,    \* history: a download died before its one-shot check
    faults          \* bounds S3 errors and killed workers

row   == <<oneShot, status, reason, pendingAt>>
audit == <<downloaded, logged>>
links == <<resume, urls>>
env   == <<now, missedCheck, faults>>
vars  == <<row, objects, audit, links, job, env>>

Idle == [at |-> "idle", seen |-> "active", todo |-> {}, failed |-> FALSE,
         started |-> 0]

Init ==
    /\ now = 0
    /\ oneShot \in BOOLEAN
    /\ status = "active"
    /\ reason = None
    /\ pendingAt = None
    /\ objects = Files
    /\ downloaded = {}
    /\ logged = [e \in Events |-> 0]
    /\ resume = [f \in Files |-> None]
    /\ urls = {}
    /\ job = [a \in Actors |-> Idle]
    /\ missedCheck = FALSE
    /\ faults = 0

-----------------------------------------------------------------------------
(* Steps shared by several actors.                                         *)

At(a, l) == job[a].at = l

Goto(a, l) == job' = [job EXCEPT ![a].at = l]

End(a) == job' = [job EXCEPT ![a] = Idle]

Log(e) == logged' = [logged EXCEPT ![e] = @ + 1]

\* Mutants (names in M_): plausible bugs, each of which breaks a property.
M_DeactivateAnyStatus(r) ==     \* UPDATE without WHERE status = 'active'
    /\ status' = "pending_file_deletion" /\ reason' = r
    /\ pendingAt' = now + PurgeDelay /\ UNCHANGED oneShot

M_DeactivateNoGrace(r) ==       \* the delay is forgotten
    /\ status = "active" /\ status' = "pending_file_deletion" /\ reason' = r
    /\ pendingAt' = now /\ UNCHANGED oneShot

M_DeactivateSwapped(r) ==       \* the reason written into the status column
    /\ status = "active" /\ status' = r /\ reason' = r
    /\ pendingAt' = now + PurgeDelay /\ UNCHANGED oneShot

\* Transfer.deactivate: a conditional UPDATE ... WHERE status = 'active'.
Deactivate(r) ==
    /\ status = "active"
    /\ status' = "pending_file_deletion"
    /\ reason' = r
    /\ pendingAt' = now + PurgeDelay
    /\ UNCHANGED oneShot

\* An actor starts with a snapshot of the row and the files it will work on.
\* Only HTTP requests have a bounded life.
Begin(a, l, fs) ==
    /\ At(a, "idle")
    /\ job' = [job EXCEPT ![a] =
         [at |-> l, seen |-> status, todo |-> fs, failed |-> FALSE,
          started |-> IF a \in Runs THEN 0 ELSE now]]

-----------------------------------------------------------------------------
(* Visitors.                                                               *)

Open == status = "active" /\ now < ExpiresAt

\* A valid resume token gets through during a one-shot's grace window.
ResumeGrace(f) ==
    /\ resume[f] # None
    /\ now <= resume[f] + PurgeDelay
    /\ status = "pending_file_deletion"
    /\ reason = "first_download"
    /\ now < pendingAt

Admit(q, f) ==
    /\ Open \/ ResumeGrace(f)
    /\ f \in Released
    /\ Begin(q, "admitted", {f})
    /\ UNCHANGED <<row, objects, audit, links, env>>

\* Sign the URL, then journal FILE_DOWNLOADED unless the visitor is the owner.
RecordDownload(q) ==
    /\ At(q, "admitted")
    /\ Goto(q, "recorded")
    /\ downloaded' \in {downloaded, downloaded \cup job[q].todo}
    /\ urls' = IF job[q].seen = "active"
               THEN urls \cup [file : job[q].todo, until : {now + UrlTTL}]
               ELSE urls
    /\ UNCHANGED <<row, objects, logged, resume, env>>

\* The view only takes the row lock when its snapshot says one-shot and active.
ChecksOneShot(q) == oneShot /\ job[q].seen = "active"

\* select_for_update(skip_locked=True): another request at its check hides the row.
M_ArchiveSkipLocked(q) ==
    \/ /\ ChecksOneShot(q) /\ downloaded = Files
       /\ \A p \in Requests \ {q} : ~At(p, "recorded")
       /\ Deactivate("first_download")
       /\ Log("first_download")
    \/ UNCHANGED <<row, logged>>

\* Under the row lock; the UPDATE and its event are one transaction.
ArchiveIfComplete(q) ==
    \/ /\ ChecksOneShot(q) /\ downloaded = Files
       /\ Deactivate("first_download")
       /\ Log("first_download")
    \/ /\ ~ChecksOneShot(q) \/ downloaded # Files \/ status # "active"
       /\ UNCHANGED <<row, logged>>

\* The answer is JSON with a fresh resume token, or a bare redirect; there is
\* none when select_for_update().get raised because the row is gone.
Answer(q) ==
    \/ UNCHANGED resume
    \/ /\ ~(ChecksOneShot(q) /\ status = "deleted")
       /\ resume' = [f \in Files |-> IF f \in job[q].todo THEN now ELSE resume[f]]

FinishDownload(q) ==
    /\ At(q, "recorded")
    /\ End(q)
    /\ ArchiveIfComplete(q)
    /\ Answer(q)
    /\ missedCheck' = FALSE
    /\ UNCHANGED <<now, objects, downloaded, urls, faults>>

-----------------------------------------------------------------------------
(* The sender.                                                             *)

RequestDeactivate(o) ==
    /\ status = "active"
    /\ Begin(o, "deactivating", {})
    /\ UNCHANGED <<row, objects, audit, links, env>>

\* The view ignores what deactivate() returns ...
ApplyDeactivate(o) ==
    /\ At(o, "deactivating")
    /\ Goto(o, "deactivated")
    /\ Deactivate("manual") \/ (status # "active" /\ UNCHANGED row)
    /\ UNCHANGED <<objects, audit, links, env>>

\* ... and journals a manual deactivation whatever it was.
LogDeactivate(o) ==
    /\ At(o, "deactivated")
    /\ End(o)
    /\ Log("manual")
    /\ UNCHANGED <<row, objects, downloaded, links, env>>

M_RequestDestroyActive(o) ==    \* the ACTIVE guard is dropped
    /\ \/ status \in {"active", "pending_file_deletion"} /\ Begin(o, "wiping", Files)
       \/ status = "deactivated" /\ Begin(o, "wiped", {})
    /\ UNCHANGED <<row, objects, audit, links, env>>

\* perform_destroy: ACTIVE is refused, a pending row is wiped first.
RequestDestroy(o) ==
    /\ \/ status = "pending_file_deletion" /\ Begin(o, "wiping", Files)
       \/ status = "deactivated" /\ Begin(o, "wiped", {})
    /\ UNCHANGED <<row, objects, audit, links, env>>

\* The event and the delete are one transaction; deleting a row that another
\* destroy already removed is no error.  The other columns keep the values
\* the row last held.
DropRow(o) ==
    /\ At(o, "wiped")
    /\ End(o)
    /\ status' = "deleted"
    /\ Log("transfer_deleted")
    /\ UNCHANGED <<oneShot, reason, pendingAt, objects, downloaded, links, env>>

-----------------------------------------------------------------------------
(* Wiping the objects, one best-effort DeleteObject per file.              *)

DeleteObject(a, f) ==
    /\ At(a, "wiping") /\ f \in job[a].todo
    /\ \/ /\ objects' = objects \ {f}
          /\ job' = [job EXCEPT ![a].todo = @ \ {f}]
          /\ UNCHANGED faults
       \/ /\ faults < MaxFaults
          /\ faults' = faults + 1
          /\ job' = [job EXCEPT ![a].todo = @ \ {f}, ![a].failed = TRUE]
          /\ UNCHANGED objects
    /\ UNCHANGED <<row, audit, links, now, missedCheck>>

M_FinishWipeIgnoringErrors(a) ==
    /\ At(a, "wiping") /\ job[a].todo = {}
    /\ Goto(a, "wiped")
    /\ UNCHANGED <<row, objects, audit, links, env>>

\* One error refuses the destroy, and leaves the purge for the next run.
FinishWipe(a) ==
    /\ At(a, "wiping") /\ job[a].todo = {}
    /\ IF job[a].failed THEN End(a) ELSE Goto(a, "wiped")
    /\ UNCHANGED <<row, objects, audit, links, env>>

-----------------------------------------------------------------------------
(* Cron runs.                                                              *)

M_SelectExpiredNotOneShot(r) == \* one-shot links left to their first download
    /\ status = "active" /\ ExpiresAt <= now /\ ~oneShot
    /\ Begin(r, "expiring", {})
    /\ UNCHANGED <<row, objects, audit, links, env>>

SelectExpired(r) ==
    /\ status = "active" /\ ExpiresAt <= now
    /\ Begin(r, "expiring", {})
    /\ UNCHANGED <<row, objects, audit, links, env>>

M_ExpireRowIgnoringReturn(r) ==
    /\ At(r, "expiring")
    /\ Deactivate("expired") \/ (status # "active" /\ UNCHANGED row)
    /\ Goto(r, "expired")
    /\ UNCHANGED <<objects, audit, links, env>>

\* A False return skips the row: another feed closed it first.
ExpireRow(r) ==
    /\ At(r, "expiring")
    /\ \/ Deactivate("expired") /\ Goto(r, "expired")
       \/ status # "active" /\ UNCHANGED row /\ End(r)
    /\ UNCHANGED <<objects, audit, links, env>>

LogExpiry(r) ==
    /\ At(r, "expired")
    /\ End(r)
    /\ Log("expired")
    /\ UNCHANGED <<row, objects, downloaded, links, env>>

M_SelectPurgeEarly(r) ==        \* pending_deletion_at not compared
    /\ status = "pending_file_deletion"
    /\ Begin(r, "wiping", Files)
    /\ UNCHANGED <<row, objects, audit, links, env>>

SelectPurge(r) ==
    /\ status = "pending_file_deletion" /\ pendingAt <= now
    /\ Begin(r, "wiping", Files)
    /\ UNCHANGED <<row, objects, audit, links, env>>

M_StampResurrects(r) ==         \* plain save(): re-inserts a deleted row
    /\ At(r, "wiped")
    /\ End(r)
    /\ status' = "deactivated" /\ pendingAt' = None
    /\ Log("file_deleted")
    /\ UNCHANGED <<oneShot, reason, objects, downloaded, links, env>>

\* save(update_fields=...) raises when the row is gone: nothing is written.
StampDeactivated(r) ==
    /\ At(r, "wiped")
    /\ End(r)
    /\ \/ status = "deleted" /\ UNCHANGED <<row, logged>>
       \/ /\ status # "deleted"
          /\ status' = "deactivated"
          /\ pendingAt' = None
          /\ Log("file_deleted")
          /\ UNCHANGED <<oneShot, reason>>
    /\ UNCHANGED <<objects, downloaded, links, env>>

-----------------------------------------------------------------------------
(* The environment.                                                        *)

\* A killed worker, a lost connection, an exception: the actor stops there.
Die(a) ==
    /\ ~At(a, "idle")
    /\ faults < MaxFaults
    /\ faults' = faults + 1
    /\ End(a)
    /\ missedCheck' = (missedCheck \/ (a \in Requests /\ At(a, "recorded")))
    /\ UNCHANGED <<row, objects, audit, links, now>>

Tick ==
    /\ now < Horizon \/ (status = "pending_file_deletion" /\ now < pendingAt)
    /\ \A a \in Requests \cup Owners :
          ~At(a, "idle") => now < job[a].started + RequestLimit
    /\ now' = now + 1
    /\ urls' = {u \in urls : now + 1 < u.until}
    /\ UNCHANGED <<row, objects, audit, resume, job, missedCheck, faults>>

-----------------------------------------------------------------------------
RequestStep(q) ==
    (\E f \in Files : Admit(q, f)) \/ RecordDownload(q) \/ FinishDownload(q)

WipeStep(a) == (\E f \in Files : DeleteObject(a, f)) \/ FinishWipe(a)

OwnerStep(o) ==
    \/ RequestDeactivate(o) \/ ApplyDeactivate(o) \/ LogDeactivate(o)
    \/ RequestDestroy(o) \/ WipeStep(o) \/ DropRow(o)

RunStep(r) ==
    \/ SelectExpired(r) \/ ExpireRow(r) \/ LogExpiry(r)
    \/ SelectPurge(r) \/ WipeStep(r) \/ StampDeactivated(r)

Next ==
    \/ \E q \in Requests : RequestStep(q)
    \/ \E o \in Owners : OwnerStep(o)
    \/ \E r \in Runs : RunStep(r)
    \/ \E a \in Actors : Die(a)
    \/ Tick

Spec == Init /\ [][Next]_vars

\* The clock runs, an HTTP request that was accepted ends (gunicorn kills it
\* otherwise), and cron keeps starting runs: the scheduler fires both tasks
\* every hour.  Nobody is bound to download, deactivate or destroy.
Fairness ==
    /\ WF_vars(Tick)
    /\ \A q \in Requests : WF_vars(RecordDownload(q) \/ FinishDownload(q))
    /\ \A o \in Owners :
          WF_vars(ApplyDeactivate(o) \/ LogDeactivate(o) \/ WipeStep(o) \/ DropRow(o))
    /\ \A r \in Runs : WF_vars(RunStep(r))

FairSpec == Spec /\ Fairness

-----------------------------------------------------------------------------
(* Properties.                                                             *)

\* Every variable keeps its type (fields of core_transfer, local variables).
TypeOK ==
    /\ now \in Nat
    /\ oneShot \in BOOLEAN
    /\ status \in Statuses
    /\ reason \in Reasons \cup {None}
    /\ pendingAt \in Nat \cup {None}
    /\ objects \subseteq Files
    /\ downloaded \subseteq Files
    /\ logged \in [Events -> Nat]
    /\ resume \in [Files -> Nat \cup {None}]
    /\ urls \subseteq [file : Files, until : Nat]
    /\ job \in [Actors -> Jobs]
    /\ missedCheck \in BOOLEAN
    /\ faults \in Nat

\* A row that says its files are gone, or that is gone itself, leaves no
\* object behind, and no FILE_DELETED or TRANSFER_DELETED event lies: neither
\* overlapping purges and destroys, nor S3 errors between two files, strand
\* bytes that only the orphan sweep could find.
NoStrandedBytes ==
    (status \in {"deactivated", "deleted"}
       \/ logged["file_deleted"] > 0 \/ logged["transfer_deleted"] > 0)
    => objects = {}

\* While the link is open every file it offers can be fetched.
OpenLinkHasBytes == status = "active" => objects = Files

\* A URL handed out by an open link works until it expires, however the link
\* is closed meanwhile: no one but the owner's destroy may cut it short.
LiveUrlHasBytes ==
    \A u \in urls : u.file \notin objects =>
        \/ status = "deleted"
        \/ status = "pending_file_deletion" /\ now < pendingAt

\* One-shot: once every file has been given out, and no download is between
\* its event and its check, the link is closed.  A download that died in
\* between is made good by the next one.
OneShotCloses ==
    (oneShot /\ downloaded = Files /\ ~missedCheck
       /\ \A q \in Requests : ~At(q, "recorded"))
    => status # "active"

\* The journal never attributes the closing to an expiry or to a first
\* download that did not cause it, and does so at most once.
AuditMatchesReason ==
    \A e \in {"expired", "first_download"} :
        logged[e] <= 1 /\ (logged[e] = 1 => reason = e)

\* What the docstring of Transfer.deactivate asks of its callers: a caller
\* whose transition was not applied writes no deactivation event.
ManualEventOnlyIfApplied == logged["manual"] > 0 => reason = "manual"

Rank(s) == CASE s = "active" -> 0 [] s = "pending_file_deletion" -> 1
             [] s = "deactivated" -> 2 [] s = "deleted" -> 3

\* A row never goes back: not when a stale run saves it after a destroy, not
\* when two feeds close it at once; and the first reason recorded stays.
OneWay ==
    [][Rank(status) <= Rank(status')
        /\ (reason # None => reason' = reason)]_vars

\* The grace window: before pending_deletion_at an object can only go because
\* the owner is destroying the transfer.
OnlyOwnerSkipsGrace ==
    [][objects' # objects =>
          \/ \E o \in Owners : At(o, "wiping") /\ job'[o] # job[o]
          \/ pendingAt # None /\ pendingAt <= now]_vars

\* The link keeps its contract.
Contract == INSTANCE LinkContract WITH
    phase <- status, cause <- reason, bytes <- objects, taken <- downloaded
ImplementsContract == Contract!Spec

\* Every link dies: past its expiry it ends with no byte left in storage.
ExpiredIsPurged ==
    (ExpiresAt <= now) ~> (status \in {"deactivated", "deleted"} /\ objects = {})
=============================================================================
