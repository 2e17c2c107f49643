----------------------- MODULE TransferLifecycleProofs -----------------------
(***************************************************************************)
(* TransferLifecycle proved for every set of files, requests, senders and  *)
(* cron runs, every clock, delay and number of faults.                     *)
(*                                                                         *)
(* The properties are not inductive: what a step may do depends on what    *)
(* its actor read earlier.  Each part of IInv ties a local snapshot to the *)
(* state it was taken from: a wipe without an error leaves at most its     *)
(* to-do list in the bucket (WipeInv), the run that closed an expired link *)
(* is the only one about to journal it (AuditInv), and a URL signed from   *)
(* an open row expires before the purge deadline of that row (UrlInv).     *)
(***************************************************************************)
EXTENDS TransferLifecycle, TLAPS

\* The columns agree with the status.
RowInv ==
    /\ status = "active" => reason = None /\ objects = Files
    /\ status # "active" => reason \in Reasons
    /\ status = "pending_file_deletion" => pendingAt \in Nat
    /\ status \in {"deactivated", "deleted"} => objects = {}

\* What the actors that wipe objects know.
WipeInv ==
    /\ \A a \in Actors :
        /\ At(a, "wiping") \/ At(a, "wiped") => status # "active"
        /\ At(a, "wiping") /\ ~job[a].failed => objects \subseteq job[a].todo
        /\ At(a, "wiped") => objects = {}
    /\ logged["file_deleted"] > 0 \/ logged["transfer_deleted"] > 0 => objects = {}

\* Who may still journal an expiry.
AuditInv ==
    /\ status = "active" => logged["expired"] = 0 /\ logged["first_download"] = 0
    /\ \A a \in Actors : At(a, "expired") =>
        /\ reason = "expired" /\ logged["expired"] = 0
        /\ \A b \in Actors \ {a} : ~At(b, "expired")

\* Snapshots taken from an open row, and the deadlines they imply.
SnapshotInv ==
    /\ status = "active" => \A a \in Actors : job[a].seen = "active"
    /\ \A q \in Requests : At(q, "admitted") /\ job[q].seen = "active" =>
        /\ job[q].started <= now /\ now <= job[q].started + RequestLimit
        /\ status = "pending_file_deletion" =>
              job[q].started + RequestLimit + UrlTTL <= pendingAt
        /\ status # "deactivated"
    /\ \A r \in Runs : At(r, "wiping") \/ At(r, "wiped") =>
        (status = "pending_file_deletion" => pendingAt <= now)

UrlInv ==
    /\ \A u \in urls :
        /\ now < u.until
        /\ status = "active" => u.until <= now + UrlTTL
        /\ status = "pending_file_deletion" => u.until <= pendingAt
    /\ status = "deactivated" => urls = {}

IInv == TypeOK /\ RowInv /\ WipeInv /\ AuditInv /\ AuditMatchesReason
          /\ SnapshotInv /\ UrlInv /\ OneShotCloses

-----------------------------------------------------------------------------
(* What each way of changing job does to it, field by field.               *)

LEMMA BeginJob ==
    ASSUME TypeOK, NEW a \in Actors, NEW l \in Labels, NEW fs \in SUBSET Files,
           Begin(a, l, fs)
    PROVE  /\ job' \in [Actors -> Jobs]
           /\ job[a].at = "idle"
           /\ job'[a].at = l /\ job'[a].seen = status /\ job'[a].todo = fs
           /\ job'[a].failed = FALSE /\ (a \notin Runs => job'[a].started = now)
           /\ \A b \in Actors \ {a} : job'[b] = job[b]
<1> DEFINE s == IF a \in Runs THEN 0 ELSE now
           j == [at |-> l, seen |-> status, todo |-> fs, failed |-> FALSE, started |-> s]
<1>1. s \in Nat /\ (a \notin Runs => s = now)
  BY DEF TypeOK
<1>2. job \in [Actors -> Jobs] /\ status \in Statuses
  BY DEF TypeOK
<1>3. job' = [job EXCEPT ![a] = j] /\ job[a].at = "idle"
  BY DEF Begin, At
<1> HIDE DEF s
<1>4. j \in Jobs
  BY <1>1, <1>2 DEF Jobs
<1>5. job'[a] = j /\ \A b \in Actors \ {a} : job'[b] = job[b]
  BY <1>2, <1>3
<1>6. job' \in [Actors -> Jobs]
  BY <1>2, <1>3, <1>4
<1>. QED
  BY <1>1, <1>3, <1>5, <1>6

LEMMA GotoJob ==
    ASSUME TypeOK, NEW a \in Actors, NEW l \in Labels, Goto(a, l)
    PROVE  /\ job' \in [Actors -> Jobs]
           /\ job'[a].at = l /\ job'[a].seen = job[a].seen
           /\ job'[a].todo = job[a].todo /\ job'[a].failed = job[a].failed
           /\ job'[a].started = job[a].started
           /\ \A b \in Actors \ {a} : job'[b] = job[b]
BY DEF Goto, TypeOK, Jobs

LEMMA EndJob ==
    ASSUME TypeOK, NEW a \in Actors, End(a)
    PROVE  /\ job' \in [Actors -> Jobs]
           /\ job'[a] = Idle
           /\ \A b \in Actors \ {a} : job'[b] = job[b]
<1>1. Idle \in Jobs
  BY DEF Idle, Jobs, Labels, Statuses
<1>. QED
  BY <1>1 DEF End, TypeOK

LEMMA DeleteJob ==
    ASSUME TypeOK, NEW a \in Actors, NEW f \in Files, DeleteObject(a, f)
    PROVE  /\ job' \in [Actors -> Jobs]
           /\ job'[a].at = job[a].at /\ job'[a].seen = job[a].seen
           /\ job'[a].todo = job[a].todo \ {f}
           /\ job'[a].started = job[a].started
           /\ \/ job'[a].failed = job[a].failed /\ objects' = objects \ {f}
              \/ job'[a].failed = TRUE /\ objects' = objects
           /\ \A b \in Actors \ {a} : job'[b] = job[b]
BY DEF DeleteObject, TypeOK, Jobs

LEMMA AdmitJob ==
    ASSUME TypeOK, NEW q \in Requests, NEW f \in Files, Admit(q, f)
    PROVE  /\ q \in Actors /\ UNCHANGED <<row, objects, audit, links, env>>
           /\ job' \in [Actors -> Jobs] /\ job[q].at = "idle"
           /\ job'[q].at = "admitted" /\ job'[q].seen = status
           /\ job'[q].todo = {f} /\ job'[q].started = now
           /\ \A b \in Actors \ {q} : job'[b] = job[b]
<1>1. q \in Actors /\ "admitted" \in Labels /\ {f} \in SUBSET Files /\ q \notin Runs
  BY LifecycleAssumption DEF Actors, Labels
<1>2. Begin(q, "admitted", {f}) /\ UNCHANGED <<row, objects, audit, links, env>>
  BY DEF Admit
<1>. QED
  BY <1>1, <1>2, BeginJob, ZenonT(30)

LEMMA RequestDeactivateJob ==
    ASSUME TypeOK, NEW o \in Owners, RequestDeactivate(o)
    PROVE  /\ o \in Actors /\ UNCHANGED <<row, objects, audit, links, env>>
           /\ status = "active"
           /\ job' \in [Actors -> Jobs] /\ job[o].at = "idle"
           /\ job'[o].at = "deactivating" /\ job'[o].seen = status /\ job'[o].todo = {}
           /\ job'[o].failed = FALSE
           /\ \A b \in Actors \ {o} : job'[b] = job[b]
<1>1. o \in Actors /\ "deactivating" \in Labels /\ {} \in SUBSET Files
  BY DEF Actors, Labels
<1>2. /\ Begin(o, "deactivating", {})
      /\ status = "active"
      /\ UNCHANGED <<row, objects, audit, links, env>>
  BY DEF RequestDeactivate
<1>. QED
  BY <1>1, <1>2, BeginJob, ZenonT(30)

LEMMA SelectExpiredJob ==
    ASSUME TypeOK, NEW r \in Runs, SelectExpired(r)
    PROVE  /\ r \in Actors /\ UNCHANGED <<row, objects, audit, links, env>>
           /\ status = "active"
           /\ job' \in [Actors -> Jobs] /\ job[r].at = "idle"
           /\ job'[r].at = "expiring" /\ job'[r].seen = status /\ job'[r].todo = {}
           /\ job'[r].failed = FALSE
           /\ \A b \in Actors \ {r} : job'[b] = job[b]
<1>1. r \in Actors /\ "expiring" \in Labels /\ {} \in SUBSET Files
  BY DEF Actors, Labels
<1>2. /\ Begin(r, "expiring", {})
      /\ status = "active"
      /\ UNCHANGED <<row, objects, audit, links, env>>
  BY DEF SelectExpired
<1>. QED
  BY <1>1, <1>2, BeginJob, ZenonT(30)

LEMMA SelectPurgeJob ==
    ASSUME TypeOK, NEW r \in Runs, SelectPurge(r)
    PROVE  /\ r \in Actors /\ UNCHANGED <<row, objects, audit, links, env>>
           /\ status = "pending_file_deletion" /\ pendingAt <= now
           /\ job' \in [Actors -> Jobs] /\ job[r].at = "idle"
           /\ job'[r].at = "wiping" /\ job'[r].seen = status /\ job'[r].todo = Files
           /\ job'[r].failed = FALSE
           /\ \A b \in Actors \ {r} : job'[b] = job[b]
<1>1. r \in Actors /\ "wiping" \in Labels /\ Files \in SUBSET Files
  BY DEF Actors, Labels
<1>2. /\ Begin(r, "wiping", Files)
      /\ status = "pending_file_deletion" /\ pendingAt <= now
      /\ UNCHANGED <<row, objects, audit, links, env>>
  BY DEF SelectPurge
<1>. QED
  BY <1>1, <1>2, BeginJob, ZenonT(30)

LEMMA RequestDestroyJob ==
    ASSUME TypeOK, NEW o \in Owners, RequestDestroy(o)
    PROVE  /\ o \in Actors /\ UNCHANGED <<row, objects, audit, links, env>>
           /\ job' \in [Actors -> Jobs] /\ job[o].at = "idle"
           /\ \/ /\ status = "pending_file_deletion"
                 /\ job'[o].at = "wiping" /\ job'[o].todo = Files
              \/ status = "deactivated" /\ job'[o].at = "wiped"
           /\ job'[o].seen = status
           /\ \A b \in Actors \ {o} : job'[b] = job[b]
<1>1. /\ o \in Actors /\ "wiping" \in Labels /\ "wiped" \in Labels
      /\ {} \in SUBSET Files /\ Files \in SUBSET Files
  BY DEF Actors, Labels
<1>2. UNCHANGED <<row, objects, audit, links, env>>
  BY DEF RequestDestroy
<1>3. CASE status = "pending_file_deletion" /\ Begin(o, "wiping", Files)
  BY <1>1, <1>2, <1>3, BeginJob, ZenonT(30)
<1>4. CASE status = "deactivated" /\ Begin(o, "wiped", {})
  BY <1>1, <1>2, <1>4, BeginJob, ZenonT(30)
<1>. QED
  BY <1>3, <1>4 DEF RequestDestroy

LEMMA TypeInit == Init => TypeOK
<1> SUFFICES ASSUME Init PROVE TypeOK
  OBVIOUS
<1>1. Idle \in Jobs
  BY DEF Idle, Jobs, Labels, Statuses
<1>2. job \in [Actors -> Jobs]
  BY <1>1 DEF Init
<1>3. logged \in [Events -> Nat] /\ resume \in [Files -> Nat \cup {None}]
  BY DEF Init
<1>4. urls \subseteq [file : Files, until : Nat]
  BY DEF Init
<1>5. /\ now \in Nat /\ oneShot \in BOOLEAN /\ status \in Statuses /\ faults \in Nat
      /\ reason \in Reasons \cup {None} /\ pendingAt \in Nat \cup {None}
      /\ objects \subseteq Files /\ downloaded \subseteq Files /\ missedCheck \in BOOLEAN
  BY DEF Init, Statuses
<1>. QED
  BY <1>2, <1>3, <1>4, <1>5 DEF TypeOK

LEMMA TypeNext == TypeOK /\ [Next]_vars => TypeOK'
<1> SUFFICES ASSUME TypeOK, [Next]_vars PROVE TypeOK'
  OBVIOUS
<1> USE LifecycleAssumption DEF TypeOK, row, audit, links, env
<1>1. ASSUME NEW q \in Requests, NEW f \in Files, Admit(q, f)
      PROVE  TypeOK'
  BY <1>1, AdmitJob
<1>2. ASSUME NEW q \in Requests, RecordDownload(q)
      PROVE  TypeOK'
  BY <1>2, GotoJob DEF RecordDownload, Labels, Actors, Jobs
<1>3. ASSUME NEW q \in Requests, FinishDownload(q)
      PROVE  TypeOK'
  <2>1. q \in Actors
    BY DEF Actors
  <2>2. job' \in [Actors -> Jobs]
    BY <1>3, <2>1, EndJob DEF FinishDownload
  <2>3. resume' \in [Files -> Nat \cup {None}]
    BY <1>3 DEF FinishDownload, Answer
  <2>4. /\ status' \in Statuses /\ reason' \in Reasons \cup {None}
        /\ pendingAt' \in Nat \cup {None} /\ oneShot' \in BOOLEAN
        /\ logged' \in [Events -> Nat]
    BY <1>3 DEF FinishDownload, ArchiveIfComplete, Deactivate, Log, Statuses,
       Reasons
  <2>. QED
    BY <1>3, <2>2, <2>3, <2>4 DEF FinishDownload
<1>4. ASSUME NEW o \in Owners, RequestDeactivate(o)
      PROVE  TypeOK'
  BY <1>4, RequestDeactivateJob
<1>5. ASSUME NEW o \in Owners, ApplyDeactivate(o)
      PROVE  TypeOK'
  BY <1>5, GotoJob DEF ApplyDeactivate, Deactivate, Statuses, Reasons, Labels,
     Actors
<1>6. ASSUME NEW o \in Owners, LogDeactivate(o)
      PROVE  TypeOK'
  BY <1>6, EndJob DEF LogDeactivate, Log, Reasons, Events, Actors
<1>7. ASSUME NEW o \in Owners, RequestDestroy(o)
      PROVE  TypeOK'
  BY <1>7, RequestDestroyJob
<1>8. ASSUME NEW o \in Owners, DropRow(o)
      PROVE  TypeOK'
  BY <1>8, EndJob DEF DropRow, Log, Statuses, Events, Actors
<1>9. ASSUME NEW a \in Owners \cup Runs, NEW f \in Files, DeleteObject(a, f)
      PROVE  TypeOK'
  <2>1. a \in Actors
    BY DEF Actors
  <2>2. job' \in [Actors -> Jobs]
    BY <1>9, <2>1, DeleteJob
  <2>3. objects' \subseteq Files /\ faults' \in Nat
    BY <1>9 DEF DeleteObject
  <2>. QED
    BY <1>9, <2>2, <2>3 DEF DeleteObject
<1>10. ASSUME NEW a \in Owners \cup Runs, FinishWipe(a)
      PROVE  TypeOK'
  BY <1>10, GotoJob, EndJob DEF FinishWipe, Labels, Actors
<1>11. ASSUME NEW r \in Runs, SelectExpired(r)
      PROVE  TypeOK'
  BY <1>11, SelectExpiredJob
<1>12. ASSUME NEW r \in Runs, ExpireRow(r)
      PROVE  TypeOK'
  BY <1>12, GotoJob, EndJob DEF ExpireRow, Deactivate, Statuses, Reasons, Labels,
     Actors
<1>13. ASSUME NEW r \in Runs, LogExpiry(r)
      PROVE  TypeOK'
  BY <1>13, EndJob DEF LogExpiry, Log, Reasons, Events, Actors
<1>14. ASSUME NEW r \in Runs, SelectPurge(r)
      PROVE  TypeOK'
  BY <1>14, SelectPurgeJob
<1>15. ASSUME NEW r \in Runs, StampDeactivated(r)
      PROVE  TypeOK'
  BY <1>15, EndJob DEF StampDeactivated, Log, Statuses, Events, Actors
<1>16. ASSUME NEW a \in Actors, Die(a)
      PROVE  TypeOK'
  BY <1>16, EndJob DEF Die
<1>17. ASSUME Tick
      PROVE  TypeOK'
  BY <1>17 DEF Tick
<1>18. CASE UNCHANGED vars
  BY <1>18 DEF vars
<1>. QED
  BY <1>1, <1>2, <1>3, <1>4, <1>5, <1>6, <1>7, <1>8, <1>9, <1>10, <1>11, <1>12,
     <1>13, <1>14, <1>15, <1>16, <1>17, <1>18
     DEF Next, RequestStep, OwnerStep, RunStep, WipeStep

LEMMA RowNext == TypeOK /\ RowInv /\ WipeInv /\ [Next]_vars => RowInv'
<1> SUFFICES ASSUME TypeOK, RowInv, WipeInv, [Next]_vars PROVE RowInv'
  OBVIOUS
<1> USE LifecycleAssumption
<1> USE DEF row, audit, links, env, At
<1>1. ASSUME NEW q \in Requests, NEW f \in Files, Admit(q, f)
      PROVE  RowInv'
  <2>1. UNCHANGED <<row, objects, audit, links, env>>
    BY <1>1, AdmitJob
  <2>. QED
    BY <2>1 DEF RowInv, WipeInv, TypeOK, Actors, Reasons
<1>2. ASSUME NEW q \in Requests, RecordDownload(q)
      PROVE  RowInv'
  BY <1>2 DEF RecordDownload, RowInv, WipeInv, TypeOK, Actors, Reasons
<1>3. ASSUME NEW q \in Requests, FinishDownload(q)
      PROVE  RowInv'
  BY <1>3 DEF FinishDownload, ArchiveIfComplete, ChecksOneShot, Deactivate, Log,
     RowInv, WipeInv, TypeOK, Actors, Reasons
<1>4. ASSUME NEW o \in Owners, RequestDeactivate(o)
      PROVE  RowInv'
  <2>1. UNCHANGED <<row, objects, audit, links, env>>
    BY <1>4, RequestDeactivateJob
  <2>. QED
    BY <2>1 DEF RowInv, WipeInv, TypeOK, Actors, Reasons
<1>5. ASSUME NEW o \in Owners, ApplyDeactivate(o)
      PROVE  RowInv'
  BY <1>5 DEF ApplyDeactivate, Deactivate, RowInv, WipeInv, TypeOK, Actors, Reasons
<1>6. ASSUME NEW o \in Owners, LogDeactivate(o)
      PROVE  RowInv'
  BY <1>6 DEF LogDeactivate, Log, RowInv, WipeInv, TypeOK, Actors, Reasons
<1>7. ASSUME NEW o \in Owners, RequestDestroy(o)
      PROVE  RowInv'
  <2>1. UNCHANGED <<row, objects, audit, links, env>>
    BY <1>7, RequestDestroyJob
  <2>. QED
    BY <2>1 DEF RowInv, WipeInv, TypeOK, Actors, Reasons
<1>8. ASSUME NEW o \in Owners, DropRow(o)
      PROVE  RowInv'
  BY <1>8 DEF DropRow, Log, RowInv, WipeInv, TypeOK, Actors, Reasons
<1>9. ASSUME NEW a \in Owners \cup Runs, NEW f \in Files, DeleteObject(a, f)
      PROVE  RowInv'
  BY <1>9 DEF DeleteObject, RowInv, WipeInv, TypeOK, Actors, Reasons
<1>10. ASSUME NEW a \in Owners \cup Runs, FinishWipe(a)
      PROVE  RowInv'
  BY <1>10 DEF FinishWipe, RowInv, WipeInv, TypeOK, Actors, Reasons
<1>11. ASSUME NEW r \in Runs, SelectExpired(r)
      PROVE  RowInv'
  <2>1. UNCHANGED <<row, objects, audit, links, env>>
    BY <1>11, SelectExpiredJob
  <2>. QED
    BY <2>1 DEF RowInv, WipeInv, TypeOK, Actors, Reasons
<1>12. ASSUME NEW r \in Runs, ExpireRow(r)
      PROVE  RowInv'
  BY <1>12 DEF ExpireRow, Deactivate, RowInv, WipeInv, TypeOK, Actors, Reasons
<1>13. ASSUME NEW r \in Runs, LogExpiry(r)
      PROVE  RowInv'
  BY <1>13 DEF LogExpiry, Log, RowInv, WipeInv, TypeOK, Actors, Reasons
<1>14. ASSUME NEW r \in Runs, SelectPurge(r)
      PROVE  RowInv'
  <2>1. UNCHANGED <<row, objects, audit, links, env>>
    BY <1>14, SelectPurgeJob
  <2>. QED
    BY <2>1 DEF RowInv, WipeInv, TypeOK, Actors, Reasons
<1>15. ASSUME NEW r \in Runs, StampDeactivated(r)
      PROVE  RowInv'
  BY <1>15 DEF StampDeactivated, Log, RowInv, WipeInv, TypeOK, Actors, Reasons
<1>16. ASSUME NEW a \in Actors, Die(a)
      PROVE  RowInv'
  BY <1>16 DEF Die, RowInv, WipeInv, TypeOK, Actors, Reasons
<1>17. ASSUME Tick
      PROVE  RowInv'
  BY <1>17 DEF Tick, RowInv, WipeInv, TypeOK, Actors, Reasons
<1>18. CASE UNCHANGED vars
  BY <1>18 DEF vars, RowInv, WipeInv, TypeOK, Actors, Reasons
<1>. QED
  BY <1>1, <1>2, <1>3, <1>4, <1>5, <1>6, <1>7, <1>8, <1>9, <1>10, <1>11, <1>12,
     <1>13, <1>14, <1>15, <1>16, <1>17, <1>18
     DEF Next, RequestStep, OwnerStep, RunStep, WipeStep

LEMMA WipeNext == TypeOK /\ RowInv /\ WipeInv /\ [Next]_vars => WipeInv'
<1> SUFFICES ASSUME TypeOK, RowInv, WipeInv, [Next]_vars PROVE WipeInv'
  OBVIOUS
<1> USE DEF row, audit, links, env, At, Events, Reasons
<1>1. ASSUME NEW q \in Requests, NEW f \in Files, Admit(q, f)
      PROVE  WipeInv'
  <2>1. /\ q \in Actors
        /\ UNCHANGED <<row, objects, audit, links, env>>
        /\ job[q].at = "idle"
        /\ job'[q].at = "admitted" /\ job'[q].seen = status /\ job'[q].started = now
        /\ \A b \in Actors \ {q} : job'[b] = job[b]
    BY <1>1, AdmitJob
  <2>. QED
    BY <2>1 DEF RowInv, WipeInv, TypeOK
<1>2. ASSUME NEW q \in Requests, RecordDownload(q)
      PROVE  WipeInv'
  BY <1>2, GotoJob DEF RecordDownload, Actors, Labels, RowInv, WipeInv, TypeOK
<1>3. ASSUME NEW q \in Requests, FinishDownload(q)
      PROVE  WipeInv'
  BY <1>3, EndJob DEF FinishDownload, ArchiveIfComplete, ChecksOneShot,
     Deactivate, Log, Actors, Labels, Idle, RowInv, WipeInv, TypeOK
<1>4. ASSUME NEW o \in Owners, RequestDeactivate(o)
      PROVE  WipeInv'
  <2>1. /\ o \in Actors /\ status = "active"
        /\ UNCHANGED <<row, objects, audit, links, env>>
        /\ job[o].at = "idle" /\ job'[o].at = "deactivating" /\ job'[o].seen = status
        /\ \A b \in Actors \ {o} : job'[b] = job[b]
    BY <1>4, RequestDeactivateJob
  <2>. QED
    BY <2>1 DEF RowInv, WipeInv, TypeOK
<1>5. ASSUME NEW o \in Owners, ApplyDeactivate(o)
      PROVE  WipeInv'
  BY <1>5, GotoJob DEF ApplyDeactivate, Deactivate, Actors, Labels, RowInv,
     WipeInv, TypeOK
<1>6. ASSUME NEW o \in Owners, LogDeactivate(o)
      PROVE  WipeInv'
  BY <1>6, EndJob DEF LogDeactivate, Log, Actors, Labels, Idle, RowInv, WipeInv,
     TypeOK
<1>7. ASSUME NEW o \in Owners, RequestDestroy(o)
      PROVE  WipeInv'
  <2>1. /\ o \in Actors
        /\ UNCHANGED <<row, objects, audit, links, env>>
        /\ job[o].at = "idle" /\ job'[o].seen = status
        /\ \/ /\ status = "pending_file_deletion"
              /\ job'[o].at = "wiping" /\ job'[o].todo = Files
           \/ status = "deactivated" /\ job'[o].at = "wiped"
        /\ \A b \in Actors \ {o} : job'[b] = job[b]
    BY <1>7, RequestDestroyJob
  <2>. QED
    BY <2>1 DEF RowInv, WipeInv, TypeOK
<1>8. ASSUME NEW o \in Owners, DropRow(o)
      PROVE  WipeInv'
  BY <1>8, EndJob DEF DropRow, Log, Actors, Labels, Idle, RowInv, WipeInv, TypeOK
<1>9. ASSUME NEW a \in Owners \cup Runs, NEW f \in Files, DeleteObject(a, f)
      PROVE  WipeInv'
  <2>1. a \in Actors /\ a \notin Requests
    BY LifecycleAssumption DEF Actors
  <2>2. job[a].at = "wiping" /\ status # "active" /\ UNCHANGED <<row, logged>>
    BY <1>9, <2>1 DEF DeleteObject, RowInv, WipeInv
  <2>3. /\ job'[a].at = job[a].at /\ job'[a].seen = job[a].seen
        /\ job'[a].todo = job[a].todo \ {f}
        /\ \/ job'[a].failed = job[a].failed /\ objects' = objects \ {f}
           \/ job'[a].failed = TRUE /\ objects' = objects
        /\ \A b \in Actors \ {a} : job'[b] = job[b]
    BY <1>9, <2>1, DeleteJob
  <2>. QED
    BY <2>1, <2>2, <2>3 DEF WipeInv
<1>10. ASSUME NEW a \in Owners \cup Runs, FinishWipe(a)
      PROVE  WipeInv'
  BY <1>10, GotoJob, EndJob DEF FinishWipe, Actors, Labels, Idle, RowInv, WipeInv,
     TypeOK
<1>11. ASSUME NEW r \in Runs, SelectExpired(r)
      PROVE  WipeInv'
  <2>1. /\ r \in Actors /\ status = "active"
        /\ UNCHANGED <<row, objects, audit, links, env>>
        /\ job[r].at = "idle" /\ job'[r].at = "expiring" /\ job'[r].seen = status
        /\ \A b \in Actors \ {r} : job'[b] = job[b]
    BY <1>11, SelectExpiredJob
  <2>. QED
    BY <2>1 DEF RowInv, WipeInv, TypeOK
<1>12. ASSUME NEW r \in Runs, ExpireRow(r)
      PROVE  WipeInv'
  BY <1>12, GotoJob, EndJob DEF ExpireRow, Deactivate, Actors, Labels, Idle,
     RowInv, WipeInv, TypeOK
<1>13. ASSUME NEW r \in Runs, LogExpiry(r)
      PROVE  WipeInv'
  BY <1>13, EndJob DEF LogExpiry, Log, Actors, Labels, Idle, RowInv, WipeInv, TypeOK
<1>14. ASSUME NEW r \in Runs, SelectPurge(r)
      PROVE  WipeInv'
  <2>1. /\ r \in Actors /\ status = "pending_file_deletion" /\ pendingAt <= now
        /\ UNCHANGED <<row, objects, audit, links, env>>
        /\ job[r].at = "idle"
        /\ job'[r].at = "wiping" /\ job'[r].seen = status /\ job'[r].todo = Files
        /\ \A b \in Actors \ {r} : job'[b] = job[b]
    BY <1>14, SelectPurgeJob
  <2>. QED
    BY <2>1 DEF RowInv, WipeInv, TypeOK
<1>15. ASSUME NEW r \in Runs, StampDeactivated(r)
      PROVE  WipeInv'
  BY <1>15, EndJob DEF StampDeactivated, Log, Actors, Labels, Idle, RowInv,
     WipeInv, TypeOK
<1>16. ASSUME NEW a \in Actors, Die(a)
      PROVE  WipeInv'
  BY <1>16, EndJob DEF Die, Actors, Labels, Idle, RowInv, WipeInv, TypeOK
<1>17. ASSUME Tick
      PROVE  WipeInv'
  BY <1>17 DEF Tick, RowInv, WipeInv, TypeOK
<1>18. CASE UNCHANGED vars
  BY <1>18 DEF vars, RowInv, WipeInv, TypeOK
<1>. QED
  BY <1>1, <1>2, <1>3, <1>4, <1>5, <1>6, <1>7, <1>8, <1>9, <1>10, <1>11, <1>12,
     <1>13, <1>14, <1>15, <1>16, <1>17, <1>18
     DEF Next, RequestStep, OwnerStep, RunStep, WipeStep

LEMMA AuditNext ==
    TypeOK /\ RowInv /\ AuditInv /\ AuditMatchesReason /\ [Next]_vars
    => (AuditInv /\ AuditMatchesReason)'
<1> SUFFICES ASSUME TypeOK, RowInv, AuditInv, AuditMatchesReason, [Next]_vars
             PROVE (AuditInv /\ AuditMatchesReason)'
  OBVIOUS
<1> USE LifecycleAssumption
<1> USE DEF row, audit, links, env, At, Events, Reasons
<1>1. ASSUME NEW q \in Requests, NEW f \in Files, Admit(q, f)
      PROVE  (AuditInv /\ AuditMatchesReason)'
  <2>1. /\ q \in Actors
        /\ UNCHANGED <<row, objects, audit, links, env>>
        /\ job[q].at = "idle"
        /\ job'[q].at = "admitted" /\ job'[q].seen = status /\ job'[q].started = now
        /\ \A b \in Actors \ {q} : job'[b] = job[b]
    BY <1>1, AdmitJob
  <2>. QED
    BY <2>1 DEF RowInv, AuditInv, AuditMatchesReason, TypeOK
<1>2. ASSUME NEW q \in Requests, RecordDownload(q)
      PROVE  (AuditInv /\ AuditMatchesReason)'
  BY <1>2, GotoJob DEF RecordDownload, Actors, Labels, RowInv, AuditInv,
     AuditMatchesReason, TypeOK
<1>3. ASSUME NEW q \in Requests, FinishDownload(q)
      PROVE  (AuditInv /\ AuditMatchesReason)'
  BY <1>3, EndJob DEF FinishDownload, ArchiveIfComplete, ChecksOneShot,
     Deactivate, Log, Actors, Labels, Idle, RowInv, AuditInv, AuditMatchesReason,
     TypeOK
<1>4. ASSUME NEW o \in Owners, RequestDeactivate(o)
      PROVE  (AuditInv /\ AuditMatchesReason)'
  <2>1. /\ o \in Actors /\ status = "active"
        /\ UNCHANGED <<row, objects, audit, links, env>>
        /\ job[o].at = "idle" /\ job'[o].at = "deactivating" /\ job'[o].seen = status
        /\ \A b \in Actors \ {o} : job'[b] = job[b]
    BY <1>4, RequestDeactivateJob
  <2>. QED
    BY <2>1 DEF RowInv, AuditInv, AuditMatchesReason, TypeOK
<1>5. ASSUME NEW o \in Owners, ApplyDeactivate(o)
      PROVE  (AuditInv /\ AuditMatchesReason)'
  BY <1>5, GotoJob DEF ApplyDeactivate, Deactivate, Actors, Labels, RowInv,
     AuditInv, AuditMatchesReason, TypeOK
<1>6. ASSUME NEW o \in Owners, LogDeactivate(o)
      PROVE  (AuditInv /\ AuditMatchesReason)'
  BY <1>6, EndJob DEF LogDeactivate, Log, Actors, Labels, Idle, RowInv, AuditInv,
     AuditMatchesReason, TypeOK
<1>7. ASSUME NEW o \in Owners, RequestDestroy(o)
      PROVE  (AuditInv /\ AuditMatchesReason)'
  <2>1. /\ o \in Actors
        /\ UNCHANGED <<row, objects, audit, links, env>>
        /\ job[o].at = "idle" /\ job'[o].seen = status
        /\ \/ /\ status = "pending_file_deletion"
              /\ job'[o].at = "wiping" /\ job'[o].todo = Files
           \/ status = "deactivated" /\ job'[o].at = "wiped"
        /\ \A b \in Actors \ {o} : job'[b] = job[b]
    BY <1>7, RequestDestroyJob
  <2>. QED
    BY <2>1 DEF RowInv, AuditInv, AuditMatchesReason, TypeOK
<1>8. ASSUME NEW o \in Owners, DropRow(o)
      PROVE  (AuditInv /\ AuditMatchesReason)'
  BY <1>8, EndJob DEF DropRow, Log, Actors, Labels, Idle, RowInv, AuditInv,
     AuditMatchesReason, TypeOK
<1>9. ASSUME NEW a \in Owners \cup Runs, NEW f \in Files, DeleteObject(a, f)
      PROVE  (AuditInv /\ AuditMatchesReason)'
  <2>1. a \in Actors /\ a \notin Requests
    BY LifecycleAssumption DEF Actors
  <2>2. UNCHANGED <<row, logged>>
    BY <1>9, <2>1 DEF DeleteObject, RowInv, WipeInv
  <2>3. /\ job'[a].at = job[a].at /\ job'[a].seen = job[a].seen
        /\ job'[a].todo = job[a].todo \ {f}
        /\ \/ job'[a].failed = job[a].failed /\ objects' = objects \ {f}
           \/ job'[a].failed = TRUE /\ objects' = objects
        /\ \A b \in Actors \ {a} : job'[b] = job[b]
    BY <1>9, <2>1, DeleteJob
  <2>. QED
    BY <2>1, <2>2, <2>3 DEF AuditInv, AuditMatchesReason
<1>10. ASSUME NEW a \in Owners \cup Runs, FinishWipe(a)
      PROVE  (AuditInv /\ AuditMatchesReason)'
  BY <1>10, GotoJob, EndJob DEF FinishWipe, Actors, Labels, Idle, RowInv,
     AuditInv, AuditMatchesReason, TypeOK
<1>11. ASSUME NEW r \in Runs, SelectExpired(r)
      PROVE  (AuditInv /\ AuditMatchesReason)'
  <2>1. /\ r \in Actors /\ status = "active"
        /\ UNCHANGED <<row, objects, audit, links, env>>
        /\ job[r].at = "idle" /\ job'[r].at = "expiring" /\ job'[r].seen = status
        /\ \A b \in Actors \ {r} : job'[b] = job[b]
    BY <1>11, SelectExpiredJob
  <2>. QED
    BY <2>1 DEF RowInv, AuditInv, AuditMatchesReason, TypeOK
<1>12. ASSUME NEW r \in Runs, ExpireRow(r)
      PROVE  (AuditInv /\ AuditMatchesReason)'
  <2>1. r \in Actors /\ {"expired"} \subseteq Labels
    BY DEF Actors, Labels
  <2>2. UNCHANGED logged /\ \A b \in Actors \ {r} : job'[b] = job[b]
    BY <1>12, <2>1, GotoJob, EndJob DEF ExpireRow
  <2>3. CASE Deactivate("expired") /\ Goto(r, "expired")
    <3>1. /\ status = "active" /\ status' = "pending_file_deletion"
          /\ reason' = "expired"
      BY <2>3 DEF Deactivate
    <3>. QED
      BY <2>1, <2>2, <3>1 DEF AuditInv, AuditMatchesReason, RowInv
  <2>4. CASE status # "active" /\ UNCHANGED row /\ End(r)
    <3>1. job'[r].at = "idle"
      BY <2>1, <2>4, EndJob DEF Idle
    <3>. QED
      BY <2>1, <2>2, <2>4, <3>1 DEF AuditInv, AuditMatchesReason
  <2>. QED
    BY <1>12, <2>3, <2>4 DEF ExpireRow
<1>13. ASSUME NEW r \in Runs, LogExpiry(r)
      PROVE  (AuditInv /\ AuditMatchesReason)'
  BY <1>13, EndJob DEF LogExpiry, Log, Actors, Labels, Idle, RowInv, AuditInv,
     AuditMatchesReason, TypeOK
<1>14. ASSUME NEW r \in Runs, SelectPurge(r)
      PROVE  (AuditInv /\ AuditMatchesReason)'
  <2>1. /\ r \in Actors /\ status = "pending_file_deletion" /\ pendingAt <= now
        /\ UNCHANGED <<row, objects, audit, links, env>>
        /\ job[r].at = "idle"
        /\ job'[r].at = "wiping" /\ job'[r].seen = status /\ job'[r].todo = Files
        /\ \A b \in Actors \ {r} : job'[b] = job[b]
    BY <1>14, SelectPurgeJob
  <2>. QED
    BY <2>1 DEF RowInv, AuditInv, AuditMatchesReason, TypeOK
<1>15. ASSUME NEW r \in Runs, StampDeactivated(r)
      PROVE  (AuditInv /\ AuditMatchesReason)'
  BY <1>15, EndJob DEF StampDeactivated, Log, Actors, Labels, Idle, RowInv,
     AuditInv, AuditMatchesReason, TypeOK
<1>16. ASSUME NEW a \in Actors, Die(a)
      PROVE  (AuditInv /\ AuditMatchesReason)'
  BY <1>16, EndJob DEF Die, Actors, Labels, Idle, RowInv, AuditInv,
     AuditMatchesReason, TypeOK
<1>17. ASSUME Tick
      PROVE  (AuditInv /\ AuditMatchesReason)'
  BY <1>17 DEF Tick, RowInv, AuditInv, AuditMatchesReason, TypeOK
<1>18. CASE UNCHANGED vars
  BY <1>18 DEF vars, RowInv, AuditInv, AuditMatchesReason, TypeOK
<1>. QED
  BY <1>1, <1>2, <1>3, <1>4, <1>5, <1>6, <1>7, <1>8, <1>9, <1>10, <1>11, <1>12,
     <1>13, <1>14, <1>15, <1>16, <1>17, <1>18
     DEF Next, RequestStep, OwnerStep, RunStep, WipeStep

LEMMA SnapshotNext ==
    TypeOK /\ WipeInv /\ SnapshotInv /\ [Next]_vars => SnapshotInv'
<1> SUFFICES ASSUME TypeOK, WipeInv, SnapshotInv, [Next]_vars PROVE SnapshotInv'
  OBVIOUS
<1> USE LifecycleAssumption
<1> USE DEF row, audit, links, env, At
<1>1. ASSUME NEW q \in Requests, NEW f \in Files, Admit(q, f)
      PROVE  SnapshotInv'
  <2>1. /\ q \in Actors
        /\ UNCHANGED <<row, objects, audit, links, env>>
        /\ job[q].at = "idle"
        /\ job'[q].at = "admitted" /\ job'[q].seen = status /\ job'[q].started = now
        /\ \A b \in Actors \ {q} : job'[b] = job[b]
    BY <1>1, AdmitJob
  <2>. QED
    BY <2>1 DEF SnapshotInv, TypeOK, Jobs, Actors
<1>2. ASSUME NEW q \in Requests, RecordDownload(q)
      PROVE  SnapshotInv'
  BY <1>2, GotoJob DEF RecordDownload, Actors, Labels, SnapshotInv, TypeOK, Jobs,
     Actors
<1>3. ASSUME NEW q \in Requests, FinishDownload(q)
      PROVE  SnapshotInv'
  <2>1. q \in Actors /\ UNCHANGED now
    BY <1>3 DEF Actors, FinishDownload
  <2>2. job'[q] = Idle /\ \A b \in Actors \ {q} : job'[b] = job[b]
    BY <1>3, <2>1, EndJob DEF FinishDownload
  <2>3. \/ UNCHANGED row
        \/ /\ status = "active" /\ status' = "pending_file_deletion"
           /\ pendingAt' = now + PurgeDelay
    BY <1>3 DEF FinishDownload, ArchiveIfComplete, Deactivate
  <2>. QED
    BY <2>1, <2>2, <2>3 DEF SnapshotInv, WipeInv, TypeOK, Jobs, Actors, Idle
<1>4. ASSUME NEW o \in Owners, RequestDeactivate(o)
      PROVE  SnapshotInv'
  <2>1. /\ o \in Actors /\ status = "active"
        /\ UNCHANGED <<row, objects, audit, links, env>>
        /\ job[o].at = "idle" /\ job'[o].at = "deactivating" /\ job'[o].seen = status
        /\ \A b \in Actors \ {o} : job'[b] = job[b]
    BY <1>4, RequestDeactivateJob
  <2>. QED
    BY <2>1 DEF SnapshotInv, TypeOK, Jobs, Actors
<1>5. ASSUME NEW o \in Owners, ApplyDeactivate(o)
      PROVE  SnapshotInv'
  <2>1. o \in Actors /\ o \notin Requests /\ UNCHANGED now
    BY <1>5 DEF Actors, ApplyDeactivate
  <2>2. /\ job'[o].seen \in {job[o].seen, "active"}
        /\ job'[o].at \notin {"wiping", "wiped"}
        /\ \A b \in Actors \ {o} : job'[b] = job[b]
    BY <1>5, <2>1, GotoJob DEF ApplyDeactivate, Labels, Idle
  <2>3. \/ UNCHANGED row
        \/ /\ status = "active" /\ status' = "pending_file_deletion"
           /\ pendingAt' = now + PurgeDelay
    BY <1>5 DEF ApplyDeactivate, Deactivate
  <2>. QED
    BY <2>1, <2>2, <2>3 DEF SnapshotInv, WipeInv, TypeOK, Jobs, Actors
<1>6. ASSUME NEW o \in Owners, LogDeactivate(o)
      PROVE  SnapshotInv'
  BY <1>6, EndJob DEF LogDeactivate, Log, Actors, Labels, Idle, SnapshotInv,
     TypeOK, Jobs, Actors
<1>7. ASSUME NEW o \in Owners, RequestDestroy(o)
      PROVE  SnapshotInv'
  <2>1. /\ o \in Actors
        /\ UNCHANGED <<row, objects, audit, links, env>>
        /\ job[o].at = "idle" /\ job'[o].seen = status
        /\ \/ /\ status = "pending_file_deletion"
              /\ job'[o].at = "wiping" /\ job'[o].todo = Files
           \/ status = "deactivated" /\ job'[o].at = "wiped"
        /\ \A b \in Actors \ {o} : job'[b] = job[b]
    BY <1>7, RequestDestroyJob
  <2>. QED
    BY <2>1 DEF SnapshotInv, TypeOK, Jobs, Actors
<1>8. ASSUME NEW o \in Owners, DropRow(o)
      PROVE  SnapshotInv'
  BY <1>8, EndJob DEF DropRow, Log, Actors, Labels, Idle, SnapshotInv, TypeOK,
     Jobs, Actors
<1>9. ASSUME NEW a \in Owners \cup Runs, NEW f \in Files, DeleteObject(a, f)
      PROVE  SnapshotInv'
  <2>1. a \in Actors /\ a \notin Requests
    BY LifecycleAssumption DEF Actors
  <2>2. UNCHANGED <<row, now>>
    BY <1>9, <2>1 DEF DeleteObject, RowInv, WipeInv
  <2>3. /\ job'[a].at = job[a].at /\ job'[a].seen = job[a].seen
        /\ job'[a].todo = job[a].todo \ {f}
        /\ \/ job'[a].failed = job[a].failed /\ objects' = objects \ {f}
           \/ job'[a].failed = TRUE /\ objects' = objects
        /\ \A b \in Actors \ {a} : job'[b] = job[b]
    BY <1>9, <2>1, DeleteJob
  <2>. QED
    BY <2>1, <2>2, <2>3 DEF SnapshotInv, Actors
<1>10. ASSUME NEW a \in Owners \cup Runs, FinishWipe(a)
      PROVE  SnapshotInv'
  BY <1>10, GotoJob, EndJob DEF FinishWipe, Actors, Labels, Idle, SnapshotInv,
     TypeOK, Jobs, Actors
<1>11. ASSUME NEW r \in Runs, SelectExpired(r)
      PROVE  SnapshotInv'
  <2>1. /\ r \in Actors /\ status = "active"
        /\ UNCHANGED <<row, objects, audit, links, env>>
        /\ job[r].at = "idle" /\ job'[r].at = "expiring" /\ job'[r].seen = status
        /\ \A b \in Actors \ {r} : job'[b] = job[b]
    BY <1>11, SelectExpiredJob
  <2>. QED
    BY <2>1 DEF SnapshotInv, TypeOK, Jobs, Actors
<1>12. ASSUME NEW r \in Runs, ExpireRow(r)
      PROVE  SnapshotInv'
  <2>1. r \in Actors /\ r \notin Requests /\ UNCHANGED now
    BY <1>12 DEF Actors, ExpireRow
  <2>2. /\ job'[r].seen \in {job[r].seen, "active"}
        /\ job'[r].at \notin {"wiping", "wiped"}
        /\ \A b \in Actors \ {r} : job'[b] = job[b]
    BY <1>12, <2>1, GotoJob, EndJob DEF ExpireRow, Labels, Idle
  <2>3. \/ UNCHANGED row
        \/ /\ status = "active" /\ status' = "pending_file_deletion"
           /\ pendingAt' = now + PurgeDelay
    BY <1>12 DEF ExpireRow, Deactivate
  <2>. QED
    BY <2>1, <2>2, <2>3 DEF SnapshotInv, WipeInv, TypeOK, Jobs, Actors
<1>13. ASSUME NEW r \in Runs, LogExpiry(r)
      PROVE  SnapshotInv'
  BY <1>13, EndJob DEF LogExpiry, Log, Actors, Labels, Idle, SnapshotInv, TypeOK,
     Jobs, Actors
<1>14. ASSUME NEW r \in Runs, SelectPurge(r)
      PROVE  SnapshotInv'
  <2>1. /\ r \in Actors /\ status = "pending_file_deletion" /\ pendingAt <= now
        /\ UNCHANGED <<row, objects, audit, links, env>>
        /\ job[r].at = "idle"
        /\ job'[r].at = "wiping" /\ job'[r].seen = status /\ job'[r].todo = Files
        /\ \A b \in Actors \ {r} : job'[b] = job[b]
    BY <1>14, SelectPurgeJob
  <2>. QED
    BY <2>1 DEF SnapshotInv, TypeOK, Jobs, Actors
<1>15. ASSUME NEW r \in Runs, StampDeactivated(r)
      PROVE  SnapshotInv'
  <2>1. r \in Actors /\ job[r].at = "wiped" /\ UNCHANGED now
    BY <1>15 DEF Actors, StampDeactivated
  <2>2. job'[r] = Idle /\ \A b \in Actors \ {r} : job'[b] = job[b]
    BY <1>15, <2>1, EndJob DEF StampDeactivated
  <2>3. status # "active" /\ (status = "pending_file_deletion" => pendingAt <= now)
    BY <2>1 DEF WipeInv, SnapshotInv
  <2>4. UNCHANGED row \/ (status # "deleted" /\ status' = "deactivated")
    BY <1>15 DEF StampDeactivated
  <2>. QED
    BY <2>1, <2>2, <2>3, <2>4 DEF SnapshotInv, TypeOK, Statuses, Jobs, Actors, Idle
<1>16. ASSUME NEW a \in Actors, Die(a)
      PROVE  SnapshotInv'
  BY <1>16, EndJob DEF Die, Actors, Labels, Idle, SnapshotInv, TypeOK, Jobs, Actors
<1>17. ASSUME Tick
      PROVE  SnapshotInv'
  <2>1. now' = now + 1 /\ UNCHANGED <<row, job>>
    BY <1>17 DEF Tick
  <2>2. \A q \in Requests : At(q, "admitted") => now < job[q].started + RequestLimit
    BY <1>17 DEF Tick
  <2>3. now \in Nat /\ RequestLimit \in Nat /\ pendingAt \in Nat \cup {None}
        /\ \A q \in Requests : job[q].started \in Nat
    BY DEF TypeOK, Jobs, Actors
  <2>4. \A q \in Requests : At(q, "admitted") /\ job[q].seen = "active" =>
          job[q].started <= now' /\ now' <= job[q].started + RequestLimit
    BY <2>1, <2>2, <2>3 DEF SnapshotInv
  <2>5. \A r \in Runs : At(r, "wiping") \/ At(r, "wiped") =>
          (status = "pending_file_deletion" => pendingAt <= now')
    BY <2>1, <2>3 DEF SnapshotInv
  <2>. QED
    BY <2>1, <2>4, <2>5 DEF SnapshotInv
<1>18. CASE UNCHANGED vars
  BY <1>18 DEF vars, SnapshotInv, TypeOK, Jobs, Actors
<1>. QED
  BY <1>1, <1>2, <1>3, <1>4, <1>5, <1>6, <1>7, <1>8, <1>9, <1>10, <1>11, <1>12,
     <1>13, <1>14, <1>15, <1>16, <1>17, <1>18
     DEF Next, RequestStep, OwnerStep, RunStep, WipeStep

LEMMA UrlNext ==
    TypeOK /\ RowInv /\ WipeInv /\ SnapshotInv /\ UrlInv /\ [Next]_vars => UrlInv'
<1> SUFFICES ASSUME TypeOK, RowInv, WipeInv, SnapshotInv, UrlInv, [Next]_vars
             PROVE UrlInv'
  OBVIOUS
<1> USE LifecycleAssumption
<1> USE DEF row, audit, links, env, At
<1>1. ASSUME NEW q \in Requests, NEW f \in Files, Admit(q, f)
      PROVE  UrlInv'
  <2>1. UNCHANGED <<row, objects, audit, links, env>>
    BY <1>1, AdmitJob
  <2>. QED
    BY <2>1 DEF UrlInv, WipeInv, SnapshotInv, TypeOK, Jobs, Actors
<1>2. ASSUME NEW q \in Requests, RecordDownload(q)
      PROVE  UrlInv'
  BY <1>2 DEF RecordDownload, UrlInv, WipeInv, SnapshotInv, TypeOK, Jobs, Actors
<1>3. ASSUME NEW q \in Requests, FinishDownload(q)
      PROVE  UrlInv'
  BY <1>3 DEF FinishDownload, ArchiveIfComplete, ChecksOneShot, Deactivate, Log,
     UrlInv, WipeInv, SnapshotInv, TypeOK, Jobs, Actors
<1>4. ASSUME NEW o \in Owners, RequestDeactivate(o)
      PROVE  UrlInv'
  <2>1. UNCHANGED <<row, objects, audit, links, env>>
    BY <1>4, RequestDeactivateJob
  <2>. QED
    BY <2>1 DEF UrlInv, WipeInv, SnapshotInv, TypeOK, Jobs, Actors
<1>5. ASSUME NEW o \in Owners, ApplyDeactivate(o)
      PROVE  UrlInv'
  BY <1>5 DEF ApplyDeactivate, Deactivate, UrlInv, WipeInv, SnapshotInv, TypeOK,
     Jobs, Actors
<1>6. ASSUME NEW o \in Owners, LogDeactivate(o)
      PROVE  UrlInv'
  BY <1>6 DEF LogDeactivate, Log, UrlInv, WipeInv, SnapshotInv, TypeOK, Jobs, Actors
<1>7. ASSUME NEW o \in Owners, RequestDestroy(o)
      PROVE  UrlInv'
  <2>1. UNCHANGED <<row, objects, audit, links, env>>
    BY <1>7, RequestDestroyJob
  <2>. QED
    BY <2>1 DEF UrlInv, WipeInv, SnapshotInv, TypeOK, Jobs, Actors
<1>8. ASSUME NEW o \in Owners, DropRow(o)
      PROVE  UrlInv'
  BY <1>8 DEF DropRow, Log, UrlInv, WipeInv, SnapshotInv, TypeOK, Jobs, Actors
<1>9. ASSUME NEW a \in Owners \cup Runs, NEW f \in Files, DeleteObject(a, f)
      PROVE  UrlInv'
  BY <1>9 DEF DeleteObject, UrlInv, WipeInv, SnapshotInv, TypeOK, Jobs, Actors
<1>10. ASSUME NEW a \in Owners \cup Runs, FinishWipe(a)
      PROVE  UrlInv'
  BY <1>10 DEF FinishWipe, UrlInv, WipeInv, SnapshotInv, TypeOK, Jobs, Actors
<1>11. ASSUME NEW r \in Runs, SelectExpired(r)
      PROVE  UrlInv'
  <2>1. UNCHANGED <<row, objects, audit, links, env>>
    BY <1>11, SelectExpiredJob
  <2>. QED
    BY <2>1 DEF UrlInv, WipeInv, SnapshotInv, TypeOK, Jobs, Actors
<1>12. ASSUME NEW r \in Runs, ExpireRow(r)
      PROVE  UrlInv'
  BY <1>12 DEF ExpireRow, Deactivate, UrlInv, WipeInv, SnapshotInv, TypeOK, Jobs,
     Actors
<1>13. ASSUME NEW r \in Runs, LogExpiry(r)
      PROVE  UrlInv'
  BY <1>13 DEF LogExpiry, Log, UrlInv, WipeInv, SnapshotInv, TypeOK, Jobs, Actors
<1>14. ASSUME NEW r \in Runs, SelectPurge(r)
      PROVE  UrlInv'
  <2>1. UNCHANGED <<row, objects, audit, links, env>>
    BY <1>14, SelectPurgeJob
  <2>. QED
    BY <2>1 DEF UrlInv, WipeInv, SnapshotInv, TypeOK, Jobs, Actors
<1>15. ASSUME NEW r \in Runs, StampDeactivated(r)
      PROVE  UrlInv'
  <2>1. r \in Actors /\ job[r].at = "wiped" /\ UNCHANGED <<now, urls>>
    BY <1>15 DEF Actors, StampDeactivated
  <2>2. status # "active" /\ (status = "pending_file_deletion" => pendingAt <= now)
    BY <2>1 DEF WipeInv, SnapshotInv
  <2>3. ASSUME status # "deleted", NEW u \in urls PROVE FALSE
    <3>1. status = "pending_file_deletion" \/ status = "deactivated"
      BY <2>2, <2>3 DEF TypeOK, Statuses
    <3>2. now \in Nat /\ u.until \in Nat /\ now < u.until /\ status # "deactivated"
      BY <2>3 DEF UrlInv, TypeOK
    <3>3. u.until <= pendingAt /\ pendingAt <= now
      BY <2>2, <3>1, <3>2, <2>3 DEF UrlInv
    <3>4. pendingAt \in Nat
      BY <3>1, <3>2 DEF RowInv
    <3>. QED
      BY <3>2, <3>3, <3>4
  <2>4. UNCHANGED row \/ (status # "deleted" /\ status' = "deactivated")
    BY <1>15 DEF StampDeactivated
  <2>. QED
    BY <2>1, <2>2, <2>3, <2>4 DEF UrlInv
<1>16. ASSUME NEW a \in Actors, Die(a)
      PROVE  UrlInv'
  BY <1>16 DEF Die, UrlInv, WipeInv, SnapshotInv, TypeOK, Jobs, Actors
<1>17. ASSUME Tick
      PROVE  UrlInv'
  BY <1>17 DEF Tick, UrlInv, WipeInv, SnapshotInv, TypeOK, Jobs, Actors
<1>18. CASE UNCHANGED vars
  BY <1>18 DEF vars, UrlInv, WipeInv, SnapshotInv, TypeOK, Jobs, Actors
<1>. QED
  BY <1>1, <1>2, <1>3, <1>4, <1>5, <1>6, <1>7, <1>8, <1>9, <1>10, <1>11, <1>12,
     <1>13, <1>14, <1>15, <1>16, <1>17, <1>18
     DEF Next, RequestStep, OwnerStep, RunStep, WipeStep

LEMMA OneShotNext ==
    TypeOK /\ SnapshotInv /\ OneShotCloses /\ [Next]_vars => OneShotCloses'
<1> SUFFICES ASSUME TypeOK, SnapshotInv, OneShotCloses, [Next]_vars PROVE OneShotCloses'
  OBVIOUS
<1> USE DEF row, audit, links, env, At
<1>1. ASSUME NEW q \in Requests, NEW f \in Files, Admit(q, f)
      PROVE  OneShotCloses'
  <2>1. /\ q \in Actors
        /\ UNCHANGED <<row, objects, audit, links, env>>
        /\ job[q].at = "idle"
        /\ job'[q].at = "admitted" /\ job'[q].seen = status /\ job'[q].started = now
        /\ \A b \in Actors \ {q} : job'[b] = job[b]
    BY <1>1, AdmitJob
  <2>. QED
    BY <2>1 DEF OneShotCloses, SnapshotInv, TypeOK, Actors
<1>2. ASSUME NEW q \in Requests, RecordDownload(q)
      PROVE  OneShotCloses'
  BY <1>2, GotoJob DEF RecordDownload, Actors, Labels, OneShotCloses, SnapshotInv,
     TypeOK, Actors
<1>3. ASSUME NEW q \in Requests, FinishDownload(q)
      PROVE  OneShotCloses'
  BY <1>3, EndJob DEF FinishDownload, ArchiveIfComplete, ChecksOneShot,
     Deactivate, Log, Actors, Labels, Idle, OneShotCloses, SnapshotInv, TypeOK,
     Actors
<1>4. ASSUME NEW o \in Owners, RequestDeactivate(o)
      PROVE  OneShotCloses'
  <2>1. /\ o \in Actors /\ status = "active"
        /\ UNCHANGED <<row, objects, audit, links, env>>
        /\ job[o].at = "idle" /\ job'[o].at = "deactivating" /\ job'[o].seen = status
        /\ \A b \in Actors \ {o} : job'[b] = job[b]
    BY <1>4, RequestDeactivateJob
  <2>. QED
    BY <2>1 DEF OneShotCloses, SnapshotInv, TypeOK, Actors
<1>5. ASSUME NEW o \in Owners, ApplyDeactivate(o)
      PROVE  OneShotCloses'
  BY <1>5, GotoJob DEF ApplyDeactivate, Deactivate, Actors, Labels, OneShotCloses,
     SnapshotInv, TypeOK, Actors
<1>6. ASSUME NEW o \in Owners, LogDeactivate(o)
      PROVE  OneShotCloses'
  BY <1>6, EndJob DEF LogDeactivate, Log, Actors, Labels, Idle, OneShotCloses,
     SnapshotInv, TypeOK, Actors
<1>7. ASSUME NEW o \in Owners, RequestDestroy(o)
      PROVE  OneShotCloses'
  <2>1. /\ o \in Actors
        /\ UNCHANGED <<row, objects, audit, links, env>>
        /\ job[o].at = "idle" /\ job'[o].seen = status
        /\ \/ /\ status = "pending_file_deletion"
              /\ job'[o].at = "wiping" /\ job'[o].todo = Files
           \/ status = "deactivated" /\ job'[o].at = "wiped"
        /\ \A b \in Actors \ {o} : job'[b] = job[b]
    BY <1>7, RequestDestroyJob
  <2>. QED
    BY <2>1 DEF OneShotCloses, SnapshotInv, TypeOK, Actors
<1>8. ASSUME NEW o \in Owners, DropRow(o)
      PROVE  OneShotCloses'
  BY <1>8, EndJob DEF DropRow, Log, Actors, Labels, Idle, OneShotCloses,
     SnapshotInv, TypeOK, Actors
<1>9. ASSUME NEW a \in Owners \cup Runs, NEW f \in Files, DeleteObject(a, f)
      PROVE  OneShotCloses'
  <2>1. a \in Actors /\ a \notin Requests
    BY LifecycleAssumption DEF Actors
  <2>2. job[a].at = "wiping" /\ UNCHANGED <<row, downloaded, missedCheck>>
    BY <1>9, <2>1 DEF DeleteObject, RowInv, WipeInv
  <2>3. /\ job'[a].at = job[a].at /\ job'[a].seen = job[a].seen
        /\ job'[a].todo = job[a].todo \ {f}
        /\ \/ job'[a].failed = job[a].failed /\ objects' = objects \ {f}
           \/ job'[a].failed = TRUE /\ objects' = objects
        /\ \A b \in Actors \ {a} : job'[b] = job[b]
    BY <1>9, <2>1, DeleteJob
  <2>. QED
    BY <2>1, <2>2, <2>3 DEF OneShotCloses, Actors
<1>10. ASSUME NEW a \in Owners \cup Runs, FinishWipe(a)
      PROVE  OneShotCloses'
  BY <1>10, GotoJob, EndJob DEF FinishWipe, Actors, Labels, Idle, OneShotCloses,
     SnapshotInv, TypeOK, Actors
<1>11. ASSUME NEW r \in Runs, SelectExpired(r)
      PROVE  OneShotCloses'
  <2>1. /\ r \in Actors /\ status = "active"
        /\ UNCHANGED <<row, objects, audit, links, env>>
        /\ job[r].at = "idle" /\ job'[r].at = "expiring" /\ job'[r].seen = status
        /\ \A b \in Actors \ {r} : job'[b] = job[b]
    BY <1>11, SelectExpiredJob
  <2>. QED
    BY <2>1 DEF OneShotCloses, SnapshotInv, TypeOK, Actors
<1>12. ASSUME NEW r \in Runs, ExpireRow(r)
      PROVE  OneShotCloses'
  BY <1>12, GotoJob, EndJob DEF ExpireRow, Deactivate, Actors, Labels, Idle,
     OneShotCloses, SnapshotInv, TypeOK, Actors
<1>13. ASSUME NEW r \in Runs, LogExpiry(r)
      PROVE  OneShotCloses'
  BY <1>13, EndJob DEF LogExpiry, Log, Actors, Labels, Idle, OneShotCloses,
     SnapshotInv, TypeOK, Actors
<1>14. ASSUME NEW r \in Runs, SelectPurge(r)
      PROVE  OneShotCloses'
  <2>1. /\ r \in Actors /\ status = "pending_file_deletion" /\ pendingAt <= now
        /\ UNCHANGED <<row, objects, audit, links, env>>
        /\ job[r].at = "idle"
        /\ job'[r].at = "wiping" /\ job'[r].seen = status /\ job'[r].todo = Files
        /\ \A b \in Actors \ {r} : job'[b] = job[b]
    BY <1>14, SelectPurgeJob
  <2>. QED
    BY <2>1 DEF OneShotCloses, SnapshotInv, TypeOK, Actors
<1>15. ASSUME NEW r \in Runs, StampDeactivated(r)
      PROVE  OneShotCloses'
  BY <1>15, EndJob DEF StampDeactivated, Log, Actors, Labels, Idle, OneShotCloses,
     SnapshotInv, TypeOK, Actors
<1>16. ASSUME NEW a \in Actors, Die(a)
      PROVE  OneShotCloses'
  BY <1>16, EndJob DEF Die, Actors, Labels, Idle, OneShotCloses, SnapshotInv,
     TypeOK, Actors
<1>17. ASSUME Tick
      PROVE  OneShotCloses'
  BY <1>17 DEF Tick, OneShotCloses, SnapshotInv, TypeOK, Actors
<1>18. CASE UNCHANGED vars
  BY <1>18 DEF vars, OneShotCloses, SnapshotInv, TypeOK, Actors
<1>. QED
  BY <1>1, <1>2, <1>3, <1>4, <1>5, <1>6, <1>7, <1>8, <1>9, <1>10, <1>11, <1>12,
     <1>13, <1>14, <1>15, <1>16, <1>17, <1>18
     DEF Next, RequestStep, OwnerStep, RunStep, WipeStep

LEMMA IInvInit == Init => IInv
<1> SUFFICES ASSUME Init PROVE IInv
  OBVIOUS
<1>1. TypeOK
  BY TypeInit
<1>2. \A a \in Actors : job[a] = Idle
  BY DEF Init
<1>3. \A e \in Events : logged[e] = 0
  BY DEF Init
<1>4. RowInv /\ UrlInv
  BY DEF Init, RowInv, UrlInv
<1>5. WipeInv /\ AuditInv /\ AuditMatchesReason
  BY <1>2, <1>3 DEF Init, WipeInv, AuditInv, AuditMatchesReason, At, Idle, Events,
     Reasons
<1>6. SnapshotInv
  BY <1>2 DEF Init, SnapshotInv, At, Idle, Actors
<1>7. OneShotCloses
  BY LifecycleAssumption DEF Init, OneShotCloses
<1>. QED
  BY <1>1, <1>4, <1>5, <1>6, <1>7 DEF IInv

LEMMA IInvNext == IInv /\ [Next]_vars => IInv'
BY TypeNext, RowNext, WipeNext, AuditNext, SnapshotNext, UrlNext, OneShotNext DEF
   IInv

\* The inductive invariant holds in every reachable state.
THEOREM Inductive == Spec => []IInv
BY IInvInit, IInvNext, PTL DEF Spec

-----------------------------------------------------------------------------
(* The invariants the runs check.                                          *)

\* Every variable keeps its type, for every value of the constants.
THEOREM TypeCorrect == Spec => []TypeOK
<1>1. IInv => TypeOK
  BY DEF IInv
<1>. QED
  BY <1>1, Inductive, PTL

\* Overlapping purges and destroys never declare files gone that are not.
THEOREM NothingStranded == Spec => []NoStrandedBytes
<1>1. IInv => NoStrandedBytes
  BY DEF IInv, NoStrandedBytes, RowInv, WipeInv
<1>. QED
  BY <1>1, Inductive, PTL

\* No cleanup, however late it runs on a stale read, empties an open link.
THEOREM OpenLinksServe == Spec => []OpenLinkHasBytes
<1>1. IInv => OpenLinkHasBytes
  BY DEF IInv, OpenLinkHasBytes, RowInv
<1>. QED
  BY <1>1, Inductive, PTL

\* A URL handed out by an open link outlives neither its bytes nor the grace
\* window, because UrlTTL + RequestLimit <= PurgeDelay.
THEOREM UrlsServe == Spec => []LiveUrlHasBytes
<1>1. IInv => LiveUrlHasBytes
  <2> SUFFICES ASSUME IInv, NEW u \in urls, u.file \notin objects
               PROVE  \/ status = "deleted"
                      \/ status = "pending_file_deletion" /\ now < pendingAt
    BY DEF LiveUrlHasBytes
  <2>1. now \in Nat /\ u.until \in Nat /\ u.file \in Files /\ status \in Statuses
    BY DEF IInv, TypeOK
  <2>2. status # "active" /\ status # "deactivated" /\ now < u.until
    BY <2>1 DEF IInv, RowInv, UrlInv
  <2>3. status = "pending_file_deletion" => u.until <= pendingAt /\ pendingAt \in Nat
    BY DEF IInv, RowInv, UrlInv
  <2>4. CASE status = "deleted"
    BY <2>4
  <2>5. CASE status = "pending_file_deletion"
    BY <2>1, <2>2, <2>3, <2>5
  <2>. QED
    BY <2>1, <2>2, <2>4, <2>5 DEF Statuses
<1>. QED
  BY <1>1, Inductive, PTL

\* A one-shot link whose files have all been given out is closed, however the
\* last downloads interleave.
THEOREM OneShotIsClosed == Spec => []OneShotCloses
<1>1. IInv => OneShotCloses
  BY DEF IInv
<1>. QED
  BY <1>1, Inductive, PTL

\* The journal attributes a closing to an expiry or a first download at most
\* once, and never wrongly.
THEOREM AuditIsRight == Spec => []AuditMatchesReason
<1>1. IInv => AuditMatchesReason
  BY DEF IInv
<1>. QED
  BY <1>1, Inductive, PTL

-----------------------------------------------------------------------------
(* What a step may never do.                                               *)

LEMMA RowStep ==
    ASSUME IInv, [Next]_vars
    PROVE  \/ UNCHANGED <<status, reason>>
           \/ /\ status = "active" /\ status' = "pending_file_deletion"
              /\ reason' \in Reasons
              /\ reason' = "first_download" => downloaded = Files
              /\ UNCHANGED <<objects, downloaded>>
           \/ /\ status' = "deactivated" /\ status \in {"pending_file_deletion", "deactivated"}
              /\ objects = {} /\ UNCHANGED <<reason, objects, downloaded>>
           \/ /\ status' = "deleted" /\ status # "active"
              /\ objects = {} /\ UNCHANGED <<reason, objects, downloaded>>
<1> USE DEF row, audit, links, env
<1>1. ASSUME NEW q \in Requests, NEW f \in Files, Admit(q, f)
      PROVE  UNCHANGED <<status, reason>>
  BY <1>1 DEF Admit
<1>2. ASSUME NEW q \in Requests, RecordDownload(q)
      PROVE  UNCHANGED <<status, reason>>
  BY <1>2 DEF RecordDownload
<1>3. ASSUME NEW q \in Requests, FinishDownload(q)
      PROVE  \/ UNCHANGED <<status, reason>>
             \/ /\ status = "active" /\ status' = "pending_file_deletion"
                /\ reason' = "first_download" /\ downloaded = Files
                /\ UNCHANGED <<objects, downloaded>>
  BY <1>3 DEF FinishDownload, ArchiveIfComplete, Deactivate
<1>4. ASSUME NEW o \in Owners,
             RequestDeactivate(o) \/ LogDeactivate(o) \/ RequestDestroy(o)
      PROVE  UNCHANGED <<status, reason>>
  BY <1>4 DEF RequestDeactivate, LogDeactivate, RequestDestroy
<1>5. ASSUME NEW o \in Owners, ApplyDeactivate(o)
      PROVE  \/ UNCHANGED <<status, reason>>
             \/ /\ status = "active" /\ status' = "pending_file_deletion"
                /\ reason' = "manual" /\ UNCHANGED <<objects, downloaded>>
  BY <1>5 DEF ApplyDeactivate, Deactivate
<1>6. ASSUME NEW o \in Owners, DropRow(o)
      PROVE  /\ status' = "deleted" /\ status # "active"
             /\ objects = {} /\ UNCHANGED <<reason, objects, downloaded>>
  BY <1>6 DEF DropRow, IInv, WipeInv, At, Actors
<1>7. ASSUME NEW a \in Owners \cup Runs,
             (\E f \in Files : DeleteObject(a, f)) \/ FinishWipe(a)
      PROVE  UNCHANGED <<status, reason>>
  BY <1>7 DEF DeleteObject, FinishWipe
<1>8. ASSUME NEW r \in Runs, SelectExpired(r) \/ LogExpiry(r) \/ SelectPurge(r)
      PROVE  UNCHANGED <<status, reason>>
  BY <1>8 DEF SelectExpired, LogExpiry, SelectPurge
<1>9. ASSUME NEW r \in Runs, ExpireRow(r)
      PROVE  \/ UNCHANGED <<status, reason>>
             \/ /\ status = "active" /\ status' = "pending_file_deletion"
                /\ reason' = "expired" /\ UNCHANGED <<objects, downloaded>>
  BY <1>9 DEF ExpireRow, Deactivate
<1>10. ASSUME NEW r \in Runs, StampDeactivated(r)
       PROVE  \/ UNCHANGED <<status, reason>>
              \/ /\ status' = "deactivated"
                 /\ status \in {"pending_file_deletion", "deactivated"}
                 /\ objects = {} /\ UNCHANGED <<reason, objects, downloaded>>
  <2>1. status # "active" /\ objects = {} /\ status \in Statuses
    BY <1>10 DEF StampDeactivated, IInv, TypeOK, WipeInv, At, Actors
  <2>. QED
    BY <1>10, <2>1 DEF StampDeactivated, Statuses
<1>11. ASSUME NEW a \in Actors, Die(a) PROVE UNCHANGED <<status, reason>>
  BY <1>11 DEF Die
<1>12. ASSUME Tick PROVE UNCHANGED <<status, reason>>
  BY <1>12 DEF Tick
<1>13. CASE UNCHANGED vars
  BY <1>13 DEF vars
<1>14. {"manual", "expired", "first_download"} = Reasons
  BY DEF Reasons
<1>. QED
  BY <1>1, <1>2, <1>3, <1>4, <1>5, <1>6, <1>7, <1>8, <1>9, <1>10, <1>11, <1>12,
     <1>13, <1>14 DEF Next, RequestStep, OwnerStep, RunStep, WipeStep

\* The row never goes back and the first reason recorded stays.
THEOREM RowIsOneWay == Spec => OneWay
<1>1. IInv /\ [Next]_vars =>
        [Rank(status) <= Rank(status') /\ (reason # None => reason' = reason)]_vars
  <2> SUFFICES ASSUME IInv, [Next]_vars
               PROVE  Rank(status) <= Rank(status') /\ (reason # None => reason' = reason)
    OBVIOUS
  <2>1. status \in Statuses /\ (status = "active" => reason = None)
    BY DEF IInv, TypeOK, RowInv
  <2>. QED
    BY <2>1, RowStep DEF Rank, Statuses
<1>. QED
  BY <1>1, Inductive, PTL DEF Spec, OneWay

LEMMA ObjectsStep ==
    ASSUME IInv, [Next]_vars, objects' # objects
    PROVE  \E a \in Owners \cup Runs, f \in Files :
              /\ DeleteObject(a, f) /\ objects' = objects \ {f}
              /\ status = "pending_file_deletion"
<1> USE DEF row, audit, links, env
<1>1. PICK a \in Owners \cup Runs, f \in Files : DeleteObject(a, f)
  <2>1. ASSUME NEW q \in Requests, RequestStep(q) PROVE FALSE
    BY <2>1 DEF RequestStep, Admit, RecordDownload, FinishDownload
  <2>2. ASSUME NEW o \in Owners, OwnerStep(o), ~(\E f \in Files : DeleteObject(o, f))
        PROVE  FALSE
    BY <2>2 DEF OwnerStep, WipeStep, RequestDeactivate, ApplyDeactivate,
       LogDeactivate,
       RequestDestroy, FinishWipe, DropRow
  <2>3. ASSUME NEW r \in Runs, RunStep(r), ~(\E f \in Files : DeleteObject(r, f))
        PROVE  FALSE
    BY <2>3 DEF RunStep, WipeStep, SelectExpired, ExpireRow, LogExpiry, SelectPurge,
       FinishWipe, StampDeactivated
  <2>4. ~Tick /\ UNCHANGED vars => FALSE
    BY DEF vars
  <2>5. \A a \in Actors : ~Die(a)
    BY DEF Die
  <2>6. ~Tick
    BY DEF Tick
  <2>. QED
    BY <2>1, <2>2, <2>3, <2>4, <2>5, <2>6 DEF Next
<1>2. a \in Actors /\ At(a, "wiping") /\ objects' = objects \ {f}
  BY <1>1 DEF DeleteObject, Actors
<1>3. objects # {}
  BY <1>2
<1>4. status = "pending_file_deletion"
  BY <1>2, <1>3 DEF IInv, TypeOK, RowInv, WipeInv, Statuses
<1>. QED
  BY <1>1, <1>2, <1>4

\* Before pending_deletion_at only the owner's destroy removes an object: a run
\* that selected the row may lag, but never runs ahead of the deadline.
THEOREM GraceIsKept == Spec => OnlyOwnerSkipsGrace
<1>1. IInv /\ [Next]_vars =>
        [objects' # objects =>
            \/ \E o \in Owners : At(o, "wiping") /\ job'[o] # job[o]
            \/ pendingAt # None /\ pendingAt <= now]_vars
  <2> SUFFICES ASSUME IInv, [Next]_vars, objects' # objects
               PROVE  \/ \E o \in Owners : At(o, "wiping") /\ job'[o] # job[o]
                      \/ pendingAt # None /\ pendingAt <= now
    OBVIOUS
  <2>1. PICK a \in Owners \cup Runs, f \in Files :
          DeleteObject(a, f) /\ status = "pending_file_deletion"
    BY ObjectsStep
  <2>2. At(a, "wiping") /\ f \in job[a].todo /\ a \in Actors
    BY <2>1 DEF DeleteObject, Actors
  <2>3. CASE a \in Owners
    <3>1. f \notin job'[a].todo
      BY <2>1, <2>2, DeleteJob DEF IInv
    <3>. QED
      BY <2>2, <2>3, <3>1
  <2>4. CASE a \in Runs
    BY <2>1, <2>2, <2>4, LifecycleAssumption DEF IInv, RowInv, SnapshotInv
  <2>. QED
    BY <2>3, <2>4
<1>. QED
  BY <1>1, Inductive, PTL DEF Spec, OnlyOwnerSkipsGrace

-----------------------------------------------------------------------------
(* Refinement.                                                             *)

LEMMA ContractStep == IInv /\ [Next]_vars => [Contract!Next]_(Contract!vars)
<1> SUFFICES ASSUME IInv, [Next]_vars PROVE [Contract!Next]_(Contract!vars)
  OBVIOUS
<1> USE DEF Contract!Next, Contract!vars
<1>1. downloaded \subseteq downloaded' /\ downloaded' \in SUBSET Files
  <2>1. TypeOK /\ TypeOK'
    BY TypeNext DEF IInv
  <2>2. ASSUME NEW q \in Requests, RequestStep(q) PROVE downloaded \subseteq downloaded'
    BY <2>2 DEF RequestStep, Admit, RecordDownload, FinishDownload, audit
  <2>3. ASSUME NEW o \in Owners, OwnerStep(o) PROVE downloaded \subseteq downloaded'
    BY <2>3 DEF OwnerStep, WipeStep, RequestDeactivate, ApplyDeactivate,
       LogDeactivate,
       RequestDestroy, DeleteObject, FinishWipe, DropRow, audit
  <2>4. ASSUME NEW r \in Runs, RunStep(r) PROVE downloaded \subseteq downloaded'
    BY <2>4 DEF RunStep, WipeStep, SelectExpired, ExpireRow, LogExpiry, SelectPurge,
       DeleteObject, FinishWipe, StampDeactivated, audit
  <2>5. ASSUME NEW a \in Actors, Die(a) PROVE downloaded \subseteq downloaded'
    BY <2>5 DEF Die, audit
  <2>6. ASSUME Tick \/ UNCHANGED vars PROVE downloaded \subseteq downloaded'
    BY <2>6 DEF Tick, vars, audit
  <2>. QED
    BY <2>1, <2>2, <2>3, <2>4, <2>5, <2>6 DEF Next, TypeOK
<1>2. CASE objects' # objects
  <2>1. PICK a \in Owners \cup Runs, f \in Files :
          /\ DeleteObject(a, f) /\ objects' = objects \ {f}
          /\ status = "pending_file_deletion"
    BY <1>2, ObjectsStep
  <2>2. UNCHANGED <<status, reason, downloaded>>
    BY <2>1 DEF DeleteObject, row, audit
  <2>. QED
    BY <2>1, <2>2 DEF Contract!Wipe
<1>3. CASE objects' = objects /\ UNCHANGED <<status, reason>>
  BY <1>1, <1>3 DEF Contract!Take
<1>4. CASE objects' = objects /\ ~UNCHANGED <<status, reason>>
  <2>1. CASE /\ status = "active" /\ status' = "pending_file_deletion"
             /\ reason' \in Reasons /\ (reason' = "first_download" => downloaded = Files)
             /\ UNCHANGED <<objects, downloaded>>
    BY <2>1 DEF Contract!Close
  <2>2. CASE /\ status' = "deactivated" /\ status \in {"pending_file_deletion", "deactivated"}
             /\ objects = {} /\ UNCHANGED <<reason, objects, downloaded>>
    BY <2>2 DEF Contract!Finish
  <2>3. CASE /\ status' = "deleted" /\ status # "active"
             /\ objects = {} /\ UNCHANGED <<reason, objects, downloaded>>
    <3>1. status \in Statuses
      BY DEF IInv, TypeOK
    <3>. QED
      BY <2>3, <3>1 DEF Contract!Drop, Statuses
  <2>. QED
    BY <1>4, <2>1, <2>2, <2>3, RowStep
<1>. QED
  BY <1>2, <1>3, <1>4

\* Requests, cron runs and faults together keep the contract of one link.
THEOREM Refinement == Spec => ImplementsContract
<1>1. Init => Contract!Init
  BY DEF Init, Contract!Init
<1>. QED
  BY <1>1, Inductive, ContractStep, PTL DEF Spec, ImplementsContract, Contract!Spec
=============================================================================
