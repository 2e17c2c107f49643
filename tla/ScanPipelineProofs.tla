------------------------- MODULE ScanPipelineProofs -------------------------
(***************************************************************************)
(* ScanPipeline proved for every set of files, keys, requests and reaper   *)
(* runs, every queue bound and any number of faults.                       *)
(*                                                                         *)
(* Two arguments.  Under the row lock, what a poll read stays true until   *)
(* it commits, although callbacks ignore the lock: they move a file only   *)
(* from pending, and no file has a job while no key is parked (KeyInv,     *)
(* PollInv).  Without the lock, a claim is safe because the stamp an actor *)
(* is about to write was never read by anybody, and a stamp that is still  *)
(* the one it read is still late (ClockInv, SnapInv).                      *)
(***************************************************************************)
EXTENDS ScanPipeline, TLAPS

\* One request holds the row lock, and the draft exists while it does.
LockInv ==
    \A q \in Requests : Busy(q) =>
        parent = "draft" /\ \A p \in Requests : Busy(p) => p = q

\* A file that has not landed has no scan; a draft that is gone has no file.
FileInv ==
    /\ \A f \in Files : upload[f] \in {"absent", "uploading"} =>
          scan[f] = "pending" /\ running[f] = 0 /\ scanning[f] = 0
    /\ parent = "gone" => Held = {}

\* Scans need a key, and all use the one that is parked.
KeyInv ==
    /\ handed \subseteq {key} \ {None}
    /\ key = None => \A f \in Files : scanning[f] = 0

\* What a poll read still holds when it commits.
PollInv ==
    \A q \in Requests : job[q].at \in {"waiting", "sharing"} =>
        /\ Held # {} /\ \A f \in Held : upload[f] = "landed"
        /\ KeyAllowed(job[q].want)
        /\ job[q].todo \subseteq Held
        /\ job[q].at = "waiting" =>
              job[q].want # None /\ \A f \in job[q].todo : stamp[f] = None
        /\ job[q].at = "sharing" =>
              \A f \in Held : IF f \in job[q].todo
                              THEN scan[f] = "pending" /\ job[q].want = None
                              ELSE scan[f] \in Released

SharedInv == SharedIsSettled /\ (parent = "transfer" => key = linkKey)

\* Files an actor has not claimed yet.
Untouched(a) == job[a].todo \ {job[a].file}

\* The time an actor read is nobody else's, and on the files it has still to
\* claim no row holds it and no actor remembers it.
ClockInv ==
    \A a \in Actors :
        /\ job[a].at \in {"rescanning", "reaping", "claimed"} => job[a].now # None
        /\ job[a].at \in {"rescanning", "reaping"} => job[a].file = None
        /\ job[a].at = "claimed" => job[a].file \in job[a].todo
        /\ job[a].now # None =>
              /\ \A b \in Actors : job[b].now = job[a].now => b = a
              /\ \A f \in Untouched(a) :
                    /\ stamp[f] # job[a].now
                    /\ \A b \in Actors : job[b].seenStamp[f] # job[a].now

\* What a rescan or a run read is past its budget, unless it was re-stamped.
SnapInv ==
    \A a \in Actors, f \in Files :
        (/\ job[a].at \in {"rescanning", "reaping", "claimed"} /\ f \in job[a].todo
         /\ stamp[f] = job[a].seenStamp[f] /\ stamp[f] # None
         /\ job[a].seenScan[f] # "error_transient")
        => f \in late

\* The reaper remembers only stamped files, a rescan only undecided ones.
ReadInv ==
    /\ \A r \in Runs : job[r].at \in {"reaping", "claimed"} =>
          \A f \in job[r].todo : job[r].seenStamp[f] # None
    /\ \A q \in Requests : job[q].at = "rescanning" =>
          \A f \in job[q].todo : job[q].seenScan[f] \in {"pending", "error_transient"}

IInv == TypeOK /\ LockInv /\ FileInv /\ KeyInv /\ PollInv /\ SharedInv
          /\ ClockInv /\ SnapInv /\ ReadInv

-----------------------------------------------------------------------------
(* What each way of changing job does to it, field by field.               *)

LEMMA IdleFields ==
    /\ Idle \in Jobs
    /\ Idle.at = "idle" /\ Idle.todo = {} /\ Idle.now = None
    /\ Idle.want = None /\ Idle.file = None
    /\ \A f \in Files : Idle.seenStamp[f] = None
BY DEF Idle, Jobs, Labels, ScanStatuses

LEMMA SetJob ==
    ASSUME TypeOK, NEW a \in Actors, NEW j \in Jobs, job' = [job EXCEPT ![a] = j]
    PROVE  /\ job' \in [Actors -> Jobs] /\ job'[a] = j
           /\ \A b \in Actors \ {a} : job'[b] = job[b]
BY DEF TypeOK

LEMMA EndJob ==
    ASSUME TypeOK, NEW a \in Actors, End(a)
    PROVE  /\ job' \in [Actors -> Jobs] /\ job'[a] = Idle
           /\ \A b \in Actors \ {a} : job'[b] = job[b]
BY SetJob, IdleFields DEF End

LEMMA CommitJob ==
    ASSUME TypeOK, NEW q \in Actors, NEW F \in SUBSET Files, Commit(q, F)
    PROVE  /\ job' \in [Actors -> Jobs]
           /\ job'[q].at \in {"idle", "sending"} /\ job'[q].todo = F
           /\ job'[q].now = None /\ job'[q].file = None
           /\ \A f \in Files : job'[q].seenStamp[f] = None
           /\ \A b \in Actors \ {q} : job'[b] = job[b]
<1> DEFINE j == IF F = {} THEN Idle ELSE [Idle EXCEPT !.at = "sending", !.todo = F]
<1>1. /\ j \in Jobs /\ j.at \in {"idle", "sending"} /\ j.todo = F /\ j.now = None
      /\ j.file = None /\ \A f \in Files : j.seenStamp[f] = None
  <2>1. CASE F = {}
    BY <2>1, IdleFields
  <2>2. CASE F # {}
    BY <2>2 DEF Idle, Jobs, Labels, ScanStatuses
  <2>. QED
    BY <2>1, <2>2
<1>2. job' = [job EXCEPT ![q] = j]
  BY DEF Commit
<1> HIDE DEF j
<1>. QED
  BY <1>1, <1>2, SetJob

\* What RescanBegin and ReapBegin make of job.
Begun(a, l, F) ==
    /\ job' \in [Actors -> Jobs]
    /\ \A b \in Actors \ {a} : job'[b] = job[b]
    /\ job'[a].at = l /\ job'[a].todo = F /\ job'[a].file = None
    /\ job'[a].now \in Stamps /\ Fresh(job'[a].now)
    /\ \A f \in Files :
          /\ job'[a].seenScan[f] = IF f \in F THEN scan[f] ELSE "pending"
          /\ job'[a].seenStamp[f] = IF f \in F THEN stamp[f] ELSE None

LEMMA ReadJob ==
    ASSUME TypeOK, NEW a \in Actors, NEW l \in Labels, NEW F \in SUBSET Files,
           \E s \in Stamps : Fresh(s) /\ job' = [job EXCEPT ![a] = Read(l, F, s)]
    PROVE  Begun(a, l, F)
<1>0. PICK s \in Stamps : Fresh(s) /\ job' = [job EXCEPT ![a] = Read(l, F, s)]
  OBVIOUS
<1> DEFINE j == Read(l, F, s)
<1>1. scan \in [Files -> ScanStatuses] /\ stamp \in [Files -> Stamps \cup {None}]
  BY DEF TypeOK
<1>2. /\ j \in Jobs /\ j.at = l /\ j.todo = F /\ j.now = s /\ j.file = None
      /\ \A f \in Files :
            /\ j.seenScan[f] = IF f \in F THEN scan[f] ELSE "pending"
            /\ j.seenStamp[f] = IF f \in F THEN stamp[f] ELSE None
  BY <1>1 DEF Read, Idle, Jobs, Labels, ScanStatuses
<1>3. job' = [job EXCEPT ![a] = j]
  BY <1>0
<1> HIDE DEF j
<1>4. job' \in [Actors -> Jobs] /\ job'[a] = j /\ \A b \in Actors \ {a} : job'[b] = job[b]
  BY <1>2, <1>3, SetJob
<1>. QED
  BY <1>0, <1>2, <1>4 DEF Begun

LEMMA RescanJob ==
    ASSUME TypeOK, NEW q \in Actors, RescanBegin(q)
    PROVE  Begun(q, "rescanning", Rescannable)
<1>1. \E s \in Stamps :
         Fresh(s) /\ job' = [job EXCEPT ![q] = Read("rescanning", Rescannable, s)]
  BY DEF RescanBegin
<1>2. "rescanning" \in Labels /\ Rescannable \in SUBSET Files
  BY DEF Labels, Rescannable
<1>. QED
  BY <1>1, <1>2, ReadJob, Zenon

LEMMA ReapJob ==
    ASSUME TypeOK, NEW r \in Actors, ReapBegin(r)
    PROVE  Begun(r, "reaping", Stale)
<1>1. \E s \in Stamps :
         Fresh(s) /\ job' = [job EXCEPT ![r] = Read("reaping", Stale, s)]
  BY DEF ReapBegin
<1>2. "reaping" \in Labels /\ Stale \in SUBSET Files
  BY DEF Labels, Stale, Held
<1>. QED
  BY <1>1, <1>2, ReadJob, Zenon

LEMMA FinalizeJob ==
    ASSUME TypeOK, NEW q \in Requests, NEW k \in Keys \cup {None}, FinalizeBegin(q, k)
    PROVE  /\ job' \in [Actors -> Jobs]
           /\ \/ /\ job'[q].at = "sharing" /\ job'[q].todo = Pending
                 /\ k = None \/ Pending = {}
              \/ /\ job'[q].at = "waiting" /\ k # None
                 /\ job'[q].todo = {f \in Pending : stamp[f] = None}
           /\ job'[q].want = k /\ job'[q].now = None /\ job'[q].file = None
           /\ \A f \in Files : job'[q].seenStamp[f] = None
           /\ \A b \in Actors \ {q} : job'[b] = job[b]
<1> DEFINE j1 == [Idle EXCEPT !.at = "sharing", !.todo = Pending, !.want = k]
           j2 == [Idle EXCEPT !.at = "waiting", !.want = k,
                              !.todo = {f \in Pending : stamp[f] = None}]
<1>1. Pending \subseteq Files /\ q \in Actors
  BY DEF Pending, Held, Actors
<1>2. /\ j1 \in Jobs /\ j1.at = "sharing" /\ j1.todo = Pending /\ j1.want = k
      /\ j1.now = None /\ j1.file = None /\ \A f \in Files : j1.seenStamp[f] = None
  BY <1>1 DEF Idle, Jobs, Labels, ScanStatuses
<1>3. /\ j2 \in Jobs /\ j2.at = "waiting" /\ j2.want = k
      /\ j2.todo = {f \in Pending : stamp[f] = None}
      /\ j2.now = None /\ j2.file = None /\ \A f \in Files : j2.seenStamp[f] = None
  BY <1>1 DEF Idle, Jobs, Labels, ScanStatuses
<1>4. job' = [job EXCEPT ![q] = IF k = None \/ Pending = {} THEN j1 ELSE j2]
  BY DEF FinalizeBegin
<1> HIDE DEF j1, j2
<1>5. CASE k = None \/ Pending = {}
  BY <1>1, <1>2, <1>4, <1>5, SetJob
<1>6. CASE ~(k = None \/ Pending = {})
  BY <1>1, <1>3, <1>4, <1>6, SetJob
<1>. QED
  BY <1>5, <1>6

LEMMA NextStaleJob ==
    ASSUME TypeOK, NEW r \in Actors, NEW f \in Files, NextStale(r, f)
    PROVE  /\ job' \in [Actors -> Jobs]
           /\ \/ job'[r] = Idle
              \/ /\ job'[r].at = "reaping" /\ job'[r].todo = job[r].todo \ {f}
                 /\ job'[r].now = job[r].now /\ job'[r].file = None
                 /\ job'[r].seenStamp = job[r].seenStamp
                 /\ job'[r].seenScan = job[r].seenScan
           /\ \A b \in Actors \ {r} : job'[b] = job[b]
<1> DEFINE left == job[r].todo \ {f}
           j == [job[r] EXCEPT !.at = "reaping", !.todo = left, !.file = None]
<1>1. job[r] \in Jobs
  BY DEF TypeOK
<1>2. /\ j \in Jobs /\ j.at = "reaping" /\ j.todo = job[r].todo \ {f}
      /\ j.now = job[r].now /\ j.file = None
      /\ j.seenStamp = job[r].seenStamp /\ j.seenScan = job[r].seenScan
  BY <1>1 DEF Jobs, Labels
<1>3. job' = [job EXCEPT ![r] = IF left = {} THEN Idle ELSE j]
  BY DEF NextStale
<1> HIDE DEF left, j
<1>4. CASE left = {}
  BY <1>3, <1>4, SetJob, IdleFields
<1>5. CASE left # {}
  BY <1>2, <1>3, <1>5, SetJob
<1>. QED
  BY <1>4, <1>5

LEMMA ClaimJob ==
    ASSUME TypeOK, NEW r \in Actors, NEW f \in Files,
           job' = [job EXCEPT ![r].at = "claimed", ![r].file = f]
    PROVE  /\ job' \in [Actors -> Jobs]
           /\ job'[r].at = "claimed" /\ job'[r].file = f
           /\ job'[r].todo = job[r].todo /\ job'[r].now = job[r].now
           /\ job'[r].seenStamp = job[r].seenStamp
           /\ job'[r].seenScan = job[r].seenScan
           /\ \A b \in Actors \ {r} : job'[b] = job[b]
<1> DEFINE j == [job[r] EXCEPT !.at = "claimed", !.file = f]
<1>1. job[r] \in Jobs /\ job \in [Actors -> Jobs]
  BY DEF TypeOK
<1>2. /\ j \in Jobs /\ j.at = "claimed" /\ j.todo = job[r].todo
      /\ j.now = job[r].now /\ j.file = f
      /\ j.seenStamp = job[r].seenStamp /\ j.seenScan = job[r].seenScan
  BY <1>1 DEF Jobs, Labels
<1>3. job' = [job EXCEPT ![r] = j]
  BY <1>1
<1> HIDE DEF j
<1>. QED
  BY <1>2, <1>3, SetJob

-----------------------------------------------------------------------------
(* Each part of IInv is preserved by each action.                          *)

LEMMA ResultsOK ==
    Results \subseteq {"clean", "infected", "unscannable", "error_transient", "error_file"}
BY DEF Results, Result, Payloads

\* Who is who.
LEMMA Roles ==
    /\ Requests \subseteq Actors /\ Runs \subseteq Actors
    /\ \A q \in Requests : q \notin Runs
    /\ None \notin Files /\ None \notin Stamps /\ None \notin Keys
    /\ MaxQueue \in Nat
BY PipelineAssumption DEF Actors

LEMMA HeldFacts == Held \subseteq Files /\ Pending \subseteq Held /\ Stale \subseteq Held
                     /\ Rescannable \subseteq Held
BY DEF Held, Pending, Stale, Rescannable

LEMMA TypeOKNext ==
    ASSUME IInv, [Next]_vars
    PROVE  TypeOK'
<1> USE DEF row, doc, work
<1>1. ASSUME NEW f \in Files, AddFile(f)
      PROVE  TypeOK'
  BY <1>1, Roles DEF AddFile, TypeOK, IInv
<1>2. ASSUME NEW f \in Files, CompleteUpload(f)
      PROVE  TypeOK'
  BY <1>2, Roles DEF CompleteUpload, SetScan, TypeOK, IInv, ScanStatuses,
      Released, Blocked
<1>3. ASSUME NEW f \in Files, RemoveFile(f)
      PROVE  TypeOK'
  BY <1>3, Roles DEF RemoveFile, TypeOK, IInv, Held
<1>4. ASSUME DropDraft
      PROVE  TypeOK'
  BY <1>4, Roles DEF DropDraft, TypeOK, IInv, Held
<1>5. ASSUME NEW q \in Requests, NEW k \in Keys \cup {None},
             FinalizeBegin(q, k)
      PROVE  TypeOK'
  BY <1>5, Roles, FinalizeJob DEF FinalizeBegin, TypeOK, IInv
<1>6. ASSUME NEW q \in Requests, FinalizeWait(q)
      PROVE  TypeOK'

  <2>1. job[q].todo \in SUBSET Files /\ job[q].want \in Keys \cup {None} /\ q \in Actors
    BY Roles DEF IInv, TypeOK, Jobs
  <2>2. job' \in [Actors -> Jobs]
    BY <1>6, <2>1, CommitJob DEF FinalizeWait, IInv
  <2>. QED
    BY <1>6, <2>1, <2>2 DEF FinalizeWait, Restamp, Parked, IInv, TypeOK
<1>7. ASSUME NEW q \in Requests, FinalizeShare(q)
      PROVE  TypeOK'

  <2>1. job[q].want \in Keys \cup {None} /\ q \in Actors
    BY Roles DEF IInv, TypeOK, Jobs
  <2>2. job' \in [Actors -> Jobs]
    BY <1>7, <2>1, EndJob DEF FinalizeShare, IInv
  <2>. QED
    BY <1>7, <2>1, <2>2
       DEF FinalizeShare, SetScan, Parked, ScanStatuses, Released, IInv, TypeOK
<1>8. ASSUME NEW q \in Requests, RescanBegin(q)
      PROVE  TypeOK'

  <2>1. job' \in [Actors -> Jobs]
    BY <1>8, RescanJob, Roles DEF Begun, IInv
  <2>. QED
    BY <1>8, <2>1 DEF RescanBegin, IInv, TypeOK
<1>9. ASSUME NEW q \in Requests, RescanEnd(q)
      PROVE  TypeOK'

  <2>1. /\ job[q].now \in Stamps \cup {None} /\ q \in Actors
        /\ Claimed(q) \in SUBSET Files
    BY Roles DEF IInv, TypeOK, Jobs, Claimed
  <2>2. job' \in [Actors -> Jobs]
    BY <1>9, <2>1, CommitJob DEF RescanEnd, IInv
  <2> HIDE DEF Claimed
  <2>. QED
    BY <1>9, <2>1, <2>2 DEF RescanEnd, SetScan, Restamp, ScanStatuses, IInv, TypeOK
<1>10. ASSUME NEW q \in Requests, NEW f \in Files, Send(q, f)
      PROVE  TypeOK'

  <2>1. job[q].todo \ {f} \in SUBSET Files /\ q \in Actors
    BY Roles DEF IInv, TypeOK, Jobs
  <2>2. job' \in [Actors -> Jobs]
    BY <1>10, <2>1, CommitJob, EndJob DEF Send, IInv
  <2>. QED
    BY <1>10, <2>2, Roles DEF Send, More, Fault, IInv, TypeOK
<1>11. ASSUME NEW r \in Runs, ReapBegin(r)
      PROVE  TypeOK'

  <2>1. job' \in [Actors -> Jobs]
    BY <1>11, ReapJob, Roles DEF Begun, IInv
  <2>. QED
    BY <1>11, <2>1 DEF ReapBegin, IInv, TypeOK
<1>12. ASSUME NEW r \in Runs, NEW f \in Files, ReapClaim(r, f)
      PROVE  TypeOK'

  <2>1. job[r].now \in Stamps \cup {None} /\ r \in Actors
    BY Roles DEF IInv, TypeOK, Jobs
  <2>2. job' \in [Actors -> Jobs]
    BY <1>12, <2>1, ClaimJob, NextStaleJob DEF ReapClaim, IInv
  <2>. QED
    BY <1>12, <2>1, <2>2 DEF ReapClaim, Restamp, IInv, TypeOK
<1>13. ASSUME NEW r \in Runs, ReapSend(r)
      PROVE  TypeOK'

  <2>1. r \in Actors /\ job[r].file \in Files
    BY <1>13, Roles DEF ReapSend, At, IInv, ClockInv, TypeOK, Jobs
  <2>2. job' \in [Actors -> Jobs]
    BY <1>13, <2>1, NextStaleJob DEF ReapSend, IInv
  <2>. QED
    BY <1>13, <2>1, <2>2, Roles DEF ReapSend, More, IInv, TypeOK
<1>14. ASSUME NEW r \in Runs, ReapRefused(r)
      PROVE  TypeOK'

  <2>1. /\ r \in Actors /\ job[r].file \in Files
        /\ job[r].seenStamp \in [Files -> Stamps \cup {None}]
    BY <1>14, Roles DEF ReapRefused, At, IInv, ClockInv, TypeOK, Jobs
  <2>2. job' \in [Actors -> Jobs]
    BY <1>14, <2>1, EndJob DEF ReapRefused, IInv
  <2>. QED
    BY <1>14, <2>1, <2>2, Roles DEF ReapRefused, GiveBack, More, Fault, IInv, TypeOK
<1>15. ASSUME NEW f \in Files, Deliver(f)
      PROVE  TypeOK'
  BY <1>15, Roles DEF Deliver, Fewer, More, TypeOK, IInv
<1>16. ASSUME NEW f \in Files, Post(f)
      PROVE  TypeOK'
  BY <1>16, Roles DEF Post, Fewer, More, TypeOK, IInv
<1>17. ASSUME NEW f \in Files, PostFails(f)
      PROVE  TypeOK'
  BY <1>17, Roles DEF PostFails, Fewer, More, Fault, TypeOK, IInv
<1>18. ASSUME NEW f \in Files, LoseJob(f)
      PROVE  TypeOK'
  BY <1>18, Roles DEF LoseJob, Fewer, Fault, TypeOK, IInv
<1>19. ASSUME NEW f \in Files, NEW v \in Results, Callback(f, v)
      PROVE  TypeOK'
  BY <1>19, Roles, ResultsOK DEF Callback, Apply, SetScan, Fewer, TypeOK,
      IInv, ScanStatuses, Released, Blocked
<1>20. ASSUME NEW f \in Files, Lapse(f)
      PROVE  TypeOK'
  BY <1>20, Roles DEF Lapse, TypeOK, IInv
<1>21. ASSUME NEW a \in Actors, Die(a)
      PROVE  TypeOK'
  BY <1>21, EndJob DEF Die, Fault, TypeOK, IInv
<1>22. ASSUME UNCHANGED vars
      PROVE  TypeOK'
  BY <1>22 DEF vars, TypeOK, IInv
<1>. QED
  BY <1>1, <1>2, <1>3, <1>4, <1>5, <1>6, <1>7, <1>8, <1>9, <1>10, <1>11,
     <1>12, <1>13, <1>14, <1>15, <1>16, <1>17, <1>18, <1>19, <1>20, <1>21,
     <1>22 DEF Next, DraftStep, RequestStep, RequestContinues, RunStep,
     ScanStep

\* The lock is exclusive, and the draft stays while it is held.
LEMMA LockInvNext ==
    ASSUME IInv, [Next]_vars
    PROVE  LockInv'
<1> USE DEF row, doc, work
<1>1. ASSUME NEW f \in Files,
             AddFile(f) \/ CompleteUpload(f) \/ Deliver(f)
             \/ Post(f) \/ PostFails(f) \/ LoseJob(f) \/ Lapse(f)
      PROVE  LockInv'
  BY <1>1 DEF AddFile, CompleteUpload, SetScan, Deliver, Fewer, More, Post,
      PostFails, Fault, LoseJob, Lapse, IInv, LockInv, Busy
<1>2. ASSUME NEW f \in Files, NEW v \in Results, Callback(f, v)
      PROVE  LockInv'
  BY <1>2 DEF Callback, Apply, SetScan, Fewer, IInv, LockInv, Busy
<1>3. ASSUME NEW f \in Files, RemoveFile(f)
      PROVE  LockInv'
  BY <1>3 DEF RemoveFile, IInv, LockInv, Busy, Locked
<1>4. ASSUME DropDraft
      PROVE  LockInv'
  BY <1>4 DEF DropDraft, IInv, LockInv, Busy, Locked
<1>5. ASSUME NEW q \in Requests, NEW k \in Keys \cup {None},
             FinalizeBegin(q, k)
      PROVE  LockInv'
  BY <1>5, FinalizeJob, Roles DEF FinalizeBegin, IInv, LockInv, Busy, Locked
<1>6. ASSUME NEW q \in Requests, FinalizeWait(q)
      PROVE  LockInv'

  <2>1. job[q].todo \in SUBSET Files /\ q \in Actors /\ Busy(q)
    BY <1>6, Roles DEF IInv, TypeOK, Jobs, FinalizeWait, At, Busy
  <2>. QED
    BY <1>6, <2>1, CommitJob, Roles DEF FinalizeWait, IInv, LockInv, Busy
<1>7. ASSUME NEW q \in Requests, FinalizeShare(q)
      PROVE  LockInv'

  <2>1. q \in Actors /\ Busy(q)
    BY <1>7, Roles DEF FinalizeShare, At, Busy
  <2>. QED
    BY <1>7, <2>1, EndJob, IdleFields, Roles DEF FinalizeShare, IInv, LockInv, Busy
<1>8. ASSUME NEW q \in Requests, RescanBegin(q)
      PROVE  LockInv'
  BY <1>8, RescanJob, Roles DEF RescanBegin, IInv, LockInv, Busy, Locked,
      Begun
<1>9. ASSUME NEW q \in Requests, RescanEnd(q)
      PROVE  LockInv'

  <2>1. Claimed(q) \in SUBSET Files /\ q \in Actors
    BY Roles DEF IInv, TypeOK, Jobs, Claimed
  <2>. QED
    BY <1>9, <2>1, CommitJob, Roles DEF RescanEnd, IInv, LockInv, Busy
<1>10. ASSUME NEW q \in Requests, NEW f \in Files, Send(q, f)
      PROVE  LockInv'

  <2>1. job[q].todo \ {f} \in SUBSET Files /\ q \in Actors
    BY Roles DEF IInv, TypeOK, Jobs
  <2>. QED
    BY <1>10, <2>1, CommitJob, EndJob, IdleFields, Roles DEF Send, IInv, LockInv, Busy
<1>11. ASSUME NEW r \in Runs, ReapBegin(r)
      PROVE  LockInv'
  BY <1>11, ReapJob, Roles DEF ReapBegin, IInv, LockInv, Busy, Begun
<1>12. ASSUME NEW r \in Runs, NEW f \in Files, ReapClaim(r, f)
      PROVE  LockInv'
  BY <1>12, ClaimJob, NextStaleJob, Roles DEF ReapClaim, Restamp, IInv,
      LockInv, Busy
<1>13. ASSUME NEW r \in Runs, ReapSend(r)
      PROVE  LockInv'

  <2>1. r \in Actors /\ job[r].file \in Files
    BY <1>13, Roles DEF ReapSend, At, IInv, ClockInv, TypeOK, Jobs
  <2>. QED
    BY <1>13, <2>1, NextStaleJob, Roles DEF ReapSend, IInv, LockInv, Busy
<1>14. ASSUME NEW r \in Runs, ReapRefused(r)
      PROVE  LockInv'
  BY <1>14, EndJob, Roles DEF ReapRefused, GiveBack, More, Fault, IInv,
      LockInv, Busy
<1>15. ASSUME NEW a \in Actors, Die(a)
      PROVE  LockInv'
  BY <1>15, EndJob, IdleFields, Roles DEF Die, Fault, IInv, LockInv, Busy
<1>16. ASSUME UNCHANGED vars
      PROVE  LockInv'
  BY <1>16 DEF vars, IInv, LockInv, Busy
<1>. QED
  BY <1>1, <1>2, <1>3, <1>4, <1>5, <1>6, <1>7, <1>8, <1>9, <1>10, <1>11,
     <1>12, <1>13, <1>14, <1>15, <1>16 DEF Next, DraftStep, RequestStep,
     RequestContinues, RunStep, ScanStep

\* Scans concern landed files only.
LEMMA FileInvNext ==
    ASSUME IInv, [Next]_vars
    PROVE  FileInv'
<1> USE DEF row, doc, work
<1>1. ASSUME NEW f \in Files, AddFile(f)
      PROVE  FileInv'
  BY <1>1 DEF AddFile, IInv, FileInv, Held, TypeOK
<1>2. ASSUME NEW f \in Files, CompleteUpload(f)
      PROVE  FileInv'
  BY <1>2 DEF CompleteUpload, SetScan, IInv, FileInv, Held, TypeOK
<1>3. ASSUME NEW f \in Files, RemoveFile(f)
      PROVE  FileInv'
  BY <1>3 DEF RemoveFile, IInv, FileInv, Held, TypeOK
<1>4. ASSUME DropDraft
      PROVE  FileInv'
  BY <1>4 DEF DropDraft, IInv, FileInv, Held, TypeOK
<1>5. ASSUME NEW q \in Requests, NEW k \in Keys \cup {None},
             FinalizeBegin(q, k)
      PROVE  FileInv'
  BY <1>5 DEF FinalizeBegin, IInv, FileInv, Held, TypeOK
<1>6. ASSUME NEW q \in Requests, FinalizeWait(q)
      PROVE  FileInv'
  BY <1>6 DEF FinalizeWait, Restamp, Parked, IInv, FileInv, Held, TypeOK
<1>7. ASSUME NEW q \in Requests, FinalizeShare(q)
      PROVE  FileInv'
  BY <1>7 DEF FinalizeShare, SetScan, Parked, IInv, FileInv, Held, TypeOK,
      PollInv, At
<1>8. ASSUME NEW q \in Requests, RescanBegin(q)
      PROVE  FileInv'
  BY <1>8 DEF RescanBegin, IInv, FileInv, Held, TypeOK
<1>9. ASSUME NEW q \in Requests, RescanEnd(q)
      PROVE  FileInv'
  BY <1>9 DEF RescanEnd, SetScan, Restamp, IInv, FileInv, Held, TypeOK,
      Claimed, Unchanged
<1>10. ASSUME NEW q \in Requests, NEW f \in Files, Send(q, f)
      PROVE  FileInv'
  BY <1>10 DEF Send, More, Fault, IInv, FileInv, Held, TypeOK
<1>11. ASSUME NEW r \in Runs, ReapBegin(r) \/ ReapSend(r) \/ ReapRefused(r)
      PROVE  FileInv'
  BY <1>11 DEF ReapBegin, ReapSend, More, ReapRefused, GiveBack, Fault, IInv,
      FileInv, Held, TypeOK
<1>12. ASSUME NEW r \in Runs, NEW f \in Files, ReapClaim(r, f)
      PROVE  FileInv'
  BY <1>12 DEF ReapClaim, Restamp, IInv, FileInv, Held, TypeOK
<1>13. ASSUME NEW f \in Files, Deliver(f)
      PROVE  FileInv'
  BY <1>13 DEF Deliver, Fewer, More, IInv, FileInv, Held, TypeOK
<1>14. ASSUME NEW f \in Files, Post(f)
      PROVE  FileInv'
  BY <1>14 DEF Post, Fewer, More, IInv, FileInv, Held, TypeOK
<1>15. ASSUME NEW f \in Files, PostFails(f)
      PROVE  FileInv'
  BY <1>15 DEF PostFails, Fewer, More, Fault, IInv, FileInv, Held, TypeOK
<1>16. ASSUME NEW f \in Files, LoseJob(f)
      PROVE  FileInv'
  BY <1>16 DEF LoseJob, Fewer, Fault, IInv, FileInv, Held, TypeOK
<1>17. ASSUME NEW f \in Files, NEW v \in Results, Callback(f, v)
      PROVE  FileInv'
  BY <1>17 DEF Callback, Apply, SetScan, Fewer, IInv, FileInv, Held, TypeOK
<1>18. ASSUME NEW f \in Files, Lapse(f)
      PROVE  FileInv'
  BY <1>18 DEF Lapse, IInv, FileInv, Held, TypeOK
<1>19. ASSUME NEW a \in Actors, Die(a)
      PROVE  FileInv'
  BY <1>19 DEF Die, Fault, IInv, FileInv, Held, TypeOK
<1>20. ASSUME UNCHANGED vars
      PROVE  FileInv'
  BY <1>20 DEF vars, IInv, FileInv, Held, TypeOK
<1>. QED
  BY <1>1, <1>2, <1>3, <1>4, <1>5, <1>6, <1>7, <1>8, <1>9, <1>10, <1>11,
     <1>12, <1>13, <1>14, <1>15, <1>16, <1>17, <1>18, <1>19, <1>20 DEF Next,
     DraftStep, RequestStep, RequestContinues, RunStep, ScanStep

\* The key is parked once, before any scan.
LEMMA KeyInvNext ==
    ASSUME IInv, [Next]_vars
    PROVE  KeyInv'
<1> USE DEF row, doc, work
<1>1. ASSUME NEW f \in Files,
             AddFile(f) \/ CompleteUpload(f) \/ RemoveFile(f) \/ Lapse(f)
      PROVE  KeyInv'
  BY <1>1 DEF AddFile, CompleteUpload, SetScan, RemoveFile, Lapse, IInv,
      KeyInv, TypeOK
<1>2. ASSUME DropDraft
      PROVE  KeyInv'
  BY <1>2 DEF DropDraft, IInv, KeyInv, TypeOK
<1>3. ASSUME NEW q \in Requests, NEW k \in Keys \cup {None},
             FinalizeBegin(q, k)
      PROVE  KeyInv'
  BY <1>3 DEF FinalizeBegin, IInv, KeyInv, TypeOK
<1>4. ASSUME NEW q \in Requests, FinalizeWait(q)
      PROVE  KeyInv'
  BY <1>4 DEF FinalizeWait, Restamp, Parked, IInv, KeyInv, TypeOK
<1>5. ASSUME NEW q \in Requests, FinalizeShare(q)
      PROVE  KeyInv'
  BY <1>5 DEF FinalizeShare, SetScan, Parked, IInv, KeyInv, TypeOK
<1>6. ASSUME NEW q \in Requests, RescanBegin(q) \/ RescanEnd(q)
      PROVE  KeyInv'
  BY <1>6 DEF RescanBegin, RescanEnd, SetScan, Restamp, IInv, KeyInv, TypeOK
<1>7. ASSUME NEW q \in Requests, NEW f \in Files, Send(q, f)
      PROVE  KeyInv'
  BY <1>7 DEF Send, More, Fault, IInv, KeyInv, TypeOK
<1>8. ASSUME NEW r \in Runs, ReapBegin(r) \/ ReapSend(r) \/ ReapRefused(r)
      PROVE  KeyInv'
  BY <1>8 DEF ReapBegin, ReapSend, More, ReapRefused, GiveBack, Fault, IInv,
      KeyInv, TypeOK
<1>9. ASSUME NEW r \in Runs, NEW f \in Files, ReapClaim(r, f)
      PROVE  KeyInv'
  BY <1>9 DEF ReapClaim, Restamp, IInv, KeyInv, TypeOK
<1>10. ASSUME NEW f \in Files, Deliver(f)
      PROVE  KeyInv'
  BY <1>10 DEF Deliver, Fewer, More, IInv, KeyInv, TypeOK
<1>11. ASSUME NEW f \in Files, Post(f)
      PROVE  KeyInv'
  BY <1>11 DEF Post, Fewer, More, IInv, KeyInv, TypeOK
<1>12. ASSUME NEW f \in Files, PostFails(f)
      PROVE  KeyInv'
  BY <1>12 DEF PostFails, Fewer, More, Fault, IInv, KeyInv, TypeOK
<1>13. ASSUME NEW f \in Files, LoseJob(f)
      PROVE  KeyInv'
  BY <1>13 DEF LoseJob, Fewer, Fault, IInv, KeyInv, TypeOK
<1>14. ASSUME NEW f \in Files, NEW v \in Results, Callback(f, v)
      PROVE  KeyInv'
  BY <1>14 DEF Callback, Apply, SetScan, Fewer, IInv, KeyInv, TypeOK
<1>15. ASSUME NEW a \in Actors, Die(a)
      PROVE  KeyInv'
  BY <1>15 DEF Die, Fault, IInv, KeyInv, TypeOK
<1>16. ASSUME UNCHANGED vars
      PROVE  KeyInv'
  BY <1>16 DEF vars, IInv, KeyInv, TypeOK
<1>. QED
  BY <1>1, <1>2, <1>3, <1>4, <1>5, <1>6, <1>7, <1>8, <1>9, <1>10, <1>11,
     <1>12, <1>13, <1>14, <1>15, <1>16 DEF Next, DraftStep, RequestStep,
     RequestContinues, RunStep, ScanStep

\* What a poll read under the lock is still true when it commits.
LEMMA PollInvNext ==
    ASSUME IInv, [Next]_vars
    PROVE  PollInv'
<1> USE DEF row, doc, work
<1>1. ASSUME NEW f \in Files, AddFile(f)
      PROVE  PollInv'
  BY <1>1 DEF AddFile, IInv, PollInv, LockInv, Busy, Locked, Held, KeyAllowed,
      TypeOK
<1>2. ASSUME NEW f \in Files, CompleteUpload(f)
      PROVE  PollInv'
  BY <1>2 DEF CompleteUpload, SetScan, IInv, PollInv, LockInv, Busy, Locked,
      Held, KeyAllowed, TypeOK
<1>3. ASSUME NEW f \in Files, RemoveFile(f)
      PROVE  PollInv'
  BY <1>3 DEF RemoveFile, IInv, PollInv, LockInv, Busy, Locked, Held,
      KeyAllowed, TypeOK
<1>4. ASSUME DropDraft
      PROVE  PollInv'
  BY <1>4 DEF DropDraft, IInv, PollInv, LockInv, Busy, Locked, Held,
      KeyAllowed, TypeOK
<1>5. ASSUME NEW q \in Requests, NEW k \in Keys \cup {None},
             FinalizeBegin(q, k)
      PROVE  PollInv'

  <2>1. q \in Actors /\ UNCHANGED <<Held, upload, key, scan, stamp>>
    BY <1>5, Roles DEF FinalizeBegin, Held
  <2>2. \A p \in Requests \ {q} : job'[p] = job[p] /\ ~Busy(p)
    BY <1>5, <2>1, FinalizeJob, Roles DEF FinalizeBegin, Locked, IInv
  <2>3. /\ Held # {} /\ \A f \in Held : upload[f] = "landed"
        /\ KeyAllowed(k)
    BY <1>5 DEF FinalizeBegin, ShapeAllowed
  <2>4. \A f \in Held : IF f \in Pending THEN scan[f] = "pending" ELSE scan[f] \in Released
    BY <1>5, HeldFacts DEF FinalizeBegin, Refused, Pending, ScanStatuses, IInv, TypeOK
  <2>5. job'[q].want = k
        /\ \/ /\ job'[q].at = "sharing" /\ job'[q].todo = Pending
              /\ k = None \/ Pending = {}
           \/ /\ job'[q].at = "waiting" /\ k # None
              /\ job'[q].todo = {f \in Pending : stamp[f] = None}
    BY <1>5, FinalizeJob DEF IInv
  <2>6. /\ job'[q].todo \subseteq Held
        /\ job'[q].at = "waiting" =>
              job'[q].want # None /\ \A f \in job'[q].todo : stamp[f] = None
        /\ job'[q].at = "sharing" =>
              \A f \in Held : IF f \in job'[q].todo
                              THEN scan[f] = "pending" /\ job'[q].want = None
                              ELSE scan[f] \in Released
    BY <2>4, <2>5, HeldFacts
  <2>. QED
    BY <2>1, <2>2, <2>3, <2>5, <2>6 DEF PollInv, Busy, KeyAllowed
<1>6. ASSUME NEW q \in Requests, FinalizeWait(q)
      PROVE  PollInv'

  <2>1. job[q].todo \in SUBSET Files /\ q \in Actors /\ Busy(q)
    BY <1>6, Roles DEF IInv, TypeOK, Jobs, FinalizeWait, At, Busy
  <2>2. /\ job'[q].at \in {"idle", "sending"}
        /\ \A p \in Requests \ {q} : job'[p] = job[p] /\ ~Busy(p)
    BY <1>6, <2>1, CommitJob, Roles DEF FinalizeWait, IInv, LockInv
  <2>. QED
    BY <2>2 DEF PollInv, Busy
<1>7. ASSUME NEW q \in Requests, FinalizeShare(q)
      PROVE  PollInv'

  <2>1. q \in Actors /\ Busy(q)
    BY <1>7, Roles DEF FinalizeShare, At, Busy
  <2>2. /\ job'[q].at = "idle"
        /\ \A p \in Requests \ {q} : job'[p] = job[p] /\ ~Busy(p)
    BY <1>7, <2>1, EndJob, IdleFields, Roles DEF FinalizeShare, IInv, LockInv
  <2>. QED
    BY <2>2 DEF PollInv, Busy
<1>8. ASSUME NEW q \in Requests, RescanBegin(q)
      PROVE  PollInv'

  <2>1. q \in Actors /\ \A p \in Requests : ~Busy(p)
    BY <1>8, Roles DEF RescanBegin, Locked
  <2>2. job'[q].at = "rescanning" /\ \A p \in Requests \ {q} : job'[p] = job[p]
    BY <1>8, <2>1, RescanJob, Roles DEF Begun, IInv
  <2>. QED
    BY <2>1, <2>2 DEF PollInv, Busy
<1>9. ASSUME NEW q \in Requests, RescanEnd(q)
      PROVE  PollInv'

  <2>1. Claimed(q) \in SUBSET Files /\ q \in Actors /\ Busy(q)
    BY <1>9, Roles DEF IInv, TypeOK, Jobs, Claimed, RescanEnd, At, Busy
  <2>2. /\ job'[q].at \in {"idle", "sending"}
        /\ \A p \in Requests \ {q} : job'[p] = job[p] /\ ~Busy(p)
    BY <1>9, <2>1, CommitJob, Roles DEF RescanEnd, IInv, LockInv
  <2>. QED
    BY <2>2 DEF PollInv, Busy
<1>10. ASSUME NEW q \in Requests, NEW f \in Files, Send(q, f)
      PROVE  PollInv'

  <2>1. job[q].todo \ {f} \in SUBSET Files /\ q \in Actors
    BY Roles DEF IInv, TypeOK, Jobs
  <2>2. /\ job'[q].at \in {"idle", "sending"}
        /\ \A p \in Requests \ {q} : job'[p] = job[p]
    BY <1>10, <2>1, CommitJob, EndJob, IdleFields, Roles DEF Send, IInv
  <2>. QED
    BY <1>10, <2>2 DEF Send, IInv, PollInv, Held, KeyAllowed
<1>11. ASSUME NEW r \in Runs, ReapBegin(r)
      PROVE  PollInv'
  BY <1>11, ReapJob, Roles DEF ReapBegin, IInv, PollInv, LockInv, Busy,
      Locked, Held, KeyAllowed, TypeOK, Begun
<1>12. ASSUME NEW r \in Runs, NEW f \in Files, ReapClaim(r, f)
      PROVE  PollInv'

  <2>1. \A p \in Requests : job'[p] = job[p]
    BY <1>12, ClaimJob, NextStaleJob, Roles DEF ReapClaim, IInv
  <2>2. stamp[f] = None => UNCHANGED stamp
    BY <1>12 DEF ReapClaim, Unchanged, At, IInv, ReadInv
  <2>3. stamp[f] # None => \A p \in Requests : job[p].at = "waiting" => f \notin job[p].todo
    BY DEF IInv, PollInv
  <2>4. \A g \in Files \ {f} : stamp'[g] = stamp[g]
    BY <1>12 DEF ReapClaim, Restamp
  <2>5. UNCHANGED <<Held, upload, key, scan>>
    BY <1>12 DEF ReapClaim, Held
  <2>. QED
    BY <2>1, <2>2, <2>3, <2>4, <2>5, HeldFacts DEF IInv, PollInv, KeyAllowed
<1>13. ASSUME NEW r \in Runs, ReapSend(r)
      PROVE  PollInv'

  <2>1. r \in Actors /\ job[r].file \in Files
    BY <1>13, Roles DEF ReapSend, At, IInv, ClockInv, TypeOK, Jobs
  <2>2. \A p \in Requests : job'[p] = job[p]
    BY <1>13, <2>1, NextStaleJob, Roles DEF ReapSend, IInv
  <2>. QED
    BY <1>13, <2>2 DEF ReapSend, IInv, PollInv, Held, KeyAllowed
<1>14. ASSUME NEW r \in Runs, ReapRefused(r)
      PROVE  PollInv'

  <2>1. \A p \in Requests : job'[p] = job[p]
    BY <1>14, EndJob, Roles DEF ReapRefused, IInv
  <2>2. \A g \in Files : stamp[g] = None => stamp'[g] = None
    BY <1>14, Roles DEF ReapRefused, GiveBack, At, IInv, ClockInv, TypeOK
  <2>3. UNCHANGED <<Held, upload, key, scan>>
    BY <1>14 DEF ReapRefused, Held
  <2>. QED
    BY <2>1, <2>2, <2>3, HeldFacts DEF IInv, PollInv, KeyAllowed
<1>15. ASSUME NEW f \in Files,
             Deliver(f) \/ Post(f) \/ PostFails(f) \/ LoseJob(f)
      PROVE  PollInv'
  BY <1>15 DEF Deliver, Fewer, More, Post, PostFails, Fault, LoseJob, IInv,
      PollInv, LockInv, Busy, Locked, Held, KeyAllowed, TypeOK
<1>16. ASSUME NEW f \in Files, NEW v \in Results, Callback(f, v)
      PROVE  PollInv'

  <2>1. key # None
    BY <1>16 DEF Callback, IInv, KeyInv, TypeOK
  <2>2. \A p \in Requests : job[p].at = "sharing" => \A g \in Held : scan[g] \in Released
    BY <2>1 DEF IInv, PollInv, KeyAllowed
  <2>3. \A g \in Files : scan'[g] = scan[g] \/ scan[g] = "pending"
    BY <1>16 DEF Callback, Apply, SetScan, IInv, TypeOK
  <2>4. UNCHANGED <<Held, upload, key, job, stamp>>
    BY <1>16 DEF Callback, Held
  <2>5. \A p \in Requests : job[p].at = "sharing" => \A g \in Held : scan'[g] \in Released
    BY <2>2, <2>3, HeldFacts DEF Released
  <2>6. \A p \in Requests : job[p].at = "sharing" => \A g \in Held : g \notin job[p].todo
    BY <2>1 DEF IInv, PollInv, KeyAllowed
  <2>. QED
    BY <2>4, <2>5, <2>6 DEF IInv, PollInv, KeyAllowed
<1>17. ASSUME NEW f \in Files, Lapse(f)
      PROVE  PollInv'
  BY <1>17 DEF Lapse, IInv, PollInv, LockInv, Busy, Locked, Held, KeyAllowed,
      TypeOK
<1>18. ASSUME NEW a \in Actors, Die(a)
      PROVE  PollInv'
  BY <1>18, EndJob, IdleFields, Roles DEF Die, Fault, IInv, PollInv, LockInv,
      Busy, Locked, Held, KeyAllowed, TypeOK
<1>19. ASSUME UNCHANGED vars
      PROVE  PollInv'
  BY <1>19 DEF vars, IInv, PollInv, LockInv, Busy, Locked, Held, KeyAllowed,
      TypeOK
<1>. QED
  BY <1>1, <1>2, <1>3, <1>4, <1>5, <1>6, <1>7, <1>8, <1>9, <1>10, <1>11,
     <1>12, <1>13, <1>14, <1>15, <1>16, <1>17, <1>18, <1>19 DEF Next,
     DraftStep, RequestStep, RequestContinues, RunStep, ScanStep

\* A transfer keeps its verdicts and its key.
LEMMA SharedInvNext ==
    ASSUME IInv, [Next]_vars
    PROVE  SharedInv'
<1> USE DEF row, doc, work
<1>1. ASSUME NEW f \in Files, AddFile(f) \/ CompleteUpload(f) \/ RemoveFile(f)
      PROVE  SharedInv'
  BY <1>1 DEF AddFile, CompleteUpload, SetScan, RemoveFile, IInv, SharedInv,
      SharedIsSettled, Held
<1>2. ASSUME DropDraft
      PROVE  SharedInv'
  BY <1>2 DEF DropDraft, IInv, SharedInv, SharedIsSettled, Held
<1>3. ASSUME NEW q \in Requests, NEW k \in Keys \cup {None},
             FinalizeBegin(q, k)
      PROVE  SharedInv'
  BY <1>3 DEF FinalizeBegin, IInv, SharedInv, SharedIsSettled, Held
<1>4. ASSUME NEW q \in Requests, FinalizeWait(q)
      PROVE  SharedInv'
  BY <1>4 DEF FinalizeWait, Restamp, Parked, IInv, SharedInv, SharedIsSettled,
      Held, LockInv, Busy, At
<1>5. ASSUME NEW q \in Requests, FinalizeShare(q)
      PROVE  SharedInv'

  <2>1. UNCHANGED Held /\ parent' = "transfer"
    BY <1>5 DEF FinalizeShare, Held
  <2>2. \A g \in Held : upload'[g] = "landed" /\ scan'[g] \in Released
    BY <1>5, HeldFacts DEF FinalizeShare, At, SetScan, Released, IInv, PollInv
  <2>3. key' = linkKey'
    BY <1>5 DEF FinalizeShare, At, Parked, IInv, PollInv, KeyAllowed
  <2>. QED
    BY <2>1, <2>2, <2>3 DEF SharedInv, SharedIsSettled
<1>6. ASSUME NEW q \in Requests, RescanBegin(q)
      PROVE  SharedInv'
  BY <1>6 DEF RescanBegin, IInv, SharedInv, SharedIsSettled, Held
<1>7. ASSUME NEW q \in Requests, RescanEnd(q)
      PROVE  SharedInv'
  BY <1>7 DEF RescanEnd, SetScan, Restamp, IInv, SharedInv, SharedIsSettled,
      Held, LockInv, Busy, At
<1>8. ASSUME NEW q \in Requests, NEW f \in Files, Send(q, f)
      PROVE  SharedInv'
  BY <1>8 DEF Send, More, Fault, IInv, SharedInv, SharedIsSettled, Held
<1>9. ASSUME NEW r \in Runs, ReapBegin(r) \/ ReapSend(r) \/ ReapRefused(r)
      PROVE  SharedInv'
  BY <1>9 DEF ReapBegin, ReapSend, More, ReapRefused, GiveBack, Fault, IInv,
      SharedInv, SharedIsSettled, Held
<1>10. ASSUME NEW r \in Runs, NEW f \in Files, ReapClaim(r, f)
      PROVE  SharedInv'
  BY <1>10 DEF ReapClaim, Restamp, IInv, SharedInv, SharedIsSettled, Held
<1>11. ASSUME NEW f \in Files,
             Deliver(f) \/ Post(f) \/ PostFails(f) \/ LoseJob(f) \/ Lapse(f)
      PROVE  SharedInv'
  BY <1>11 DEF Deliver, Fewer, More, Post, PostFails, Fault, LoseJob, Lapse,
      IInv, SharedInv, SharedIsSettled, Held
<1>12. ASSUME NEW f \in Files, NEW v \in Results, Callback(f, v)
      PROVE  SharedInv'
  BY <1>12 DEF Callback, Apply, SetScan, Fewer, IInv, SharedInv,
      SharedIsSettled, Held, TypeOK, Released
<1>13. ASSUME NEW a \in Actors, Die(a)
      PROVE  SharedInv'
  BY <1>13 DEF Die, Fault, IInv, SharedInv, SharedIsSettled, Held
<1>14. ASSUME UNCHANGED vars
      PROVE  SharedInv'
  BY <1>14 DEF vars, IInv, SharedInv, SharedIsSettled, Held
<1>. QED
  BY <1>1, <1>2, <1>3, <1>4, <1>5, <1>6, <1>7, <1>8, <1>9, <1>10, <1>11,
     <1>12, <1>13, <1>14 DEF Next, DraftStep, RequestStep, RequestContinues,
     RunStep, ScanStep

\* What was worth reading.
LEMMA ReadInvNext ==
    ASSUME IInv, [Next]_vars
    PROVE  ReadInv'
<1> USE DEF row, doc, work
<1>1. ASSUME NEW f \in Files,
             AddFile(f) \/ CompleteUpload(f) \/ Deliver(f)
             \/ Post(f) \/ PostFails(f) \/ LoseJob(f) \/ Lapse(f)
      PROVE  ReadInv'
  BY <1>1 DEF AddFile, CompleteUpload, SetScan, Deliver, Fewer, More, Post,
      PostFails, Fault, LoseJob, Lapse, IInv, ReadInv
<1>2. ASSUME NEW f \in Files, NEW v \in Results, Callback(f, v)
      PROVE  ReadInv'
  BY <1>2 DEF Callback, Apply, SetScan, Fewer, IInv, ReadInv
<1>3. ASSUME NEW f \in Files, RemoveFile(f)
      PROVE  ReadInv'
  BY <1>3 DEF RemoveFile, IInv, ReadInv
<1>4. ASSUME DropDraft
      PROVE  ReadInv'
  BY <1>4 DEF DropDraft, IInv, ReadInv
<1>5. ASSUME NEW q \in Requests, NEW k \in Keys \cup {None},
             FinalizeBegin(q, k)
      PROVE  ReadInv'

  <2>1. /\ job'[q].at \in {"waiting", "sharing"}
        /\ \A b \in Actors \ {q} : job'[b] = job[b]
    BY <1>5, FinalizeJob, Roles DEF IInv
  <2>. QED
    BY <2>1, Roles DEF IInv, ReadInv
<1>6. ASSUME NEW q \in Requests, FinalizeWait(q)
      PROVE  ReadInv'

  <2>1. job[q].todo \in SUBSET Files /\ q \in Actors
    BY Roles DEF IInv, TypeOK, Jobs
  <2>. QED
    BY <1>6, <2>1, CommitJob, Roles DEF FinalizeWait, IInv, ReadInv
<1>7. ASSUME NEW q \in Requests, FinalizeShare(q)
      PROVE  ReadInv'
  BY <1>7, EndJob, IdleFields, Roles DEF FinalizeShare, SetScan, Parked, IInv,
      ReadInv
<1>8. ASSUME NEW q \in Requests, RescanBegin(q)
      PROVE  ReadInv'

  <2>1. /\ job'[q].todo = Rescannable
        /\ \A f \in Rescannable : job'[q].seenScan[f] = scan[f]
        /\ \A b \in Actors \ {q} : job'[b] = job[b]
    BY <1>8, RescanJob, HeldFacts, Roles DEF Begun, Held, IInv
  <2>2. \A f \in Rescannable : scan[f] \in {"pending", "error_transient"}
    BY DEF Rescannable
  <2>. QED
    BY <2>1, <2>2, Roles DEF IInv, ReadInv
<1>9. ASSUME NEW q \in Requests, RescanEnd(q)
      PROVE  ReadInv'

  <2>1. Claimed(q) \in SUBSET Files /\ q \in Actors
    BY Roles DEF IInv, TypeOK, Jobs, Claimed
  <2>. QED
    BY <1>9, <2>1, CommitJob, Roles DEF RescanEnd, IInv, ReadInv
<1>10. ASSUME NEW q \in Requests, NEW f \in Files, Send(q, f)
      PROVE  ReadInv'

  <2>1. job[q].todo \ {f} \in SUBSET Files /\ q \in Actors
    BY Roles DEF IInv, TypeOK, Jobs
  <2>. QED
    BY <1>10, <2>1, CommitJob, EndJob, IdleFields, Roles DEF Send, IInv, ReadInv
<1>11. ASSUME NEW r \in Runs, ReapBegin(r)
      PROVE  ReadInv'

  <2>1. /\ job'[r].todo = Stale
        /\ \A f \in Stale : job'[r].seenStamp[f] = stamp[f]
        /\ \A b \in Actors \ {r} : job'[b] = job[b]
    BY <1>11, ReapJob, HeldFacts, Roles DEF Begun, IInv
  <2>2. \A f \in Stale : stamp[f] # None
    BY DEF Stale
  <2>. QED
    BY <2>1, <2>2, Roles DEF IInv, ReadInv
<1>12. ASSUME NEW r \in Runs, NEW f \in Files, ReapClaim(r, f)
      PROVE  ReadInv'
  BY <1>12, ClaimJob, NextStaleJob, IdleFields, Roles DEF ReapClaim, Restamp,
      IInv, ReadInv, At
<1>13. ASSUME NEW r \in Runs, ReapSend(r)
      PROVE  ReadInv'

  <2>1. r \in Actors /\ job[r].file \in Files
    BY <1>13, Roles DEF ReapSend, At, IInv, ClockInv, TypeOK, Jobs
  <2>. QED
    BY <1>13, <2>1, NextStaleJob, IdleFields, Roles DEF ReapSend, At, IInv, ReadInv
<1>14. ASSUME NEW r \in Runs, ReapRefused(r)
      PROVE  ReadInv'
  BY <1>14, EndJob, IdleFields, Roles DEF ReapRefused, GiveBack, More, Fault,
      IInv, ReadInv
<1>15. ASSUME NEW a \in Actors, Die(a)
      PROVE  ReadInv'
  BY <1>15, EndJob, IdleFields, Roles DEF Die, Fault, IInv, ReadInv
<1>16. ASSUME UNCHANGED vars
      PROVE  ReadInv'
  BY <1>16 DEF vars, IInv, ReadInv
<1>. QED
  BY <1>1, <1>2, <1>3, <1>4, <1>5, <1>6, <1>7, <1>8, <1>9, <1>10, <1>11,
     <1>12, <1>13, <1>14, <1>15, <1>16 DEF Next, DraftStep, RequestStep,
     RequestContinues, RunStep, ScanStep

\* ClockInv survives an actor that forgets, and rows stamped with times that no
\* actor is about to write there.
LEMMA ClockJob ==
    ASSUME TypeOK, ClockInv, NEW x \in Actors,
           \A b \in Actors \ {x} : job'[b] = job[b],
           job'[x].now \in {None, job[x].now},
           \A f \in Files : job'[x].seenStamp[f] \in {None, job[x].seenStamp[f]},
           /\ job'[x].at \in {"rescanning", "reaping", "claimed"} => job'[x].now # None
           /\ job'[x].at \in {"rescanning", "reaping"} => job'[x].file = None
           /\ job'[x].at = "claimed" => job'[x].file \in job'[x].todo
           /\ job'[x].now # None =>
                 job'[x].todo \ {job'[x].file} \subseteq job[x].todo \ {job[x].file},
           \A f \in Files : stamp'[f] # stamp[f] => \A a \in Actors :
                 job'[a].now # None /\ f \in job'[a].todo \ {job'[a].file}
                     => stamp'[f] # job'[a].now
    PROVE  ClockInv'
<1>1. \A a \in Actors :
        /\ job'[a].now \in {None, job[a].now}
        /\ \A f \in Files : job'[a].seenStamp[f] \in {None, job[a].seenStamp[f]}
        /\ job'[a].now # None =>
              job'[a].todo \ {job'[a].file} \subseteq job[a].todo \ {job[a].file}
  OBVIOUS
<1>2. \A a \in Actors :
        /\ job'[a].at \in {"rescanning", "reaping", "claimed"} => job'[a].now # None
        /\ job'[a].at \in {"rescanning", "reaping"} => job'[a].file = None
        /\ job'[a].at = "claimed" => job'[a].file \in job'[a].todo
  BY DEF ClockInv
<1>3. ASSUME NEW a \in Actors, job'[a].now # None
      PROVE  /\ \A b \in Actors : job'[b].now = job'[a].now => b = a
             /\ \A f \in job'[a].todo \ {job'[a].file} :
                   /\ stamp'[f] # job'[a].now
                   /\ \A b \in Actors : job'[b].seenStamp[f] # job'[a].now
  <2>1. job'[a].now = job[a].now /\ job[a].now # None
    BY <1>1, <1>3
  <2>2. \A b \in Actors : job'[b].now = job'[a].now => b = a
    BY <1>1, <2>1, <1>3 DEF ClockInv
  <2>3. ASSUME NEW f \in job'[a].todo \ {job'[a].file}
        PROVE  /\ stamp'[f] # job'[a].now
               /\ \A b \in Actors : job'[b].seenStamp[f] # job'[a].now
    <3>1. f \in job[a].todo \ {job[a].file} /\ f \in Files
      BY <1>1, <1>3 DEF TypeOK, Jobs
    <3>2. stamp[f] # job[a].now /\ \A b \in Actors : job[b].seenStamp[f] # job[a].now
      BY <2>1, <3>1 DEF ClockInv, Untouched
    <3>. QED
      BY <1>1, <1>3, <2>1, <3>1, <3>2
  <2>. QED
    BY <2>2, <2>3
<1>. QED
  BY <1>2, <1>3 DEF ClockInv, Untouched

\* ... and one that reads the time.
LEMMA ClockBegun ==
    ASSUME TypeOK, ClockInv, NEW x \in Actors, NEW l \in {"rescanning", "reaping"},
           NEW F \in SUBSET Files, Begun(x, l, F), UNCHANGED stamp
    PROVE  ClockInv'
<1>1. /\ \A f \in Files : stamp[f] # job'[x].now
      /\ \A b \in Actors : job[b].now # job'[x].now
      /\ \A b \in Actors, f \in Files : job[b].seenStamp[f] # job'[x].now
  BY DEF Begun, Fresh
<1>2. /\ job'[x].now # None /\ job'[x].file = None /\ job'[x].todo = F /\ job'[x].at = l
      /\ \A f \in Files : job'[x].seenStamp[f] \in {None, stamp[f]}
      /\ \A b \in Actors \ {x} : job'[b] = job[b]
  BY Roles DEF Begun
<1>3. ASSUME NEW a \in Actors, job'[a].now # None
      PROVE  /\ \A b \in Actors : job'[b].now = job'[a].now => b = a
             /\ \A f \in job'[a].todo \ {job'[a].file} :
                   /\ stamp'[f] # job'[a].now
                   /\ \A b \in Actors : job'[b].seenStamp[f] # job'[a].now
  <2>1. CASE a = x
    BY <1>1, <1>2, <2>1
  <2>2. CASE a # x
    <3>1. job'[a] = job[a] /\ job[a].todo \subseteq Files
      BY <1>2, <2>2 DEF TypeOK, Jobs
    <3>2. /\ \A b \in Actors : job[b].now = job[a].now => b = a
          /\ \A f \in job[a].todo \ {job[a].file} :
                /\ stamp[f] # job[a].now
                /\ \A b \in Actors : job[b].seenStamp[f] # job[a].now
      BY <1>3, <3>1 DEF ClockInv, Untouched
    <3>. QED
      BY <1>1, <1>2, <1>3, <3>1, <3>2
  <2>. QED
    BY <2>1, <2>2
<1>4. \A a \in Actors :
        /\ job'[a].at \in {"rescanning", "reaping", "claimed"} => job'[a].now # None
        /\ job'[a].at \in {"rescanning", "reaping"} => job'[a].file = None
        /\ job'[a].at = "claimed" => job'[a].file \in job'[a].todo
  BY <1>2 DEF ClockInv
<1>. QED
  BY <1>3, <1>4 DEF ClockInv, Untouched

\* No claim writes a stamp that somebody remembers.
LEMMA ClockInvNext ==
    ASSUME IInv, [Next]_vars
    PROVE  ClockInv'
<1> USE DEF row, doc, work
<1>1. ASSUME NEW f \in Files,
             AddFile(f) \/ CompleteUpload(f) \/ Deliver(f)
             \/ Post(f) \/ PostFails(f) \/ LoseJob(f) \/ Lapse(f)
      PROVE  ClockInv'
  BY <1>1 DEF AddFile, CompleteUpload, SetScan, Deliver, Fewer, More, Post,
      PostFails, Fault, LoseJob, Lapse, IInv, ClockInv, Untouched
<1>2. ASSUME NEW f \in Files, NEW v \in Results, Callback(f, v)
      PROVE  ClockInv'
  BY <1>2 DEF Callback, Apply, SetScan, Fewer, IInv, ClockInv, Untouched
<1>3. ASSUME NEW f \in Files, RemoveFile(f)
      PROVE  ClockInv'
  BY <1>3 DEF RemoveFile, IInv, ClockInv, Untouched
<1>4. ASSUME DropDraft
      PROVE  ClockInv'
  BY <1>4 DEF DropDraft, IInv, ClockInv, Untouched
<1>5. ASSUME NEW q \in Requests, NEW k \in Keys \cup {None},
             FinalizeBegin(q, k)
      PROVE  ClockInv'

  <2>1. q \in Actors /\ UNCHANGED stamp
    BY <1>5, Roles DEF FinalizeBegin
  <2>. QED
    BY <1>5, <2>1, FinalizeJob, ClockJob DEF IInv
<1>6. ASSUME NEW q \in Requests, FinalizeWait(q)
      PROVE  ClockInv'

  <2>1. job[q].todo \in SUBSET Files /\ q \in Actors
    BY Roles DEF IInv, TypeOK, Jobs
  <2>2. PICK s \in Stamps : Fresh(s) /\ Restamp(job[q].todo, s)
    BY <1>6 DEF FinalizeWait
  <2>3. \A a \in Actors : s # job[a].now /\ \A f \in Files : s # job[a].seenStamp[f]
    BY <2>2 DEF Fresh
  <2>4. /\ job'[q].at \in {"idle", "sending"} /\ job'[q].now = None
        /\ \A f \in Files : job'[q].seenStamp[f] = None
        /\ \A b \in Actors \ {q} : job'[b] = job[b]
    BY <1>6, <2>1, CommitJob DEF FinalizeWait, IInv

  <2>5. \A f \in Files : stamp'[f] # stamp[f] => stamp'[f] = s
    BY <2>2 DEF Restamp
  <2>6. \A a \in Actors : job'[a].now \in {None, job[a].now}
    BY <2>4
  <2>. QED
    BY <2>1, <2>3, <2>4, <2>5, <2>6, ClockJob DEF IInv
<1>7. ASSUME NEW q \in Requests, FinalizeShare(q)
      PROVE  ClockInv'

  <2>1. q \in Actors /\ UNCHANGED stamp
    BY <1>7, Roles DEF FinalizeShare
  <2>2. job'[q] = Idle /\ \A b \in Actors \ {q} : job'[b] = job[b]
    BY <1>7, <2>1, EndJob DEF FinalizeShare, IInv
  <2>. QED
    BY <2>1, <2>2, IdleFields, ClockJob DEF IInv
<1>8. ASSUME NEW q \in Requests, RescanBegin(q)
      PROVE  ClockInv'

  <2>1. q \in Actors /\ Begun(q, "rescanning", Rescannable) /\ UNCHANGED stamp /\ UNCHANGED late
    BY <1>8, Roles, RescanJob DEF RescanBegin, IInv
  <2>2. Rescannable \in SUBSET Files
    BY HeldFacts DEF Held

  <2>. QED
    BY <2>1, <2>2, ClockBegun DEF IInv
<1>9. ASSUME NEW q \in Requests, RescanEnd(q)
      PROVE  ClockInv'

  <2>1. /\ Claimed(q) \in SUBSET Files /\ q \in Actors /\ Claimed(q) \subseteq job[q].todo
        /\ job[q].at = "rescanning"
    BY <1>9, Roles DEF IInv, TypeOK, Jobs, Claimed, RescanEnd, At
  <2>2. /\ job'[q].at \in {"idle", "sending"} /\ job'[q].now = None
        /\ \A f \in Files : job'[q].seenStamp[f] = None
        /\ \A b \in Actors \ {q} : job'[b] = job[b]
    BY <1>9, <2>1, CommitJob DEF RescanEnd, IInv
  <2>3. job[q].now # None /\ job[q].file = None
    BY <2>1 DEF IInv, ClockInv
  <2>4. /\ \A b \in Actors : job[b].now = job[q].now => b = q
        /\ \A f \in Claimed(q), b \in Actors : job[b].seenStamp[f] # job[q].now
    BY <2>1, <2>3, Roles DEF IInv, ClockInv, Untouched, TypeOK
  <2> HIDE DEF Claimed
  <2>5. \A f \in Files : /\ f \in Claimed(q) => stamp'[f] = job[q].now
                         /\ f \notin Claimed(q) => stamp'[f] = stamp[f]
    BY <1>9 DEF RescanEnd, Restamp

  <2>6. \A f \in Files : stamp'[f] # stamp[f] => \A a \in Actors :
           job'[a].now # None => stamp'[f] # job'[a].now
    BY <2>1, <2>2, <2>4, <2>5
  <2>. QED
    BY <2>1, <2>2, <2>6, ClockJob DEF IInv
<1>10. ASSUME NEW q \in Requests, NEW f \in Files, Send(q, f)
      PROVE  ClockInv'

  <2>1. job[q].todo \ {f} \in SUBSET Files /\ q \in Actors /\ UNCHANGED stamp
    BY <1>10, Roles DEF IInv, TypeOK, Jobs, Send
  <2>2. /\ job'[q].at \in {"idle", "sending"} /\ job'[q].now = None
        /\ \A g \in Files : job'[q].seenStamp[g] = None
        /\ \A b \in Actors \ {q} : job'[b] = job[b]
    BY <1>10, <2>1, CommitJob, EndJob, IdleFields DEF Send, IInv
  <2>. QED
    BY <2>1, <2>2, ClockJob DEF IInv
<1>11. ASSUME NEW r \in Runs, ReapBegin(r)
      PROVE  ClockInv'

  <2>1. r \in Actors /\ Begun(r, "reaping", Stale) /\ UNCHANGED stamp /\ UNCHANGED late
    BY <1>11, Roles, ReapJob DEF ReapBegin, IInv
  <2>2. Stale \in SUBSET Files
    BY HeldFacts DEF Held

  <2>. QED
    BY <2>1, <2>2, ClockBegun DEF IInv
<1>12. ASSUME NEW r \in Runs, NEW f \in Files, ReapClaim(r, f)
      PROVE  ClockInv'

  <2>1. /\ r \in Actors /\ job[r].at = "reaping" /\ f \in job[r].todo
        /\ job[r].now # None /\ job[r].file = None
    BY <1>12, Roles DEF ReapClaim, At, IInv, ClockInv
  <2>2. /\ \A b \in Actors : job[b].now = job[r].now => b = r
        /\ \A b \in Actors : job[b].seenStamp[f] # job[r].now
    BY <2>1, Roles DEF IInv, ClockInv, Untouched

  <2>3. CASE Unchanged(r, f)
    <3>1. /\ job'[r].at = "claimed" /\ job'[r].file = f
          /\ job'[r].todo = job[r].todo /\ job'[r].now = job[r].now
          /\ job'[r].seenStamp = job[r].seenStamp
          /\ \A b \in Actors \ {r} : job'[b] = job[b]
      BY <1>12, <2>1, <2>3, ClaimJob DEF ReapClaim, IInv
    <3>2. \A g \in Files : stamp'[g] # stamp[g] => g = f /\ stamp'[g] = job[r].now
      BY <1>12, <2>3 DEF ReapClaim, Restamp
    <3>3. \A g \in Files : stamp'[g] # stamp[g] => \A a \in Actors :
             job'[a].now # None /\ g \in job'[a].todo \ {job'[a].file}
                 => stamp'[g] # job'[a].now
      BY <2>1, <2>2, <3>1, <3>2
    <3>4. /\ job'[r].todo \ {job'[r].file} \subseteq job[r].todo \ {job[r].file}
          /\ job'[r].file \in job'[r].todo
          /\ job'[r].now = job[r].now /\ job'[r].now # None
          /\ job'[r].at \notin {"rescanning", "reaping"}
          /\ \A g \in Files : job'[r].seenStamp[g] = job[r].seenStamp[g]
      BY <2>1, <3>1, Roles DEF IInv, TypeOK, Jobs
    <3>5. \A b \in Actors \ {r} : job'[b] = job[b]
      BY <3>1
    <3>. QED
      BY <2>1, <3>3, <3>4, <3>5, ClockJob DEF IInv
  <2>4. CASE ~Unchanged(r, f)
    <3>1. NextStale(r, f) /\ UNCHANGED stamp
      BY <1>12, <2>4 DEF ReapClaim
    <3>. QED
      BY <2>1, <3>1, NextStaleJob, IdleFields, ClockJob DEF IInv
  <2>. QED
    BY <2>3, <2>4
<1>13. ASSUME NEW r \in Runs, ReapSend(r)
      PROVE  ClockInv'

  <2>1. /\ r \in Actors /\ job[r].file \in Files /\ job[r].now # None
        /\ UNCHANGED stamp /\ NextStale(r, job[r].file)
    BY <1>13, Roles DEF ReapSend, At, IInv, ClockInv, TypeOK, Jobs
  <2>. QED
    BY <2>1, NextStaleJob, IdleFields, ClockJob, Roles DEF IInv
<1>14. ASSUME NEW r \in Runs, ReapRefused(r)
      PROVE  ClockInv'

  <2>1. /\ r \in Actors /\ job[r].file \in job[r].todo /\ job[r].now # None
        /\ job[r].file \in Files
    BY <1>14, Roles DEF ReapRefused, At, IInv, ClockInv, TypeOK, Jobs
  <2>2. /\ job'[r] = Idle /\ \A b \in Actors \ {r} : job'[b] = job[b]
    BY <1>14, <2>1, EndJob DEF ReapRefused, IInv

  <2>3. \A g \in Files : stamp'[g] # stamp[g] =>
           g = job[r].file /\ stamp'[g] = job[r].seenStamp[g]
    BY <1>14, <2>1 DEF ReapRefused, GiveBack, IInv, TypeOK
  <2>4. \A g \in Files : stamp'[g] # stamp[g] => \A a \in Actors :
           job'[a].now # None /\ g \in job'[a].todo \ {job'[a].file}
               => stamp'[g] # job'[a].now
    BY <2>1, <2>2, <2>3, IdleFields DEF IInv, ClockInv, Untouched
  <2>. QED
    BY <2>1, <2>2, <2>4, IdleFields, ClockJob DEF IInv
<1>15. ASSUME NEW a \in Actors, Die(a)
      PROVE  ClockInv'

  <2>1. job'[a] = Idle /\ UNCHANGED stamp /\ \A b \in Actors \ {a} : job'[b] = job[b]
    BY <1>15, EndJob DEF Die, IInv
  <2>. QED
    BY <2>1, IdleFields, ClockJob DEF IInv
<1>16. ASSUME UNCHANGED vars
      PROVE  ClockInv'
  BY <1>16 DEF vars, IInv, ClockInv, Untouched
<1>. QED
  BY <1>1, <1>2, <1>3, <1>4, <1>5, <1>6, <1>7, <1>8, <1>9, <1>10, <1>11,
     <1>12, <1>13, <1>14, <1>15, <1>16 DEF Next, DraftStep, RequestStep,
     RequestContinues, RunStep, ScanStep

\* What an actor still remembers of a row is still past its budget.
LEMMA SnapInvNext ==
    ASSUME IInv, [Next]_vars
    PROVE  SnapInv'
<1> USE DEF row, doc, work
<1>1. ASSUME NEW f \in Files,
             AddFile(f) \/ CompleteUpload(f) \/ Deliver(f)
             \/ Post(f) \/ PostFails(f) \/ LoseJob(f) \/ Lapse(f)
      PROVE  SnapInv'
  BY <1>1 DEF AddFile, CompleteUpload, SetScan, Deliver, Fewer, More, Post,
      PostFails, Fault, LoseJob, Lapse, IInv, SnapInv
<1>2. ASSUME NEW f \in Files, NEW v \in Results, Callback(f, v)
      PROVE  SnapInv'
  BY <1>2 DEF Callback, Apply, SetScan, Fewer, IInv, SnapInv
<1>3. ASSUME NEW f \in Files, RemoveFile(f)
      PROVE  SnapInv'
  BY <1>3 DEF RemoveFile, IInv, SnapInv
<1>4. ASSUME DropDraft
      PROVE  SnapInv'
  BY <1>4 DEF DropDraft, IInv, SnapInv
<1>5. ASSUME NEW q \in Requests, NEW k \in Keys \cup {None},
             FinalizeBegin(q, k)
      PROVE  SnapInv'

  <2>1. q \in Actors
    BY Roles
  <2>. QED
    BY <1>5, <2>1, FinalizeJob DEF FinalizeBegin, IInv, SnapInv
<1>6. ASSUME NEW q \in Requests, FinalizeWait(q)
      PROVE  SnapInv'

  <2>1. job[q].todo \in SUBSET Files /\ q \in Actors
    BY Roles DEF IInv, TypeOK, Jobs
  <2>2. PICK s \in Stamps : Fresh(s) /\ Restamp(job[q].todo, s)
    BY <1>6 DEF FinalizeWait
  <2>3. \A a \in Actors : s # job[a].now /\ \A f \in Files : s # job[a].seenStamp[f]
    BY <2>2 DEF Fresh
  <2>4. /\ job'[q].at \in {"idle", "sending"} /\ job'[q].now = None
        /\ \A f \in Files : job'[q].seenStamp[f] = None
        /\ \A b \in Actors \ {q} : job'[b] = job[b]
    BY <1>6, <2>1, CommitJob DEF FinalizeWait, IInv

  <2>5. \A f \in Files : \/ f \in job[q].todo /\ stamp'[f] = s
                         \/ stamp'[f] = stamp[f] /\ (f \in late => f \in late')
    BY <2>2 DEF Restamp
  <2>. QED
    BY <2>1, <2>3, <2>4, <2>5 DEF IInv, SnapInv
<1>7. ASSUME NEW q \in Requests, FinalizeShare(q)
      PROVE  SnapInv'

  <2>1. q \in Actors
    BY Roles
  <2>. QED
    BY <1>7, <2>1, EndJob, IdleFields DEF FinalizeShare, IInv, SnapInv
<1>8. ASSUME NEW q \in Requests, RescanBegin(q)
      PROVE  SnapInv'

  <2>1. q \in Actors /\ Begun(q, "rescanning", Rescannable) /\ UNCHANGED stamp /\ UNCHANGED late
    BY <1>8, Roles, RescanJob DEF RescanBegin, IInv
  <2>2. Rescannable \in SUBSET Files
    BY HeldFacts DEF Held

  <2>3. \A f \in Rescannable :
           stamp[f] # None /\ scan[f] # "error_transient" => f \in late
    BY DEF Rescannable
  <2>. QED
    BY <2>1, <2>2, <2>3 DEF Begun, IInv, SnapInv
<1>9. ASSUME NEW q \in Requests, RescanEnd(q)
      PROVE  SnapInv'

  <2>1. /\ Claimed(q) \in SUBSET Files /\ q \in Actors /\ Claimed(q) \subseteq job[q].todo
        /\ job[q].at = "rescanning"
    BY <1>9, Roles DEF IInv, TypeOK, Jobs, Claimed, RescanEnd, At
  <2>2. /\ job'[q].at \in {"idle", "sending"} /\ job'[q].now = None
        /\ \A f \in Files : job'[q].seenStamp[f] = None
        /\ \A b \in Actors \ {q} : job'[b] = job[b]
    BY <1>9, <2>1, CommitJob DEF RescanEnd, IInv
  <2>3. job[q].now # None /\ job[q].file = None
    BY <2>1 DEF IInv, ClockInv
  <2>4. /\ \A b \in Actors : job[b].now = job[q].now => b = q
        /\ \A f \in Claimed(q), b \in Actors : job[b].seenStamp[f] # job[q].now
    BY <2>1, <2>3, Roles DEF IInv, ClockInv, Untouched, TypeOK
  <2> HIDE DEF Claimed
  <2>5. \A f \in Files : /\ f \in Claimed(q) => stamp'[f] = job[q].now
                         /\ f \notin Claimed(q) => stamp'[f] = stamp[f]
    BY <1>9 DEF RescanEnd, Restamp

  <2>6. \A f \in Files : f \notin Claimed(q) => (f \in late => f \in late')
    BY <1>9 DEF RescanEnd, Restamp
  <2>. QED
    BY <2>1, <2>2, <2>4, <2>5, <2>6 DEF IInv, SnapInv
<1>10. ASSUME NEW q \in Requests, NEW f \in Files, Send(q, f)
      PROVE  SnapInv'

  <2>1. job[q].todo \ {f} \in SUBSET Files /\ q \in Actors
    BY <1>10, Roles DEF IInv, TypeOK, Jobs
  <2>2. /\ job'[q].at \in {"idle", "sending"}
        /\ \A b \in Actors \ {q} : job'[b] = job[b]
    BY <1>10, <2>1, CommitJob, EndJob, IdleFields DEF Send, IInv
  <2>. QED
    BY <1>10, <2>1, <2>2 DEF Send, IInv, SnapInv
<1>11. ASSUME NEW r \in Runs, ReapBegin(r)
      PROVE  SnapInv'

  <2>1. r \in Actors /\ Begun(r, "reaping", Stale) /\ UNCHANGED stamp /\ UNCHANGED late
    BY <1>11, Roles, ReapJob DEF ReapBegin, IInv
  <2>2. Stale \in SUBSET Files
    BY HeldFacts DEF Held

  <2>3. Stale \subseteq late
    BY DEF Stale
  <2>. QED
    BY <2>1, <2>2, <2>3 DEF Begun, IInv, SnapInv
<1>12. ASSUME NEW r \in Runs, NEW f \in Files, ReapClaim(r, f)
      PROVE  SnapInv'

  <2>1. /\ r \in Actors /\ job[r].at = "reaping" /\ f \in job[r].todo
        /\ job[r].now # None /\ job[r].file = None
    BY <1>12, Roles DEF ReapClaim, At, IInv, ClockInv
  <2>2. /\ \A b \in Actors : job[b].now = job[r].now => b = r
        /\ \A b \in Actors : job[b].seenStamp[f] # job[r].now
    BY <2>1, Roles DEF IInv, ClockInv, Untouched

  <2>3. CASE Unchanged(r, f)
    <3>1. /\ job'[r].todo = job[r].todo
          /\ job'[r].seenStamp = job[r].seenStamp /\ job'[r].seenScan = job[r].seenScan
          /\ \A b \in Actors \ {r} : job'[b] = job[b]
      BY <1>12, <2>1, <2>3, ClaimJob DEF ReapClaim, IInv
    <3>2. /\ stamp'[f] = job[r].now
          /\ \A g \in Files \ {f} : stamp'[g] = stamp[g] /\ (g \in late => g \in late')
      BY <1>12, <2>3 DEF ReapClaim, Restamp
    <3>. QED
      BY <2>1, <2>2, <3>1, <3>2 DEF IInv, SnapInv
  <2>4. CASE ~Unchanged(r, f)
    <3>1. NextStale(r, f) /\ UNCHANGED <<stamp, late>>
      BY <1>12, <2>4 DEF ReapClaim
    <3>. QED
      BY <2>1, <3>1, NextStaleJob, IdleFields DEF IInv, SnapInv
  <2>. QED
    BY <2>3, <2>4
<1>13. ASSUME NEW r \in Runs, ReapSend(r)
      PROVE  SnapInv'

  <2>1. /\ r \in Actors /\ job[r].file \in Files /\ job[r].at = "claimed"
        /\ UNCHANGED <<stamp, late>> /\ NextStale(r, job[r].file)
    BY <1>13, Roles DEF ReapSend, At, IInv, ClockInv, TypeOK, Jobs
  <2>. QED
    BY <2>1, NextStaleJob, IdleFields DEF IInv, SnapInv
<1>14. ASSUME NEW r \in Runs, ReapRefused(r)
      PROVE  SnapInv'

  <2>1. /\ r \in Actors /\ job[r].file \in job[r].todo /\ job[r].now # None
        /\ job[r].file \in Files
    BY <1>14, Roles DEF ReapRefused, At, IInv, ClockInv, TypeOK, Jobs
  <2>2. /\ job'[r] = Idle /\ \A b \in Actors \ {r} : job'[b] = job[b]
    BY <1>14, <2>1, EndJob DEF ReapRefused, IInv

  <2>3. \A g \in Files : (stamp'[g] = stamp[g] \/ g \in late') /\ (g \in late => g \in late')
    BY <1>14, <2>1 DEF ReapRefused, GiveBack, IInv, TypeOK
  <2>. QED
    BY <2>2, <2>3, IdleFields DEF IInv, SnapInv
<1>15. ASSUME NEW a \in Actors, Die(a)
      PROVE  SnapInv'

  <2>1. job'[a] = Idle /\ UNCHANGED <<stamp, late>>
        /\ \A b \in Actors \ {a} : job'[b] = job[b]
    BY <1>15, EndJob DEF Die, IInv
  <2>. QED
    BY <2>1, IdleFields DEF IInv, SnapInv
<1>16. ASSUME UNCHANGED vars
      PROVE  SnapInv'
  BY <1>16 DEF vars, IInv, SnapInv
<1>. QED
  BY <1>1, <1>2, <1>3, <1>4, <1>5, <1>6, <1>7, <1>8, <1>9, <1>10, <1>11,
     <1>12, <1>13, <1>14, <1>15, <1>16 DEF Next, DraftStep, RequestStep,
     RequestContinues, RunStep, ScanStep

-----------------------------------------------------------------------------
(* Theorems.                                                               *)

LEMMA InitInv == Init => IInv
<1> SUFFICES ASSUME Init PROVE IInv
  OBVIOUS
<1>1. \A a \in Actors : job[a] = Idle
  BY DEF Init
<1>2. TypeOK
  BY IdleFields, Roles DEF Init, TypeOK, ScanStatuses
<1>3. LockInv /\ PollInv /\ ReadInv
  BY <1>1, IdleFields, Roles DEF LockInv, PollInv, ReadInv, Busy
<1>4. FileInv /\ KeyInv /\ SharedInv
  BY DEF Init, FileInv, KeyInv, SharedInv, SharedIsSettled, Held
<1>5. ClockInv /\ SnapInv
  BY <1>1, IdleFields DEF ClockInv, SnapInv, Untouched
<1>. QED
  BY <1>2, <1>3, <1>4, <1>5 DEF IInv

\* The inductive invariant holds in every reachable state.
THEOREM Inductive == Spec => []IInv
<1>1. IInv /\ [Next]_vars => IInv'
  BY TypeOKNext, LockInvNext, FileInvNext, KeyInvNext, PollInvNext, SharedInvNext,
     ClockInvNext, SnapInvNext, ReadInvNext DEF IInv
<1>. QED
  BY InitInv, <1>1, PTL DEF Spec

\* Rows, messages, jobs and local variables stay within their types.
THEOREM TypeCorrect == Spec => []TypeOK
<1>1. IInv => TypeOK
  BY DEF IInv
<1>. QED
  BY <1>1, Inductive, PTL

\* The files of a transfer are complete and released, for good.
THEOREM SharedSettled == Spec => []SharedIsSettled
<1>1. IInv => SharedIsSettled
  BY DEF IInv, SharedInv
<1>. QED
  BY <1>1, Inductive, PTL

\* One key per transfer, and none of a confidential one ever left the backend.
THEOREM SharedOneKey == Spec => []SharedUnderOneKey
<1>1. IInv => SharedUnderOneKey
  BY DEF IInv, SharedInv, KeyInv, SharedUnderOneKey
<1>. QED
  BY <1>1, Inductive, PTL

\* Polls, rescans and runs never re-arm a scan that is not known to be lost.
THEOREM ArmedWhenLost == Spec => ArmedOnlyWhenLost
<1>1. IInv /\ [Next]_vars =>
        [\A f \in Files : stamp'[f] # stamp[f] /\ f \notin late' =>
           stamp[f] = None \/ f \in late \/ scan[f] = "error_transient"]_vars
  <2> SUFFICES ASSUME IInv, [Next]_vars, NEW f \in Files,
                      stamp'[f] # stamp[f], f \notin late'
               PROVE  stamp[f] = None \/ f \in late \/ scan[f] = "error_transient"
    OBVIOUS
  <2> USE DEF row, doc, work
  <2>1. ASSUME NEW q \in Requests, FinalizeWait(q)
        PROVE  stamp[f] = None
    BY <2>1 DEF FinalizeWait, Restamp, At, IInv, PollInv
  <2>2. ASSUME NEW a \in Actors, f \in job[a].todo, Unchanged(a, f),
               job[a].at \in {"rescanning", "reaping"}
        PROVE  stamp[f] = None \/ f \in late \/ scan[f] = "error_transient"
    BY <2>2 DEF Unchanged, IInv, SnapInv
  <2>3. ASSUME NEW q \in Requests, RescanEnd(q)
        PROVE  f \in job[q].todo /\ Unchanged(q, f) /\ job[q].at = "rescanning"
    BY <2>3 DEF RescanEnd, Restamp, Claimed, At
  <2>4. ASSUME NEW r \in Runs, NEW g \in Files, ReapClaim(r, g)
        PROVE  f \in job[r].todo /\ Unchanged(r, f) /\ job[r].at = "reaping"
    BY <2>4 DEF ReapClaim, Restamp, At
  <2>5. ASSUME NEW r \in Runs, ReapRefused(r)
        PROVE  FALSE
    BY <2>5 DEF ReapRefused, GiveBack, IInv, TypeOK
  <2>6. ASSUME NEW q \in Requests, RequestStep(q)
        PROVE  FinalizeWait(q) \/ RescanEnd(q)
    BY <2>6 DEF RequestStep, RequestContinues, FinalizeBegin, FinalizeShare,
       RescanBegin, Send
  <2>7. ASSUME NEW r \in Runs, RunStep(r)
        PROVE  ReapRefused(r) \/ \E g \in Files : ReapClaim(r, g)
    BY <2>7 DEF RunStep, ReapBegin, ReapSend
  <2>8. ASSUME DraftStep PROVE FALSE
    BY <2>8 DEF DraftStep, DropDraft, AddFile, CompleteUpload, RemoveFile
  <2>9. ASSUME NEW g \in Files, ScanStep(g) \/ Lapse(g) PROVE FALSE
    BY <2>9 DEF ScanStep, Deliver, Post, PostFails, LoseJob, Callback, Lapse
  <2>10. ASSUME NEW a \in Actors, Die(a) PROVE FALSE
    BY <2>10 DEF Die
  <2>11. CASE UNCHANGED vars
    BY <2>11 DEF vars
  <2>. QED
    BY <2>1, <2>2, <2>3, <2>4, <2>5, <2>6, <2>7, <2>8, <2>9, <2>10, <2>11, Roles
       DEF Next
<1>. QED
  BY <1>1, Inductive, PTL DEF Spec, ArmedOnlyWhenLost

-----------------------------------------------------------------------------
(* Refinement.                                                             *)

LEMMA Classes ==
    /\ Class("pending") = "open" /\ Class("error_transient") = "retry"
    /\ \A s \in Released : Class(s) = "passed"
    /\ Class("infected") = "blocked" /\ Class("error_file") = "blocked"
BY DEF Class, Released

LEMMA GateFrame ==
    ASSUME UNCHANGED <<parent, upload, scan>>
    PROVE  UNCHANGED Gate!vars
BY DEF Gate!vars, Held, Verdict

LEMMA GateStep == IInv /\ [Next]_vars => [Gate!Next]_(Gate!vars)
<1> SUFFICES ASSUME IInv, [Next]_vars PROVE [Gate!Next]_(Gate!vars)
  OBVIOUS
<1> USE DEF row, doc, work
<1>1. ASSUME NEW f \in Files, AddFile(f) PROVE Gate!Attach(f)
  <2>1. /\ parent = "draft" /\ Verdict[f] = "open"
        /\ UNCHANGED <<parent, Verdict>>
    BY <1>1, Classes DEF AddFile, Verdict, IInv, FileInv
  <2>2. Held' = Held \cup {f}
    BY <1>1 DEF AddFile, Held, IInv, TypeOK
  <2>. QED
    BY <2>1, <2>2 DEF Gate!Attach
<1>2. ASSUME NEW f \in Files, CompleteUpload(f)
      PROVE  Gate!Decide(f, "passed") \/ UNCHANGED Gate!vars
  <2>1. /\ parent = "draft" /\ scan[f] = "pending" /\ upload[f] = "uploading"
        /\ UNCHANGED parent
    BY <1>2 DEF CompleteUpload, IInv, FileInv
  <2>2. UNCHANGED Held
    BY <1>2 DEF CompleteUpload, Held, IInv, TypeOK
  <2>3. CASE f \in Large
    <3>1. \A g \in Files : scan'[g] = IF g = f THEN "too_large" ELSE scan[g]
      BY <1>2, <2>3 DEF CompleteUpload, SetScan
    <3>2. Verdict[f] = "open" /\ Verdict' = [Verdict EXCEPT ![f] = "passed"]
      BY <2>1, <3>1, Classes DEF Verdict, Released
    <3>. QED
      BY <2>1, <2>2, <3>2 DEF Gate!Decide
  <2>4. CASE f \notin Large
    <3>1. \A g \in Files : scan'[g] = scan[g]
      BY <1>2, <2>4 DEF CompleteUpload, SetScan
    <3>2. UNCHANGED Verdict
      BY <3>1 DEF Verdict
    <3>. QED
      BY <2>1, <2>2, <3>2 DEF Gate!vars
  <2>. QED
    BY <2>3, <2>4
<1>3. ASSUME NEW f \in Files, RemoveFile(f) PROVE Gate!Withdraw(f)
  <2>1. /\ parent = "draft" /\ f \in Held /\ UNCHANGED Verdict
        /\ parent' = IF Held = {f} THEN "gone" ELSE "draft"
    BY <1>3 DEF RemoveFile, Verdict
  <2>2. Held' = Held \ {f}
    BY <1>3 DEF RemoveFile, Held, IInv, TypeOK
  <2>. QED
    BY <2>1, <2>2 DEF Gate!Withdraw
<1>4. ASSUME DropDraft PROVE Gate!Drop
  <2>1. parent = "draft" /\ parent' = "gone" /\ UNCHANGED Verdict
    BY <1>4 DEF DropDraft, Verdict
  <2>2. Held' = {}
    BY <1>4 DEF DropDraft, Held, IInv, TypeOK
  <2>. QED
    BY <2>1, <2>2 DEF Gate!Drop
<1>5. ASSUME NEW q \in Requests, FinalizeShare(q) PROVE Gate!Share
  <2>1. parent = "draft" /\ parent' = "transfer" /\ UNCHANGED Held
    BY <1>5 DEF FinalizeShare, At, Held, IInv, LockInv, Busy
  <2>2. /\ Held # {} /\ job[q].todo \subseteq Held
        /\ \A f \in Held : IF f \in job[q].todo THEN scan[f] = "pending"
                           ELSE scan[f] \in Released
    BY <1>5 DEF FinalizeShare, At, IInv, PollInv
  <2>3. \A f \in Files : scan'[f] = IF f \in job[q].todo THEN "skipped" ELSE scan[f]
    BY <1>5 DEF FinalizeShare, SetScan
  <2>4. \A f \in Held : Verdict[f] \in {"open", "passed"}
    BY <2>2, HeldFacts, Classes DEF Verdict
  <2>5. Verdict' = [f \in Files |-> IF f \in Held THEN "passed" ELSE Verdict[f]]
    BY <2>2, <2>3, HeldFacts, Classes DEF Verdict, Released
  <2>. QED
    BY <2>1, <2>2, <2>4, <2>5 DEF Gate!Share
<1>6. ASSUME NEW q \in Requests, RescanEnd(q) PROVE Gate!Reopen
  <2> DEFINE F == {f \in Claimed(q) : scan[f] = "error_transient"}
  <2>1. parent = "draft" /\ UNCHANGED parent /\ UNCHANGED Held
    BY <1>6 DEF RescanEnd, At, Held, IInv, LockInv, Busy
  <2>2. \A f \in Claimed(q) : f \in Held /\ scan[f] \in {"pending", "error_transient"}
    BY <1>6 DEF RescanEnd, At, Claimed, Unchanged, IInv, ReadInv
  <2>3. \A f \in Files : scan'[f] = IF f \in Claimed(q) THEN "pending" ELSE scan[f]
    BY <1>6 DEF RescanEnd, SetScan
  <2>4. F \in SUBSET {f \in Held : Verdict[f] = "retry"}
    BY <2>2, HeldFacts, Classes DEF Verdict
  <2>5. Verdict' = [f \in Files |-> IF f \in F THEN "open" ELSE Verdict[f]]
    BY <2>2, <2>3, Classes DEF Verdict
  <2>. QED
    BY <2>1, <2>4, <2>5 DEF Gate!Reopen
<1>7. ASSUME NEW f \in Files, NEW v \in Results, Callback(f, v)
      PROVE  \/ \E d \in {"retry", "passed", "blocked"} : Gate!Decide(f, d)
             \/ UNCHANGED Gate!vars
  <2>1. UNCHANGED <<parent, Held>>
    BY <1>7 DEF Callback, Held
  <2>2. CASE f \in Held /\ scan[f] = "pending"
    <3>1. parent = "draft"
      BY <2>2 DEF IInv, TypeOK, FileInv, SharedInv, SharedIsSettled, Released
    <3>2. \A g \in Files : scan'[g] = IF g = f THEN v ELSE scan[g]
      BY <1>7, <2>2 DEF Callback, Apply, SetScan
    <3> DEFINE d == CASE v = "error_transient" -> "retry"
                      [] v \in Released -> "passed"
                      [] OTHER -> "blocked"
    <3>3. d \in {"retry", "passed", "blocked"}
      OBVIOUS
    <3>4. Verdict[f] = "open" /\ Verdict' = [Verdict EXCEPT ![f] = d]
      BY <2>2, <3>2, ResultsOK, Classes DEF Verdict, Released
    <3>. QED
      BY <2>1, <3>1, <3>3, <3>4 DEF Gate!Decide
  <2>3. CASE ~(f \in Held /\ scan[f] = "pending")
    <3>1. \A g \in Files : scan'[g] = scan[g]
      BY <1>7, <2>3 DEF Callback, Apply, SetScan
    <3>2. UNCHANGED Verdict
      BY <3>1 DEF Verdict
    <3>. QED
      BY <2>1, <3>2 DEF Gate!vars
  <2>. QED
    BY <2>2, <2>3
<1>8. ASSUME NEW q \in Requests, RequestStep(q), ~FinalizeShare(q), ~RescanEnd(q)
      PROVE  UNCHANGED Gate!vars
  BY <1>8, GateFrame
     DEF RequestStep, RequestContinues, FinalizeBegin, FinalizeWait, RescanBegin, Send
<1>9. ASSUME NEW r \in Runs, RunStep(r) PROVE UNCHANGED Gate!vars
  BY <1>9, GateFrame DEF RunStep, ReapBegin, ReapClaim, ReapSend, ReapRefused
<1>10. ASSUME NEW f \in Files, Deliver(f) \/ Post(f) \/ PostFails(f) \/ LoseJob(f) \/ Lapse(f)
       PROVE  UNCHANGED Gate!vars
  BY <1>10, GateFrame DEF Deliver, Post, PostFails, LoseJob, Lapse
<1>11. ASSUME NEW a \in Actors, Die(a) PROVE UNCHANGED Gate!vars
  BY <1>11, GateFrame DEF Die
<1>12. CASE UNCHANGED vars
  BY <1>12, GateFrame DEF vars
<1>. QED
  BY <1>1, <1>2, <1>3, <1>4, <1>5, <1>6, <1>7, <1>8, <1>9, <1>10, <1>11, <1>12
     DEF Next, DraftStep, ScanStep, Gate!Next

\* Every behaviour of the pipeline is one of the gate.
THEOREM GateRefinement == Spec => ImplementsGate
<1>1. Init => Gate!Init
  BY Classes DEF Init, Gate!Init, Held, Verdict
<1>. QED
  BY <1>1, Inductive, GateStep, PTL DEF Spec, ImplementsGate, Gate!Spec
=============================================================================
