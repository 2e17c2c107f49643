---------------------------- MODULE DraftStoreProofs ----------------------------
(***************************************************************************)
(* What DraftStore promises in every state, for all sets of files and      *)
(* deliveries and any number of faults.                                    *)
(*                                                                         *)
(* Two arguments carry the proof.  Beside the lock: the object of a run    *)
(* that is about to save is there unless a request that holds the lock is  *)
(* deleting the row, and without a second run of the file nobody else      *)
(* touches it.  For the sweep: a row it did not know when it read the      *)
(* database can only own what is younger than a day.                       *)
(***************************************************************************)
EXTENDS DraftStore, TLAPS

-----------------------------------------------------------------------------
(* The inductive invariant. *)

\* A request is about to delete the row of this file.
Leaving(f) == req.op \in {"remove", "drop"} /\ f \in req.files

\* A delivery is of a Drive file.
RunInv == \A r \in Runs : run[r].at # "free" => run[r].file \in Drive

\* What is parked on the row of a Drive file is the upload of a delivery.
ParkedInv == \A f \in Drive : row[f].up \in Runs \cup {None}

\* Nothing has touched a file that was never added.
NewInv == \A f \in Files : row[f].at = "none" =>
            /\ object[f] = "none" /\ f \notin outbox
            /\ \A r \in Runs : run[r].at # "free" => run[r].file # f

\* What a request holds between its storage calls and its commit.
RequestInv ==
    /\ req.op = "add" => \A f \in req.files :
         row[f].at = "none" /\ (f \in Browser => mpu[f] # "old")
    /\ req.op = "land" => \A f \in req.files : f \in Browser /\ object[f] = "new"

\* No file is imported twice at a time, ...
OneRunInv == "twice" \notin slips => \A r, x \in Runs :
    Active(r) /\ Active(x) /\ run[r].file = run[x].file => r = x

\* ... nor once it has landed.
ImportInv == "twice" \notin slips => \A r \in Runs : Active(r) => ~row[run[r].file].landed

\* What a run is about to save is stored, or its row is about to go.
SaveInv == slips = {} => \A r \in Runs :
    run[r].at = "save" /\ Exists(run[r].file) =>
        object[run[r].file] = "new" \/ Leaving(run[r].file)

\* An upload that is about to be parked is young.
ParkInv == \A r \in Runs : run[r].at = "park" => mpu[r] # "old"

\* What the sweep does not know is gone, or young.
SweepInv ==
    /\ sweep.at = "objects" => \A f \in Files \ sweep.known :
         row[f].at = "gone" \/ object[f] # "old"
    /\ sweep.at = "uploads" => \A f \in Files : Exists(f) /\ row[f].up # None =>
         row[f].up \in sweep.known \/ mpu[row[f].up] # "old"

IInv == /\ TypeOK /\ RunInv /\ ParkedInv /\ NewInv /\ RequestInv /\ OneRunInv /\ ImportInv
        /\ SaveInv /\ ParkInv /\ SweepInv /\ LandedIsStored

-----------------------------------------------------------------------------
(* Typing. *)

\* No name is used for two things.
LEMMA Names ==
    /\ None \notin Files \cup Runs /\ None \notin Uploads
    /\ Browser \cap Drive = {} /\ Runs \cap Browser = {}
  BY NamesAssumption DEF Files, Uploads

\* What a row, a request and a delivery may be.
Rows     == [at : {"none", "held", "shared", "gone"}, up : Uploads \cup {None},
             landed : BOOLEAN, started : BOOLEAN, failed : BOOLEAN]
Requests == [op : Ops, files : SUBSET Files]
Imports  == [at : RunSteps, file : Drive \cup {None}, saw : Runs \cup {None}]

-----------------------------------------------------------------------------
(* What a step does to a row, field by field. *)

Landing(t)    == [t EXCEPT !.landed = TRUE, !.up = None]
Starting(t,b) == [t EXCEPT !.started = b]
Parking(t,u)  == [t EXCEPT !.up = u]
Failing(t)    == [t EXCEPT !.up = None, !.failed = TRUE]

\* What a completion, or an import that is saved, does to a row.
LEMMA LandingRow == ASSUME NEW t \in Rows
    PROVE  /\ Landing(t) \in Rows
           /\ Landing(t).at = t.at /\ Landing(t).up = None
  BY DEF Rows, Landing

\* What finalize, or a refused send, does to a row.
LEMMA StartingRow == ASSUME NEW t \in Rows, NEW b \in BOOLEAN
    PROVE  /\ Starting(t, b) \in Rows
           /\ Starting(t, b).at = t.at /\ Starting(t, b).up = t.up
           /\ Starting(t, b).landed = t.landed
  BY DEF Rows, Starting

\* What an import does to a row when it parks an upload or clears one.
LEMMA ParkingRow == ASSUME NEW t \in Rows, NEW u \in Uploads \cup {None}
    PROVE  /\ Parking(t, u) \in Rows
           /\ Parking(t, u).at = t.at /\ Parking(t, u).up = u
           /\ Parking(t, u).landed = t.landed
  BY DEF Rows, Parking

\* What a failed import does to a row.
LEMMA FailingRow == ASSUME NEW t \in Rows
    PROVE  /\ Failing(t) \in Rows
           /\ Failing(t).at = t.at /\ Failing(t).up = None
           /\ Failing(t).landed = t.landed
  BY DEF Rows, Failing

\* Every file has a row.
LEMMA RowsTyped == ASSUME TypeOK, NEW g \in Files PROVE row[g] \in Rows
  BY DEF TypeOK, Rows

\* A lock-holding request lands its file.
LEMMA LandEndRow ==
    ASSUME TypeOK, LandEnd, NEW g \in Files
    PROVE  /\ row'[g] \in Rows /\ row'[g].at = row[g].at
           /\ g \in req.files => row'[g].up = None
           /\ g \notin req.files => row'[g] = row[g]
<1>1. row[g] \in Rows
  BY RowsTyped
<1>2. row'[g] = IF g \in req.files THEN Landing(row[g]) ELSE row[g]
  BY DEF LandEnd, Landing
<1>3. CASE g \in req.files
  BY <1>1, <1>2, <1>3, LandingRow
<1>4. CASE g \notin req.files
  BY <1>1, <1>2, <1>4
<1>. QED
  BY <1>3, <1>4

\* finalize stamps the rows whose imports it starts, and a refused send takes
\* the stamp back.
LEMMA StampRow ==
    ASSUME TypeOK, NEW g \in Files, StartImports \/ \E f \in Files : Send(f)
    PROVE  /\ row'[g] \in Rows /\ row'[g].at = row[g].at
           /\ row'[g].up = row[g].up /\ row'[g].landed = row[g].landed
<1>1. row[g] \in Rows
  BY RowsTyped
<1>2. \/ row'[g] = Starting(row[g], TRUE) \/ row'[g] = Starting(row[g], FALSE)
      \/ row'[g] = row[g]
  <2>1. CASE StartImports
    BY <2>1 DEF StartImports, Starting
  <2>2. ASSUME NEW f \in Files, Send(f)
        PROVE  row'[g] = Starting(row[g], FALSE) \/ row'[g] = row[g]
    <3>1. row' = row \/ row' = [row EXCEPT ![f] = Starting(row[f], FALSE)]
      BY <2>2 DEF Send, Starting
    <3>2. row \in [Files -> Rows]
      BY DEF TypeOK, Rows
    <3>. QED
      BY <3>1, <3>2
  <2>. QED
    BY <2>1, <2>2
<1>. QED
  BY <1>1, <1>2, StartingRow

\* A run clears, parks, saves or fails the row of its file.
LEMMA RunRow ==
    ASSUME TypeOK, NEW r \in Runs, NEW g \in Files,
           ClearStale(r) \/ Park(r) \/ Save(r) \/ FailSave(r)
    PROVE  /\ row'[g] \in Rows /\ row'[g].at = row[g].at
           /\ Park(r) => row'[g].up = row[g].up \/ (g = run[r].file /\ row'[g].up = r)
           /\ ~Park(r) => row'[g].up = row[g].up \/ row'[g].up = None
           /\ Save(r) => g = run[r].file \/ row'[g] = row[g]
           /\ ~Save(r) => row'[g].landed = row[g].landed
<1> DEFINE f == run[r].file
<1>1. row[g] \in Rows /\ row \in [Files -> Rows]
  BY RowsTyped DEF TypeOK, Rows
<1>2. r \in Uploads \cup {None} /\ None \in Uploads \cup {None}
  BY DEF Uploads
<1>3. ASSUME NEW t, row' = row \/ row' = [row EXCEPT ![f] = t]
      PROVE  row'[g] = row[g] \/ (g = f /\ row'[g] = t)
  BY <1>1, <1>3
<1>4. ASSUME ClearStale(r)
      PROVE  row'[g] = row[g] \/ (g = f /\ row'[g] = Parking(row[f], None))
  <2>1. row' = row \/ row' = [row EXCEPT ![f] = Parking(row[f], None)]
    BY <1>4 DEF ClearStale, Parking
  <2>. QED
    BY <1>3, <2>1
<1>5. ASSUME Park(r)
      PROVE  row'[g] = row[g] \/ (g = f /\ row'[g] = Parking(row[f], r))
  <2>1. row' = row \/ row' = [row EXCEPT ![f] = Parking(row[f], r)]
    BY <1>5 DEF Park, Parking
  <2>. QED
    BY <1>3, <2>1
<1>6. ASSUME Save(r)
      PROVE  row'[g] = row[g] \/ (g = f /\ row'[g] = Landing(row[f]))
  <2>1. row' = row \/ row' = [row EXCEPT ![f] = Landing(row[f])]
    BY <1>6 DEF Save, Landing
  <2>. QED
    BY <1>3, <2>1
<1>7. ASSUME FailSave(r)
      PROVE  row'[g] = row[g] \/ (g = f /\ row'[g] = Failing(row[f]))
  <2>1. row' = row \/ row' = [row EXCEPT ![f] = Failing(row[f])]
    BY <1>7 DEF FailSave, Failing
  <2>. QED
    BY <1>3, <2>1
<1>8. /\ ClearStale(r) => ~Park(r) /\ ~Save(r)
      /\ Park(r) => ~Save(r)
      /\ FailSave(r) => ~Park(r) /\ ~Save(r)
  BY DEF ClearStale, Park, Save, FailSave
<1>9. CASE ClearStale(r)
  BY <1>1, <1>2, <1>4, <1>8, <1>9, ParkingRow
<1>10. CASE Park(r)
  BY <1>1, <1>2, <1>5, <1>8, <1>10, ParkingRow
<1>11. CASE Save(r)
  BY <1>1, <1>6, <1>8, <1>11, LandingRow
<1>12. CASE FailSave(r)
  BY <1>1, <1>7, <1>8, <1>12, FailingRow
<1>. QED
  BY <1>9, <1>10, <1>11, <1>12

\* A run that goes on keeps its file.
LEMMA RunGoto ==
    ASSUME TypeOK, NEW r \in Runs, NEW s \in RunSteps, Goto(r, s)
    PROVE  /\ run' \in [Runs -> Imports]
           /\ run'[r].at = s /\ run'[r].file = run[r].file
           /\ \A x \in Runs \ {r} : run'[x] = run[x]
<1>1. run \in [Runs -> Imports]
  BY DEF TypeOK, Imports
<1>2. run' = [run EXCEPT ![r] = [run[r] EXCEPT !.at = s]]
  BY DEF Goto
<1>3. ASSUME NEW t \in Imports
      PROVE  /\ [t EXCEPT !.at = s] \in Imports /\ [t EXCEPT !.at = s].at = s
             /\ [t EXCEPT !.at = s].file = t.file
  BY DEF Imports
<1>4. run'[r] = [run[r] EXCEPT !.at = s] /\ \A x \in Runs \ {r} : run'[x] = run[x]
  BY <1>1, <1>2
<1>5. run[r] \in Imports
  BY <1>1
<1>6. run'[r] \in Imports /\ run'[r].at = s /\ run'[r].file = run[r].file
  BY <1>3, <1>4, <1>5
<1>. QED
  BY <1>1, <1>2, <1>4, <1>6

\* The rows stay those of the files.
LEMMA RowTotal ==
    ASSUME TypeOK,
           \/ LandEnd \/ StartImports \/ \E f \in Files : Send(f)
           \/ \E r \in Runs : ClearStale(r) \/ Park(r) \/ Save(r) \/ FailSave(r)
    PROVE  row' = [h \in Files |-> row'[h]]
<1>1. row = [h \in Files |-> row[h]]
  BY DEF TypeOK
<1>2. ASSUME NEW f, NEW t, row' = row \/ row' = [row EXCEPT ![f] = t]
      PROVE  row' = [h \in Files |-> row'[h]]
  BY <1>1, <1>2
<1>3. CASE LandEnd \/ StartImports
  BY <1>3 DEF LandEnd, StartImports
<1>4. ASSUME NEW f \in Files, Send(f) PROVE row' = [h \in Files |-> row'[h]]
  <2>1. row' = row \/ row' = [row EXCEPT ![f] = Starting(row[f], FALSE)]
    BY <1>4 DEF Send, Starting
  <2>. QED
    BY <1>2, <2>1
<1>5. ASSUME NEW r \in Runs, ClearStale(r) \/ Park(r) \/ Save(r) \/ FailSave(r)
      PROVE  row' = [h \in Files |-> row'[h]]
  <2> DEFINE f == run[r].file
  <2>1. \/ row' = row \/ row' = [row EXCEPT ![f] = Parking(row[f], None)]
        \/ row' = [row EXCEPT ![f] = Parking(row[f], r)]
        \/ row' = [row EXCEPT ![f] = Landing(row[f])]
        \/ row' = [row EXCEPT ![f] = Failing(row[f])]
    BY <1>5 DEF ClearStale, Park, Save, FailSave, Parking, Landing, Failing
  <2>. QED
    BY <1>2, <2>1
<1>. QED
  BY <1>3, <1>4, <1>5

Queued(f) == [at |-> "queued", file |-> f, saw |-> None]

\* A message that is sent takes a free delivery, or none.
LEMMA SendRun ==
    ASSUME TypeOK, NEW f \in Drive, Send(f)
    PROVE  /\ run' \in [Runs -> Imports]
           /\ \A x \in Runs : run'[x] = run[x]
                \/ (run'[x].at = "queued" /\ run'[x].file = f /\ run[x].at = "free")
<1>1. run \in [Runs -> Imports]
  BY DEF TypeOK, Imports
<1>2. run' = run \/ \E r \in Runs : run[r].at = "free" /\ run' = [run EXCEPT ![r] = Queued(f)]
  BY DEF Send, Queue, Queued
<1>3. Queued(f) \in Imports /\ Queued(f).at = "queued" /\ Queued(f).file = f
  BY DEF Queued, Imports, RunSteps
<1>. QED
  BY <1>1, <1>2, <1>3

\* A delivery that is taken reads the row of its file.
LEMMA TakeRun ==
    ASSUME TypeOK, NEW r \in Runs, Take(r), row[run[r].file].up \in Runs \cup {None}
    PROVE  /\ run' \in [Runs -> Imports]
           /\ run'[r].file = run[r].file /\ run'[r].at \in {"end", "abort", "open"}
           /\ run'[r].at # "end" => ~row[run[r].file].landed
           /\ \A x \in Runs \ {r} : run'[x] = run[x]
<1> DEFINE f    == run[r].file
           s    == IF ~Exists(f) \/ row[f].landed THEN "end"
                   ELSE IF row[f].up # None THEN "abort" ELSE "open"
           next == [run[r] EXCEPT !.at = s, !.saw = row[f].up]
<1>1. run \in [Runs -> Imports] /\ run[r] \in Imports
  BY DEF TypeOK, Imports
<1>2. run' = [run EXCEPT ![r] = next]
  BY DEF Take
<1>3. s \in {"end", "abort", "open"} /\ (s # "end" => ~row[f].landed)
  OBVIOUS
<1>4. next \in Imports /\ next.file = f /\ next.at = s
  <2> HIDE DEF s
  <2>. QED
    BY <1>1, <1>3 DEF Imports, RunSteps
<1> HIDE DEF next, s, f
<1>5. run'[r] = next /\ \A x \in Runs \ {r} : run'[x] = run[x]
  BY <1>1, <1>2
<1>6. run' \in [Runs -> Imports]
  BY <1>1, <1>2, <1>4
<1>. QED
  BY <1>3, <1>4, <1>5, <1>6 DEF f

\* A message that comes back leaves its run for a new one.
LEMMA RedeliverRun ==
    ASSUME TypeOK, NEW r \in Runs, Redeliver(r), NEW x \in Runs, run'[x].at # "free"
    PROVE  \E y \in Runs : run[y].at # "free" /\ run'[x].file = run[y].file
<1>1. run \in [Runs -> Imports] /\ run[r] \in Imports /\ run[r].at # "free"
  BY DEF TypeOK, Imports, Redeliver, Active
<1>2. PICK z \in Runs :
        run' = [run EXCEPT ![r] = [run[r] EXCEPT !.at = "end"], ![z] = Queued(run[r].file)]
  BY DEF Redeliver, Queued
<1>3. /\ Queued(run[r].file).file = run[r].file
      /\ [run[r] EXCEPT !.at = "end"].file = run[r].file
  BY <1>1 DEF Queued, Imports
<1>4. CASE x = z
  BY <1>1, <1>2, <1>3, <1>4
<1>5. CASE x # z /\ x = r
  BY <1>1, <1>2, <1>3, <1>5
<1>6. CASE x # z /\ x # r
  BY <1>1, <1>2, <1>6
<1>. QED
  BY <1>4, <1>5, <1>6

\* Every step keeps the types.
LEMMA TypeOKNext == IInv /\ [Next]_vars => TypeOK'
<1> SUFFICES ASSUME IInv, [Next]_vars PROVE TypeOK'
  OBVIOUS
<1>1. ASSUME NEW f \in Files, AddBegin(f) PROVE TypeOK'
  BY <1>1, Names DEF AddBegin, Unlocked, IInv, TypeOK, Files, Uploads, Ages, Ops
<1>2. ASSUME NEW f \in Files, RemoveBegin(f) PROVE TypeOK'
  BY <1>2, Names, FaultsAssumption DEF RemoveBegin, Unlocked, Held, CleanUp,
      MayKeep, AbortAll, DeleteAll, UploadsOf, Fault, IInv, TypeOK, Files, Uploads,
      Ages, Ops
<1>3. ASSUME NEW f \in Files, Send(f) PROVE TypeOK'
  <2>1. \A g \in Files : row'[g] \in Rows /\ (row'[g].up = row[g].up)
    BY <1>3, StampRow DEF IInv
  <2>2. row' = [h \in Files |-> row'[h]]
    BY <1>3, RowTotal DEF IInv
  <2>3. row' \in [Files -> Rows] /\ \A g \in Browser : row'[g].up \in {g, None}
    BY <1>3, <2>1, <2>2 DEF IInv, TypeOK, Files
  <2>4. run' \in [Runs -> Imports]
    BY <1>3, SendRun DEF IInv, Send, TypeOK
  <2>5. outbox' \subseteq Drive
    BY <1>3 DEF Send, IInv, TypeOK
  <2>6. faults' \in 0 .. MaxFaults
    BY <1>3, FaultsAssumption DEF Send, Fault, IInv, TypeOK
  <2>. QED
    BY <1>3, <2>1, <2>2, <2>3, <2>4, <2>5, <2>6 DEF Send, Rows, IInv, TypeOK, Imports
<1>4. ASSUME NEW f \in Browser, CompleteBegin(f) PROVE TypeOK'
  BY <1>4, Names DEF CompleteBegin, Completing, Unlocked, Held, AbortAll, IInv,
      TypeOK, Files, Uploads, Ages, Ops
<1>5. ASSUME NEW f \in Browser, CompleteRejected(f) PROVE TypeOK'
  BY <1>5, Names, FaultsAssumption DEF CompleteRejected, Completing, Unlocked,
      Held, AbortAll, MayKeep, UploadsOf, Fault, IInv, TypeOK, Files, Uploads,
      Ages, Ops
<1>6. ASSUME NEW f \in Browser, CompleteMismatch(f) PROVE TypeOK'
  BY <1>6, Names, FaultsAssumption DEF CompleteMismatch, Completing, Unlocked,
      Held, AbortAll, MayKeep, UploadsOf, Fault, IInv, TypeOK, Files, Uploads,
      Ages, Ops
<1>7. ASSUME AddEnd PROVE TypeOK'
  BY <1>7, Names DEF AddEnd, NoRow, NoReq, IInv, TypeOK, Files, Uploads, Ops,
      RunInv, RequestInv
<1>8. ASSUME AddFails PROVE TypeOK'
  <2>1. \A g \in Files : row'[g] \in Rows
    BY <1>8, Names DEF AddFails, NoRow, NoReq, IInv, TypeOK, Files, Uploads, Rows
  <2>2. row' \in [Files -> Rows]
    BY <1>8, <2>1 DEF AddFails, NoRow, NoReq, IInv, TypeOK, Rows
  <2>3. \A g \in Browser : row'[g].up \in {g, None}
    BY <1>8, Names DEF AddFails, NoRow, NoReq, IInv, TypeOK, Files, Uploads, Rows,
        RunInv, RequestInv
  <2>4. faults' \in 0 .. MaxFaults
    BY <1>8, FaultsAssumption DEF AddFails, Fault, IInv, TypeOK
  <2>5. req' \in [op : Ops, files : SUBSET Files]
    BY <1>8 DEF AddFails, NoReq, Ops
  <2>6. mpu' \in [Uploads -> Ages]
    BY <1>8 DEF AddFails, AbortAll, Ages, IInv, TypeOK
  <2>. QED
    BY <1>8, <2>1, <2>2, <2>3, <2>4, <2>5, <2>6 DEF AddFails, Rows, IInv, TypeOK
<1>9. ASSUME LandEnd PROVE TypeOK'
  <2>1. \A g \in Files : row'[g] \in Rows /\ (row[g].up = row'[g].up \/ row'[g].up
        = None)
    BY <1>9, LandEndRow DEF IInv
  <2>2. row' = [h \in Files |-> row'[h]]
    BY <1>9, RowTotal DEF IInv
  <2>3. row' \in [Files -> Rows] /\ \A g \in Browser : row'[g].up \in {g, None}
    BY <1>9, <2>1, <2>2 DEF IInv, TypeOK, Files
  <2>4. req' \in [op : Ops, files : SUBSET Files]
    BY <1>9 DEF LandEnd, NoReq, Ops
  <2>. QED
    BY <1>9, <2>1, <2>2, <2>3, <2>4 DEF LandEnd, Rows, IInv, TypeOK
<1>10. ASSUME RemovalEnd PROVE TypeOK'
  BY <1>10, Names DEF RemovalEnd, NoRow, NoReq, Held, IInv, TypeOK, Files, Uploads,
      Ops, RunInv, RequestInv
<1>11. ASSUME DropBegin PROVE TypeOK'
  BY <1>11, Names, FaultsAssumption DEF DropBegin, Unlocked, Held, CleanUp,
      MayKeep, AbortAll, DeleteAll, UploadsOf, Fault, IInv, TypeOK, Files, Uploads,
      Ages, Ops
<1>12. ASSUME Rollback PROVE TypeOK'
  <2>1. \A g \in Files : row'[g] \in Rows
    BY <1>12, Names DEF Rollback, NoRow, NoReq, IInv, TypeOK, Files, Uploads, Rows
  <2>2. row' \in [Files -> Rows]
    BY <1>12, <2>1 DEF Rollback, NoRow, NoReq, IInv, TypeOK, Rows
  <2>3. \A g \in Browser : row'[g].up \in {g, None}
    BY <1>12, Names DEF Rollback, NoRow, NoReq, IInv, TypeOK, Files, Uploads, Rows,
        RunInv, RequestInv
  <2>4. faults' \in 0 .. MaxFaults
    BY <1>12, FaultsAssumption DEF Rollback, Fault, IInv, TypeOK
  <2>5. req' \in [op : Ops, files : SUBSET Files]
    BY <1>12 DEF Rollback, NoReq, Ops
  <2>6. slips' \subseteq Slips
    BY <1>12 DEF Rollback, Slips, IInv, TypeOK
  <2>. QED
    BY <1>12, <2>1, <2>2, <2>3, <2>4, <2>5, <2>6 DEF Rollback, Rows, IInv, TypeOK
<1>13. ASSUME StartImports PROVE TypeOK'
  <2>1. \A g \in Files : row'[g] \in Rows /\ (row'[g].up = row[g].up)
    BY <1>13, StampRow DEF IInv
  <2>2. row' = [h \in Files |-> row'[h]]
    BY <1>13, RowTotal DEF IInv
  <2>3. row' \in [Files -> Rows] /\ \A g \in Browser : row'[g].up \in {g, None}
    BY <1>13, <2>1, <2>2 DEF IInv, TypeOK, Files
  <2>4. outbox' \subseteq Drive
    BY <1>13 DEF StartImports, Finalizable, Held, Files, IInv, TypeOK
  <2>. QED
    BY <1>13, <2>1, <2>2, <2>3, <2>4 DEF StartImports, Rows, IInv, TypeOK
<1>14. ASSUME LoseOutbox PROVE TypeOK'
  BY <1>14, Names, FaultsAssumption DEF LoseOutbox, Fault, IInv, TypeOK, Files,
      Uploads
<1>15. ASSUME Share PROVE TypeOK'
  BY <1>15, Names DEF Share, Finalizable, Held, Unlocked, IInv, TypeOK, Files,
      Uploads, RunInv, RequestInv
<1>16. ASSUME SweepBegin PROVE TypeOK'
  BY <1>16, Names DEF SweepBegin, Exists, IInv, TypeOK, Files, Uploads, SweepSteps
<1>17. ASSUME SweepObjects PROVE TypeOK'
  <2>1. object' \in [Files -> Ages]
    BY <1>17 DEF SweepObjects, DeleteAll, IInv, TypeOK, Ages
  <2>2. sweep' \in [at : SweepSteps, known : SUBSET (Files \cup Uploads)]
    BY <1>17 DEF SweepObjects, IInv, TypeOK, SweepSteps
  <2>. QED
    BY <1>17, <2>1, <2>2, FaultsAssumption DEF SweepObjects, DeleteAll, OldObjects,
        Fault, IInv, TypeOK
<1>18. ASSUME SweepKnown PROVE TypeOK'
  <2>1. UploadsOf({g \in Files : Exists(g)}) \subseteq Uploads
    BY <1>18 DEF UploadsOf, IInv, TypeOK
  <2>2. sweep' \in [at : SweepSteps, known : SUBSET (Files \cup Uploads)]
    BY <1>18, <2>1 DEF SweepKnown, IInv, TypeOK, SweepSteps
  <2>. QED
    BY <1>18, <2>1, <2>2 DEF SweepKnown, UploadsOf, Exists, IInv, TypeOK
<1>19. ASSUME SweepUploads PROVE TypeOK'
  BY <1>19, Names, FaultsAssumption DEF SweepUploads, AbortAll, Fault, NoSweep,
      IInv, TypeOK, Files, Uploads, Ages, SweepSteps
<1>20. ASSUME Day PROVE TypeOK'
  BY <1>20, Names DEF Day, Unlocked, Active, IInv, TypeOK, Files, Uploads, Ages
<1>21. ASSUME NEW r \in Runs, Take(r) PROVE TypeOK'
  <2>1. run[r].file \in Drive
    BY <1>21 DEF Take, IInv, RunInv
  <2>2. row[run[r].file].up \in Runs \cup {None}
    BY <1>21, <2>1 DEF IInv, ParkedInv
  <2>3. run' \in [Runs -> Imports]
    BY <1>21, TakeRun, <2>2 DEF IInv
  <2>4. slips' \subseteq Slips
    BY <1>21 DEF Take, Slips, IInv, TypeOK
  <2>. QED
    BY <1>21, <2>1, <2>2, <2>3, <2>4 DEF Take, IInv, TypeOK, Imports
<1>22. ASSUME NEW r \in Runs, AbortStale(r) PROVE TypeOK'
  BY <1>22, Names, FaultsAssumption DEF AbortStale, AbortAll, Fault, Goto, IInv,
      TypeOK, Files, Uploads, Ages, RunSteps, RunInv, RequestInv
<1>23. ASSUME NEW r \in Runs, ClearStale(r) PROVE TypeOK'
  <2>1. \A g \in Files : row'[g] \in Rows /\ (row'[g].up = row[g].up \/ row'[g].up
        = None \/ (g \in Drive /\ g = run[r].file))
    BY <1>23, RunRow, Names DEF IInv, RunInv, ClearStale
  <2>2. row' = [h \in Files |-> row'[h]]
    BY <1>23, RowTotal DEF IInv
  <2>3. row' \in [Files -> Rows] /\ \A g \in Browser : row'[g].up \in {g, None}
    BY <1>23, <2>1, <2>2, Names DEF IInv, TypeOK, Files
  <2>4. Goto(r, "open")
    BY <1>23 DEF ClearStale
  <2>5. run' \in [Runs -> Imports]
    BY <1>23, <2>4, RunGoto DEF IInv, RunSteps
  <2>. QED
    BY <1>23, <2>1, <2>2, <2>3, <2>4, <2>5 DEF ClearStale, Rows, Imports, IInv, TypeOK
<1>24. ASSUME NEW r \in Runs, OpenUpload(r) PROVE TypeOK'
  BY <1>24, Names DEF OpenUpload, Goto, IInv, TypeOK, Files, Uploads, Ages,
      RunSteps, RunInv, RequestInv
<1>25. ASSUME NEW r \in Runs, Park(r) PROVE TypeOK'
  <2>1. \A g \in Files : row'[g] \in Rows /\ (row'[g].up = row[g].up \/ row'[g].up
        = None \/ (g \in Drive /\ g = run[r].file))
    BY <1>25, RunRow, Names DEF IInv, RunInv, Park
  <2>2. row' = [h \in Files |-> row'[h]]
    BY <1>25, RowTotal DEF IInv
  <2>3. row' \in [Files -> Rows] /\ \A g \in Browser : row'[g].up \in {g, None}
    BY <1>25, <2>1, <2>2, Names DEF IInv, TypeOK, Files
  <2>4. Goto(r, "stream") \/ Goto(r, "failAbort")
    BY <1>25 DEF Park
  <2>5. run' \in [Runs -> Imports]
    BY <1>25, <2>4, RunGoto DEF IInv, RunSteps
  <2>. QED
    BY <1>25, <2>1, <2>2, <2>3, <2>4, <2>5 DEF Park, Rows, Imports, IInv, TypeOK
<1>26. ASSUME NEW r \in Runs, Stream(r) PROVE TypeOK'
  BY <1>26, Names DEF Stream, AbortAll, Goto, IInv, TypeOK, Files, Uploads, Ages,
      RunSteps, RunInv, RequestInv
<1>27. ASSUME NEW r \in Runs, Save(r) PROVE TypeOK'
  <2>1. \A g \in Files : row'[g] \in Rows /\ (row'[g].up = row[g].up \/ row'[g].up
        = None \/ (g \in Drive /\ g = run[r].file))
    BY <1>27, RunRow, Names DEF IInv, RunInv, Save
  <2>2. row' = [h \in Files |-> row'[h]]
    BY <1>27, RowTotal DEF IInv
  <2>3. row' \in [Files -> Rows] /\ \A g \in Browser : row'[g].up \in {g, None}
    BY <1>27, <2>1, <2>2, Names DEF IInv, TypeOK, Files
  <2>4. Goto(r, "end") \/ Goto(r, "failAbort")
    BY <1>27 DEF Save
  <2>5. run' \in [Runs -> Imports]
    BY <1>27, <2>4, RunGoto DEF IInv, RunSteps
  <2>. QED
    BY <1>27, <2>1, <2>2, <2>3, <2>4, <2>5 DEF Save, Rows, Imports, IInv, TypeOK
<1>28. ASSUME NEW r \in Runs, FailAbort(r) PROVE TypeOK'
  BY <1>28, Names, FaultsAssumption DEF FailAbort, AbortAll, Fault, Goto, IInv,
      TypeOK, Files, Uploads, Ages, RunSteps, RunInv, RequestInv
<1>29. ASSUME NEW r \in Runs, FailDelete(r) PROVE TypeOK'
  BY <1>29, Names, FaultsAssumption DEF FailDelete, DeleteAll, Fault, Goto, IInv,
      TypeOK, Files, Uploads, Ages, RunSteps, RunInv, RequestInv
<1>30. ASSUME NEW r \in Runs, FailSave(r) PROVE TypeOK'
  <2>1. \A g \in Files : row'[g] \in Rows /\ (row'[g].up = row[g].up \/ row'[g].up
        = None \/ (g \in Drive /\ g = run[r].file))
    BY <1>30, RunRow, Names DEF IInv, RunInv, FailSave
  <2>2. row' = [h \in Files |-> row'[h]]
    BY <1>30, RowTotal DEF IInv
  <2>3. row' \in [Files -> Rows] /\ \A g \in Browser : row'[g].up \in {g, None}
    BY <1>30, <2>1, <2>2, Names DEF IInv, TypeOK, Files
  <2>4. Goto(r, "end")
    BY <1>30 DEF FailSave
  <2>5. run' \in [Runs -> Imports]
    BY <1>30, <2>4, RunGoto DEF IInv, RunSteps
  <2>. QED
    BY <1>30, <2>1, <2>2, <2>3, <2>4, <2>5 DEF FailSave, Rows, Imports, IInv, TypeOK
<1>31. ASSUME NEW r \in Runs, Redeliver(r) PROVE TypeOK'
  BY <1>31, Names, FaultsAssumption DEF Redeliver, Active, Fault, IInv, TypeOK,
      Files, Uploads, RunSteps, RunInv, RequestInv
<1>32. CASE UNCHANGED vars
  BY <1>32, Names, FaultsAssumption DEF vars, IInv, TypeOK, Files, Uploads, Ages,
      Ops, RunSteps, SweepSteps, Slips, RunInv, RequestInv
<1>. QED
  BY <1>1, <1>2, <1>3, <1>4, <1>5, <1>6, <1>7, <1>8, <1>9, <1>10, <1>11, <1>12,
      <1>13, <1>14, <1>15, <1>16, <1>17, <1>18, <1>19, <1>20, <1>21, <1>22, <1>23,
      <1>24, <1>25, <1>26, <1>27, <1>28, <1>29, <1>30, <1>31, <1>32 DEF Next,
      Commit, Import, Sweep

\* A delivery keeps its file.
LEMMA RunInvNext == IInv /\ [Next]_vars => RunInv'
<1> SUFFICES ASSUME IInv, [Next]_vars PROVE RunInv'
  OBVIOUS
<1>1. ASSUME NEW f \in Files, Send(f) PROVE RunInv'
  BY <1>1, Names DEF Send, Queue, Exists, IInv, TypeOK, Files, Uploads, RunInv
<1>2. ASSUME NEW r \in Runs, Take(r) PROVE RunInv'
  BY <1>2, Names DEF Take, Exists, Active, IInv, TypeOK, Files, Uploads, RunInv
<1>3. ASSUME NEW r \in Runs, AbortStale(r) PROVE RunInv'
  BY <1>3, Names DEF AbortStale, AbortAll, Goto, IInv, TypeOK, Files, Uploads,
      RunInv
<1>4. ASSUME NEW r \in Runs, ClearStale(r) PROVE RunInv'
  BY <1>4, Names DEF ClearStale, Exists, Goto, IInv, TypeOK, Files, Uploads, RunInv
<1>5. ASSUME NEW r \in Runs, OpenUpload(r) PROVE RunInv'
  BY <1>5, Names DEF OpenUpload, Goto, IInv, TypeOK, Files, Uploads, RunInv
<1>6. ASSUME NEW r \in Runs, Park(r) PROVE RunInv'
  BY <1>6, Names DEF Park, Exists, Goto, IInv, TypeOK, Files, Uploads, RunInv
<1>7. ASSUME NEW r \in Runs, Stream(r) PROVE RunInv'
  BY <1>7, Names DEF Stream, AbortAll, Goto, IInv, TypeOK, Files, Uploads, RunInv
<1>8. ASSUME NEW r \in Runs, Save(r) PROVE RunInv'
  BY <1>8, Names DEF Save, Exists, Goto, IInv, TypeOK, Files, Uploads, RunInv
<1>9. ASSUME NEW r \in Runs, FailAbort(r) PROVE RunInv'
  BY <1>9, Names DEF FailAbort, AbortAll, Goto, IInv, TypeOK, Files, Uploads,
      RunInv
<1>10. ASSUME NEW r \in Runs, FailDelete(r) PROVE RunInv'
  BY <1>10, Names DEF FailDelete, DeleteAll, Goto, IInv, TypeOK, Files, Uploads,
      RunInv
<1>11. ASSUME NEW r \in Runs, FailSave(r) PROVE RunInv'
  BY <1>11, Names DEF FailSave, Exists, Goto, IInv, TypeOK, Files, Uploads, RunInv
<1>12. ASSUME NEW r \in Runs, Redeliver(r) PROVE RunInv'
  BY <1>12, Names DEF Redeliver, Active, IInv, TypeOK, Files, Uploads, RunInv
<1>13. ASSUME NEW f \in Files, AddBegin(f) \/ RemoveBegin(f) PROVE RunInv'
  BY <1>13, Names DEF AddBegin, RemoveBegin, IInv, TypeOK, Files, Uploads, RunInv
<1>14. ASSUME NEW f \in Browser, CompleteBegin(f) \/ CompleteRejected(f) \/
          CompleteMismatch(f) PROVE RunInv'
  BY <1>14, Names DEF CompleteBegin, CompleteRejected, CompleteMismatch, IInv,
      TypeOK, Files, Uploads, RunInv
<1>15. ASSUME AddEnd \/ AddFails \/ LandEnd \/ RemovalEnd \/ DropBegin \/ Rollback
          \/ StartImports \/ LoseOutbox \/ Share \/ SweepBegin \/ SweepObjects \/
          SweepKnown \/ SweepUploads \/ Day PROVE RunInv'
  BY <1>15, Names DEF AddEnd, AddFails, LandEnd, RemovalEnd, DropBegin, Rollback,
      StartImports, LoseOutbox, Share, SweepBegin, SweepObjects, SweepKnown,
      SweepUploads, Day, IInv, TypeOK, Files, Uploads, RunInv
<1>16. CASE UNCHANGED vars
  BY <1>16, Names DEF vars, IInv, TypeOK, Files, Uploads, RunInv
<1>. QED
  BY <1>1, <1>2, <1>3, <1>4, <1>5, <1>6, <1>7, <1>8, <1>9, <1>10, <1>11, <1>12,
      <1>13, <1>14, <1>15, <1>16 DEF Next, Commit, Import, Sweep

\* Only runs park an upload on a Drive file.
LEMMA ParkedInvNext == IInv /\ [Next]_vars => ParkedInv'
<1> SUFFICES ASSUME IInv, [Next]_vars PROVE ParkedInv'
  OBVIOUS
<1>1. ASSUME NEW f \in Files, Send(f) PROVE ParkedInv'
  BY <1>1, Names DEF Send, Queue, Exists, IInv, TypeOK, Files, Uploads, ParkedInv,
      RunInv, RequestInv
<1>2. ASSUME AddEnd PROVE ParkedInv'
  BY <1>2, Names DEF AddEnd, NoRow, NoReq, IInv, TypeOK, Files, Uploads, ParkedInv,
      RunInv, RequestInv
<1>3. ASSUME AddFails PROVE ParkedInv'
  BY <1>3, Names DEF AddFails, AbortAll, NoRow, NoReq, IInv, TypeOK, Files,
      Uploads, ParkedInv, RunInv, RequestInv
<1>4. ASSUME LandEnd PROVE ParkedInv'
  <2>1. \A g \in Files : row'[g].up = row[g].up \/ row'[g].up = None
    BY <1>4, LandEndRow DEF IInv
  <2>. QED
    BY <1>4, <2>1 DEF IInv, ParkedInv, Files
<1>5. ASSUME RemovalEnd PROVE ParkedInv'
  BY <1>5, Names DEF RemovalEnd, NoRow, NoReq, Held, IInv, TypeOK, Files, Uploads,
      ParkedInv, RunInv, RequestInv
<1>6. ASSUME Rollback PROVE ParkedInv'
  BY <1>6, Names DEF Rollback, NoRow, NoReq, IInv, TypeOK, Files, Uploads,
      ParkedInv, RunInv, RequestInv
<1>7. ASSUME StartImports PROVE ParkedInv'
  BY <1>7, Names DEF StartImports, Finalizable, Held, Unlocked, IInv, TypeOK,
      Files, Uploads, ParkedInv, RunInv, RequestInv
<1>8. ASSUME Share PROVE ParkedInv'
  BY <1>8, Names DEF Share, Finalizable, Held, Unlocked, IInv, TypeOK, Files,
      Uploads, ParkedInv, RunInv, RequestInv
<1>9. ASSUME NEW r \in Runs, ClearStale(r) PROVE ParkedInv'
  BY <1>9, Names DEF ClearStale, Exists, Goto, IInv, TypeOK, Files, Uploads,
      ParkedInv, RunInv, RequestInv
<1>10. ASSUME NEW r \in Runs, Park(r) PROVE ParkedInv'
  BY <1>10, Names DEF Park, Exists, Goto, IInv, TypeOK, Files, Uploads, ParkedInv,
      RunInv, RequestInv
<1>11. ASSUME NEW r \in Runs, Save(r) PROVE ParkedInv'
  BY <1>11, Names DEF Save, Exists, Goto, IInv, TypeOK, Files, Uploads, ParkedInv,
      RunInv, RequestInv
<1>12. ASSUME NEW r \in Runs, FailSave(r) PROVE ParkedInv'
  BY <1>12, Names DEF FailSave, Exists, Goto, IInv, TypeOK, Files, Uploads,
      ParkedInv, RunInv, RequestInv
<1>13. ASSUME NEW f \in Files, AddBegin(f) \/ RemoveBegin(f) PROVE ParkedInv'
  BY <1>13, Names DEF AddBegin, RemoveBegin, IInv, TypeOK, Files, Uploads,
      ParkedInv, RunInv, RequestInv
<1>14. ASSUME NEW f \in Browser, CompleteBegin(f) \/ CompleteRejected(f) \/
          CompleteMismatch(f) PROVE ParkedInv'
  BY <1>14, Names DEF CompleteBegin, CompleteRejected, CompleteMismatch, IInv,
      TypeOK, Files, Uploads, ParkedInv, RunInv, RequestInv
<1>15. ASSUME DropBegin \/ LoseOutbox \/ SweepBegin \/ SweepObjects \/ SweepKnown
          \/ SweepUploads \/ Day PROVE ParkedInv'
  BY <1>15, Names DEF DropBegin, LoseOutbox, SweepBegin, SweepObjects, SweepKnown,
      SweepUploads, Day, IInv, TypeOK, Files, Uploads, ParkedInv, RunInv,
      RequestInv
<1>16. ASSUME NEW r \in Runs, Take(r) \/ AbortStale(r) \/ OpenUpload(r) \/
          Stream(r) \/ FailAbort(r) \/ FailDelete(r) \/ Redeliver(r) PROVE
          ParkedInv'
  BY <1>16, Names DEF Take, AbortStale, OpenUpload, Stream, FailAbort, FailDelete,
      Redeliver, Goto, IInv, TypeOK, Files, Uploads, ParkedInv, RunInv, RequestInv
<1>17. CASE UNCHANGED vars
  BY <1>17, Names DEF vars, IInv, TypeOK, Files, Uploads, ParkedInv, RunInv,
      RequestInv
<1>. QED
  BY <1>1, <1>2, <1>3, <1>4, <1>5, <1>6, <1>7, <1>8, <1>9, <1>10, <1>11, <1>12,
      <1>13, <1>14, <1>15, <1>16, <1>17 DEF Next, Commit, Import, Sweep

\* A file is only touched once it was added.
LEMMA NewInvNext == IInv /\ [Next]_vars => NewInv'
<1> SUFFICES ASSUME IInv, [Next]_vars PROVE NewInv'
  OBVIOUS
<1>1. ASSUME NEW f \in Files, RemoveBegin(f) PROVE NewInv'
  BY <1>1, Names DEF RemoveBegin, Unlocked, Held, CleanUp, AbortAll, DeleteAll,
      UploadsOf, IInv, TypeOK, Files, Uploads, NewInv, RunInv, RequestInv
<1>2. ASSUME NEW f \in Files, Send(f) PROVE NewInv'
  BY <1>2, Names DEF Send, Queue, Exists, IInv, TypeOK, Files, Uploads, NewInv,
      RunInv, RequestInv
<1>3. ASSUME NEW f \in Browser, CompleteBegin(f) PROVE NewInv'
  BY <1>3, Names DEF CompleteBegin, Completing, Unlocked, Held, AbortAll, IInv,
      TypeOK, Files, Uploads, NewInv, RunInv, RequestInv
<1>4. ASSUME NEW f \in Browser, CompleteMismatch(f) PROVE NewInv'
  BY <1>4, Names DEF CompleteMismatch, Completing, Unlocked, Held, AbortAll,
      UploadsOf, IInv, TypeOK, Files, Uploads, NewInv, RunInv, RequestInv
<1>5. ASSUME AddEnd PROVE NewInv'
  BY <1>5, Names DEF AddEnd, NoRow, NoReq, IInv, TypeOK, Files, Uploads, NewInv,
      RunInv, RequestInv
<1>6. ASSUME AddFails PROVE NewInv'
  BY <1>6, Names DEF AddFails, AbortAll, NoRow, NoReq, IInv, TypeOK, Files,
      Uploads, NewInv, RunInv, RequestInv
<1>7. ASSUME LandEnd PROVE NewInv'
  <2>1. \A g \in Files : row'[g].at = row[g].at
    BY <1>7, LandEndRow DEF IInv
  <2>. QED
    BY <1>7, <2>1 DEF LandEnd, NoReq, IInv, NewInv
<1>8. ASSUME RemovalEnd PROVE NewInv'
  BY <1>8, Names DEF RemovalEnd, NoRow, NoReq, Held, IInv, TypeOK, Files, Uploads,
      NewInv, RunInv, RequestInv
<1>9. ASSUME DropBegin PROVE NewInv'
  BY <1>9, Names DEF DropBegin, Unlocked, Held, CleanUp, AbortAll, DeleteAll,
      UploadsOf, IInv, TypeOK, Files, Uploads, NewInv, RunInv, RequestInv
<1>10. ASSUME Rollback PROVE NewInv'
  BY <1>10, Names DEF Rollback, NoRow, NoReq, IInv, TypeOK, Files, Uploads, NewInv,
      RunInv, RequestInv
<1>11. ASSUME StartImports PROVE NewInv'
  BY <1>11, Names DEF StartImports, Finalizable, Held, Unlocked, IInv, TypeOK,
      Files, Uploads, NewInv, RunInv, RequestInv
<1>12. ASSUME LoseOutbox PROVE NewInv'
  BY <1>12, Names DEF LoseOutbox, IInv, TypeOK, Files, Uploads, NewInv, RunInv,
      RequestInv
<1>13. ASSUME Share PROVE NewInv'
  BY <1>13, Names DEF Share, Finalizable, Held, Unlocked, IInv, TypeOK, Files,
      Uploads, NewInv, RunInv, RequestInv
<1>14. ASSUME SweepObjects PROVE NewInv'
  BY <1>14, Names DEF SweepObjects, DeleteAll, OldObjects, IInv, TypeOK, Files,
      Uploads, NewInv, RunInv, RequestInv
<1>15. ASSUME Day PROVE NewInv'
  BY <1>15, Names DEF Day, Unlocked, NoSweep, Active, NoReq, IInv, TypeOK, Files,
      Uploads, NewInv, RunInv, RequestInv
<1>16. ASSUME NEW r \in Runs, Take(r) PROVE NewInv'
  <2>1. row[run[r].file].up \in Runs \cup {None}
    BY <1>16 DEF Take, IInv, RunInv, ParkedInv
  <2>2. \A x \in Runs : run'[x] = run[x] \/ (x = r /\ run'[r].file = run[r].file /\
        run'[r].at \in {"end", "abort", "open"} /\ (run'[r].at # "end" =>
        ~row[run[r].file].landed))
    BY <1>16, <2>1, TakeRun DEF IInv
  <2>3. run[r].at # "free" /\ UNCHANGED <<row, object, outbox>>
    BY <1>16 DEF Take
  <2>. QED
    BY <1>16, <2>1, <2>2, <2>3 DEF IInv, NewInv
<1>17. ASSUME NEW r \in Runs, AbortStale(r) PROVE NewInv'
  BY <1>17, Names DEF AbortStale, AbortAll, Goto, IInv, TypeOK, Files, Uploads,
      NewInv, RunInv, RequestInv
<1>18. ASSUME NEW r \in Runs, ClearStale(r) PROVE NewInv'
  BY <1>18, Names DEF ClearStale, Exists, Goto, IInv, TypeOK, Files, Uploads,
      NewInv, RunInv, RequestInv
<1>19. ASSUME NEW r \in Runs, OpenUpload(r) PROVE NewInv'
  BY <1>19, Names DEF OpenUpload, Goto, IInv, TypeOK, Files, Uploads, NewInv,
      RunInv, RequestInv
<1>20. ASSUME NEW r \in Runs, Park(r) PROVE NewInv'
  BY <1>20, Names DEF Park, Exists, Goto, IInv, TypeOK, Files, Uploads, NewInv,
      RunInv, RequestInv
<1>21. ASSUME NEW r \in Runs, Stream(r) PROVE NewInv'
  BY <1>21, Names DEF Stream, AbortAll, Goto, IInv, TypeOK, Files, Uploads, NewInv,
      RunInv, RequestInv
<1>22. ASSUME NEW r \in Runs, Save(r) PROVE NewInv'
  BY <1>22, Names DEF Save, Exists, Goto, IInv, TypeOK, Files, Uploads, NewInv,
      RunInv, RequestInv
<1>23. ASSUME NEW r \in Runs, FailAbort(r) PROVE NewInv'
  BY <1>23, Names DEF FailAbort, AbortAll, Goto, IInv, TypeOK, Files, Uploads,
      NewInv, RunInv, RequestInv
<1>24. ASSUME NEW r \in Runs, FailDelete(r) PROVE NewInv'
  BY <1>24, Names DEF FailDelete, DeleteAll, Goto, IInv, TypeOK, Files, Uploads,
      NewInv, RunInv, RequestInv
<1>25. ASSUME NEW r \in Runs, FailSave(r) PROVE NewInv'
  BY <1>25, Names DEF FailSave, Exists, Goto, IInv, TypeOK, Files, Uploads, NewInv,
      RunInv, RequestInv
<1>26. ASSUME NEW r \in Runs, Redeliver(r) PROVE NewInv'
  <2>1. \A x \in Runs : run'[x].at # "free" => \E y \in Runs : run[y].at # "free"
        /\ run'[x].file = run[y].file
    BY <1>26, RedeliverRun DEF IInv
  <2>2. UNCHANGED <<row, object, outbox>>
    BY <1>26 DEF Redeliver
  <2>. QED
    BY <1>26, <2>1, <2>2 DEF IInv, NewInv
<1>27. ASSUME NEW f \in Files, AddBegin(f) PROVE NewInv'
  BY <1>27, Names DEF AddBegin, IInv, TypeOK, Files, Uploads, NewInv, RunInv,
      RequestInv
<1>28. ASSUME NEW f \in Browser, CompleteRejected(f) PROVE NewInv'
  BY <1>28, Names DEF CompleteRejected, IInv, TypeOK, Files, Uploads, NewInv,
      RunInv, RequestInv
<1>29. ASSUME SweepBegin \/ SweepKnown \/ SweepUploads PROVE NewInv'
  BY <1>29, Names DEF SweepBegin, SweepKnown, SweepUploads, IInv, TypeOK, Files,
      Uploads, NewInv, RunInv, RequestInv
<1>30. CASE UNCHANGED vars
  BY <1>30, Names DEF vars, IInv, TypeOK, Files, Uploads, NewInv, RunInv,
      RequestInv
<1>. QED
  BY <1>1, <1>2, <1>3, <1>4, <1>5, <1>6, <1>7, <1>8, <1>9, <1>10, <1>11, <1>12,
      <1>13, <1>14, <1>15, <1>16, <1>17, <1>18, <1>19, <1>20, <1>21, <1>22, <1>23,
      <1>24, <1>25, <1>26, <1>27, <1>28, <1>29, <1>30 DEF Next, Commit, Import,
      Sweep

\* A request finds at its commit what it left.
LEMMA RequestInvNext == IInv /\ [Next]_vars => RequestInv'
<1> SUFFICES ASSUME IInv, [Next]_vars PROVE RequestInv'
  OBVIOUS
<1>1. ASSUME NEW f \in Files, AddBegin(f) PROVE RequestInv'
  BY <1>1, Names DEF AddBegin, Unlocked, IInv, TypeOK, Files, Uploads, RequestInv,
      RunInv, NewInv, OldObjects
<1>2. ASSUME NEW f \in Files, RemoveBegin(f) PROVE RequestInv'
  BY <1>2, Names DEF RemoveBegin, Unlocked, Held, CleanUp, AbortAll, DeleteAll,
      UploadsOf, IInv, TypeOK, Files, Uploads, RequestInv, RunInv, NewInv,
      OldObjects
<1>3. ASSUME NEW f \in Files, Send(f) PROVE RequestInv'
  BY <1>3, Names DEF Send, Queue, Exists, IInv, TypeOK, Files, Uploads, RequestInv,
      RunInv, NewInv, OldObjects, Unlocked
<1>4. ASSUME NEW f \in Browser, CompleteBegin(f) PROVE RequestInv'
  BY <1>4, Names DEF CompleteBegin, Completing, Unlocked, Held, AbortAll, IInv,
      TypeOK, Files, Uploads, RequestInv, RunInv, NewInv, OldObjects
<1>5. ASSUME NEW f \in Browser, CompleteRejected(f) PROVE RequestInv'
  BY <1>5, Names DEF CompleteRejected, Completing, Unlocked, Held, AbortAll,
      UploadsOf, IInv, TypeOK, Files, Uploads, RequestInv, RunInv, NewInv,
      OldObjects
<1>6. ASSUME NEW f \in Browser, CompleteMismatch(f) PROVE RequestInv'
  BY <1>6, Names DEF CompleteMismatch, Completing, Unlocked, Held, AbortAll,
      UploadsOf, IInv, TypeOK, Files, Uploads, RequestInv, RunInv, NewInv,
      OldObjects
<1>7. ASSUME AddEnd PROVE RequestInv'
  BY <1>7, Names DEF AddEnd, NoRow, NoReq, IInv, TypeOK, Files, Uploads,
      RequestInv, RunInv, NewInv, OldObjects, Unlocked
<1>8. ASSUME AddFails PROVE RequestInv'
  BY <1>8, Names DEF AddFails, AbortAll, NoRow, NoReq, IInv, TypeOK, Files,
      Uploads, RequestInv, RunInv, NewInv, OldObjects, Unlocked
<1>9. ASSUME LandEnd PROVE RequestInv'
  BY <1>9, Names DEF LandEnd, NoReq, IInv, TypeOK, Files, Uploads, RequestInv,
      RunInv, NewInv, OldObjects, Unlocked
<1>10. ASSUME RemovalEnd PROVE RequestInv'
  BY <1>10, Names DEF RemovalEnd, NoRow, NoReq, Held, IInv, TypeOK, Files, Uploads,
      RequestInv, RunInv, NewInv, OldObjects, Unlocked
<1>11. ASSUME DropBegin PROVE RequestInv'
  BY <1>11, Names DEF DropBegin, Unlocked, Held, CleanUp, AbortAll, DeleteAll,
      UploadsOf, IInv, TypeOK, Files, Uploads, RequestInv, RunInv, NewInv,
      OldObjects
<1>12. ASSUME Rollback PROVE RequestInv'
  BY <1>12, Names DEF Rollback, NoRow, NoReq, IInv, TypeOK, Files, Uploads,
      RequestInv, RunInv, NewInv, OldObjects, Unlocked
<1>13. ASSUME StartImports PROVE RequestInv'
  BY <1>13, Names DEF StartImports, Finalizable, Held, Unlocked, IInv, TypeOK,
      Files, Uploads, RequestInv, RunInv, NewInv, OldObjects
<1>14. ASSUME Share PROVE RequestInv'
  BY <1>14, Names DEF Share, Finalizable, Held, Unlocked, IInv, TypeOK, Files,
      Uploads, RequestInv, RunInv, NewInv, OldObjects
<1>15. ASSUME SweepObjects PROVE RequestInv'
  BY <1>15, Names DEF SweepObjects, DeleteAll, OldObjects, IInv, TypeOK, Files,
      Uploads, RequestInv, RunInv, NewInv, Unlocked
<1>16. ASSUME SweepUploads PROVE RequestInv'
  BY <1>16, Names DEF SweepUploads, AbortAll, NoSweep, IInv, TypeOK, Files,
      Uploads, RequestInv, RunInv, NewInv, OldObjects, Unlocked
<1>17. ASSUME Day PROVE RequestInv'
  BY <1>17, Names DEF Day, Unlocked, NoSweep, Active, NoReq, IInv, TypeOK, Files,
      Uploads, RequestInv, RunInv, NewInv, OldObjects
<1>18. ASSUME NEW r \in Runs, AbortStale(r) PROVE RequestInv'
  BY <1>18, Names DEF AbortStale, AbortAll, Goto, IInv, TypeOK, Files, Uploads,
      RequestInv, RunInv, NewInv, OldObjects, Unlocked
<1>19. ASSUME NEW r \in Runs, ClearStale(r) PROVE RequestInv'
  BY <1>19, Names DEF ClearStale, Exists, Goto, IInv, TypeOK, Files, Uploads,
      RequestInv, RunInv, NewInv, OldObjects, Unlocked
<1>20. ASSUME NEW r \in Runs, OpenUpload(r) PROVE RequestInv'
  BY <1>20, Names DEF OpenUpload, Goto, IInv, TypeOK, Files, Uploads, RequestInv,
      RunInv, NewInv, OldObjects, Unlocked
<1>21. ASSUME NEW r \in Runs, Park(r) PROVE RequestInv'
  BY <1>21, Names DEF Park, Exists, Goto, IInv, TypeOK, Files, Uploads, RequestInv,
      RunInv, NewInv, OldObjects, Unlocked
<1>22. ASSUME NEW r \in Runs, Stream(r) PROVE RequestInv'
  BY <1>22, Names DEF Stream, AbortAll, Goto, IInv, TypeOK, Files, Uploads,
      RequestInv, RunInv, NewInv, OldObjects, Unlocked
<1>23. ASSUME NEW r \in Runs, Save(r) PROVE RequestInv'
  BY <1>23, Names DEF Save, Exists, Goto, IInv, TypeOK, Files, Uploads, RequestInv,
      RunInv, NewInv, OldObjects, Unlocked
<1>24. ASSUME NEW r \in Runs, FailAbort(r) PROVE RequestInv'
  BY <1>24, Names DEF FailAbort, AbortAll, Goto, IInv, TypeOK, Files, Uploads,
      RequestInv, RunInv, NewInv, OldObjects, Unlocked
<1>25. ASSUME NEW r \in Runs, FailDelete(r) PROVE RequestInv'
  BY <1>25, Names DEF FailDelete, DeleteAll, Goto, IInv, TypeOK, Files, Uploads,
      RequestInv, RunInv, NewInv, OldObjects, Unlocked
<1>26. ASSUME NEW r \in Runs, FailSave(r) PROVE RequestInv'
  BY <1>26, Names DEF FailSave, Exists, Goto, IInv, TypeOK, Files, Uploads,
      RequestInv, RunInv, NewInv, OldObjects, Unlocked
<1>27. ASSUME LoseOutbox \/ SweepBegin \/ SweepKnown PROVE RequestInv'
  BY <1>27, Names DEF LoseOutbox, SweepBegin, SweepKnown, IInv, TypeOK, Files,
      Uploads, RequestInv, RunInv, NewInv, OldObjects, Unlocked
<1>28. ASSUME NEW r \in Runs, Take(r) \/ Redeliver(r) PROVE RequestInv'
  BY <1>28, Names DEF Take, Redeliver, IInv, TypeOK, Files, Uploads, RequestInv,
      RunInv, NewInv, OldObjects, Unlocked
<1>29. CASE UNCHANGED vars
  BY <1>29, Names DEF vars, IInv, TypeOK, Files, Uploads, RequestInv, RunInv,
      NewInv, OldObjects, Unlocked
<1>. QED
  BY <1>1, <1>2, <1>3, <1>4, <1>5, <1>6, <1>7, <1>8, <1>9, <1>10, <1>11, <1>12,
      <1>13, <1>14, <1>15, <1>16, <1>17, <1>18, <1>19, <1>20, <1>21, <1>22, <1>23,
      <1>24, <1>25, <1>26, <1>27, <1>28, <1>29 DEF Next, Commit, Import, Sweep

\* Two runs of a file leave a mark.
LEMMA OneRunInvNext == IInv /\ [Next]_vars => OneRunInv'
<1> SUFFICES ASSUME IInv, [Next]_vars PROVE OneRunInv'
  OBVIOUS
<1>1. ASSUME NEW f \in Files, Send(f) PROVE OneRunInv'
  <2>1. \A x \in Runs : (run'[x] = run[x] \/ run'[x].at = "queued")
    BY <1>1, SendRun DEF IInv, Send, TypeOK
  <2>2. UNCHANGED slips
    BY <1>1 DEF Send
  <2>. QED
    BY <1>1, <2>1, <2>2 DEF IInv, OneRunInv, Active
<1>2. ASSUME Rollback PROVE OneRunInv'
  BY <1>2, Names DEF Rollback, NoRow, NoReq, IInv, TypeOK, Files, Uploads,
      OneRunInv, RunInv, Active
<1>3. ASSUME NEW r \in Runs, Take(r) PROVE OneRunInv'
  <2>1. row[run[r].file].up \in Runs \cup {None}
    BY <1>3 DEF Take, IInv, RunInv, ParkedInv
  <2>2. \A x \in Runs : run'[x] = run[x] \/ (x = r /\ run'[r].file = run[r].file /\
        run'[r].at \in {"end", "abort", "open"} /\ (run'[r].at # "end" =>
        ~row[run[r].file].landed))
    BY <1>3, <2>1, TakeRun DEF IInv
  <2>3. "twice" \notin slips' => "twice" \notin slips /\ \A x \in Runs \ {r} :
        Active(x) => run[x].file # run[r].file
    BY <1>3 DEF Take
  <2>. QED
    BY <1>3, <2>1, <2>2, <2>3 DEF IInv, OneRunInv, Active
<1>4. ASSUME NEW r \in Runs, AbortStale(r) PROVE OneRunInv'
  BY <1>4, Names DEF AbortStale, AbortAll, Goto, IInv, TypeOK, Files, Uploads,
      OneRunInv, RunInv, Active
<1>5. ASSUME NEW r \in Runs, ClearStale(r) PROVE OneRunInv'
  BY <1>5, Names DEF ClearStale, Exists, Goto, IInv, TypeOK, Files, Uploads,
      OneRunInv, RunInv, Active
<1>6. ASSUME NEW r \in Runs, OpenUpload(r) PROVE OneRunInv'
  BY <1>6, Names DEF OpenUpload, Goto, IInv, TypeOK, Files, Uploads, OneRunInv,
      RunInv, Active
<1>7. ASSUME NEW r \in Runs, Park(r) PROVE OneRunInv'
  BY <1>7, Names DEF Park, Exists, Goto, IInv, TypeOK, Files, Uploads, OneRunInv,
      RunInv, Active
<1>8. ASSUME NEW r \in Runs, Stream(r) PROVE OneRunInv'
  BY <1>8, Names DEF Stream, AbortAll, Goto, IInv, TypeOK, Files, Uploads,
      OneRunInv, RunInv, Active
<1>9. ASSUME NEW r \in Runs, Save(r) PROVE OneRunInv'
  BY <1>9, Names DEF Save, Exists, Goto, IInv, TypeOK, Files, Uploads, OneRunInv,
      RunInv, Active
<1>10. ASSUME NEW r \in Runs, FailAbort(r) PROVE OneRunInv'
  BY <1>10, Names DEF FailAbort, AbortAll, Goto, IInv, TypeOK, Files, Uploads,
      OneRunInv, RunInv, Active
<1>11. ASSUME NEW r \in Runs, FailDelete(r) PROVE OneRunInv'
  BY <1>11, Names DEF FailDelete, DeleteAll, Goto, IInv, TypeOK, Files, Uploads,
      OneRunInv, RunInv, Active
<1>12. ASSUME NEW r \in Runs, FailSave(r) PROVE OneRunInv'
  BY <1>12, Names DEF FailSave, Exists, Goto, IInv, TypeOK, Files, Uploads,
      OneRunInv, RunInv, Active
<1>13. ASSUME NEW r \in Runs, Redeliver(r) PROVE OneRunInv'
  BY <1>13, Names DEF Redeliver, Active, IInv, TypeOK, Files, Uploads, OneRunInv,
      RunInv
<1>14. ASSUME NEW f \in Files, AddBegin(f) \/ RemoveBegin(f) PROVE OneRunInv'
  BY <1>14, Names DEF AddBegin, RemoveBegin, IInv, TypeOK, Files, Uploads,
      OneRunInv, RunInv, Active
<1>15. ASSUME NEW f \in Browser, CompleteBegin(f) \/ CompleteRejected(f) \/
          CompleteMismatch(f) PROVE OneRunInv'
  BY <1>15, Names DEF CompleteBegin, CompleteRejected, CompleteMismatch, IInv,
      TypeOK, Files, Uploads, OneRunInv, RunInv, Active
<1>16. ASSUME AddEnd \/ AddFails \/ LandEnd \/ RemovalEnd \/ DropBegin \/
          StartImports \/ LoseOutbox \/ Share \/ SweepBegin \/ SweepObjects \/
          SweepKnown \/ SweepUploads \/ Day PROVE OneRunInv'
  BY <1>16, Names DEF AddEnd, AddFails, LandEnd, RemovalEnd, DropBegin,
      StartImports, LoseOutbox, Share, SweepBegin, SweepObjects, SweepKnown,
      SweepUploads, Day, IInv, TypeOK, Files, Uploads, OneRunInv, RunInv, Active
<1>17. CASE UNCHANGED vars
  BY <1>17, Names DEF vars, IInv, TypeOK, Files, Uploads, OneRunInv, RunInv, Active
<1>. QED
  BY <1>1, <1>2, <1>3, <1>4, <1>5, <1>6, <1>7, <1>8, <1>9, <1>10, <1>11, <1>12,
      <1>13, <1>14, <1>15, <1>16, <1>17 DEF Next, Commit, Import, Sweep

\* A file lands once.
LEMMA ImportInvNext == IInv /\ [Next]_vars => ImportInv'
<1> SUFFICES ASSUME IInv, [Next]_vars PROVE ImportInv'
  OBVIOUS
<1>1. ASSUME NEW f \in Files, Send(f) PROVE ImportInv'
  <2>1. \A x \in Runs : (run'[x] = run[x] \/ run'[x].at = "queued")
    BY <1>1, SendRun DEF IInv, Send, TypeOK
  <2>2. \A g \in Files : row'[g].landed = row[g].landed
    BY <1>1, StampRow DEF IInv
  <2>3. UNCHANGED slips
    BY <1>1 DEF Send
  <2>. QED
    BY <1>1, <2>1, <2>2, <2>3 DEF IInv, ImportInv, RunInv, Active, Files
<1>2. ASSUME AddEnd PROVE ImportInv'
  BY <1>2, Names DEF AddEnd, NoRow, NoReq, IInv, TypeOK, Files, Uploads, ImportInv,
      RunInv, OneRunInv, Active, RequestInv, NewInv
<1>3. ASSUME AddFails PROVE ImportInv'
  BY <1>3, Names DEF AddFails, AbortAll, NoRow, NoReq, IInv, TypeOK, Files,
      Uploads, ImportInv, RunInv, OneRunInv, Active, RequestInv, NewInv
<1>4. ASSUME LandEnd PROVE ImportInv'
  BY <1>4, Names DEF LandEnd, NoReq, IInv, TypeOK, Files, Uploads, ImportInv,
      RunInv, OneRunInv, Active, RequestInv, NewInv
<1>5. ASSUME RemovalEnd PROVE ImportInv'
  BY <1>5, Names DEF RemovalEnd, NoRow, NoReq, Held, IInv, TypeOK, Files, Uploads,
      ImportInv, RunInv, OneRunInv, Active, RequestInv, NewInv
<1>6. ASSUME Rollback PROVE ImportInv'
  BY <1>6, Names DEF Rollback, NoRow, NoReq, IInv, TypeOK, Files, Uploads,
      ImportInv, RunInv, OneRunInv, Active, RequestInv, NewInv
<1>7. ASSUME StartImports PROVE ImportInv'
  BY <1>7, Names DEF StartImports, Finalizable, Held, Unlocked, IInv, TypeOK,
      Files, Uploads, ImportInv, RunInv, OneRunInv, Active, RequestInv, NewInv
<1>8. ASSUME Share PROVE ImportInv'
  BY <1>8, Names DEF Share, Finalizable, Held, Unlocked, IInv, TypeOK, Files,
      Uploads, ImportInv, RunInv, OneRunInv, Active, RequestInv, NewInv
<1>9. ASSUME NEW r \in Runs, Take(r) PROVE ImportInv'
  <2>1. row[run[r].file].up \in Runs \cup {None}
    BY <1>9 DEF Take, IInv, RunInv, ParkedInv
  <2>2. \A x \in Runs : run'[x] = run[x] \/ (x = r /\ run'[r].file = run[r].file /\
        run'[r].at \in {"end", "abort", "open"} /\ (run'[r].at # "end" =>
        ~row[run[r].file].landed))
    BY <1>9, <2>1, TakeRun DEF IInv
  <2>3. row' = row /\ slips \subseteq slips'
    BY <1>9 DEF Take
  <2>. QED
    BY <1>9, <2>1, <2>2, <2>3 DEF IInv, ImportInv, Active
<1>10. ASSUME NEW r \in Runs, AbortStale(r) PROVE ImportInv'
  BY <1>10, Names DEF AbortStale, AbortAll, Goto, IInv, TypeOK, Files, Uploads,
      ImportInv, RunInv, OneRunInv, Active, RequestInv, NewInv
<1>11. ASSUME NEW r \in Runs, ClearStale(r) PROVE ImportInv'
  BY <1>11, Names DEF ClearStale, Exists, Goto, IInv, TypeOK, Files, Uploads,
      ImportInv, RunInv, OneRunInv, Active, RequestInv, NewInv
<1>12. ASSUME NEW r \in Runs, OpenUpload(r) PROVE ImportInv'
  BY <1>12, Names DEF OpenUpload, Goto, IInv, TypeOK, Files, Uploads, ImportInv,
      RunInv, OneRunInv, Active, RequestInv, NewInv
<1>13. ASSUME NEW r \in Runs, Park(r) PROVE ImportInv'
  <2>1. Active(r) /\ ~Save(r)
    BY <1>13 DEF Park, Save, Active
  <2>2. \A g \in Files : row'[g].landed = row[g].landed
    BY <1>13, <2>1, RunRow DEF IInv
  <2>3. Goto(r, "stream") \/ Goto(r, "failAbort")
    BY <1>13 DEF Park
  <2>4. \A x \in Runs : run'[x].file = run[x].file /\ (run'[x] = run[x] \/ x = r)
    BY <1>13, <2>3, RunGoto DEF IInv, RunSteps
  <2>5. UNCHANGED slips
    BY <1>13 DEF Park
  <2>. QED
    BY <1>13, <2>1, <2>2, <2>3, <2>4, <2>5 DEF IInv, ImportInv, RunInv, Active, Files
<1>14. ASSUME NEW r \in Runs, Stream(r) PROVE ImportInv'
  BY <1>14, Names DEF Stream, AbortAll, Goto, IInv, TypeOK, Files, Uploads,
      ImportInv, RunInv, OneRunInv, Active, RequestInv, NewInv
<1>15. ASSUME NEW r \in Runs, Save(r) PROVE ImportInv'
  BY <1>15, Names DEF Save, Exists, Goto, IInv, TypeOK, Files, Uploads, ImportInv,
      RunInv, OneRunInv, Active, RequestInv, NewInv
<1>16. ASSUME NEW r \in Runs, FailAbort(r) PROVE ImportInv'
  BY <1>16, Names DEF FailAbort, AbortAll, Goto, IInv, TypeOK, Files, Uploads,
      ImportInv, RunInv, OneRunInv, Active, RequestInv, NewInv
<1>17. ASSUME NEW r \in Runs, FailDelete(r) PROVE ImportInv'
  BY <1>17, Names DEF FailDelete, DeleteAll, Goto, IInv, TypeOK, Files, Uploads,
      ImportInv, RunInv, OneRunInv, Active, RequestInv, NewInv
<1>18. ASSUME NEW r \in Runs, FailSave(r) PROVE ImportInv'
  BY <1>18, Names DEF FailSave, Exists, Goto, IInv, TypeOK, Files, Uploads,
      ImportInv, RunInv, OneRunInv, Active, RequestInv, NewInv
<1>19. ASSUME NEW r \in Runs, Redeliver(r) PROVE ImportInv'
  BY <1>19, Names DEF Redeliver, Active, IInv, TypeOK, Files, Uploads, ImportInv,
      RunInv, OneRunInv, RequestInv, NewInv
<1>20. ASSUME NEW f \in Files, AddBegin(f) \/ RemoveBegin(f) PROVE ImportInv'
  BY <1>20, Names DEF AddBegin, RemoveBegin, IInv, TypeOK, Files, Uploads,
      ImportInv, RunInv, OneRunInv, Active, RequestInv, NewInv
<1>21. ASSUME NEW f \in Browser, CompleteBegin(f) \/ CompleteRejected(f) \/
          CompleteMismatch(f) PROVE ImportInv'
  BY <1>21, Names DEF CompleteBegin, CompleteRejected, CompleteMismatch, IInv,
      TypeOK, Files, Uploads, ImportInv, RunInv, OneRunInv, Active, RequestInv,
      NewInv
<1>22. ASSUME DropBegin \/ LoseOutbox \/ SweepBegin \/ SweepObjects \/ SweepKnown
          \/ SweepUploads \/ Day PROVE ImportInv'
  BY <1>22, Names DEF DropBegin, LoseOutbox, SweepBegin, SweepObjects, SweepKnown,
      SweepUploads, Day, IInv, TypeOK, Files, Uploads, ImportInv, RunInv,
      OneRunInv, Active, RequestInv, NewInv
<1>23. CASE UNCHANGED vars
  BY <1>23, Names DEF vars, IInv, TypeOK, Files, Uploads, ImportInv, RunInv,
      OneRunInv, Active, RequestInv, NewInv
<1>. QED
  BY <1>1, <1>2, <1>3, <1>4, <1>5, <1>6, <1>7, <1>8, <1>9, <1>10, <1>11, <1>12,
      <1>13, <1>14, <1>15, <1>16, <1>17, <1>18, <1>19, <1>20, <1>21, <1>22, <1>23
      DEF Next, Commit, Import, Sweep

\* The object of a run that saves is there, or its row goes.
LEMMA SaveInvNext == IInv /\ [Next]_vars => SaveInv'
<1> SUFFICES ASSUME IInv, [Next]_vars PROVE SaveInv'
  OBVIOUS
<1>1. ASSUME NEW f \in Files, AddBegin(f) PROVE SaveInv'
  BY <1>1, Names DEF AddBegin, Unlocked, IInv, TypeOK, Files, Uploads, SaveInv,
      RunInv, OneRunInv, Active, RequestInv, NewInv, Exists, Leaving, NoReq
<1>2. ASSUME NEW f \in Files, RemoveBegin(f) PROVE SaveInv'
  BY <1>2, Names DEF RemoveBegin, Unlocked, Held, CleanUp, AbortAll, DeleteAll,
      UploadsOf, IInv, TypeOK, Files, Uploads, SaveInv, RunInv, OneRunInv, Active,
      RequestInv, NewInv, Exists, Leaving, NoReq
<1>3. ASSUME NEW f \in Files, Send(f) PROVE SaveInv'
  <2>1. \A x \in Runs : (run'[x] = run[x] \/ run'[x].at = "queued")
    BY <1>3, SendRun DEF IInv, Send, TypeOK
  <2>2. \A g \in Files : row'[g].at = row[g].at
    BY <1>3, StampRow DEF IInv
  <2>3. UNCHANGED <<slips, req, object>>
    BY <1>3 DEF Send
  <2>. QED
    BY <1>3, <2>1, <2>2, <2>3 DEF IInv, TypeOK, Files, SaveInv, RunInv, Exists,
        Leaving
<1>4. ASSUME NEW f \in Browser, CompleteBegin(f) PROVE SaveInv'
  BY <1>4, Names DEF CompleteBegin, Completing, Unlocked, Held, AbortAll, IInv,
      TypeOK, Files, Uploads, SaveInv, RunInv, OneRunInv, Active, RequestInv,
      NewInv, Exists, Leaving, NoReq
<1>5. ASSUME NEW f \in Browser, CompleteRejected(f) PROVE SaveInv'
  BY <1>5, Names DEF CompleteRejected, Completing, Unlocked, Held, AbortAll,
      UploadsOf, IInv, TypeOK, Files, Uploads, SaveInv, RunInv, OneRunInv, Active,
      RequestInv, NewInv, Exists, Leaving, NoReq
<1>6. ASSUME NEW f \in Browser, CompleteMismatch(f) PROVE SaveInv'
  BY <1>6, Names DEF CompleteMismatch, Completing, Unlocked, Held, AbortAll,
      UploadsOf, IInv, TypeOK, Files, Uploads, SaveInv, RunInv, OneRunInv, Active,
      RequestInv, NewInv, Exists, Leaving, NoReq
<1>7. ASSUME AddEnd PROVE SaveInv'
  BY <1>7, Names DEF AddEnd, NoRow, NoReq, IInv, TypeOK, Files, Uploads, SaveInv,
      RunInv, OneRunInv, Active, RequestInv, NewInv, Exists, Leaving
<1>8. ASSUME AddFails PROVE SaveInv'
  BY <1>8, Names DEF AddFails, AbortAll, NoRow, NoReq, IInv, TypeOK, Files,
      Uploads, SaveInv, RunInv, OneRunInv, Active, RequestInv, NewInv, Exists,
      Leaving
<1>9. ASSUME LandEnd PROVE SaveInv'
  BY <1>9, Names DEF LandEnd, NoReq, IInv, TypeOK, Files, Uploads, SaveInv, RunInv,
      OneRunInv, Active, RequestInv, NewInv, Exists, Leaving
<1>10. ASSUME RemovalEnd PROVE SaveInv'
  BY <1>10, Names DEF RemovalEnd, NoRow, NoReq, Held, IInv, TypeOK, Files, Uploads,
      SaveInv, RunInv, OneRunInv, Active, RequestInv, NewInv, Exists, Leaving
<1>11. ASSUME DropBegin PROVE SaveInv'
  BY <1>11, Names DEF DropBegin, Unlocked, Held, CleanUp, AbortAll, DeleteAll,
      UploadsOf, IInv, TypeOK, Files, Uploads, SaveInv, RunInv, OneRunInv, Active,
      RequestInv, NewInv, Exists, Leaving, NoReq
<1>12. ASSUME Rollback PROVE SaveInv'
  BY <1>12, Names DEF Rollback, NoRow, NoReq, IInv, TypeOK, Files, Uploads,
      SaveInv, RunInv, OneRunInv, Active, RequestInv, NewInv, Exists, Leaving
<1>13. ASSUME StartImports PROVE SaveInv'
  BY <1>13, Names DEF StartImports, Finalizable, Held, Unlocked, IInv, TypeOK,
      Files, Uploads, SaveInv, RunInv, OneRunInv, Active, RequestInv, NewInv,
      Exists, Leaving, NoReq
<1>14. ASSUME Share PROVE SaveInv'
  BY <1>14, Names DEF Share, Finalizable, Held, Unlocked, IInv, TypeOK, Files,
      Uploads, SaveInv, RunInv, OneRunInv, Active, RequestInv, NewInv, Exists,
      Leaving, NoReq
<1>15. ASSUME SweepObjects PROVE SaveInv'
  BY <1>15, Names DEF SweepObjects, DeleteAll, OldObjects, IInv, TypeOK, Files,
      Uploads, SaveInv, RunInv, OneRunInv, Active, RequestInv, NewInv, Exists,
      Leaving, NoReq
<1>16. ASSUME Day PROVE SaveInv'
  BY <1>16, Names DEF Day, Unlocked, NoSweep, Active, NoReq, IInv, TypeOK, Files,
      Uploads, SaveInv, RunInv, OneRunInv, RequestInv, NewInv, Exists, Leaving
<1>17. ASSUME NEW r \in Runs, Take(r) PROVE SaveInv'
  <2>1. row[run[r].file].up \in Runs \cup {None}
    BY <1>17 DEF Take, IInv, RunInv, ParkedInv
  <2>2. \A x \in Runs : run'[x] = run[x] \/ (x = r /\ run'[r].file = run[r].file /\
        run'[r].at \in {"end", "abort", "open"} /\ (run'[r].at # "end" =>
        ~row[run[r].file].landed))
    BY <1>17, <2>1, TakeRun DEF IInv
  <2>3. UNCHANGED <<row, req, object>> /\ slips \subseteq slips'
    BY <1>17 DEF Take
  <2>. QED
    BY <1>17, <2>1, <2>2, <2>3 DEF IInv, SaveInv, Exists, Leaving
<1>18. ASSUME NEW r \in Runs, AbortStale(r) PROVE SaveInv'
  BY <1>18, Names DEF AbortStale, AbortAll, Goto, IInv, TypeOK, Files, Uploads,
      SaveInv, RunInv, OneRunInv, Active, RequestInv, NewInv, Exists, Leaving,
      NoReq
<1>19. ASSUME NEW r \in Runs, ClearStale(r) PROVE SaveInv'
  BY <1>19, Names DEF ClearStale, Exists, Goto, IInv, TypeOK, Files, Uploads,
      SaveInv, RunInv, OneRunInv, Active, RequestInv, NewInv, Leaving, NoReq
<1>20. ASSUME NEW r \in Runs, OpenUpload(r) PROVE SaveInv'
  BY <1>20, Names DEF OpenUpload, Goto, IInv, TypeOK, Files, Uploads, SaveInv,
      RunInv, OneRunInv, Active, RequestInv, NewInv, Exists, Leaving, NoReq
<1>21. ASSUME NEW r \in Runs, Park(r) PROVE SaveInv'
  BY <1>21, Names DEF Park, Exists, Goto, IInv, TypeOK, Files, Uploads, SaveInv,
      RunInv, OneRunInv, Active, RequestInv, NewInv, Leaving, NoReq
<1>22. ASSUME NEW r \in Runs, Stream(r) PROVE SaveInv'
  BY <1>22, Names DEF Stream, AbortAll, Goto, IInv, TypeOK, Files, Uploads,
      SaveInv, RunInv, OneRunInv, Active, RequestInv, NewInv, Exists, Leaving,
      NoReq
<1>23. ASSUME NEW r \in Runs, Save(r) PROVE SaveInv'
  <2>1. Goto(r, "end") \/ Goto(r, "failAbort")
    BY <1>23 DEF Save
  <2>2. \A x \in Runs : (run'[x] = run[x] \/ run'[x].at # "save")
    BY <1>23, <2>1, RunGoto DEF IInv, RunSteps
  <2>3. \A g \in Files : row'[g].at = row[g].at
    BY <1>23, RunRow DEF IInv
  <2>4. UNCHANGED <<slips, req, object>>
    BY <1>23 DEF Save
  <2>. QED
    BY <1>23, <2>1, <2>2, <2>3, <2>4 DEF IInv, TypeOK, Files, SaveInv, RunInv, Exists,
        Leaving
<1>24. ASSUME NEW r \in Runs, FailAbort(r) PROVE SaveInv'
  BY <1>24, Names DEF FailAbort, AbortAll, Goto, IInv, TypeOK, Files, Uploads,
      SaveInv, RunInv, OneRunInv, Active, RequestInv, NewInv, Exists, Leaving,
      NoReq
<1>25. ASSUME NEW r \in Runs, FailDelete(r) PROVE SaveInv'
  BY <1>25, Names DEF FailDelete, DeleteAll, Goto, IInv, TypeOK, Files, Uploads,
      SaveInv, RunInv, OneRunInv, Active, RequestInv, NewInv, Exists, Leaving,
      NoReq
<1>26. ASSUME NEW r \in Runs, FailSave(r) PROVE SaveInv'
  <2>1. Goto(r, "end")
    BY <1>26 DEF FailSave
  <2>2. \A x \in Runs : (run'[x] = run[x] \/ run'[x].at = "end")
    BY <1>26, <2>1, RunGoto DEF IInv, RunSteps
  <2>3. \A g \in Files : row'[g].at = row[g].at
    BY <1>26, RunRow DEF IInv
  <2>4. UNCHANGED <<slips, req, object>>
    BY <1>26 DEF FailSave
  <2>. QED
    BY <1>26, <2>1, <2>2, <2>3, <2>4 DEF IInv, TypeOK, Files, SaveInv, RunInv, Exists,
        Leaving
<1>27. ASSUME NEW r \in Runs, Redeliver(r) PROVE SaveInv'
  BY <1>27, Names DEF Redeliver, Active, IInv, TypeOK, Files, Uploads, SaveInv,
      RunInv, OneRunInv, RequestInv, NewInv, Exists, Leaving, NoReq
<1>28. ASSUME LoseOutbox \/ SweepBegin \/ SweepKnown \/ SweepUploads PROVE SaveInv'
  BY <1>28, Names DEF LoseOutbox, SweepBegin, SweepKnown, SweepUploads, IInv,
      TypeOK, Files, Uploads, SaveInv, RunInv, OneRunInv, Active, RequestInv,
      NewInv, Exists, Leaving, NoReq
<1>29. CASE UNCHANGED vars
  BY <1>29, Names DEF vars, IInv, TypeOK, Files, Uploads, SaveInv, RunInv,
      OneRunInv, Active, RequestInv, NewInv, Exists, Leaving, NoReq
<1>. QED
  BY <1>1, <1>2, <1>3, <1>4, <1>5, <1>6, <1>7, <1>8, <1>9, <1>10, <1>11, <1>12,
      <1>13, <1>14, <1>15, <1>16, <1>17, <1>18, <1>19, <1>20, <1>21, <1>22, <1>23,
      <1>24, <1>25, <1>26, <1>27, <1>28, <1>29 DEF Next, Commit, Import, Sweep

\* Only a day makes an upload old.
LEMMA ParkInvNext == IInv /\ [Next]_vars => ParkInv'
<1> SUFFICES ASSUME IInv, [Next]_vars PROVE ParkInv'
  OBVIOUS
<1>1. ASSUME NEW f \in Files, AddBegin(f) PROVE ParkInv'
  BY <1>1, Names DEF AddBegin, Unlocked, IInv, TypeOK, Files, Uploads, ParkInv,
      RunInv, Active
<1>2. ASSUME NEW f \in Files, RemoveBegin(f) PROVE ParkInv'
  BY <1>2, Names DEF RemoveBegin, Unlocked, Held, CleanUp, AbortAll, DeleteAll,
      UploadsOf, IInv, TypeOK, Files, Uploads, ParkInv, RunInv, Active
<1>3. ASSUME NEW f \in Files, Send(f) PROVE ParkInv'
  BY <1>3, Names DEF Send, Queue, Exists, IInv, TypeOK, Files, Uploads, ParkInv,
      RunInv, Active
<1>4. ASSUME NEW f \in Browser, CompleteBegin(f) PROVE ParkInv'
  BY <1>4, Names DEF CompleteBegin, Completing, Unlocked, Held, AbortAll, IInv,
      TypeOK, Files, Uploads, ParkInv, RunInv, Active
<1>5. ASSUME NEW f \in Browser, CompleteRejected(f) PROVE ParkInv'
  BY <1>5, Names DEF CompleteRejected, Completing, Unlocked, Held, AbortAll,
      UploadsOf, IInv, TypeOK, Files, Uploads, ParkInv, RunInv, Active
<1>6. ASSUME NEW f \in Browser, CompleteMismatch(f) PROVE ParkInv'
  BY <1>6, Names DEF CompleteMismatch, Completing, Unlocked, Held, AbortAll,
      UploadsOf, IInv, TypeOK, Files, Uploads, ParkInv, RunInv, Active
<1>7. ASSUME AddFails PROVE ParkInv'
  BY <1>7, Names DEF AddFails, AbortAll, NoRow, NoReq, IInv, TypeOK, Files,
      Uploads, ParkInv, RunInv, Active
<1>8. ASSUME DropBegin PROVE ParkInv'
  BY <1>8, Names DEF DropBegin, Unlocked, Held, CleanUp, AbortAll, DeleteAll,
      UploadsOf, IInv, TypeOK, Files, Uploads, ParkInv, RunInv, Active
<1>9. ASSUME SweepUploads PROVE ParkInv'
  BY <1>9, Names DEF SweepUploads, AbortAll, NoSweep, IInv, TypeOK, Files, Uploads,
      ParkInv, RunInv, Active
<1>10. ASSUME Day PROVE ParkInv'
  BY <1>10, Names DEF Day, Unlocked, NoSweep, Active, NoReq, IInv, TypeOK, Files,
      Uploads, ParkInv, RunInv
<1>11. ASSUME NEW r \in Runs, Take(r) PROVE ParkInv'
  BY <1>11, Names DEF Take, Exists, Active, IInv, TypeOK, Files, Uploads, ParkInv,
      RunInv
<1>12. ASSUME NEW r \in Runs, AbortStale(r) PROVE ParkInv'
  BY <1>12, Names DEF AbortStale, AbortAll, Goto, IInv, TypeOK, Files, Uploads,
      ParkInv, RunInv, Active
<1>13. ASSUME NEW r \in Runs, ClearStale(r) PROVE ParkInv'
  BY <1>13, Names DEF ClearStale, Exists, Goto, IInv, TypeOK, Files, Uploads,
      ParkInv, RunInv, Active
<1>14. ASSUME NEW r \in Runs, OpenUpload(r) PROVE ParkInv'
  BY <1>14, Names DEF OpenUpload, Goto, IInv, TypeOK, Files, Uploads, ParkInv,
      RunInv, Active
<1>15. ASSUME NEW r \in Runs, Park(r) PROVE ParkInv'
  BY <1>15, Names DEF Park, Exists, Goto, IInv, TypeOK, Files, Uploads, ParkInv,
      RunInv, Active
<1>16. ASSUME NEW r \in Runs, Stream(r) PROVE ParkInv'
  BY <1>16, Names DEF Stream, AbortAll, Goto, IInv, TypeOK, Files, Uploads,
      ParkInv, RunInv, Active
<1>17. ASSUME NEW r \in Runs, Save(r) PROVE ParkInv'
  <2>1. Goto(r, "end") \/ Goto(r, "failAbort")
    BY <1>17 DEF Save
  <2>2. \A x \in Runs : (run'[x] = run[x] \/ run'[x].at # "park")
    BY <1>17, <2>1, RunGoto DEF IInv, RunSteps
  <2>3. UNCHANGED mpu
    BY <1>17 DEF Save
  <2>. QED
    BY <1>17, <2>1, <2>2, <2>3 DEF IInv, ParkInv
<1>18. ASSUME NEW r \in Runs, FailAbort(r) PROVE ParkInv'
  BY <1>18, Names DEF FailAbort, AbortAll, Goto, IInv, TypeOK, Files, Uploads,
      ParkInv, RunInv, Active
<1>19. ASSUME NEW r \in Runs, FailDelete(r) PROVE ParkInv'
  BY <1>19, Names DEF FailDelete, DeleteAll, Goto, IInv, TypeOK, Files, Uploads,
      ParkInv, RunInv, Active
<1>20. ASSUME NEW r \in Runs, FailSave(r) PROVE ParkInv'
  BY <1>20, Names DEF FailSave, Exists, Goto, IInv, TypeOK, Files, Uploads,
      ParkInv, RunInv, Active
<1>21. ASSUME NEW r \in Runs, Redeliver(r) PROVE ParkInv'
  BY <1>21, Names DEF Redeliver, Active, IInv, TypeOK, Files, Uploads, ParkInv,
      RunInv
<1>22. ASSUME AddEnd \/ LandEnd \/ RemovalEnd \/ Rollback \/ StartImports \/
          LoseOutbox \/ Share \/ SweepBegin \/ SweepObjects \/ SweepKnown PROVE
          ParkInv'
  BY <1>22, Names DEF AddEnd, LandEnd, RemovalEnd, Rollback, StartImports,
      LoseOutbox, Share, SweepBegin, SweepObjects, SweepKnown, IInv, TypeOK, Files,
      Uploads, ParkInv, RunInv, Active
<1>23. CASE UNCHANGED vars
  BY <1>23, Names DEF vars, IInv, TypeOK, Files, Uploads, ParkInv, RunInv, Active
<1>. QED
  BY <1>1, <1>2, <1>3, <1>4, <1>5, <1>6, <1>7, <1>8, <1>9, <1>10, <1>11, <1>12,
      <1>13, <1>14, <1>15, <1>16, <1>17, <1>18, <1>19, <1>20, <1>21, <1>22, <1>23
      DEF Next, Commit, Import, Sweep

\* What comes to exist during a sweep is young.
LEMMA SweepInvNext == IInv /\ [Next]_vars => SweepInv'
<1> SUFFICES ASSUME IInv, [Next]_vars PROVE SweepInv'
  OBVIOUS
<1>1. ASSUME NEW f \in Files, AddBegin(f) PROVE SweepInv'
  BY <1>1, Names DEF AddBegin, Unlocked, IInv, TypeOK, Files, Uploads, SweepInv,
      RunInv, NewInv, RequestInv, ParkInv, Exists
<1>2. ASSUME NEW f \in Files, RemoveBegin(f) PROVE SweepInv'
  BY <1>2, Names DEF RemoveBegin, Unlocked, Held, CleanUp, AbortAll, DeleteAll,
      UploadsOf, IInv, TypeOK, Files, Uploads, SweepInv, RunInv, NewInv,
      RequestInv, ParkInv, Exists
<1>3. ASSUME NEW f \in Files, Send(f) PROVE SweepInv'
  BY <1>3, Names DEF Send, Queue, Exists, IInv, TypeOK, Files, Uploads, SweepInv,
      RunInv, NewInv, RequestInv, ParkInv, Unlocked
<1>4. ASSUME NEW f \in Browser, CompleteBegin(f) PROVE SweepInv'
  BY <1>4, Names DEF CompleteBegin, Completing, Unlocked, Held, AbortAll, IInv,
      TypeOK, Files, Uploads, SweepInv, RunInv, NewInv, RequestInv, ParkInv, Exists
<1>5. ASSUME NEW f \in Browser, CompleteRejected(f) PROVE SweepInv'
  BY <1>5, Names DEF CompleteRejected, Completing, Unlocked, Held, AbortAll,
      UploadsOf, IInv, TypeOK, Files, Uploads, SweepInv, RunInv, NewInv,
      RequestInv, ParkInv, Exists
<1>6. ASSUME NEW f \in Browser, CompleteMismatch(f) PROVE SweepInv'
  BY <1>6, Names DEF CompleteMismatch, Completing, Unlocked, Held, AbortAll,
      UploadsOf, IInv, TypeOK, Files, Uploads, SweepInv, RunInv, NewInv,
      RequestInv, ParkInv, Exists
<1>7. ASSUME AddEnd PROVE SweepInv'
  BY <1>7, Names DEF AddEnd, NoRow, NoReq, IInv, TypeOK, Files, Uploads, SweepInv,
      RunInv, NewInv, RequestInv, ParkInv, Exists, Unlocked
<1>8. ASSUME AddFails PROVE SweepInv'
  BY <1>8, Names DEF AddFails, AbortAll, NoRow, NoReq, IInv, TypeOK, Files,
      Uploads, SweepInv, RunInv, NewInv, RequestInv, ParkInv, Exists, Unlocked
<1>9. ASSUME LandEnd PROVE SweepInv'
  <2>1. \A g \in Files : row'[g].at = row[g].at /\ (row'[g].up = row[g].up \/
        row'[g].up = None)
    BY <1>9, LandEndRow DEF IInv
  <2>2. UNCHANGED <<sweep, object, mpu>>
    BY <1>9 DEF LandEnd
  <2>. QED
    BY <1>9, <2>1, <2>2 DEF IInv, SweepInv, Exists
<1>10. ASSUME RemovalEnd PROVE SweepInv'
  BY <1>10, Names DEF RemovalEnd, NoRow, NoReq, Held, IInv, TypeOK, Files, Uploads,
      SweepInv, RunInv, NewInv, RequestInv, ParkInv, Exists, Unlocked
<1>11. ASSUME DropBegin PROVE SweepInv'
  BY <1>11, Names DEF DropBegin, Unlocked, Held, CleanUp, AbortAll, DeleteAll,
      UploadsOf, IInv, TypeOK, Files, Uploads, SweepInv, RunInv, NewInv,
      RequestInv, ParkInv, Exists
<1>12. ASSUME Rollback PROVE SweepInv'
  BY <1>12, Names DEF Rollback, NoRow, NoReq, IInv, TypeOK, Files, Uploads,
      SweepInv, RunInv, NewInv, RequestInv, ParkInv, Exists, Unlocked
<1>13. ASSUME StartImports PROVE SweepInv'
  BY <1>13, Names DEF StartImports, Finalizable, Held, Unlocked, IInv, TypeOK,
      Files, Uploads, SweepInv, RunInv, NewInv, RequestInv, ParkInv, Exists
<1>14. ASSUME Share PROVE SweepInv'
  BY <1>14, Names DEF Share, Finalizable, Held, Unlocked, IInv, TypeOK, Files,
      Uploads, SweepInv, RunInv, NewInv, RequestInv, ParkInv, Exists
<1>15. ASSUME SweepBegin PROVE SweepInv'
  BY <1>15, Names DEF SweepBegin, Exists, IInv, TypeOK, Files, Uploads, SweepInv,
      RunInv, NewInv, RequestInv, ParkInv, Unlocked
<1>16. ASSUME SweepObjects PROVE SweepInv'
  BY <1>16, Names DEF SweepObjects, DeleteAll, OldObjects, IInv, TypeOK, Files,
      Uploads, SweepInv, RunInv, NewInv, RequestInv, ParkInv, Exists, Unlocked
<1>17. ASSUME SweepKnown PROVE SweepInv'
  BY <1>17, Names DEF SweepKnown, UploadsOf, Exists, IInv, TypeOK, Files, Uploads,
      SweepInv, RunInv, NewInv, RequestInv, ParkInv, Unlocked
<1>18. ASSUME SweepUploads PROVE SweepInv'
  BY <1>18, Names DEF SweepUploads, AbortAll, NoSweep, IInv, TypeOK, Files,
      Uploads, SweepInv, RunInv, NewInv, RequestInv, ParkInv, Exists, Unlocked
<1>19. ASSUME Day PROVE SweepInv'
  BY <1>19, Names DEF Day, Unlocked, NoSweep, Active, NoReq, IInv, TypeOK, Files,
      Uploads, SweepInv, RunInv, NewInv, RequestInv, ParkInv, Exists
<1>20. ASSUME NEW r \in Runs, AbortStale(r) PROVE SweepInv'
  BY <1>20, Names DEF AbortStale, AbortAll, Goto, IInv, TypeOK, Files, Uploads,
      SweepInv, RunInv, NewInv, RequestInv, ParkInv, Exists, Unlocked
<1>21. ASSUME NEW r \in Runs, ClearStale(r) PROVE SweepInv'
  BY <1>21, Names DEF ClearStale, Exists, Goto, IInv, TypeOK, Files, Uploads,
      SweepInv, RunInv, NewInv, RequestInv, ParkInv, Unlocked
<1>22. ASSUME NEW r \in Runs, OpenUpload(r) PROVE SweepInv'
  BY <1>22, Names DEF OpenUpload, Goto, IInv, TypeOK, Files, Uploads, SweepInv,
      RunInv, NewInv, RequestInv, ParkInv, Exists, Unlocked
<1>23. ASSUME NEW r \in Runs, Park(r) PROVE SweepInv'
  BY <1>23, Names DEF Park, Exists, Goto, IInv, TypeOK, Files, Uploads, SweepInv,
      RunInv, NewInv, RequestInv, ParkInv, Unlocked
<1>24. ASSUME NEW r \in Runs, Stream(r) PROVE SweepInv'
  BY <1>24, Names DEF Stream, AbortAll, Goto, IInv, TypeOK, Files, Uploads,
      SweepInv, RunInv, NewInv, RequestInv, ParkInv, Exists, Unlocked
<1>25. ASSUME NEW r \in Runs, Save(r) PROVE SweepInv'
  BY <1>25, Names DEF Save, Exists, Goto, IInv, TypeOK, Files, Uploads, SweepInv,
      RunInv, NewInv, RequestInv, ParkInv, Unlocked
<1>26. ASSUME NEW r \in Runs, FailAbort(r) PROVE SweepInv'
  BY <1>26, Names DEF FailAbort, AbortAll, Goto, IInv, TypeOK, Files, Uploads,
      SweepInv, RunInv, NewInv, RequestInv, ParkInv, Exists, Unlocked
<1>27. ASSUME NEW r \in Runs, FailDelete(r) PROVE SweepInv'
  BY <1>27, Names DEF FailDelete, DeleteAll, Goto, IInv, TypeOK, Files, Uploads,
      SweepInv, RunInv, NewInv, RequestInv, ParkInv, Exists, Unlocked
<1>28. ASSUME NEW r \in Runs, FailSave(r) PROVE SweepInv'
  <2>1. ~Park(r)
    BY <1>28 DEF FailSave, Park
  <2>2. \A g \in Files : row'[g].at = row[g].at /\ (row'[g].up = row[g].up \/
        row'[g].up = None)
    BY <1>28, RunRow, <2>1 DEF IInv
  <2>3. UNCHANGED <<sweep, object, mpu>>
    BY <1>28 DEF FailSave
  <2>. QED
    BY <1>28, <2>1, <2>2, <2>3 DEF IInv, SweepInv, Exists
<1>29. ASSUME LoseOutbox PROVE SweepInv'
  BY <1>29, Names DEF LoseOutbox, IInv, TypeOK, Files, Uploads, SweepInv, RunInv,
      NewInv, RequestInv, ParkInv, Exists, Unlocked
<1>30. ASSUME NEW r \in Runs, Take(r) \/ Redeliver(r) PROVE SweepInv'
  BY <1>30, Names DEF Take, Redeliver, IInv, TypeOK, Files, Uploads, SweepInv,
      RunInv, NewInv, RequestInv, ParkInv, Exists, Unlocked
<1>31. CASE UNCHANGED vars
  BY <1>31, Names DEF vars, IInv, TypeOK, Files, Uploads, SweepInv, RunInv, NewInv,
      RequestInv, ParkInv, Exists, Unlocked
<1>. QED
  BY <1>1, <1>2, <1>3, <1>4, <1>5, <1>6, <1>7, <1>8, <1>9, <1>10, <1>11, <1>12,
      <1>13, <1>14, <1>15, <1>16, <1>17, <1>18, <1>19, <1>20, <1>21, <1>22, <1>23,
      <1>24, <1>25, <1>26, <1>27, <1>28, <1>29, <1>30, <1>31 DEF Next, Commit,
      Import, Sweep

\* What has landed stays stored.
LEMMA LandedIsStoredNext == IInv /\ [Next]_vars => LandedIsStored'
<1> SUFFICES ASSUME IInv, [Next]_vars PROVE LandedIsStored'
  OBVIOUS
<1>1. ASSUME NEW f \in Files, AddBegin(f) PROVE LandedIsStored'
  BY <1>1, Names DEF AddBegin, Unlocked, IInv, TypeOK, Files, Uploads,
      LandedIsStored, RunInv, NewInv, RequestInv, OneRunInv, ImportInv, SaveInv,
      SweepInv, Exists, Active, Leaving, NoReq
<1>2. ASSUME NEW f \in Files, RemoveBegin(f) PROVE LandedIsStored'
  BY <1>2, Names DEF RemoveBegin, Unlocked, Held, CleanUp, AbortAll, DeleteAll,
      UploadsOf, IInv, TypeOK, Files, Uploads, LandedIsStored, RunInv, NewInv,
      RequestInv, OneRunInv, ImportInv, SaveInv, SweepInv, Exists, Active, Leaving,
      NoReq
<1>3. ASSUME NEW f \in Files, Send(f) PROVE LandedIsStored'
  BY <1>3, Names DEF Send, Queue, Exists, IInv, TypeOK, Files, Uploads,
      LandedIsStored, RunInv, NewInv, RequestInv, OneRunInv, ImportInv, SaveInv,
      SweepInv, Active, Leaving, NoReq
<1>4. ASSUME NEW f \in Browser, CompleteBegin(f) PROVE LandedIsStored'
  BY <1>4, Names DEF CompleteBegin, Completing, Unlocked, Held, AbortAll, IInv,
      TypeOK, Files, Uploads, LandedIsStored, RunInv, NewInv, RequestInv,
      OneRunInv, ImportInv, SaveInv, SweepInv, Exists, Active, Leaving, NoReq
<1>5. ASSUME NEW f \in Browser, CompleteRejected(f) PROVE LandedIsStored'
  BY <1>5, Names DEF CompleteRejected, Completing, Unlocked, Held, AbortAll,
      UploadsOf, IInv, TypeOK, Files, Uploads, LandedIsStored, RunInv, NewInv,
      RequestInv, OneRunInv, ImportInv, SaveInv, SweepInv, Exists, Active, Leaving,
      NoReq
<1>6. ASSUME NEW f \in Browser, CompleteMismatch(f) PROVE LandedIsStored'
  BY <1>6, Names DEF CompleteMismatch, Completing, Unlocked, Held, AbortAll,
      UploadsOf, IInv, TypeOK, Files, Uploads, LandedIsStored, RunInv, NewInv,
      RequestInv, OneRunInv, ImportInv, SaveInv, SweepInv, Exists, Active, Leaving,
      NoReq
<1>7. ASSUME AddEnd PROVE LandedIsStored'
  BY <1>7, Names DEF AddEnd, NoRow, NoReq, IInv, TypeOK, Files, Uploads,
      LandedIsStored, RunInv, NewInv, RequestInv, OneRunInv, ImportInv, SaveInv,
      SweepInv, Exists, Active, Leaving
<1>8. ASSUME AddFails PROVE LandedIsStored'
  BY <1>8, Names DEF AddFails, AbortAll, NoRow, NoReq, IInv, TypeOK, Files,
      Uploads, LandedIsStored, RunInv, NewInv, RequestInv, OneRunInv, ImportInv,
      SaveInv, SweepInv, Exists, Active, Leaving
<1>9. ASSUME LandEnd PROVE LandedIsStored'
  BY <1>9, Names DEF LandEnd, NoReq, IInv, TypeOK, Files, Uploads, LandedIsStored,
      RunInv, NewInv, RequestInv, OneRunInv, ImportInv, SaveInv, SweepInv, Exists,
      Active, Leaving
<1>10. ASSUME RemovalEnd PROVE LandedIsStored'
  BY <1>10, Names DEF RemovalEnd, NoRow, NoReq, Held, IInv, TypeOK, Files, Uploads,
      LandedIsStored, RunInv, NewInv, RequestInv, OneRunInv, ImportInv, SaveInv,
      SweepInv, Exists, Active, Leaving
<1>11. ASSUME DropBegin PROVE LandedIsStored'
  BY <1>11, Names DEF DropBegin, Unlocked, Held, CleanUp, AbortAll, DeleteAll,
      UploadsOf, IInv, TypeOK, Files, Uploads, LandedIsStored, RunInv, NewInv,
      RequestInv, OneRunInv, ImportInv, SaveInv, SweepInv, Exists, Active, Leaving,
      NoReq
<1>12. ASSUME Rollback PROVE LandedIsStored'
  BY <1>12, Names DEF Rollback, NoRow, NoReq, IInv, TypeOK, Files, Uploads,
      LandedIsStored, RunInv, NewInv, RequestInv, OneRunInv, ImportInv, SaveInv,
      SweepInv, Exists, Active, Leaving
<1>13. ASSUME StartImports PROVE LandedIsStored'
  BY <1>13, Names DEF StartImports, Finalizable, Held, Unlocked, IInv, TypeOK,
      Files, Uploads, LandedIsStored, RunInv, NewInv, RequestInv, OneRunInv,
      ImportInv, SaveInv, SweepInv, Exists, Active, Leaving, NoReq
<1>14. ASSUME Share PROVE LandedIsStored'
  BY <1>14, Names DEF Share, Finalizable, Held, Unlocked, IInv, TypeOK, Files,
      Uploads, LandedIsStored, RunInv, NewInv, RequestInv, OneRunInv, ImportInv,
      SaveInv, SweepInv, Exists, Active, Leaving, NoReq
<1>15. ASSUME SweepObjects PROVE LandedIsStored'
  BY <1>15, Names DEF SweepObjects, DeleteAll, OldObjects, IInv, TypeOK, Files,
      Uploads, LandedIsStored, RunInv, NewInv, RequestInv, OneRunInv, ImportInv,
      SaveInv, SweepInv, Exists, Active, Leaving, NoReq
<1>16. ASSUME Day PROVE LandedIsStored'
  BY <1>16, Names DEF Day, Unlocked, NoSweep, Active, NoReq, IInv, TypeOK, Files,
      Uploads, LandedIsStored, RunInv, NewInv, RequestInv, OneRunInv, ImportInv,
      SaveInv, SweepInv, Exists, Leaving
<1>17. ASSUME NEW r \in Runs, Take(r) PROVE LandedIsStored'
  BY <1>17, Names DEF Take, Exists, Active, IInv, TypeOK, Files, Uploads,
      LandedIsStored, RunInv, NewInv, RequestInv, OneRunInv, ImportInv, SaveInv,
      SweepInv, Leaving, NoReq
<1>18. ASSUME NEW r \in Runs, ClearStale(r) PROVE LandedIsStored'
  BY <1>18, Names DEF ClearStale, Exists, Goto, IInv, TypeOK, Files, Uploads,
      LandedIsStored, RunInv, NewInv, RequestInv, OneRunInv, ImportInv, SaveInv,
      SweepInv, Active, Leaving, NoReq
<1>19. ASSUME NEW r \in Runs, Park(r) PROVE LandedIsStored'
  BY <1>19, Names DEF Park, Exists, Goto, IInv, TypeOK, Files, Uploads,
      LandedIsStored, RunInv, NewInv, RequestInv, OneRunInv, ImportInv, SaveInv,
      SweepInv, Active, Leaving, NoReq
<1>20. ASSUME NEW r \in Runs, Stream(r) PROVE LandedIsStored'
  BY <1>20, Names DEF Stream, AbortAll, Goto, IInv, TypeOK, Files, Uploads,
      LandedIsStored, RunInv, NewInv, RequestInv, OneRunInv, ImportInv, SaveInv,
      SweepInv, Exists, Active, Leaving, NoReq
<1>21. ASSUME NEW r \in Runs, Save(r) PROVE LandedIsStored'
  <2>1. run[r].file \in Files /\ (slips = {} /\ Exists(run[r].file) =>
        object[run[r].file] # "none" \/ Leaving(run[r].file))
    BY <1>21 DEF Save, IInv, RunInv, SaveInv, Files
  <2>2. \A g \in Files : Exists(g)' = Exists(g) /\ (row'[g].landed => row[g].landed
        \/ g = run[r].file)
    BY <1>21, <2>1 DEF Save, Exists, IInv, TypeOK
  <2>3. UNCHANGED <<slips, req, object>>
    BY <1>21 DEF Save
  <2>. QED
    BY <1>21, <2>1, <2>2, <2>3 DEF IInv, LandedIsStored, Leaving
<1>22. ASSUME NEW r \in Runs, FailDelete(r) PROVE LandedIsStored'
  BY <1>22, Names DEF FailDelete, DeleteAll, Goto, IInv, TypeOK, Files, Uploads,
      LandedIsStored, RunInv, NewInv, RequestInv, OneRunInv, ImportInv, SaveInv,
      SweepInv, Exists, Active, Leaving, NoReq
<1>23. ASSUME NEW r \in Runs, FailSave(r) PROVE LandedIsStored'
  <2>1. ~Save(r)
    BY <1>23 DEF FailSave, Save
  <2>2. \A g \in Files : row'[g].at = row[g].at /\ row'[g].landed = row[g].landed
    BY <1>23, RunRow, <2>1 DEF IInv
  <2>3. UNCHANGED <<slips, req, object>>
    BY <1>23 DEF FailSave
  <2>. QED
    BY <1>23, <2>1, <2>2, <2>3 DEF IInv, LandedIsStored, Exists
<1>24. ASSUME LoseOutbox \/ SweepBegin \/ SweepKnown \/ SweepUploads PROVE
          LandedIsStored'
  BY <1>24, Names DEF LoseOutbox, SweepBegin, SweepKnown, SweepUploads, IInv,
      TypeOK, Files, Uploads, LandedIsStored, RunInv, NewInv, RequestInv,
      OneRunInv, ImportInv, SaveInv, SweepInv, Exists, Active, Leaving, NoReq
<1>25. ASSUME NEW r \in Runs, AbortStale(r) \/ OpenUpload(r) \/ FailAbort(r) \/
          Redeliver(r) PROVE LandedIsStored'
  BY <1>25, Names DEF AbortStale, OpenUpload, FailAbort, Redeliver, Goto, IInv,
      TypeOK, Files, Uploads, LandedIsStored, RunInv, NewInv, RequestInv,
      OneRunInv, ImportInv, SaveInv, SweepInv, Exists, Active, Leaving, NoReq
<1>26. CASE UNCHANGED vars
  BY <1>26, Names DEF vars, IInv, TypeOK, Files, Uploads, LandedIsStored, RunInv,
      NewInv, RequestInv, OneRunInv, ImportInv, SaveInv, SweepInv, Exists, Active,
      Leaving, NoReq
<1>. QED
  BY <1>1, <1>2, <1>3, <1>4, <1>5, <1>6, <1>7, <1>8, <1>9, <1>10, <1>11, <1>12,
      <1>13, <1>14, <1>15, <1>16, <1>17, <1>18, <1>19, <1>20, <1>21, <1>22, <1>23,
      <1>24, <1>25, <1>26 DEF Next, Commit, Import, Sweep

\* At the start no file is there, and nobody is at work.
LEMMA InitInv == Init => IInv
<1> SUFFICES ASSUME Init PROVE IInv
  OBVIOUS
<1>1. TypeOK
  <2>1. row \in [Files -> Rows] /\ \A f \in Browser : row[f].up \in {f, None}
    <3>1. NoRow \in Rows /\ NoRow.up = None
      BY DEF NoRow, Rows
    <3>. QED
      BY <3>1 DEF Init, Files
  <2>2. run \in [Runs -> Imports]
    BY DEF Init, Imports, RunSteps
  <2>3. faults \in 0 .. MaxFaults /\ slips \subseteq Slips /\ outbox \subseteq Drive
    BY FaultsAssumption DEF Init
  <2>4. /\ object \in [Files -> Ages] /\ mpu \in [Uploads -> Ages]
        /\ draft \in {"none", "open", "gone", "shared"} /\ aged \in BOOLEAN
    BY DEF Init, Ages
  <2>5. /\ req \in [op : Ops, files : SUBSET Files]
        /\ sweep \in [at : SweepSteps, known : SUBSET (Files \cup Uploads)]
    BY DEF Init, NoReq, NoSweep, Ops, SweepSteps
  <2>. QED
    BY <2>1, <2>2, <2>3, <2>4, <2>5 DEF TypeOK, Rows, Imports
<1>2. RunInv /\ ParkedInv /\ NewInv /\ RequestInv /\ OneRunInv /\ ImportInv
  BY DEF Init, NoRow, NoReq, Files, RunInv, ParkedInv, NewInv, RequestInv, OneRunInv,
         ImportInv, Active
<1>3. SaveInv /\ ParkInv /\ SweepInv /\ LandedIsStored
  BY DEF Init, NoRow, NoSweep, SaveInv, ParkInv, SweepInv, LandedIsStored, Exists, Files
<1>. QED
  BY <1>1, <1>2, <1>3 DEF IInv

\* The invariant holds in every state, for any files, deliveries and faults.
THEOREM Inductive == Spec => []IInv
<1>1. IInv /\ [Next]_vars => IInv'
  BY TypeOKNext, RunInvNext, ParkedInvNext, NewInvNext, RequestInvNext, OneRunInvNext,
     ImportInvNext, SaveInvNext, ParkInvNext, SweepInvNext, LandedIsStoredNext
     DEF IInv
<1>. QED
  BY InitInv, <1>1, PTL DEF Spec

\* Rows, objects, uploads, requests, deliveries and the sweep keep their types,
\* and a browser file's row names no upload but its own.
THEOREM TypeCorrect == Spec => []TypeOK
<1>1. IInv => TypeOK
  BY DEF IInv
<1>. QED
  BY Inductive, <1>1, PTL

\* Whatever is aborted, imported, rolled back or swept, a row that says its
\* bytes have landed has its object (complete_upload, import_drive_file_task,
\* run_orphan_sweep).
THEOREM LandedStored == Spec => []LandedIsStored
<1>1. IInv => LandedIsStored
  BY DEF IInv
<1>. QED
  BY Inductive, <1>1, PTL

\* The sweep takes neither the object nor the upload of a row that exists
\* (run_orphan_sweep), though it read the rows before it listed the bucket.
THEOREM SweepSpares == Spec => SweepSparesOwned
<1> DEFINE Spared ==
      sweep' # sweep =>
        /\ \A f \in Files : Exists(f) => object'[f] = object[f]
        /\ \A f \in Files : Exists(f) /\ row[f].up # None => mpu'[row[f].up] = mpu[row[f].up]
<1>1. IInv /\ [Next]_vars => [Spared]_vars
  <2> SUFFICES ASSUME IInv, [Next]_vars, sweep' # sweep PROVE Spared
    BY DEF vars
  <2>1. Sweep
    BY DEF Next, Commit, Import, vars, AddBegin, RemoveBegin, Send, CompleteBegin,
           CompleteRejected, CompleteMismatch, DropBegin, AddFails, AddEnd, LandEnd,
           RemovalEnd, Rollback, StartImports, LoseOutbox, Share, Take, AbortStale,
           ClearStale, OpenUpload, Park, Stream, Save, FailAbort, FailDelete, FailSave,
           Redeliver, Day
  <2>2. CASE SweepBegin \/ SweepKnown
    BY <2>2 DEF SweepBegin, SweepKnown
  <2>3. CASE SweepObjects
    BY <2>3 DEF SweepObjects, DeleteAll, OldObjects, IInv, TypeOK, SweepInv, Exists
  <2>4. CASE SweepUploads
    <3>1. \A f \in Files : row[f].up # None => row[f].up \in Uploads
      BY DEF IInv, TypeOK
    <3>. QED
      BY <2>4, <3>1 DEF SweepUploads, AbortAll, IInv, TypeOK, SweepInv
  <2>. QED
    BY <2>1, <2>2, <2>3, <2>4 DEF Sweep
<1>. QED
  BY Inductive, <1>1, PTL DEF Spec, SweepSparesOwned
=============================================================================
