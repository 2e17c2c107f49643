------------------------- MODULE DraftClientListProofs -------------------------
(***************************************************************************)
(* The list the page shows and the rows the server keeps: what DraftClient *)
(* promises of them, for all names, registrations, sends and faults.       *)
(*                                                                         *)
(* A row is shown under its own name from the moment it is registered to   *)
(* the moment its removal is posted.  Unless something slipped, the page   *)
(* has one draft at a time: what it shows are the rows of that draft, what *)
(* is under way joins it or leaves it, and every other open draft is about *)
(* to become the page's, or to go.                                         *)
(***************************************************************************)
EXTENDS DraftClientProofs, FiniteSetTheorems

-----------------------------------------------------------------------------
(* The inductive invariant, beyond IInv. *)

\* Slips that leave the page and the server in agreement.
Plain == slips \subseteq {"late", "overtaken"}
Calm  == slips = {}

UnderWay(n) == reg[n].at \notin {"free", "end"}
Moving(n)   == up[n].at \in {"parts", "complete", "short", "reply"}
Shown(n)    == \E k \in Names : files[k].row = n

\* A row is shown under its own name, once it is registered, and is no longer
\* when it is being removed.
LinkInv ==
    /\ \A k \in Names : files[k].row # None =>
         reg[files[k].row].name = k /\ reg[files[k].row].at = "end"
    /\ \A n \in Regs : up[n].at # "none" => reg[n].at = "end"
    /\ \A n \in Regs : rm[n].at # "none" => reg[n].at = "end" /\ ~Shown(n)
    /\ \A n \in Regs : rm[n].at = "post" => rm[n].draft \in Regs
    /\ leave.at = "post" => page = "left" /\ leave.draft \in Regs

\* A draft is known, and sent, once its first registration was answered; a file
\* that joins it finds it kept.
JoinInv ==
    /\ draftId # None => reg[draftId].at \in Settled
    /\ send.at # "idle" => reg[send.id].at \in Settled
    /\ \A n \in Regs : reg[n].known # None =>
         /\ reg[reg[n].known].at \in Settled
         /\ "joined" \notin slips => reg[reg[n].known].at = "end"

\* One thing at a time is under way for a name that is listed.
AliasInv == "aliased" \notin slips =>
    /\ \A k \in Names : files[k].state \in {"done", "importing"} => files[k].row # None
    /\ \A n \in Regs : reg[n].at # "free" /\ files[reg[n].name].state # "absent" =>
         /\ UnderWay(n) =>
              /\ files[reg[n].name].row = None
              /\ \A m \in Regs : reg[m].name = reg[n].name /\ UnderWay(m) => m = n
         /\ Moving(n) => files[reg[n].name].row = n

\* The bytes of a browser file have landed when the uploader says so.
LandInv == slips \cap {"aliased", "joined", "short"} = {} =>
    \A n \in Regs :
        /\ reg[n].name \in Locals /\ Shown(n)
        /\ (up[n].at = "reply" /\ up[n].ok) \/ files[reg[n].name].state = "done"
        => row[n].state \in {"landed", "sent"}

\* What is under way is for the page's draft, or opens it.
FirstOk ==
    initP # None =>
      \/ draftId = None /\ reg[initP].at \in {"mint", "post", "reply"} /\ reg[initP].known = None
      \/ draftId = initP
BaseOk(n) ==
    /\ UnderWay(n) /\ reg[n].known # None => reg[n].known = draftId
    /\ reg[n].known = None /\ reg[n].at \in {"mint", "post", "reply"} =>
         initP = n /\ draftId = None
    /\ reg[n].known = None /\ reg[n].at \in {"drop", "dropped"} =>
         initP = n /\ draftId = n
    /\ reg[n].at = "wait" => reg[reg[n].awaits].known = None
    /\ reg[n].at = "wait" /\ reg[reg[n].awaits].at = "end" /\ reg[reg[n].awaits].ok =>
         draftId = reg[n].awaits
BaseInv == Plain /\ page = "open" => FirstOk /\ \A n \in Regs : BaseOk(n)

\* The rows the list shows are those of the page's draft, but for what is
\* under way.
AgreeInv == Plain =>
    /\ \A n \in Regs : rm[n].at = "post" => rm[n].draft = row[n].draft
    /\ \A n \in Regs : reg[n].at = "reply" =>
         IF reg[n].ok THEN page = "open" => row[n].state # "gone" ELSE row[n].state = "none"
    /\ page = "open" => \A n \in Regs :
         /\ Shown(n) => row[n].draft = draftId /\ row[n].state \notin {"none", "gone"}
         /\ draftId # None /\ HasRow(draftId, n) =>
              Shown(n) \/ rm[n].at = "post" \/ reg[n].at \in {"reply", "drop"}

\* A send that was not disarmed is of the page's draft and of what it lists.
AimInv == page = "open" =>
    /\ send.at = "armed" /\ ~send.cancel /\ "wiped" \notin slips => send.wanted = Listed
    /\ Plain /\ send.at = "armed" /\ ~send.cancel =>
         draftId = send.id \/ (draftId = None /\ initP = None)
    /\ Plain /\ Finalizing => draftId = send.id /\ \E n \in Regs : Shown(n)

\* The files named are the rows of the draft, each once.
Names1(d, ns) ==
    /\ ns = {reg[n].name : n \in RowsOf(d)}
    /\ \A m, n \in RowsOf(d) : reg[m].name = reg[n].name => m = n

FixInv == Calm /\ Finalizing /\ draft[send.id] = "open" =>
    /\ Names1(send.id, send.wanted)
    /\ \A n \in Regs : ~UnderWay(n) /\ rm[n].at # "post"

SentInv ==
    /\ send.at = "reply" /\ send.answer = "sent" => draft[send.id] = "sent"
    /\ Calm => \A d \in Regs : draft[d] = "sent" => Names1(d, shared[d].names)

Aborting(d) == leave.at = "post" /\ leave.draft = d
Ousted(d)   == \A n \in RowsOf(d) : rm[n].at = "post"

\* A draft that is open is the page's, or is on its way in or out.
OpenInv ==
    /\ \A d \in Regs : draft[d] = "open" => RowsOf(d) # {}
    /\ Plain => \A d \in Regs : draft[d] = "open" =>
         /\ ~(reg[d].known = None /\ reg[d].at = "dropped")
         /\ page = "open" /\ d # draftId =>
              Ousted(d) \/ (reg[d].known = None /\ reg[d].at = "reply")
         /\ page = "left" =>
              \/ Aborting(d) \/ Ousted(d)
              \/ reg[d].known = None /\ reg[d].at \in {"reply", "drop"}
         /\ page = "left" => \A n \in Regs : UnderWay(n) /\ reg[n].known = d => Aborting(d)
-----------------------------------------------------------------------------
(* What each operation does, a variable at a time. *)

\* A registration goes on to s; the others stay where they are.
Turns(n, s) ==
    /\ reg'[n].at = s /\ reg'[n].name = reg[n].name /\ reg'[n].known = reg[n].known
    /\ reg'[n].awaits = reg[n].awaits
    /\ \A m \in Regs : m # n => reg'[m] = reg[m]

\* Files change their states: none comes, none goes, none gets a row.
Relabels == \A k \in Names :
    files'[k].row = files[k].row /\ (files'[k].state = "absent" <=> files[k].state = "absent")

\* Rows change their states: none comes and none goes.
RowsKept == \A m \in Regs :
    /\ row'[m].draft = row[m].draft
    /\ row'[m].state = "none" <=> row[m].state = "none"
    /\ row'[m].state = "gone" <=> row[m].state = "gone"

\* The change of a list disarms the send.
Disarms ==
    /\ send.at = "armed" => send'.at = "armed" /\ send'.cancel /\ send'.id = send.id
    /\ send.at # "armed" => send' = send

\* addFile and attachFromDrive.
LEMMA AddFileStep == ASSUME IInv, NEW n \in Regs, NEW k \in Names, AddFile(n, k) PROVE
    /\ AddMoves(n, k) /\ Disarms
    /\ files[k].state = "absent" /\ files'[k].state = "registering" /\ files'[k].row = None
    /\ \A h \in Names : h # k => files'[h] = files[h]
    /\ reg'[n].ok = reg[n].ok
    /\ Finalizing => "late" \in slips'
    /\ Busy(k) => "aliased" \in slips'
    /\ draftId # None /\ reg[draftId].at \in {"drop", "dropped"} => "joined" \in slips'
    /\ UNCHANGED <<up, rm, leave, draft, row, shared>>
<1>1. AddMoves(n, k)
  BY AddStep
<1>2. /\ files[k].state = "absent" /\ files'[k].state = "registering" /\ files'[k].row = None
      /\ \A h \in Names : h # k => files'[h] = files[h]
  BY FilesTyped DEF AddFile, Pickable, IInv
<1>3. Disarms
  BY SendTyped DEF AddFile, Disarm, Disarms, IInv, SendRecs
<1>4. reg'[n].ok = reg[n].ok
  BY RegTyped DEF AddFile, IInv, RegRecs
<1>. QED
  BY <1>1, <1>2, <1>3, <1>4 DEF AddFile, server

\* removeFile.
LEMMA RemoveFileStep == ASSUME IInv, NEW k \in Names, RemoveFile(k) PROVE
    /\ Disarms /\ page = "open" /\ ~Finalizing
    /\ files[k].state # "absent" /\ files'[k].state = "absent" /\ files'[k].row = None
    /\ \A h \in Names : h # k => files'[h] = files[h]
    /\ \A m \in Regs : up'[m].at = up[m].at /\ up'[m].ok = up[m].ok
    /\ \A m \in Regs : m # files[k].row => rm'[m] = rm[m]
    /\ files[k].row # None /\ draftId = None => rm' = rm
    /\ files[k].row # None /\ draftId # None =>
         /\ rm'[files[k].row].at = "post" /\ rm'[files[k].row].draft = draftId
         /\ rm'[files[k].row].last <=> Listed = {k}
    /\ UNCHANGED <<page, draftId, initP, reg, leave, draft, row, slips, shared>>
<1>1. /\ files[k].state # "absent" /\ files'[k].state = "absent" /\ files'[k].row = None
      /\ \A h \in Names : h # k => files'[h] = files[h]
  BY FilesTyped DEF RemoveFile, Removable, Absent, IInv
<1>2. Disarms
  BY SendTyped DEF RemoveFile, Disarm, Disarms, IInv, SendRecs
<1>3. \A m \in Regs : up'[m].at = up[m].at /\ up'[m].ok = up[m].ok
  BY UpTyped DEF RemoveFile, IInv, UpRecs
<1>4. /\ files[k].row \in Ids /\ rm \in [Regs -> CallRecs]
  BY FilesTyped, CallsTyped DEF IInv, FileRecs
<1>5. /\ \A m \in Regs : m # files[k].row => rm'[m] = rm[m]
      /\ files[k].row # None /\ draftId = None => rm' = rm
      /\ files[k].row # None /\ draftId # None =>
           /\ rm'[files[k].row].at = "post" /\ rm'[files[k].row].draft = draftId
           /\ rm'[files[k].row].last <=> Listed = {k}
  BY <1>4 DEF RemoveFile, Ids
<1>. QED
  BY <1>1, <1>2, <1>3, <1>5 DEF RemoveFile, Removable, server

\* registerFile, resumed once the first registration settled.
LEMMA InitSettledStep == ASSUME IInv, NEW n \in Regs, InitSettled(n) PROVE
    /\ reg[n].at = "wait" /\ reg[n].awaits \in Regs /\ reg[reg[n].awaits].at = "end"
    /\ Relabels
    /\ reg'[n].name = reg[n].name /\ reg'[n].ok = reg[n].ok
    /\ \A m \in Regs : m # n => reg'[m] = reg[m]
    /\ \/ reg'[n].at = "end"
       \/ /\ reg[reg[n].awaits].ok /\ files[reg[n].name].state # "absent"
          /\ reg'[n].at \in {"mint", "post"} /\ reg'[n].known = DraftOf(reg[n].awaits)
    /\ UNCHANGED <<page, draftId, initP, up, rm, leave, send, draft, row, slips, shared>>
<1>1. reg \in [Regs -> RegRecs] /\ reg[n] \in RegRecs /\ reg[n].awaits \in Regs
  BY RegTyped DEF InitSettled, IInv, RegInv, RegOk
<1>2. Relabels
  BY FilesTyped DEF InitSettled, Mark, Patch, Relabels, IInv, FileRecs
<1>3. /\ reg'[n].name = reg[n].name /\ reg'[n].ok = reg[n].ok
      /\ \A m \in Regs : m # n => reg'[m] = reg[m]
      /\ \/ reg'[n].at = "end"
         \/ /\ reg[reg[n].awaits].ok /\ files[reg[n].name].state # "absent"
            /\ reg'[n].at \in {"mint", "post"} /\ reg'[n].known = DraftOf(reg[n].awaits)
  BY <1>1 DEF InitSettled, Start, RegRecs
<1>. QED
  BY <1>1, <1>2, <1>3 DEF InitSettled, refs, server

\* The key is there.
LEMMA MintedStep == ASSUME IInv, NEW n \in Regs, Minted(n) PROVE
    /\ reg[n].at = "mint" /\ Turns(n, "post") /\ reg'[n].ok = reg[n].ok
    /\ UNCHANGED <<page, files, draftId, initP, up, rm, leave, send, draft, row, slips, shared>>
  BY RegTyped DEF Minted, Turns, IInv, RegRecs, server

\* add-file.
LEMMA ServeAddStep == ASSUME IInv, NEW n \in Regs, ServeAdd(n) PROVE
    /\ reg[n].at = "post" /\ Turns(n, "reply") /\ DraftOf(n) \in Regs
    /\ reg'[n].ok <=> reg[n].known = None \/ draft[reg[n].known] = "open"
    /\ reg'[n].ok =>
         /\ draft'[DraftOf(n)] = "open"
         /\ \A d \in Regs : d # DraftOf(n) => draft'[d] = draft[d]
         /\ row'[n].state = "open" /\ row'[n].draft = DraftOf(n)
         /\ \A m \in Regs : m # n => row'[m] = row[m]
    /\ ~reg'[n].ok => UNCHANGED <<draft, row>>
    /\ UNCHANGED <<page, files, draftId, initP, up, rm, leave, send, slips, shared>>
<1>1. reg \in [Regs -> RegRecs] /\ reg[n] \in RegRecs /\ DraftOf(n) \in Regs
  BY RegTyped DEF DraftOf, IInv, RegRecs, Ids
<1>2. /\ reg[n].at = "post" /\ Turns(n, "reply")
      /\ reg'[n].ok <=> reg[n].known = None \/ draft[DraftOf(n)] = "open"
  BY <1>1 DEF ServeAdd, Turns, RegRecs
<1>3. reg'[n].ok =>
         /\ draft'[DraftOf(n)] = "open"
         /\ \A d \in Regs : d # DraftOf(n) => draft'[d] = draft[d]
         /\ row'[n].state = "open" /\ row'[n].draft = DraftOf(n)
         /\ \A m \in Regs : m # n => row'[m] = row[m]
  BY <1>1, <1>2, RowTyped, ServerTyped DEF ServeAdd, IInv
<1>4. ~reg'[n].ok => UNCHANGED <<draft, row>>
  BY <1>2 DEF ServeAdd
<1>. QED
  BY <1>1, <1>2, <1>3, <1>4 DEF ServeAdd, DraftOf, refs

\* The answer to add-file.
LEMMA RegisteredStep == ASSUME IInv, NEW n \in Regs, Registered(n) PROVE
    /\ reg[n].at = "reply" /\ reg[n].ok /\ reg'[n].ok
    /\ draftId' = IF draftId = None THEN DraftOf(n) ELSE draftId
    /\ \/ /\ files[reg[n].name].state = "absent" /\ Turns(n, "drop") /\ files' = files
       \/ /\ files[reg[n].name].state # "absent" /\ Turns(n, "end")
          /\ files'[reg[n].name].state # "absent" /\ files'[reg[n].name].row = n
          /\ \A h \in Names : h # reg[n].name => files'[h] = files[h]
    /\ UNCHANGED <<page, initP, up, rm, leave, send, draft, row, slips, shared>>
<1>1. reg \in [Regs -> RegRecs] /\ reg[n] \in RegRecs /\ reg[n].name \in Names
  BY RegTyped DEF Registered, IInv, RegInv, RegOk
<1>2. CASE files[reg[n].name].state = "absent"
  BY <1>1, <1>2 DEF Registered, Turns, RegRecs, server
<1>3. CASE files[reg[n].name].state # "absent"
  <2>1. /\ files'[reg[n].name].state # "absent" /\ files'[reg[n].name].row = n
        /\ \A h \in Names : h # reg[n].name => files'[h] = files[h]
    BY <1>1, <1>3, FilesTyped DEF Registered, IInv
  <2>2. reg' = [reg EXCEPT ![n].at = "end"]
    BY <1>3 DEF Registered
  <2>3. Turns(n, "end") /\ reg'[n].ok = reg[n].ok
    BY <1>1, <2>2 DEF Turns, RegRecs
  <2>. QED
    BY <1>3, <2>1, <2>3 DEF Registered, server
<1>. QED
  BY <1>2, <1>3

\* The registration was refused.
LEMMA RegistrationFailedStep == ASSUME IInv, NEW n \in Regs, RegistrationFailed(n) PROVE
    /\ reg[n].at = "reply" /\ ~reg[n].ok /\ ~reg'[n].ok /\ Turns(n, "end") /\ Relabels
    /\ initP' = IF reg[n].known = None THEN None ELSE initP
    /\ UNCHANGED <<page, draftId, up, rm, leave, send, draft, row, slips, shared>>
<1>1. Turns(n, "end") /\ ~reg'[n].ok
  BY RegTyped DEF RegistrationFailed, Turns, IInv, RegRecs
<1>2. Relabels
  BY FilesTyped DEF RegistrationFailed, Mark, Patch, Relabels, IInv, FileRecs
<1>. QED
  BY <1>1, <1>2 DEF RegistrationFailed, server

\* A row is removed, with its draft if it was the last.
Takes(d, n) ==
    /\ HasRow(d, n) => row'[n].state = "gone" /\ row'[n].draft = row[n].draft
    /\ ~HasRow(d, n) => UNCHANGED <<row, draft>>
    /\ \A m \in Regs : m # n => row'[m] = row[m]
    /\ \A e \in Regs : e # d => draft'[e] = draft[e]
    /\ draft'[d] # draft[d] => draft'[d] = "gone" /\ RowsOf(d) = {n}
    /\ HasRow(d, n) /\ RowsOf(d) = {n} => draft'[d] = "gone"

\* A draft is aborted, with its rows.
Aborts(d) ==
    /\ draft[d] # "open" => UNCHANGED <<row, draft>>
    /\ draft[d] = "open" => draft'[d] = "gone"
    /\ \A e \in Regs : e # d => draft'[e] = draft[e]
    /\ \A m \in Regs : m \notin RowsOf(d) => row'[m] = row[m]
    /\ draft[d] = "open" =>
         \A m \in RowsOf(d) : row'[m].state = "gone" /\ row'[m].draft = row[m].draft

\* remove-file does that.
LEMMA TakesRow == ASSUME TypeOK, NEW d \in Regs, NEW n \in Regs, RemoveRow(d, n)
                  PROVE  Takes(d, n)
<1>1. row \in [Regs -> RowRecs] /\ draft \in [Regs -> {"none", "open", "gone", "sent"}]
  BY RowTyped, ServerTyped
<1>2. CASE HasRow(d, n)
  BY <1>1, <1>2 DEF RemoveRow, Takes, RowRecs
<1>3. CASE ~HasRow(d, n)
  BY <1>3 DEF RemoveRow, Takes
<1>. QED
  BY <1>2, <1>3

\* abort does that.
LEMMA AbortsDraft == ASSUME TypeOK, NEW d \in Regs, AbortDraft(d) PROVE Aborts(d)
<1>1. row \in [Regs -> RowRecs] /\ draft \in [Regs -> {"none", "open", "gone", "sent"}]
  BY RowTyped, ServerTyped
<1>2. CASE draft[d] = "open"
  BY <1>1, <1>2 DEF AbortDraft, Aborts, RowsOf, RowRecs
<1>3. CASE draft[d] # "open"
  BY <1>3 DEF AbortDraft, Aborts
<1>. QED
  BY <1>2, <1>3

\* The cleanup of a file that was removed before its row was known.
LEMMA ServeDropStep == ASSUME IInv, NEW n \in Regs, ServeDrop(n) PROVE
    /\ reg[n].at = "drop" /\ Turns(n, "dropped") /\ reg'[n].ok = reg[n].ok
    /\ reg[n].known = None => Aborts(n)
    /\ reg[n].known # None => reg[n].known \in Regs /\ Takes(reg[n].known, n)
    /\ UNCHANGED <<page, files, draftId, initP, up, rm, leave, send, slips, shared>>
<1>1. reg[n].known \in Ids /\ TypeOK
  BY RegTyped DEF IInv, RegRecs
<1>2. reg[n].at = "drop" /\ Turns(n, "dropped") /\ reg'[n].ok = reg[n].ok
  BY RegTyped DEF ServeDrop, Turns, IInv, RegRecs
<1>3. reg[n].known = None => Aborts(n)
  BY <1>1, AbortsDraft DEF ServeDrop, CleanUp
<1>4. reg[n].known # None => reg[n].known \in Regs /\ Takes(reg[n].known, n)
  BY <1>1, TakesRow DEF ServeDrop, CleanUp, Ids
<1>. QED
  BY <1>2, <1>3, <1>4 DEF ServeDrop, refs

\* registerFile returns null.
LEMMA DroppedStep == ASSUME IInv, NEW n \in Regs, Dropped(n) PROVE
    /\ reg[n].at = "dropped" /\ Turns(n, "end") /\ (reg'[n].ok <=> reg[n].known # None)
    /\ reg[n].known = None => draftId' = None /\ initP' = None
    /\ reg[n].known # None => draftId' = draftId /\ initP' = initP
    /\ UNCHANGED <<page, files, up, rm, leave, send, draft, row, slips, shared>>
  BY RegTyped DEF Dropped, Turns, IInv, RegRecs, server

\* remove-file, for the row of a file that was removed.
LEMMA ServeRemoveStep == ASSUME IInv, NEW n \in Regs, ServeRemove(n), rm[n].draft \in Regs PROVE
    /\ rm[n].at = "post" /\ rm'[n].at = "reply" /\ rm'[n].last = rm[n].last
    /\ \A m \in Regs : m # n => rm'[m] = rm[m]
    /\ Takes(rm[n].draft, n)
    /\ UNCHANGED <<page, files, draftId, initP, reg, up, leave, send, slips, shared>>
  BY CallsTyped, TakesRow DEF ServeRemove, IInv, CallRecs, refs

\* After the last file everything goes.
LEMMA RemovedStep == ASSUME IInv, NEW n \in Regs, Removed(n) PROVE
    /\ rm[n].at = "reply" /\ rm'[n].at = "end" /\ \A m \in Regs : m # n => rm'[m] = rm[m]
    /\ \/ /\ \A k \in Names : files'[k].state = "absent" /\ files'[k].row = None
          /\ draftId' = None /\ initP' = None
          /\ Listed # {} => "wiped" \in slips'
          /\ "wiped" \in slips' \/ \A m \in Regs : reg[m].at \in {"free", "end"}
       \/ UNCHANGED <<files, draftId, initP>>
    /\ UNCHANGED <<page, reg, up, leave, send, draft, row, shared>>
<1>1. rm[n].at = "reply" /\ rm'[n].at = "end" /\ \A m \in Regs : m # n => rm'[m] = rm[m]
  BY CallsTyped DEF Removed, NoCall, IInv
<1>2. \/ /\ \A k \in Names : files'[k].state = "absent" /\ files'[k].row = None
         /\ draftId' = None /\ initP' = None
         /\ Listed # {} => "wiped" \in slips'
         /\ "wiped" \in slips' \/ \A m \in Regs : reg[m].at \in {"free", "end"}
      \/ UNCHANGED <<files, draftId, initP>>
  BY DEF Removed, ResetLocal, Absent
<1>. QED
  BY <1>1, <1>2 DEF Removed, server

\* The pump, and the answers it and the polls get.
LEMMA LabelStep == ASSUME IInv, (\E k \in Names : PumpStart(k))
                          \/ (\E n \in Regs : UploadSettled(n)) \/ PollAgain
                   PROVE
    /\ Relabels
    /\ send' = send \/ (/\ Waiting /\ send'.at = "post" /\ send'.id = send.id
                        /\ send'.wanted = send.wanted /\ send'.answer = "none")
    /\ UNCHANGED <<page, draftId, initP, reg, rm, leave, draft, row, slips, shared>>
<1>1. ASSUME NEW k \in Names, PumpStart(k) PROVE Relabels
  BY <1>1, FilesTyped DEF PumpStart, Relabels, IInv, FileRecs
<1>2. ASSUME NEW n \in Regs, UploadSettled(n) PROVE Relabels
  <2>1. files' = files \/ files' = [files EXCEPT ![reg[n].name] =
                                   [files[reg[n].name] EXCEPT !.state = Outcome(n)]]
    BY <1>2 DEF UploadSettled, Mark, Patch
  <2>2. files' # files => files[reg[n].name].state # "absent" /\ Outcome(n) # "absent"
    BY <1>2 DEF UploadSettled, Mark, Patch, Outcome
  <2>. QED
    BY <2>1, <2>2, FilesTyped DEF Relabels, IInv, FileRecs
<1>3. ASSUME PollAgain PROVE Relabels
  <2>1. \A k \in Names : files'[k] = files[k] \/ files'[k] = [files[k] EXCEPT !.state = "importing"]
                         \/ (files[k].state = "importing" /\ files'[k] = [files[k] EXCEPT !.state = "done"])
    BY <1>3 DEF PollAgain
  <2>2. \A k \in Names : files[k].row \in send.pending => files[k].state # "absent"
    BY Numbers, SendTyped DEF IInv, FileInv, SendRecs
  <2>. QED
    BY <1>3, <2>1, <2>2, FilesTyped DEF PollAgain, Relabels, IInv, FileRecs
<1>4. PollAgain => /\ Waiting /\ send'.at = "post" /\ send'.id = send.id
                   /\ send'.wanted = send.wanted /\ send'.answer = "none"
  BY SendTyped DEF PollAgain, IInv, SendRecs
<1>. QED
  BY <1>1, <1>2, <1>3, <1>4 DEF PumpStart, UploadSettled, PollAgain, refs, server

\* An upload that was cut short ends with its draft.
LEMMA ServeShortStep == ASSUME IInv, NEW n \in Regs, ServeShort(n) PROVE
    /\ UNCHANGED <<row, draft, slips>>
       \/ ("short" \in slips' /\ \E e \in Regs : Aborts(e))
    /\ UNCHANGED <<page, files, draftId, initP, reg, rm, leave, send, shared>>
<1>1. HasRow(up[n].draft, n) => up[n].draft \in Regs
  <2>1. up[n].draft \in Ids
    BY UpTyped DEF IInv, UpRecs
  <2>2. row[n].state # "none" => row[n].draft # None
    BY Numbers DEF IInv, RowInv, DraftOf
  <2>. QED
    BY <2>1, <2>2 DEF HasRow, RowsOf, Ids
<1>. QED
  BY <1>1, AbortsDraft DEF ServeShort, IInv, refs

\* Uploads and imports leave the set of rows as it is.
LEMMA BytesStep == ASSUME IInv, NEW n \in Regs, ServeComplete(n) \/ ImportEnds(n) PROVE
    /\ RowsKept
    /\ UNCHANGED <<page, files, draftId, initP, reg, rm, leave, send, draft, slips, shared>>
<1>1. ASSUME ServeComplete(n) PROVE RowsKept
  BY <1>1, RowTyped DEF ServeComplete, RowsKept, IInv, RowRecs
<1>2. ASSUME ImportEnds(n) PROVE RowsKept
  BY <1>2, RowTyped DEF ImportEnds, RowsKept, IInv, RowRecs
<1>. QED
  BY <1>1, <1>2 DEF ServeComplete, ImportEnds, refs

\* submit, up to its wait.
LEMMA SubmitsStep == ASSUME IInv, Submit PROVE
    /\ page = "open" /\ draftId # None /\ send'.at = "armed" /\ send'.id = draftId
    /\ send'.wanted = Listed /\ send'.answer = "none" /\ ~Finalizing
    /\ UNCHANGED <<page, files, draftId, initP, reg, rm, leave, draft, row, slips, shared>>
  BY DEF Submit, Sendable, Finalizing, refs, server

\* The wait is over.
LEMMA ResolveStep == ASSUME IInv, TickResolves PROVE
    /\ send.at = "armed" /\ ~send.cancel /\ Listed # {} /\ page = "open"
    /\ \A k \in Listed : files[k].state = "done"
    /\ send'.at = "post" /\ send'.id = send.id /\ send'.wanted = send.wanted
    /\ send'.answer = send.answer
    /\ "overtaken" \notin slips' =>
         \A n \in Regs : rm[n].at # "post" /\ reg[n].at \in {"free", "end"}
    /\ UNCHANGED <<page, files, draftId, initP, reg, rm, leave, draft, row, shared>>
<1>1. /\ send'.at = "post" /\ send'.id = send.id /\ send'.wanted = send.wanted
      /\ send'.answer = send.answer
  BY SendTyped DEF TickResolves, IInv, SendRecs
<1>2. page = "open"
  BY Types DEF TickResolves, IInv
<1>. QED
  BY <1>1, <1>2 DEF TickResolves, refs, server

\* The send ends, or is disarmed.
LEMMA UnsendStep == ASSUME IInv, EditMetadata \/ TickRejects \/ SendFailed \/ PollTimesOut PROVE
    /\ send'.at = "idle" \/ (send'.at = "armed" /\ send'.cancel)
    /\ UNCHANGED <<page, files, draftId, initP, reg, rm, leave, draft, row, slips, shared>>
<1>1. EditMetadata => send'.at = "armed" /\ send'.cancel
  BY SendTyped DEF EditMetadata, IInv, SendRecs
<1>. QED
  BY <1>1 DEF EditMetadata, TickRejects, SendFailed, PollTimesOut, NoSend, refs, server

\* finalize: the rows of the draft stay, and it is sent or not.
LEMMA ServesFinalize == ASSUME IInv, ServeFinalize PROVE
    /\ send.at = "post" /\ send'.at = "reply" /\ send'.id = send.id /\ send'.wanted = send.wanted
    /\ send.id \in Regs
    /\ RowsKept
    /\ \/ send'.answer # "sent" /\ UNCHANGED <<draft, shared>>
       \/ /\ send'.answer = "sent" /\ draft[send.id] = "open" /\ draft'[send.id] = "sent"
          /\ shared'[send.id].names = send.wanted
          /\ \A d \in Regs : d # send.id => draft'[d] = draft[d] /\ shared'[d] = shared[d]
    /\ UNCHANGED <<page, files, draftId, initP, reg, rm, leave, slips>>
<1> DEFINE d == send.id
<1>1. Finalizes(d) /\ send.at = "post" /\ d \in Regs
  BY FinalizeStep DEF IInv, FinalInv
<1>2. /\ row \in [Regs -> RowRecs] /\ send \in SendRecs
      /\ draft \in [Regs -> {"none", "open", "gone", "sent"}] /\ shared \in [Regs -> Shares]
  BY RowTyped, SendTyped, ServerTyped DEF IInv
<1>3. UNCHANGED <<page, files, draftId, initP, reg, rm, leave, slips>>
  BY <1>1 DEF Finalizes
<1>4. CASE /\ send' = [send EXCEPT !.at = "reply", !.answer = "refused"]
           /\ UNCHANGED <<draft, row, parked, shared>>
  BY <1>1, <1>2, <1>3, <1>4 DEF RowsKept, SendRecs
<1>5. CASE Waits(d)
  <2>1. /\ send'.at = "reply" /\ send'.id = send.id /\ send'.wanted = send.wanted
        /\ send'.answer # "sent" /\ UNCHANGED <<draft, shared>>
    BY <1>2, <1>5 DEF Waits, SendRecs
  <2>2. RowsKept
    BY <1>2, <1>5 DEF Waits, Pending, RowsOf, RowsKept, RowRecs
  <2>. QED
    BY <1>1, <1>3, <2>1, <2>2
<1>6. CASE /\ ~FinalizeRefused(d)
           /\ send' = [send EXCEPT !.at = "reply", !.answer = "sent"]
           /\ draft' = [draft EXCEPT ![d] = "sent"]
           /\ row' = [n \in Regs |-> IF n \in RowsOf(d)
                                     THEN [row[n] EXCEPT !.state = "sent"] ELSE row[n]]
           /\ shared' = [shared EXCEPT ![d] =
                          [names |-> send.wanted,
                           key |-> IF send.confidential THEN send.carried ELSE send.posted]]
  <2>1. /\ send'.at = "reply" /\ send'.id = send.id /\ send'.wanted = send.wanted
        /\ send'.answer = "sent"
    BY <1>2, <1>6 DEF SendRecs
  <2>2. RowsKept
    BY <1>2, <1>6 DEF RowsOf, RowsKept, RowRecs
  <2>3. /\ draft[d] = "open" /\ draft'[d] = "sent" /\ shared'[d].names = send.wanted
        /\ \A e \in Regs : e # d => draft'[e] = draft[e] /\ shared'[e] = shared[e]
    BY <1>1, <1>2, <1>6 DEF FinalizeRefused
  <2>. QED
    BY <1>1, <1>3, <2>1, <2>2, <2>3
<1>. QED
  BY <1>1, <1>4, <1>5, <1>6 DEF Finalizes

\* The page is left: by the send that succeeded, or by the user.
LEMMA LeftStep == ASSUME IInv, Sent \/ Leave PROVE
    /\ page' = "left" /\ draftId' = None /\ initP' = None
    /\ \A k \in Names : files'[k].state = "absent" /\ files'[k].row = None
    /\ \/ /\ Sent /\ send.at = "reply" /\ send.answer = "sent" /\ send'.at = "idle" /\ leave' = leave
       \/ /\ Leave /\ page = "open" /\ send' = send
          /\ draftId # None => leave'.at = "post" /\ leave'.draft = draftId
          /\ draftId = None => leave' = leave
    /\ UNCHANGED <<reg, rm, draft, row, slips, shared>>
<1>1. Sent => send.at = "reply" /\ send.answer = "sent" /\ send'.at = "idle" /\ leave' = leave
  BY SendTyped DEF Sent, IInv, SendRecs
<1>2. Leave => /\ page = "open" /\ send' = send
               /\ draftId # None => leave'.at = "post" /\ leave'.draft = draftId
               /\ draftId = None => leave' = leave
  BY DEF Leave, NoCall
<1>. QED
  BY <1>1, <1>2 DEF Sent, Leave, StopLocal, ResetLocal, Absent, server

\* The abort of a draft whose page was left.
LEMMA ServeAbortStep == ASSUME IInv, ServeAbort, leave.draft \in Regs PROVE
    /\ leave.at = "post" /\ leave'.at = "end" /\ Aborts(leave.draft)
    /\ UNCHANGED <<page, files, draftId, initP, reg, up, rm, send, slips, shared>>
  BY AbortsDraft DEF ServeAbort, NoCall, IInv, refs

\* What is lost changes neither the list nor a row.
LEMMA LossStep == ASSUME IInv, Loss PROVE
    /\ "lost" \in slips' /\ slips \subseteq slips'
    /\ send' = send \/ (Finalizing /\ send'.at = "reply" /\ send'.id = send.id
                        /\ send'.answer = "refused")
    /\ leave' = leave \/ leave'.at = "end"
    /\ UNCHANGED <<page, files, draftId, initP, draft, row, shared>>
<1>1. LoseFinalize => /\ Finalizing /\ send'.at = "reply" /\ send'.id = send.id
                      /\ send'.answer = "refused"
  BY SendTyped DEF LoseFinalize, IInv, SendRecs
<1>. QED
  BY <1>1 DEF Loss, LoseRegistration, LoseUpload, LoseRemoval, LoseFinalize, LoseAbort, Fault,
              NoCall, server


Agreed == /\ LinkInv /\ JoinInv /\ AliasInv /\ LandInv /\ BaseInv /\ AgreeInv
          /\ AimInv /\ FixInv /\ SentInv /\ OpenInv

-----------------------------------------------------------------------------
(* What any step may do. *)

\* A file is added, is registered under its name, is patched, or goes.
FileMoves(k) ==
    \/ files'[k] = files[k]
    \/ files'[k] = Absent
    \/ /\ files[k].state = "absent" /\ page = "open"
       /\ files'[k].state = "registering" /\ files'[k].row = None
       /\ \E n \in Regs : reg[n].at = "free" /\ reg'[n].at # "free" /\ reg'[n].name = k
    \/ /\ files[k].state # "absent" /\ files'[k].state # "absent"
       /\ files'[k].row \in Regs /\ reg[files'[k].row].at = "reply"
       /\ reg'[files'[k].row].at = "end" /\ reg[files'[k].row].name = k
       /\ k \in Drives <=> files'[k].state = "done"
    \/ /\ files[k].state # "absent" /\ files'[k].row = files[k].row
       /\ files'[k].state \in {"error", "uploading", "importing"}
       /\ files'[k].state = "importing" => files[k].row \in Regs
    \/ /\ files[k].state # "absent" /\ files'[k].row = files[k].row
       /\ files'[k].state = "done"
       /\ \/ files[k].state = "importing" /\ k \in Drives
          \/ \E n \in Regs : reg[n].name = k /\ up[n].at = "reply" /\ up[n].ok

\* A removal is posted for a row the list showed, of the page's draft.
CallMoves(n) ==
    \/ rm'[n] = rm[n]
    \/ /\ rm[n].at # "none" /\ rm'[n].at \in {"reply", "end"}
    \/ /\ page = "open" /\ draftId # None /\ ~Finalizing
       /\ rm'[n].at = "post" /\ rm'[n].draft = draftId
       /\ \E k \in Names : files[k].row = n /\ files'[k] = Absent

\* An uploader starts for a row the list shows.
LoadMoves(n) ==
    \/ up'[n].at = up[n].at /\ up'[n].ok = up[n].ok
    \/ Moving(n) /\ up'[n].at \in {"complete", "short", "end"}
    \/ Moving(n) /\ up'[n].at = "reply" /\ (up'[n].ok => row'[n].state = "landed")
    \/ up'[n].at = "parts" /\ \E k \in Names : files[k].row = n

\* The page takes the draft of the first answer it gets.
RefMoves ==
    \/ draftId' = draftId \/ draftId' = None
    \/ /\ draftId = None
       /\ \E m \in Regs : reg[m].at = "reply" /\ reg'[m].at \in Settled /\ draftId' = DraftOf(m)

\* A registration is for the draft it was started for, or awaited.
KnownMoves(m) ==
    \/ reg'[m].known = reg[m].known
    \/ /\ reg[m].at = "free" /\ draftId # None /\ reg'[m].known = draftId
       /\ reg[draftId].at \in {"drop", "dropped"} => "joined" \in slips'
    \/ /\ reg[m].awaits \in Regs /\ reg[reg[m].awaits].at = "end"
       /\ reg'[m].known = DraftOf(reg[m].awaits)

\* An abort is posted when the page is left, once.
LeaveMoves ==
    \/ leave' = leave \/ leave'.at = "end"
    \/ /\ page = "open" /\ page' = "left" /\ draftId # None
       /\ leave'.at = "post" /\ leave'.draft = draftId

\* A row goes when its file was removed, when the draft of its registration is
\* cleaned up, or with the page.
GoneMoves(m) == row'[m].state = "gone" =>
    \/ row[m].state = "gone" \/ "short" \in slips'
    \/ reg[m].at = "drop" \/ rm[m].at = "post"
    \/ \E a \in Regs : /\ reg[a].at = "drop" /\ reg[a].known = None /\ reg[m].known = a
                       /\ draft'[a] = "gone"
    \/ page = "left" /\ leave.at = "post" /\ leave.draft = row[m].draft
       /\ draft'[row[m].draft] = "gone"

\* A registration is answered by the server, which adds its row or does not.
ReplyMoves(m) == reg'[m].at = "reply" =>
    \/ reg[m].at = "reply" /\ reg'[m].ok = reg[m].ok
    \/ /\ reg[m].at = "post"
       /\ IF reg'[m].ok THEN row'[m].state = "open" ELSE row'[m] = row[m]
    \/ "lost" \in slips'

\* A send is of one draft, the page's when it starts.
SendIdMoves ==
    \/ send'.at = "idle"
    \/ send.at # "idle" /\ send'.id = send.id
    \/ draftId # None /\ send'.id = draftId

\* What is under way goes on, or what it was for ends.
WayMoves(d) ==
    /\ draft'[d] = "open" /\ draft[d] # "open" =>
         reg[d].at = "post" /\ reg[d].known = None /\ reg'[d].at = "reply" /\ reg'[d].known = None
    /\ reg[d].at = "reply" /\ reg[d].ok =>
         \/ reg'[d].at = "reply" \/ "lost" \in slips'
         \/ /\ draftId' = IF draftId = None THEN DraftOf(d) ELSE draftId
            /\ page = "left" => reg'[d].at = "drop"
    /\ reg[d].at = "drop" =>
         \/ reg'[d].at = "drop" \/ "lost" \in slips'
         \/ reg[d].known = None => Aborts(d)
    /\ reg'[d].at = "dropped" => reg[d].at = "dropped" \/ (reg[d].known = None => Aborts(d))
    /\ rm[d].at = "post" =>
         rm'[d].at = "post" \/ "lost" \in slips' \/ Takes(rm[d].draft, d)
    /\ page = "left" /\ UnderWay(d)' => UnderWay(d) /\ reg'[d].known = reg[d].known

\* The page forgets its draft, or is left.
PageMoves ==
    /\ leave.at = "post" => leave' = leave \/ "lost" \in slips' \/ Aborts(leave.draft)
    /\ draftId # None /\ draftId' # draftId /\ page' = "open" =>
         \/ \E n \in Regs : reg[n].at = "dropped" /\ reg[n].known = None
         \/ "wiped" \in slips'
         \/ /\ Listed = {} /\ row' = row
            /\ \A m \in Regs : /\ reg[m].at \in {"free", "end"}
                               /\ rm[m].at = "post" => rm'[m].at = "post"
    /\ page = "open" /\ page' = "left" =>
         /\ UNCHANGED <<reg, rm, draft, row, slips>>
         /\ \/ send.at = "reply" /\ send.answer = "sent"
            \/ draftId # None => leave'.at = "post" /\ leave'.draft = draftId

\* A draft is shared by the send that is being finalized, with what it wants.
ShareMoves ==
    /\ send'.at = "reply" /\ send'.answer = "sent" =>
         send' = send \/ draft'[send'.id] = "sent"
    /\ \A d \in Regs : draft'[d] = "sent" /\ draft[d] # "sent" =>
         /\ d = send.id /\ Finalizing /\ draft[d] = "open"
         /\ shared'[d].names = send.wanted /\ RowsOf(d)' = RowsOf(d)

\* Every step moves a file so.
LEMMA FileStep == 
    ASSUME IInv, [Next]_vars, NEW h \in Names PROVE FileMoves(h)
<1>1. ASSUME NEW n \in Regs, NEW k \in Names, AddFile(n, k) PROVE FileMoves(h)
  BY <1>1, AddFileStep, Numbers DEF FileMoves, AddMoves, Start
<1>2. ASSUME NEW k \in Names, RemoveFile(k) PROVE FileMoves(h)
  BY <1>2, Numbers, FilesTyped, SendTyped, RegTyped, UpTyped DEF RemoveFile,
      Removable, Disarm, Absent, server, IInv, FileMoves, FileInv, FileRecs,
      SendRecs, RegRecs, UpRecs
<1>3. ASSUME NEW k \in Names, PumpStart(k) PROVE FileMoves(h)
  BY <1>3, Numbers, FilesTyped, SendTyped, RegTyped, UpTyped DEF PumpStart, server,
      IInv, FileMoves, FileInv, Absent, FileRecs, SendRecs, RegRecs, UpRecs
<1>4. ASSUME NEW n \in Regs, InitSettled(n) PROVE FileMoves(h)
  BY <1>4, Numbers, FilesTyped, SendTyped, RegTyped, UpTyped DEF InitSettled, Mark,
      Patch, Start, DraftOf, refs, server, IInv, FileMoves, FileInv, Absent,
      FileRecs, SendRecs, RegRecs, UpRecs
<1>5. ASSUME NEW n \in Regs, Registered(n) PROVE FileMoves(h)
  BY <1>5, Numbers, FilesTyped, SendTyped, RegTyped, UpTyped DEF Registered,
      DraftOf, server, IInv, FileMoves, FileInv, Absent, FileRecs, SendRecs,
      RegRecs, UpRecs
<1>6. ASSUME NEW n \in Regs, RegistrationFailed(n) PROVE FileMoves(h)
  BY <1>6, Numbers, FilesTyped, SendTyped, RegTyped, UpTyped DEF
      RegistrationFailed, Mark, Patch, server, IInv, FileMoves, FileInv, Absent,
      FileRecs, SendRecs, RegRecs, UpRecs
<1>7. ASSUME NEW n \in Regs, Removed(n) PROVE FileMoves(h)
  BY <1>7, Numbers, FilesTyped, SendTyped, RegTyped, UpTyped DEF Removed,
      ResetLocal, NoCall, Listed, Absent, server, IInv, FileMoves, FileInv,
      FileRecs, SendRecs, RegRecs, UpRecs
<1>8. ASSUME NEW n \in Regs, UploadSettled(n) PROVE FileMoves(h)
  BY <1>8, Numbers, FilesTyped, SendTyped, RegTyped, UpTyped DEF UploadSettled,
      NoUpload, Mark, Patch, Outcome, server, IInv, FileMoves, FileInv, Absent,
      FileRecs, SendRecs, RegRecs, UpRecs
<1>9. ASSUME PollAgain PROVE FileMoves(h)
  BY <1>9, Numbers, FilesTyped, SendTyped, RegTyped, UpTyped DEF PollAgain,
      Waiting, refs, server, IInv, FileMoves, FileInv, Absent, FileRecs, SendRecs,
      RegRecs, UpRecs
<1>10. ASSUME Sent PROVE FileMoves(h)
  BY <1>10, Numbers, FilesTyped, SendTyped, RegTyped, UpTyped DEF Sent, StopLocal,
      ResetLocal, Absent, server, IInv, FileMoves, FileInv, FileRecs, SendRecs,
      RegRecs, UpRecs
<1>11. ASSUME Leave PROVE FileMoves(h)
  BY <1>11, Numbers, FilesTyped, SendTyped, RegTyped, UpTyped DEF Leave, StopLocal,
      ResetLocal, NoCall, Absent, server, IInv, FileMoves, FileInv, FileRecs,
      SendRecs, RegRecs, UpRecs
<1>12. ASSUME NEW n \in Regs, Minted(n) \/ ServeAdd(n) \/ ServeDrop(n) \/
          Dropped(n) \/ ServeRemove(n) \/ PartsUp(n) \/ PartsFail(n) \/
          ServeComplete(n) \/ ServeShort(n) \/ ImportEnds(n) \/ LoseRegistration(n)
          \/ LoseUpload(n) \/ LoseRemoval(n) PROVE FileMoves(h)
  BY <1>12, Numbers, FilesTyped, SendTyped, RegTyped, UpTyped DEF Minted, ServeAdd,
      ServeDrop, Dropped, ServeRemove, PartsUp, PartsFail, ServeComplete,
      ServeShort, ImportEnds, LoseRegistration, LoseUpload, LoseRemoval, refs,
      server, Fault, IInv, FileMoves, FileInv, Absent, FileRecs, SendRecs, RegRecs,
      UpRecs
<1>13. ASSUME Submit \/ EditMetadata \/ TickRejects \/ TickResolves \/
          ServeFinalize \/ SendFailed \/ PollTimesOut \/ ServeAbort \/ LoseFinalize
          \/ LoseAbort PROVE FileMoves(h)
  BY <1>13, Numbers, FilesTyped, SendTyped, RegTyped, UpTyped DEF Submit,
      EditMetadata, TickRejects, TickResolves, ServeFinalize, SendFailed,
      PollTimesOut, ServeAbort, LoseFinalize, LoseAbort, refs, server, Fault, IInv,
      FileMoves, FileInv, Absent, FileRecs, SendRecs, RegRecs, UpRecs
<1>14. CASE UNCHANGED vars
  BY <1>14, Numbers, FilesTyped, SendTyped, RegTyped, UpTyped DEF vars, refs,
      server, IInv, FileMoves, FileInv, Absent, FileRecs, SendRecs, RegRecs, UpRecs
<1>. QED
  BY <1>1, <1>2, <1>3, <1>4, <1>5, <1>6, <1>7, <1>8, <1>9, <1>10, <1>11, <1>12,
      <1>13, <1>14 DEF Next, Answer, SendStep, Loss

\* Every step moves a removal so.
LEMMA CallStep == 
    ASSUME IInv, [Next]_vars, NEW m \in Regs PROVE CallMoves(m)
<1>1. ASSUME NEW k \in Names, RemoveFile(k) PROVE CallMoves(m)
  BY <1>1, Numbers, CallsTyped, RefsTyped, FilesTyped DEF RemoveFile, Removable,
      Disarm, Absent, server, IInv, CallMoves, Finalizing, Ids, FileRecs, CallRecs
<1>2. ASSUME NEW n \in Regs, ServeRemove(n) PROVE CallMoves(m)
  BY <1>2, Numbers, CallsTyped, RefsTyped, FilesTyped DEF ServeRemove, RemoveRow,
      HasRow, RowsOf, refs, IInv, CallMoves, Finalizing, Absent, Ids, FileRecs,
      CallRecs
<1>3. ASSUME NEW n \in Regs, Removed(n) PROVE CallMoves(m)
  BY <1>3, Numbers, CallsTyped, RefsTyped, FilesTyped DEF Removed, ResetLocal,
      NoCall, Listed, Absent, server, IInv, CallMoves, Finalizing, Ids, FileRecs,
      CallRecs
<1>4. ASSUME NEW n \in Regs, LoseRemoval(n) PROVE CallMoves(m)
  BY <1>4, Numbers, CallsTyped, RefsTyped, FilesTyped DEF LoseRemoval, Fault, refs,
      server, IInv, CallMoves, Finalizing, Absent, Ids, FileRecs, CallRecs
<1>5. ASSUME NEW n \in Regs, NEW k \in Names, AddFile(n, k) PROVE CallMoves(m)
  BY <1>5, Numbers, CallsTyped, RefsTyped, FilesTyped DEF AddFile, refs, server,
      IInv, CallMoves, Finalizing, Absent, Ids, FileRecs, CallRecs
<1>6. ASSUME NEW k \in Names, PumpStart(k) PROVE CallMoves(m)
  BY <1>6, Numbers, CallsTyped, RefsTyped, FilesTyped DEF PumpStart, refs, server,
      IInv, CallMoves, Finalizing, Absent, Ids, FileRecs, CallRecs
<1>7. ASSUME NEW n \in Regs, InitSettled(n) \/ Minted(n) \/ ServeAdd(n) \/
          Registered(n) \/ RegistrationFailed(n) \/ ServeDrop(n) \/ Dropped(n) \/
          PartsUp(n) \/ PartsFail(n) \/ ServeComplete(n) \/ ServeShort(n) \/
          UploadSettled(n) \/ ImportEnds(n) \/ LoseRegistration(n) \/ LoseUpload(n)
          PROVE CallMoves(m)
  BY <1>7, Numbers, CallsTyped, RefsTyped, FilesTyped DEF InitSettled, Minted,
      ServeAdd, Registered, RegistrationFailed, ServeDrop, Dropped, PartsUp,
      PartsFail, ServeComplete, ServeShort, UploadSettled, ImportEnds,
      LoseRegistration, LoseUpload, refs, server, Fault, IInv, CallMoves,
      Finalizing, Absent, Ids, FileRecs, CallRecs
<1>8. ASSUME Submit \/ EditMetadata \/ TickRejects \/ TickResolves \/ ServeFinalize
          \/ PollAgain \/ SendFailed \/ Sent \/ PollTimesOut \/ Leave \/ ServeAbort
          \/ LoseFinalize \/ LoseAbort PROVE CallMoves(m)
  BY <1>8, Numbers, CallsTyped, RefsTyped, FilesTyped DEF Submit, EditMetadata,
      TickRejects, TickResolves, ServeFinalize, PollAgain, SendFailed, Sent,
      PollTimesOut, Leave, ServeAbort, LoseFinalize, LoseAbort, refs, server,
      Fault, IInv, CallMoves, Finalizing, Absent, Ids, FileRecs, CallRecs
<1>9. CASE UNCHANGED vars
  BY <1>9, Numbers, CallsTyped, RefsTyped, FilesTyped DEF vars, refs, server, IInv,
      CallMoves, Finalizing, Absent, Ids, FileRecs, CallRecs
<1>. QED
  BY <1>1, <1>2, <1>3, <1>4, <1>5, <1>6, <1>7, <1>8, <1>9 DEF Next, Answer,
      SendStep, Loss

\* Every step moves an uploader so.
LEMMA LoadStep == 
    ASSUME IInv, [Next]_vars, NEW m \in Regs PROVE LoadMoves(m)
<1>1. ASSUME NEW k \in Names, RemoveFile(k) PROVE LoadMoves(m)
  BY <1>1, Numbers, UpTyped, FilesTyped, RefsTyped, RowTyped DEF RemoveFile,
      Removable, Disarm, Absent, server, IInv, LoadMoves, Moving, UpRecs, FileRecs,
      Ids, RowRecs
<1>2. ASSUME NEW k \in Names, PumpStart(k) PROVE LoadMoves(m)
  BY <1>2, Numbers, UpTyped, FilesTyped, RefsTyped, RowTyped DEF PumpStart, server,
      IInv, LoadMoves, Moving, UpRecs, FileRecs, Ids, RowRecs
<1>3. ASSUME NEW n \in Regs, PartsUp(n) PROVE LoadMoves(m)
  BY <1>3, Numbers, UpTyped, FilesTyped, RefsTyped, RowTyped DEF PartsUp, HasRow,
      RowsOf, refs, server, IInv, LoadMoves, Moving, UpRecs, FileRecs, Ids, RowRecs
<1>4. ASSUME NEW n \in Regs, PartsFail(n) PROVE LoadMoves(m)
  <2>1. \A a \in Regs : a # n => up'[a] = up[a]
    BY <1>4, UpTyped DEF PartsFail, IInv
  <2>2. Moving(n) /\ up'[n].at = "reply" /\ up'[n].ok = FALSE
    BY <1>4, UpTyped DEF PartsFail, Moving, IInv, UpRecs
  <2>. QED
    BY <1>4, <2>1, <2>2, UpTyped DEF LoadMoves, Moving
<1>5. ASSUME NEW n \in Regs, ServeComplete(n) PROVE LoadMoves(m)
  BY <1>5, Numbers, UpTyped, FilesTyped, RefsTyped, RowTyped DEF ServeComplete,
      HasRow, RowsOf, refs, IInv, LoadMoves, Moving, UpRecs, FileRecs, Ids, RowRecs
<1>6. ASSUME NEW n \in Regs, ServeShort(n) PROVE LoadMoves(m)
  <2>1. \A a \in Regs : a # n => up'[a] = up[a]
    BY <1>6, UpTyped DEF ServeShort, IInv
  <2>2. Moving(n) /\ up'[n].at = "reply" /\ up'[n].ok = FALSE
    BY <1>6, UpTyped DEF ServeShort, Moving, IInv, UpRecs
  <2>. QED
    BY <1>6, <2>1, <2>2, UpTyped DEF LoadMoves, Moving
<1>7. ASSUME NEW n \in Regs, UploadSettled(n) PROVE LoadMoves(m)
  BY <1>7, Numbers, UpTyped, FilesTyped, RefsTyped, RowTyped DEF UploadSettled,
      NoUpload, Mark, Patch, Outcome, server, IInv, LoadMoves, Moving, UpRecs,
      FileRecs, Ids, RowRecs
<1>8. ASSUME Sent PROVE LoadMoves(m)
  BY <1>8, Numbers, UpTyped, FilesTyped, RefsTyped, RowTyped DEF Sent, StopLocal,
      ResetLocal, Absent, server, IInv, LoadMoves, Moving, UpRecs, FileRecs, Ids,
      RowRecs
<1>9. ASSUME Leave PROVE LoadMoves(m)
  BY <1>9, Numbers, UpTyped, FilesTyped, RefsTyped, RowTyped DEF Leave, StopLocal,
      ResetLocal, NoCall, Absent, server, IInv, LoadMoves, Moving, UpRecs,
      FileRecs, Ids, RowRecs
<1>10. ASSUME NEW n \in Regs, LoseUpload(n) PROVE LoadMoves(m)
  <2>1. \A a \in Regs : a # n => up'[a] = up[a]
    BY <1>10, UpTyped DEF LoseUpload, IInv
  <2>2. Moving(n) /\ up'[n].at = "reply" /\ up'[n].ok = FALSE
    BY <1>10, UpTyped DEF LoseUpload, Moving, IInv, UpRecs
  <2>. QED
    BY <1>10, <2>1, <2>2, UpTyped DEF LoadMoves, Moving
<1>11. ASSUME NEW n \in Regs, NEW k \in Names, AddFile(n, k) PROVE LoadMoves(m)
  BY <1>11, Numbers, UpTyped, FilesTyped, RefsTyped, RowTyped DEF AddFile, refs,
      server, IInv, LoadMoves, Moving, UpRecs, FileRecs, Ids, RowRecs
<1>12. ASSUME NEW n \in Regs, InitSettled(n) \/ Minted(n) \/ ServeAdd(n) \/
          Registered(n) \/ RegistrationFailed(n) \/ ServeDrop(n) \/ Dropped(n) \/
          ServeRemove(n) \/ Removed(n) \/ ImportEnds(n) \/ LoseRegistration(n) \/
          LoseRemoval(n) PROVE LoadMoves(m)
  BY <1>12, Numbers, UpTyped, FilesTyped, RefsTyped, RowTyped DEF InitSettled,
      Minted, ServeAdd, Registered, RegistrationFailed, ServeDrop, Dropped,
      ServeRemove, Removed, ImportEnds, LoseRegistration, LoseRemoval, refs,
      server, Fault, IInv, LoadMoves, Moving, UpRecs, FileRecs, Ids, RowRecs
<1>13. ASSUME Submit \/ EditMetadata \/ TickRejects \/ TickResolves \/
          ServeFinalize \/ PollAgain \/ SendFailed \/ PollTimesOut \/ ServeAbort \/
          LoseFinalize \/ LoseAbort PROVE LoadMoves(m)
  BY <1>13, Numbers, UpTyped, FilesTyped, RefsTyped, RowTyped DEF Submit,
      EditMetadata, TickRejects, TickResolves, ServeFinalize, PollAgain,
      SendFailed, PollTimesOut, ServeAbort, LoseFinalize, LoseAbort, refs, server,
      Fault, IInv, LoadMoves, Moving, UpRecs, FileRecs, Ids, RowRecs
<1>14. CASE UNCHANGED vars
  BY <1>14, Numbers, UpTyped, FilesTyped, RefsTyped, RowTyped DEF vars, refs,
      server, IInv, LoadMoves, Moving, UpRecs, FileRecs, Ids, RowRecs
<1>. QED
  BY <1>1, <1>2, <1>3, <1>4, <1>5, <1>6, <1>7, <1>8, <1>9, <1>10, <1>11, <1>12,
      <1>13, <1>14 DEF Next, Answer, SendStep, Loss

\* Only addFile starts a registration.
LEMMA StartStep == 
    ASSUME IInv, [Next]_vars, \A n \in Regs, k \in Names : ~AddFile(n, k), NEW m \in Regs,
           reg[m].at = "free"
    PROVE  reg'[m].at = "free"
<1>1. ASSUME NEW n \in Regs, NEW k \in Names, AddFile(n, k) PROVE reg'[m].at = "free"
  BY <1>1
<1>2. ASSUME NEW n \in Regs, InitSettled(n) PROVE reg'[m].at = "free"
  BY <1>2, RegTyped DEF InitSettled, Mark, Patch, Start, DraftOf, refs, server,
      IInv, RegRecs
<1>3. ASSUME NEW n \in Regs, Minted(n) PROVE reg'[m].at = "free"
  BY <1>3, RegTyped DEF Minted, server, IInv, RegRecs
<1>4. ASSUME NEW n \in Regs, ServeAdd(n) PROVE reg'[m].at = "free"
  BY <1>4, RegTyped DEF ServeAdd, DraftOf, refs, IInv, RegRecs
<1>5. ASSUME NEW n \in Regs, Registered(n) PROVE reg'[m].at = "free"
  BY <1>5, RegTyped DEF Registered, DraftOf, server, IInv, RegRecs
<1>6. ASSUME NEW n \in Regs, RegistrationFailed(n) PROVE reg'[m].at = "free"
  BY <1>6, RegTyped DEF RegistrationFailed, Mark, Patch, server, IInv, RegRecs
<1>7. ASSUME NEW n \in Regs, ServeDrop(n) PROVE reg'[m].at = "free"
  BY <1>7, RegTyped DEF ServeDrop, CleanUp, AbortDraft, RemoveRow, HasRow, RowsOf,
      refs, IInv, RegRecs
<1>8. ASSUME NEW n \in Regs, Dropped(n) PROVE reg'[m].at = "free"
  BY <1>8, RegTyped DEF Dropped, server, IInv, RegRecs
<1>9. ASSUME NEW n \in Regs, LoseRegistration(n) PROVE reg'[m].at = "free"
  BY <1>9, RegTyped DEF LoseRegistration, Fault, refs, server, IInv, RegRecs
<1>10. ASSUME NEW k \in Names, RemoveFile(k) \/ PumpStart(k) PROVE reg'[m].at =
          "free"
  BY <1>10, RegTyped DEF RemoveFile, PumpStart, refs, server, IInv, RegRecs
<1>11. ASSUME NEW n \in Regs, ServeRemove(n) \/ Removed(n) \/ PartsUp(n) \/
          PartsFail(n) \/ ServeComplete(n) \/ ServeShort(n) \/ UploadSettled(n) \/
          ImportEnds(n) \/ LoseUpload(n) \/ LoseRemoval(n) PROVE reg'[m].at =
          "free"
  BY <1>11, RegTyped DEF ServeRemove, Removed, PartsUp, PartsFail, ServeComplete,
      ServeShort, UploadSettled, ImportEnds, LoseUpload, LoseRemoval, refs, server,
      Fault, IInv, RegRecs
<1>12. ASSUME Submit \/ EditMetadata \/ TickRejects \/ TickResolves \/
          ServeFinalize \/ PollAgain \/ SendFailed \/ Sent \/ PollTimesOut \/ Leave
          \/ ServeAbort \/ LoseFinalize \/ LoseAbort PROVE reg'[m].at = "free"
  BY <1>12, RegTyped DEF Submit, EditMetadata, TickRejects, TickResolves,
      ServeFinalize, PollAgain, SendFailed, Sent, PollTimesOut, Leave, ServeAbort,
      LoseFinalize, LoseAbort, refs, server, Fault, IInv, RegRecs
<1>13. CASE UNCHANGED vars
  BY <1>13, RegTyped DEF vars, refs, server, IInv, RegRecs
<1>. QED
  BY <1>1, <1>2, <1>3, <1>4, <1>5, <1>6, <1>7, <1>8, <1>9, <1>10, <1>11, <1>12,
      <1>13 DEF Next, Answer, SendStep, Loss

\* Every step moves the abort so.
LEMMA LeaveStep == 
    ASSUME IInv, [Next]_vars PROVE LeaveMoves
<1>1. ASSUME Leave PROVE LeaveMoves
  BY <1>1 DEF Leave, StopLocal, ResetLocal, NoCall, Absent, server, LeaveMoves
<1>2. ASSUME ServeAbort PROVE LeaveMoves
  BY <1>2 DEF ServeAbort, AbortDraft, RowsOf, NoCall, refs, LeaveMoves
<1>3. ASSUME LoseAbort PROVE LeaveMoves
  BY <1>3 DEF LoseAbort, Fault, NoCall, refs, server, LeaveMoves
<1>4. ASSUME NEW n \in Regs, NEW k \in Names, AddFile(n, k) PROVE LeaveMoves
  BY <1>4 DEF AddFile, refs, server, LeaveMoves
<1>5. ASSUME NEW k \in Names, RemoveFile(k) \/ PumpStart(k) PROVE LeaveMoves
  BY <1>5 DEF RemoveFile, PumpStart, refs, server, LeaveMoves
<1>6. ASSUME NEW n \in Regs, InitSettled(n) \/ Minted(n) \/ ServeAdd(n) \/
          Registered(n) \/ RegistrationFailed(n) \/ ServeDrop(n) \/ Dropped(n) \/
          ServeRemove(n) \/ Removed(n) \/ PartsUp(n) \/ PartsFail(n) \/
          ServeComplete(n) \/ ServeShort(n) \/ UploadSettled(n) \/ ImportEnds(n) \/
          LoseRegistration(n) \/ LoseUpload(n) \/ LoseRemoval(n) PROVE LeaveMoves
  BY <1>6 DEF InitSettled, Minted, ServeAdd, Registered, RegistrationFailed,
      ServeDrop, Dropped, ServeRemove, Removed, PartsUp, PartsFail, ServeComplete,
      ServeShort, UploadSettled, ImportEnds, LoseRegistration, LoseUpload,
      LoseRemoval, refs, server, Fault, LeaveMoves
<1>7. ASSUME Submit \/ EditMetadata \/ TickRejects \/ TickResolves \/ ServeFinalize
          \/ PollAgain \/ SendFailed \/ Sent \/ PollTimesOut \/ LoseFinalize PROVE
          LeaveMoves
  BY <1>7 DEF Submit, EditMetadata, TickRejects, TickResolves, ServeFinalize,
      PollAgain, SendFailed, Sent, PollTimesOut, LoseFinalize, refs, server, Fault,
      LeaveMoves
<1>8. CASE UNCHANGED vars
  BY <1>8 DEF vars, refs, server, LeaveMoves
<1>. QED
  BY <1>1, <1>2, <1>3, <1>4, <1>5, <1>6, <1>7, <1>8 DEF Next, Answer, SendStep,
      Loss

\* A file keeps its row and its uploader as long as it is listed.
LEMMA LinkInvNext == IInv /\ Agreed /\ [Next]_vars => LinkInv'
<1> SUFFICES ASSUME IInv, Agreed, [Next]_vars PROVE LinkInv'
  OBVIOUS
<1>1. TypeOK /\ FileInv /\ RegInv /\ LinkInv
  BY DEF IInv, Agreed
<1>2. /\ reg \in [Regs -> RegRecs] /\ files \in [Names -> FileRecs] /\ leave \in CallRecs
      /\ draftId \in Ids
  BY <1>1, RegTyped, FilesTyped, CallsTyped, RefsTyped
<1>3. /\ \A n \in Regs : RegMoves(n) /\ CallMoves(n) /\ LoadMoves(n)
      /\ \A k \in Names : FileMoves(k)
  BY RegStep, CallStep, LoadStep, FileStep
<1>4. ASSUME NEW k \in Names, files'[k].row # None
      PROVE  reg'[files'[k].row].name = k /\ reg'[files'[k].row].at = "end"
  <2>1. files[k].row \in Ids
    BY <1>2 DEF FileRecs
  <2>2. CASE files'[k].row = files[k].row
    BY <1>1, <1>3, <1>4, <2>1, <2>2 DEF LinkInv, RegMoves, Ids
  <2>3. CASE files'[k].row # files[k].row
    BY <1>3, <1>4, <2>3 DEF FileMoves, RegMoves, Absent
  <2>. QED
    BY <2>2, <2>3
<1>5. ASSUME NEW n \in Regs, up'[n].at # "none" PROVE reg'[n].at = "end"
  <2>1. up[n].at # "none" \/ \E k \in Names : files[k].row = n
    BY <1>3, <1>5 DEF LoadMoves, Moving
  <2>. QED
    BY <1>1, <1>3, <2>1, Numbers DEF LinkInv, RegMoves
<1>6. ASSUME NEW n \in Regs, reg[n].at = "end", Shown(n)' PROVE Shown(n)
  <2>1. PICK k \in Names : files'[k].row = n
    BY <1>6 DEF Shown
  <2>2. files[k].row = n
    BY <1>3, <1>6, <2>1, Numbers DEF FileMoves, Absent
  <2>. QED
    BY <2>2 DEF Shown
<1>7. ASSUME NEW n \in Regs, rm'[n].at # "none" PROVE reg'[n].at = "end" /\ ~Shown(n)'
  <2>1. CASE rm[n].at # "none"
    BY <1>1, <1>3, <1>6, <2>1 DEF LinkInv, RegMoves
  <2>2. CASE rm[n].at = "none"
    <3>1. PICK k \in Names : files[k].row = n /\ files'[k] = Absent
      BY <1>3, <1>7, <2>2 DEF CallMoves
    <3>2. reg[n].name = k /\ reg[n].at = "end"
      BY <1>1, <3>1, Numbers DEF LinkInv
    <3>3. reg'[n].at = "end" /\ reg'[n].name = k
      BY <1>3, <3>2 DEF RegMoves
    <3>4. ASSUME NEW h \in Names, files'[h].row = n PROVE FALSE
      BY <1>4, <3>1, <3>3, <3>4, Numbers DEF Absent
    <3>. QED
      BY <3>3, <3>4 DEF Shown
  <2>. QED
    BY <2>1, <2>2
<1>8. ASSUME NEW n \in Regs, rm'[n].at = "post" PROVE rm'[n].draft \in Regs
  BY <1>1, <1>2, <1>3, <1>8 DEF LinkInv, CallMoves, Ids
<1>9. leave'.at = "post" => page' = "left" /\ leave'.draft \in Regs
  <2>1. page \in {"open", "left"} /\ page' \in {"open", "left"} /\ (page' = "open" => page = "open")
    BY <1>1, SlipsStep, Types, TypesNext, TypeOKNext
  <2>. QED
    BY <1>1, <1>2, <2>1, LeaveStep DEF LinkInv, LeaveMoves, Ids
<1>. QED
  BY <1>4, <1>5, <1>7, <1>8, <1>9 DEF LinkInv

\* Every step moves the draft of the page so.
LEMMA RefStep == 
    ASSUME IInv, [Next]_vars PROVE RefMoves
<1>1. ASSUME NEW n \in Regs, Registered(n) PROVE RefMoves
  BY <1>1, RegisteredStep DEF Turns, Settled, Served, RefMoves
<1>2. ASSUME NEW n \in Regs, Dropped(n) PROVE RefMoves
  BY <1>2, RegTyped DEF Dropped, server, IInv, Settled, Served, RegRecs, RefMoves
<1>3. ASSUME NEW n \in Regs, Removed(n) PROVE RefMoves
  BY <1>3, RegTyped DEF Removed, ResetLocal, NoCall, Listed, Absent, server, IInv,
      Settled, Served, RegRecs, RefMoves
<1>4. ASSUME Sent PROVE RefMoves
  BY <1>4, RegTyped DEF Sent, StopLocal, ResetLocal, Absent, server, IInv, Settled,
      Served, RegRecs, RefMoves
<1>5. ASSUME Leave PROVE RefMoves
  BY <1>5, RegTyped DEF Leave, StopLocal, ResetLocal, NoCall, Absent, server, IInv,
      Settled, Served, RegRecs, RefMoves
<1>6. ASSUME NEW n \in Regs, NEW k \in Names, AddFile(n, k) PROVE RefMoves
  BY <1>6, RegTyped DEF AddFile, refs, server, IInv, Settled, Served, RegRecs,
      RefMoves
<1>7. ASSUME NEW k \in Names, RemoveFile(k) \/ PumpStart(k) PROVE RefMoves
  BY <1>7, RegTyped DEF RemoveFile, PumpStart, refs, server, IInv, Settled, Served,
      RegRecs, RefMoves
<1>8. ASSUME NEW n \in Regs, InitSettled(n) \/ Minted(n) \/ ServeAdd(n) \/
          RegistrationFailed(n) \/ ServeDrop(n) \/ ServeRemove(n) \/ PartsUp(n) \/
          PartsFail(n) \/ ServeComplete(n) \/ ServeShort(n) \/ UploadSettled(n) \/
          ImportEnds(n) \/ LoseRegistration(n) \/ LoseUpload(n) \/ LoseRemoval(n)
          PROVE RefMoves
  BY <1>8, RegTyped DEF InitSettled, Minted, ServeAdd, RegistrationFailed,
      ServeDrop, ServeRemove, PartsUp, PartsFail, ServeComplete, ServeShort,
      UploadSettled, ImportEnds, LoseRegistration, LoseUpload, LoseRemoval, refs,
      server, Fault, IInv, Settled, Served, RegRecs, RefMoves
<1>9. ASSUME Submit \/ EditMetadata \/ TickRejects \/ TickResolves \/ ServeFinalize
          \/ PollAgain \/ SendFailed \/ PollTimesOut \/ ServeAbort \/ LoseFinalize
          \/ LoseAbort PROVE RefMoves
  BY <1>9, RegTyped DEF Submit, EditMetadata, TickRejects, TickResolves,
      ServeFinalize, PollAgain, SendFailed, PollTimesOut, ServeAbort, LoseFinalize,
      LoseAbort, refs, server, Fault, IInv, Settled, Served, RegRecs, RefMoves
<1>10. CASE UNCHANGED vars
  BY <1>10, RegTyped DEF vars, refs, server, IInv, Settled, Served, RegRecs,
      RefMoves
<1>. QED
  BY <1>1, <1>2, <1>3, <1>4, <1>5, <1>6, <1>7, <1>8, <1>9, <1>10 DEF Next, Answer,
      SendStep, Loss

\* Every step moves the draft of a registration so.
LEMMA KnownStep == 
    ASSUME IInv, [Next]_vars, NEW m \in Regs PROVE KnownMoves(m)
<1>1. ASSUME NEW n \in Regs, NEW k \in Names, AddFile(n, k) PROVE KnownMoves(m)
  <2>1. reg[n].known = None
    BY <1>1, AddFileStep DEF AddMoves, IInv, RegInv, RegOk
  <2>. QED
    BY <1>1, <2>1, AddFileStep, Numbers DEF AddMoves, KnownMoves
<1>2. ASSUME NEW n \in Regs, InitSettled(n) PROVE KnownMoves(m)
  <2>1. reg'[n].known = reg[n].known \/ reg'[n].known = DraftOf(reg[n].awaits)
    BY <1>2, RegTyped DEF InitSettled, IInv, RegRecs
  <2>. QED
    BY <1>2, <2>1, InitSettledStep DEF KnownMoves
<1>3. ASSUME NEW n \in Regs, Minted(n) PROVE KnownMoves(m)
  BY <1>3, RegTyped DEF Minted, server, IInv, RegRecs, KnownMoves
<1>4. ASSUME NEW n \in Regs, ServeAdd(n) PROVE KnownMoves(m)
  BY <1>4, RegTyped DEF ServeAdd, DraftOf, refs, IInv, RegRecs, KnownMoves
<1>5. ASSUME NEW n \in Regs, Registered(n) PROVE KnownMoves(m)
  BY <1>5, RegTyped DEF Registered, DraftOf, server, IInv, RegRecs, KnownMoves
<1>6. ASSUME NEW n \in Regs, RegistrationFailed(n) PROVE KnownMoves(m)
  BY <1>6, RegTyped DEF RegistrationFailed, Mark, Patch, server, IInv, RegRecs,
      KnownMoves
<1>7. ASSUME NEW n \in Regs, ServeDrop(n) PROVE KnownMoves(m)
  BY <1>7, RegTyped DEF ServeDrop, CleanUp, AbortDraft, RemoveRow, HasRow, RowsOf,
      refs, IInv, RegRecs, KnownMoves
<1>8. ASSUME NEW n \in Regs, Dropped(n) PROVE KnownMoves(m)
  BY <1>8, RegTyped DEF Dropped, server, IInv, RegRecs, KnownMoves
<1>9. ASSUME NEW n \in Regs, LoseRegistration(n) PROVE KnownMoves(m)
  BY <1>9, RegTyped DEF LoseRegistration, Fault, refs, server, IInv, RegRecs,
      KnownMoves
<1>10. ASSUME NEW k \in Names, RemoveFile(k) \/ PumpStart(k) PROVE KnownMoves(m)
  BY <1>10, RegTyped DEF RemoveFile, PumpStart, refs, server, IInv, RegRecs,
      KnownMoves
<1>11. ASSUME NEW n \in Regs, ServeRemove(n) \/ Removed(n) \/ PartsUp(n) \/
          PartsFail(n) \/ ServeComplete(n) \/ ServeShort(n) \/ UploadSettled(n) \/
          ImportEnds(n) \/ LoseUpload(n) \/ LoseRemoval(n) PROVE KnownMoves(m)
  BY <1>11, RegTyped DEF ServeRemove, Removed, PartsUp, PartsFail, ServeComplete,
      ServeShort, UploadSettled, ImportEnds, LoseUpload, LoseRemoval, refs, server,
      Fault, IInv, RegRecs, KnownMoves
<1>12. ASSUME Submit \/ EditMetadata \/ TickRejects \/ TickResolves \/
          ServeFinalize \/ PollAgain \/ SendFailed \/ Sent \/ PollTimesOut \/ Leave
          \/ ServeAbort \/ LoseFinalize \/ LoseAbort PROVE KnownMoves(m)
  BY <1>12, RegTyped DEF Submit, EditMetadata, TickRejects, TickResolves,
      ServeFinalize, PollAgain, SendFailed, Sent, PollTimesOut, Leave, ServeAbort,
      LoseFinalize, LoseAbort, refs, server, Fault, IInv, RegRecs, KnownMoves
<1>13. CASE UNCHANGED vars
  BY <1>13, RegTyped DEF vars, refs, server, IInv, RegRecs, KnownMoves
<1>. QED
  BY <1>1, <1>2, <1>3, <1>4, <1>5, <1>6, <1>7, <1>8, <1>9, <1>10, <1>11, <1>12,
      <1>13 DEF Next, Answer, SendStep, Loss

\* Every step moves the draft of the send so.
LEMMA SendIdStep == 
    ASSUME IInv, [Next]_vars PROVE SendIdMoves
<1>1. ASSUME NEW n \in Regs, NEW k \in Names, AddFile(n, k) PROVE SendIdMoves
  BY <1>1, AddFileStep DEF Disarms, SendIdMoves
<1>2. ASSUME NEW k \in Names, RemoveFile(k) PROVE SendIdMoves
  BY <1>2, RemoveFileStep DEF Disarms, SendIdMoves
<1>3. ASSUME Submit PROVE SendIdMoves
  BY <1>3, SendTyped DEF Submit, Sendable, Listed, refs, server, IInv, SendRecs,
      SendIdMoves
<1>4. ASSUME EditMetadata PROVE SendIdMoves
  BY <1>4, SendTyped DEF EditMetadata, refs, server, IInv, SendRecs, SendIdMoves
<1>5. ASSUME TickRejects PROVE SendIdMoves
  BY <1>5, SendTyped DEF TickRejects, NoSend, KeyReady, Listed, refs, server, IInv,
      SendRecs, SendIdMoves
<1>6. ASSUME TickResolves PROVE SendIdMoves
  BY <1>6, SendTyped DEF TickResolves, KeyReady, Listed, refs, server, IInv,
      SendRecs, SendIdMoves
<1>7. ASSUME ServeFinalize PROVE SendIdMoves
  BY <1>7, ServesFinalize DEF SendIdMoves
<1>8. ASSUME PollAgain PROVE SendIdMoves
  BY <1>8, SendTyped DEF PollAgain, Waiting, refs, server, IInv, SendRecs,
      SendIdMoves
<1>9. ASSUME SendFailed PROVE SendIdMoves
  BY <1>9, SendTyped DEF SendFailed, NoSend, refs, server, IInv, SendRecs,
      SendIdMoves
<1>10. ASSUME Sent PROVE SendIdMoves
  BY <1>10, SendTyped DEF Sent, StopLocal, ResetLocal, Absent, server, IInv,
      SendRecs, SendIdMoves
<1>11. ASSUME PollTimesOut PROVE SendIdMoves
  BY <1>11, SendTyped DEF PollTimesOut, NoSend, Waiting, refs, server, IInv,
      SendRecs, SendIdMoves
<1>12. ASSUME LoseFinalize PROVE SendIdMoves
  BY <1>12, SendTyped DEF LoseFinalize, Finalizing, SendIdMoves, IInv, SendRecs
<1>13. ASSUME NEW k \in Names, PumpStart(k) PROVE SendIdMoves
  BY <1>13, SendTyped DEF PumpStart, refs, server, IInv, SendRecs, SendIdMoves
<1>14. ASSUME NEW n \in Regs, InitSettled(n) \/ Minted(n) \/ ServeAdd(n) \/
          Registered(n) \/ RegistrationFailed(n) \/ ServeDrop(n) \/ Dropped(n) \/
          ServeRemove(n) \/ Removed(n) \/ PartsUp(n) \/ PartsFail(n) \/
          ServeComplete(n) \/ ServeShort(n) \/ UploadSettled(n) \/ ImportEnds(n) \/
          LoseRegistration(n) \/ LoseUpload(n) \/ LoseRemoval(n) PROVE SendIdMoves
  BY <1>14, SendTyped DEF InitSettled, Minted, ServeAdd, Registered,
      RegistrationFailed, ServeDrop, Dropped, ServeRemove, Removed, PartsUp,
      PartsFail, ServeComplete, ServeShort, UploadSettled, ImportEnds,
      LoseRegistration, LoseUpload, LoseRemoval, refs, server, Fault, IInv,
      SendRecs, SendIdMoves
<1>15. ASSUME Leave \/ ServeAbort \/ LoseAbort PROVE SendIdMoves
  BY <1>15, SendTyped DEF Leave, ServeAbort, LoseAbort, refs, server, Fault, IInv,
      SendRecs, SendIdMoves
<1>16. CASE UNCHANGED vars
  BY <1>16, SendTyped DEF vars, refs, server, IInv, SendRecs, SendIdMoves
<1>. QED
  BY <1>1, <1>2, <1>3, <1>4, <1>5, <1>6, <1>7, <1>8, <1>9, <1>10, <1>11, <1>12,
      <1>13, <1>14, <1>15, <1>16 DEF Next, Answer, SendStep, Loss

\* A draft is joined once its first registration was answered.
LEMMA JoinInvNext == IInv /\ Agreed /\ [Next]_vars => JoinInv'
<1> SUFFICES ASSUME IInv, Agreed, [Next]_vars PROVE JoinInv'
  OBVIOUS
<1>1. /\ JoinInv /\ reg \in [Regs -> RegRecs] /\ draftId \in Ids /\ "end" \in Settled
      /\ slips \subseteq slips'
  BY RegTyped, RefsTyped, SlipsStep DEF IInv, Agreed, Settled, Served
<1>2. \A n \in Regs : RegMoves(n)
  BY RegStep
<1>3. draftId' # None => draftId' \in Regs /\ reg'[draftId'].at \in Settled
  <2>1. CASE draftId' = draftId
    BY <1>1, <1>2, <2>1 DEF JoinInv, RegMoves, Ids
  <2>2. ASSUME NEW m \in Regs, reg[m].at = "reply", reg'[m].at \in Settled, draftId' = DraftOf(m)
        PROVE  draftId' \in Regs /\ reg'[draftId'].at \in Settled
    <3>1. reg[m].known \in Ids
      BY <1>1 DEF RegRecs
    <3>. QED
      BY <1>1, <1>2, <2>2, <3>1 DEF JoinInv, RegMoves, DraftOf, Ids
  <2>. QED
    BY <2>1, <2>2, RefStep DEF RefMoves
<1>4. ASSUME NEW n \in Regs, reg'[n].known # None
      PROVE  /\ reg'[reg'[n].known].at \in Settled
             /\ "joined" \notin slips' => reg'[reg'[n].known].at = "end"
  <2>1. \A d \in Ids : d # None /\ reg[d].at \in Settled =>
          reg'[d].at \in Settled /\ (reg[d].at = "end" => reg'[d].at = "end")
    BY <1>2 DEF RegMoves, Ids
  <2>2. CASE reg'[n].known = reg[n].known
    <3>1. reg[n].known \in Ids
      BY <1>1 DEF RegRecs
    <3>. QED
      BY <1>1, <1>4, <2>1, <2>2, <3>1 DEF JoinInv
  <2>3. CASE draftId # None /\ reg'[n].known = draftId
             /\ (reg[draftId].at \in {"drop", "dropped"} => "joined" \in slips')
    BY <1>1, <2>1, <2>3 DEF JoinInv, Settled, Served
  <2>4. CASE /\ reg[n].awaits \in Regs /\ reg[reg[n].awaits].at = "end"
             /\ reg'[n].known = DraftOf(reg[n].awaits)
    <3> DEFINE a == reg[n].awaits
    <3>1. a \in Regs /\ reg[a].known \in Ids
      BY <1>1, <2>4 DEF RegRecs
    <3>2. CASE reg[a].known = None
      BY <1>1, <2>1, <2>4, <3>1, <3>2, Numbers DEF DraftOf, Ids
    <3>3. CASE reg[a].known # None
      BY <1>1, <2>1, <2>4, <3>1, <3>3 DEF DraftOf, JoinInv
    <3>. QED
      BY <3>2, <3>3
  <2>. QED
    BY <2>2, <2>3, <2>4, KnownStep DEF KnownMoves
<1>5. ASSUME send'.at # "idle" PROVE reg'[send'.id].at \in Settled
  <2>1. send.at # "idle" => send.id \in Regs /\ reg[send.id].at \in Settled
    BY <1>1 DEF IInv, FinalInv, JoinInv
  <2>2. draftId # None => draftId \in Regs /\ reg[draftId].at \in Settled
    BY <1>1 DEF JoinInv, Ids
  <2>3. send'.id \in Regs /\ reg[send'.id].at \in Settled
    BY <1>5, <2>1, <2>2, SendIdStep DEF SendIdMoves
  <2>. QED
    BY <1>2, <2>3 DEF RegMoves
<1>. QED
  BY <1>3, <1>4, <1>5 DEF JoinInv

\* A name has one thing under way, unless it was added again too soon.
LEMMA AliasInvNext == IInv /\ Agreed /\ [Next]_vars => AliasInv'
<1> SUFFICES ASSUME IInv, Agreed, [Next]_vars, "aliased" \notin slips' PROVE AliasInv'
  BY DEF AliasInv
<1>1. /\ TypeOK /\ FileInv /\ RegInv /\ LinkInv /\ AliasInv /\ "aliased" \notin slips
      /\ reg \in [Regs -> RegRecs]
  BY SlipsStep, RegTyped DEF IInv, Agreed
<1>2. /\ \A n \in Regs : RegMoves(n) /\ LoadMoves(n)
      /\ \A k \in Names : FileMoves(k)
  BY RegStep, LoadStep, FileStep
<1>3. \A n \in Regs : reg[n].at # "free" => reg[n].name \in Names
  BY <1>1 DEF RegInv, RegOk
<1>4. ASSUME NEW k \in Names, files'[k].state \in {"done", "importing"}
      PROVE  files'[k].row # None
  <2>1. CASE files'[k] = files[k]
    BY <1>1, <1>4, <2>1 DEF AliasInv
  <2>2. ASSUME NEW n \in Regs, reg[n].name = k, up[n].at = "reply", files[k].state # "absent",
               files'[k].row = files[k].row
        PROVE  files'[k].row # None
    <3>1. reg[n].at # "free"
      BY <1>1, <2>2 DEF LinkInv
    <3>. QED
      BY <1>1, <2>2, <3>1, Numbers DEF AliasInv, Moving
  <2>. QED
    BY <1>1, <1>2, <1>4, <2>1, <2>2, Numbers DEF FileMoves, Absent, AliasInv
<1>5. ASSUME NEW n \in Regs, NEW k \in Names, AddFile(n, k) PROVE AliasInv'
  <2>1. ~Busy(k)
    BY <1>5, AddFileStep
  <2>2. /\ AddMoves(n, k) /\ up' = up /\ files'[k].row = None
        /\ \A h \in Names : h # k => files'[h] = files[h]
    BY <1>5, AddFileStep
  <2>3. ASSUME NEW m \in Regs, reg'[m].at # "free", files'[reg'[m].name].state # "absent"
        PROVE  /\ UnderWay(m)' => /\ files'[reg'[m].name].row = None
                                  /\ \A a \in Regs : reg'[a].name = reg'[m].name /\ UnderWay(a)' => a = m
               /\ Moving(m)' => files'[reg'[m].name].row = m
    <3>1. \A a \in Regs : a # n /\ reg[a].name = k => ~UnderWay(a) /\ ~Moving(a)
      BY <2>1 DEF Busy, UnderWay, Moving
    <3>2. \A a \in Regs : a # n => (UnderWay(a)' <=> UnderWay(a))
      BY <2>2 DEF AddMoves, UnderWay
    <3>3. \A a \in Regs : (Moving(a)' <=> Moving(a))
      BY <2>2 DEF Moving
    <3>4. ~Moving(n)
      BY <1>1, <2>2 DEF AddMoves, LinkInv, Moving
    <3>5. CASE m = n
      BY <2>2, <3>1, <3>2, <3>3, <3>4, <3>5 DEF AddMoves
    <3>6. CASE m # n /\ reg[m].name = k
      BY <2>2, <3>1, <3>2, <3>3, <3>6 DEF AddMoves
    <3>7. CASE m # n /\ reg[m].name # k
      <4>1. reg[m].at # "free" /\ reg[m].name \in Names /\ reg'[m].name = reg[m].name
            /\ files'[reg[m].name] = files[reg[m].name]
        BY <1>3, <2>2, <2>3, <3>7 DEF AddMoves
      <4>2. \A a \in Regs : reg'[a].name = reg[m].name /\ UnderWay(a)' =>
              reg[a].name = reg[m].name /\ UnderWay(a)
        BY <2>2, <3>2, <3>7 DEF AddMoves
      <4>. QED
        BY <1>1, <2>3, <3>2, <3>3, <3>7, <4>1, <4>2 DEF AliasInv
    <3>. QED
      BY <3>5, <3>6, <3>7
  <2>. QED
    BY <1>4, <2>3 DEF AliasInv
<1>6. ASSUME \A n \in Regs, k \in Names : ~AddFile(n, k) PROVE AliasInv'
  <2>1. \A n \in Regs : reg'[n].at # "free" => reg[n].at # "free" /\ reg'[n].name = reg[n].name
    BY <1>2, <1>6, StartStep DEF RegMoves
  <2>2. \A n \in Regs : UnderWay(n)' => UnderWay(n)
    BY <1>2, <2>1 DEF UnderWay, RegMoves
  <2>3. \A k \in Names : files'[k].state # "absent" => files[k].state # "absent"
    BY <1>2, <1>6, StartStep DEF FileMoves, Absent
  <2>4. ASSUME NEW n \in Regs, reg'[n].at # "free", files'[reg'[n].name].state # "absent"
        PROVE  /\ UnderWay(n)' => /\ files'[reg'[n].name].row = None
                                  /\ \A a \in Regs : reg'[a].name = reg'[n].name /\ UnderWay(a)' => a = n
               /\ Moving(n)' => files'[reg'[n].name].row = n
    <3> DEFINE k == reg[n].name
    <3>1. reg[n].at # "free" /\ k \in Names /\ reg'[n].name = k /\ files[k].state # "absent"
      BY <1>3, <2>1, <2>3, <2>4
    <3>2. \/ files'[k].row = files[k].row
          \/ \E a \in Regs : files'[k].row = a /\ UnderWay(a) /\ ~UnderWay(a)' /\ reg[a].name = k
      BY <1>2, <2>4, <3>1 DEF FileMoves, Absent, UnderWay
    <3>3. ASSUME UnderWay(n)'
          PROVE  /\ files'[k].row = None
                 /\ \A a \in Regs : reg'[a].name = k /\ UnderWay(a)' => a = n
      <4>1. /\ UnderWay(n) /\ files[k].row = None
            /\ \A a \in Regs : reg[a].name = k /\ UnderWay(a) => a = n
        BY <1>1, <2>2, <3>1, <3>3 DEF AliasInv
      <4>2. \A a \in Regs : reg'[a].name = k /\ UnderWay(a)' => a = n
        BY <2>1, <2>2, <4>1 DEF UnderWay
      <4>. QED
        BY <3>2, <3>3, <4>1, <4>2
    <3>4. ASSUME Moving(n)' PROVE files'[k].row = n
      <4>1. files[k].row = n
        <5>1. CASE Moving(n)
          BY <1>1, <3>1, <5>1 DEF AliasInv
        <5>2. CASE ~Moving(n)
          <6>1. PICK h \in Names : files[h].row = n
            BY <1>2, <3>4, <5>2 DEF LoadMoves, Moving
          <6>. QED
            BY <1>1, <6>1, Numbers DEF LinkInv
        <5>. QED
          BY <5>1, <5>2
      <4>2. \A a \in Regs : UnderWay(a) /\ reg[a].name = k => FALSE
        BY <1>1, <3>1, <4>1, Numbers DEF AliasInv, UnderWay
      <4>. QED
        BY <3>2, <4>1, <4>2
    <3>. QED
      BY <3>1, <3>3, <3>4
  <2>. QED
    BY <1>4, <2>4 DEF AliasInv
<1>. QED
  BY <1>5, <1>6

\* A row goes so.
LEMMA GoneStep == 
    ASSUME IInv, Agreed, [Next]_vars, NEW m \in Regs PROVE GoneMoves(m)
<1>1. ASSUME NEW n \in Regs, ServeAdd(n) PROVE GoneMoves(m)
  BY <1>1, ServeAddStep, Numbers DEF IInv, Agreed, GoneMoves, RowsKept
<1>2. ASSUME NEW n \in Regs, ServeDrop(n) PROVE GoneMoves(m)
  <2>1. row'[m] = row[m] \/ m = n \/ (reg[n].known = None /\ m \in RowsOf(n) /\ draft'[n] = "gone")
    BY <1>2, ServeDropStep DEF Takes, Aborts
  <2>2. m \in RowsOf(n) => m = n \/ reg[m].known = n
    BY DEF RowsOf, IInv, RowInv, DraftOf
  <2>. QED
    BY <1>2, <2>1, <2>2, ServeDropStep DEF GoneMoves
<1>3. ASSUME NEW n \in Regs, ServeRemove(n) PROVE GoneMoves(m)
  <2>1. rm[n].draft \in Regs
    BY <1>3 DEF ServeRemove, Agreed, LinkInv
  <2>. QED
    BY <1>3, <2>1, ServeRemoveStep DEF Takes, GoneMoves
<1>4. ASSUME NEW n \in Regs, ServeComplete(n) \/ ImportEnds(n) PROVE GoneMoves(m)
  BY <1>4, BytesStep, Numbers DEF IInv, Agreed, GoneMoves, RowsKept
<1>5. ASSUME NEW n \in Regs, ServeShort(n) PROVE GoneMoves(m)
  BY <1>5, ServeShortStep, Numbers DEF IInv, Agreed, GoneMoves, RowsKept
<1>6. ASSUME ServeFinalize PROVE GoneMoves(m)
  BY <1>6, ServesFinalize, Numbers DEF IInv, Agreed, GoneMoves, RowsKept
<1>7. ASSUME ServeAbort PROVE GoneMoves(m)
  <2>1. leave.draft \in Regs /\ page = "left"
    BY <1>7 DEF ServeAbort, Agreed, LinkInv
  <2>. QED
    BY <1>7, <2>1, ServeAbortStep DEF Aborts, RowsOf, GoneMoves
<1>8. ASSUME (\E n \in Regs, k \in Names : AddFile(n, k)) \/ (\E k \in Names :
          RemoveFile(k)) \/ (\E k \in Names : PumpStart(k)) \/ (\E n \in Regs :
          UploadSettled(n)) \/ PollAgain \/ (\E n \in Regs : InitSettled(n)) \/ (\E
          n \in Regs : Minted(n)) \/ (\E n \in Regs : Registered(n)) \/ (\E n \in
          Regs : RegistrationFailed(n)) \/ (\E n \in Regs : Dropped(n)) \/ (\E n
          \in Regs : Removed(n)) \/ (\E n \in Regs : PartsUp(n)) \/ (\E n \in Regs
          : PartsFail(n)) \/ Submit \/ TickResolves \/ EditMetadata \/ TickRejects
          \/ SendFailed \/ PollTimesOut \/ Sent \/ Leave \/ Loss \/ UNCHANGED vars
          PROVE GoneMoves(m)
  <2>1. UNCHANGED <<row>>
    BY <1>8 DEF AddFile, RemoveFile, PumpStart, UploadSettled, PollAgain,
        InitSettled, Minted, Registered, RegistrationFailed, Dropped, Removed,
        PartsUp, PartsFail, Submit, TickResolves, EditMetadata, TickRejects,
        SendFailed, PollTimesOut, Sent, Leave, Loss, vars, refs, server, Fault,
        LoseRegistration, LoseUpload, LoseRemoval, LoseFinalize, LoseAbort
  <2>. QED
    BY <2>1, Numbers DEF IInv, Agreed, GoneMoves, RowsKept
<1>. QED
  BY <1>1, <1>2, <1>3, <1>4, <1>5, <1>6, <1>7, <1>8 DEF Next, Answer, SendStep

\* A page that was left shows no row.
LEMMA LeftShowsNone == ASSUME IInv, page = "left", NEW k \in Names PROVE files[k].row = None
  BY Types DEF IInv, FileInv, Listed

\* A row that is shown stays.
LEMMA ShownStays == ASSUME IInv, Agreed, [Next]_vars, slips' \cap {"joined", "short"} = {},
                           NEW n \in Regs, Shown(n), row'[n].state = "gone"
                    PROVE  row[n].state = "gone"
<1>1. PICK k \in Names : files[k].row = n
  BY DEF Shown
<1>2. reg[n].at = "end" /\ rm[n].at # "post" /\ page # "left"
  BY <1>1, Numbers, LeftShowsNone DEF Agreed, LinkInv
<1>3. ASSUME NEW a \in Regs, reg[n].known = a, reg[a].at = "drop" PROVE FALSE
  BY <1>3, SlipsStep, Numbers DEF Agreed, JoinInv
<1>. QED
  BY <1>2, <1>3, GoneStep DEF GoneMoves

\* Bytes that landed stay, as long as the row is shown.
LEMMA LandInvNext == IInv /\ Agreed /\ [Next]_vars => LandInv'
<1> SUFFICES ASSUME IInv, Agreed, [Next]_vars,
                    slips' \cap {"aliased", "joined", "short"} = {},
                    NEW n \in Regs, reg'[n].name \in Locals, Shown(n)',
                    \/ up'[n].at = "reply" /\ up'[n].ok
                    \/ files'[reg'[n].name].state = "done"
             PROVE  row'[n].state \in {"landed", "sent"}
  BY DEF LandInv
<1>1. /\ LinkInv /\ AliasInv /\ LandInv /\ RegInv /\ slips \subseteq slips'
      /\ slips \cap {"aliased", "joined", "short"} = {}
  BY SlipsStep DEF IInv, Agreed
<1>2. RowMoves(n) /\ LoadMoves(n) /\ RegMoves(n) /\ \A k \in Names : FileMoves(k)
  BY RowStep, LoadStep, RegStep, FileStep
<1>3. PICK k \in Names : files'[k].row = n
  BY DEF Shown
<1>4. reg'[n].name = k /\ k \in Locals /\ k \notin Drives
  BY <1>1, <1>3, LinkInvNext, NamesAssumption, Numbers DEF LinkInv
<1>5. CASE files[k].row # n
  <2>1. reg[n].at = "reply" /\ files'[k].state # "done"
    BY <1>2, <1>3, <1>4, <1>5, Numbers DEF FileMoves, Absent
  <2>2. up[n].at = "none"
    BY <1>1, <2>1 DEF LinkInv
  <2>3. PICK h \in Names : files[h].row = n
    BY <1>2, <1>4, <2>1, <2>2 DEF LoadMoves, Moving
  <2>. QED
    BY <1>1, <2>1, <2>3, Numbers DEF LinkInv
<1>6. CASE files[k].row = n
  <2>1. reg[n].name = k /\ reg[n].at = "end" /\ Shown(n)
    BY <1>1, <1>6, Numbers DEF LinkInv, Shown
  <2>2. row[n].state \in {"landed", "sent"} => row'[n].state \in {"landed", "sent"}
    <3>1. row'[n].state # "gone" \/ row[n].state = "gone"
      BY <1>1, <2>1, ShownStays
    <3>2. row[n].state = "sent" => draft[row[n].draft] = "sent"
      BY DEF IInv, RowInv
    <3>. QED
      BY <1>2, <3>1, <3>2 DEF RowMoves
  <2>3. (up[n].at = "reply" /\ up[n].ok) \/ files[k].state = "done"
           => row[n].state \in {"landed", "sent"}
    BY <1>1, <1>4, <2>1 DEF LandInv
  <2>4. CASE up'[n].at = "reply" /\ up'[n].ok
    <3>1. (up[n].at = "reply" /\ up[n].ok) \/ row'[n].state = "landed"
      BY <1>2, <2>4 DEF LoadMoves
    <3>. QED
      BY <2>2, <2>3, <3>1
  <2>5. CASE files'[k].state = "done"
    <3>1. files[k].state # "absent"
      BY <1>6, Numbers DEF IInv, FileInv
    <3>2. ASSUME NEW m \in Regs, reg[m].name = k, up[m].at = "reply", up[m].ok
          PROVE  m = n
      <4>1. reg[m].at # "free"
        BY <1>1, <3>2 DEF LinkInv
      <4>. QED
        BY <1>1, <1>6, <3>1, <3>2, <4>1 DEF AliasInv, Moving
    <3>3. files[k].state = "done" \/ (up[n].at = "reply" /\ up[n].ok)
      BY <1>2, <1>3, <1>4, <2>1, <2>5, <3>1, <3>2 DEF FileMoves, Absent
    <3>. QED
      BY <2>2, <2>3, <3>3
  <2>. QED
    BY <1>4, <2>4, <2>5
<1>. QED
  BY <1>5, <1>6

\* What is under way stays with the draft of the page.
LEMMA BaseInvNext == IInv /\ Agreed /\ [Next]_vars => BaseInv'
<1> SUFFICES ASSUME IInv, Agreed, [Next]_vars, Plain', page' = "open"
             PROVE  FirstOk' /\ \A m \in Regs : BaseOk(m)'
  BY DEF BaseInv
<1>a. /\ Plain /\ page = "open" /\ FirstOk /\ \A m \in Regs : BaseOk(m)
      /\ "wiped" \notin slips' /\ "lost" \notin slips' /\ "joined" \notin slips'
  BY SlipsStep DEF Plain, Agreed, BaseInv
<1>b. /\ \A m \in Regs : reg[m].known \in Ids /\ (reg[m].known # None => reg[reg[m].known].at = "end")
      /\ initP # None => reg[initP].at \notin {"free", "wait"}
      /\ initP \in Ids /\ draftId \in Ids
  BY <1>a, RegTyped, RefsTyped, SlipsStep DEF IInv, Agreed, RefInv, JoinInv, RegRecs
<1>c. \A m \in Regs : reg[m].at = "wait" =>
        /\ reg[m].known = None
        /\ reg[m].awaits \in Regs /\ reg[m].awaits # m /\ reg[reg[m].awaits].at \notin {"free", "wait"}
        /\ reg'[reg[m].awaits].known = reg[reg[m].awaits].known
        /\ reg[reg[m].awaits].at = "end" => reg'[reg[m].awaits] = reg[reg[m].awaits]
  <2> SUFFICES ASSUME NEW m \in Regs, reg[m].at = "wait"
               PROVE  /\ reg[m].known = None
                      /\ reg[m].awaits \in Regs /\ reg[m].awaits # m
                      /\ reg[reg[m].awaits].at \notin {"free", "wait"}
                      /\ reg'[reg[m].awaits].known = reg[reg[m].awaits].known
                      /\ reg[reg[m].awaits].at = "end" => reg'[reg[m].awaits] = reg[reg[m].awaits]
    OBVIOUS
  <2>1. /\ reg[m].known = None /\ reg[m].awaits \in Regs /\ reg[m].awaits # m
        /\ reg[reg[m].awaits].at \notin {"free", "wait"}
    BY Numbers DEF IInv, RegInv, RegOk
  <2>2. RegMoves(reg[m].awaits)
    BY <2>1, RegStep
  <2>. QED
    BY <2>1, <2>2 DEF RegMoves
<1>1. ASSUME NEW n \in Regs, NEW k \in Names, AddFile(n, k) PROVE FirstOk' /\ \A m
          \in Regs : BaseOk(m)'
  <2>1. /\ reg[n].at = "free" /\ draftId' = draftId
        /\ \/ /\ draftId = None /\ initP = None /\ initP' = n
              /\ reg'[n].at \in {"mint", "post"} /\ reg'[n].known = None
           \/ /\ draftId # None /\ initP' = initP
              /\ reg'[n].at \in {"mint", "post"} /\ reg'[n].known = draftId
           \/ /\ draftId = None /\ initP # None /\ initP' = initP
              /\ reg'[n].at = "wait" /\ reg'[n].known = None /\ reg'[n].awaits = initP
        /\ \A m \in Regs : m # n => reg'[m] = reg[m]
    BY <1>1, AddFileStep DEF AddMoves, Start
  <2>2. BaseOk(n) /\ FirstOk /\ reg[n].known \in Ids /\ draftId \in Ids /\ initP \in Ids
    BY <1>a, <1>b
  <2>3. FirstOk'
    BY <2>1, <2>2, <1>b, Numbers DEF FirstOk, BaseOk, UnderWay, DraftOf, Ids
  <2>4. BaseOk(n)'
    BY <2>1, <2>2, <1>a, <1>b, <1>c, Numbers DEF FirstOk, BaseOk, UnderWay, DraftOf, Ids
  <2>5. ASSUME NEW m \in Regs, m # n PROVE BaseOk(m)'
    <3> DEFINE a == reg[m].awaits
    <3>1. reg'[m] = reg[m] /\ BaseOk(m) /\ reg[m].known \in Ids
      BY <1>a, <1>b, <2>1, <2>5
    <3>2. reg[m].known # None => reg[reg[m].known].at = "end"
      BY <1>b
    <3>3. reg[m].at = "wait" =>
            /\ a \in Regs /\ reg'[a].known = None
            /\ reg'[a].at = "end" /\ reg'[a].ok => draftId' = a
      <4>1. CASE a = n
        BY <1>b, <1>c, <2>1, <2>2, <3>1, <4>1, Numbers DEF BaseOk, UnderWay, DraftOf
      <4>2. CASE a # n
        <5>1. reg[m].at = "wait" => a \in Regs /\ reg'[a] = reg[a] /\ a # None
          BY <1>c, <2>1, <4>2, Numbers
        <5>2. draftId = a /\ reg[a].at = "end" /\ a # None => draftId' = a
          BY <1>b, <2>1, <2>2, <4>2, Numbers DEF BaseOk
        <5>. QED
          BY <3>1, <5>1, <5>2 DEF BaseOk
      <4>. QED
        BY <4>1, <4>2
    <3>. QED
      BY <2>1, <2>2, <3>1, <3>2, <3>3, Numbers DEF BaseOk, UnderWay, DraftOf, FirstOk, Ids
  <2>. QED
    BY <2>3, <2>4, <2>5
<1>2. ASSUME NEW n \in Regs, InitSettled(n) PROVE FirstOk' /\ \A m \in Regs :
          BaseOk(m)'
  <2>1. /\ reg[n].at = "wait" /\ draftId' = draftId /\ initP' = initP
        /\ \/ reg'[n].at = "end"
           \/ /\ reg[n].awaits \in Regs /\ reg[reg[n].awaits].at = "end" /\ reg[reg[n].awaits].ok
              /\ reg'[n].at \in {"mint", "post"} /\ reg'[n].known = DraftOf(reg[n].awaits)
        /\ \A m \in Regs : m # n => reg'[m] = reg[m]
    BY <1>2, InitSettledStep DEF Turns
  <2>2. BaseOk(n) /\ FirstOk /\ reg[n].known \in Ids /\ draftId \in Ids /\ initP \in Ids
    BY <1>a, <1>b
  <2>3. FirstOk'
    BY <2>1, <2>2, <1>b, Numbers DEF FirstOk, BaseOk, UnderWay, DraftOf, Ids
  <2>4. BaseOk(n)'
    BY <2>1, <2>2, <1>a, <1>b, <1>c, Numbers DEF FirstOk, BaseOk, UnderWay, DraftOf, Ids
  <2>5. ASSUME NEW m \in Regs, m # n PROVE BaseOk(m)'
    <3> DEFINE a == reg[m].awaits
    <3>1. reg'[m] = reg[m] /\ BaseOk(m) /\ reg[m].known \in Ids
      BY <1>a, <1>b, <2>1, <2>5
    <3>2. reg[m].known # None => reg[reg[m].known].at = "end"
      BY <1>b
    <3>3. reg[m].at = "wait" =>
            /\ a \in Regs /\ reg'[a].known = None
            /\ reg'[a].at = "end" /\ reg'[a].ok => draftId' = a
      <4>1. CASE a = n
        BY <1>b, <1>c, <2>1, <2>2, <3>1, <4>1, Numbers DEF BaseOk, UnderWay, DraftOf
      <4>2. CASE a # n
        <5>1. reg[m].at = "wait" => a \in Regs /\ reg'[a] = reg[a] /\ a # None
          BY <1>c, <2>1, <4>2, Numbers
        <5>2. draftId = a /\ reg[a].at = "end" /\ a # None => draftId' = a
          BY <1>b, <2>1, <2>2, <4>2, Numbers DEF BaseOk
        <5>. QED
          BY <3>1, <5>1, <5>2 DEF BaseOk
      <4>. QED
        BY <4>1, <4>2
    <3>. QED
      BY <2>1, <2>2, <3>1, <3>2, <3>3, Numbers DEF BaseOk, UnderWay, DraftOf, FirstOk, Ids
  <2>. QED
    BY <2>3, <2>4, <2>5
<1>3. ASSUME NEW n \in Regs, Minted(n) PROVE FirstOk' /\ \A m \in Regs : BaseOk(m)'
  <2>1. /\ reg[n].at = "mint" /\ reg'[n].at = "post" /\ draftId' = draftId /\ initP' = initP
        /\ reg'[n].known = reg[n].known /\ reg'[n].awaits = reg[n].awaits
        /\ \A m \in Regs : m # n => reg'[m] = reg[m]
    BY <1>3, MintedStep DEF Turns
  <2>2. BaseOk(n) /\ FirstOk /\ reg[n].known \in Ids /\ draftId \in Ids /\ initP \in Ids
    BY <1>a, <1>b
  <2>3. FirstOk'
    BY <2>1, <2>2, <1>b, Numbers DEF FirstOk, BaseOk, UnderWay, DraftOf, Ids
  <2>4. BaseOk(n)'
    BY <2>1, <2>2, <1>a, <1>b, <1>c, Numbers DEF FirstOk, BaseOk, UnderWay, DraftOf, Ids
  <2>5. ASSUME NEW m \in Regs, m # n PROVE BaseOk(m)'
    <3> DEFINE a == reg[m].awaits
    <3>1. reg'[m] = reg[m] /\ BaseOk(m) /\ reg[m].known \in Ids
      BY <1>a, <1>b, <2>1, <2>5
    <3>2. reg[m].known # None => reg[reg[m].known].at = "end"
      BY <1>b
    <3>3. reg[m].at = "wait" =>
            /\ a \in Regs /\ reg'[a].known = None
            /\ reg'[a].at = "end" /\ reg'[a].ok => draftId' = a
      <4>1. CASE a = n
        BY <1>b, <1>c, <2>1, <2>2, <3>1, <4>1, Numbers DEF BaseOk, UnderWay, DraftOf
      <4>2. CASE a # n
        <5>1. reg[m].at = "wait" => a \in Regs /\ reg'[a] = reg[a] /\ a # None
          BY <1>c, <2>1, <4>2, Numbers
        <5>2. draftId = a /\ reg[a].at = "end" /\ a # None => draftId' = a
          BY <1>b, <2>1, <2>2, <4>2, Numbers DEF BaseOk
        <5>. QED
          BY <3>1, <5>1, <5>2 DEF BaseOk
      <4>. QED
        BY <4>1, <4>2
    <3>. QED
      BY <2>1, <2>2, <3>1, <3>2, <3>3, Numbers DEF BaseOk, UnderWay, DraftOf, FirstOk, Ids
  <2>. QED
    BY <2>3, <2>4, <2>5
<1>4. ASSUME NEW n \in Regs, ServeAdd(n) PROVE FirstOk' /\ \A m \in Regs :
          BaseOk(m)'
  <2>1. /\ reg[n].at = "post" /\ reg'[n].at = "reply" /\ draftId' = draftId /\ initP' = initP
        /\ reg'[n].known = reg[n].known /\ reg'[n].awaits = reg[n].awaits
        /\ \A m \in Regs : m # n => reg'[m] = reg[m]
    BY <1>4, ServeAddStep DEF Turns
  <2>2. BaseOk(n) /\ FirstOk /\ reg[n].known \in Ids /\ draftId \in Ids /\ initP \in Ids
    BY <1>a, <1>b
  <2>3. FirstOk'
    BY <2>1, <2>2, <1>b, Numbers DEF FirstOk, BaseOk, UnderWay, DraftOf, Ids
  <2>4. BaseOk(n)'
    BY <2>1, <2>2, <1>a, <1>b, <1>c, Numbers DEF FirstOk, BaseOk, UnderWay, DraftOf, Ids
  <2>5. ASSUME NEW m \in Regs, m # n PROVE BaseOk(m)'
    <3> DEFINE a == reg[m].awaits
    <3>1. reg'[m] = reg[m] /\ BaseOk(m) /\ reg[m].known \in Ids
      BY <1>a, <1>b, <2>1, <2>5
    <3>2. reg[m].known # None => reg[reg[m].known].at = "end"
      BY <1>b
    <3>3. reg[m].at = "wait" =>
            /\ a \in Regs /\ reg'[a].known = None
            /\ reg'[a].at = "end" /\ reg'[a].ok => draftId' = a
      <4>1. CASE a = n
        BY <1>b, <1>c, <2>1, <2>2, <3>1, <4>1, Numbers DEF BaseOk, UnderWay, DraftOf
      <4>2. CASE a # n
        <5>1. reg[m].at = "wait" => a \in Regs /\ reg'[a] = reg[a] /\ a # None
          BY <1>c, <2>1, <4>2, Numbers
        <5>2. draftId = a /\ reg[a].at = "end" /\ a # None => draftId' = a
          BY <1>b, <2>1, <2>2, <4>2, Numbers DEF BaseOk
        <5>. QED
          BY <3>1, <5>1, <5>2 DEF BaseOk
      <4>. QED
        BY <4>1, <4>2
    <3>. QED
      BY <2>1, <2>2, <3>1, <3>2, <3>3, Numbers DEF BaseOk, UnderWay, DraftOf, FirstOk, Ids
  <2>. QED
    BY <2>3, <2>4, <2>5
<1>5. ASSUME NEW n \in Regs, Registered(n) PROVE FirstOk' /\ \A m \in Regs :
          BaseOk(m)'
  <2>1. /\ reg[n].at = "reply" /\ reg'[n].at \in {"drop", "end"} /\ initP' = initP
        /\ draftId' = IF draftId = None THEN DraftOf(n) ELSE draftId
        /\ reg'[n].known = reg[n].known /\ reg'[n].awaits = reg[n].awaits
        /\ \A m \in Regs : m # n => reg'[m] = reg[m]
    BY <1>5, RegisteredStep DEF Turns
  <2>2. BaseOk(n) /\ FirstOk /\ reg[n].known \in Ids /\ draftId \in Ids /\ initP \in Ids
    BY <1>a, <1>b
  <2>3. FirstOk'
    BY <2>1, <2>2, <1>b, Numbers DEF FirstOk, BaseOk, UnderWay, DraftOf, Ids
  <2>4. BaseOk(n)'
    BY <2>1, <2>2, <1>a, <1>b, <1>c, Numbers DEF FirstOk, BaseOk, UnderWay, DraftOf, Ids
  <2>5. ASSUME NEW m \in Regs, m # n PROVE BaseOk(m)'
    <3> DEFINE a == reg[m].awaits
    <3>1. reg'[m] = reg[m] /\ BaseOk(m) /\ reg[m].known \in Ids
      BY <1>a, <1>b, <2>1, <2>5
    <3>2. reg[m].known # None => reg[reg[m].known].at = "end"
      BY <1>b
    <3>3. reg[m].at = "wait" =>
            /\ a \in Regs /\ reg'[a].known = None
            /\ reg'[a].at = "end" /\ reg'[a].ok => draftId' = a
      <4>1. CASE a = n
        BY <1>b, <1>c, <2>1, <2>2, <3>1, <4>1, Numbers DEF BaseOk, UnderWay, DraftOf
      <4>2. CASE a # n
        <5>1. reg[m].at = "wait" => a \in Regs /\ reg'[a] = reg[a] /\ a # None
          BY <1>c, <2>1, <4>2, Numbers
        <5>2. draftId = a /\ reg[a].at = "end" /\ a # None => draftId' = a
          BY <1>b, <2>1, <2>2, <4>2, Numbers DEF BaseOk
        <5>. QED
          BY <3>1, <5>1, <5>2 DEF BaseOk
      <4>. QED
        BY <4>1, <4>2
    <3>. QED
      BY <2>1, <2>2, <3>1, <3>2, <3>3, Numbers DEF BaseOk, UnderWay, DraftOf, FirstOk, Ids
  <2>. QED
    BY <2>3, <2>4, <2>5
<1>6. ASSUME NEW n \in Regs, RegistrationFailed(n) PROVE FirstOk' /\ \A m \in Regs
          : BaseOk(m)'
  <2>1. /\ reg[n].at = "reply" /\ reg'[n].at = "end" /\ ~reg'[n].ok /\ draftId' = draftId
        /\ initP' = IF reg[n].known = None THEN None ELSE initP
        /\ reg'[n].known = reg[n].known /\ reg'[n].awaits = reg[n].awaits
        /\ \A m \in Regs : m # n => reg'[m] = reg[m]
    BY <1>6, RegistrationFailedStep DEF Turns
  <2>2. BaseOk(n) /\ FirstOk /\ reg[n].known \in Ids /\ draftId \in Ids /\ initP \in Ids
    BY <1>a, <1>b
  <2>3. FirstOk'
    BY <2>1, <2>2, <1>b, Numbers DEF FirstOk, BaseOk, UnderWay, DraftOf, Ids
  <2>4. BaseOk(n)'
    BY <2>1, <2>2, <1>a, <1>b, <1>c, Numbers DEF FirstOk, BaseOk, UnderWay, DraftOf, Ids
  <2>5. ASSUME NEW m \in Regs, m # n PROVE BaseOk(m)'
    <3> DEFINE a == reg[m].awaits
    <3>1. reg'[m] = reg[m] /\ BaseOk(m) /\ reg[m].known \in Ids
      BY <1>a, <1>b, <2>1, <2>5
    <3>2. reg[m].known # None => reg[reg[m].known].at = "end"
      BY <1>b
    <3>3. reg[m].at = "wait" =>
            /\ a \in Regs /\ reg'[a].known = None
            /\ reg'[a].at = "end" /\ reg'[a].ok => draftId' = a
      <4>1. CASE a = n
        BY <1>b, <1>c, <2>1, <2>2, <3>1, <4>1, Numbers DEF BaseOk, UnderWay, DraftOf
      <4>2. CASE a # n
        <5>1. reg[m].at = "wait" => a \in Regs /\ reg'[a] = reg[a] /\ a # None
          BY <1>c, <2>1, <4>2, Numbers
        <5>2. draftId = a /\ reg[a].at = "end" /\ a # None => draftId' = a
          BY <1>b, <2>1, <2>2, <4>2, Numbers DEF BaseOk
        <5>. QED
          BY <3>1, <5>1, <5>2 DEF BaseOk
      <4>. QED
        BY <4>1, <4>2
    <3>. QED
      BY <2>1, <2>2, <3>1, <3>2, <3>3, Numbers DEF BaseOk, UnderWay, DraftOf, FirstOk, Ids
  <2>. QED
    BY <2>3, <2>4, <2>5
<1>7. ASSUME NEW n \in Regs, ServeDrop(n) PROVE FirstOk' /\ \A m \in Regs :
          BaseOk(m)'
  <2>1. /\ reg[n].at = "drop" /\ reg'[n].at = "dropped" /\ draftId' = draftId /\ initP' = initP
        /\ reg'[n].known = reg[n].known /\ reg'[n].awaits = reg[n].awaits
        /\ \A m \in Regs : m # n => reg'[m] = reg[m]
    BY <1>7, ServeDropStep DEF Turns
  <2>2. BaseOk(n) /\ FirstOk /\ reg[n].known \in Ids /\ draftId \in Ids /\ initP \in Ids
    BY <1>a, <1>b
  <2>3. FirstOk'
    BY <2>1, <2>2, <1>b, Numbers DEF FirstOk, BaseOk, UnderWay, DraftOf, Ids
  <2>4. BaseOk(n)'
    BY <2>1, <2>2, <1>a, <1>b, <1>c, Numbers DEF FirstOk, BaseOk, UnderWay, DraftOf, Ids
  <2>5. ASSUME NEW m \in Regs, m # n PROVE BaseOk(m)'
    <3> DEFINE a == reg[m].awaits
    <3>1. reg'[m] = reg[m] /\ BaseOk(m) /\ reg[m].known \in Ids
      BY <1>a, <1>b, <2>1, <2>5
    <3>2. reg[m].known # None => reg[reg[m].known].at = "end"
      BY <1>b
    <3>3. reg[m].at = "wait" =>
            /\ a \in Regs /\ reg'[a].known = None
            /\ reg'[a].at = "end" /\ reg'[a].ok => draftId' = a
      <4>1. CASE a = n
        BY <1>b, <1>c, <2>1, <2>2, <3>1, <4>1, Numbers DEF BaseOk, UnderWay, DraftOf
      <4>2. CASE a # n
        <5>1. reg[m].at = "wait" => a \in Regs /\ reg'[a] = reg[a] /\ a # None
          BY <1>c, <2>1, <4>2, Numbers
        <5>2. draftId = a /\ reg[a].at = "end" /\ a # None => draftId' = a
          BY <1>b, <2>1, <2>2, <4>2, Numbers DEF BaseOk
        <5>. QED
          BY <3>1, <5>1, <5>2 DEF BaseOk
      <4>. QED
        BY <4>1, <4>2
    <3>. QED
      BY <2>1, <2>2, <3>1, <3>2, <3>3, Numbers DEF BaseOk, UnderWay, DraftOf, FirstOk, Ids
  <2>. QED
    BY <2>3, <2>4, <2>5
<1>8. ASSUME NEW n \in Regs, Dropped(n) PROVE FirstOk' /\ \A m \in Regs :
          BaseOk(m)'
  <2>1. /\ reg[n].at = "dropped" /\ reg'[n].at = "end" /\ (reg'[n].ok <=> reg[n].known # None)
        /\ reg[n].known = None => draftId' = None /\ initP' = None
        /\ reg[n].known # None => draftId' = draftId /\ initP' = initP
        /\ reg'[n].known = reg[n].known /\ reg'[n].awaits = reg[n].awaits
        /\ \A m \in Regs : m # n => reg'[m] = reg[m]
    BY <1>8, DroppedStep DEF Turns
  <2>2. BaseOk(n) /\ FirstOk /\ reg[n].known \in Ids /\ draftId \in Ids /\ initP \in Ids
    BY <1>a, <1>b
  <2>3. FirstOk'
    BY <2>1, <2>2, <1>b, Numbers DEF FirstOk, BaseOk, UnderWay, DraftOf, Ids
  <2>4. BaseOk(n)'
    BY <2>1, <2>2, <1>a, <1>b, <1>c, Numbers DEF FirstOk, BaseOk, UnderWay, DraftOf, Ids
  <2>5. ASSUME NEW m \in Regs, m # n PROVE BaseOk(m)'
    <3> DEFINE a == reg[m].awaits
    <3>1. reg'[m] = reg[m] /\ BaseOk(m) /\ reg[m].known \in Ids
      BY <1>a, <1>b, <2>1, <2>5
    <3>2. reg[m].known # None => reg[reg[m].known].at = "end"
      BY <1>b
    <3>3. reg[m].at = "wait" =>
            /\ a \in Regs /\ reg'[a].known = None
            /\ reg'[a].at = "end" /\ reg'[a].ok => draftId' = a
      <4>1. CASE a = n
        BY <1>b, <1>c, <2>1, <2>2, <3>1, <4>1, Numbers DEF BaseOk, UnderWay, DraftOf
      <4>2. CASE a # n
        <5>1. reg[m].at = "wait" => a \in Regs /\ reg'[a] = reg[a] /\ a # None
          BY <1>c, <2>1, <4>2, Numbers
        <5>2. draftId = a /\ reg[a].at = "end" /\ a # None => draftId' = a
          BY <1>b, <2>1, <2>2, <4>2, Numbers DEF BaseOk
        <5>. QED
          BY <3>1, <5>1, <5>2 DEF BaseOk
      <4>. QED
        BY <4>1, <4>2
    <3>. QED
      BY <2>1, <2>2, <3>1, <3>2, <3>3, Numbers DEF BaseOk, UnderWay, DraftOf, FirstOk, Ids
  <2>. QED
    BY <2>3, <2>4, <2>5
<1>9. ASSUME NEW n \in Regs, Removed(n) PROVE FirstOk' /\ \A m \in Regs :
          BaseOk(m)'
  BY <1>9, RemovedStep, Numbers, <1>a, <1>b DEF FirstOk, BaseOk, UnderWay, DraftOf,
      Turns
<1>10. ASSUME Sent \/ Leave PROVE FirstOk' /\ \A m \in Regs : BaseOk(m)'
  BY <1>10, LeftStep, Numbers, <1>a, <1>b DEF FirstOk, BaseOk, UnderWay, DraftOf,
      Turns
<1>11. ASSUME Loss PROVE FirstOk' /\ \A m \in Regs : BaseOk(m)'
  BY <1>11, LossStep, Numbers, <1>a, <1>b DEF FirstOk, BaseOk, UnderWay, DraftOf,
      Turns
<1>12. ASSUME (\E k \in Names : RemoveFile(k)) \/ (\E k \in Names : PumpStart(k))
          \/ (\E n \in Regs : UploadSettled(n)) \/ PollAgain \/ (\E n \in Regs :
          ServeRemove(n)) \/ (\E n \in Regs : ServeComplete(n)) \/ (\E n \in Regs :
          ImportEnds(n)) \/ (\E n \in Regs : ServeShort(n)) \/ (\E n \in Regs :
          PartsUp(n)) \/ (\E n \in Regs : PartsFail(n)) \/ Submit \/ TickResolves
          \/ EditMetadata \/ TickRejects \/ SendFailed \/ PollTimesOut \/
          ServeFinalize \/ ServeAbort \/ UNCHANGED vars PROVE FirstOk' /\ \A m \in
          Regs : BaseOk(m)'
  <2>1. UNCHANGED <<draftId, initP, reg>>
    BY <1>12 DEF RemoveFile, PumpStart, UploadSettled, PollAgain, ServeRemove,
        ServeComplete, ImportEnds, ServeShort, PartsUp, PartsFail, Submit,
        TickResolves, EditMetadata, TickRejects, SendFailed, PollTimesOut,
        ServeFinalize, ServeAbort, vars, refs, server
  <2>. QED
    BY <2>1, Numbers, <1>a, <1>b DEF FirstOk, BaseOk, UnderWay, DraftOf, Turns
<1>. QED
  BY <1>1, <1>2, <1>3, <1>4, <1>5, <1>6, <1>7, <1>8, <1>9, <1>10, <1>11, <1>12 DEF
      Next, Answer, SendStep

\* Every step answers a registration so.
LEMMA ReplyStep == 
    ASSUME IInv, [Next]_vars, NEW m \in Regs PROVE ReplyMoves(m)
<1>1. ASSUME NEW n \in Regs, NEW k \in Names, AddFile(n, k) PROVE ReplyMoves(m)
  BY <1>1, AddFileStep DEF AddMoves, Start, ReplyMoves
<1>2. ASSUME NEW n \in Regs, InitSettled(n) PROVE ReplyMoves(m)
  BY <1>2, InitSettledStep DEF ReplyMoves
<1>3. ASSUME NEW n \in Regs, Minted(n) PROVE ReplyMoves(m)
  BY <1>3, RegTyped DEF Minted, server, IInv, RegRecs, ReplyMoves
<1>4. ASSUME NEW n \in Regs, ServeAdd(n) PROVE ReplyMoves(m)
  BY <1>4, ServeAddStep DEF Turns, ReplyMoves
<1>5. ASSUME NEW n \in Regs, Registered(n) PROVE ReplyMoves(m)
  BY <1>5, RegTyped DEF Registered, DraftOf, server, IInv, RegRecs, ReplyMoves
<1>6. ASSUME NEW n \in Regs, RegistrationFailed(n) PROVE ReplyMoves(m)
  BY <1>6, RegTyped DEF RegistrationFailed, Mark, Patch, server, IInv, RegRecs,
      ReplyMoves
<1>7. ASSUME NEW n \in Regs, ServeDrop(n) PROVE ReplyMoves(m)
  BY <1>7, RegTyped DEF ServeDrop, CleanUp, AbortDraft, RemoveRow, HasRow, RowsOf,
      refs, IInv, RegRecs, ReplyMoves
<1>8. ASSUME NEW n \in Regs, Dropped(n) PROVE ReplyMoves(m)
  BY <1>8, RegTyped DEF Dropped, server, IInv, RegRecs, ReplyMoves
<1>9. ASSUME NEW n \in Regs, LoseRegistration(n) PROVE ReplyMoves(m)
  BY <1>9, RegTyped DEF LoseRegistration, Fault, ReplyMoves, IInv
<1>10. ASSUME NEW k \in Names, RemoveFile(k) \/ PumpStart(k) PROVE ReplyMoves(m)
  BY <1>10, RegTyped DEF RemoveFile, PumpStart, refs, server, IInv, RegRecs,
      ReplyMoves
<1>11. ASSUME NEW n \in Regs, ServeRemove(n) \/ Removed(n) \/ PartsUp(n) \/
          PartsFail(n) \/ ServeComplete(n) \/ ServeShort(n) \/ UploadSettled(n) \/
          ImportEnds(n) \/ LoseUpload(n) \/ LoseRemoval(n) PROVE ReplyMoves(m)
  BY <1>11, RegTyped DEF ServeRemove, Removed, PartsUp, PartsFail, ServeComplete,
      ServeShort, UploadSettled, ImportEnds, LoseUpload, LoseRemoval, refs, server,
      Fault, IInv, RegRecs, ReplyMoves
<1>12. ASSUME Submit \/ EditMetadata \/ TickRejects \/ TickResolves \/
          ServeFinalize \/ PollAgain \/ SendFailed \/ Sent \/ PollTimesOut \/ Leave
          \/ ServeAbort \/ LoseFinalize \/ LoseAbort PROVE ReplyMoves(m)
  BY <1>12, RegTyped DEF Submit, EditMetadata, TickRejects, TickResolves,
      ServeFinalize, PollAgain, SendFailed, Sent, PollTimesOut, Leave, ServeAbort,
      LoseFinalize, LoseAbort, refs, server, Fault, IInv, RegRecs, ReplyMoves
<1>13. CASE UNCHANGED vars
  BY <1>13, RegTyped DEF vars, refs, server, IInv, RegRecs, ReplyMoves
<1>. QED
  BY <1>1, <1>2, <1>3, <1>4, <1>5, <1>6, <1>7, <1>8, <1>9, <1>10, <1>11, <1>12,
      <1>13 DEF Next, Answer, SendStep, Loss

\* Unless something slipped, a draft has ended its first registration before
\* another file joins it.
LEMMA JoinedEnded == ASSUME IInv, Agreed, Plain, NEW n \in Regs, reg[n].known # None
                     PROVE  reg[n].known \in Regs /\ reg[reg[n].known].at = "end"
  BY RegTyped DEF IInv, Agreed, JoinInv, Plain, RegRecs, Ids

\* The page's draft is no longer the first registration's own business once it
\* shows a row.
LEMMA ShownJoined == ASSUME IInv, Agreed, Plain, page = "open", NEW m \in Regs, Shown(m)
                     PROVE  /\ draftId \in Regs /\ reg[draftId].at = "end" /\ reg[m].at = "end"
                            /\ row[m].draft = draftId /\ row[m].state \notin {"none", "gone"}
<1>1. /\ row[m].draft = draftId /\ row[m].state \notin {"none", "gone"}
  BY DEF Agreed, AgreeInv
<1>2. row[m].draft = DraftOf(m) /\ reg[m].at = "end"
  BY <1>1, Numbers DEF IInv, RowInv, Shown, Agreed, LinkInv
<1>3. CASE reg[m].known = None
  BY <1>1, <1>2, <1>3 DEF DraftOf
<1>4. CASE reg[m].known # None
  BY <1>1, <1>2, <1>4, JoinedEnded DEF DraftOf
<1>. QED
  BY <1>3, <1>4

\* A removal is of the draft the row is in.
LEMMA RemovalAimed == ASSUME IInv, Agreed, [Next]_vars, Plain', NEW m \in Regs, rm'[m].at = "post"
                      PROVE  rm'[m].draft = row'[m].draft
<1>1. Plain /\ CallMoves(m) /\ RowMoves(m) /\ LinkInv /\ AgreeInv
  BY SlipsStep, CallStep, RowStep DEF Plain, Agreed
<1>2. reg[m].at = "end"
  BY <1>1, Numbers DEF CallMoves, LinkInv
<1>3. row'[m].draft = row[m].draft
  BY <1>1, <1>2 DEF RowMoves
<1>4. rm'[m].draft = row[m].draft
  BY <1>1 DEF CallMoves, AgreeInv, Shown
<1>. QED
  BY <1>3, <1>4

\* What add-file answers is so.
LEMMA AnswerKept == ASSUME IInv, Agreed, [Next]_vars, Plain', NEW m \in Regs, reg'[m].at = "reply"
                    PROVE  IF reg'[m].ok THEN page' = "open" => row'[m].state # "gone"
                           ELSE row'[m].state = "none"
<1>1. Plain /\ ReplyMoves(m) /\ RowMoves(m) /\ LinkInv /\ AgreeInv /\ "lost" \notin slips'
      /\ "short" \notin slips' /\ (page' = "open" => page = "open")
  BY SlipsStep, ReplyStep, RowStep DEF Plain, Agreed
<1>2. CASE reg[m].at = "reply" /\ reg'[m].ok = reg[m].ok
  <2>1. CASE reg[m].ok
    <3>1. page = "open" => row[m].state # "gone" /\ rm[m].at # "post"
      BY <1>1, <1>2, <2>1 DEF AgreeInv, LinkInv
    <3>2. ~ \E a \in Regs : reg[a].at = "drop" /\ reg[m].known = a
      BY <1>1, JoinedEnded, Numbers
    <3>. QED
      BY <1>1, <1>2, <2>1, <3>1, <3>2, GoneStep DEF GoneMoves
  <2>2. CASE ~reg[m].ok
    BY <1>1, <1>2, <2>2 DEF AgreeInv, RowMoves
  <2>. QED
    BY <2>1, <2>2
<1>3. CASE reg[m].at = "post" /\ IF reg'[m].ok THEN row'[m].state = "open" ELSE row'[m] = row[m]
  BY <1>3 DEF IInv, RowInv, Served
<1>. QED
  BY <1>1, <1>2, <1>3 DEF ReplyMoves

\* A row that is shown is in the draft of the page.
LEMMA ListedRows == 
    ASSUME IInv, Agreed, [Next]_vars, Plain', page' = "open", NEW m \in Regs, Shown(m)'
    PROVE  row'[m].draft = draftId' /\ row'[m].state \notin {"none", "gone"}
<1>a. /\ Plain /\ page = "open" /\ slips' \cap {"joined", "short"} = {} /\ "wiped" \notin slips'
      /\ LinkInv /\ AgreeInv /\ BaseInv
  BY SlipsStep DEF Plain, Agreed
<1>b. Shown(m) => /\ draftId \in Regs /\ reg[draftId].at = "end"
                  /\ row'[m].draft = draftId /\ row'[m].state \notin {"none", "gone"}
  BY <1>a, ShownJoined, ShownStays, RowStep DEF RowMoves
<1>1. ASSUME NEW n \in Regs, NEW k \in Names, AddFile(n, k) PROVE row'[m].draft =
          draftId' /\ row'[m].state \notin {"none", "gone"}
  BY <1>1, AddFileStep, <1>a, <1>b, Numbers DEF Shown, AddMoves
<1>2. ASSUME NEW k \in Names, RemoveFile(k) PROVE row'[m].draft = draftId' /\
          row'[m].state \notin {"none", "gone"}
  BY <1>2, RemoveFileStep, <1>a, <1>b, Numbers DEF Shown
<1>3. ASSUME (\E k \in Names : PumpStart(k)) \/ (\E n \in Regs : UploadSettled(n))
          \/ PollAgain PROVE row'[m].draft = draftId' /\ row'[m].state \notin
          {"none", "gone"}
  BY <1>3, LabelStep, <1>b DEF Shown, Relabels
<1>4. ASSUME NEW n \in Regs, InitSettled(n) PROVE row'[m].draft = draftId' /\
          row'[m].state \notin {"none", "gone"}
  BY <1>4, InitSettledStep, <1>b DEF Shown, Relabels
<1>5. ASSUME NEW n \in Regs, Registered(n) PROVE row'[m].draft = draftId' /\
          row'[m].state \notin {"none", "gone"}
  <2>1. Shown(m) => draftId' = draftId
    BY <1>5, RegisteredStep, <1>b, Numbers
  <2>2. CASE ~Shown(m)
    <3>1. m = n
      BY <1>5, RegisteredStep, <2>2 DEF Shown
    <3>2. /\ row[m].state # "none" /\ row[m].draft = DraftOf(m) /\ row' = row
          /\ row[m].state # "gone" /\ reg[m].at = "reply"
      BY <1>5, RegisteredStep, <1>a, <3>1 DEF IInv, RegInv, RegOk, RowInv, AgreeInv
    <3>3. draftId # None => DraftOf(m) = draftId
      BY <1>a, <3>2 DEF BaseInv, BaseOk, UnderWay, DraftOf
    <3>. QED
      BY <1>5, RegisteredStep, <3>1, <3>2, <3>3
  <2>. QED
    BY <1>b, <2>1, <2>2
<1>6. ASSUME NEW n \in Regs, RegistrationFailed(n) PROVE row'[m].draft = draftId'
          /\ row'[m].state \notin {"none", "gone"}
  BY <1>6, RegistrationFailedStep, <1>b DEF Shown, Relabels
<1>7. ASSUME NEW n \in Regs, Dropped(n) PROVE row'[m].draft = draftId' /\
          row'[m].state \notin {"none", "gone"}
  <2>1. reg[n].known = None => ~Shown(m)
    <3>1. reg[n].known = None => draftId = n
      BY <1>7, DroppedStep, <1>a DEF BaseInv, BaseOk
    <3>. QED
      BY <1>7, DroppedStep, <1>b, <3>1
  <2>. QED
    BY <1>7, DroppedStep, <1>b, <2>1 DEF Shown
<1>8. ASSUME NEW n \in Regs, Removed(n) PROVE row'[m].draft = draftId' /\
          row'[m].state \notin {"none", "gone"}
  BY <1>8, RemovedStep, <1>a, <1>b, Numbers DEF Shown
<1>9. ASSUME Sent \/ Leave PROVE row'[m].draft = draftId' /\ row'[m].state \notin
          {"none", "gone"}
  BY <1>9, LeftStep
<1>10. ASSUME (\E n \in Regs : Minted(n)) \/ (\E n \in Regs : ServeAdd(n)) \/ (\E n
          \in Regs : ServeDrop(n)) \/ (\E n \in Regs : ServeRemove(n)) \/ (\E n \in
          Regs : ServeComplete(n)) \/ (\E n \in Regs : ImportEnds(n)) \/ (\E n \in
          Regs : ServeShort(n)) \/ (\E n \in Regs : PartsUp(n)) \/ (\E n \in Regs :
          PartsFail(n)) \/ Submit \/ TickResolves \/ EditMetadata \/ TickRejects \/
          SendFailed \/ PollTimesOut \/ ServeFinalize \/ ServeAbort \/ Loss \/
          UNCHANGED vars PROVE row'[m].draft = draftId' /\ row'[m].state \notin
          {"none", "gone"}
  <2>1. UNCHANGED <<page, files, draftId>>
    BY <1>10 DEF Minted, ServeAdd, ServeDrop, ServeRemove, ServeComplete,
        ImportEnds, ServeShort, PartsUp, PartsFail, Submit, TickResolves,
        EditMetadata, TickRejects, SendFailed, PollTimesOut, ServeFinalize,
        ServeAbort, Loss, vars, refs, server, Fault, LoseRegistration, LoseUpload,
        LoseRemoval, LoseFinalize, LoseAbort
  <2>. QED
    BY <2>1, Numbers, <1>a, <1>b DEF Shown
<1>. QED
  BY <1>1, <1>2, <1>3, <1>4, <1>5, <1>6, <1>7, <1>8, <1>9, <1>10 DEF Next, Answer,
      SendStep

\* A row of the draft of the page is shown, or is on its way in or out.
LEMMA DraftRows == 
    ASSUME IInv, Agreed, [Next]_vars, Plain', page' = "open", NEW m \in Regs,
           draftId' # None, HasRow(draftId, m)'
    PROVE  Shown(m)' \/ rm'[m].at = "post" \/ reg'[m].at \in {"reply", "drop"}
<1>a. /\ Plain /\ page = "open" /\ LinkInv /\ BaseInv /\ AliasInv /\ RowInv /\ "short" \notin slips'
      /\ "lost" \notin slips' /\ "aliased" \notin slips
  BY SlipsStep DEF Plain, Agreed, IInv
<1>b. draftId # None /\ HasRow(draftId, m) =>
        Shown(m) \/ rm[m].at = "post" \/ reg[m].at \in {"reply", "drop"}
  BY <1>a DEF Agreed, AgreeInv
<1>c. row'[m].draft = draftId' /\ row'[m].state \notin {"none", "gone"} /\ draft'[draftId'] = "open"
  BY DEF HasRow, RowsOf
<1>d. draftId \in Ids /\ reg[m].at \in RegStates
  BY RefsTyped, RegTyped DEF IInv, RegRecs
<1>1. ASSUME NEW n \in Regs, NEW k \in Names, AddFile(n, k) PROVE Shown(m)' \/
          rm'[m].at = "post" \/ reg'[m].at \in {"reply", "drop"}
  <2>1. HasRow(draftId, m) /\ draftId # None /\ rm' = rm
    BY <1>1, AddFileStep, <1>c DEF HasRow, RowsOf, AddMoves
  <2>2. Shown(m) => Shown(m)'
    BY <1>1, AddFileStep, Numbers DEF Shown, IInv, FileInv
  <2>3. m # n
    BY <1>1, AddFileStep, <1>c, <1>a DEF AddMoves, RowInv, Served
  <2>. QED
    BY <1>1, AddFileStep, <1>b, <2>1, <2>2, <2>3 DEF AddMoves
<1>2. ASSUME NEW k \in Names, RemoveFile(k) PROVE Shown(m)' \/ rm'[m].at = "post"
          \/ reg'[m].at \in {"reply", "drop"}
  <2>1. HasRow(draftId, m) /\ draftId # None /\ reg' = reg
    BY <1>2, RemoveFileStep, <1>c DEF HasRow, RowsOf
  <2>2. Shown(m) => Shown(m)' \/ rm'[m].at = "post"
    BY <1>2, RemoveFileStep, <2>1, Numbers DEF Shown
  <2>3. rm[m].at = "post" => rm'[m].at = "post"
    BY <1>2, RemoveFileStep, <2>1, Numbers
  <2>. QED
    BY <1>b, <2>1, <2>2, <2>3
<1>3. ASSUME (\E k \in Names : PumpStart(k)) \/ (\E n \in Regs : UploadSettled(n))
          \/ PollAgain PROVE Shown(m)' \/ rm'[m].at = "post" \/ reg'[m].at \in
          {"reply", "drop"}
  BY <1>3, LabelStep, <1>b, <1>c DEF HasRow, RowsOf, Shown, Relabels
<1>4. ASSUME NEW n \in Regs, InitSettled(n) PROVE Shown(m)' \/ rm'[m].at = "post"
          \/ reg'[m].at \in {"reply", "drop"}
  <2>1. Shown(m) => Shown(m)'
    BY <1>4, InitSettledStep DEF Shown, Relabels
  <2>. QED
    BY <1>4, InitSettledStep, <1>b, <1>c, <2>1 DEF HasRow, RowsOf
<1>5. ASSUME NEW n \in Regs, Minted(n) PROVE Shown(m)' \/ rm'[m].at = "post" \/
          reg'[m].at \in {"reply", "drop"}
  BY <1>5, MintedStep, <1>b, <1>c DEF HasRow, RowsOf, Shown, Turns
<1>6. ASSUME NEW n \in Regs, ServeAdd(n) PROVE Shown(m)' \/ rm'[m].at = "post" \/
          reg'[m].at \in {"reply", "drop"}
  <2>1. CASE m = n
    BY <1>6, ServeAddStep, <2>1 DEF Turns
  <2>2. CASE m # n
    <3>1. row'[m] = row[m] /\ reg'[m] = reg[m] /\ rm' = rm /\ files' = files /\ draftId' = draftId
      BY <1>6, ServeAddStep, <2>2 DEF Turns
    <3>2. draft[draftId] = "open"
      <4>1. CASE draft'[draftId] = draft[draftId]
        BY <1>c, <3>1, <4>1
      <4>2. CASE DraftOf(n) = draftId /\ reg'[n].ok
        BY <1>6, ServeAddStep, <1>c, <3>1, <4>2 DEF DraftOf, Agreed, JoinInv, Settled, Served
      <4>. QED
        BY <1>6, ServeAddStep, <1>c, <1>d, <3>1, <4>1, <4>2 DEF Ids
    <3>. QED
      BY <1>b, <1>c, <3>1, <3>2 DEF HasRow, RowsOf, Shown
  <2>. QED
    BY <2>1, <2>2
<1>7. ASSUME NEW n \in Regs, Registered(n) PROVE Shown(m)' \/ rm'[m].at = "post" \/
          reg'[m].at \in {"reply", "drop"}
  <2>1. CASE m = n
    BY <1>7, RegisteredStep, <2>1 DEF Turns, Shown, IInv, RegInv, RegOk
  <2>2. CASE m # n
    <3>1. /\ reg'[m] = reg[m] /\ reg[n].at = "reply" /\ row' = row /\ draft' = draft /\ rm' = rm
          /\ draftId' = IF draftId = None THEN DraftOf(n) ELSE draftId
      BY <1>7, RegisteredStep, <2>2 DEF Turns
    <3>2. draftId # None
      <4> SUFFICES ASSUME draftId = None PROVE FALSE
        OBVIOUS
      <4>1. reg[n].known = None
        BY <1>a, <3>1 DEF BaseInv, BaseOk, UnderWay
      <4>2. DraftOf(m) = n
        BY <1>a, <1>c, <3>1, <4>1, Numbers DEF RowInv, DraftOf
      <4>3. reg[m].known = n
        BY <2>2, <4>2 DEF DraftOf
      <4>. QED
        BY <1>a, <3>1, <4>3, JoinedEnded, Numbers
    <3>3. Shown(m) => Shown(m)'
      <4> SUFFICES ASSUME NEW h \in Names, files[h].row = m PROVE Shown(m)'
        BY DEF Shown
      <4>1. h # reg[n].name \/ files' = files
        <5>1. files[h].state # "absent"
          BY Numbers DEF IInv, FileInv
        <5>2. reg[n].name = h => files[h].row = None
          BY <1>a, <3>1, <5>1 DEF AliasInv, UnderWay
        <5>. QED
          BY <5>2, Numbers
      <4>. QED
        BY <1>7, RegisteredStep, <4>1 DEF Shown
    <3>. QED
      BY <1>b, <1>c, <3>1, <3>2, <3>3 DEF HasRow, RowsOf
  <2>. QED
    BY <2>1, <2>2
<1>8. ASSUME NEW n \in Regs, RegistrationFailed(n) PROVE Shown(m)' \/ rm'[m].at =
          "post" \/ reg'[m].at \in {"reply", "drop"}
  <2>1. m # n
    BY <1>8, RegistrationFailedStep, <1>a, <1>c DEF Agreed, AgreeInv
  <2>2. Shown(m) => Shown(m)'
    BY <1>8, RegistrationFailedStep DEF Shown, Relabels
  <2>. QED
    BY <1>8, RegistrationFailedStep, <1>b, <1>c, <2>1, <2>2 DEF HasRow, RowsOf, Turns
<1>9. ASSUME NEW n \in Regs, ServeDrop(n) PROVE Shown(m)' \/ rm'[m].at = "post" \/
          reg'[m].at \in {"reply", "drop"}
  <2>1. /\ draft'[draftId] = "open" => draft[draftId] = "open"
        /\ row'[m].state # "gone" => row'[m] = row[m]
        /\ draftId' = draftId
    BY <1>9, ServeDropStep, <1>c, <1>d DEF Takes, Aborts, Ids
  <2>2. HasRow(draftId, m)
    BY <1>c, <2>1 DEF HasRow, RowsOf
  <2>3. m # n
    <3> SUFFICES ASSUME m = n PROVE FALSE
      OBVIOUS
    <3>1. row[n].draft = draftId /\ DraftOf(n) = draftId
      BY <1>a, <2>2 DEF HasRow, RowsOf, RowInv
    <3>2. CASE reg[n].known = None
      BY <1>9, ServeDropStep, <1>c, <2>1, <2>2, <3>1, <3>2 DEF Aborts, DraftOf, HasRow
    <3>3. CASE reg[n].known # None
      BY <1>9, ServeDropStep, <1>c, <2>2, <3>1, <3>3 DEF Takes, DraftOf
    <3>. QED
      BY <3>2, <3>3
  <2>. QED
    BY <1>9, ServeDropStep, <1>b, <1>c, <2>1, <2>2, <2>3 DEF Turns, Shown
<1>10. ASSUME NEW n \in Regs, Dropped(n) PROVE Shown(m)' \/ rm'[m].at = "post" \/
          reg'[m].at \in {"reply", "drop"}
  BY <1>10, DroppedStep, <1>a, <1>b, <1>c DEF HasRow, RowsOf, Shown, Turns, LinkInv
<1>11. ASSUME NEW n \in Regs, ServeRemove(n) PROVE Shown(m)' \/ rm'[m].at = "post"
          \/ reg'[m].at \in {"reply", "drop"}
  <2>1. rm[n].draft \in Regs /\ rm[n].draft = row[n].draft
    BY <1>11, <1>a DEF ServeRemove, Agreed, LinkInv, AgreeInv
  <2>2. /\ draft'[draftId] = "open" => draft[draftId] = "open"
        /\ row'[m].state # "gone" => row'[m] = row[m]
        /\ draftId' = draftId
    BY <1>11, <2>1, ServeRemoveStep, <1>c, <1>d DEF Takes, Ids
  <2>3. HasRow(draftId, m)
    BY <1>c, <2>2 DEF HasRow, RowsOf
  <2>4. m # n
    BY <1>11, <2>1, ServeRemoveStep, <1>c, <2>3 DEF Takes, HasRow, RowsOf
  <2>. QED
    BY <1>11, <2>1, ServeRemoveStep, <1>b, <2>3, <2>4 DEF Shown
<1>12. ASSUME NEW n \in Regs, Removed(n) PROVE Shown(m)' \/ rm'[m].at = "post" \/
          reg'[m].at \in {"reply", "drop"}
  BY <1>12, RemovedStep, <1>a, <1>b, <1>c DEF HasRow, RowsOf, Shown
<1>13. ASSUME NEW n \in Regs, ServeComplete(n) \/ ImportEnds(n) PROVE Shown(m)' \/
          rm'[m].at = "post" \/ reg'[m].at \in {"reply", "drop"}
  BY <1>13, BytesStep, <1>b, <1>c DEF HasRow, RowsOf, RowsKept, Shown
<1>14. ASSUME NEW n \in Regs, ServeShort(n) PROVE Shown(m)' \/ rm'[m].at = "post"
          \/ reg'[m].at \in {"reply", "drop"}
  BY <1>14, ServeShortStep, <1>a, <1>b, <1>c DEF HasRow, RowsOf, Shown
<1>15. ASSUME ServeFinalize PROVE Shown(m)' \/ rm'[m].at = "post" \/ reg'[m].at \in
          {"reply", "drop"}
  <2>1. draft'[draftId'] = draft[draftId] /\ draftId' = draftId
    BY <1>15, ServesFinalize, <1>c, <1>d DEF Ids
  <2>. QED
    BY <1>15, ServesFinalize, <1>b, <1>c, <2>1 DEF HasRow, RowsOf, RowsKept, Shown
<1>16. ASSUME Sent \/ Leave PROVE Shown(m)' \/ rm'[m].at = "post" \/ reg'[m].at \in
          {"reply", "drop"}
  BY <1>16, LeftStep
<1>17. ASSUME ServeAbort PROVE Shown(m)' \/ rm'[m].at = "post" \/ reg'[m].at \in
          {"reply", "drop"}
  BY <1>17, <1>a DEF ServeAbort, LinkInv
<1>18. ASSUME Loss PROVE Shown(m)' \/ rm'[m].at = "post" \/ reg'[m].at \in
          {"reply", "drop"}
  BY <1>18, LossStep, <1>a
<1>19. ASSUME (\E n \in Regs : PartsUp(n)) \/ (\E n \in Regs : PartsFail(n)) \/
          Submit \/ TickResolves \/ EditMetadata \/ TickRejects \/ SendFailed \/
          PollTimesOut \/ UNCHANGED vars PROVE Shown(m)' \/ rm'[m].at = "post" \/
          reg'[m].at \in {"reply", "drop"}
  <2>1. UNCHANGED <<page, files, draftId, reg, rm, draft, row>>
    BY <1>19 DEF PartsUp, PartsFail, Submit, TickResolves, EditMetadata,
        TickRejects, SendFailed, PollTimesOut, vars, refs, server
  <2>. QED
    BY <2>1, Numbers, <1>a, <1>b, <1>c DEF HasRow, RowsOf, Shown
<1>. QED
  BY <1>1, <1>2, <1>3, <1>4, <1>5, <1>6, <1>7, <1>8, <1>9, <1>10, <1>11, <1>12,
      <1>13, <1>14, <1>15, <1>16, <1>17, <1>18, <1>19 DEF Next, Answer, SendStep

\* What the list shows and what the server keeps go together.
LEMMA AgreeInvNext == IInv /\ Agreed /\ [Next]_vars => AgreeInv'
<1> SUFFICES ASSUME IInv, Agreed, [Next]_vars, Plain' PROVE AgreeInv'
  BY DEF AgreeInv
<1>. QED
  BY RemovalAimed, AnswerKept, ListedRows, DraftRows DEF AgreeInv

\* A send that is armed wants what is listed.
LEMMA ArmedWants == 
    ASSUME IInv, Agreed, [Next]_vars, page' = "open", send'.at = "armed", ~send'.cancel,
           "wiped" \notin slips'
    PROVE  send'.wanted = Listed'
<1>a. page = "open" /\ "wiped" \notin slips
      /\ (send.at = "armed" /\ ~send.cancel => send.wanted = Listed)
  BY SlipsStep DEF Agreed, AimInv
<1>1. ASSUME NEW n \in Regs, NEW k \in Names, AddFile(n, k) PROVE send'.wanted =
          Listed'
  BY <1>1, AddFileStep DEF Disarms
<1>2. ASSUME NEW k \in Names, RemoveFile(k) PROVE send'.wanted = Listed'
  BY <1>2, RemoveFileStep DEF Disarms
<1>3. ASSUME (\E k \in Names : PumpStart(k)) \/ (\E n \in Regs : UploadSettled(n))
          \/ PollAgain PROVE send'.wanted = Listed'
  BY <1>3, LabelStep, <1>a DEF Relabels, Listed
<1>4. ASSUME NEW n \in Regs, InitSettled(n) PROVE send'.wanted = Listed'
  BY <1>4, InitSettledStep, <1>a DEF Relabels, Listed
<1>5. ASSUME NEW n \in Regs, Registered(n) PROVE send'.wanted = Listed'
  BY <1>5, RegisteredStep, <1>a DEF Listed
<1>6. ASSUME NEW n \in Regs, RegistrationFailed(n) PROVE send'.wanted = Listed'
  BY <1>6, RegistrationFailedStep, <1>a DEF Relabels, Listed
<1>7. ASSUME NEW n \in Regs, Removed(n) PROVE send'.wanted = Listed'
  <2>1. send' = send /\ Listed' = Listed
    BY <1>7, RemovedStep DEF Listed, Removed
  <2>. QED
    BY <1>a, <2>1
<1>8. ASSUME NEW n \in Regs, ServeShort(n) PROVE send'.wanted = Listed'
  BY <1>8, ServeShortStep, Numbers, <1>a DEF Listed
<1>9. ASSUME Submit PROVE send'.wanted = Listed'
  BY <1>9, SubmitsStep DEF Listed
<1>10. ASSUME TickResolves PROVE send'.wanted = Listed'
  BY <1>10, ResolveStep
<1>11. ASSUME EditMetadata \/ TickRejects \/ SendFailed \/ PollTimesOut PROVE
          send'.wanted = Listed'
  BY <1>11, UnsendStep
<1>12. ASSUME ServeFinalize PROVE send'.wanted = Listed'
  BY <1>12, ServesFinalize
<1>13. ASSUME Sent \/ Leave PROVE send'.wanted = Listed'
  BY <1>13, LeftStep
<1>14. ASSUME Loss PROVE send'.wanted = Listed'
  BY <1>14, LossStep, <1>a DEF Listed
<1>15. ASSUME (\E n \in Regs : Minted(n)) \/ (\E n \in Regs : ServeAdd(n)) \/ (\E n
          \in Regs : ServeDrop(n)) \/ (\E n \in Regs : Dropped(n)) \/ (\E n \in
          Regs : ServeRemove(n)) \/ (\E n \in Regs : ServeComplete(n)) \/ (\E n \in
          Regs : ImportEnds(n)) \/ (\E n \in Regs : PartsUp(n)) \/ (\E n \in Regs :
          PartsFail(n)) \/ ServeAbort \/ UNCHANGED vars PROVE send'.wanted =
          Listed'
  <2>1. UNCHANGED <<page, files, send, slips>>
    BY <1>15 DEF Minted, ServeAdd, ServeDrop, Dropped, ServeRemove, ServeComplete,
        ImportEnds, PartsUp, PartsFail, ServeAbort, vars, refs, server
  <2>. QED
    BY <2>1, Numbers, <1>a DEF Listed
<1>. QED
  BY <1>1, <1>2, <1>3, <1>4, <1>5, <1>6, <1>7, <1>8, <1>9, <1>10, <1>11, <1>12,
      <1>13, <1>14, <1>15 DEF Next, Answer, SendStep

\* A send that is armed is of the draft of the page, or of none that will come.
LEMMA ArmedAims == 
    ASSUME IInv, Agreed, [Next]_vars, page' = "open", Plain', send'.at = "armed", ~send'.cancel
    PROVE  draftId' = send'.id \/ (draftId' = None /\ initP' = None)
<1>a. page = "open" /\ Plain /\ "lost" \notin slips'
      /\ (send.at = "armed" /\ ~send.cancel =>
            draftId = send.id \/ (draftId = None /\ initP = None))
  BY SlipsStep DEF Plain, Agreed, AimInv
<1>1. ASSUME NEW n \in Regs, NEW k \in Names, AddFile(n, k) PROVE draftId' =
          send'.id \/ (draftId' = None /\ initP' = None)
  BY <1>1, AddFileStep DEF Disarms
<1>2. ASSUME NEW k \in Names, RemoveFile(k) PROVE draftId' = send'.id \/ (draftId'
          = None /\ initP' = None)
  BY <1>2, RemoveFileStep DEF Disarms
<1>3. ASSUME (\E k \in Names : PumpStart(k)) \/ (\E n \in Regs : UploadSettled(n))
          \/ PollAgain PROVE draftId' = send'.id \/ (draftId' = None /\ initP' =
          None)
  BY <1>3, LabelStep, <1>a
<1>4. ASSUME NEW n \in Regs, Registered(n) PROVE draftId' = send'.id \/ (draftId' =
          None /\ initP' = None)
  <2>1. draftId # None \/ initP # None
    BY <1>4, RegisteredStep, <1>a, Numbers DEF Agreed, BaseInv, BaseOk, UnderWay
  <2>2. UNCHANGED <<initP, send>> /\ (draftId # None => draftId' = draftId)
    BY <1>4, RegisteredStep
  <2>3. send.id \in Regs
    BY <2>2 DEF IInv, FinalInv
  <2>. QED
    BY <1>a, <2>1, <2>2, <2>3, Numbers
<1>5. ASSUME NEW n \in Regs, RegistrationFailed(n) PROVE draftId' = send'.id \/
          (draftId' = None /\ initP' = None)
  BY <1>5, RegistrationFailedStep, <1>a
<1>6. ASSUME NEW n \in Regs, Dropped(n) PROVE draftId' = send'.id \/ (draftId' =
          None /\ initP' = None)
  BY <1>6, DroppedStep, <1>a
<1>7. ASSUME NEW n \in Regs, Removed(n) PROVE draftId' = send'.id \/ (draftId' =
          None /\ initP' = None)
  BY <1>7, RemovedStep, <1>a DEF Removed
<1>8. ASSUME NEW n \in Regs, ServeShort(n) PROVE draftId' = send'.id \/ (draftId' =
          None /\ initP' = None)
  BY <1>8, ServeShortStep, <1>a
<1>9. ASSUME Submit PROVE draftId' = send'.id \/ (draftId' = None /\ initP' = None)
  BY <1>9, SubmitsStep DEF Listed
<1>10. ASSUME TickResolves PROVE draftId' = send'.id \/ (draftId' = None /\ initP'
          = None)
  BY <1>10, ResolveStep
<1>11. ASSUME EditMetadata \/ TickRejects \/ SendFailed \/ PollTimesOut PROVE
          draftId' = send'.id \/ (draftId' = None /\ initP' = None)
  BY <1>11, UnsendStep
<1>12. ASSUME ServeFinalize PROVE draftId' = send'.id \/ (draftId' = None /\ initP'
          = None)
  BY <1>12, ServesFinalize
<1>13. ASSUME Sent \/ Leave PROVE draftId' = send'.id \/ (draftId' = None /\ initP'
          = None)
  BY <1>13, LeftStep
<1>14. ASSUME Loss PROVE draftId' = send'.id \/ (draftId' = None /\ initP' = None)
  BY <1>14, LossStep, <1>a
<1>15. ASSUME (\E n \in Regs : InitSettled(n)) \/ (\E n \in Regs : Minted(n)) \/
          (\E n \in Regs : ServeAdd(n)) \/ (\E n \in Regs : ServeDrop(n)) \/ (\E n
          \in Regs : ServeRemove(n)) \/ (\E n \in Regs : ServeComplete(n)) \/ (\E n
          \in Regs : ImportEnds(n)) \/ (\E n \in Regs : PartsUp(n)) \/ (\E n \in
          Regs : PartsFail(n)) \/ ServeAbort \/ UNCHANGED vars PROVE draftId' =
          send'.id \/ (draftId' = None /\ initP' = None)
  <2>1. UNCHANGED <<page, draftId, initP, send, slips>>
    BY <1>15 DEF InitSettled, Minted, ServeAdd, ServeDrop, ServeRemove,
        ServeComplete, ImportEnds, PartsUp, PartsFail, ServeAbort, vars, refs,
        server
  <2>. QED
    BY <2>1, Numbers, <1>a
<1>. QED
  BY <1>1, <1>2, <1>3, <1>4, <1>5, <1>6, <1>7, <1>8, <1>9, <1>10, <1>11, <1>12,
      <1>13, <1>14, <1>15 DEF Next, Answer, SendStep

\* A send that is being finalized is of the draft of the page, which shows a row.
LEMMA FinalizesAims == 
    ASSUME IInv, Agreed, [Next]_vars, page' = "open", Plain', Finalizing'
    PROVE  draftId' = send'.id /\ \E m \in Regs : Shown(m)'
<1>a. page = "open" /\ Plain /\ "lost" \notin slips' /\ "wiped" \notin slips'
      /\ (Finalizing => draftId = send.id /\ \E m \in Regs : Shown(m))
  BY SlipsStep DEF Plain, Agreed, AimInv
<1>b. \A m \in Regs : Shown(m) => draftId \in Regs /\ reg[draftId].at = "end"
  BY <1>a, ShownJoined
<1>c. ASSUME Relabels PROVE \A m \in Regs : Shown(m) => Shown(m)'
  BY <1>c DEF Relabels, Shown
<1>1. ASSUME NEW n \in Regs, NEW k \in Names, AddFile(n, k) PROVE draftId' =
          send'.id /\ \E m \in Regs : Shown(m)'
  <2>1. \A m \in Regs : Shown(m) => Shown(m)'
    BY <1>1, AddFileStep, Numbers DEF Shown, IInv, FileInv
  <2>2. UNCHANGED <<draftId, send>>
    BY <1>1, AddFileStep DEF AddMoves, Disarms, Finalizing
  <2>. QED
    BY <1>a, <2>1, <2>2 DEF Finalizing
<1>2. ASSUME NEW k \in Names, RemoveFile(k) PROVE draftId' = send'.id /\ \E m \in
          Regs : Shown(m)'
  BY <1>2, RemoveFileStep DEF Disarms, Finalizing
<1>3. ASSUME (\E k \in Names : PumpStart(k)) \/ (\E n \in Regs : UploadSettled(n))
          \/ PollAgain PROVE draftId' = send'.id /\ \E m \in Regs : Shown(m)'
  BY <1>3, LabelStep, <1>a, <1>c DEF Finalizing, Waiting
<1>4. ASSUME NEW n \in Regs, InitSettled(n) PROVE draftId' = send'.id /\ \E m \in
          Regs : Shown(m)'
  BY <1>4, InitSettledStep, <1>a, <1>c DEF Finalizing
<1>5. ASSUME NEW n \in Regs, Registered(n) PROVE draftId' = send'.id /\ \E m \in
          Regs : Shown(m)'
  <2>1. Finalizing /\ send' = send
    BY <1>5, RegisteredStep DEF Finalizing
  <2>2. draftId' = draftId /\ \E m \in Regs : Shown(m)
    BY <1>5, RegisteredStep, <1>a, <1>b, <2>1, Numbers
  <2>3. \E m \in Regs : Shown(m)'
    <3>1. reg[n].name \in Names
      BY <1>5, RegisteredStep DEF IInv, RegInv, RegOk
    <3>2. files' = files \/ files'[reg[n].name].row = n
      BY <1>5, RegisteredStep
    <3>3. files' = files => \A m \in Regs : Shown(m) => Shown(m)'
      BY DEF Shown
    <3>. QED
      BY <2>2, <3>1, <3>2, <3>3 DEF Shown
  <2>. QED
    BY <1>a, <2>1, <2>2, <2>3
<1>6. ASSUME NEW n \in Regs, RegistrationFailed(n) PROVE draftId' = send'.id /\ \E
          m \in Regs : Shown(m)'
  BY <1>6, RegistrationFailedStep, <1>a, <1>c DEF Finalizing
<1>7. ASSUME NEW n \in Regs, Dropped(n) PROVE draftId' = send'.id /\ \E m \in Regs
          : Shown(m)'
  <2>1. Finalizing /\ send' = send /\ files' = files
    BY <1>7, DroppedStep DEF Finalizing
  <2>2. reg[n].known = None => draftId = n
    BY <1>7, DroppedStep, <1>a DEF Agreed, BaseInv, BaseOk
  <2>. QED
    BY <1>7, DroppedStep, <1>a, <1>b, <2>1, <2>2 DEF Shown
<1>8. ASSUME NEW n \in Regs, Removed(n) PROVE draftId' = send'.id /\ \E m \in Regs
          : Shown(m)'
  <2>1. Finalizing /\ send' = send
    BY <1>8, RemovedStep DEF Finalizing, Removed
  <2>2. Listed # {}
    BY <1>a, <2>1, Numbers DEF Shown, Listed, IInv, FileInv
  <2>. QED
    BY <1>8, RemovedStep, <1>a, <2>1, <2>2 DEF Shown
<1>9. ASSUME NEW n \in Regs, ServeShort(n) PROVE draftId' = send'.id /\ \E m \in
          Regs : Shown(m)'
  BY <1>9, ServeShortStep, <1>a DEF Finalizing, Shown
<1>10. ASSUME Submit PROVE draftId' = send'.id /\ \E m \in Regs : Shown(m)'
  BY <1>10, SubmitsStep DEF Finalizing
<1>11. ASSUME TickResolves PROVE draftId' = send'.id /\ \E m \in Regs : Shown(m)'
  <2>1. PICK k \in Names : files[k].state = "done"
    BY <1>11, ResolveStep DEF Listed
  <2>2. files[k].row \in Regs
    BY <1>11, <1>a, <2>1, FilesTyped DEF IInv, FileRecs, Ids, Agreed, AliasInv, Plain
  <2>3. Shown(files[k].row)
    BY DEF Shown
  <2>4. draftId = send.id
    BY <1>11, ResolveStep, <1>a, <1>b, <2>2, <2>3, Numbers DEF Agreed, AimInv
  <2>. QED
    BY <1>11, ResolveStep, <2>2, <2>3, <2>4 DEF Shown
<1>12. ASSUME EditMetadata \/ TickRejects \/ SendFailed \/ PollTimesOut PROVE
          draftId' = send'.id /\ \E m \in Regs : Shown(m)'
  BY <1>12, UnsendStep DEF Finalizing
<1>13. ASSUME ServeFinalize PROVE draftId' = send'.id /\ \E m \in Regs : Shown(m)'
  BY <1>13, ServesFinalize, <1>a DEF Finalizing, Shown
<1>14. ASSUME Sent \/ Leave PROVE draftId' = send'.id /\ \E m \in Regs : Shown(m)'
  BY <1>14, LeftStep
<1>15. ASSUME Loss PROVE draftId' = send'.id /\ \E m \in Regs : Shown(m)'
  BY <1>15, LossStep, <1>a
<1>16. ASSUME (\E n \in Regs : Minted(n)) \/ (\E n \in Regs : ServeAdd(n)) \/ (\E n
          \in Regs : ServeDrop(n)) \/ (\E n \in Regs : ServeRemove(n)) \/ (\E n \in
          Regs : ServeComplete(n)) \/ (\E n \in Regs : ImportEnds(n)) \/ (\E n \in
          Regs : PartsUp(n)) \/ (\E n \in Regs : PartsFail(n)) \/ ServeAbort \/
          UNCHANGED vars PROVE draftId' = send'.id /\ \E m \in Regs : Shown(m)'
  <2>1. UNCHANGED <<page, files, draftId, send, slips>>
    BY <1>16 DEF Minted, ServeAdd, ServeDrop, ServeRemove, ServeComplete,
        ImportEnds, PartsUp, PartsFail, ServeAbort, vars, refs, server
  <2>. QED
    BY <2>1, Numbers, <1>a, <1>b DEF Finalizing, Shown
<1>. QED
  BY <1>1, <1>2, <1>3, <1>4, <1>5, <1>6, <1>7, <1>8, <1>9, <1>10, <1>11, <1>12,
      <1>13, <1>14, <1>15, <1>16 DEF Next, Answer, SendStep

\* A send that leaves is of what the page shows.
LEMMA AimInvNext == IInv /\ Agreed /\ [Next]_vars => AimInv'
<1> SUFFICES ASSUME IInv, Agreed, [Next]_vars, page' = "open" PROVE AimInv'
  BY DEF AimInv
<1>. QED
  BY ArmedWants, ArmedAims, FinalizesAims DEF AimInv

\* The rows of a draft are those of the list when the send leaves.
LEMMA ListIsDraft == ASSUME IInv, Agreed, Plain, page = "open", draftId # None,
                            draft[draftId] = "open",
                            \A k \in Listed : files[k].state = "done",
                            \A n \in Regs : rm[n].at # "post" /\ reg[n].at \in {"free", "end"}
                     PROVE  Names1(draftId, Listed)
<1>1. ASSUME NEW n \in RowsOf(draftId)
      PROVE  reg[n].name \in Listed /\ files[reg[n].name].row = n
  <2>1. n \in Regs /\ HasRow(draftId, n)
    BY DEF RowsOf, HasRow
  <2>2. PICK k \in Names : files[k].row = n
    BY <2>1 DEF Agreed, AgreeInv, Shown
  <2>3. reg[n].name = k /\ files[k].state # "absent"
    BY <2>1, <2>2, Numbers DEF Agreed, LinkInv, IInv, FileInv
  <2>. QED
    BY <2>2, <2>3 DEF Listed
<1>2. ASSUME NEW k \in Listed PROVE \E n \in RowsOf(draftId) : reg[n].name = k
  <2>1. k \in Names /\ files[k].row \in Regs
    BY FilesTyped DEF Listed, IInv, FileRecs, Ids, Agreed, AliasInv, Plain
  <2>2. Shown(files[k].row) /\ reg[files[k].row].name = k
    BY <2>1, Numbers DEF Shown, Agreed, LinkInv
  <2>3. files[k].row \in RowsOf(draftId)
    BY <2>1, <2>2 DEF Agreed, AgreeInv, RowsOf
  <2>. QED
    BY <2>2, <2>3
<1>3. Listed = {reg[n].name : n \in RowsOf(draftId)}
  BY <1>1, <1>2
<1>4. \A m, n \in RowsOf(draftId) : reg[m].name = reg[n].name => m = n
  BY <1>1
<1>. QED
  BY <1>3, <1>4 DEF Names1

\* The names of a draft stay when its rows do.
LEMMA NamesKept == ASSUME IInv, [Next]_vars, NEW d \in Regs, NEW ns, RowsOf(d)' = RowsOf(d),
                          Names1(d, ns)
                   PROVE  ns = {reg'[n].name : n \in RowsOf(d)'}
                          /\ \A m, n \in RowsOf(d)' : reg'[m].name = reg'[n].name => m = n
<1>1. \A n \in RowsOf(d) : reg'[n].name = reg[n].name
  BY RegStep DEF RegMoves, IInv, RowInv, RowsOf, Served
<1>. QED
  BY <1>1 DEF Names1

\* While a send is finalized the draft stays what it wants.
LEMMA FixInvNext == IInv /\ Agreed /\ [Next]_vars => FixInv'
<1> SUFFICES ASSUME IInv, Agreed, [Next]_vars PROVE FixInv'
  OBVIOUS
<1>a. ASSUME Calm', Finalizing', draft'[send'.id] = "open"
      PROVE  Calm /\ Plain /\ Plain' /\ slips' = {}
  BY <1>a, SlipsStep DEF Calm, Plain
<1>b. ASSUME Finalizing, Finalizing' => send'.id = send.id /\ send'.wanted = send.wanted,
             draft'[send.id] = "open" => draft[send.id] = "open" /\ RowsOf(send.id)' = RowsOf(send.id),
             Calm' => \A m \in Regs : (UnderWay(m)' => UnderWay(m))
                                      /\ (rm'[m].at = "post" => rm[m].at = "post")
      PROVE  FixInv'
  <2> SUFFICES ASSUME Calm', Finalizing', draft'[send'.id] = "open" PROVE FixInv'
    BY DEF FixInv
  <2>1. send.id \in Regs /\ FixInv /\ Calm
    BY <1>a, <1>b DEF IInv, FinalInv, Finalizing, Agreed
  <2>2. /\ Names1(send.id, send.wanted) /\ send'.id = send.id /\ send'.wanted = send.wanted
        /\ \A m \in Regs : ~UnderWay(m) /\ rm[m].at # "post"
    BY <1>b, <2>1 DEF FixInv
  <2>3. Names1(send.id, send.wanted)'
    BY <1>b, <2>1, <2>2, NamesKept DEF Names1
  <2>. QED
    BY <1>b, <2>2, <2>3 DEF FixInv
<1>c. ASSUME UNCHANGED <<reg, rm, send>>,
             ~Finalizing \/ (draft'[send.id] = "open" => draft[send.id] = "open" /\ RowsOf(send.id)' = RowsOf(send.id))
      PROVE  FixInv'
  <2>1. CASE ~Finalizing
    BY <1>c, <2>1 DEF FixInv, Finalizing
  <2>2. CASE Finalizing
    BY <1>b, <1>c, <2>2 DEF UnderWay
  <2>. QED
    BY <2>1, <2>2
<1>d. ASSUME NEW n \in Regs, UnderWay(n) \/ rm[n].at = "post", Finalizing /\ draft'[send.id] = "open" => draft[send.id] = "open",
             UNCHANGED send
      PROVE  FixInv'
  BY <1>a, <1>d DEF FixInv, Agreed, Finalizing
<1>1. ASSUME NEW n \in Regs, NEW k \in Names, AddFile(n, k) PROVE FixInv'
  BY <1>1, <1>a, AddFileStep DEF Calm, FixInv, Disarms, Finalizing
<1>2. ASSUME NEW k \in Names, RemoveFile(k) PROVE FixInv'
  BY <1>2, RemoveFileStep DEF Disarms, FixInv, Finalizing
<1>3. ASSUME (\E k \in Names : PumpStart(k)) \/ (\E n \in Regs : UploadSettled(n))
          \/ PollAgain PROVE FixInv'
  <2>1. CASE Finalizing
    BY <1>3, <1>b, <2>1, LabelStep DEF UnderWay, RowsOf
  <2>2. CASE ~Finalizing
    BY <1>3, <2>2, LabelStep DEF FixInv, Finalizing, Waiting
  <2>. QED
    BY <2>1, <2>2
<1>4. ASSUME NEW n \in Regs, InitSettled(n) PROVE FixInv'
  BY <1>4, <1>d, InitSettledStep DEF UnderWay
<1>5. ASSUME NEW n \in Regs, Minted(n) PROVE FixInv'
  BY <1>5, <1>d, MintedStep DEF UnderWay
<1>6. ASSUME NEW n \in Regs, ServeAdd(n) PROVE FixInv'
  <2>1. Finalizing => send.id \in Regs /\ reg[send.id].at \in Settled
    BY DEF IInv, FinalInv, Agreed, JoinInv, Finalizing
  <2>2. Finalizing /\ draft'[send.id] = "open" => draft[send.id] = "open"
    BY <1>6, <2>1, ServeAddStep DEF DraftOf, Settled, Served
  <2>. QED
    BY <1>6, <1>d, <2>2, ServeAddStep DEF UnderWay
<1>7. ASSUME NEW n \in Regs, Registered(n) PROVE FixInv'
  BY <1>7, <1>d, RegisteredStep DEF UnderWay
<1>8. ASSUME NEW n \in Regs, RegistrationFailed(n) PROVE FixInv'
  BY <1>8, <1>d, RegistrationFailedStep DEF UnderWay
<1>9. ASSUME NEW n \in Regs, ServeDrop(n) PROVE FixInv'
  <2>1. Finalizing /\ draft'[send.id] = "open" => draft[send.id] = "open"
    BY <1>9, ServeDropStep DEF Takes, Aborts, IInv, FinalInv, Finalizing
  <2>. QED
    BY <1>9, <1>d, <2>1, ServeDropStep DEF UnderWay
<1>10. ASSUME NEW n \in Regs, Dropped(n) PROVE FixInv'
  BY <1>10, <1>d, DroppedStep DEF UnderWay
<1>11. ASSUME NEW n \in Regs, ServeRemove(n) PROVE FixInv'
  <2>1. rm[n].draft \in Regs
    BY <1>11 DEF ServeRemove, Agreed, LinkInv
  <2>2. Finalizing /\ draft'[send.id] = "open" => draft[send.id] = "open"
    BY <1>11, <2>1, ServeRemoveStep DEF Takes, IInv, FinalInv, Finalizing
  <2>. QED
    BY <1>11, <1>d, <2>1, <2>2, ServeRemoveStep
<1>12. ASSUME NEW n \in Regs, Removed(n) PROVE FixInv'
  <2>1. CASE Finalizing
    BY <1>12, <1>b, <2>1, RemovedStep DEF UnderWay, RowsOf
  <2>2. CASE ~Finalizing
    BY <1>12, <2>2, RemovedStep DEF FixInv, Finalizing
  <2>. QED
    BY <2>1, <2>2
<1>13. ASSUME NEW n \in Regs, ServeComplete(n) \/ ImportEnds(n) PROVE FixInv'
  BY <1>13, <1>c, BytesStep DEF RowsOf, RowsKept
<1>14. ASSUME NEW n \in Regs, ServeShort(n) PROVE FixInv'
  BY <1>14, <1>a, <1>c, ServeShortStep DEF RowsOf, FixInv
<1>15. ASSUME Submit PROVE FixInv'
  BY <1>15, SubmitsStep DEF FixInv, Finalizing
<1>16. ASSUME TickResolves PROVE FixInv'
  <2> SUFFICES ASSUME Calm', draft'[send'.id] = "open" PROVE FixInv'
    BY DEF FixInv
  <2>1. /\ send.at = "armed" /\ ~send.cancel /\ Listed # {} /\ page = "open"
        /\ \A k \in Listed : files[k].state = "done"
        /\ send'.at = "post" /\ send'.id = send.id /\ send'.wanted = send.wanted
        /\ UNCHANGED <<reg, rm, draft, row>>
    BY <1>16, ResolveStep
  <2>2. Finalizing' /\ slips = {} /\ Plain
    BY <1>a, <2>1 DEF Finalizing, Calm
  <2>3. \A n \in Regs : rm[n].at # "post" /\ reg[n].at \in {"free", "end"}
    BY <1>16, ResolveStep DEF Calm
  <2>4. send.wanted = Listed
    BY <2>1, <2>2 DEF Agreed, AimInv
  <2>5. draftId = send.id /\ draftId # None /\ draft[draftId] = "open"
    BY <1>16, FinalizesAims, ResolveStep, <1>a, <2>1, <2>2, Numbers DEF IInv, FinalInv, Finalizing
  <2>6. Names1(send.id, send.wanted)
    BY <2>1, <2>2, <2>3, <2>4, <2>5, ListIsDraft
  <2>7. Names1(send.id, send.wanted)'
    BY <2>1, <2>6 DEF Names1, RowsOf
  <2>. QED
    BY <2>1, <2>3, <2>7 DEF FixInv, UnderWay
<1>17. ASSUME EditMetadata \/ TickRejects \/ SendFailed \/ PollTimesOut PROVE
          FixInv'
  BY <1>17, UnsendStep DEF FixInv, Finalizing
<1>18. ASSUME ServeFinalize PROVE FixInv'
  BY <1>18, <1>b, ServesFinalize DEF Finalizing, RowsOf, RowsKept, UnderWay
<1>19. ASSUME Sent \/ Leave PROVE FixInv'
  BY <1>19, <1>c, LeftStep DEF RowsOf, FixInv, Finalizing
<1>20. ASSUME ServeAbort PROVE FixInv'
  <2>1. leave.draft \in Regs
    BY <1>20 DEF ServeAbort, Agreed, LinkInv
  <2>2. ASSUME Finalizing, draft'[send.id] = "open"
        PROVE  draft[send.id] = "open" /\ RowsOf(send.id)' = RowsOf(send.id)
    <3>1. send.id \in Regs /\ send.id # leave.draft /\ draft[send.id] = "open"
      BY <1>20, <2>1, <2>2, ServeAbortStep DEF Aborts, IInv, FinalInv, Finalizing
    <3>2. \A m \in Regs : m \in RowsOf(send.id) \/ m \in RowsOf(send.id)' => row'[m] = row[m]
      BY <1>20, <2>1, <3>1, ServeAbortStep DEF Aborts, RowsOf
    <3>3. send' = send
      BY <1>20, <2>1, ServeAbortStep
    <3>. QED
      BY <3>1, <3>2, <3>3 DEF RowsOf
  <2>. QED
    BY <1>20, <1>c, <2>1, <2>2, ServeAbortStep
<1>21. ASSUME Loss PROVE FixInv'
  BY <1>21, LossStep DEF FixInv, Calm
<1>22. ASSUME (\E n \in Regs : PartsUp(n)) \/ (\E n \in Regs : PartsFail(n)) \/
          UNCHANGED vars PROVE FixInv'
  <2>1. UNCHANGED <<reg, rm, send, draft, row, slips>>
    BY <1>22 DEF PartsUp, PartsFail, vars, refs, server
  <2>. QED
    BY <2>1, Numbers, <1>a, <1>c DEF RowsOf
<1>. QED
  BY <1>1, <1>2, <1>3, <1>4, <1>5, <1>6, <1>7, <1>8, <1>9, <1>10, <1>11, <1>12,
      <1>13, <1>14, <1>15, <1>16, <1>17, <1>18, <1>19, <1>20, <1>21, <1>22 DEF
      Next, Answer, SendStep

\* Every step shares a draft so.
LEMMA ShareStep == ASSUME IInv, Agreed, [Next]_vars PROVE ShareMoves
<1>1. ASSUME NEW n \in Regs, NEW k \in Names, AddFile(n, k) PROVE ShareMoves
  BY <1>1, AddFileStep DEF Disarms, ShareMoves, AddMoves
<1>2. ASSUME NEW k \in Names, RemoveFile(k) PROVE ShareMoves
  BY <1>2, RemoveFileStep DEF Disarms, ShareMoves
<1>3. ASSUME (\E k \in Names : PumpStart(k)) \/ (\E n \in Regs : UploadSettled(n))
          \/ PollAgain PROVE ShareMoves
  BY <1>3, LabelStep, Numbers DEF IInv, Agreed, ShareMoves
<1>4. ASSUME NEW n \in Regs, ServeAdd(n) PROVE ShareMoves
  BY <1>4, ServeAddStep, ServerTyped DEF ShareMoves
<1>5. ASSUME NEW n \in Regs, ServeDrop(n) PROVE ShareMoves
  <2>1. \A d \in Regs : draft'[d] = draft[d] \/ draft'[d] = "gone"
    BY <1>5, ServeDropStep DEF Takes, Aborts
  <2>. QED
    BY <1>5, ServeDropStep, <2>1 DEF ShareMoves
<1>6. ASSUME NEW n \in Regs, ServeRemove(n) PROVE ShareMoves
  <2>1. rm[n].draft \in Regs
    BY <1>6 DEF ServeRemove, Agreed, LinkInv
  <2>2. \A d \in Regs : draft'[d] = draft[d] \/ draft'[d] = "gone"
    BY <1>6, <2>1, ServeRemoveStep DEF Takes
  <2>. QED
    BY <1>6, <2>1, ServeRemoveStep, <2>2 DEF ShareMoves
<1>7. ASSUME NEW n \in Regs, ServeComplete(n) \/ ImportEnds(n) PROVE ShareMoves
  BY <1>7, BytesStep, Numbers DEF IInv, Agreed, ShareMoves
<1>8. ASSUME NEW n \in Regs, ServeShort(n) PROVE ShareMoves
  <2>1. \A d \in Regs : draft'[d] = draft[d] \/ draft'[d] = "gone"
    BY <1>8, ServerTyped DEF ServeShort, AbortDraft, IInv
  <2>. QED
    BY <1>8, ServeShortStep, <2>1 DEF ShareMoves
<1>9. ASSUME Submit PROVE ShareMoves
  BY <1>9, SubmitsStep, Numbers DEF IInv, Agreed, ShareMoves
<1>10. ASSUME TickResolves PROVE ShareMoves
  BY <1>10, ResolveStep, Numbers DEF IInv, Agreed, ShareMoves
<1>11. ASSUME EditMetadata \/ TickRejects \/ SendFailed \/ PollTimesOut PROVE
          ShareMoves
  BY <1>11, UnsendStep, Numbers DEF IInv, Agreed, ShareMoves
<1>12. ASSUME ServeFinalize PROVE ShareMoves
  <2>1. /\ send'.answer = "sent" => draft[send.id] = "open" /\ draft'[send.id] = "sent"
        /\ \A d \in Regs : draft'[d] # draft[d] =>
             d = send.id /\ draft[d] = "open" /\ shared'[d].names = send.wanted
        /\ send.at = "post" /\ send'.id = send.id
    BY <1>12, ServesFinalize
  <2>2. \A d \in Regs : RowsOf(d)' = RowsOf(d)
    BY <1>12, ServesFinalize DEF RowsOf, RowsKept
  <2>. QED
    BY <2>1, <2>2 DEF ShareMoves, Finalizing
<1>13. ASSUME Sent \/ Leave PROVE ShareMoves
  BY <1>13, LeftStep, Numbers DEF IInv, Agreed, ShareMoves
<1>14. ASSUME ServeAbort PROVE ShareMoves
  <2>1. leave.draft \in Regs
    BY <1>14 DEF ServeAbort, Agreed, LinkInv
  <2>2. \A d \in Regs : draft'[d] = draft[d] \/ draft'[d] = "gone"
    BY <1>14, <2>1, ServeAbortStep DEF Aborts
  <2>. QED
    BY <1>14, <2>1, ServeAbortStep, <2>2 DEF ShareMoves
<1>15. ASSUME Loss PROVE ShareMoves
  BY <1>15, LossStep, Numbers DEF IInv, Agreed, ShareMoves
<1>16. ASSUME (\E n \in Regs : InitSettled(n)) \/ (\E n \in Regs : Minted(n)) \/
          (\E n \in Regs : Registered(n)) \/ (\E n \in Regs :
          RegistrationFailed(n)) \/ (\E n \in Regs : Dropped(n)) \/ (\E n \in Regs
          : Removed(n)) \/ (\E n \in Regs : PartsUp(n)) \/ (\E n \in Regs :
          PartsFail(n)) \/ UNCHANGED vars PROVE ShareMoves
  <2>1. UNCHANGED <<send, draft, row, shared>>
    BY <1>16 DEF InitSettled, Minted, Registered, RegistrationFailed, Dropped,
        Removed, PartsUp, PartsFail, vars, refs, server
  <2>. QED
    BY <2>1, Numbers DEF IInv, Agreed, ShareMoves
<1>. QED
  BY <1>1, <1>2, <1>3, <1>4, <1>5, <1>6, <1>7, <1>8, <1>9, <1>10, <1>11, <1>12,
      <1>13, <1>14, <1>15, <1>16 DEF Next, Answer, SendStep

\* A sent draft keeps its rows and what was shared.
LEMMA SentStays == ASSUME IInv, [Next]_vars, NEW d \in Regs, draft[d] = "sent"
                   PROVE  draft'[d] = "sent" /\ shared'[d] = shared[d] /\ RowsOf(d)' = RowsOf(d)
<1>1. draft'[d] = "sent" /\ shared'[d] = shared[d]
  BY DraftStep DEF DraftMoves
<1>2. ASSUME NEW m \in Regs PROVE m \in RowsOf(d)' <=> m \in RowsOf(d)
  BY <1>1, RowStep DEF RowMoves, RowsOf
<1>. QED
  BY <1>1, <1>2 DEF RowsOf

\* What was shared is what the send wanted.
LEMMA SentInvNext == IInv /\ Agreed /\ [Next]_vars => SentInv'
<1> SUFFICES ASSUME IInv, Agreed, [Next]_vars PROVE SentInv'
  OBVIOUS
<1>1. ShareMoves /\ SentInv /\ FixInv
  BY ShareStep DEF Agreed
<1>2. ASSUME send'.at = "reply", send'.answer = "sent" PROVE draft'[send'.id] = "sent"
  <2>1. CASE send' = send
    <3>1. send.id \in Regs /\ draft[send.id] = "sent"
      BY <1>1, <1>2, <2>1 DEF SentInv, IInv, FinalInv
    <3>. QED
      BY <2>1, <3>1, SentStays
  <2>. QED
    BY <1>1, <1>2, <2>1 DEF ShareMoves
<1>3. ASSUME Calm', NEW d \in Regs, draft'[d] = "sent" PROVE Names1(d, shared[d].names)'
  <2>1. Calm
    BY <1>3, SlipsStep DEF Calm
  <2>2. CASE draft[d] = "sent"
    <3>1. Names1(d, shared[d].names) /\ shared'[d] = shared[d] /\ RowsOf(d)' = RowsOf(d)
      BY <1>1, <2>1, <2>2, SentStays DEF SentInv
    <3>. QED
      BY <3>1, NamesKept DEF Names1
  <2>3. CASE draft[d] # "sent"
    <3>1. Names1(d, send.wanted) /\ shared'[d].names = send.wanted /\ RowsOf(d)' = RowsOf(d)
      BY <1>1, <1>3, <2>1, <2>3 DEF FixInv, ShareMoves
    <3>. QED
      BY <3>1, NamesKept DEF Names1
  <2>. QED
    BY <2>2, <2>3
<1>. QED
  BY <1>2, <1>3 DEF SentInv

\* Every step lets what is under way go on, or end, so.
LEMMA WayStep == ASSUME IInv, Agreed, [Next]_vars, NEW d \in Regs PROVE WayMoves(d)
<1>a. page = "left" => \A k \in Names : files[k].state = "absent"
  BY Types DEF IInv, Listed
<1>b. rm[d].at = "post" => rm[d].draft \in Regs
  BY DEF Agreed, LinkInv
<1>c. reg[d].at # "free" => reg[d].name \in Names
  BY DEF IInv, RegInv, RegOk
<1>1. ASSUME NEW n \in Regs, NEW k \in Names, AddFile(n, k) PROVE WayMoves(d)
  BY <1>1, AddFileStep DEF AddMoves, Start, WayMoves
<1>2. ASSUME NEW k \in Names, RemoveFile(k) PROVE WayMoves(d)
  BY <1>2, RemoveFileStep, Numbers, <1>a, <1>b, <1>c DEF WayMoves, UnderWay, Turns,
      DraftOf
<1>3. ASSUME (\E k \in Names : PumpStart(k)) \/ (\E n \in Regs : UploadSettled(n))
          \/ PollAgain PROVE WayMoves(d)
  BY <1>3, LabelStep DEF WayMoves, UnderWay
<1>4. ASSUME NEW n \in Regs, InitSettled(n) PROVE WayMoves(d)
  <2>1. page = "left" => files[reg[n].name].state = "absent"
    BY <1>4, <1>a, InitSettledStep DEF IInv, RegInv, RegOk
  <2>. QED
    BY <1>4, <2>1, InitSettledStep DEF WayMoves, UnderWay
<1>5. ASSUME NEW n \in Regs, Minted(n) PROVE WayMoves(d)
  BY <1>5, MintedStep, Numbers, <1>a, <1>b, <1>c DEF WayMoves, UnderWay, Turns,
      DraftOf
<1>6. ASSUME NEW n \in Regs, ServeAdd(n) PROVE WayMoves(d)
  <2>1. CASE d = n
    <3>1. draft'[d] = "open" /\ draft[d] # "open" => reg[d].known = None
      BY <1>6, <2>1, ServeAddStep DEF DraftOf
    <3>2. /\ reg[d].at = "post" /\ reg'[d].at = "reply" /\ reg'[d].known = reg[d].known
          /\ UNCHANGED <<page, rm>>
      BY <1>6, <2>1, ServeAddStep DEF Turns
    <3>. QED
      BY <3>1, <3>2 DEF WayMoves, UnderWay
  <2>2. CASE d # n
    <3>1. draft'[d] = "open" => draft[d] = "open"
      BY <1>6, <2>2, ServeAddStep DEF DraftOf
    <3>. QED
      BY <1>6, <2>2, <3>1, ServeAddStep DEF WayMoves, UnderWay, Turns
  <2>. QED
    BY <2>1, <2>2
<1>7. ASSUME NEW n \in Regs, Registered(n) PROVE WayMoves(d)
  BY <1>7, RegisteredStep, Numbers, <1>a, <1>b, <1>c DEF WayMoves, UnderWay, Turns,
      DraftOf
<1>8. ASSUME NEW n \in Regs, RegistrationFailed(n) PROVE WayMoves(d)
  BY <1>8, RegistrationFailedStep, Numbers, <1>a, <1>b, <1>c DEF WayMoves,
      UnderWay, Turns, DraftOf
<1>9. ASSUME NEW n \in Regs, ServeDrop(n) PROVE WayMoves(d)
  <2>1. draft'[d] = "open" => draft[d] = "open"
    BY <1>9, ServeDropStep DEF Takes, Aborts
  <2>. QED
    BY <1>9, <2>1, ServeDropStep DEF WayMoves, UnderWay, Turns
<1>10. ASSUME NEW n \in Regs, Dropped(n) PROVE WayMoves(d)
  BY <1>10, DroppedStep, Numbers, <1>a, <1>b, <1>c DEF WayMoves, UnderWay, Turns,
      DraftOf
<1>11. ASSUME NEW n \in Regs, ServeRemove(n) PROVE WayMoves(d)
  <2>1. rm[n].draft \in Regs
    BY <1>11 DEF ServeRemove, Agreed, LinkInv
  <2>. QED
    BY <1>11, <2>1, ServeRemoveStep DEF WayMoves, Takes, UnderWay
<1>12. ASSUME NEW n \in Regs, Removed(n) PROVE WayMoves(d)
  BY <1>12, RemovedStep, Numbers, <1>a, <1>b, <1>c DEF WayMoves, UnderWay, Turns,
      DraftOf
<1>13. ASSUME NEW n \in Regs, ServeShort(n) PROVE WayMoves(d)
  <2>1. draft'[d] = "open" => draft[d] = "open"
    BY <1>13, ServerTyped DEF ServeShort, AbortDraft, IInv
  <2>. QED
    BY <1>13, <2>1, ServeShortStep DEF WayMoves, UnderWay
<1>14. ASSUME TickResolves PROVE WayMoves(d)
  BY <1>14, ResolveStep, Numbers, <1>a, <1>b, <1>c DEF WayMoves, UnderWay, Turns,
      DraftOf
<1>15. ASSUME ServeFinalize PROVE WayMoves(d)
  <2>1. draft'[d] = "open" => draft[d] = "open"
    BY <1>15, ServesFinalize
  <2>. QED
    BY <1>15, <2>1, ServesFinalize DEF WayMoves, UnderWay
<1>16. ASSUME ServeAbort PROVE WayMoves(d)
  <2>1. leave.draft \in Regs
    BY <1>16 DEF ServeAbort, Agreed, LinkInv
  <2>. QED
    BY <1>16, <2>1, ServeAbortStep DEF WayMoves, Aborts, UnderWay
<1>17. ASSUME Loss PROVE WayMoves(d)
  <2>1. /\ UnderWay(d)' => UnderWay(d) /\ reg'[d].known = reg[d].known
        /\ reg'[d].at = "dropped" => reg[d].at = "dropped"
    <3>1. ASSUME NEW n \in Regs, LoseRegistration(n)
          PROVE  /\ UnderWay(d)' => UnderWay(d) /\ reg'[d].known = reg[d].known
                 /\ reg'[d].at = "dropped" => reg[d].at = "dropped"
      BY <3>1, RegTyped DEF LoseRegistration, UnderWay, IInv, RegRecs
    <3>2. (\E n \in Regs : LoseRegistration(n)) \/ reg' = reg
      BY <1>17 DEF Loss, LoseUpload, LoseRemoval, LoseFinalize, LoseAbort
    <3>. QED
      BY <3>1, <3>2 DEF UnderWay
  <2>. QED
    BY <1>17, LossStep, <2>1 DEF WayMoves
<1>18. ASSUME (\E n \in Regs : ServeComplete(n)) \/ (\E n \in Regs : ImportEnds(n))
          \/ (\E n \in Regs : PartsUp(n)) \/ (\E n \in Regs : PartsFail(n)) \/
          Submit \/ EditMetadata \/ TickRejects \/ SendFailed \/ PollTimesOut \/
          Sent \/ Leave \/ UNCHANGED vars PROVE WayMoves(d)
  <2>1. UNCHANGED <<reg, rm, draft, slips>>
    BY <1>18 DEF ServeComplete, ImportEnds, PartsUp, PartsFail, Submit,
        EditMetadata, TickRejects, SendFailed, PollTimesOut, Sent, Leave, vars,
        refs, server
  <2>. QED
    BY <2>1, Numbers, <1>a, <1>b, <1>c DEF WayMoves, UnderWay, Turns, DraftOf
<1>. QED
  BY <1>1, <1>2, <1>3, <1>4, <1>5, <1>6, <1>7, <1>8, <1>9, <1>10, <1>11, <1>12,
      <1>13, <1>14, <1>15, <1>16, <1>17, <1>18 DEF Next, Answer, SendStep

\* Every step moves the page so.
LEMMA PageStep == ASSUME IInv, Agreed, [Next]_vars PROVE PageMoves
<1>1. ASSUME NEW n \in Regs, NEW k \in Names, AddFile(n, k) PROVE PageMoves
  BY <1>1, AddFileStep DEF AddMoves, PageMoves
<1>2. ASSUME NEW n \in Regs, Registered(n) PROVE PageMoves
  BY <1>2, RegisteredStep, Numbers DEF IInv, Agreed, PageMoves
<1>3. ASSUME NEW n \in Regs, Dropped(n) PROVE PageMoves
  BY <1>3, DroppedStep, Numbers DEF IInv, Agreed, PageMoves
<1>4. ASSUME NEW n \in Regs, Removed(n) PROVE PageMoves
  <2>1. \A m \in Regs : rm[m].at = "post" => rm'[m].at = "post"
    BY <1>4, RemovedStep
  <2>. QED
    BY <1>4, <2>1, RemovedStep DEF PageMoves
<1>5. ASSUME NEW n \in Regs, ServeShort(n) PROVE PageMoves
  BY <1>5, ServeShortStep, Numbers DEF IInv, Agreed, PageMoves
<1>6. ASSUME TickResolves PROVE PageMoves
  BY <1>6, ResolveStep, Numbers DEF IInv, Agreed, PageMoves
<1>7. ASSUME Sent \/ Leave PROVE PageMoves
  <2>1. page = "open" => leave.at # "post"
    BY DEF Agreed, LinkInv
  <2>. QED
    BY <1>7, <2>1, LeftStep DEF PageMoves
<1>8. ASSUME ServeAbort PROVE PageMoves
  <2>1. leave.draft \in Regs
    BY <1>8 DEF ServeAbort, Agreed, LinkInv
  <2>. QED
    BY <1>8, <2>1, ServeAbortStep DEF PageMoves
<1>9. ASSUME Loss PROVE PageMoves
  BY <1>9, LossStep, Numbers DEF IInv, Agreed, PageMoves
<1>10. ASSUME (\E k \in Names : RemoveFile(k)) \/ (\E k \in Names : PumpStart(k))
          \/ (\E n \in Regs : UploadSettled(n)) \/ PollAgain \/ (\E n \in Regs :
          InitSettled(n)) \/ (\E n \in Regs : Minted(n)) \/ (\E n \in Regs :
          ServeAdd(n)) \/ (\E n \in Regs : RegistrationFailed(n)) \/ (\E n \in Regs
          : ServeDrop(n)) \/ (\E n \in Regs : ServeRemove(n)) \/ (\E n \in Regs :
          ServeComplete(n)) \/ (\E n \in Regs : ImportEnds(n)) \/ (\E n \in Regs :
          PartsUp(n)) \/ (\E n \in Regs : PartsFail(n)) \/ Submit \/ EditMetadata
          \/ TickRejects \/ SendFailed \/ PollTimesOut \/ ServeFinalize \/
          UNCHANGED vars PROVE PageMoves
  <2>1. UNCHANGED <<page, draftId, leave, slips>>
    BY <1>10 DEF RemoveFile, PumpStart, UploadSettled, PollAgain, InitSettled,
        Minted, ServeAdd, RegistrationFailed, ServeDrop, ServeRemove,
        ServeComplete, ImportEnds, PartsUp, PartsFail, Submit, EditMetadata,
        TickRejects, SendFailed, PollTimesOut, ServeFinalize, vars, refs, server
  <2>. QED
    BY <2>1, Numbers DEF IInv, Agreed, PageMoves
<1>. QED
  BY <1>1, <1>2, <1>3, <1>4, <1>5, <1>6, <1>7, <1>8, <1>9, <1>10 DEF Next, Answer,
      SendStep

\* A draft that is open has a row.
LEMMA OpenRows == 
    ASSUME IInv, Agreed, [Next]_vars, NEW d \in Regs, draft'[d] = "open" PROVE RowsOf(d)' # {}
<1>a. draft[d] = "open" => \E m \in Regs : m \in RowsOf(d)
  BY DEF Agreed, OpenInv, RowsOf
<1>b. ASSUME NEW e \in Regs, NEW n \in Regs, Takes(e, n) PROVE RowsOf(d)' # {}
  <2>1. draft[d] = "open" /\ (d = e /\ HasRow(e, n) => RowsOf(d) # {n})
    BY <1>b DEF Takes
  <2>2. PICK m \in Regs : m \in RowsOf(d) /\ (d = e /\ HasRow(e, n) => m # n)
    BY <1>a, <2>1 DEF RowsOf
  <2>3. row'[m] = row[m]
    BY <1>b, <2>1, <2>2 DEF Takes, HasRow, RowsOf
  <2>. QED
    BY <2>2, <2>3 DEF RowsOf
<1>c. ASSUME NEW e \in Regs, Aborts(e) PROVE RowsOf(d)' # {}
  <2>1. draft[d] = "open" /\ (d = e => draft[e] # "open")
    BY <1>c DEF Aborts
  <2>2. PICK m \in Regs : m \in RowsOf(d)
    BY <1>a, <2>1
  <2>3. row'[m] = row[m]
    BY <1>c, <2>1, <2>2 DEF Aborts, RowsOf
  <2>. QED
    BY <2>2, <2>3 DEF RowsOf
<1>1. ASSUME NEW n \in Regs, ServeAdd(n) PROVE RowsOf(d)' # {}
  <2>1. CASE reg'[n].ok /\ DraftOf(n) = d
    BY <1>1, <2>1, ServeAddStep DEF RowsOf
  <2>2. CASE ~(reg'[n].ok /\ DraftOf(n) = d)
    <3>1. draft[d] = "open" /\ \A m \in RowsOf(d) : row'[m] = row[m]
      BY <1>1, <2>2, ServeAddStep DEF RowsOf, IInv, RowInv, Served
    <3>. QED
      BY <1>a, <3>1 DEF RowsOf
  <2>. QED
    BY <2>1, <2>2
<1>2. ASSUME NEW n \in Regs, ServeDrop(n) PROVE RowsOf(d)' # {}
  BY <1>2, <1>b, <1>c, ServeDropStep
<1>3. ASSUME NEW n \in Regs, ServeRemove(n) PROVE RowsOf(d)' # {}
  <2>1. rm[n].draft \in Regs
    BY <1>3 DEF ServeRemove, Agreed, LinkInv
  <2>. QED
    BY <1>3, <2>1, <1>b, ServeRemoveStep
<1>4. ASSUME NEW n \in Regs, ServeComplete(n) \/ ImportEnds(n) PROVE RowsOf(d)' #
          {}
  BY <1>4, <1>a, BytesStep DEF RowsOf, RowsKept
<1>5. ASSUME NEW n \in Regs, ServeShort(n) PROVE RowsOf(d)' # {}
  BY <1>5, <1>a, <1>c, ServeShortStep DEF RowsOf
<1>6. ASSUME ServeFinalize PROVE RowsOf(d)' # {}
  <2>1. draft[d] = "open"
    BY <1>6, ServesFinalize
  <2>. QED
    BY <1>6, <1>a, <2>1, ServesFinalize DEF RowsOf, RowsKept
<1>7. ASSUME ServeAbort PROVE RowsOf(d)' # {}
  <2>1. leave.draft \in Regs
    BY <1>7 DEF ServeAbort, Agreed, LinkInv
  <2>. QED
    BY <1>7, <2>1, <1>c, ServeAbortStep
<1>8. ASSUME (\E n \in Regs, k \in Names : AddFile(n, k)) \/ (\E k \in Names :
          RemoveFile(k)) \/ (\E k \in Names : PumpStart(k)) \/ (\E n \in Regs :
          UploadSettled(n)) \/ PollAgain \/ (\E n \in Regs : InitSettled(n)) \/ (\E
          n \in Regs : Minted(n)) \/ (\E n \in Regs : Registered(n)) \/ (\E n \in
          Regs : RegistrationFailed(n)) \/ (\E n \in Regs : Dropped(n)) \/ (\E n
          \in Regs : Removed(n)) \/ (\E n \in Regs : PartsUp(n)) \/ (\E n \in Regs
          : PartsFail(n)) \/ Submit \/ TickResolves \/ EditMetadata \/ TickRejects
          \/ SendFailed \/ PollTimesOut \/ Sent \/ Leave \/ Loss \/ UNCHANGED vars
          PROVE RowsOf(d)' # {}
  <2>1. UNCHANGED <<draft, row>>
    BY <1>8 DEF AddFile, RemoveFile, PumpStart, UploadSettled, PollAgain,
        InitSettled, Minted, Registered, RegistrationFailed, Dropped, Removed,
        PartsUp, PartsFail, Submit, TickResolves, EditMetadata, TickRejects,
        SendFailed, PollTimesOut, Sent, Leave, Loss, vars, refs, server, Fault,
        LoseRegistration, LoseUpload, LoseRemoval, LoseFinalize, LoseAbort
  <2>. QED
    BY <2>1, Numbers, <1>a DEF RowsOf
<1>. QED
  BY <1>1, <1>2, <1>3, <1>4, <1>5, <1>6, <1>7, <1>8 DEF Next, Answer, SendStep

\* A draft whose rows are all being removed gets none, unless one is on its way.
LEMMA OustedStays == ASSUME IInv, Agreed, [Next]_vars, Plain', NEW d \in Regs,
                            draft[d] = "open", draft'[d] = "open", Ousted(d),
                            \A n \in Regs : reg[n].known = d => ~UnderWay(n)
                     PROVE  Ousted(d)'
<1>1. Plain /\ "lost" \notin slips' /\ "short" \notin slips'
  BY SlipsStep DEF Plain
<1>2. ASSUME NEW m \in Regs, m \in RowsOf(d)' PROVE m \in RowsOf(d)
  <2>1. reg[m].at = "post" => DraftOf(m) # d
    BY DEF DraftOf, UnderWay, IInv, DraftInv, Served
  <2>2. RowMoves(m)
    BY RowStep
  <2>. QED
    BY <1>2, <2>1, <2>2 DEF RowMoves, RowsOf
<1>3. ASSUME NEW m \in RowsOf(d)' PROVE rm'[m].at = "post"
  <2>1. m \in Regs /\ m \in RowsOf(d) /\ rm[m].at = "post" /\ row'[m].state # "gone"
    BY <1>2, <1>3 DEF RowsOf, Ousted
  <2>2. rm[m].draft = d /\ HasRow(d, m)
    BY <1>1, <2>1 DEF Agreed, AgreeInv, RowsOf, HasRow
  <2>. QED
    BY <1>1, <2>1, <2>2, WayStep DEF WayMoves, Takes
<1>. QED
  BY <1>3 DEF Ousted

\* The first registration of an open draft was not refused.
LEMMA FirstIsOk == ASSUME IInv, Agreed, Plain, NEW d \in Regs, draft[d] = "open",
                          reg[d].known = None, reg[d].at = "reply"
                   PROVE  reg[d].ok
<1> SUFFICES ASSUME ~reg[d].ok PROVE FALSE
  OBVIOUS
<1>1. PICK m \in Regs : m \in RowsOf(d)
  BY DEF Agreed, OpenInv, RowsOf
<1>2. m # d /\ DraftOf(m) = d
  BY <1>1 DEF Agreed, AgreeInv, RowsOf, IInv, RowInv
<1>3. reg[m].known = d
  BY <1>2 DEF DraftOf
<1>. QED
  BY <1>3, JoinedEnded, Numbers

\* The draft of a file that was dropped is not open.
LEMMA DroppedIsGone == ASSUME IInv, Agreed, [Next]_vars, Plain', NEW d \in Regs, draft'[d] = "open",
                              reg'[d].known = None, reg'[d].at = "dropped"
                       PROVE  FALSE
<1>1. Plain /\ WayMoves(d)
  BY SlipsStep, WayStep DEF Plain
<1>2. reg[d].known = None /\ draft[d] = "open"
  <2>1. draft[d] = "open"
    BY <1>1 DEF WayMoves
  <2>2. reg[d].at \in Served
    BY <2>1 DEF IInv, DraftInv
  <2>. QED
    BY <2>1, <2>2, RegStep DEF RegMoves, Served
<1>3. reg[d].at # "dropped"
  BY <1>1, <1>2 DEF Agreed, OpenInv
<1>. QED
  BY <1>1, <1>2, <1>3 DEF WayMoves, Aborts

\* While the page is open, another draft that is open is on its way out, or in.
LEMMA OpenHere == ASSUME IInv, Agreed, [Next]_vars, Plain', NEW d \in Regs, draft'[d] = "open",
                         page' = "open", d # draftId'
                  PROVE  Ousted(d)' \/ (reg'[d].known = None /\ reg'[d].at = "reply")
<1>1. /\ Plain /\ page = "open" /\ WayMoves(d) /\ RegMoves(d) /\ RefMoves /\ PageMoves
      /\ "lost" \notin slips' /\ "wiped" \notin slips' /\ draftId \in Ids
  BY SlipsStep, WayStep, RegStep, RefStep, PageStep, RefsTyped DEF Plain, IInv
<1>2. CASE draft[d] # "open"
  BY <1>1, <1>2 DEF WayMoves
<1>3. CASE draft[d] = "open" /\ d # draftId
  <2>1. CASE Ousted(d)
    <3>1. \A n \in Regs : reg[n].known = d => ~UnderWay(n)
      BY <1>1, <1>3, Numbers DEF Agreed, BaseInv, BaseOk
    <3>. QED
      BY <1>3, <2>1, <3>1, OustedStays
  <2>2. CASE reg[d].known = None /\ reg[d].at = "reply"
    <3>1. reg[d].ok /\ draftId = None /\ DraftOf(d) = d
      BY <1>1, <1>3, <2>2, FirstIsOk DEF Agreed, BaseInv, BaseOk, DraftOf
    <3>. QED
      BY <1>1, <2>2, <3>1 DEF WayMoves, RegMoves
  <2>. QED
    BY <1>1, <1>3, <2>1, <2>2 DEF Agreed, OpenInv
<1>4. CASE draft[d] = "open" /\ d = draftId
  <2>1. draftId # None /\ draftId' # draftId
    BY <1>4, Numbers
  <2>2. ASSUME NEW n \in Regs, reg[n].at = "dropped", reg[n].known = None PROVE FALSE
    <3>1. n = d
      BY <1>1, <1>4, <2>2 DEF Agreed, BaseInv, BaseOk
    <3>. QED
      BY <1>1, <1>4, <2>2, <3>1 DEF Agreed, OpenInv
  <2>3. /\ Listed = {} /\ row' = row
        /\ \A m \in Regs : /\ reg[m].at \in {"free", "end"}
                           /\ rm[m].at = "post" => rm'[m].at = "post"
    BY <1>1, <2>1, <2>2 DEF PageMoves
  <2>4. ASSUME NEW m \in RowsOf(d) PROVE rm'[m].at = "post"
    <3>1. m \in Regs /\ HasRow(draftId, m) /\ draftId # None
      BY <1>4, <2>1, <2>4 DEF RowsOf, HasRow
    <3>2. ASSUME NEW k \in Names, files[k].row = m PROVE FALSE
      <4>1. files[k].state = "absent"
        BY <2>3 DEF Listed
      <4>. QED
        BY <3>1, <3>2, <4>1, Numbers DEF IInv, FileInv
    <3>. QED
      BY <1>1, <2>3, <3>1, <3>2 DEF Agreed, AgreeInv, Shown
  <2>. QED
    BY <2>3, <2>4 DEF Ousted, RowsOf
<1>. QED
  BY <1>2, <1>3, <1>4

\* Once the page is left, an open draft is on its way out.
LEMMA OpenLeft == ASSUME IInv, Agreed, [Next]_vars, Plain', NEW d \in Regs, draft'[d] = "open",
                         page' = "left"
                  PROVE  /\ \/ Aborting(d)' \/ Ousted(d)'
                            \/ reg'[d].known = None /\ reg'[d].at \in {"reply", "drop"}
                         /\ \A n \in Regs : UnderWay(n)' /\ reg'[n].known = d => Aborting(d)'
<1>1. /\ Plain /\ WayMoves(d) /\ RegMoves(d) /\ PageMoves /\ draftId \in Ids
      /\ "lost" \notin slips' /\ page \in {"open", "left"}
  BY SlipsStep, WayStep, RegStep, PageStep, RefsTyped, Types DEF Plain, IInv
<1>2. CASE draft[d] # "open"
  <2>1. reg[d].at = "post" /\ reg'[d].known = None /\ reg'[d].at = "reply"
    BY <1>1, <1>2 DEF WayMoves
  <2>2. ASSUME NEW n \in Regs, reg'[n].known = d PROVE FALSE
    BY <2>1, <2>2, JoinInvNext, Numbers DEF JoinInv, Settled, Served
  <2>. QED
    BY <2>1, <2>2
<1>3. CASE draft[d] = "open" /\ page = "open"
  <2>1. UNCHANGED <<reg, rm, draft, row, slips>>
    BY <1>1, <1>3 DEF PageMoves
  <2>2. CASE d = draftId
    <3>1. ~(send.at = "reply" /\ send.answer = "sent")
      BY <1>1, <1>3, <2>2 DEF Agreed, AimInv, SentInv, Finalizing
    <3>2. leave'.at = "post" /\ leave'.draft = d
      BY <1>1, <1>3, <2>2, <3>1, Numbers DEF PageMoves
    <3>. QED
      BY <3>2 DEF Aborting
  <2>3. CASE d # draftId
    <3>1. Ousted(d) \/ (reg[d].known = None /\ reg[d].at = "reply")
      BY <1>1, <1>3, <2>3 DEF Agreed, OpenInv
    <3>2. Ousted(d) => Ousted(d)'
      BY <2>1 DEF Ousted, RowsOf
    <3>3. ASSUME NEW n \in Regs, UnderWay(n)', reg'[n].known = d PROVE FALSE
      <4>1. UnderWay(n) /\ reg[n].known = d
        BY <2>1, <3>3 DEF UnderWay
      <4>. QED
        BY <1>1, <1>3, <2>3, <4>1, Numbers DEF Agreed, BaseInv, BaseOk
    <3>. QED
      BY <2>1, <3>1, <3>2, <3>3
  <2>. QED
    BY <2>2, <2>3
<1>4. CASE draft[d] = "open" /\ page = "left"
  <2>1. Aborting(d) => Aborting(d)'
    BY <1>1, <1>4 DEF Aborting, PageMoves, Aborts
  <2>2. ASSUME NEW n \in Regs, UnderWay(n)', reg'[n].known = d PROVE Aborting(d)'
    <3>1. UnderWay(n) /\ reg[n].known = d
      BY <1>4, <2>2, WayStep DEF WayMoves
    <3>. QED
      BY <1>1, <1>4, <2>1, <3>1 DEF Agreed, OpenInv
  <2>3. CASE Aborting(d)
    BY <2>1, <2>2, <2>3
  <2>4. CASE Ousted(d) /\ ~Aborting(d)
    <3>1. \A n \in Regs : reg[n].known = d => ~UnderWay(n)
      BY <1>1, <1>4, <2>4 DEF Agreed, OpenInv
    <3>. QED
      BY <1>4, <2>2, <2>4, <3>1, OustedStays
  <2>5. CASE reg[d].known = None /\ reg[d].at = "reply"
    BY <1>1, <1>4, <2>2, <2>5, FirstIsOk DEF WayMoves, RegMoves
  <2>6. CASE reg[d].known = None /\ reg[d].at = "drop"
    BY <1>1, <1>4, <2>2, <2>6 DEF WayMoves, RegMoves, Aborts
  <2>. QED
    BY <1>1, <1>4, <2>3, <2>4, <2>5, <2>6 DEF Agreed, OpenInv
<1>. QED
  BY <1>1, <1>2, <1>3, <1>4

\* A draft that is open is the page's, or is on its way in or out.
LEMMA OpenInvNext == IInv /\ Agreed /\ [Next]_vars => OpenInv'
<1> SUFFICES ASSUME IInv, Agreed, [Next]_vars PROVE OpenInv'
  OBVIOUS
<1>1. \A d \in Regs : draft'[d] = "open" => RowsOf(d)' # {}
  BY OpenRows
<1>2. ASSUME Plain', NEW d \in Regs, draft'[d] = "open"
      PROVE  ~(reg'[d].known = None /\ reg'[d].at = "dropped")
  BY <1>2, DroppedIsGone
<1>. QED
  BY <1>1, <1>2, OpenHere, OpenLeft DEF OpenInv

-----------------------------------------------------------------------------
(* The theorems. *)

\* At the start nothing is listed, under way or kept.
LEMMA InitAgreed == Init => Agreed
<1> SUFFICES ASSUME Init PROVE Agreed
  OBVIOUS
<1>1. LinkInv /\ JoinInv /\ AliasInv
  BY DEF Init, Absent, NoUpload, NoSend, NoCall, LinkInv, JoinInv, AliasInv, UnderWay, Moving
<1>2. LandInv
  BY NoneAssumption DEF Init, Absent, NoUpload, LandInv
<1>3. BaseInv /\ AimInv
  BY DEF Init, NoSend, BaseInv, FirstOk, BaseOk, UnderWay, AimInv, Finalizing
<1>4. AgreeInv
  BY Numbers DEF Init, Absent, NoCall, AgreeInv, Shown
<1>5. FixInv /\ SentInv /\ OpenInv
  BY DEF Init, NoSend, FixInv, SentInv, OpenInv, Finalizing
<1>. QED
  BY <1>1, <1>2, <1>3, <1>4, <1>5 DEF Agreed

\* The list and the server agree, up to what slipped, in every state.
THEOREM ListInductive == Spec => [](IInv /\ Agreed)
<1>1. IInv /\ Agreed /\ [Next]_vars => Agreed'
  BY LinkInvNext, JoinInvNext, AliasInvNext, LandInvNext, BaseInvNext, AgreeInvNext,
     AimInvNext, FixInvNext, SentInvNext, OpenInvNext DEF Agreed
<1>2. Spec => []IInv
  BY Inductive
<1>. QED
  BY InitAgreed, <1>1, <1>2, PTL DEF Spec

\* A browser file shown as done has its bytes on its own row at the server,
\* however rows, uploaders and answers of removed and re-added files race.
THEOREM DoneLanded == Spec => []DoneIsLanded
<1>1. IInv /\ Agreed => DoneIsLanded
  <2> SUFFICES ASSUME IInv, Agreed, slips \cap {"aliased", "joined", "short"} = {},
                      NEW k \in Locals, files[k].state = "done"
               PROVE  files[k].row \in Regs /\ row[files[k].row].state \in {"landed", "sent"}
    BY DEF DoneIsLanded
  <2>1. k \in Names /\ files[k].row \in Ids
    BY FilesTyped DEF Names, IInv, FileRecs
  <2>2. files[k].row \in Regs
    BY <2>1 DEF Agreed, AliasInv, Ids
  <2>3. reg[files[k].row].name = k
    BY <2>1, <2>2, Numbers DEF Agreed, LinkInv
  <2>. QED
    BY <2>1, <2>2, <2>3 DEF Agreed, LandInv, Shown
<1>. QED
  BY ListInductive, <1>1, PTL

\* Names that stand for rows one by one are as many as the rows.
LEMMA NamesCount == ASSUME NEW d \in Regs, NEW ns, Names1(d, ns)
                    PROVE  Cardinality(ns) = Cardinality(RowsOf(d))
<1> DEFINE f == [n \in RowsOf(d) |-> reg[n].name]
<1>1. IsFiniteSet(RowsOf(d))
  <2>1. IsFiniteSet(Regs)
    BY FS_Interval, BoundsAssumption DEF Regs
  <2>2. RowsOf(d) \subseteq Regs
    BY DEF RowsOf
  <2>. QED
    BY <2>1, <2>2, FS_Subset
<1>2. f \in Injection(RowsOf(d), ns) /\ f \in Surjection(RowsOf(d), ns)
  BY DEF Names1, Injection, Surjection, IsInjective
<1>3. ExistsBijection(RowsOf(d), ns)
  BY <1>2 DEF ExistsBijection, Bijection
<1>. QED
  BY <1>1, <1>3, FS_Bijection

\* What is shared is what the sender saw when they clicked Send, each file
\* once (addFile, removeFile, registerFile, submit).
THEOREM Listing == Spec => []SentAsListed
<1>1. IInv /\ Agreed => SentAsListed
  <2> SUFFICES ASSUME Agreed, slips = {}, NEW d \in Regs, draft[d] = "sent"
               PROVE  /\ shared[d].names = {reg[n].name : n \in RowsOf(d)}
                      /\ Cardinality(shared[d].names) = Cardinality(RowsOf(d))
    BY DEF SentAsListed
  <2>1. Names1(d, shared[d].names)
    BY DEF Agreed, SentInv, Calm
  <2>2. shared[d].names = {reg[n].name : n \in RowsOf(d)}
    BY <2>1 DEF Names1
  <2>. QED
    BY <2>1, <2>2, NamesCount
<1>. QED
  BY ListInductive, <1>1, PTL

\* Once nothing is under way, the only open draft is the page's, with the rows
\* the list shows; a page that was left leaves none behind.
THEOREM QuietAgreement == Spec => []QuietIsAgreed
<1>1. IInv /\ Agreed => QuietIsAgreed
  <2> SUFFICES ASSUME IInv, Agreed, Plain, Quiet, NEW d \in Regs, draft[d] = "open"
               PROVE  d = draftId /\ RowsOf(d) = {files[k].row : k \in Listed} \ {None}
    BY DEF QuietIsAgreed, Plain
  <2>1. page \in {"open", "left"}
    BY Types DEF IInv
  <2>2. ~Ousted(d)
    BY DEF Agreed, OpenInv, Ousted, Quiet, RowsOf
  <2>3. page = "open" /\ d = draftId
    BY <2>1, <2>2 DEF Agreed, OpenInv, Quiet, Aborting
  <2>4. ASSUME NEW n \in RowsOf(d) PROVE n \in {files[k].row : k \in Listed} \ {None}
    <3>1. n \in Regs /\ HasRow(draftId, n) /\ draftId # None
      BY <2>3, <2>4, Numbers DEF RowsOf, HasRow
    <3>2. Shown(n)
      BY <2>3, <3>1 DEF Agreed, AgreeInv, Quiet
    <3>3. PICK k \in Names : files[k].row = n
      BY <3>2 DEF Shown
    <3>4. k \in Listed
      BY <3>1, <3>3, Numbers DEF Listed, IInv, FileInv
    <3>. QED
      BY <3>1, <3>3, <3>4, Numbers
  <2>5. ASSUME NEW n \in {files[k].row : k \in Listed} \ {None} PROVE n \in RowsOf(d)
    <3>1. PICK k \in Names : files[k].row = n
      BY <2>5 DEF Listed
    <3>2. n \in Regs
      BY <2>5, <3>1, FilesTyped DEF IInv, FileRecs, Ids
    <3>. QED
      BY <2>3, <3>1, <3>2 DEF Agreed, AgreeInv, Shown, RowsOf
  <2>. QED
    BY <2>3, <2>4, <2>5
<1>. QED
  BY ListInductive, <1>1, PTL
=============================================================================
