------------------------------ MODULE DraftClient ------------------------------
(***************************************************************************)
(* The sender's page (useTransferDraft.ts, TransferForm.tsx) against the   *)
(* draft API it talks to.                                                  *)
(*                                                                         *)
(* The page keeps its truth in refs (the draft id, the promise of the      *)
(* first registration, the key, the list of files, the uploader that is    *)
(* running) that every callback reads when it resumes.  Each registration, *)
(* upload, removal and send is a conversation of its own: the request is   *)
(* sent, the server applies it, the answer is handled, and the user may    *)
(* act, or leave, in between.                                              *)
(*                                                                         *)
(* A registration, the row it creates, the uploader of that row and, for a *)
(* first registration, the draft and the key it brings, share one number.  *)
(***************************************************************************)
EXTENDS Integers, FiniteSets

CONSTANTS
    Locals,     \* names of the browser files (name, size and date)
    Drives,     \* permalinks of the Drive files
    MaxAdds,    \* registrations the user starts
    MaxDrops,   \* of the files added, how many may be off the list again
    MaxSends,   \* clicks on Send
    MaxFaults,  \* requests that fail on the network
    None        \* no draft, no row, no key: null in the code

ASSUME NamesAssumption == Locals \cap Drives = {} /\ IsFiniteSet(Locals \cup Drives)
ASSUME BoundsAssumption == {MaxAdds, MaxDrops, MaxSends, MaxFaults} \subseteq Nat
ASSUME NoneAssumption == None \notin Nat \cup Locals \cup Drives

Names == Locals \cup Drives
Regs  == 1 .. MaxAdds
Ids   == Regs \cup {None}

FileStates == {"absent", "registering", "registered", "uploading",
               "importing", "done", "error"}
RegStates  == {"free", "wait", "mint", "post", "reply", "drop", "dropped", "end"}
UpStates   == {"none", "parts", "complete", "short", "reply", "end"}
CallStates == {"none", "post", "reply", "end"}
SendStates == {"idle", "armed", "post", "reply"}
RowStates  == {"none", "open", "importing", "failed", "landed", "gone", "sent"}
Answers    == {"none", "importing", "scanning", "sent", "refused"}

\* The ways the code lets the page and the server part; a property names
\* those it does not survive.
\*   lost       a request or its answer was lost
\*   aliased    a file was added again while its earlier self was under way
\*   joined     a file joined a draft that its first file's cleanup deletes
\*   wiped      the last file's removal dropped what was added meanwhile
\*   late       a file was added while the send was being finalized
\*   overtaken  the send left before a removal, or a cleanup, was applied
\*   short      an aborted upload was completed with the parts it had, and
\*              the server dropped the whole draft
Slips == {"lost", "aliased", "joined", "wiped", "late", "overtaken", "short"}

VARIABLES
    page,       \* "open" while the form is mounted, then "left"
    files,      \* filesRef: per name its state and the row behind it
    draftId,    \* draftIdRef
    initP,      \* draftInitPromiseRef: the registration it promises
    key,        \* encryptionKeyRef and keyFragmentRef: who minted it
    pump,       \* currentUploaderRef
    reg,        \* registerFile calls
    up,         \* uploaders
    rm,         \* remove-file calls of removeFile
    leave,      \* the abort call of abortDraft
    send,       \* the submit call
    draft,      \* server: per draft "none", "open", "gone" or "sent"
    row,        \* server: per row its state, draft and the key of its bytes
    parked,     \* server: the key parked on a draft
    faults,     \* requests that failed so far
    slips,      \* history: the slips that happened
    shared      \* history: per draft, what the sender meant to share when the server did

refs   == <<draftId, initP, key, pump>>
server == <<draft, row, parked>>
vars   == <<page, files, refs, reg, up, rm, leave, send, server, faults, slips, shared>>

Listed        == {k \in Names : files[k].state # "absent"}
Absent        == [state |-> "absent", row |-> None]
Finalizing    == send.at \in {"post", "reply"}
DraftOf(n)    == IF reg[n].known = None THEN n ELSE reg[n].known
RowsOf(d)     == {n \in Regs : row[n].draft = d /\ row[n].state \notin {"none", "gone"}}
HasRow(d, n)  == n \in RowsOf(d) /\ draft[d] = "open"

M_PatchUpserts(fs, k, patch) == [fs EXCEPT ![k] = patch]

\* updateFile: a patch to the file of that name, if it is still listed.
Patch(fs, k, patch) == IF fs[k].state = "absent" THEN fs ELSE [fs EXCEPT ![k] = patch]
Mark(fs, k, s) == Patch(fs, k, [fs[k] EXCEPT !.state = s])

NoUpload == [at |-> "none", enc |-> None, draft |-> None, aborted |-> FALSE, ok |-> FALSE]
NoSend   == [at |-> "idle", id |-> None, carried |-> None, posted |-> None,
             confidential |-> FALSE, cancel |-> FALSE, answer |-> "none", n |-> 0,
             wanted |-> {}, pending |-> {}]
NoCall   == [at |-> "none", draft |-> None, last |-> FALSE]

Init ==
    /\ page = "open"
    /\ files = [k \in Names |-> Absent]
    /\ draftId = None /\ initP = None /\ key = None /\ pump = None
    /\ reg = [n \in Regs |-> [at |-> "free", name |-> None, known |-> None,
                              awaits |-> None, ok |-> FALSE]]
    /\ up = [n \in Regs |-> NoUpload]
    /\ rm = [n \in Regs |-> NoCall]
    /\ leave = NoCall
    /\ send = NoSend
    /\ draft = [n \in Regs |-> "none"]
    /\ row = [n \in Regs |-> [state |-> "none", draft |-> None, enc |-> None]]
    /\ parked = [n \in Regs |-> None]
    /\ faults = 0 /\ slips = {}
    /\ shared = [n \in Regs |-> [names |-> {}, key |-> None]]

\* resetLocal: the refs and the list go, requests under way do not.
ResetLocal ==
    /\ draftId' = None /\ initP' = None /\ key' = None
    /\ files' = [k \in Names |-> Absent]

-----------------------------------------------------------------------------
(* Adding a file: addFile and attachFromDrive, then registerFile. *)

\* Something of an earlier file of that name is still under way.
Busy(k) == \E n \in Regs :
    /\ reg[n].name = k
    /\ \/ reg[n].at \notin {"free", "end"}
       \/ up[n].at \in {"parts", "complete", "short", "reply"}
       \/ rm[n].at \in {"post", "reply"}

M_StartAlwaysMints == "mint"

\* The key is minted by whoever finds none; its import is awaited.
Start == IF key = None THEN "mint" ELSE "post"

M_DisarmNever == send

\* A change of the list or of the metadata disarms a send that still waits.
Disarm == IF send.at = "armed" THEN [send EXCEPT !.cancel = TRUE] ELSE send

\* What the user drops or picks: a file the list does not hold, within the
\* limits.  Neither the drop zone nor a Drive picker that is already open is
\* locked while a send is being finalized.
Pickable(k) == page = "open" /\ files[k].state = "absent"

AddFile(n, k) ==
    /\ Pickable(k) /\ reg[n].at = "free"
    /\ \A m \in Regs : m < n => reg[m].at # "free"
    /\ files' = [files EXCEPT ![k] = [state |-> "registering", row |-> None]]
    /\ send' = Disarm
    /\ \/ /\ draftId = None /\ initP = None
          /\ initP' = n
          /\ reg' = [reg EXCEPT ![n] = [@ EXCEPT !.at = Start, !.name = k]]
       \/ /\ draftId # None
          /\ reg' = [reg EXCEPT ![n] = [@ EXCEPT !.at = Start, !.name = k, !.known = draftId]]
          /\ UNCHANGED initP
       \/ /\ draftId = None /\ initP # None
          /\ reg' = [reg EXCEPT ![n] = [@ EXCEPT !.at = "wait", !.name = k, !.awaits = initP]]
          /\ UNCHANGED initP
    /\ slips' = slips \cup (IF Finalizing THEN {"late"} ELSE {})
                      \cup (IF Busy(k) THEN {"aliased"} ELSE {})
                      \cup (IF draftId # None /\ reg[draftId].at \in {"drop", "dropped"}
                            THEN {"joined"} ELSE {})
    /\ UNCHANGED <<page, draftId, key, pump, up, rm, leave, server, faults, shared>>

M_InitSettledUncaught(n) ==
    /\ reg[n].at = "wait" /\ reg[reg[n].awaits].at = "end"
    /\ LET m == reg[n].awaits IN
       /\ reg[m].ok
       /\ reg' = [reg EXCEPT ![n].at = IF files[reg[n].name].state = "absent" THEN "end" ELSE Start,
                             ![n].known = DraftOf(m)]
    /\ UNCHANGED <<page, files, refs, up, rm, leave, send, server, faults, slips, shared>>

\* A later drop waited for the draft the first one opens.
InitSettled(n) ==
    /\ reg[n].at = "wait" /\ reg[reg[n].awaits].at = "end"
    /\ LET m == reg[n].awaits IN
       \/ /\ ~reg[m].ok
          /\ files' = Mark(files, reg[n].name, "error")
          /\ reg' = [reg EXCEPT ![n].at = "end"]
       \/ /\ reg[m].ok /\ files[reg[n].name].state = "absent"
          /\ reg' = [reg EXCEPT ![n].at = "end"]
          /\ UNCHANGED files
       \/ /\ reg[m].ok /\ files[reg[n].name].state # "absent"
          /\ reg' = [reg EXCEPT ![n].at = Start, ![n].known = DraftOf(m), ![n].awaits = None]
          /\ UNCHANGED files
    /\ UNCHANGED <<page, refs, up, rm, leave, send, server, faults, slips, shared>>

Minted(n) ==
    /\ reg[n].at = "mint"
    /\ key' = n
    /\ reg' = [reg EXCEPT ![n].at = "post"]
    /\ UNCHANGED <<page, files, draftId, initP, pump, up, rm, leave, send, server,
                   faults, slips, shared>>

\* Server, add-file: a draft is opened for a request that names none.
ServeAdd(n) ==
    /\ reg[n].at = "post"
    /\ LET d == DraftOf(n)
           ok == reg[n].known = None \/ draft[d] = "open" IN
       /\ reg' = [reg EXCEPT ![n].at = "reply", ![n].ok = ok]
       /\ draft' = IF ok THEN [draft EXCEPT ![d] = "open"] ELSE draft
       /\ row' = IF ok THEN [row EXCEPT ![n] = [state |-> "open", draft |-> d, enc |-> None]]
                 ELSE row
    /\ UNCHANGED <<page, files, refs, up, rm, leave, send, parked, faults, slips, shared>>

\* The answer to add-file: the file was removed meanwhile (clean up), is a
\* Drive file (ready), or waits for the pump.
Registered(n) ==
    /\ reg[n].at = "reply" /\ reg[n].ok
    /\ draftId' = IF draftId = None THEN DraftOf(n) ELSE draftId
    /\ LET k == reg[n].name IN
       IF files[k].state = "absent"
       THEN /\ reg' = [reg EXCEPT ![n].at = "drop"]
            /\ UNCHANGED files
       ELSE /\ reg' = [reg EXCEPT ![n].at = "end"]
            /\ files' = [files EXCEPT ![k] =
                 [state |-> IF k \in Drives THEN "done" ELSE "registered", row |-> n]]
    /\ UNCHANGED <<page, initP, key, pump, up, rm, leave, send, server, faults, slips, shared>>

RegistrationFailed(n) ==
    /\ reg[n].at = "reply" /\ ~reg[n].ok
    /\ reg' = [reg EXCEPT ![n].at = "end"]
    /\ files' = Mark(files, reg[n].name, "error")
    /\ initP' = IF reg[n].known = None THEN None ELSE initP
    /\ UNCHANGED <<page, draftId, key, pump, up, rm, leave, send, server, faults, slips, shared>>

-----------------------------------------------------------------------------
(* The server's removals: a file, with the draft if it was the last, or all. *)

RemoveRow(d, n) ==
    IF HasRow(d, n)
    THEN /\ row' = [row EXCEPT ![n].state = "gone"]
         /\ draft' = [draft EXCEPT ![d] = IF RowsOf(d) = {n} THEN "gone" ELSE @]
    ELSE UNCHANGED <<row, draft>>

AbortDraft(d) ==
    IF draft[d] = "open"
    THEN /\ draft' = [draft EXCEPT ![d] = "gone"]
         /\ row' = [n \in Regs |-> IF n \in RowsOf(d) THEN [row[n] EXCEPT !.state = "gone"]
                                   ELSE row[n]]
    ELSE UNCHANGED <<row, draft>>

M_CleanUpNot(n) == UNCHANGED <<row, draft>>

\* The cleanup of a file removed before its row was known: the draft it
\* opened is aborted, in another draft the row is removed.
CleanUp(n) == IF reg[n].known = None THEN AbortDraft(n) ELSE RemoveRow(reg[n].known, n)

ServeDrop(n) ==
    /\ reg[n].at = "drop"
    /\ CleanUp(n)
    /\ reg' = [reg EXCEPT ![n].at = "dropped"]
    /\ UNCHANGED <<page, files, refs, up, rm, leave, send, parked, faults, slips, shared>>

\* registerFile returns null: the promise of a first registration rejects.
Dropped(n) ==
    /\ reg[n].at = "dropped"
    /\ reg' = [reg EXCEPT ![n].at = "end", ![n].ok = reg[n].known # None]
    /\ IF reg[n].known = None
       THEN draftId' = None /\ initP' = None
       ELSE UNCHANGED <<draftId, initP>>
    /\ UNCHANGED <<page, files, key, pump, up, rm, leave, send, server, faults, slips, shared>>

\* The row's button, Cancel or Delete.
Removable(k) == page = "open" /\ files[k].state # "absent" /\ ~Finalizing

\* The user removes a listed file: the uploader being pumped is aborted if
\* the file is uploading, and the row is removed if it is known.
RemoveFile(k) ==
    /\ Removable(k)
    /\ Cardinality({n \in Regs : reg[n].at # "free"}) < Cardinality(Listed) + MaxDrops
    /\ LET n == files[k].row
           hit == pump # None /\ files[k].state = "uploading"
           called == n # None /\ draftId # None IN
       /\ send' = Disarm
       /\ up' = IF hit THEN [up EXCEPT ![pump].aborted = TRUE] ELSE up
       /\ pump' = IF hit THEN None ELSE pump
       /\ rm' = IF called
                THEN [rm EXCEPT ![n] = [at |-> "post", draft |-> draftId,
                                        last |-> Listed = {k}]]
                ELSE rm
    /\ files' = [files EXCEPT ![k] = Absent]
    /\ UNCHANGED <<page, draftId, initP, key, reg, leave, server, faults, slips, shared>>

ServeRemove(n) ==
    /\ rm[n].at = "post"
    /\ RemoveRow(rm[n].draft, n)
    /\ rm' = [rm EXCEPT ![n].at = "reply"]
    /\ UNCHANGED <<page, files, refs, reg, up, leave, send, parked, faults, slips, shared>>

\* A failed removal is ignored.  After the last file the local state is
\* dropped, with whatever was added while the request was out.
Removed(n) ==
    /\ rm[n].at = "reply"
    /\ rm' = [rm EXCEPT ![n] = [NoCall EXCEPT !.at = "end"]]
    /\ IF rm[n].last
       THEN /\ ResetLocal
            /\ slips' = slips \cup
                 IF Listed # {} \/ \E m \in Regs : reg[m].at \notin {"free", "end"}
                 THEN {"wiped"} ELSE {}
       ELSE UNCHANGED <<files, draftId, initP, key, slips>>
    /\ UNCHANGED <<page, pump, reg, up, leave, send, server, faults, shared>>

-----------------------------------------------------------------------------
(* The upload pump, and one uploader per row. *)

PumpStart(k) ==
    /\ pump = None /\ files[k].state = "registered" /\ key # None
    /\ LET n == files[k].row IN
       /\ pump' = n
       /\ up' = [up EXCEPT ![n] = [@ EXCEPT !.at = "parts", !.enc = key]]
    /\ files' = [files EXCEPT ![k].state = "uploading"]
    /\ UNCHANGED <<page, draftId, initP, key, reg, rm, leave, send, server, faults, slips, shared>>

\* Every part went up, signed against the draft id of the moment; the
\* completion is posted to it.  An abort between two parts makes the upload
\* resolve with the parts it has.
PartsUp(n) ==
    /\ up[n].at = "parts"
    /\ draftId # None /\ HasRow(draftId, n) /\ row[n].state = "open"
    /\ \E s \in {"complete"} \cup IF up[n].aborted THEN {"short"} ELSE {} :
         up' = [up EXCEPT ![n].at = s, ![n].draft = draftId]
    /\ UNCHANGED <<page, files, refs, reg, rm, leave, send, server, faults, slips, shared>>

\* Parts are refused, or the upload was aborted.  (An aborted uploader may
\* also never settle: a part that reaches its PUT after the abort waits for
\* an event that does not come.)
PartsFail(n) ==
    /\ up[n].at = "parts"
    /\ \/ up[n].aborted
       \/ draftId = None
       \/ ~HasRow(draftId, n)
       \/ row[n].state # "open"
    /\ up' = [up EXCEPT ![n].at = "reply", ![n].ok = FALSE]
    /\ UNCHANGED <<page, files, refs, reg, rm, leave, send, server, faults, slips, shared>>

ServeComplete(n) ==
    /\ up[n].at = "complete"
    /\ LET ok == HasRow(up[n].draft, n) /\ row[n].state = "open" IN
       /\ up' = [up EXCEPT ![n].at = "reply", ![n].ok = ok]
       /\ row' = IF ok THEN [row EXCEPT ![n].state = "landed", ![n].enc = up[n].enc] ELSE row
    /\ UNCHANGED <<page, files, refs, reg, rm, leave, send, draft, parked, faults, slips, shared>>

\* The object is not as long as was declared: the draft is deleted.
ServeShort(n) ==
    /\ up[n].at = "short"
    /\ up' = [up EXCEPT ![n].at = "reply", ![n].ok = FALSE]
    /\ IF HasRow(up[n].draft, n) /\ row[n].state = "open"
       THEN AbortDraft(up[n].draft) /\ slips' = slips \cup {"short"}
       ELSE UNCHANGED <<row, draft, slips>>
    /\ UNCHANGED <<page, files, refs, reg, rm, leave, send, parked, faults, shared>>

M_OutcomeIgnored(n) == "done"

Outcome(n) == IF up[n].ok THEN "done" ELSE "error"

\* The uploader's promise settles; its finally clears the pump's ref,
\* whoever it names by then.
UploadSettled(n) ==
    /\ up[n].at = "reply"
    /\ up' = [up EXCEPT ![n] = [NoUpload EXCEPT !.at = "end"]]
    /\ files' = Mark(files, reg[n].name, Outcome(n))
    /\ pump' = None
    /\ UNCHANGED <<page, draftId, initP, key, reg, rm, leave, send, server, faults, slips, shared>>

-----------------------------------------------------------------------------
(* Send: submit waits for every file, then polls finalize. *)

\* The Send button is enabled.
Sendable == /\ page = "open" /\ send.at = "idle" /\ Listed # {}
            /\ \A k \in Names : files[k].state # "error"

\* handleSubmit and the head of submit.  (The Drive picker answers when it
\* likes, so a confidential send may list a Drive file.)
Submit ==
    /\ Sendable /\ draftId # None /\ send.n < MaxSends
    /\ \E c \in BOOLEAN :
         send' = [at |-> "armed", id |-> draftId, carried |-> IF c THEN key ELSE None,
                  posted |-> None, confidential |-> c, cancel |-> FALSE,
                  answer |-> "none", n |-> send.n + 1, wanted |-> Listed, pending |-> {}]
    /\ UNCHANGED <<page, files, refs, reg, up, rm, leave, server, faults, slips, shared>>

\* The tabs, the recipients and the title disarm a send that waits.
EditMetadata ==
    /\ page = "open" /\ send.at = "armed"
    /\ send' = [send EXCEPT !.cancel = TRUE]
    /\ UNCHANGED <<page, files, refs, reg, up, rm, leave, server, faults, slips, shared>>

KeyReady == send.confidential \/ key # None

\* The wait's tick gives up: cancelled, a file in error, or nothing left.
TickRejects ==
    /\ send.at = "armed"
    /\ \/ send.cancel \/ Listed = {}
       \/ \E k \in Names : files[k].state = "error"
       \/ ~KeyReady /\ \A k \in Listed : files[k].state = "done"
    /\ send' = [NoSend EXCEPT !.n = send.n]
    /\ UNCHANGED <<page, files, refs, reg, up, rm, leave, server, faults, slips, shared>>

\* The wait's tick sees every file done: the first finalize leaves.
TickResolves ==
    /\ send.at = "armed" /\ ~send.cancel /\ Listed # {}
    /\ \A k \in Listed : files[k].state = "done"
    /\ KeyReady
    /\ send' = [send EXCEPT !.at = "post", !.posted = IF send.confidential THEN None ELSE key]
    /\ slips' = slips \cup
         IF \E n \in Regs : rm[n].at = "post" \/ reg[n].at \notin {"free", "end"}
         THEN {"overtaken"} ELSE {}
    /\ UNCHANGED <<page, files, refs, reg, up, rm, leave, server, faults, shared>>

\* Server, finalize: refused, still importing, still scanning, or sent.
Pending(d) == {n \in RowsOf(d) : reg[n].name \in Drives /\ row[n].state # "landed"}

FinalizeRefused(d) ==
    \/ draft[d] # "open"
    \/ \E n \in RowsOf(d) : reg[n].name \in Locals /\ row[n].state # "landed"
    \/ \E n \in RowsOf(d) : row[n].state = "failed"
    \/ send.confidential /\ \E n \in RowsOf(d) : reg[n].name \in Drives
    \/ parked[d] # None /\ (send.confidential \/ parked[d] # send.posted)

\* Everything landed: the scan gate lets it wait, refuses it, or shares it.
ShareOrScan(d) ==
    \/ /\ ~send.confidential
       /\ send' = [send EXCEPT !.at = "reply", !.answer = "scanning"]
       /\ UNCHANGED <<draft, row, shared>>
    \/ /\ ~send.confidential
       /\ send' = [send EXCEPT !.at = "reply", !.answer = "refused"]
       /\ UNCHANGED <<draft, row, shared>>
    \/ /\ send' = [send EXCEPT !.at = "reply", !.answer = "sent"]
       /\ draft' = [draft EXCEPT ![d] = "sent"]
       /\ row' = [n \in Regs |-> IF n \in RowsOf(d) THEN [row[n] EXCEPT !.state = "sent"]
                                 ELSE row[n]]
       /\ shared' = [shared EXCEPT ![d] =
                      [names |-> send.wanted,
                       key |-> IF send.confidential THEN send.carried ELSE send.posted]]

ServeFinalize ==
    /\ send.at = "post"
    /\ LET d == send.id IN
       \/ /\ FinalizeRefused(d)
          /\ send' = [send EXCEPT !.at = "reply", !.answer = "refused"]
          /\ UNCHANGED <<server, shared>>
       \/ /\ ~FinalizeRefused(d)
          /\ parked' = [parked EXCEPT ![d] = IF send.confidential THEN @ ELSE send.posted]
          /\ IF Pending(d) # {}
             THEN /\ send' = [send EXCEPT !.at = "reply", !.answer = "importing",
                                       !.pending = Pending(d)]
                  /\ row' = [n \in Regs |-> IF n \in Pending(d)
                                            THEN [row[n] EXCEPT !.state = "importing"]
                                            ELSE row[n]]
                  /\ UNCHANGED <<draft, shared>>
             ELSE ShareOrScan(d)
    /\ UNCHANGED <<page, files, refs, reg, up, rm, leave, faults, slips>>

\* The import task stores a Drive file, or gives up on it.
ImportEnds(n) ==
    /\ row[n].state = "importing"
    /\ \/ row' = [row EXCEPT ![n].state = "landed", ![n].enc = parked[row[n].draft]]
       \/ row' = [row EXCEPT ![n].state = "failed"]
    /\ UNCHANGED <<page, files, refs, reg, up, rm, leave, send, draft, parked, faults, slips, shared>>

\* A 202: the rows that import are shown importing, all of them done once
\* the scan is what is waited for; then the next poll.
Waiting == send.at = "reply" /\ send.answer \in {"importing", "scanning"}

PollAgain ==
    /\ Waiting
    /\ files' = [k \in Names |->
         IF files[k].row \in send.pending
         THEN [files[k] EXCEPT !.state = "importing"]
         ELSE IF send.answer = "scanning" /\ k \in Drives /\ files[k].state = "importing"
         THEN [files[k] EXCEPT !.state = "done"] ELSE files[k]]
    /\ send' = [send EXCEPT !.at = "post", !.answer = "none", !.pending = {}]
    /\ UNCHANGED <<page, refs, reg, up, rm, leave, server, faults, slips, shared>>

M_PollRearmed == FALSE

\* A 202 past the deadline of its phase, which no poll moves.
PollTimesOut ==
    /\ Waiting
    /\ send' = [NoSend EXCEPT !.n = send.n]
    /\ UNCHANGED <<page, files, refs, reg, up, rm, leave, server, faults, slips, shared>>

\* A refusal, or any other error: the form is unlocked, the list kept.
SendFailed ==
    /\ send.at = "reply" /\ send.answer = "refused"
    /\ send' = [NoSend EXCEPT !.n = send.n]
    /\ UNCHANGED <<page, files, refs, reg, up, rm, leave, server, faults, slips, shared>>

\* abortDraft stops the uploader and drops the local state.
StopLocal ==
    /\ up' = IF pump # None THEN [up EXCEPT ![pump].aborted = TRUE] ELSE up
    /\ pump' = None
    /\ ResetLocal

\* Sent: the local state goes and the page moves on to the summary.
Sent ==
    /\ send.at = "reply" /\ send.answer = "sent"
    /\ send' = [send EXCEPT !.at = "idle", !.answer = "none"]
    /\ page' = "left" /\ StopLocal
    /\ UNCHANGED <<reg, rm, leave, server, faults, slips, shared>>

\* The user leaves the page, whatever is under way (they are asked, and say
\* yes): the form is unmounted, and the draft it knows is aborted.
Leave ==
    /\ page = "open"
    /\ page' = "left" /\ StopLocal
    /\ leave' = IF draftId # None THEN [NoCall EXCEPT !.at = "post", !.draft = draftId]
                ELSE leave
    /\ UNCHANGED <<reg, rm, send, server, faults, slips, shared>>

ServeAbort ==
    /\ leave.at = "post"
    /\ AbortDraft(leave.draft)
    /\ leave' = [NoCall EXCEPT !.at = "end"]
    /\ UNCHANGED <<page, files, refs, reg, up, rm, send, parked, faults, slips, shared>>

-----------------------------------------------------------------------------
(* The network: a request is not served, or its answer is lost. *)

Fault ==
    /\ faults < MaxFaults
    /\ faults' = faults + 1
    /\ slips' = slips \cup {"lost"}
    /\ UNCHANGED <<page, files, draftId, initP, key, pump, server, shared>>

LoseRegistration(n) ==
    /\ Fault
    /\ \/ /\ reg[n].at \in {"post", "reply"}
          /\ reg' = [reg EXCEPT ![n].at = "reply", ![n].ok = FALSE]
       \/ /\ reg[n].at \in {"drop", "dropped"}
          /\ reg' = [reg EXCEPT ![n].at = "end", ![n].ok = reg[n].known # None]
    /\ UNCHANGED <<up, rm, leave, send>>

LoseUpload(n) ==
    /\ Fault
    /\ up[n].at \in {"parts", "complete", "short", "reply"}
    /\ up' = [up EXCEPT ![n].at = "reply", ![n].ok = FALSE]
    /\ UNCHANGED <<reg, rm, leave, send>>

LoseRemoval(n) ==
    /\ Fault
    /\ rm[n].at = "post"
    /\ rm' = [rm EXCEPT ![n].at = "reply"]
    /\ UNCHANGED <<reg, up, leave, send>>

LoseFinalize ==
    /\ Fault
    /\ Finalizing
    /\ send' = [send EXCEPT !.at = "reply", !.answer = "refused", !.pending = {}]
    /\ UNCHANGED <<reg, up, rm, leave>>

LoseAbort ==
    /\ Fault
    /\ leave.at = "post"
    /\ leave' = [NoCall EXCEPT !.at = "end"]
    /\ UNCHANGED <<reg, up, rm, send>>

-----------------------------------------------------------------------------
Answer(n) ==
    \/ InitSettled(n) \/ Minted(n) \/ ServeAdd(n) \/ Registered(n)
    \/ RegistrationFailed(n) \/ ServeDrop(n) \/ Dropped(n)
    \/ ServeRemove(n) \/ Removed(n)
    \/ PartsUp(n) \/ PartsFail(n) \/ ServeComplete(n) \/ ServeShort(n)
    \/ UploadSettled(n)
    \/ ImportEnds(n)

SendStep == TickRejects \/ TickResolves \/ ServeFinalize \/ PollAgain \/ SendFailed \/ Sent

Loss ==
    \/ \E n \in Regs : LoseRegistration(n) \/ LoseUpload(n) \/ LoseRemoval(n)
    \/ LoseFinalize \/ LoseAbort

Next ==
    \/ \E n \in Regs, k \in Names : AddFile(n, k)
    \/ \E k \in Names : RemoveFile(k) \/ PumpStart(k)
    \/ \E n \in Regs : Answer(n)
    \/ Submit \/ EditMetadata \/ SendStep \/ PollTimesOut
    \/ Leave \/ ServeAbort
    \/ Loss

Spec == Init /\ [][Next]_vars

\* Timers fire, and every request is answered or fails (the browser times it
\* out); what the user does, and faults, are never owed.  submit is one
\* sequential function; a poll's deadline passes although the answers in
\* between keep disabling it.
FairSpec ==
    /\ Spec
    /\ WF_vars(\E n \in Regs : Answer(n)) /\ WF_vars(\E k \in Names : PumpStart(k))
    /\ WF_vars(SendStep) /\ SF_vars(PollTimesOut)

-----------------------------------------------------------------------------
(* Properties. *)

\* Every variable has its type, and no late answer brings a file back to a
\* page that was left (updateFile patches listed files only).
TypeOK ==
    /\ page \in {"open", "left"}
    /\ files \in [Names -> [state : FileStates, row : Ids]]
    /\ {draftId, initP, key, pump} \subseteq Ids
    /\ reg \in [Regs -> [at : RegStates, name : Names \cup {None}, known : Ids,
                         awaits : Ids, ok : BOOLEAN]]
    /\ up \in [Regs -> [at : UpStates, enc : Ids, draft : Ids, aborted : BOOLEAN,
                        ok : BOOLEAN]]
    /\ rm \in [Regs -> [at : CallStates, draft : Ids, last : BOOLEAN]]
    /\ leave \in [at : CallStates, draft : Ids, last : BOOLEAN]
    /\ send \in [at : SendStates, id : Ids, carried : Ids, posted : Ids,
                 confidential : BOOLEAN, cancel : BOOLEAN, answer : Answers,
                 n : 0 .. MaxSends, wanted : SUBSET Names, pending : SUBSET Regs]
    /\ page = "left" => Listed = {}
    /\ draft \in [Regs -> {"none", "open", "gone", "sent"}]
    /\ row \in [Regs -> [state : RowStates, draft : Ids, enc : Ids]]
    /\ parked \in [Regs -> Ids]
    /\ faults \in 0 .. MaxFaults
    /\ slips \subseteq Slips
    /\ shared \in [Regs -> [names : SUBSET Names, key : Ids]]

\* The recipients' key opens every file: the bytes of every row of a sent
\* draft were encrypted, by an uploader or by an import, under the key the
\* finalize posted or the confirm page carries (registerFile, the pump,
\* submit, handleSubmit).
SentUnderOneKey ==
    "wiped" \notin slips =>
        \A n \in Regs : row[n].state = "sent" =>
            /\ row[n].draft \in Regs
            /\ row[n].enc = shared[row[n].draft].key /\ row[n].enc # None

\* What is shared is what the sender saw when they clicked Send, each file
\* once: later changes of the list disarm the send, and rows the list does
\* not show were cleaned up (addFile, removeFile, registerFile, submit).
SentAsListed ==
    slips = {} => \A d \in Regs : draft[d] = "sent" =>
        /\ shared[d].names = {reg[n].name : n \in RowsOf(d)}
        /\ Cardinality(shared[d].names) = Cardinality(RowsOf(d))

\* A browser file shown as done has its bytes on its own row at the server,
\* although rows, uploaders and answers of removed and re-added files race
\* (the pump, registerFile's presence check).
DoneIsLanded ==
    slips \cap {"aliased", "joined", "short"} = {} => \A k \in Locals : files[k].state = "done" =>
        files[k].row \in Regs /\ row[files[k].row].state \in {"landed", "sent"}

\* Nothing is under way any more: the only open draft is the page's, with
\* the rows the list shows.  A page that was left leaves none behind
\* (registerFile's reconcile, removeFile, abortDraft).
Quiet ==
    /\ \A n \in Regs : /\ reg[n].at \in {"free", "end"}
                       /\ rm[n].at \in {"none", "end"}
    /\ leave.at \in {"none", "end"}
    /\ ~Finalizing
QuietIsAgreed ==
    slips \subseteq {"late", "overtaken"} /\ Quiet => \A d \in Regs : draft[d] = "open" =>
        d = draftId /\ RowsOf(d) = {files[k].row : k \in Listed} \ {None}

\* No file "would sit forever in registering" (startRegistration's catch):
\* the row becomes ready, is in error, or goes.
RegistrationSettles == []<>(\A k \in Names : files[k].state # "registering")

\* The form does not stay locked: finalize polling ends by an answer or by
\* the deadline of its phase (submit).
SendConcludes == []<>~Finalizing

\* submit's comment, "the wait is bounded by the last byte landing in S3":
\* once every listed file has landed, an armed send leaves or gives up.  A
\* Drive row shown importing by an earlier send that ended never turns done.
AllLanded == Listed # {} /\ \A k \in Listed :
    files[k].row \in Regs /\ row[files[k].row].state = "landed"

WaitIsBounded == (send.at = "armed" /\ AllLanded) ~> send.at # "armed"
=============================================================================
