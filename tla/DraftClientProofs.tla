---------------------------- MODULE DraftClientProofs ----------------------------
(***************************************************************************)
(* What DraftClient promises in every state, for all names, registrations, *)
(* sends and faults.                                                       *)
(*                                                                         *)
(* Registrations are numbered in the order in which they start, and a key  *)
(* and a draft carry the number of the registration that brought them.     *)
(* The page keeps one key until it drops everything; hence the drafts it   *)
(* may still send are those whose number is not below that of its key, and *)
(* all that was ever encrypted for them was encrypted under it.            *)
(***************************************************************************)
EXTENDS DraftClient, TLAPS

-----------------------------------------------------------------------------
(* The inductive invariant. *)

\* A name that is not listed has no row; a row that is listed was registered.
FileInv == \A k \in Names :
    /\ files[k].state = "absent" => files[k].row = None
    /\ files[k].row # None => row[files[k].row].state # "none"

\* Registrations start in order and wait for earlier ones.
RegOk(n) ==
    /\ reg[n].at = "free" => reg[n].known = None
    /\ reg[n].at # "free" => reg[n].name \in Names /\ \A m \in Regs : m < n => reg[m].at # "free"
    /\ reg[n].at = "wait" =>
         reg[n].known = None /\ reg[n].awaits \in Regs /\ reg[n].awaits < n
         /\ reg[reg[n].awaits].at # "wait"
    /\ reg[n].known # None => reg[n].known < n
    /\ reg[n].at = "reply" /\ reg[n].ok => row[n].state # "none"

RegInv == \A n \in Regs : RegOk(n)

\* The refs name registrations that started, and none that waits.
RefInv ==
    /\ draftId # None => reg[draftId].at # "free"
    /\ initP # None => reg[initP].at \notin {"free", "wait"}

\* A registration was served; its answer was handled.
Served  == {"reply", "drop", "dropped", "end"}
Settled == Served \ {"reply"}

\* A row belongs to the draft its registration named.
RowInv == \A n \in Regs :
    /\ row[n].state = "none" => row[n].draft = None /\ row[n].enc = None
    /\ row[n].state # "none" => reg[n].at \in Served /\ row[n].draft = DraftOf(n)
    /\ row[n].state \in {"landed", "sent"} => row[n].enc # None
    /\ row[n].state = "importing" => parked[row[n].draft] # None
    /\ row[n].state = "sent" => draft[row[n].draft] = "sent"

\* A draft was opened by the registration it is numbered after.
DraftInv == \A d \in Regs :
    /\ draft[d] # "none" => reg[d].at \in Served
    /\ draft[d] = "none" => parked[d] = None

\* An uploader has a row, and a key.
UpInv == \A n \in Regs :
    /\ up[n].enc # None => row[n].state # "none"
    /\ up[n].at \in {"parts", "complete"} => up[n].enc # None

\* The page, while nothing was wiped.
Working == page = "open" /\ "wiped" \notin slips

\* Before there is a key, only the registration that mints it is under way;
\* the others wait for it.
MintInv == Working /\ key = None =>
    /\ draftId = None
    /\ initP = None => \A n \in Regs : reg[n].at \in {"free", "end"}
    /\ initP # None =>
         /\ reg[initP].at = "mint" /\ reg[initP].known = None
         /\ \A n \in Regs : n # initP =>
              \/ reg[n].at = "wait" /\ reg[n].awaits = initP
              \/ reg[n].at = "free"
              \/ reg[n].at = "end" /\ n < initP

\* From then on all that is under way belongs to drafts opened under it.
KeyInv == Working /\ key # None =>
    /\ reg[key].at # "free"
    /\ draftId # None => draftId >= key
    /\ initP # None => initP >= key /\ reg[initP].at \notin {"free", "wait"} /\ reg[initP].known = None
    /\ \A n \in Regs :
         /\ reg[n].at # "mint"
         /\ reg[n].at \notin {"free", "end", "wait"} => DraftOf(n) >= key
         /\ reg[n].at = "wait" => DraftOf(reg[n].awaits) >= key

\* What was encrypted for the draft d, and may still be, is under the key s.
Under(d, s) ==
    /\ parked[d] \in {None, s}
    /\ \A n \in Regs : row[n].draft = d => row[n].enc \in {None, s} /\ up[n].enc \in {None, s}

EncInv == Working /\ key # None => \A d \in Regs : d >= key => Under(d, key)

\* A send that has not been disarmed is of such a draft, and under that key.
Live == (send.at = "armed" /\ ~send.cancel) \/ Finalizing

SendInv == Working /\ Live =>
    /\ Listed # {} /\ key # None
    /\ send.id \in Regs /\ send.id >= key
    /\ send.carried = IF send.confidential THEN key ELSE None
    /\ Finalizing => send.posted = IF send.confidential THEN None ELSE key

\* The key the recipients will be given.
Secret == IF send.confidential THEN send.carried ELSE send.posted

\* It stays so when the page is left.
FinalInv ==
    /\ send.at # "idle" => send.id \in Regs
    /\ Finalizing /\ ~send.confidential => send.posted # None
    /\ Finalizing /\ "wiped" \notin slips => Secret # None /\ Under(send.id, Secret)

IInv == /\ TypeOK /\ FileInv /\ RegInv /\ RefInv /\ RowInv /\ DraftInv /\ UpInv
        /\ MintInv /\ KeyInv /\ EncInv /\ SendInv /\ FinalInv /\ SentUnderOneKey

-----------------------------------------------------------------------------
(* Typing. *)

\* None is no registration.
LEMMA Numbers == Regs \subseteq Nat /\ None \notin Regs /\ None \notin Names
  BY NoneAssumption, BoundsAssumption DEF Regs, Names

\* What finalize does to the draft d: it refuses, or it parks its key; then
\* rows are left to import, the scan is waited for or refuses, or it shares.
Waits(d) ==
    \/ /\ Pending(d) # {}
       /\ send' = [send EXCEPT !.at = "reply", !.answer = "importing", !.pending = Pending(d)]
       /\ row' = [n \in Regs |-> IF n \in Pending(d)
                                 THEN [row[n] EXCEPT !.state = "importing"] ELSE row[n]]
       /\ UNCHANGED <<draft, shared>>
    \/ /\ Pending(d) = {}
       /\ \E s \in {"scanning", "refused"} : send' = [send EXCEPT !.at = "reply", !.answer = s]
       /\ UNCHANGED <<draft, row, shared>>

Finalizes(d) ==
    /\ UNCHANGED <<page, files, draftId, initP, key, pump, reg, up, rm, leave, faults, slips>>
    /\ \/ /\ send' = [send EXCEPT !.at = "reply", !.answer = "refused"]
          /\ UNCHANGED <<draft, row, parked, shared>>
       \/ /\ ~FinalizeRefused(d)
          /\ parked' = [parked EXCEPT ![d] = IF send.confidential THEN @ ELSE send.posted]
          /\ \/ Waits(d)
             \/ /\ Pending(d) = {}
                /\ send' = [send EXCEPT !.at = "reply", !.answer = "sent"]
                /\ draft' = [draft EXCEPT ![d] = "sent"]
                /\ row' = [n \in Regs |-> IF n \in RowsOf(d)
                                          THEN [row[n] EXCEPT !.state = "sent"] ELSE row[n]]
                /\ shared' = [shared EXCEPT ![d] =
                               [names |-> send.wanted,
                                key |-> IF send.confidential THEN send.carried
                                        ELSE send.posted]]

\* The server's finalize, for the draft of the send.
LEMMA FinalizeStep == ASSUME ServeFinalize PROVE Finalizes(send.id) /\ send.at = "post"
  BY DEF ServeFinalize, ShareOrScan, Finalizes, Waits, refs, server

\* What the records of the page and of the server may be.
FileRecs == [state : FileStates, row : Ids]
RegRecs  == [at : RegStates, name : Names \cup {None}, known : Ids, awaits : Ids, ok : BOOLEAN]
UpRecs   == [at : UpStates, enc : Ids, draft : Ids, aborted : BOOLEAN, ok : BOOLEAN]
CallRecs == [at : CallStates, draft : Ids, last : BOOLEAN]
SendRecs == [at : SendStates, id : Ids, carried : Ids, posted : Ids,
             confidential : BOOLEAN, cancel : BOOLEAN, answer : Answers,
             n : 0 .. MaxSends, wanted : SUBSET Names, pending : SUBSET Regs]
RowRecs  == [state : RowStates, draft : Ids, enc : Ids]
Shares   == [names : SUBSET Names, key : Ids]

\* The same, a variable at a time.
LEMMA Types == TypeOK <=>
    /\ page \in {"open", "left"}
    /\ files \in [Names -> FileRecs]
    /\ draftId \in Ids
    /\ initP \in Ids
    /\ key \in Ids
    /\ pump \in Ids
    /\ reg \in [Regs -> RegRecs]
    /\ up \in [Regs -> UpRecs]
    /\ rm \in [Regs -> CallRecs]
    /\ leave \in CallRecs
    /\ send \in SendRecs
    /\ draft \in [Regs -> {"none", "open", "gone", "sent"}]
    /\ row \in [Regs -> RowRecs]
    /\ parked \in [Regs -> Ids]
    /\ faults \in 0 .. MaxFaults
    /\ slips \subseteq Slips
    /\ shared \in [Regs -> Shares]
    /\ page = "left" => Listed = {}
  BY DEF TypeOK, FileRecs, RegRecs, UpRecs, CallRecs, SendRecs, RowRecs, Shares

\* The types in the next state.
LEMMA TypesNext == TypeOK' <=>
    /\ page' \in {"open", "left"}
    /\ files' \in [Names -> FileRecs]
    /\ draftId' \in Ids
    /\ initP' \in Ids
    /\ key' \in Ids
    /\ pump' \in Ids
    /\ reg' \in [Regs -> RegRecs]
    /\ up' \in [Regs -> UpRecs]
    /\ rm' \in [Regs -> CallRecs]
    /\ leave' \in CallRecs
    /\ send' \in SendRecs
    /\ draft' \in [Regs -> {"none", "open", "gone", "sent"}]
    /\ row' \in [Regs -> RowRecs]
    /\ parked' \in [Regs -> Ids]
    /\ faults' \in 0 .. MaxFaults
    /\ slips' \subseteq Slips
    /\ shared' \in [Regs -> Shares]
    /\ page' = "left" => Listed' = {}
  BY DEF TypeOK, FileRecs, RegRecs, UpRecs, CallRecs, SendRecs, RowRecs, Shares

\* Each name has a file.
LEMMA FilesTyped == ASSUME TypeOK PROVE files \in [Names -> FileRecs]
  BY Types

\* Each registration has a record.
LEMMA RegTyped == ASSUME TypeOK PROVE reg \in [Regs -> RegRecs]
  BY Types

\* Each row has an uploader.
LEMMA UpTyped == ASSUME TypeOK PROVE up \in [Regs -> UpRecs]
  BY Types

\* Each registration has a row.
LEMMA RowTyped == ASSUME TypeOK PROVE row \in [Regs -> RowRecs]
  BY Types

\* The submit call.
LEMMA SendTyped == ASSUME TypeOK PROVE send \in SendRecs
  BY Types

\* The removals and the abort.
LEMMA CallsTyped == ASSUME TypeOK PROVE 
    /\ rm \in [Regs -> CallRecs]
    /\ leave \in CallRecs
  BY Types

\* The refs of the page.
LEMMA RefsTyped == ASSUME TypeOK PROVE 
    /\ draftId \in Ids
    /\ initP \in Ids
    /\ key \in Ids
    /\ pump \in Ids
  BY Types

\* The drafts of the server.
LEMMA ServerTyped == ASSUME TypeOK PROVE 
    /\ draft \in [Regs -> {"none", "open", "gone", "sent"}]
    /\ parked \in [Regs -> Ids]
    /\ shared \in [Regs -> Shares]
  BY Types

\* The rest.
LEMMA RestTyped == ASSUME TypeOK PROVE 
    /\ page \in {"open", "left"}
    /\ faults \in 0 .. MaxFaults
    /\ slips \subseteq Slips
  BY Types

\* Every step keeps the types.
LEMMA TypeOKNext == TypeOK /\ FileInv /\ [Next]_vars => TypeOK'
<1> SUFFICES ASSUME TypeOK, FileInv, [Next]_vars PROVE TypeOK'
  OBVIOUS
<1>1. ASSUME NEW n \in Regs, NEW k \in Names, AddFile(n, k) PROVE TypeOK'
  <2>1. initP' \in Ids
    BY <1>1, RefsTyped, RegTyped, Numbers DEF AddFile, Pickable, Start, Disarm,
        server, Ids
  <2>2. files' \in [Names -> FileRecs]
    BY <1>1, FilesTyped, RefsTyped, Numbers DEF AddFile, Pickable, Start, Disarm,
        server, FileRecs, FileStates, Ids
  <2>3. \E r \in RegRecs : reg' = [reg EXCEPT ![n] = r]
    <3>1. \A s \in {"mint", "post", "wait"} :
            /\ [reg[n] EXCEPT !.at = s, !.name = k] \in RegRecs
            /\ [reg[n] EXCEPT !.at = s, !.name = k, !.known = draftId] \in RegRecs
            /\ [reg[n] EXCEPT !.at = s, !.name = k, !.awaits = initP] \in RegRecs
      BY RegTyped, RefsTyped DEF RegRecs, RegStates
    <3>. QED
      BY <1>1, <3>1 DEF AddFile, Start
  <2>4. reg' \in [Regs -> RegRecs]
    BY <1>1, <2>3, RegTyped
  <2>5. send' \in SendRecs
    BY <1>1, RefsTyped, SendTyped, Numbers, BoundsAssumption DEF AddFile, Pickable,
        Start, Disarm, server, SendRecs, SendStates, Answers, Ids
  <2>6. slips' \subseteq Slips
    BY <1>1, RestTyped, Numbers DEF AddFile, Pickable, Start, Disarm, server, Slips
  <2>7. page' = "left" => Listed' = {}
    BY <1>1, Types DEF AddFile, Pickable, Start, Disarm, server, Listed
  <2>8. UNCHANGED <<page, draftId, key, pump, up, rm, leave, draft, row, parked,
        faults, shared>>
    BY <1>1 DEF AddFile, server
  <2>. QED
    BY <2>1, <2>2, <2>4, <2>5, <2>6, <2>7, <2>8, TypesNext, Types
<1>2. ASSUME NEW k \in Names, RemoveFile(k) PROVE TypeOK'
  <2>1. files' \in [Names -> FileRecs]
    BY <1>2, FilesTyped, RefsTyped, Numbers DEF RemoveFile, Removable, Disarm, Absent,
        server, FileRecs, FileStates, Ids
  <2>2. send' \in SendRecs
    BY <1>2, RefsTyped, SendTyped, Numbers, BoundsAssumption DEF RemoveFile,
        Removable, Disarm, Absent, server, SendRecs, SendStates, Answers, Ids
  <2>3. up' = up \/ (pump \in Regs /\ up' = [up EXCEPT ![pump].aborted = TRUE])
    BY <1>2, UpTyped, RefsTyped, Numbers DEF RemoveFile, Ids
  <2>4. \A m \in Regs : up'[m] \in UpRecs
    BY <2>3, UpTyped DEF UpRecs
  <2>5. up' = [m \in Regs |-> up'[m]]
    BY <2>3, UpTyped
  <2>6. up' \in [Regs -> UpRecs]
    BY <2>4, <2>5
  <2>7. pump' \in Ids
    BY <1>2, FilesTyped, RefsTyped, Numbers DEF RemoveFile, Removable, Disarm, Absent,
        server, Ids
  <2>8. rm' \in [Regs -> CallRecs]
    BY <1>2, CallsTyped, RefsTyped, Numbers DEF RemoveFile, Removable, Disarm, Absent,
        server, CallRecs, CallStates, Ids
  <2>9. page' = "left" => Listed' = {}
    BY <1>2, Types DEF RemoveFile, Removable, Disarm, Absent, server, Listed
  <2>10. UNCHANGED <<page, draftId, initP, key, reg, leave, draft, row, parked,
        faults, slips, shared>>
    BY <1>2 DEF RemoveFile, server
  <2>. QED
    BY <2>1, <2>2, <2>6, <2>7, <2>8, <2>9, <2>10, TypesNext, Types
<1>3. ASSUME NEW k \in Names, PumpStart(k) PROVE TypeOK'
  <2>1. pump' \in Ids
    BY <1>3, FilesTyped, RefsTyped, Numbers DEF PumpStart, FileRecs, Ids
  <2>2. \A m \in Regs : up'[m] \in UpRecs
    BY <1>3, FilesTyped, RefsTyped, UpTyped, Numbers DEF PumpStart, FileRecs, UpRecs,
        UpStates, Ids
  <2>3. up' = [m \in Regs |-> up'[m]]
    BY <1>3, UpTyped DEF PumpStart, FileRecs
  <2>4. up' \in [Regs -> UpRecs]
    BY <2>2, <2>3
  <2>5. files' \in [Names -> FileRecs]
    BY <1>3, FilesTyped, RefsTyped, Numbers DEF PumpStart, server, FileRecs,
        FileStates, Ids
  <2>6. page' = "left" => Listed' = {}
    BY <1>3, Types DEF PumpStart, server, Listed
  <2>7. UNCHANGED <<page, draftId, initP, key, reg, rm, leave, send, draft, row,
        parked, faults, slips, shared>>
    BY <1>3 DEF PumpStart, server
  <2>. QED
    BY <2>1, <2>4, <2>5, <2>6, <2>7, TypesNext, Types
<1>4. ASSUME NEW n \in Regs, InitSettled(n) PROVE TypeOK'
  <2>1. files' \in [Names -> FileRecs]
    BY <1>4, FilesTyped, RefsTyped, Numbers DEF InitSettled, Mark, Patch, Start,
        DraftOf, refs, server, FileRecs, FileStates, Ids
  <2>2. reg' \in [Regs -> RegRecs]
    BY <1>4, RefsTyped, RegTyped, Numbers DEF InitSettled, Mark, Patch, Start,
        DraftOf, refs, server, RegRecs, RegStates, Ids
  <2>3. page' = "left" => Listed' = {}
    BY <1>4, Types DEF InitSettled, Mark, Patch, Start, DraftOf, refs, server, Listed
  <2>4. UNCHANGED <<page, draftId, initP, key, pump, up, rm, leave, send, draft,
        row, parked, faults, slips, shared>>
    BY <1>4 DEF InitSettled, refs, server
  <2>. QED
    BY <2>1, <2>2, <2>3, <2>4, TypesNext, Types
<1>5. ASSUME NEW n \in Regs, Minted(n) PROVE TypeOK'
  <2>1. key' \in Ids
    BY <1>5, RefsTyped, Numbers DEF Minted, server, Ids
  <2>2. reg' \in [Regs -> RegRecs]
    BY <1>5, RefsTyped, RegTyped, Numbers DEF Minted, server, RegRecs, RegStates, Ids
  <2>3. UNCHANGED <<page, files, draftId, initP, pump, up, rm, leave, send, draft,
        row, parked, faults, slips, shared>>
    BY <1>5 DEF Minted, server
  <2>. QED
    BY <2>1, <2>2, <2>3, TypesNext, Types DEF Listed
<1>6. ASSUME NEW n \in Regs, ServeAdd(n) PROVE TypeOK'
  <2>1. \A m \in Regs : reg'[m] \in RegRecs
    BY <1>6, RefsTyped, RegTyped, Numbers DEF ServeAdd, RegRecs, RegStates, Ids
  <2>2. reg' = [m \in Regs |-> reg'[m]]
    BY <1>6, RegTyped DEF ServeAdd
  <2>3. reg' \in [Regs -> RegRecs]
    BY <2>1, <2>2
  <2>4. draft' \in [Regs -> {"none", "open", "gone", "sent"}]
    BY <1>6, ServerTyped, Numbers DEF ServeAdd, DraftOf, refs
  <2>5. \A m \in Regs : row'[m] \in RowRecs
    BY <1>6, RegTyped, RowTyped, ServerTyped, Numbers DEF ServeAdd, DraftOf, RegRecs,
        RowRecs, RowStates, Ids
  <2>6. row' = [m \in Regs |-> row'[m]]
    BY <1>6, RowTyped DEF ServeAdd, DraftOf, RegRecs
  <2>7. row' \in [Regs -> RowRecs]
    BY <2>5, <2>6
  <2>8. UNCHANGED <<page, files, draftId, initP, key, pump, up, rm, leave, send,
        parked, faults, slips, shared>>
    BY <1>6 DEF ServeAdd, refs
  <2>. QED
    BY <2>3, <2>4, <2>7, <2>8, TypesNext, Types DEF Listed
<1>7. ASSUME NEW n \in Regs, Registered(n) PROVE TypeOK'
  <2>1. draftId' \in Ids
    BY <1>7, RefsTyped, RegTyped, Numbers DEF Registered, DraftOf, RegRecs, Ids
  <2>2. \A m \in Regs : reg'[m] \in RegRecs
    BY <1>7, RefsTyped, RegTyped, Numbers DEF Registered, RegRecs, RegStates, Ids
  <2>3. reg' = [m \in Regs |-> reg'[m]]
    BY <1>7, RegTyped DEF Registered
  <2>4. reg' \in [Regs -> RegRecs]
    BY <2>2, <2>3
  <2>5. files' \in [Names -> FileRecs]
    BY <1>7, FilesTyped, RefsTyped, Numbers DEF Registered, DraftOf, server, FileRecs,
        FileStates, Ids
  <2>6. page' = "left" => Listed' = {}
    BY <1>7, Types DEF Registered, DraftOf, server, Listed
  <2>7. UNCHANGED <<page, initP, key, pump, up, rm, leave, send, draft, row,
        parked, faults, slips, shared>>
    BY <1>7 DEF Registered, server
  <2>. QED
    BY <2>1, <2>4, <2>5, <2>6, <2>7, TypesNext, Types
<1>8. ASSUME NEW n \in Regs, RegistrationFailed(n) PROVE TypeOK'
  <2>1. reg' \in [Regs -> RegRecs]
    BY <1>8, RefsTyped, RegTyped, Numbers DEF RegistrationFailed, Mark, Patch, server,
        RegRecs, RegStates, Ids
  <2>2. files' \in [Names -> FileRecs]
    BY <1>8, FilesTyped, RefsTyped, Numbers DEF RegistrationFailed, Mark, Patch,
        server, FileRecs, FileStates, Ids
  <2>3. initP' \in Ids
    BY <1>8, RefsTyped, RegTyped, Numbers DEF RegistrationFailed, Mark, Patch, server,
        Ids
  <2>4. page' = "left" => Listed' = {}
    BY <1>8, Types DEF RegistrationFailed, Mark, Patch, server, Listed
  <2>5. UNCHANGED <<page, draftId, key, pump, up, rm, leave, send, draft, row,
        parked, faults, slips, shared>>
    BY <1>8 DEF RegistrationFailed, server
  <2>. QED
    BY <2>1, <2>2, <2>3, <2>4, <2>5, TypesNext, Types
<1>9. ASSUME NEW n \in Regs, ServeDrop(n) PROVE TypeOK'
  <2>1. reg' \in [Regs -> RegRecs]
    BY <1>9, RefsTyped, RegTyped, Numbers DEF ServeDrop, CleanUp, AbortDraft,
        RemoveRow, HasRow, RowsOf, refs, RegRecs, RegStates, Ids
  <2>2. row' \in [Regs -> RowRecs]
    BY <1>9, RowTyped, ServerTyped, Numbers DEF ServeDrop, CleanUp, AbortDraft,
        RemoveRow, HasRow, RowsOf, refs, RowRecs, RowStates, Ids
  <2>3. draft' \in [Regs -> {"none", "open", "gone", "sent"}]
    BY <1>9, ServerTyped, Numbers DEF ServeDrop, CleanUp, AbortDraft, RemoveRow,
        HasRow, RowsOf, refs
  <2>4. UNCHANGED <<page, files, draftId, initP, key, pump, up, rm, leave, send,
        parked, faults, slips, shared>>
    BY <1>9 DEF ServeDrop, refs
  <2>. QED
    BY <2>1, <2>2, <2>3, <2>4, TypesNext, Types DEF Listed
<1>10. ASSUME NEW n \in Regs, Dropped(n) PROVE TypeOK'
  <2>1. \A m \in Regs : reg'[m] \in RegRecs
    BY <1>10, RefsTyped, RegTyped, Numbers DEF Dropped, RegRecs, RegStates, Ids
  <2>2. reg' = [m \in Regs |-> reg'[m]]
    BY <1>10, RegTyped DEF Dropped
  <2>3. reg' \in [Regs -> RegRecs]
    BY <2>1, <2>2
  <2>4. draftId' \in Ids
    BY <1>10, RefsTyped, RegTyped, Numbers DEF Dropped, server, Ids
  <2>5. initP' \in Ids
    BY <1>10, RefsTyped, RegTyped, Numbers DEF Dropped, server, Ids
  <2>6. UNCHANGED <<page, files, key, pump, up, rm, leave, send, draft, row,
        parked, faults, slips, shared>>
    BY <1>10 DEF Dropped, server
  <2>. QED
    BY <2>3, <2>4, <2>5, <2>6, TypesNext, Types DEF Listed
<1>11. ASSUME NEW n \in Regs, ServeRemove(n) PROVE TypeOK'
  <2>1. row' \in [Regs -> RowRecs]
    BY <1>11, RowTyped, ServerTyped, Numbers DEF ServeRemove, RemoveRow, HasRow,
        RowsOf, refs, RowRecs, RowStates, Ids
  <2>2. draft' \in [Regs -> {"none", "open", "gone", "sent"}]
    BY <1>11, ServerTyped, Numbers DEF ServeRemove, RemoveRow, HasRow, RowsOf, refs
  <2>3. rm' \in [Regs -> CallRecs]
    BY <1>11, CallsTyped, RefsTyped, Numbers DEF ServeRemove, RemoveRow, HasRow,
        RowsOf, refs, CallRecs, CallStates, Ids
  <2>4. UNCHANGED <<page, files, draftId, initP, key, pump, reg, up, leave, send,
        parked, faults, slips, shared>>
    BY <1>11 DEF ServeRemove, refs
  <2>. QED
    BY <2>1, <2>2, <2>3, <2>4, TypesNext, Types DEF Listed
<1>12. ASSUME NEW n \in Regs, Removed(n) PROVE TypeOK'
  <2>1. rm' \in [Regs -> CallRecs]
    BY <1>12, CallsTyped, RefsTyped, Numbers DEF Removed, ResetLocal, NoCall, Listed,
        Absent, server, CallRecs, CallStates, Ids
  <2>2. files' \in [Names -> FileRecs]
    BY <1>12, FilesTyped, RefsTyped, Numbers DEF Removed, ResetLocal, NoCall, Listed,
        Absent, server, FileRecs, FileStates, Ids
  <2>3. draftId' \in Ids
    BY <1>12, RefsTyped, RegTyped, Numbers DEF Removed, ResetLocal, NoCall, Listed,
        Absent, server, Ids
  <2>4. initP' \in Ids
    BY <1>12, RefsTyped, RegTyped, Numbers DEF Removed, ResetLocal, NoCall, Listed,
        Absent, server, Ids
  <2>5. key' \in Ids
    BY <1>12, RefsTyped, Numbers DEF Removed, ResetLocal, NoCall, Listed, Absent,
        server, Ids
  <2>6. slips' \subseteq Slips
    BY <1>12, RestTyped, Numbers DEF Removed, ResetLocal, NoCall, Listed, Absent,
        server, Slips
  <2>7. page' = "left" => Listed' = {}
    BY <1>12, Types DEF Removed, ResetLocal, NoCall, Listed, Absent, server
  <2>8. UNCHANGED <<page, pump, reg, up, leave, send, draft, row, parked, faults,
        shared>>
    BY <1>12 DEF Removed, server
  <2>. QED
    BY <2>1, <2>2, <2>3, <2>4, <2>5, <2>6, <2>7, <2>8, TypesNext, Types
<1>13. ASSUME NEW n \in Regs, PartsUp(n) PROVE TypeOK'
  <2>1. \E r \in UpRecs : up' = [up EXCEPT ![n] = r]
    <3>1. \A s \in {"complete", "short"} :
            [up[n] EXCEPT !.at = s, !.draft = draftId] \in UpRecs
      BY UpTyped, RefsTyped DEF UpRecs, UpStates
    <3>2. \E s \in {"complete", "short"} :
            up' = [up EXCEPT ![n] = [up[n] EXCEPT !.at = s, !.draft = draftId]]
      BY <1>13 DEF PartsUp
    <3>. QED
      BY <3>1, <3>2
  <2>2. up' \in [Regs -> UpRecs]
    BY <1>13, <2>1, UpTyped
  <2>3. UNCHANGED <<page, files, draftId, initP, key, pump, reg, rm, leave, send,
        draft, row, parked, faults, slips, shared>>
    BY <1>13 DEF PartsUp, refs, server
  <2>. QED
    BY <2>2, <2>3, TypesNext, Types DEF Listed
<1>14. ASSUME NEW n \in Regs, PartsFail(n) PROVE TypeOK'
  <2>1. \A m \in Regs : up'[m] \in UpRecs
    BY <1>14, FilesTyped, RefsTyped, UpTyped, Numbers DEF PartsFail, UpRecs, UpStates,
        Ids
  <2>2. up' = [m \in Regs |-> up'[m]]
    BY <1>14, UpTyped DEF PartsFail
  <2>3. up' \in [Regs -> UpRecs]
    BY <2>1, <2>2
  <2>4. UNCHANGED <<page, files, draftId, initP, key, pump, reg, rm, leave, send,
        draft, row, parked, faults, slips, shared>>
    BY <1>14 DEF PartsFail, refs, server
  <2>. QED
    BY <2>3, <2>4, TypesNext, Types DEF Listed
<1>15. ASSUME NEW n \in Regs, ServeComplete(n) PROVE TypeOK'
  <2>1. \A m \in Regs : up'[m] \in UpRecs
    BY <1>15, FilesTyped, RefsTyped, UpTyped, Numbers DEF ServeComplete, UpRecs,
        UpStates, Ids
  <2>2. up' = [m \in Regs |-> up'[m]]
    BY <1>15, UpTyped DEF ServeComplete
  <2>3. up' \in [Regs -> UpRecs]
    BY <2>1, <2>2
  <2>4. \A m \in Regs : row'[m] \in RowRecs
    BY <1>15, RowTyped, ServerTyped, UpTyped, Numbers DEF ServeComplete, UpRecs,
        RowRecs, RowStates, Ids
  <2>5. row' = [m \in Regs |-> row'[m]]
    BY <1>15, RowTyped DEF ServeComplete, UpRecs
  <2>6. row' \in [Regs -> RowRecs]
    BY <2>4, <2>5
  <2>7. UNCHANGED <<page, files, draftId, initP, key, pump, reg, rm, leave, send,
        draft, parked, faults, slips, shared>>
    BY <1>15 DEF ServeComplete, refs
  <2>. QED
    BY <2>3, <2>6, <2>7, TypesNext, Types DEF Listed
<1>16. ASSUME NEW n \in Regs, ServeShort(n) PROVE TypeOK'
  <2>1. \A m \in Regs : up'[m] \in UpRecs
    BY <1>16, FilesTyped, RefsTyped, UpTyped, Numbers DEF ServeShort, AbortDraft,
        HasRow, RowsOf, refs, UpRecs, UpStates, Ids
  <2>2. up' = [m \in Regs |-> up'[m]]
    BY <1>16, UpTyped DEF ServeShort, AbortDraft, HasRow, RowsOf, refs
  <2>3. up' \in [Regs -> UpRecs]
    BY <2>1, <2>2
  <2>4. \A m \in Regs : row'[m] \in RowRecs
    BY <1>16, RowTyped, ServerTyped, Numbers DEF ServeShort, AbortDraft, HasRow,
        RowsOf, refs, RowRecs, RowStates, Ids
  <2>5. row' = [m \in Regs |-> row'[m]]
    BY <1>16, RowTyped DEF ServeShort, AbortDraft, HasRow, RowsOf, refs
  <2>6. row' \in [Regs -> RowRecs]
    BY <2>4, <2>5
  <2>7. draft' \in [Regs -> {"none", "open", "gone", "sent"}]
    BY <1>16, ServerTyped, Numbers DEF ServeShort, AbortDraft, HasRow, RowsOf, refs
  <2>8. slips' \subseteq Slips
    BY <1>16, RestTyped, Numbers DEF ServeShort, AbortDraft, HasRow, RowsOf, refs,
        Slips
  <2>9. UNCHANGED <<page, files, draftId, initP, key, pump, reg, rm, leave, send,
        parked, faults, shared>>
    BY <1>16 DEF ServeShort, refs
  <2>. QED
    BY <2>3, <2>6, <2>7, <2>8, <2>9, TypesNext, Types DEF Listed
<1>17. ASSUME NEW n \in Regs, UploadSettled(n) PROVE TypeOK'
  <2>1. \A m \in Regs : up'[m] \in UpRecs
    BY <1>17, FilesTyped, RefsTyped, UpTyped, Numbers DEF UploadSettled, NoUpload,
        UpRecs, UpStates, Ids
  <2>2. up' = [m \in Regs |-> up'[m]]
    BY <1>17, UpTyped DEF UploadSettled, NoUpload
  <2>3. up' \in [Regs -> UpRecs]
    BY <2>1, <2>2
  <2>4. files' \in [Names -> FileRecs]
    BY <1>17, FilesTyped, RefsTyped, Numbers DEF UploadSettled, NoUpload, Mark, Patch,
        Outcome, server, FileRecs, FileStates, Ids
  <2>5. pump' \in Ids
    BY <1>17, FilesTyped, RefsTyped, Numbers DEF UploadSettled, NoUpload, Mark, Patch,
        Outcome, server, Ids
  <2>6. page' = "left" => Listed' = {}
    BY <1>17, Types DEF UploadSettled, NoUpload, Mark, Patch, Outcome, server, Listed
  <2>7. UNCHANGED <<page, draftId, initP, key, reg, rm, leave, send, draft, row,
        parked, faults, slips, shared>>
    BY <1>17 DEF UploadSettled, server
  <2>. QED
    BY <2>3, <2>4, <2>5, <2>6, <2>7, TypesNext, Types
<1>18. ASSUME NEW n \in Regs, ImportEnds(n) PROVE TypeOK'
  <2>1. row' \in [Regs -> RowRecs]
    BY <1>18, RowTyped, ServerTyped, Numbers DEF ImportEnds, refs, RowRecs, RowStates,
        Ids
  <2>2. UNCHANGED <<page, files, draftId, initP, key, pump, reg, up, rm, leave,
        send, draft, parked, faults, slips, shared>>
    BY <1>18 DEF ImportEnds, refs
  <2>. QED
    BY <2>1, <2>2, TypesNext, Types DEF Listed
<1>19. ASSUME Submit PROVE TypeOK'
  <2>1. send' \in SendRecs
    BY <1>19, RefsTyped, SendTyped, Numbers, BoundsAssumption DEF Submit, Sendable,
        Listed, refs, server, SendRecs, SendStates, Answers, Ids
  <2>2. UNCHANGED <<page, files, draftId, initP, key, pump, reg, up, rm, leave,
        draft, row, parked, faults, slips, shared>>
    BY <1>19 DEF Submit, refs, server
  <2>. QED
    BY <2>1, <2>2, TypesNext, Types DEF Listed
<1>20. ASSUME EditMetadata PROVE TypeOK'
  <2>1. send' \in SendRecs
    BY <1>20, RefsTyped, SendTyped, Numbers, BoundsAssumption DEF EditMetadata, refs,
        server, SendRecs, SendStates, Answers, Ids
  <2>2. UNCHANGED <<page, files, draftId, initP, key, pump, reg, up, rm, leave,
        draft, row, parked, faults, slips, shared>>
    BY <1>20 DEF EditMetadata, refs, server
  <2>. QED
    BY <2>1, <2>2, TypesNext, Types DEF Listed
<1>21. ASSUME TickRejects PROVE TypeOK'
  <2>1. send' \in SendRecs
    BY <1>21, RefsTyped, SendTyped, Numbers, BoundsAssumption DEF TickRejects, NoSend,
        KeyReady, Listed, refs, server, SendRecs, SendStates, Answers, Ids
  <2>2. UNCHANGED <<page, files, draftId, initP, key, pump, reg, up, rm, leave,
        draft, row, parked, faults, slips, shared>>
    BY <1>21 DEF TickRejects, refs, server
  <2>. QED
    BY <2>1, <2>2, TypesNext, Types DEF Listed
<1>22. ASSUME TickResolves PROVE TypeOK'
  <2>1. send' \in SendRecs
    BY <1>22, RefsTyped, SendTyped, Numbers, BoundsAssumption DEF TickResolves,
        KeyReady, Listed, refs, server, SendRecs, SendStates, Answers, Ids
  <2>2. slips' \subseteq Slips
    BY <1>22, RestTyped, Numbers DEF TickResolves, KeyReady, Listed, refs, server,
        Slips
  <2>3. UNCHANGED <<page, files, draftId, initP, key, pump, reg, up, rm, leave,
        draft, row, parked, faults, shared>>
    BY <1>22 DEF TickResolves, refs, server
  <2>. QED
    BY <2>1, <2>2, <2>3, TypesNext, Types DEF Listed
<1>23. ASSUME ServeFinalize PROVE TypeOK'
  <2> DEFINE d == send.id
  <2>1. Finalizes(d)
    BY <1>23, FinalizeStep
  <2>2. Pending(d) \subseteq Regs
    BY DEF Pending, RowsOf
  <2>3. send' \in SendRecs
    BY <2>1, <2>2, SendTyped DEF Finalizes, Waits, SendRecs, SendStates, Answers
  <2>4. draft' \in [Regs -> {"none", "open", "gone", "sent"}]
    BY <2>1, ServerTyped DEF Finalizes, Waits
  <2>5. row' \in [Regs -> RowRecs]
    <3>1. row' = row \/ row' = [n \in Regs |-> row'[n]]
      BY <2>1 DEF Finalizes, Waits
    <3>2. \A n \in Regs : row'[n] \in RowRecs
      BY <2>1, RowTyped DEF Finalizes, Waits, RowRecs, RowStates
    <3>. QED
      BY <3>1, <3>2, RowTyped
  <2>6. parked' \in [Regs -> Ids]
    <3>1. send.posted \in Ids
      BY SendTyped DEF SendRecs
    <3>. QED
      BY <2>1, <3>1, ServerTyped DEF Finalizes, Waits
  <2>7. shared' \in [Regs -> Shares]
    <3>1. [names |-> send.wanted, key |-> IF send.confidential THEN send.carried ELSE send.posted]
            \in Shares
      BY SendTyped DEF SendRecs, Shares
    <3>. QED
      BY <2>1, <3>1, ServerTyped DEF Finalizes, Waits
  <2>. QED
    BY <2>1, <2>3, <2>4, <2>5, <2>6, <2>7, Types, TypesNext DEF Finalizes, Listed
<1>24. ASSUME PollAgain PROVE TypeOK'
  <2>1. files' \in [Names -> FileRecs]
    BY <1>24, FilesTyped, RefsTyped, Numbers DEF PollAgain, Waiting, refs, server,
        FileRecs, FileStates, Ids
  <2>2. send' \in SendRecs
    BY <1>24, RefsTyped, SendTyped, Numbers, BoundsAssumption DEF PollAgain, Waiting,
        refs, server, SendRecs, SendStates, Answers, Ids
  <2>3. page' = "left" => Listed' = {}
    BY <1>24, Types, Numbers DEF PollAgain, Waiting, refs, server, Listed, FileInv,
        SendRecs, FileRecs
  <2>4. UNCHANGED <<page, draftId, initP, key, pump, reg, up, rm, leave, draft,
        row, parked, faults, slips, shared>>
    BY <1>24 DEF PollAgain, refs, server
  <2>. QED
    BY <2>1, <2>2, <2>3, <2>4, TypesNext, Types
<1>25. ASSUME SendFailed PROVE TypeOK'
  <2>1. send' \in SendRecs
    BY <1>25, RefsTyped, SendTyped, Numbers, BoundsAssumption DEF SendFailed, NoSend,
        refs, server, SendRecs, SendStates, Answers, Ids
  <2>2. UNCHANGED <<page, files, draftId, initP, key, pump, reg, up, rm, leave,
        draft, row, parked, faults, slips, shared>>
    BY <1>25 DEF SendFailed, refs, server
  <2>. QED
    BY <2>1, <2>2, TypesNext, Types DEF Listed
<1>26. ASSUME Sent PROVE TypeOK'
  <2>1. send' \in SendRecs
    BY <1>26, RefsTyped, SendTyped, Numbers, BoundsAssumption DEF Sent, StopLocal,
        ResetLocal, Absent, server, SendRecs, SendStates, Answers, Ids
  <2>2. page' \in {"open", "left"}
    BY <1>26, RestTyped, Numbers DEF Sent, StopLocal, ResetLocal, Absent, server
  <2>3. up' = up \/ (pump \in Regs /\ up' = [up EXCEPT ![pump].aborted = TRUE])
    BY <1>26, UpTyped, RefsTyped, Numbers DEF Sent, StopLocal, Ids
  <2>4. \A m \in Regs : up'[m] \in UpRecs
    BY <2>3, UpTyped DEF UpRecs
  <2>5. up' = [m \in Regs |-> up'[m]]
    BY <2>3, UpTyped
  <2>6. up' \in [Regs -> UpRecs]
    BY <2>4, <2>5
  <2>7. pump' \in Ids
    BY <1>26, FilesTyped, RefsTyped, Numbers DEF Sent, StopLocal, ResetLocal, Absent,
        server, Ids
  <2>8. draftId' \in Ids
    BY <1>26, RefsTyped, RegTyped, Numbers DEF Sent, StopLocal, ResetLocal, Absent,
        server, Ids
  <2>9. initP' \in Ids
    BY <1>26, RefsTyped, RegTyped, Numbers DEF Sent, StopLocal, ResetLocal, Absent,
        server, Ids
  <2>10. key' \in Ids
    BY <1>26, RefsTyped, Numbers DEF Sent, StopLocal, ResetLocal, Absent, server, Ids
  <2>11. files' \in [Names -> FileRecs]
    BY <1>26, FilesTyped, RefsTyped, Numbers DEF Sent, StopLocal, ResetLocal, Absent,
        server, FileRecs, FileStates, Ids
  <2>12. page' = "left" => Listed' = {}
    BY <1>26, Types DEF Sent, StopLocal, ResetLocal, Absent, server, Listed
  <2>13. UNCHANGED <<reg, rm, leave, draft, row, parked, faults, slips, shared>>
    BY <1>26 DEF Sent, server
  <2>. QED
    BY <2>1, <2>2, <2>6, <2>7, <2>8, <2>9, <2>10, <2>11, <2>12, <2>13, TypesNext,
        Types
<1>27. ASSUME PollTimesOut PROVE TypeOK'
  <2>1. send' \in SendRecs
    BY <1>27, RefsTyped, SendTyped, Numbers, BoundsAssumption DEF PollTimesOut, NoSend,
        Waiting, refs, server, SendRecs, SendStates, Answers, Ids
  <2>2. UNCHANGED <<page, files, draftId, initP, key, pump, reg, up, rm, leave,
        draft, row, parked, faults, slips, shared>>
    BY <1>27 DEF PollTimesOut, refs, server
  <2>. QED
    BY <2>1, <2>2, TypesNext, Types DEF Listed
<1>28. ASSUME Leave PROVE TypeOK'
  <2>1. page' \in {"open", "left"}
    BY <1>28, RestTyped, Numbers DEF Leave, StopLocal, ResetLocal, NoCall, Absent,
        server
  <2>2. up' = up \/ (pump \in Regs /\ up' = [up EXCEPT ![pump].aborted = TRUE])
    BY <1>28, UpTyped, RefsTyped, Numbers DEF Leave, StopLocal, Ids
  <2>3. \A m \in Regs : up'[m] \in UpRecs
    BY <2>2, UpTyped DEF UpRecs
  <2>4. up' = [m \in Regs |-> up'[m]]
    BY <2>2, UpTyped
  <2>5. up' \in [Regs -> UpRecs]
    BY <2>3, <2>4
  <2>6. pump' \in Ids
    BY <1>28, FilesTyped, RefsTyped, Numbers DEF Leave, StopLocal, ResetLocal, NoCall,
        Absent, server, Ids
  <2>7. draftId' \in Ids
    BY <1>28, RefsTyped, RegTyped, Numbers DEF Leave, StopLocal, ResetLocal, NoCall,
        Absent, server, Ids
  <2>8. initP' \in Ids
    BY <1>28, RefsTyped, RegTyped, Numbers DEF Leave, StopLocal, ResetLocal, NoCall,
        Absent, server, Ids
  <2>9. key' \in Ids
    BY <1>28, RefsTyped, Numbers DEF Leave, StopLocal, ResetLocal, NoCall, Absent,
        server, Ids
  <2>10. files' \in [Names -> FileRecs]
    BY <1>28, FilesTyped, RefsTyped, Numbers DEF Leave, StopLocal, ResetLocal, NoCall,
        Absent, server, FileRecs, FileStates, Ids
  <2>11. leave' \in CallRecs
    BY <1>28, CallsTyped, RefsTyped, Numbers DEF Leave, StopLocal, ResetLocal, NoCall,
        Absent, server, CallRecs, CallStates, Ids
  <2>12. page' = "left" => Listed' = {}
    BY <1>28, Types DEF Leave, StopLocal, ResetLocal, NoCall, Absent, server, Listed
  <2>13. UNCHANGED <<reg, rm, send, draft, row, parked, faults, slips, shared>>
    BY <1>28 DEF Leave, server
  <2>. QED
    BY <2>1, <2>5, <2>6, <2>7, <2>8, <2>9, <2>10, <2>11, <2>12, <2>13, TypesNext,
        Types
<1>29. ASSUME ServeAbort PROVE TypeOK'
  <2>1. draft' \in [Regs -> {"none", "open", "gone", "sent"}]
    BY <1>29, ServerTyped, Numbers DEF ServeAbort, AbortDraft, RowsOf, NoCall, refs
  <2>2. \A m \in Regs : row'[m] \in RowRecs
    BY <1>29, RowTyped, ServerTyped, Numbers DEF ServeAbort, AbortDraft, RowsOf,
        NoCall, refs, RowRecs, RowStates, Ids
  <2>3. row' = [m \in Regs |-> row'[m]]
    BY <1>29, RowTyped DEF ServeAbort, AbortDraft, RowsOf, NoCall, refs
  <2>4. row' \in [Regs -> RowRecs]
    BY <2>2, <2>3
  <2>5. leave' \in CallRecs
    BY <1>29, CallsTyped, RefsTyped, Numbers DEF ServeAbort, AbortDraft, RowsOf,
        NoCall, refs, CallRecs, CallStates, Ids
  <2>6. UNCHANGED <<page, files, draftId, initP, key, pump, reg, up, rm, send,
        parked, faults, slips, shared>>
    BY <1>29 DEF ServeAbort, refs
  <2>. QED
    BY <2>1, <2>4, <2>5, <2>6, TypesNext, Types DEF Listed
<1>30. ASSUME NEW n \in Regs, LoseRegistration(n) PROVE TypeOK'
  <2>1. \A m \in Regs : reg'[m] \in RegRecs
    BY <1>30, RefsTyped, RegTyped, Numbers DEF LoseRegistration, Fault, refs, server,
        RegRecs, RegStates, Ids
  <2>2. reg' = [m \in Regs |-> reg'[m]]
    BY <1>30, RegTyped DEF LoseRegistration, Fault, refs, server
  <2>3. reg' \in [Regs -> RegRecs]
    BY <2>1, <2>2
  <2>4. faults' \in 0 .. MaxFaults
    BY <1>30, RestTyped, Numbers, BoundsAssumption DEF LoseRegistration, Fault, refs,
        server
  <2>5. slips' \subseteq Slips
    BY <1>30, RestTyped, Numbers DEF LoseRegistration, Fault, refs, server, Slips
  <2>6. UNCHANGED <<page, files, draftId, initP, key, pump, up, rm, leave, send,
        draft, row, parked, shared>>
    BY <1>30 DEF LoseRegistration, Fault, refs, server
  <2>. QED
    BY <2>3, <2>4, <2>5, <2>6, TypesNext, Types DEF Listed
<1>31. ASSUME NEW n \in Regs, LoseUpload(n) PROVE TypeOK'
  <2>1. \A m \in Regs : up'[m] \in UpRecs
    BY <1>31, FilesTyped, RefsTyped, UpTyped, Numbers DEF LoseUpload, UpRecs, UpStates,
        Ids
  <2>2. up' = [m \in Regs |-> up'[m]]
    BY <1>31, UpTyped DEF LoseUpload
  <2>3. up' \in [Regs -> UpRecs]
    BY <2>1, <2>2
  <2>4. faults' \in 0 .. MaxFaults
    BY <1>31, RestTyped, Numbers, BoundsAssumption DEF LoseUpload, Fault, refs, server
  <2>5. slips' \subseteq Slips
    BY <1>31, RestTyped, Numbers DEF LoseUpload, Fault, refs, server, Slips
  <2>6. UNCHANGED <<page, files, draftId, initP, key, pump, reg, rm, leave, send,
        draft, row, parked, shared>>
    BY <1>31 DEF LoseUpload, Fault, refs, server
  <2>. QED
    BY <2>3, <2>4, <2>5, <2>6, TypesNext, Types DEF Listed
<1>32. ASSUME NEW n \in Regs, LoseRemoval(n) PROVE TypeOK'
  <2>1. rm' \in [Regs -> CallRecs]
    BY <1>32, CallsTyped, RefsTyped, Numbers DEF LoseRemoval, Fault, refs, server,
        CallRecs, CallStates, Ids
  <2>2. faults' \in 0 .. MaxFaults
    BY <1>32, RestTyped, Numbers, BoundsAssumption DEF LoseRemoval, Fault, refs, server
  <2>3. slips' \subseteq Slips
    BY <1>32, RestTyped, Numbers DEF LoseRemoval, Fault, refs, server, Slips
  <2>4. UNCHANGED <<page, files, draftId, initP, key, pump, reg, up, leave, send,
        draft, row, parked, shared>>
    BY <1>32 DEF LoseRemoval, Fault, refs, server
  <2>. QED
    BY <2>1, <2>2, <2>3, <2>4, TypesNext, Types DEF Listed
<1>33. ASSUME LoseFinalize PROVE TypeOK'
  <2>1. send' \in SendRecs
    BY <1>33, RefsTyped, SendTyped, Numbers, BoundsAssumption DEF LoseFinalize, Fault,
        refs, server, SendRecs, SendStates, Answers, Ids
  <2>2. faults' \in 0 .. MaxFaults
    BY <1>33, RestTyped, Numbers, BoundsAssumption DEF LoseFinalize, Fault, refs,
        server
  <2>3. slips' \subseteq Slips
    BY <1>33, RestTyped, Numbers DEF LoseFinalize, Fault, refs, server, Slips
  <2>4. UNCHANGED <<page, files, draftId, initP, key, pump, reg, up, rm, leave,
        draft, row, parked, shared>>
    BY <1>33 DEF LoseFinalize, Fault, refs, server
  <2>. QED
    BY <2>1, <2>2, <2>3, <2>4, TypesNext, Types DEF Listed
<1>34. ASSUME LoseAbort PROVE TypeOK'
  <2>1. leave' \in CallRecs
    BY <1>34, CallsTyped, RefsTyped, Numbers DEF LoseAbort, Fault, NoCall, refs,
        server, CallRecs, CallStates, Ids
  <2>2. faults' \in 0 .. MaxFaults
    BY <1>34, RestTyped, Numbers, BoundsAssumption DEF LoseAbort, Fault, NoCall, refs,
        server
  <2>3. slips' \subseteq Slips
    BY <1>34, RestTyped, Numbers DEF LoseAbort, Fault, NoCall, refs, server, Slips
  <2>4. UNCHANGED <<page, files, draftId, initP, key, pump, reg, up, rm, send,
        draft, row, parked, shared>>
    BY <1>34 DEF LoseAbort, Fault, refs, server
  <2>. QED
    BY <2>1, <2>2, <2>3, <2>4, TypesNext, Types DEF Listed
<1>35. CASE UNCHANGED vars
  BY <1>35, Types, TypesNext DEF vars, refs, server, Listed
<1>. QED
  BY <1>1, <1>2, <1>3, <1>4, <1>5, <1>6, <1>7, <1>8, <1>9, <1>10, <1>11, <1>12,
      <1>13, <1>14, <1>15, <1>16, <1>17, <1>18, <1>19, <1>20, <1>21, <1>22, <1>23,
      <1>24, <1>25, <1>26, <1>27, <1>28, <1>29, <1>30, <1>31, <1>32, <1>33, <1>34,
      <1>35 DEF Next, Answer, SendStep, Loss

-----------------------------------------------------------------------------
(* What any step may do. *)

\* A registration goes forward: it is named at its start, and its draft is
\* settled once it waits no more.
RegMoves(m) ==
    /\ reg'[m].at = "free" => reg'[m] = reg[m]
    /\ reg[m].at # "free" => reg'[m].at # "free" /\ reg'[m].name = reg[m].name
    /\ reg[m].at \notin {"free", "wait"} =>
         reg'[m].at \notin {"free", "wait"} /\ reg'[m].known = reg[m].known
    /\ reg[m].at \in Served => reg'[m].at \in Served
    /\ reg[m].at \in Settled => reg'[m].at \in Settled
    /\ reg[m].at = "end" => reg'[m] = reg[m]

\* A row is created for its registration and keeps its draft; its bytes come
\* from its uploader or from its import.
RowMoves(m) ==
    /\ row[m].state # "none" => row'[m].state # "none" /\ row'[m].draft = row[m].draft
    /\ \/ row'[m] = row[m]
       \/ /\ row[m].state = "none" /\ reg[m].at = "post" /\ reg'[m].at = "reply"
          /\ row'[m].state = "open" /\ row'[m].enc = None
          /\ row'[m].draft = DraftOf(m) /\ reg'[m].known = reg[m].known
          /\ draft'[row'[m].draft] = "open"
       \/ /\ row[m].state # "none" /\ row'[m].state \in {"gone", "failed", "importing"}
          /\ row'[m].enc = row[m].enc
          /\ row'[m].state = "importing" => /\ parked'[row[m].draft] # None
                                            /\ draft[row[m].draft] = "open"
                                            /\ row[m].state \notin {"landed", "gone"}
          /\ row'[m].state = "failed" => row[m].state = "importing"
          /\ row'[m].state = "gone" => draft[row[m].draft] = "open"
       \/ /\ row[m].state = "open" /\ row'[m].state = "landed"
          /\ up[m].at = "complete" /\ row'[m].enc = up[m].enc
       \/ /\ row[m].state = "importing" /\ row'[m].state = "landed"
          /\ row'[m].enc = parked[row[m].draft]
       \/ /\ row[m].state = "landed" /\ row'[m].state = "sent"
          /\ row'[m].enc = row[m].enc /\ draft'[row[m].draft] = "sent"
          /\ Finalizing /\ send.id = row[m].draft /\ shared'[send.id].key = Secret

\* A draft is opened by a registration, and ends once; finalize parks what it
\* posts, and notes what it shares.
DraftMoves(d) ==
    /\ \/ draft'[d] = draft[d]
       \/ draft[d] = "none" /\ draft'[d] = "open" /\ reg'[d].at = "reply"
       \/ draft[d] = "open" /\ draft'[d] \in {"gone", "sent"}
    /\ \/ parked'[d] = parked[d]
       \/ /\ draft[d] = "open" /\ send.at = "post" /\ send.id = d /\ ~send.confidential
          /\ parked'[d] = send.posted
    /\ shared'[d] = shared[d] \/ draft[d] = "open"

\* An uploader starts under the key of the page, for a row.
UpMoves(m) ==
    \/ /\ up'[m].enc = up[m].enc
       /\ up'[m].at \in {"parts", "complete"} => up[m].at \in {"parts", "complete"}
    \/ up'[m].enc = None /\ up'[m].at = "end"
    \/ /\ up'[m].enc = key /\ key # None /\ row[m].state # "none"
       /\ \E k \in Names : files[k].state = "registered"

\* Every step moves a registration so.
LEMMA RegStep == 
    ASSUME IInv, [Next]_vars, NEW m \in Regs PROVE RegMoves(m)
<1>1. ASSUME NEW n \in Regs, NEW k \in Names, AddFile(n, k) PROVE RegMoves(m)
  BY <1>1, Numbers, RegTyped, RefsTyped DEF AddFile, Pickable, Start, Disarm,
      server, IInv, RegMoves, Served, Settled, RegRecs, Ids
<1>2. ASSUME NEW n \in Regs, InitSettled(n) PROVE RegMoves(m)
  BY <1>2, Numbers, RegTyped, RefsTyped DEF InitSettled, Mark, Patch, Start,
      DraftOf, refs, server, IInv, RegMoves, Served, Settled, RegRecs, Ids
<1>3. ASSUME NEW n \in Regs, Minted(n) PROVE RegMoves(m)
  BY <1>3, Numbers, RegTyped, RefsTyped DEF Minted, server, IInv, RegMoves, Served,
      Settled, RegRecs, Ids
<1>4. ASSUME NEW n \in Regs, ServeAdd(n) PROVE RegMoves(m)
  BY <1>4, Numbers, RegTyped, RefsTyped DEF ServeAdd, DraftOf, refs, IInv,
      RegMoves, Served, Settled, RegRecs, Ids
<1>5. ASSUME NEW n \in Regs, Registered(n) PROVE RegMoves(m)
  BY <1>5, Numbers, RegTyped, RefsTyped DEF Registered, DraftOf, server, IInv,
      RegMoves, Served, Settled, RegRecs, Ids
<1>6. ASSUME NEW n \in Regs, RegistrationFailed(n) PROVE RegMoves(m)
  BY <1>6, Numbers, RegTyped, RefsTyped DEF RegistrationFailed, Mark, Patch,
      server, IInv, RegMoves, Served, Settled, RegRecs, Ids
<1>7. ASSUME NEW n \in Regs, ServeDrop(n) PROVE RegMoves(m)
  BY <1>7, Numbers, RegTyped, RefsTyped DEF ServeDrop, CleanUp, AbortDraft,
      RemoveRow, HasRow, RowsOf, refs, IInv, RegMoves, Served, Settled, RegRecs,
      Ids
<1>8. ASSUME NEW n \in Regs, Dropped(n) PROVE RegMoves(m)
  BY <1>8, Numbers, RegTyped, RefsTyped DEF Dropped, server, IInv, RegMoves,
      Served, Settled, RegRecs, Ids
<1>9. ASSUME NEW n \in Regs, LoseRegistration(n) PROVE RegMoves(m)
  BY <1>9, Numbers, RegTyped, RefsTyped DEF LoseRegistration, Fault, refs, server,
      IInv, RegMoves, Served, Settled, RegRecs, Ids
<1>10. ASSUME NEW k \in Names, RemoveFile(k) \/ PumpStart(k) PROVE RegMoves(m)
  BY <1>10, Numbers, RegTyped, RefsTyped DEF RemoveFile, PumpStart, refs, server,
      IInv, RegMoves, Served, Settled, RegRecs, Ids
<1>11. ASSUME NEW n \in Regs, ServeRemove(n) \/ Removed(n) \/ PartsUp(n) \/
          PartsFail(n) \/ ServeComplete(n) \/ ServeShort(n) \/ UploadSettled(n) \/
          ImportEnds(n) \/ LoseUpload(n) \/ LoseRemoval(n) PROVE RegMoves(m)
  BY <1>11, Numbers, RegTyped, RefsTyped DEF ServeRemove, Removed, PartsUp,
      PartsFail, ServeComplete, ServeShort, UploadSettled, ImportEnds, LoseUpload,
      LoseRemoval, refs, server, Fault, IInv, RegMoves, Served, Settled, RegRecs,
      Ids
<1>12. ASSUME Submit \/ EditMetadata \/ TickRejects \/ TickResolves \/
          ServeFinalize \/ PollAgain \/ SendFailed \/ Sent \/ PollTimesOut \/ Leave
          \/ ServeAbort \/ LoseFinalize \/ LoseAbort PROVE RegMoves(m)
  BY <1>12, Numbers, RegTyped, RefsTyped DEF Submit, EditMetadata, TickRejects,
      TickResolves, ServeFinalize, PollAgain, SendFailed, Sent, PollTimesOut,
      Leave, ServeAbort, LoseFinalize, LoseAbort, refs, server, Fault, IInv,
      RegMoves, Served, Settled, RegRecs, Ids
<1>13. CASE UNCHANGED vars
  BY <1>13, Numbers, RegTyped, RefsTyped DEF vars, refs, server, IInv, RegMoves,
      Served, Settled, RegRecs, Ids
<1>. QED
  BY <1>1, <1>2, <1>3, <1>4, <1>5, <1>6, <1>7, <1>8, <1>9, <1>10, <1>11, <1>12,
      <1>13 DEF Next, Answer, SendStep, Loss

\* Every step moves a row so.
LEMMA RowStep == 
    ASSUME IInv, [Next]_vars, NEW m \in Regs PROVE RowMoves(m)
<1>1. ASSUME NEW n \in Regs, ServeAdd(n) PROVE RowMoves(m)
  <2>1. DraftOf(n) = DraftOf(n)' /\ reg'[n].at = "reply" /\ reg'[n].known = reg[n].known
    BY <1>1, RegTyped DEF ServeAdd, DraftOf, RegRecs, IInv
  <2>2. CASE m # n \/ row' = row
    BY <1>1, <2>2, RowTyped DEF ServeAdd, RowMoves, IInv
  <2>3. CASE m = n /\ row' # row
    <3>1. row[n].state = "none"
      BY <1>1, Numbers DEF ServeAdd, IInv, RowInv, Served
    <3>2. row'[n] = [state |-> "open", draft |-> DraftOf(n), enc |-> None]
      BY <1>1, <2>3, RowTyped DEF ServeAdd, IInv
    <3>3. DraftOf(n) \in Regs
      BY RegTyped DEF DraftOf, RegRecs, Ids, IInv
    <3>4. draft'[DraftOf(n)] = "open"
      BY <1>1, <2>3, <3>3, ServerTyped DEF ServeAdd, IInv
    <3>. QED
      BY <1>1, <2>1, <2>3, <3>1, <3>2, <3>4 DEF ServeAdd, RowMoves
  <2>. QED
    BY <2>2, <2>3
<1>2. ASSUME NEW n \in Regs, ServeDrop(n) PROVE RowMoves(m)
  BY <1>2, Numbers, RowTyped, RegTyped DEF ServeDrop, CleanUp, AbortDraft,
      RemoveRow, HasRow, RowsOf, refs, IInv, RowMoves, DraftOf, RowRecs, RegRecs
<1>3. ASSUME NEW n \in Regs, ServeRemove(n) PROVE RowMoves(m)
  BY <1>3, Numbers, RowTyped, RegTyped DEF ServeRemove, RemoveRow, HasRow, RowsOf,
      refs, IInv, RowMoves, DraftOf, RowRecs, RegRecs
<1>4. ASSUME NEW n \in Regs, ServeComplete(n) PROVE RowMoves(m)
  BY <1>4, Numbers, RowTyped, RegTyped DEF ServeComplete, HasRow, RowsOf, refs,
      IInv, RowMoves, DraftOf, RowRecs, RegRecs
<1>5. ASSUME NEW n \in Regs, ServeShort(n) PROVE RowMoves(m)
  BY <1>5, Numbers, RowTyped, RegTyped DEF ServeShort, AbortDraft, HasRow, RowsOf,
      refs, IInv, RowMoves, DraftOf, RowRecs, RegRecs
<1>6. ASSUME NEW n \in Regs, ImportEnds(n) PROVE RowMoves(m)
  BY <1>6, Numbers, RowTyped, RegTyped DEF ImportEnds, refs, IInv, RowMoves,
      DraftOf, RowRecs, RegRecs
<1>7. ASSUME ServeFinalize PROVE RowMoves(m)
  <2> DEFINE d == send.id
  <2>1. /\ Finalizes(d) /\ d \in Regs /\ send.at = "post"
        /\ ~send.confidential => send.posted # None
    BY <1>7, FinalizeStep DEF IInv, FinalInv, Finalizing
  <2>2. reg[m].name \in Names \/ row[m].state = "none"
    BY Numbers, RegTyped DEF IInv, RowInv, RegInv, RegOk, Served, RegRecs
  <2>3. CASE row' = row
    BY <2>3 DEF RowMoves
  <2>4. CASE m \in Pending(d) /\ Waits(d) /\ ~FinalizeRefused(d)
                /\ parked' = [parked EXCEPT ![d] = IF send.confidential THEN @ ELSE send.posted]
    <3>1. ~send.confidential /\ row[m].draft = d /\ row[m].state # "none"
      BY <2>4 DEF Pending, FinalizeRefused, RowsOf
    <3>2. parked'[d] # None
      BY <2>1, <2>4, <3>1, ServerTyped DEF IInv
    <3>3. row'[m] = row[m] \/ (row'[m].state = "importing" /\ row'[m].enc = row[m].enc
                                 /\ row'[m].draft = row[m].draft)
      BY <2>4, RowTyped DEF Waits, IInv, RowRecs
    <3>4. draft[d] = "open" /\ row[m].state \notin {"landed", "gone"}
      BY <2>4 DEF FinalizeRefused, Pending, RowsOf
    <3>. QED
      BY <3>1, <3>2, <3>3, <3>4 DEF RowMoves
  <2>5. CASE m \notin Pending(d) /\ Waits(d)
    BY <2>5 DEF Waits, RowMoves
  <2>6. CASE /\ Pending(d) = {} /\ ~FinalizeRefused(d)
             /\ draft' = [draft EXCEPT ![d] = "sent"]
             /\ row' = [n \in Regs |-> IF n \in RowsOf(d)
                                       THEN [row[n] EXCEPT !.state = "sent"] ELSE row[n]]
             /\ shared' = [shared EXCEPT ![d] =
                            [names |-> send.wanted,
                             key |-> IF send.confidential THEN send.carried
                                     ELSE send.posted]]
    <3>1. m \in RowsOf(d) => row[m].state = "landed" /\ row[m].draft = d
      BY <2>2, <2>6 DEF Pending, FinalizeRefused, RowsOf, Names
    <3>2. draft'[d] = "sent" /\ shared'[d].key = Secret
      BY <2>1, <2>6, ServerTyped DEF IInv, Secret
    <3>3. m \in RowsOf(d) => row'[m].state = "sent" /\ row'[m].enc = row[m].enc
                              /\ row'[m].draft = row[m].draft
      BY <2>6, RowTyped DEF IInv, RowRecs
    <3>4. m \notin RowsOf(d) => row'[m] = row[m]
      BY <2>6
    <3>. QED
      BY <2>1, <3>1, <3>2, <3>3, <3>4 DEF RowMoves, Finalizing
  <2>. QED
    BY <2>1, <2>3, <2>4, <2>5, <2>6 DEF Finalizes
<1>8. ASSUME ServeAbort PROVE RowMoves(m)
  BY <1>8, Numbers, RowTyped, RegTyped DEF ServeAbort, AbortDraft, RowsOf, NoCall,
      refs, IInv, RowMoves, DraftOf, RowRecs, RegRecs
<1>9. ASSUME NEW n \in Regs, NEW k \in Names, AddFile(n, k) PROVE RowMoves(m)
  BY <1>9, Numbers, RowTyped, RegTyped DEF AddFile, refs, server, IInv, RowMoves,
      DraftOf, RowRecs, RegRecs
<1>10. ASSUME NEW k \in Names, RemoveFile(k) \/ PumpStart(k) PROVE RowMoves(m)
  BY <1>10, Numbers, RowTyped, RegTyped DEF RemoveFile, PumpStart, refs, server,
      IInv, RowMoves, DraftOf, RowRecs, RegRecs
<1>11. ASSUME NEW n \in Regs, InitSettled(n) \/ Minted(n) \/ Registered(n) \/
          RegistrationFailed(n) \/ Dropped(n) \/ Removed(n) \/ PartsUp(n) \/
          PartsFail(n) \/ UploadSettled(n) \/ LoseRegistration(n) \/ LoseUpload(n)
          \/ LoseRemoval(n) PROVE RowMoves(m)
  BY <1>11, Numbers, RowTyped, RegTyped DEF InitSettled, Minted, Registered,
      RegistrationFailed, Dropped, Removed, PartsUp, PartsFail, UploadSettled,
      LoseRegistration, LoseUpload, LoseRemoval, refs, server, Fault, IInv,
      RowMoves, DraftOf, RowRecs, RegRecs
<1>12. ASSUME Submit \/ EditMetadata \/ TickRejects \/ TickResolves \/ PollAgain \/
          SendFailed \/ Sent \/ PollTimesOut \/ Leave \/ LoseFinalize \/ LoseAbort
          PROVE RowMoves(m)
  BY <1>12, Numbers, RowTyped, RegTyped DEF Submit, EditMetadata, TickRejects,
      TickResolves, PollAgain, SendFailed, Sent, PollTimesOut, Leave, LoseFinalize,
      LoseAbort, refs, server, Fault, IInv, RowMoves, DraftOf, RowRecs, RegRecs
<1>13. CASE UNCHANGED vars
  BY <1>13, Numbers, RowTyped, RegTyped DEF vars, refs, server, IInv, RowMoves,
      DraftOf, RowRecs, RegRecs
<1>. QED
  BY <1>1, <1>2, <1>3, <1>4, <1>5, <1>6, <1>7, <1>8, <1>9, <1>10, <1>11, <1>12,
      <1>13 DEF Next, Answer, SendStep, Loss

\* Every step moves a draft so.
LEMMA DraftStep == 
    ASSUME IInv, [Next]_vars, NEW m \in Regs PROVE DraftMoves(m)
<1>1. ASSUME NEW n \in Regs, ServeAdd(n) PROVE DraftMoves(m)
  BY <1>1, Numbers, ServerTyped, RegTyped DEF ServeAdd, DraftOf, refs, IInv,
      DraftMoves, DraftInv, Served, RegRecs
<1>2. ASSUME NEW n \in Regs, ServeDrop(n) PROVE DraftMoves(m)
  BY <1>2, Numbers, ServerTyped, RegTyped DEF ServeDrop, CleanUp, AbortDraft,
      RemoveRow, HasRow, RowsOf, refs, IInv, DraftMoves, DraftInv, Served, RegRecs
<1>3. ASSUME NEW n \in Regs, ServeRemove(n) PROVE DraftMoves(m)
  BY <1>3, Numbers, ServerTyped, RegTyped DEF ServeRemove, RemoveRow, HasRow,
      RowsOf, refs, IInv, DraftMoves, DraftInv, Served, RegRecs
<1>4. ASSUME NEW n \in Regs, ServeShort(n) PROVE DraftMoves(m)
  BY <1>4, Numbers, ServerTyped, RegTyped DEF ServeShort, AbortDraft, HasRow,
      RowsOf, refs, IInv, DraftMoves, DraftInv, Served, RegRecs
<1>5. ASSUME ServeFinalize PROVE DraftMoves(m)
  <2> DEFINE d == send.id
  <2>1. Finalizes(d) /\ d \in Regs /\ send.at = "post"
    BY <1>5, FinalizeStep DEF IInv, FinalInv
  <2>2. ~FinalizeRefused(d) => draft[d] = "open"
    BY DEF FinalizeRefused
  <2>. QED
    BY <2>1, <2>2, ServerTyped DEF Finalizes, Waits, DraftMoves, IInv
<1>6. ASSUME ServeAbort PROVE DraftMoves(m)
  BY <1>6, Numbers, ServerTyped, RegTyped DEF ServeAbort, AbortDraft, RowsOf,
      NoCall, refs, IInv, DraftMoves, DraftInv, Served, RegRecs
<1>7. ASSUME NEW n \in Regs, NEW k \in Names, AddFile(n, k) PROVE DraftMoves(m)
  BY <1>7, Numbers, ServerTyped, RegTyped DEF AddFile, refs, server, IInv,
      DraftMoves, DraftInv, Served, RegRecs
<1>8. ASSUME NEW k \in Names, RemoveFile(k) \/ PumpStart(k) PROVE DraftMoves(m)
  BY <1>8, Numbers, ServerTyped, RegTyped DEF RemoveFile, PumpStart, refs, server,
      IInv, DraftMoves, DraftInv, Served, RegRecs
<1>9. ASSUME NEW n \in Regs, InitSettled(n) \/ Minted(n) \/ Registered(n) \/
          RegistrationFailed(n) \/ Dropped(n) \/ Removed(n) \/ PartsUp(n) \/
          PartsFail(n) \/ ServeComplete(n) \/ UploadSettled(n) \/ ImportEnds(n) \/
          LoseRegistration(n) \/ LoseUpload(n) \/ LoseRemoval(n) PROVE
          DraftMoves(m)
  BY <1>9, Numbers, ServerTyped, RegTyped DEF InitSettled, Minted, Registered,
      RegistrationFailed, Dropped, Removed, PartsUp, PartsFail, ServeComplete,
      UploadSettled, ImportEnds, LoseRegistration, LoseUpload, LoseRemoval, refs,
      server, Fault, IInv, DraftMoves, DraftInv, Served, RegRecs
<1>10. ASSUME Submit \/ EditMetadata \/ TickRejects \/ TickResolves \/ PollAgain \/
          SendFailed \/ Sent \/ PollTimesOut \/ Leave \/ LoseFinalize \/ LoseAbort
          PROVE DraftMoves(m)
  BY <1>10, Numbers, ServerTyped, RegTyped DEF Submit, EditMetadata, TickRejects,
      TickResolves, PollAgain, SendFailed, Sent, PollTimesOut, Leave, LoseFinalize,
      LoseAbort, refs, server, Fault, IInv, DraftMoves, DraftInv, Served, RegRecs
<1>11. CASE UNCHANGED vars
  BY <1>11, Numbers, ServerTyped, RegTyped DEF vars, refs, server, IInv,
      DraftMoves, DraftInv, Served, RegRecs
<1>. QED
  BY <1>1, <1>2, <1>3, <1>4, <1>5, <1>6, <1>7, <1>8, <1>9, <1>10, <1>11 DEF Next,
      Answer, SendStep, Loss

\* Every step moves an uploader so.
LEMMA UpStep == 
    ASSUME IInv, [Next]_vars, NEW m \in Regs PROVE UpMoves(m)
<1>1. ASSUME NEW k \in Names, RemoveFile(k) PROVE UpMoves(m)
  BY <1>1, Numbers, UpTyped, RefsTyped, FilesTyped DEF RemoveFile, Removable,
      Disarm, Absent, server, IInv, UpMoves, FileInv, UpRecs, Ids, FileRecs
<1>2. ASSUME NEW k \in Names, PumpStart(k) PROVE UpMoves(m)
  BY <1>2, Numbers, UpTyped, RefsTyped, FilesTyped DEF PumpStart, server, IInv,
      UpMoves, FileInv, UpRecs, Ids, FileRecs
<1>3. ASSUME NEW n \in Regs, PartsUp(n) PROVE UpMoves(m)
  BY <1>3, Numbers, UpTyped, RefsTyped, FilesTyped DEF PartsUp, HasRow, RowsOf,
      refs, server, IInv, UpMoves, FileInv, UpRecs, Ids, FileRecs
<1>4. ASSUME NEW n \in Regs, PartsFail(n) PROVE UpMoves(m)
  BY <1>4, Numbers, UpTyped, RefsTyped, FilesTyped DEF PartsFail, HasRow, RowsOf,
      refs, server, IInv, UpMoves, FileInv, UpRecs, Ids, FileRecs
<1>5. ASSUME NEW n \in Regs, ServeComplete(n) PROVE UpMoves(m)
  BY <1>5, Numbers, UpTyped, RefsTyped, FilesTyped DEF ServeComplete, HasRow,
      RowsOf, refs, IInv, UpMoves, FileInv, UpRecs, Ids, FileRecs
<1>6. ASSUME NEW n \in Regs, ServeShort(n) PROVE UpMoves(m)
  BY <1>6, Numbers, UpTyped, RefsTyped, FilesTyped DEF ServeShort, AbortDraft,
      HasRow, RowsOf, refs, IInv, UpMoves, FileInv, UpRecs, Ids, FileRecs
<1>7. ASSUME NEW n \in Regs, UploadSettled(n) PROVE UpMoves(m)
  BY <1>7, Numbers, UpTyped, RefsTyped, FilesTyped DEF UploadSettled, NoUpload,
      Mark, Patch, Outcome, server, IInv, UpMoves, FileInv, UpRecs, Ids, FileRecs
<1>8. ASSUME Sent PROVE UpMoves(m)
  BY <1>8, Numbers, UpTyped, RefsTyped, FilesTyped DEF Sent, StopLocal, ResetLocal,
      Absent, server, IInv, UpMoves, FileInv, UpRecs, Ids, FileRecs
<1>9. ASSUME Leave PROVE UpMoves(m)
  BY <1>9, Numbers, UpTyped, RefsTyped, FilesTyped DEF Leave, StopLocal,
      ResetLocal, NoCall, Absent, server, IInv, UpMoves, FileInv, UpRecs, Ids,
      FileRecs
<1>10. ASSUME NEW n \in Regs, LoseUpload(n) PROVE UpMoves(m)
  BY <1>10, Numbers, UpTyped, RefsTyped, FilesTyped DEF LoseUpload, Fault, refs,
      server, IInv, UpMoves, FileInv, UpRecs, Ids, FileRecs
<1>11. ASSUME NEW n \in Regs, NEW k \in Names, AddFile(n, k) PROVE UpMoves(m)
  BY <1>11, Numbers, UpTyped, RefsTyped, FilesTyped DEF AddFile, refs, server,
      IInv, UpMoves, FileInv, UpRecs, Ids, FileRecs
<1>12. ASSUME NEW n \in Regs, InitSettled(n) \/ Minted(n) \/ ServeAdd(n) \/
          Registered(n) \/ RegistrationFailed(n) \/ ServeDrop(n) \/ Dropped(n) \/
          ServeRemove(n) \/ Removed(n) \/ ImportEnds(n) \/ LoseRegistration(n) \/
          LoseRemoval(n) PROVE UpMoves(m)
  BY <1>12, Numbers, UpTyped, RefsTyped, FilesTyped DEF InitSettled, Minted,
      ServeAdd, Registered, RegistrationFailed, ServeDrop, Dropped, ServeRemove,
      Removed, ImportEnds, LoseRegistration, LoseRemoval, refs, server, Fault,
      IInv, UpMoves, FileInv, UpRecs, Ids, FileRecs
<1>13. ASSUME Submit \/ EditMetadata \/ TickRejects \/ TickResolves \/
          ServeFinalize \/ PollAgain \/ SendFailed \/ PollTimesOut \/ ServeAbort \/
          LoseFinalize \/ LoseAbort PROVE UpMoves(m)
  BY <1>13, Numbers, UpTyped, RefsTyped, FilesTyped DEF Submit, EditMetadata,
      TickRejects, TickResolves, ServeFinalize, PollAgain, SendFailed,
      PollTimesOut, ServeAbort, LoseFinalize, LoseAbort, refs, server, Fault, IInv,
      UpMoves, FileInv, UpRecs, Ids, FileRecs
<1>14. CASE UNCHANGED vars
  BY <1>14, Numbers, UpTyped, RefsTyped, FilesTyped DEF vars, refs, server, IInv,
      UpMoves, FileInv, UpRecs, Ids, FileRecs
<1>. QED
  BY <1>1, <1>2, <1>3, <1>4, <1>5, <1>6, <1>7, <1>8, <1>9, <1>10, <1>11, <1>12,
      <1>13, <1>14 DEF Next, Answer, SendStep, Loss

\* What slipped is not forgotten, and a page that was left stays so.
LEMMA SlipsStep == 
    ASSUME IInv, [Next]_vars PROVE slips \subseteq slips' /\ (page' = "open" => page = "open")
<1>1. ASSUME NEW n \in Regs, NEW k \in Names, AddFile(n, k) PROVE slips \subseteq slips' /\ (page' = "open" => page = "open")
  BY <1>1 DEF AddFile, Pickable, Start, Disarm, server
<1>2. ASSUME NEW n \in Regs, Removed(n) PROVE slips \subseteq slips' /\ (page' = "open" => page = "open")
  BY <1>2 DEF Removed, ResetLocal, NoCall, Listed, Absent, server
<1>3. ASSUME NEW n \in Regs, ServeShort(n) PROVE slips \subseteq slips' /\ (page' = "open" => page = "open")
  BY <1>3 DEF ServeShort, AbortDraft, HasRow, RowsOf, refs
<1>4. ASSUME TickResolves PROVE slips \subseteq slips' /\ (page' = "open" => page = "open")
  BY <1>4 DEF TickResolves, KeyReady, Listed, refs, server
<1>5. ASSUME Sent PROVE slips \subseteq slips' /\ (page' = "open" => page = "open")
  BY <1>5 DEF Sent, StopLocal, ResetLocal, Absent, server
<1>6. ASSUME Leave PROVE slips \subseteq slips' /\ (page' = "open" => page = "open")
  BY <1>6 DEF Leave, StopLocal, ResetLocal, NoCall, Absent, server
<1>7. ASSUME NEW n \in Regs, LoseRegistration(n) PROVE slips \subseteq slips' /\ (page' = "open" => page = "open")
  BY <1>7 DEF LoseRegistration, Fault, refs, server
<1>8. ASSUME NEW n \in Regs, LoseUpload(n) PROVE slips \subseteq slips' /\ (page' = "open" => page = "open")
  BY <1>8 DEF LoseUpload, Fault, refs, server
<1>9. ASSUME NEW n \in Regs, LoseRemoval(n) PROVE slips \subseteq slips' /\ (page' = "open" => page = "open")
  BY <1>9 DEF LoseRemoval, Fault, refs, server
<1>10. ASSUME LoseFinalize PROVE slips \subseteq slips' /\ (page' = "open" => page = "open")
  BY <1>10 DEF LoseFinalize, Fault, refs, server
<1>11. ASSUME LoseAbort PROVE slips \subseteq slips' /\ (page' = "open" => page = "open")
  BY <1>11 DEF LoseAbort, Fault, NoCall, refs, server
<1>12. ASSUME NEW k \in Names, RemoveFile(k) \/ PumpStart(k) PROVE slips \subseteq
          slips' /\ (page' = "open" => page = "open")
  BY <1>12 DEF RemoveFile, PumpStart, refs, server
<1>13. ASSUME NEW n \in Regs, InitSettled(n) \/ Minted(n) \/ ServeAdd(n) \/
          Registered(n) \/ RegistrationFailed(n) \/ ServeDrop(n) \/ Dropped(n) \/
          ServeRemove(n) \/ PartsUp(n) \/ PartsFail(n) \/ ServeComplete(n) \/
          UploadSettled(n) \/ ImportEnds(n) PROVE slips \subseteq slips' /\ (page'
          = "open" => page = "open")
  BY <1>13 DEF InitSettled, Minted, ServeAdd, Registered, RegistrationFailed,
      ServeDrop, Dropped, ServeRemove, PartsUp, PartsFail, ServeComplete,
      UploadSettled, ImportEnds, refs, server
<1>14. ASSUME Submit \/ EditMetadata \/ TickRejects \/ ServeFinalize \/ PollAgain
          \/ SendFailed \/ PollTimesOut \/ ServeAbort PROVE slips \subseteq slips'
          /\ (page' = "open" => page = "open")
  BY <1>14 DEF Submit, EditMetadata, TickRejects, ServeFinalize, PollAgain,
      SendFailed, PollTimesOut, ServeAbort, refs, server
<1>15. CASE UNCHANGED vars
  BY <1>15 DEF vars, refs, server
<1>. QED
  BY <1>1, <1>2, <1>3, <1>4, <1>5, <1>6, <1>7, <1>8, <1>9, <1>10, <1>11, <1>12,
      <1>13, <1>14, <1>15 DEF Next, Answer, SendStep, Loss

\* The key changes when it is minted, or goes with everything else.
KeyMoves ==
    \/ key' = key
    \/ key' = None
    \/ /\ key' \in Regs /\ reg[key'].at = "mint"
       /\ UNCHANGED <<row, parked, up, slips, page, draftId, initP>>

\* Every step moves the key so.
LEMMA KeyStep == 
    ASSUME IInv, [Next]_vars PROVE KeyMoves
<1>1. ASSUME NEW n \in Regs, Minted(n) PROVE KeyMoves
  BY <1>1 DEF Minted, server, KeyMoves
<1>2. ASSUME NEW n \in Regs, Removed(n) PROVE KeyMoves
  BY <1>2 DEF Removed, ResetLocal, NoCall, Listed, Absent, server, KeyMoves
<1>3. ASSUME Sent PROVE KeyMoves
  BY <1>3 DEF Sent, StopLocal, ResetLocal, Absent, server, KeyMoves
<1>4. ASSUME Leave PROVE KeyMoves
  BY <1>4 DEF Leave, StopLocal, ResetLocal, NoCall, Absent, server, KeyMoves
<1>5. ASSUME NEW n \in Regs, NEW k \in Names, AddFile(n, k) PROVE KeyMoves
  BY <1>5 DEF AddFile, refs, server, KeyMoves
<1>6. ASSUME NEW k \in Names, RemoveFile(k) \/ PumpStart(k) PROVE KeyMoves
  BY <1>6 DEF RemoveFile, PumpStart, refs, server, KeyMoves
<1>7. ASSUME NEW n \in Regs, InitSettled(n) \/ ServeAdd(n) \/ Registered(n) \/
          RegistrationFailed(n) \/ ServeDrop(n) \/ Dropped(n) \/ ServeRemove(n) \/
          PartsUp(n) \/ PartsFail(n) \/ ServeComplete(n) \/ ServeShort(n) \/
          UploadSettled(n) \/ ImportEnds(n) \/ LoseRegistration(n) \/ LoseUpload(n)
          \/ LoseRemoval(n) PROVE KeyMoves
  BY <1>7 DEF InitSettled, ServeAdd, Registered, RegistrationFailed, ServeDrop,
      Dropped, ServeRemove, PartsUp, PartsFail, ServeComplete, ServeShort,
      UploadSettled, ImportEnds, LoseRegistration, LoseUpload, LoseRemoval, refs,
      server, Fault, KeyMoves
<1>8. ASSUME Submit \/ EditMetadata \/ TickRejects \/ TickResolves \/ ServeFinalize
          \/ PollAgain \/ SendFailed \/ PollTimesOut \/ ServeAbort \/ LoseFinalize
          \/ LoseAbort PROVE KeyMoves
  BY <1>8 DEF Submit, EditMetadata, TickRejects, TickResolves, ServeFinalize,
      PollAgain, SendFailed, PollTimesOut, ServeAbort, LoseFinalize, LoseAbort,
      refs, server, Fault, KeyMoves
<1>9. CASE UNCHANGED vars
  BY <1>9 DEF vars, refs, server, KeyMoves
<1>. QED
  BY <1>1, <1>2, <1>3, <1>4, <1>5, <1>6, <1>7, <1>8, <1>9 DEF Next, Answer,
      SendStep, Loss

\* Adding a file starts the next registration: it opens a draft, joins the
\* page's, or waits for the one being opened.
AddMoves(n, k) ==
    /\ page = "open" /\ UNCHANGED <<page, draftId, key, row>> /\ slips \subseteq slips'
    /\ reg[n].at = "free" /\ reg'[n].name = k
    /\ \A m \in Regs : m # n => reg'[m] = reg[m] /\ (m < n <=> reg[m].at # "free")
    /\ \/ /\ draftId = None /\ initP = None /\ initP' = n
          /\ reg'[n].at = Start /\ reg'[n].known = None
       \/ /\ draftId # None /\ initP' = initP
          /\ reg'[n].at = Start /\ reg'[n].known = draftId
       \/ /\ draftId = None /\ initP # None /\ initP' = initP
          /\ reg'[n].at = "wait" /\ reg'[n].known = None /\ reg'[n].awaits = initP

\* addFile and attachFromDrive do that.
LEMMA AddStep == ASSUME IInv, NEW n \in Regs, NEW k \in Names, AddFile(n, k)
                 PROVE  AddMoves(n, k)
<1>1. /\ reg[n].at = "free" /\ reg[n].known = None
      /\ \A m \in Regs : m # n => reg'[m] = reg[m]
  BY RegTyped DEF AddFile, server, IInv, RegInv, RegOk
<1>2. \A m \in Regs : m # n => (m < n <=> reg[m].at # "free")
  <2> SUFFICES ASSUME NEW m \in Regs, m # n PROVE m < n <=> reg[m].at # "free"
    OBVIOUS
  <2>1. m < n \/ n < m
    BY Numbers
  <2>2. m < n => reg[m].at # "free"
    BY DEF AddFile
  <2>3. n < m => reg[m].at = "free"
    BY <1>1 DEF IInv, RegInv, RegOk
  <2>. QED
    BY <2>1, <2>2, <2>3, Numbers
<1>3. reg[n] \in RegRecs /\ reg \in [Regs -> RegRecs]
  BY RegTyped DEF IInv
<1>4. /\ page = "open" /\ UNCHANGED <<page, draftId, key, row>> /\ slips \subseteq slips'
  BY DEF AddFile, Pickable, server
<1>5. CASE /\ draftId = None /\ initP = None /\ initP' = n
           /\ reg' = [reg EXCEPT ![n] = [reg[n] EXCEPT !.at = Start, !.name = k]]
  <2>1. reg'[n].at = Start /\ reg'[n].name = k /\ reg'[n].known = None
    BY <1>1, <1>3, <1>5 DEF RegRecs
  <2>. QED
    BY <1>1, <1>2, <1>4, <1>5, <2>1 DEF AddMoves
<1>6. CASE /\ draftId # None /\ initP' = initP
           /\ reg' = [reg EXCEPT ![n] = [reg[n] EXCEPT !.at = Start, !.name = k,
                                                     !.known = draftId]]
  <2>1. reg'[n].at = Start /\ reg'[n].name = k /\ reg'[n].known = draftId
    BY <1>3, <1>6 DEF RegRecs
  <2>. QED
    BY <1>1, <1>2, <1>4, <1>6, <2>1 DEF AddMoves
<1>7. CASE /\ draftId = None /\ initP # None /\ initP' = initP
           /\ reg' = [reg EXCEPT ![n] = [reg[n] EXCEPT !.at = "wait", !.name = k,
                                                     !.awaits = initP]]
  <2>1. /\ reg'[n].at = "wait" /\ reg'[n].name = k /\ reg'[n].known = None
        /\ reg'[n].awaits = initP
    BY <1>1, <1>3, <1>7 DEF RegRecs
  <2>. QED
    BY <1>1, <1>2, <1>4, <1>7, <2>1 DEF AddMoves
<1>. QED
  BY <1>5, <1>6, <1>7 DEF AddFile

\* A file that is listed with a row stays registered.
LEMMA FileInvNext == IInv /\ [Next]_vars => FileInv'
<1> SUFFICES ASSUME IInv, [Next]_vars PROVE FileInv'
  OBVIOUS
<1>1. ASSUME NEW n \in Regs, NEW k \in Names, AddFile(n, k) PROVE FileInv'
  BY <1>1, Numbers, FilesTyped, RegTyped, RefsTyped, RowStep DEF AddFile, Pickable,
      Start, Disarm, server, IInv, FileInv, RegInv, RegOk, FileRecs, RegRecs, Ids,
      RowMoves
<1>2. ASSUME NEW k \in Names, RemoveFile(k) PROVE FileInv'
  BY <1>2, Numbers, FilesTyped, RegTyped, RefsTyped, RowStep DEF RemoveFile,
      Removable, Disarm, Absent, server, IInv, FileInv, RegInv, RegOk, FileRecs,
      RegRecs, Ids, RowMoves
<1>3. ASSUME NEW k \in Names, PumpStart(k) PROVE FileInv'
  BY <1>3, Numbers, FilesTyped, RegTyped, RefsTyped, RowStep DEF PumpStart, server,
      IInv, FileInv, RegInv, RegOk, FileRecs, RegRecs, Ids, RowMoves
<1>4. ASSUME NEW n \in Regs, InitSettled(n) PROVE FileInv'
  <2>1. \A k \in Names : files'[k] = files[k] \/ (files'[k].row = files[k].row /\
        files[k].state # "absent" /\ files'[k].state = "error")
    BY <1>4, FilesTyped DEF InitSettled, Mark, Patch, IInv, FileRecs
  <2>2. \A m \in Regs : row[m].state # "none" => row'[m].state # "none"
    BY <1>4, RowStep DEF RowMoves
  <2>. QED
    BY <1>4, <2>1, <2>2, FilesTyped DEF IInv, FileInv, FileRecs, Ids
<1>5. ASSUME NEW n \in Regs, Registered(n) PROVE FileInv'
  <2>1. row[n].state # "none" /\ UNCHANGED row
    BY <1>5 DEF Registered, server, IInv, RegInv, RegOk
  <2>2. \A k \in Names : files'[k] = files[k] \/ (files'[k].row = n /\
        files'[k].state # "absent")
    BY <1>5, FilesTyped DEF Registered, IInv, FileRecs
  <2>. QED
    BY <1>5, <2>1, <2>2 DEF IInv, FileInv
<1>6. ASSUME NEW n \in Regs, RegistrationFailed(n) PROVE FileInv'
  BY <1>6, Numbers, FilesTyped, RegTyped, RefsTyped, RowStep DEF
      RegistrationFailed, Mark, Patch, server, IInv, FileInv, RegInv, RegOk,
      FileRecs, RegRecs, Ids, RowMoves
<1>7. ASSUME NEW n \in Regs, Removed(n) PROVE FileInv'
  BY <1>7, Numbers, FilesTyped, RegTyped, RefsTyped, RowStep DEF Removed,
      ResetLocal, NoCall, Listed, Absent, server, IInv, FileInv, RegInv, RegOk,
      FileRecs, RegRecs, Ids, RowMoves
<1>8. ASSUME NEW n \in Regs, UploadSettled(n) PROVE FileInv'
  BY <1>8, Numbers, FilesTyped, RegTyped, RefsTyped, RowStep DEF UploadSettled,
      NoUpload, Mark, Patch, Outcome, server, IInv, FileInv, RegInv, RegOk,
      FileRecs, RegRecs, Ids, RowMoves
<1>9. ASSUME PollAgain PROVE FileInv'
  BY <1>9, Numbers, FilesTyped, RegTyped, RefsTyped, RowStep DEF PollAgain,
      Waiting, refs, server, IInv, FileInv, RegInv, RegOk, FileRecs, RegRecs, Ids,
      RowMoves
<1>10. ASSUME Sent PROVE FileInv'
  BY <1>10, Numbers, FilesTyped, RegTyped, RefsTyped, RowStep DEF Sent, StopLocal,
      ResetLocal, Absent, server, IInv, FileInv, RegInv, RegOk, FileRecs, RegRecs,
      Ids, RowMoves
<1>11. ASSUME Leave PROVE FileInv'
  BY <1>11, Numbers, FilesTyped, RegTyped, RefsTyped, RowStep DEF Leave, StopLocal,
      ResetLocal, NoCall, Absent, server, IInv, FileInv, RegInv, RegOk, FileRecs,
      RegRecs, Ids, RowMoves
<1>12. ASSUME NEW n \in Regs, Minted(n) \/ ServeAdd(n) \/ ServeDrop(n) \/
          Dropped(n) \/ ServeRemove(n) \/ PartsUp(n) \/ PartsFail(n) \/
          ServeComplete(n) \/ ServeShort(n) \/ ImportEnds(n) \/ LoseRegistration(n)
          \/ LoseUpload(n) \/ LoseRemoval(n) PROVE FileInv'
  BY <1>12, Numbers, FilesTyped, RegTyped, RefsTyped, RowStep DEF Minted, ServeAdd,
      ServeDrop, Dropped, ServeRemove, PartsUp, PartsFail, ServeComplete,
      ServeShort, ImportEnds, LoseRegistration, LoseUpload, LoseRemoval, refs,
      server, Fault, IInv, FileInv, RegInv, RegOk, FileRecs, RegRecs, Ids, RowMoves
<1>13. ASSUME Submit \/ EditMetadata \/ TickRejects \/ TickResolves \/
          ServeFinalize \/ SendFailed \/ PollTimesOut \/ ServeAbort \/ LoseFinalize
          \/ LoseAbort PROVE FileInv'
  BY <1>13, Numbers, FilesTyped, RegTyped, RefsTyped, RowStep DEF Submit,
      EditMetadata, TickRejects, TickResolves, ServeFinalize, SendFailed,
      PollTimesOut, ServeAbort, LoseFinalize, LoseAbort, refs, server, Fault, IInv,
      FileInv, RegInv, RegOk, FileRecs, RegRecs, Ids, RowMoves
<1>14. CASE UNCHANGED vars
  BY <1>14, Numbers, FilesTyped, RegTyped, RefsTyped, RowStep DEF vars, refs,
      server, IInv, FileInv, RegInv, RegOk, FileRecs, RegRecs, Ids, RowMoves
<1>. QED
  BY <1>1, <1>2, <1>3, <1>4, <1>5, <1>6, <1>7, <1>8, <1>9, <1>10, <1>11, <1>12,
      <1>13, <1>14 DEF Next, Answer, SendStep, Loss

\* Registrations start in order.
LEMMA RegInvNext == IInv /\ [Next]_vars => RegInv'
<1> SUFFICES ASSUME IInv, [Next]_vars PROVE RegInv'
  OBVIOUS
<1>1. ASSUME NEW n \in Regs, NEW k \in Names, AddFile(n, k) PROVE RegInv'
  <2>1. AddMoves(n, k)
    BY <1>1, AddStep
  <2>5. /\ draftId # None => draftId \in Regs /\ draftId < n
        /\ initP # None => initP \in Regs /\ initP < n /\ reg[initP].at \notin {"free", "wait"}
    BY <2>1, RefsTyped DEF AddMoves, IInv, RegInv, RegOk, RefInv, Ids, Regs
  <2> SUFFICES ASSUME NEW m \in Regs
               PROVE  RegOk(m)'
    BY DEF RegInv
  <2>6. CASE m = n
    BY <2>1, <2>5, <2>6, Numbers DEF AddMoves, Start, RegOk
  <2>7. CASE m # n
    <3>1. RegOk(m) /\ \A a \in Regs : RegMoves(a)
      BY RegStep DEF IInv, RegInv
    <3>2. reg[m].at = "wait" => reg'[reg[m].awaits].at # "wait"
      BY <3>1, Numbers DEF RegOk, RegMoves
    <3>. QED
      BY <2>1, <2>7, <3>1, <3>2 DEF AddMoves, RegOk, RegMoves
  <2>. QED
    BY <2>6, <2>7
<1>2. ASSUME NEW n \in Regs, InitSettled(n) PROVE RegInv'
  BY <1>2, Numbers, RegTyped, RefsTyped, RowStep DEF InitSettled, Mark, Patch,
      Start, DraftOf, refs, server, IInv, RegInv, RefInv, RegOk, RegRecs, Ids,
      RowMoves
<1>3. ASSUME NEW n \in Regs, Minted(n) PROVE RegInv'
  BY <1>3, Numbers, RegTyped, RefsTyped, RowStep DEF Minted, server, IInv, RegInv,
      RefInv, DraftOf, RegOk, RegRecs, Ids, RowMoves
<1>4. ASSUME NEW n \in Regs, ServeAdd(n) PROVE RegInv'
  <2>1. \A m \in Regs : m # n => reg'[m] = reg[m]
    BY <1>4, RegTyped DEF ServeAdd, IInv
  <2>2. /\ reg[n].at = "post" /\ reg'[n].at = "reply"
        /\ reg'[n].known = reg[n].known /\ reg'[n].name = reg[n].name
    BY <1>4, RegTyped DEF ServeAdd, IInv, RegRecs
  <2>3. reg'[n].ok => row'[n].state # "none"
    BY <1>4, RegTyped, RowTyped DEF ServeAdd, IInv, RegRecs, RowRecs
  <2> SUFFICES ASSUME NEW m \in Regs PROVE RegOk(m)'
    BY DEF RegInv
  <2>4. RegOk(m) /\ RegOk(n)
    BY DEF IInv, RegInv
  <2>5. CASE m = n
    BY <2>1, <2>2, <2>3, <2>4, <2>5, Numbers DEF RegOk
  <2>6. CASE m # n
    BY <2>1, <2>2, <2>4, <2>6, RowStep, Numbers DEF RegOk, RowMoves
  <2>. QED
    BY <2>5, <2>6
<1>5. ASSUME NEW n \in Regs, Registered(n) PROVE RegInv'
  BY <1>5, Numbers, RegTyped, RefsTyped, RowStep DEF Registered, DraftOf, server,
      IInv, RegInv, RefInv, RegOk, RegRecs, Ids, RowMoves
<1>6. ASSUME NEW n \in Regs, RegistrationFailed(n) PROVE RegInv'
  BY <1>6, Numbers, RegTyped, RefsTyped, RowStep DEF RegistrationFailed, Mark,
      Patch, server, IInv, RegInv, RefInv, DraftOf, RegOk, RegRecs, Ids, RowMoves
<1>7. ASSUME NEW n \in Regs, ServeDrop(n) PROVE RegInv'
  BY <1>7, Numbers, RegTyped, RefsTyped, RowStep DEF ServeDrop, CleanUp,
      AbortDraft, RemoveRow, HasRow, RowsOf, refs, IInv, RegInv, RefInv, DraftOf,
      RegOk, RegRecs, Ids, RowMoves
<1>8. ASSUME NEW n \in Regs, Dropped(n) PROVE RegInv'
  BY <1>8, Numbers, RegTyped, RefsTyped, RowStep DEF Dropped, server, IInv, RegInv,
      RefInv, DraftOf, RegOk, RegRecs, Ids, RowMoves
<1>9. ASSUME NEW n \in Regs, LoseRegistration(n) PROVE RegInv'
  BY <1>9, Numbers, RegTyped, RefsTyped, RowStep DEF LoseRegistration, Fault, refs,
      server, IInv, RegInv, RefInv, DraftOf, RegOk, RegRecs, Ids, RowMoves
<1>10. ASSUME NEW k \in Names, RemoveFile(k) \/ PumpStart(k) PROVE RegInv'
  BY <1>10, Numbers, RegTyped, RefsTyped, RowStep DEF RemoveFile, PumpStart, refs,
      server, IInv, RegInv, RefInv, DraftOf, RegOk, RegRecs, Ids, RowMoves
<1>11. ASSUME NEW n \in Regs, ServeRemove(n) \/ Removed(n) \/ PartsUp(n) \/
          PartsFail(n) \/ ServeComplete(n) \/ ServeShort(n) \/ UploadSettled(n) \/
          ImportEnds(n) \/ LoseUpload(n) \/ LoseRemoval(n) PROVE RegInv'
  BY <1>11, Numbers, RegTyped, RefsTyped, RowStep DEF ServeRemove, Removed,
      PartsUp, PartsFail, ServeComplete, ServeShort, UploadSettled, ImportEnds,
      LoseUpload, LoseRemoval, refs, server, Fault, IInv, RegInv, RefInv, DraftOf,
      RegOk, RegRecs, Ids, RowMoves
<1>12. ASSUME Submit \/ EditMetadata \/ TickRejects \/ TickResolves \/
          ServeFinalize \/ PollAgain \/ SendFailed \/ Sent \/ PollTimesOut \/ Leave
          \/ ServeAbort \/ LoseFinalize \/ LoseAbort PROVE RegInv'
  BY <1>12, Numbers, RegTyped, RefsTyped, RowStep DEF Submit, EditMetadata,
      TickRejects, TickResolves, ServeFinalize, PollAgain, SendFailed, Sent,
      PollTimesOut, Leave, ServeAbort, LoseFinalize, LoseAbort, refs, server,
      Fault, IInv, RegInv, RefInv, DraftOf, RegOk, RegRecs, Ids, RowMoves
<1>13. CASE UNCHANGED vars
  BY <1>13, Numbers, RegTyped, RefsTyped, RowStep DEF vars, refs, server, IInv,
      RegInv, RefInv, DraftOf, RegOk, RegRecs, Ids, RowMoves
<1>. QED
  BY <1>1, <1>2, <1>3, <1>4, <1>5, <1>6, <1>7, <1>8, <1>9, <1>10, <1>11, <1>12,
      <1>13 DEF Next, Answer, SendStep, Loss

\* The refs name registrations that started.
LEMMA RefInvNext == IInv /\ [Next]_vars => RefInv'
<1> SUFFICES ASSUME IInv, [Next]_vars PROVE RefInv'
  OBVIOUS
<1>1. ASSUME NEW n \in Regs, NEW k \in Names, AddFile(n, k) PROVE RefInv'
  <2>1. draftId' = draftId /\ (initP' = initP \/ initP' = n)
    BY <1>1 DEF AddFile
  <2>2. initP' = n /\ initP' # initP => reg'[n].at \in {"mint", "post"}
    BY <1>1, RegTyped DEF AddFile, Start, IInv, RegRecs
  <2>3. initP = n => initP' = n /\ reg[n].at = "free"
    BY <1>1, RefsTyped, Numbers DEF AddFile
  <2>. QED
    BY <1>1, <2>1, <2>2, <2>3, RegStep, RefsTyped DEF IInv, RefInv, Ids, RegMoves
<1>2. ASSUME NEW n \in Regs, InitSettled(n) PROVE RefInv'
  BY <1>2, Numbers, RegTyped, RefsTyped DEF InitSettled, Mark, Patch, Start,
      DraftOf, refs, server, IInv, RefInv, RegInv, RegOk, RegRecs, Ids
<1>3. ASSUME NEW n \in Regs, Minted(n) PROVE RefInv'
  BY <1>3, Numbers, RegTyped, RefsTyped DEF Minted, server, IInv, RefInv, RegInv,
      RegOk, DraftOf, RegRecs, Ids
<1>4. ASSUME NEW n \in Regs, ServeAdd(n) PROVE RefInv'
  BY <1>4, Numbers, RegTyped, RefsTyped DEF ServeAdd, DraftOf, refs, IInv, RefInv,
      RegInv, RegOk, RegRecs, Ids
<1>5. ASSUME NEW n \in Regs, Registered(n) PROVE RefInv'
  BY <1>5, Numbers, RegTyped, RefsTyped DEF Registered, DraftOf, server, IInv,
      RefInv, RegInv, RegOk, RegRecs, Ids
<1>6. ASSUME NEW n \in Regs, RegistrationFailed(n) PROVE RefInv'
  BY <1>6, Numbers, RegTyped, RefsTyped DEF RegistrationFailed, Mark, Patch,
      server, IInv, RefInv, RegInv, RegOk, DraftOf, RegRecs, Ids
<1>7. ASSUME NEW n \in Regs, ServeDrop(n) PROVE RefInv'
  BY <1>7, Numbers, RegTyped, RefsTyped DEF ServeDrop, CleanUp, AbortDraft,
      RemoveRow, HasRow, RowsOf, refs, IInv, RefInv, RegInv, RegOk, DraftOf,
      RegRecs, Ids
<1>8. ASSUME NEW n \in Regs, Dropped(n) PROVE RefInv'
  BY <1>8, Numbers, RegTyped, RefsTyped DEF Dropped, server, IInv, RefInv, RegInv,
      RegOk, DraftOf, RegRecs, Ids
<1>9. ASSUME NEW n \in Regs, Removed(n) PROVE RefInv'
  BY <1>9, Numbers, RegTyped, RefsTyped DEF Removed, ResetLocal, NoCall, Listed,
      Absent, server, IInv, RefInv, RegInv, RegOk, DraftOf, RegRecs, Ids
<1>10. ASSUME Sent PROVE RefInv'
  BY <1>10, Numbers, RegTyped, RefsTyped DEF Sent, StopLocal, ResetLocal, Absent,
      server, IInv, RefInv, RegInv, RegOk, DraftOf, RegRecs, Ids
<1>11. ASSUME Leave PROVE RefInv'
  BY <1>11, Numbers, RegTyped, RefsTyped DEF Leave, StopLocal, ResetLocal, NoCall,
      Absent, server, IInv, RefInv, RegInv, RegOk, DraftOf, RegRecs, Ids
<1>12. ASSUME NEW n \in Regs, LoseRegistration(n) PROVE RefInv'
  BY <1>12, Numbers, RegTyped, RefsTyped DEF LoseRegistration, Fault, refs, server,
      IInv, RefInv, RegInv, RegOk, DraftOf, RegRecs, Ids
<1>13. ASSUME NEW k \in Names, RemoveFile(k) \/ PumpStart(k) PROVE RefInv'
  BY <1>13, Numbers, RegTyped, RefsTyped DEF RemoveFile, PumpStart, refs, server,
      IInv, RefInv, RegInv, RegOk, DraftOf, RegRecs, Ids
<1>14. ASSUME NEW n \in Regs, ServeRemove(n) \/ PartsUp(n) \/ PartsFail(n) \/
          ServeComplete(n) \/ ServeShort(n) \/ UploadSettled(n) \/ ImportEnds(n) \/
          LoseUpload(n) \/ LoseRemoval(n) PROVE RefInv'
  BY <1>14, Numbers, RegTyped, RefsTyped DEF ServeRemove, PartsUp, PartsFail,
      ServeComplete, ServeShort, UploadSettled, ImportEnds, LoseUpload,
      LoseRemoval, refs, server, Fault, IInv, RefInv, RegInv, RegOk, DraftOf,
      RegRecs, Ids
<1>15. ASSUME Submit \/ EditMetadata \/ TickRejects \/ TickResolves \/
          ServeFinalize \/ PollAgain \/ SendFailed \/ PollTimesOut \/ ServeAbort \/
          LoseFinalize \/ LoseAbort PROVE RefInv'
  BY <1>15, Numbers, RegTyped, RefsTyped DEF Submit, EditMetadata, TickRejects,
      TickResolves, ServeFinalize, PollAgain, SendFailed, PollTimesOut, ServeAbort,
      LoseFinalize, LoseAbort, refs, server, Fault, IInv, RefInv, RegInv, RegOk,
      DraftOf, RegRecs, Ids
<1>16. CASE UNCHANGED vars
  BY <1>16, Numbers, RegTyped, RefsTyped DEF vars, refs, server, IInv, RefInv,
      RegInv, RegOk, DraftOf, RegRecs, Ids
<1>. QED
  BY <1>1, <1>2, <1>3, <1>4, <1>5, <1>6, <1>7, <1>8, <1>9, <1>10, <1>11, <1>12,
      <1>13, <1>14, <1>15, <1>16 DEF Next, Answer, SendStep, Loss

\* A row keeps its draft and, once landed, its key.
LEMMA RowInvNext == IInv /\ [Next]_vars => RowInv'
<1> SUFFICES ASSUME IInv, [Next]_vars PROVE RowInv'
  OBVIOUS
<1> SUFFICES ASSUME NEW n \in Regs
             PROVE  /\ row'[n].state = "none" => row'[n].draft = None /\ row'[n].enc = None
                    /\ row'[n].state # "none" =>
                         reg'[n].at \in Served /\ row'[n].draft = DraftOf(n)'
                    /\ row'[n].state \in {"landed", "sent"} => row'[n].enc # None
                    /\ row'[n].state = "importing" => parked'[row'[n].draft] # None
                    /\ row'[n].state = "sent" => draft'[row'[n].draft] = "sent"
  BY DEF RowInv
<1>1. /\ RowMoves(n) /\ RegMoves(n)
      /\ row[n].draft \in Regs => DraftMoves(row[n].draft)
  BY RowStep, RegStep, DraftStep
<1>2. /\ row[n].state = "none" => row[n].draft = None /\ row[n].enc = None
      /\ row[n].state # "none" => reg[n].at \in Served /\ row[n].draft = DraftOf(n)
      /\ row[n].state \in {"landed", "sent"} => row[n].enc # None
      /\ row[n].state = "importing" => parked[row[n].draft] # None
      /\ row[n].state = "sent" => draft[row[n].draft] = "sent"
  BY DEF IInv, RowInv
<1>3. /\ reg[n].at \in Served => DraftOf(n)' = DraftOf(n)
      /\ reg'[n].known = reg[n].known => DraftOf(n)' = DraftOf(n)
      /\ DraftOf(n) \in Regs
  BY <1>1, RegTyped DEF RegMoves, DraftOf, Served, IInv, RegRecs, Ids
<1>4. CASE row'[n] = row[n]
  <2>1. row[n].draft \in Regs =>
          /\ parked[row[n].draft] # None => parked'[row[n].draft] # None
          /\ draft[row[n].draft] = "sent" => draft'[row[n].draft] = "sent"
    BY <1>1 DEF DraftMoves, IInv, FinalInv, Finalizing
  <2>. QED
    BY <1>1, <1>2, <1>3, <1>4, <2>1 DEF RegMoves
<1>5. CASE row'[n] # row[n] /\ row[n].state = "none"
  BY <1>1, <1>2, <1>3, <1>5 DEF RowMoves, Served
<1>6. CASE row'[n] # row[n] /\ row[n].state # "none"
  <2>1. up[n].at = "complete" => up[n].enc # None
    BY DEF IInv, UpInv
  <2>. QED
    BY <1>1, <1>2, <1>3, <1>6, <2>1 DEF RowMoves, RegMoves
<1>. QED
  BY <1>4, <1>5, <1>6

\* A draft is opened by the registration it is numbered after.
LEMMA DraftInvNext == IInv /\ [Next]_vars => DraftInv'
<1> SUFFICES ASSUME IInv, [Next]_vars, NEW d \in Regs
             PROVE  /\ draft'[d] # "none" => reg'[d].at \in Served
                    /\ draft'[d] = "none" => parked'[d] = None
  BY DEF DraftInv
<1>. QED
  BY DraftStep, RegStep DEF IInv, DraftInv, DraftMoves, RegMoves, Served

\* An uploader has a row, and a key.
LEMMA UpInvNext == IInv /\ [Next]_vars => UpInv'
<1> SUFFICES ASSUME IInv, [Next]_vars, NEW n \in Regs
             PROVE  /\ up'[n].enc # None => row'[n].state # "none"
                    /\ up'[n].at \in {"parts", "complete"} => up'[n].enc # None
  BY DEF UpInv
<1>. QED
  BY UpStep, RowStep DEF IInv, UpInv, UpMoves, RowMoves

\* Before there is a key only its minting is under way.
LEMMA MintInvNext == IInv /\ [Next]_vars => MintInv'
<1> SUFFICES ASSUME IInv, [Next]_vars PROVE MintInv'
  OBVIOUS
<1>1. ASSUME NEW n \in Regs, NEW k \in Names, AddFile(n, k) PROVE MintInv'
  <2>1. AddMoves(n, k)
    BY <1>1, AddStep
  <2>. QED
    BY <1>1, <2>1, Numbers, RefsTyped DEF IInv, MintInv, Working, AddMoves, Start, Ids
<1>2. ASSUME NEW n \in Regs, InitSettled(n) PROVE MintInv'
  BY <1>2, Numbers, RegTyped, RefsTyped DEF InitSettled, Mark, Patch, Start,
      DraftOf, refs, server, IInv, MintInv, Working, RegInv, RegOk, RegRecs, Ids
<1>3. ASSUME NEW n \in Regs, Minted(n) PROVE MintInv'
  BY <1>3, Numbers, RegTyped, RefsTyped DEF Minted, server, IInv, MintInv, Working,
      RegInv, RegOk, RegRecs, Ids
<1>4. ASSUME NEW n \in Regs, ServeAdd(n) PROVE MintInv'
  BY <1>4, Numbers, RegTyped, RefsTyped DEF ServeAdd, DraftOf, refs, IInv, MintInv,
      Working, RegInv, RegOk, RegRecs, Ids
<1>5. ASSUME NEW n \in Regs, Registered(n) PROVE MintInv'
  BY <1>5, Numbers, RegTyped, RefsTyped DEF Registered, DraftOf, server, IInv,
      MintInv, Working, RegInv, RegOk, RegRecs, Ids
<1>6. ASSUME NEW n \in Regs, RegistrationFailed(n) PROVE MintInv'
  BY <1>6, Numbers, RegTyped, RefsTyped DEF RegistrationFailed, Mark, Patch,
      server, IInv, MintInv, Working, RegInv, RegOk, RegRecs, Ids
<1>7. ASSUME NEW n \in Regs, ServeDrop(n) PROVE MintInv'
  BY <1>7, Numbers, RegTyped, RefsTyped DEF ServeDrop, CleanUp, AbortDraft,
      RemoveRow, HasRow, RowsOf, refs, IInv, MintInv, Working, RegInv, RegOk,
      RegRecs, Ids
<1>8. ASSUME NEW n \in Regs, Dropped(n) PROVE MintInv'
  BY <1>8, Numbers, RegTyped, RefsTyped DEF Dropped, server, IInv, MintInv,
      Working, RegInv, RegOk, RegRecs, Ids
<1>9. ASSUME NEW n \in Regs, Removed(n) PROVE MintInv'
  BY <1>9, Numbers, RegTyped, RefsTyped DEF Removed, ResetLocal, NoCall, Listed,
      Absent, server, IInv, MintInv, Working, RegInv, RegOk, RegRecs, Ids
<1>10. ASSUME NEW n \in Regs, ServeShort(n) PROVE MintInv'
  BY <1>10, Numbers, RegTyped, RefsTyped DEF ServeShort, AbortDraft, HasRow,
      RowsOf, refs, IInv, MintInv, Working, RegInv, RegOk, RegRecs, Ids
<1>11. ASSUME TickResolves PROVE MintInv'
  BY <1>11, Numbers, RegTyped, RefsTyped DEF TickResolves, KeyReady, Listed, refs,
      server, IInv, MintInv, Working, RegInv, RegOk, RegRecs, Ids
<1>12. ASSUME Sent PROVE MintInv'
  BY <1>12, Numbers, RegTyped, RefsTyped DEF Sent, StopLocal, ResetLocal, Absent,
      server, IInv, MintInv, Working, RegInv, RegOk, RegRecs, Ids
<1>13. ASSUME Leave PROVE MintInv'
  BY <1>13, Numbers, RegTyped, RefsTyped DEF Leave, StopLocal, ResetLocal, NoCall,
      Absent, server, IInv, MintInv, Working, RegInv, RegOk, RegRecs, Ids
<1>14. ASSUME NEW n \in Regs, LoseRegistration(n) PROVE MintInv'
  BY <1>14, Numbers, RegTyped, RefsTyped DEF LoseRegistration, Fault, refs, server,
      IInv, MintInv, Working, RegInv, RegOk, RegRecs, Ids
<1>15. ASSUME NEW n \in Regs, LoseUpload(n) PROVE MintInv'
  BY <1>15, Numbers, RegTyped, RefsTyped DEF LoseUpload, Fault, refs, server, IInv,
      MintInv, Working, RegInv, RegOk, RegRecs, Ids
<1>16. ASSUME NEW n \in Regs, LoseRemoval(n) PROVE MintInv'
  BY <1>16, Numbers, RegTyped, RefsTyped DEF LoseRemoval, Fault, refs, server,
      IInv, MintInv, Working, RegInv, RegOk, RegRecs, Ids
<1>17. ASSUME LoseFinalize PROVE MintInv'
  BY <1>17, Numbers, RegTyped, RefsTyped DEF LoseFinalize, Fault, refs, server,
      IInv, MintInv, Working, RegInv, RegOk, RegRecs, Ids
<1>18. ASSUME LoseAbort PROVE MintInv'
  BY <1>18, Numbers, RegTyped, RefsTyped DEF LoseAbort, Fault, NoCall, refs,
      server, IInv, MintInv, Working, RegInv, RegOk, RegRecs, Ids
<1>19. ASSUME NEW k \in Names, RemoveFile(k) \/ PumpStart(k) PROVE MintInv'
  BY <1>19, Numbers, RegTyped, RefsTyped DEF RemoveFile, PumpStart, refs, server,
      IInv, MintInv, Working, RegInv, RegOk, RegRecs, Ids
<1>20. ASSUME NEW n \in Regs, ServeRemove(n) \/ PartsUp(n) \/ PartsFail(n) \/
          ServeComplete(n) \/ UploadSettled(n) \/ ImportEnds(n) PROVE MintInv'
  BY <1>20, Numbers, RegTyped, RefsTyped DEF ServeRemove, PartsUp, PartsFail,
      ServeComplete, UploadSettled, ImportEnds, refs, server, IInv, MintInv,
      Working, RegInv, RegOk, RegRecs, Ids
<1>21. ASSUME Submit \/ EditMetadata \/ TickRejects \/ ServeFinalize \/ PollAgain
          \/ SendFailed \/ PollTimesOut \/ ServeAbort PROVE MintInv'
  BY <1>21, Numbers, RegTyped, RefsTyped DEF Submit, EditMetadata, TickRejects,
      ServeFinalize, PollAgain, SendFailed, PollTimesOut, ServeAbort, refs, server,
      IInv, MintInv, Working, RegInv, RegOk, RegRecs, Ids
<1>22. CASE UNCHANGED vars
  BY <1>22, Numbers, RegTyped, RefsTyped DEF vars, refs, server, IInv, MintInv,
      Working, RegInv, RegOk, RegRecs, Ids
<1>. QED
  BY <1>1, <1>2, <1>3, <1>4, <1>5, <1>6, <1>7, <1>8, <1>9, <1>10, <1>11, <1>12,
      <1>13, <1>14, <1>15, <1>16, <1>17, <1>18, <1>19, <1>20, <1>21, <1>22 DEF
      Next, Answer, SendStep, Loss

\* All that is under way belongs to the key.
LEMMA KeyInvNext == IInv /\ [Next]_vars => KeyInv'
<1> SUFFICES ASSUME IInv, [Next]_vars PROVE KeyInv'
  OBVIOUS
<1>1. ASSUME NEW n \in Regs, NEW k \in Names, AddFile(n, k) PROVE KeyInv'
  <2> SUFFICES ASSUME Working, key # None PROVE KeyInv'
    <3>1. UNCHANGED <<page, key>> /\ slips \subseteq slips'
      BY <1>1, AddStep DEF AddMoves
    <3>. QED
      BY <3>1 DEF KeyInv, Working
  <2>1. AddMoves(n, k) /\ KeyInv /\ key \in Regs /\ key # n /\ reg[key].at # "free"
    BY <1>1, AddStep, RefsTyped DEF AddMoves, IInv, KeyInv, Ids
  <2>2. key <= n
    BY <2>1, Numbers DEF AddMoves
  <2>3. reg'[n].at # "wait" => reg'[n].at = "post" /\ DraftOf(n)' >= key
    BY <2>1, <2>2 DEF AddMoves, Start, DraftOf, KeyInv, Working
  <2>4. reg'[n].at = "wait" => reg'[n].awaits = initP /\ initP \in Regs /\ initP # n
                               /\ DraftOf(initP)' >= key
    BY <2>1, RefsTyped DEF AddMoves, Start, KeyInv, Working, Ids, DraftOf, IInv
  <2>5. \A m \in Regs : m # n => reg'[m] = reg[m] /\ DraftOf(m)' = DraftOf(m)
    BY <2>1 DEF AddMoves, DraftOf
  <2>6. \A m \in Regs : m # n /\ reg[m].at = "wait" => reg[m].awaits # n /\ reg[m].awaits \in Regs
    BY <2>1, Numbers DEF IInv, RegInv, RegOk, AddMoves
  <2>7. initP' # None => initP' >= key /\ reg'[initP'].known = None
                         /\ reg'[initP'].at \notin {"free", "wait"}
    BY <2>1, <2>2, <2>5, RefsTyped DEF AddMoves, Start, KeyInv, Working, Ids, IInv
  <2>. QED
    BY <2>1, <2>3, <2>4, <2>5, <2>6, <2>7, Numbers DEF AddMoves, KeyInv, Working
<1>2. ASSUME NEW n \in Regs, InitSettled(n) PROVE KeyInv'
  BY <1>2, Numbers, RegTyped, RefsTyped DEF InitSettled, Mark, Patch, Start,
      DraftOf, refs, server, IInv, KeyInv, Working, MintInv, RegInv, RegOk, RefInv,
      RegRecs, Ids
<1>3. ASSUME NEW n \in Regs, Minted(n) PROVE KeyInv'
  BY <1>3, Numbers, RegTyped, RefsTyped DEF Minted, server, IInv, KeyInv, Working,
      MintInv, RegInv, RegOk, RefInv, DraftOf, RegRecs, Ids
<1>4. ASSUME NEW n \in Regs, ServeAdd(n) PROVE KeyInv'
  BY <1>4, Numbers, RegTyped, RefsTyped DEF ServeAdd, DraftOf, refs, IInv, KeyInv,
      Working, MintInv, RegInv, RegOk, RefInv, RegRecs, Ids
<1>5. ASSUME NEW n \in Regs, Registered(n) PROVE KeyInv'
  BY <1>5, Numbers, RegTyped, RefsTyped DEF Registered, DraftOf, server, IInv,
      KeyInv, Working, MintInv, RegInv, RegOk, RefInv, RegRecs, Ids
<1>6. ASSUME NEW n \in Regs, RegistrationFailed(n) PROVE KeyInv'
  BY <1>6, Numbers, RegTyped, RefsTyped DEF RegistrationFailed, Mark, Patch,
      server, IInv, KeyInv, Working, MintInv, RegInv, RegOk, RefInv, DraftOf,
      RegRecs, Ids
<1>7. ASSUME NEW n \in Regs, ServeDrop(n) PROVE KeyInv'
  BY <1>7, Numbers, RegTyped, RefsTyped DEF ServeDrop, CleanUp, AbortDraft,
      RemoveRow, HasRow, RowsOf, refs, IInv, KeyInv, Working, MintInv, RegInv,
      RegOk, RefInv, DraftOf, RegRecs, Ids
<1>8. ASSUME NEW n \in Regs, Dropped(n) PROVE KeyInv'
  BY <1>8, Numbers, RegTyped, RefsTyped DEF Dropped, server, IInv, KeyInv, Working,
      MintInv, RegInv, RegOk, RefInv, DraftOf, RegRecs, Ids
<1>9. ASSUME NEW n \in Regs, Removed(n) PROVE KeyInv'
  BY <1>9, Numbers, RegTyped, RefsTyped DEF Removed, ResetLocal, NoCall, Listed,
      Absent, server, IInv, KeyInv, Working, MintInv, RegInv, RegOk, RefInv,
      DraftOf, RegRecs, Ids
<1>10. ASSUME NEW n \in Regs, ServeShort(n) PROVE KeyInv'
  BY <1>10, Numbers, RegTyped, RefsTyped DEF ServeShort, AbortDraft, HasRow,
      RowsOf, refs, IInv, KeyInv, Working, MintInv, RegInv, RegOk, RefInv, DraftOf,
      RegRecs, Ids
<1>11. ASSUME TickResolves PROVE KeyInv'
  BY <1>11, Numbers, RegTyped, RefsTyped DEF TickResolves, KeyReady, Listed, refs,
      server, IInv, KeyInv, Working, MintInv, RegInv, RegOk, RefInv, DraftOf,
      RegRecs, Ids
<1>12. ASSUME Sent PROVE KeyInv'
  BY <1>12, Numbers, RegTyped, RefsTyped DEF Sent, StopLocal, ResetLocal, Absent,
      server, IInv, KeyInv, Working, MintInv, RegInv, RegOk, RefInv, DraftOf,
      RegRecs, Ids
<1>13. ASSUME Leave PROVE KeyInv'
  BY <1>13, Numbers, RegTyped, RefsTyped DEF Leave, StopLocal, ResetLocal, NoCall,
      Absent, server, IInv, KeyInv, Working, MintInv, RegInv, RegOk, RefInv,
      DraftOf, RegRecs, Ids
<1>14. ASSUME NEW n \in Regs, LoseRegistration(n) PROVE KeyInv'
  BY <1>14, Numbers, RegTyped, RefsTyped DEF LoseRegistration, Fault, refs, server,
      IInv, KeyInv, Working, MintInv, RegInv, RegOk, RefInv, DraftOf, RegRecs, Ids
<1>15. ASSUME NEW n \in Regs, LoseUpload(n) PROVE KeyInv'
  BY <1>15, Numbers, RegTyped, RefsTyped DEF LoseUpload, Fault, refs, server, IInv,
      KeyInv, Working, MintInv, RegInv, RegOk, RefInv, DraftOf, RegRecs, Ids
<1>16. ASSUME NEW n \in Regs, LoseRemoval(n) PROVE KeyInv'
  BY <1>16, Numbers, RegTyped, RefsTyped DEF LoseRemoval, Fault, refs, server,
      IInv, KeyInv, Working, MintInv, RegInv, RegOk, RefInv, DraftOf, RegRecs, Ids
<1>17. ASSUME LoseFinalize PROVE KeyInv'
  BY <1>17, Numbers, RegTyped, RefsTyped DEF LoseFinalize, Fault, refs, server,
      IInv, KeyInv, Working, MintInv, RegInv, RegOk, RefInv, DraftOf, RegRecs, Ids
<1>18. ASSUME LoseAbort PROVE KeyInv'
  BY <1>18, Numbers, RegTyped, RefsTyped DEF LoseAbort, Fault, NoCall, refs,
      server, IInv, KeyInv, Working, MintInv, RegInv, RegOk, RefInv, DraftOf,
      RegRecs, Ids
<1>19. ASSUME NEW k \in Names, RemoveFile(k) \/ PumpStart(k) PROVE KeyInv'
  BY <1>19, Numbers, RegTyped, RefsTyped DEF RemoveFile, PumpStart, refs, server,
      IInv, KeyInv, Working, MintInv, RegInv, RegOk, RefInv, DraftOf, RegRecs, Ids
<1>20. ASSUME NEW n \in Regs, ServeRemove(n) \/ PartsUp(n) \/ PartsFail(n) \/
          ServeComplete(n) \/ UploadSettled(n) \/ ImportEnds(n) PROVE KeyInv'
  BY <1>20, Numbers, RegTyped, RefsTyped DEF ServeRemove, PartsUp, PartsFail,
      ServeComplete, UploadSettled, ImportEnds, refs, server, IInv, KeyInv,
      Working, MintInv, RegInv, RegOk, RefInv, DraftOf, RegRecs, Ids
<1>21. ASSUME Submit \/ EditMetadata \/ TickRejects \/ ServeFinalize \/ PollAgain
          \/ SendFailed \/ PollTimesOut \/ ServeAbort PROVE KeyInv'
  BY <1>21, Numbers, RegTyped, RefsTyped DEF Submit, EditMetadata, TickRejects,
      ServeFinalize, PollAgain, SendFailed, PollTimesOut, ServeAbort, refs, server,
      IInv, KeyInv, Working, MintInv, RegInv, RegOk, RefInv, DraftOf, RegRecs, Ids
<1>22. CASE UNCHANGED vars
  BY <1>22, Numbers, RegTyped, RefsTyped DEF vars, refs, server, IInv, KeyInv,
      Working, MintInv, RegInv, RegOk, RefInv, DraftOf, RegRecs, Ids
<1>. QED
  BY <1>1, <1>2, <1>3, <1>4, <1>5, <1>6, <1>7, <1>8, <1>9, <1>10, <1>11, <1>12,
      <1>13, <1>14, <1>15, <1>16, <1>17, <1>18, <1>19, <1>20, <1>21, <1>22 DEF
      Next, Answer, SendStep, Loss

\* While the page works on, its key changes only when it is minted: then no
\* draft that is numbered from it on has anything yet.
LEMMA EncInvNext == IInv /\ [Next]_vars => EncInv'
<1> SUFFICES ASSUME IInv, [Next]_vars, Working', key' # None, NEW d \in Regs, d >= key'
             PROVE  Under(d, key)'
  BY DEF EncInv
<1>1. Working /\ slips \subseteq slips'
  BY SlipsStep DEF Working
<1>2. key' = key \/ (key = None /\ reg[key'].at = "mint" /\ key' = initP)
  BY KeyStep, <1>1 DEF KeyMoves, IInv, MintInv, KeyInv
<1>3. CASE key' = key
  <2>1. Under(d, key)
    BY <1>1, <1>3 DEF IInv, EncInv
  <2>2. parked'[d] \in {None, key}
    BY <2>1, <1>1, <1>3, DraftStep DEF DraftMoves, Under, IInv, SendInv, Live, Finalizing
  <2> SUFFICES ASSUME NEW n \in Regs, row'[n].draft = d
               PROVE  row'[n].enc \in {None, key} /\ up'[n].enc \in {None, key}
    BY <1>3, <2>2 DEF Under
  <2>3. RowMoves(n) /\ UpMoves(n)
    BY RowStep, UpStep
  <2>4. row[n].state = "none" => up[n].enc = None /\ row[n].enc = None /\ row[n].draft = None
    BY DEF IInv, UpInv, RowInv
  <2>5. row[n].state # "none" => row[n].draft = d
    BY <2>3 DEF RowMoves
  <2>6. row[n].state # "none" => row[n].enc \in {None, key} /\ up[n].enc \in {None, key}
    BY <2>1, <2>5 DEF Under
  <2>7. parked[d] \in {None, key}
    BY <2>1 DEF Under
  <2>8. row'[n].enc \in {None, key}
    BY <2>3, <2>4, <2>5, <2>6, <2>7 DEF RowMoves
  <2>9. up'[n].enc \in {None, key}
    BY <2>3, <2>4, <2>6 DEF UpMoves
  <2>. QED
    BY <2>8, <2>9
<1>4. CASE key = None /\ reg[key'].at = "mint" /\ key' = initP
  <2>1. key' \in Regs /\ UNCHANGED <<row, parked, up>>
    BY KeyStep, <1>1, <1>4, Numbers DEF KeyMoves
  <2>2. \A n \in Regs : reg[n].at \in Served => n < key'
    BY <1>1, <1>4, <2>1 DEF IInv, MintInv, Served
  <2>3. parked[d] = None
    BY <2>1, <2>2, Numbers DEF IInv, DraftInv
  <2>4. \A n \in Regs : row[n].state # "none" => row[n].draft < key'
    <3> SUFFICES ASSUME NEW n \in Regs, row[n].state # "none" PROVE row[n].draft < key'
      OBVIOUS
    <3>1. reg[n].at \in Served /\ row[n].draft = DraftOf(n)
      BY DEF IInv, RowInv
    <3>2. reg[n].known = None \/ (reg[n].known \in Regs /\ reg[n].known < n)
      BY RegTyped DEF IInv, RegInv, RegOk, RegRecs, Ids
    <3>3. n < key' /\ n \in Nat /\ key' \in Nat
      BY <2>1, <2>2, <3>1, Numbers
    <3>4. CASE reg[n].known = None
      BY <3>1, <3>3, <3>4 DEF DraftOf
    <3>5. CASE reg[n].known \in Regs /\ reg[n].known < n
      <4>1. row[n].draft = reg[n].known /\ reg[n].known \in Nat
        BY <3>1, <3>5, Numbers DEF DraftOf
      <4>2. \A x, y, z \in Nat : x < y /\ y < z => x < z
        OBVIOUS
      <4>. QED
        BY <3>3, <3>5, <4>1, <4>2
    <3>. QED
      BY <3>2, <3>4, <3>5
  <2>5. \A n \in Regs : row[n].draft # d
    <3> SUFFICES ASSUME NEW n \in Regs PROVE row[n].draft # d
      OBVIOUS
    <3>1. d \in Nat /\ d # None /\ key' \in Nat /\ key' <= d
      BY <2>1, <2>2, Numbers
    <3>2. CASE row[n].state = "none"
      <4>1. row[n].draft = None
        BY <3>2 DEF IInv, RowInv
      <4>. QED
        BY <3>1, <4>1
    <3>3. CASE row[n].state # "none"
      <4> SUFFICES ASSUME row[n].draft = d PROVE FALSE
        OBVIOUS
      <4>1. d < key'
        BY <2>4, <3>3
      <4>. QED
        BY <3>1, <4>1
    <3>. QED
      BY <3>2, <3>3
  <2>. QED
    BY <2>1, <2>3, <2>5 DEF Under
<1>. QED
  BY <1>2, <1>3, <1>4

\* A send is armed for the page's draft, leaves with the key of the page, and
\* goes on as it left.
SubmitMoves ==
    \/ send'.at = "idle"
    \/ /\ send'.at = "armed" /\ page = "open" /\ Listed # {} /\ UNCHANGED <<files, key, page>>
       /\ send'.id = draftId /\ draftId # None
       /\ send'.carried = IF send'.confidential THEN key ELSE None
    \/ /\ send'.at = "post" /\ send.at = "armed" /\ ~send.cancel /\ page = "open"
       /\ UNCHANGED <<files, key, page>>
       /\ send'.id = send.id /\ send'.carried = send.carried
       /\ send'.confidential = send.confidential /\ (send.confidential \/ key # None)
       /\ send'.posted = IF send.confidential THEN None ELSE key
    \/ /\ send.at # "idle" /\ Finalizing' = Finalizing
       /\ send'.id = send.id /\ send'.carried = send.carried /\ send'.posted = send.posted
       /\ send'.confidential = send.confidential /\ (send.cancel => send'.cancel)

\* Every step moves the send so.
LEMMA SubmitStep == 
    ASSUME IInv, [Next]_vars PROVE SubmitMoves
<1>1. ASSUME NEW n \in Regs, NEW k \in Names, AddFile(n, k) PROVE SubmitMoves
  BY <1>1, SendTyped DEF AddFile, Pickable, Start, Disarm, server, SubmitMoves,
      SendRecs, Finalizing, IInv
<1>2. ASSUME NEW k \in Names, RemoveFile(k) PROVE SubmitMoves
  BY <1>2, SendTyped DEF RemoveFile, Removable, Disarm, Absent, server,
      SubmitMoves, SendRecs, Finalizing, IInv
<1>3. ASSUME Submit PROVE SubmitMoves
  BY <1>3, SendTyped DEF Submit, Sendable, Listed, refs, server, SubmitMoves,
      SendRecs, Finalizing, IInv
<1>4. ASSUME EditMetadata PROVE SubmitMoves
  BY <1>4, SendTyped DEF EditMetadata, refs, server, SubmitMoves, SendRecs,
      Finalizing, IInv
<1>5. ASSUME TickRejects PROVE SubmitMoves
  BY <1>5, SendTyped DEF TickRejects, NoSend, KeyReady, Listed, refs, server,
      SubmitMoves, SendRecs, Finalizing, IInv
<1>6. ASSUME TickResolves PROVE SubmitMoves
  <2>1. page = "open"
    BY <1>6, Types DEF TickResolves, IInv
  <2>. QED
    BY <1>6, <2>1, SendTyped DEF TickResolves, KeyReady, Listed, refs, server,
        SubmitMoves, SendRecs, Finalizing, IInv
<1>7. ASSUME ServeFinalize PROVE SubmitMoves
  <2>1. Finalizes(send.id) /\ send.at = "post"
    BY <1>7, FinalizeStep
  <2>2. send'.at = "reply" /\ send'.id = send.id /\ send'.carried = send.carried /\
        send'.posted = send.posted /\ send'.confidential = send.confidential /\
        send'.cancel = send.cancel
    BY <1>7, <2>1, SendTyped DEF Finalizes, Waits, SendRecs, IInv
  <2>. QED
    BY <1>7, <2>1, <2>2 DEF SubmitMoves, Finalizing
<1>8. ASSUME PollAgain PROVE SubmitMoves
  BY <1>8, SendTyped DEF PollAgain, Waiting, refs, server, SubmitMoves, SendRecs,
      Finalizing, IInv
<1>9. ASSUME SendFailed PROVE SubmitMoves
  BY <1>9, SendTyped DEF SendFailed, NoSend, refs, server, SubmitMoves, SendRecs,
      Finalizing, IInv
<1>10. ASSUME Sent PROVE SubmitMoves
  BY <1>10, SendTyped DEF Sent, StopLocal, ResetLocal, Absent, server, SubmitMoves,
      SendRecs, Finalizing, IInv
<1>11. ASSUME PollTimesOut PROVE SubmitMoves
  BY <1>11, SendTyped DEF PollTimesOut, NoSend, Waiting, refs, server, SubmitMoves,
      SendRecs, Finalizing, IInv
<1>12. ASSUME LoseFinalize PROVE SubmitMoves
  BY <1>12, SendTyped DEF LoseFinalize, Fault, refs, server, SubmitMoves, SendRecs,
      Finalizing, IInv
<1>13. ASSUME NEW k \in Names, PumpStart(k) PROVE SubmitMoves
  BY <1>13, SendTyped DEF PumpStart, refs, server, SubmitMoves, SendRecs,
      Finalizing, IInv
<1>14. ASSUME NEW n \in Regs, InitSettled(n) \/ Minted(n) \/ ServeAdd(n) \/
          Registered(n) \/ RegistrationFailed(n) \/ ServeDrop(n) \/ Dropped(n) \/
          ServeRemove(n) \/ Removed(n) \/ PartsUp(n) \/ PartsFail(n) \/
          ServeComplete(n) \/ ServeShort(n) \/ UploadSettled(n) \/ ImportEnds(n) \/
          LoseRegistration(n) \/ LoseUpload(n) \/ LoseRemoval(n) PROVE SubmitMoves
  BY <1>14, SendTyped DEF InitSettled, Minted, ServeAdd, Registered,
      RegistrationFailed, ServeDrop, Dropped, ServeRemove, Removed, PartsUp,
      PartsFail, ServeComplete, ServeShort, UploadSettled, ImportEnds,
      LoseRegistration, LoseUpload, LoseRemoval, refs, server, Fault, SubmitMoves,
      SendRecs, Finalizing, IInv
<1>15. ASSUME Leave \/ ServeAbort \/ LoseAbort PROVE SubmitMoves
  BY <1>15, SendTyped DEF Leave, ServeAbort, LoseAbort, refs, server, Fault,
      SubmitMoves, SendRecs, Finalizing, IInv
<1>16. CASE UNCHANGED vars
  BY <1>16, SendTyped DEF vars, refs, server, SubmitMoves, SendRecs, Finalizing,
      IInv
<1>. QED
  BY <1>1, <1>2, <1>3, <1>4, <1>5, <1>6, <1>7, <1>8, <1>9, <1>10, <1>11, <1>12,
      <1>13, <1>14, <1>15, <1>16 DEF Next, Answer, SendStep, Loss

\* A send that was not disarmed is of the draft and the key of the page.
LEMMA SendInvNext == IInv /\ [Next]_vars => SendInv'
<1> SUFFICES ASSUME IInv, [Next]_vars PROVE SendInv'
  OBVIOUS
<1>1. ASSUME NEW n \in Regs, NEW k \in Names, AddFile(n, k) PROVE SendInv'
  BY <1>1, Numbers, SendTyped, RefsTyped, FilesTyped, RegTyped, SubmitStep DEF
      AddFile, Pickable, Start, Disarm, server, IInv, SendInv, Working, Live,
      Finalizing, MintInv, KeyInv, FileInv, Listed, SubmitMoves, SendRecs, Ids,
      FileRecs, RegRecs
<1>2. ASSUME NEW k \in Names, RemoveFile(k) PROVE SendInv'
  BY <1>2, Numbers, SendTyped, RefsTyped, FilesTyped, RegTyped, SubmitStep DEF
      RemoveFile, Removable, Disarm, Absent, server, IInv, SendInv, Working, Live,
      Finalizing, MintInv, KeyInv, FileInv, Listed, SubmitMoves, SendRecs, Ids,
      FileRecs, RegRecs
<1>3. ASSUME NEW k \in Names, PumpStart(k) PROVE SendInv'
  BY <1>3, Numbers, SendTyped, RefsTyped, FilesTyped, RegTyped, SubmitStep DEF
      PumpStart, server, IInv, SendInv, Working, Live, Finalizing, MintInv, KeyInv,
      FileInv, Listed, SubmitMoves, SendRecs, Ids, FileRecs, RegRecs
<1>4. ASSUME NEW n \in Regs, InitSettled(n) PROVE SendInv'
  BY <1>4, Numbers, SendTyped, RefsTyped, FilesTyped, RegTyped, SubmitStep DEF
      InitSettled, Mark, Patch, Start, DraftOf, refs, server, IInv, SendInv,
      Working, Live, Finalizing, MintInv, KeyInv, FileInv, Listed, SubmitMoves,
      SendRecs, Ids, FileRecs, RegRecs
<1>5. ASSUME NEW n \in Regs, Minted(n) PROVE SendInv'
  BY <1>5, Numbers, SendTyped, RefsTyped, FilesTyped, RegTyped, SubmitStep DEF
      Minted, server, IInv, SendInv, Working, Live, Finalizing, MintInv, KeyInv,
      FileInv, Listed, SubmitMoves, SendRecs, Ids, FileRecs, RegRecs
<1>6. ASSUME NEW n \in Regs, Registered(n) PROVE SendInv'
  BY <1>6, Numbers, SendTyped, RefsTyped, FilesTyped, RegTyped, SubmitStep DEF
      Registered, DraftOf, server, IInv, SendInv, Working, Live, Finalizing,
      MintInv, KeyInv, FileInv, Listed, SubmitMoves, SendRecs, Ids, FileRecs,
      RegRecs
<1>7. ASSUME NEW n \in Regs, RegistrationFailed(n) PROVE SendInv'
  BY <1>7, Numbers, SendTyped, RefsTyped, FilesTyped, RegTyped, SubmitStep DEF
      RegistrationFailed, Mark, Patch, server, IInv, SendInv, Working, Live,
      Finalizing, MintInv, KeyInv, FileInv, Listed, SubmitMoves, SendRecs, Ids,
      FileRecs, RegRecs
<1>8. ASSUME NEW n \in Regs, Removed(n) PROVE SendInv'
  BY <1>8, Numbers, SendTyped, RefsTyped, FilesTyped, RegTyped, SubmitStep DEF
      Removed, ResetLocal, NoCall, Listed, Absent, server, IInv, SendInv, Working,
      Live, Finalizing, MintInv, KeyInv, FileInv, SubmitMoves, SendRecs, Ids,
      FileRecs, RegRecs
<1>9. ASSUME NEW n \in Regs, ServeShort(n) PROVE SendInv'
  BY <1>9, Numbers, SendTyped, RefsTyped, FilesTyped, RegTyped, SubmitStep DEF
      ServeShort, AbortDraft, HasRow, RowsOf, refs, IInv, SendInv, Working, Live,
      Finalizing, MintInv, KeyInv, FileInv, Listed, SubmitMoves, SendRecs, Ids,
      FileRecs, RegRecs
<1>10. ASSUME NEW n \in Regs, UploadSettled(n) PROVE SendInv'
  BY <1>10, Numbers, SendTyped, RefsTyped, FilesTyped, RegTyped, SubmitStep DEF
      UploadSettled, NoUpload, Mark, Patch, Outcome, server, IInv, SendInv,
      Working, Live, Finalizing, MintInv, KeyInv, FileInv, Listed, SubmitMoves,
      SendRecs, Ids, FileRecs, RegRecs
<1>11. ASSUME Submit PROVE SendInv'
  BY <1>11, Numbers, SendTyped, RefsTyped, FilesTyped, RegTyped, SubmitStep DEF
      Submit, Sendable, Listed, refs, server, IInv, SendInv, Working, Live,
      Finalizing, MintInv, KeyInv, FileInv, SubmitMoves, SendRecs, Ids, FileRecs,
      RegRecs
<1>12. ASSUME EditMetadata PROVE SendInv'
  BY <1>12, Numbers, SendTyped, RefsTyped, FilesTyped, RegTyped, SubmitStep DEF
      EditMetadata, refs, server, IInv, SendInv, Working, Live, Finalizing,
      MintInv, KeyInv, FileInv, Listed, SubmitMoves, SendRecs, Ids, FileRecs,
      RegRecs
<1>13. ASSUME TickRejects PROVE SendInv'
  BY <1>13, Numbers, SendTyped, RefsTyped, FilesTyped, RegTyped, SubmitStep DEF
      TickRejects, NoSend, KeyReady, Listed, refs, server, IInv, SendInv, Working,
      Live, Finalizing, MintInv, KeyInv, FileInv, SubmitMoves, SendRecs, Ids,
      FileRecs, RegRecs
<1>14. ASSUME TickResolves PROVE SendInv'
  BY <1>14, Numbers, SendTyped, RefsTyped, FilesTyped, RegTyped, SubmitStep DEF
      TickResolves, KeyReady, Listed, refs, server, IInv, SendInv, Working, Live,
      Finalizing, MintInv, KeyInv, FileInv, SubmitMoves, SendRecs, Ids, FileRecs,
      RegRecs
<1>15. ASSUME ServeFinalize PROVE SendInv'
  BY <1>15, Numbers, SendTyped, RefsTyped, FilesTyped, RegTyped, SubmitStep DEF
      ServeFinalize, FinalizeRefused, Pending, RowsOf, ShareOrScan, refs, IInv,
      SendInv, Working, Live, Finalizing, MintInv, KeyInv, FileInv, Listed,
      SubmitMoves, SendRecs, Ids, FileRecs, RegRecs
<1>16. ASSUME PollAgain PROVE SendInv'
  BY <1>16, Numbers, SendTyped, RefsTyped, FilesTyped, RegTyped, SubmitStep DEF
      PollAgain, Waiting, refs, server, IInv, SendInv, Working, Live, Finalizing,
      MintInv, KeyInv, FileInv, Listed, SubmitMoves, SendRecs, Ids, FileRecs,
      RegRecs
<1>17. ASSUME SendFailed PROVE SendInv'
  BY <1>17, Numbers, SendTyped, RefsTyped, FilesTyped, RegTyped, SubmitStep DEF
      SendFailed, NoSend, refs, server, IInv, SendInv, Working, Live, Finalizing,
      MintInv, KeyInv, FileInv, Listed, SubmitMoves, SendRecs, Ids, FileRecs,
      RegRecs
<1>18. ASSUME Sent PROVE SendInv'
  BY <1>18, Numbers, SendTyped, RefsTyped, FilesTyped, RegTyped, SubmitStep DEF
      Sent, StopLocal, ResetLocal, Absent, server, IInv, SendInv, Working, Live,
      Finalizing, MintInv, KeyInv, FileInv, Listed, SubmitMoves, SendRecs, Ids,
      FileRecs, RegRecs
<1>19. ASSUME PollTimesOut PROVE SendInv'
  BY <1>19, Numbers, SendTyped, RefsTyped, FilesTyped, RegTyped, SubmitStep DEF
      PollTimesOut, NoSend, Waiting, refs, server, IInv, SendInv, Working, Live,
      Finalizing, MintInv, KeyInv, FileInv, Listed, SubmitMoves, SendRecs, Ids,
      FileRecs, RegRecs
<1>20. ASSUME Leave PROVE SendInv'
  BY <1>20, Numbers, SendTyped, RefsTyped, FilesTyped, RegTyped, SubmitStep DEF
      Leave, StopLocal, ResetLocal, NoCall, Absent, server, IInv, SendInv, Working,
      Live, Finalizing, MintInv, KeyInv, FileInv, Listed, SubmitMoves, SendRecs,
      Ids, FileRecs, RegRecs
<1>21. ASSUME NEW n \in Regs, LoseRegistration(n) PROVE SendInv'
  BY <1>21, Numbers, SendTyped, RefsTyped, FilesTyped, RegTyped, SubmitStep DEF
      LoseRegistration, Fault, refs, server, IInv, SendInv, Working, Live,
      Finalizing, MintInv, KeyInv, FileInv, Listed, SubmitMoves, SendRecs, Ids,
      FileRecs, RegRecs
<1>22. ASSUME NEW n \in Regs, LoseUpload(n) PROVE SendInv'
  BY <1>22, Numbers, SendTyped, RefsTyped, FilesTyped, RegTyped, SubmitStep DEF
      LoseUpload, Fault, refs, server, IInv, SendInv, Working, Live, Finalizing,
      MintInv, KeyInv, FileInv, Listed, SubmitMoves, SendRecs, Ids, FileRecs,
      RegRecs
<1>23. ASSUME NEW n \in Regs, LoseRemoval(n) PROVE SendInv'
  BY <1>23, Numbers, SendTyped, RefsTyped, FilesTyped, RegTyped, SubmitStep DEF
      LoseRemoval, Fault, refs, server, IInv, SendInv, Working, Live, Finalizing,
      MintInv, KeyInv, FileInv, Listed, SubmitMoves, SendRecs, Ids, FileRecs,
      RegRecs
<1>24. ASSUME LoseFinalize PROVE SendInv'
  BY <1>24, Numbers, SendTyped, RefsTyped, FilesTyped, RegTyped, SubmitStep DEF
      LoseFinalize, Fault, refs, server, IInv, SendInv, Working, Live, Finalizing,
      MintInv, KeyInv, FileInv, Listed, SubmitMoves, SendRecs, Ids, FileRecs,
      RegRecs
<1>25. ASSUME LoseAbort PROVE SendInv'
  BY <1>25, Numbers, SendTyped, RefsTyped, FilesTyped, RegTyped, SubmitStep DEF
      LoseAbort, Fault, NoCall, refs, server, IInv, SendInv, Working, Live,
      Finalizing, MintInv, KeyInv, FileInv, Listed, SubmitMoves, SendRecs, Ids,
      FileRecs, RegRecs
<1>26. ASSUME NEW n \in Regs, ServeAdd(n) \/ ServeDrop(n) \/ Dropped(n) \/
          ServeRemove(n) \/ PartsUp(n) \/ PartsFail(n) \/ ServeComplete(n) \/
          ImportEnds(n) PROVE SendInv'
  BY <1>26, Numbers, SendTyped, RefsTyped, FilesTyped, RegTyped, SubmitStep DEF
      ServeAdd, ServeDrop, Dropped, ServeRemove, PartsUp, PartsFail, ServeComplete,
      ImportEnds, refs, server, IInv, SendInv, Working, Live, Finalizing, MintInv,
      KeyInv, FileInv, Listed, SubmitMoves, SendRecs, Ids, FileRecs, RegRecs
<1>27. ASSUME ServeAbort PROVE SendInv'
  BY <1>27, Numbers, SendTyped, RefsTyped, FilesTyped, RegTyped, SubmitStep DEF
      ServeAbort, refs, server, IInv, SendInv, Working, Live, Finalizing, MintInv,
      KeyInv, FileInv, Listed, SubmitMoves, SendRecs, Ids, FileRecs, RegRecs
<1>28. CASE UNCHANGED vars
  BY <1>28, Numbers, SendTyped, RefsTyped, FilesTyped, RegTyped, SubmitStep DEF
      vars, refs, server, IInv, SendInv, Working, Live, Finalizing, MintInv,
      KeyInv, FileInv, Listed, SubmitMoves, SendRecs, Ids, FileRecs, RegRecs
<1>. QED
  BY <1>1, <1>2, <1>3, <1>4, <1>5, <1>6, <1>7, <1>8, <1>9, <1>10, <1>11, <1>12,
      <1>13, <1>14, <1>15, <1>16, <1>17, <1>18, <1>19, <1>20, <1>21, <1>22, <1>23,
      <1>24, <1>25, <1>26, <1>27, <1>28 DEF Next, Answer, SendStep, Loss

\* What a send will share stays under its key, also when the page is left.
LEMMA FinalInvNext == IInv /\ [Next]_vars => FinalInv'
<1> SUFFICES ASSUME IInv, [Next]_vars PROVE FinalInv'
  OBVIOUS
<1>1. SubmitMoves /\ slips \subseteq slips'
  BY SubmitStep, SlipsStep
<1>2. send'.at # "idle" => send'.id \in Regs
  BY <1>1, RefsTyped DEF SubmitMoves, IInv, FinalInv, Ids
<1>3. Finalizing' /\ ~send'.confidential => send'.posted # None
  BY <1>1 DEF SubmitMoves, IInv, FinalInv, Finalizing
<1>4. ASSUME Finalizing', "wiped" \notin slips'
      PROVE  Secret' # None /\ Under(send.id, Secret)'
  <2>1. CASE /\ send'.at = "post" /\ send.at = "armed" /\ ~send.cancel /\ page = "open"
             /\ UNCHANGED <<key, page>> /\ send'.id = send.id
    <3>1. SendInv' /\ EncInv' /\ Working' /\ Live'
      BY <1>1, <1>4, <2>1, SendInvNext, EncInvNext DEF Working, Live
    <3>. QED
      BY <3>1, <1>4 DEF SendInv, EncInv, Secret
  <2>2. CASE /\ send.at # "idle" /\ Finalizing' = Finalizing
             /\ send'.id = send.id /\ send'.carried = send.carried
             /\ send'.posted = send.posted /\ send'.confidential = send.confidential
    <3> DEFINE d == send.id
               s == Secret
    <3>1. /\ Finalizing /\ "wiped" \notin slips
          /\ Secret' = s /\ s # None /\ Under(d, s) /\ d \in Regs
      BY <1>1, <1>4, <2>2 DEF IInv, FinalInv, Secret
    <3>2. page = "open" /\ key # None => key = s
      BY <3>1 DEF IInv, SendInv, Live, Working, Secret
    <3>3. (\E k \in Names : files[k].state = "registered") => page = "open"
      BY Types DEF IInv, Listed
    <3>4. parked'[d] \in {None, s}
      BY <3>1, DraftStep DEF DraftMoves, Under, Secret
    <3>5. ASSUME NEW n \in Regs, row'[n].draft = d
          PROVE  row'[n].enc \in {None, s} /\ up'[n].enc \in {None, s}
      <4>1. RowMoves(n) /\ UpMoves(n)
        BY RowStep, UpStep
      <4>2. row[n].state = "none" => up[n].enc = None /\ row[n].enc = None
        BY DEF IInv, UpInv, RowInv
      <4>3. row[n].state # "none" => row[n].draft = d
        BY <3>5, <4>1 DEF RowMoves
      <4>4. row[n].enc \in {None, s} /\ up[n].enc \in {None, s} /\ parked[d] \in {None, s}
        BY <3>1, <4>2, <4>3 DEF Under
      <4>5. row'[n].enc \in {None, s}
        BY <4>1, <4>3, <4>4 DEF RowMoves
      <4>6. up'[n].enc \in {None, s}
        BY <3>2, <3>3, <4>1, <4>4 DEF UpMoves
      <4>. QED
        BY <4>5, <4>6
    <3>. QED
      BY <2>2, <3>1, <3>4, <3>5 DEF Under
  <2>. QED
    BY <1>1, <1>4, <2>1, <2>2 DEF SubmitMoves, Finalizing
<1>. QED
  BY <1>2, <1>3, <1>4 DEF FinalInv

\* A sent draft stays as it is, under the key that was shared.
LEMMA SentUnderOneKeyNext == IInv /\ [Next]_vars => SentUnderOneKey'
<1> SUFFICES ASSUME IInv, [Next]_vars, "wiped" \notin slips', NEW n \in Regs,
                    row'[n].state = "sent"
             PROVE  /\ row'[n].draft \in Regs
                    /\ row'[n].enc = shared'[row'[n].draft].key /\ row'[n].enc # None
  BY DEF SentUnderOneKey
<1> DEFINE d == row[n].draft
<1>1. /\ RowMoves(n) /\ "wiped" \notin slips
      /\ row[n].state # "none" => d \in Regs
  BY RowStep, SlipsStep, RegTyped DEF IInv, RowInv, DraftOf, RegRecs, Ids
<1>2. CASE row[n].state = "sent"
  <2>1. row'[n] = row[n] /\ d \in Regs /\ draft[d] = "sent"
    BY <1>1, <1>2 DEF RowMoves, IInv, RowInv
  <2>2. row[n].enc = shared[d].key /\ row[n].enc # None
    BY <1>1, <1>2 DEF IInv, SentUnderOneKey
  <2>3. shared'[d] = shared[d]
    BY <2>1, DraftStep DEF DraftMoves
  <2>. QED
    BY <2>1, <2>2, <2>3
<1>3. CASE row[n].state # "sent"
  <2>1. /\ row[n].state = "landed" /\ row'[n].enc = row[n].enc /\ d \in Regs
        /\ row'[n].draft = d /\ draft'[d] = "sent" /\ row[n].enc # None
    BY <1>1, <1>3 DEF RowMoves, IInv, RowInv
  <2>2. Finalizing /\ send.id = d /\ shared'[d].key = Secret
    BY <1>1, <1>3 DEF RowMoves
  <2>3. row[n].enc \in {None, Secret}
    BY <1>1, <2>2 DEF IInv, FinalInv, Under
  <2>. QED
    BY <2>1, <2>2, <2>3
<1>. QED
  BY <1>2, <1>3

\* At the start nothing was added.
LEMMA InitInv == Init => IInv
<1> SUFFICES ASSUME Init PROVE IInv
  OBVIOUS
<1>1. TypeOK
  <2>1. /\ files \in [Names -> FileRecs] /\ {draftId, initP, key, pump} \subseteq Ids
        /\ reg \in [Regs -> RegRecs] /\ up \in [Regs -> UpRecs]
    BY DEF Init, Absent, NoUpload, FileRecs, FileStates, RegRecs, RegStates, UpRecs,
           UpStates, Ids
  <2>2. /\ rm \in [Regs -> CallRecs] /\ leave \in CallRecs
        /\ send \in SendRecs
    BY BoundsAssumption DEF Init, NoCall, NoSend, CallRecs, CallStates, SendRecs, SendStates,
           Answers, Ids
  <2>3. /\ draft \in [Regs -> {"none", "open", "gone", "sent"}]
        /\ row \in [Regs -> RowRecs] /\ parked \in [Regs -> Ids]
        /\ shared \in [Regs -> Shares]
    BY DEF Init, RowRecs, RowStates, Shares, Ids
  <2>4. faults \in 0 .. MaxFaults /\ slips \subseteq Slips /\ page = "open"
    BY BoundsAssumption DEF Init
  <2>. QED
    BY <2>1, <2>2, <2>3, <2>4, Types
<1>2. FileInv /\ RegInv /\ RefInv /\ RowInv /\ DraftInv /\ UpInv
  BY DEF Init, Absent, NoUpload, FileInv, RegInv, RegOk, RefInv, RowInv, DraftInv, UpInv
<1>3. MintInv /\ KeyInv /\ EncInv /\ SendInv /\ FinalInv /\ SentUnderOneKey
  BY DEF Init, NoSend, MintInv, KeyInv, EncInv, SendInv, Live, FinalInv, Finalizing,
         SentUnderOneKey
<1>. QED
  BY <1>1, <1>2, <1>3 DEF IInv

\* The invariant holds in every state, for any names, registrations, sends and
\* faults.
THEOREM Inductive == Spec => []IInv
<1>1. IInv /\ [Next]_vars => IInv'
  BY TypeOKNext, FileInvNext, RegInvNext, RefInvNext, RowInvNext, DraftInvNext, UpInvNext,
     MintInvNext, KeyInvNext, EncInvNext, SendInvNext, FinalInvNext, SentUnderOneKeyNext
     DEF IInv
<1>. QED
  BY InitInv, <1>1, PTL DEF Spec

\* The page, the calls under way and the server keep their types, and a page
\* that was left lists nothing.
THEOREM TypeCorrect == Spec => []TypeOK
<1>1. IInv => TypeOK
  BY DEF IInv
<1>. QED
  BY Inductive, <1>1, PTL

\* The recipients' key opens every file of a sent draft, however often the
\* sender starts over, sends and fails (registerFile, the pump, submit).
THEOREM OneKey == Spec => []SentUnderOneKey
<1>1. IInv => SentUnderOneKey
  BY DEF IInv
<1>. QED
  BY Inductive, <1>1, PTL
=============================================================================
