------------------------------ MODULE KeyRegistry ------------------------------
(***************************************************************************)
(* The key of one transfer in the recipient's browser: the tabs that show  *)
(* its link (DownloadView.tsx, encryptionServiceWorker.ts) and the service *)
(* worker they share (sw.js).                                              *)
(*                                                                         *)
(* A view hands the key over in a handshake and releases it when it goes;  *)
(* the worker keeps an entry in memory and a copy on disk, which survives  *)
(* the worker's death.  Registrations and releases of a token queue up;    *)
(* the downloads that use its entry, and write it back, do not.            *)
(*                                                                         *)
(* One token, one file, one (right) key.  Entries are objects that the     *)
(* queue and the downloads hold references to: they live on a heap.        *)
(***************************************************************************)
EXTENDS Integers, Sequences, FiniteSets

CONSTANTS
    Pages,      \* tabs
    MaxCalls,   \* handshakes started, by all tabs
    Uses,       \* and by each: one of these functions bounds them
    MaxFaults,  \* worker deaths, reads, writes and listings that fail,
                \* handshakes given up early
    None        \* no entry, no object, no row

ASSUME PagesAssumption == IsFiniteSet(Pages) /\ None \notin Pages
ASSUME UsesAssumption  == \A u \in Uses : \A p \in Pages : u[p] \in 0 .. MaxCalls
ASSUME BoundsAssumption == MaxCalls \in Nat /\ MaxFaults \in Nat /\ None \notin Nat

\* The entry of the token: the tabs it is kept for, the file's resumeToken.
Entries == [clients : SUBSET Pages, resume : BOOLEAN]
ASSUME EntriesAssumption == None \notin Entries

Calls == 1 .. MaxCalls
Objs  == 1 .. MaxCalls + 2

ViewStates == {"none", "loading", "need-key", "ready", "error", "left", "gone"}
CallStates == {"free", "ensure", "queued", "ack", "nack", "lost", "late", "end"}
Kinds      == {"auto", "paste", "click", "refresh"}
Fates      == {"mine", "superseded", "dead"}
DlStates   == {"none", "request", "load", "nego", "write", "fetch", "over", "keyless",
               "killed"}
Running    == {"request", "load", "nego", "write", "fetch"}

\* The ways a key outlives or deserts its page that the code lets happen; a
\* property names those it does not survive.
\*   late     a refresh was acknowledged after its view was unmounted
\*   again    an earlier view's handshake released the key of the view that
\*            has since opened in the same tab
\*   timeout  a handshake that had been given up was served later
\*   stale    a download put back, in memory or on disk, an entry that had
\*            been released or replaced
\*   raced    a registration went on from an entry a download then updated
\*   lost     a release, or the answer to a registration that had been
\*            written, died with the worker
\*   unsaved  a write to disk failed, which nobody notices
\*   forgot   a registration could not read the row, and replaced it
\*   kept     a release could not read the row, and left it there
\*   unread   a download could not read the row, and was refused
Slips == {"late", "again", "timeout", "stale", "raced", "lost", "unsaved", "forgot", "kept",
          "unread"}

VARIABLES
    page,      \* per tab: encryptionState, a controller (ctl), the recovery
               \* flag, autoKey (key), registeredRef, interruptedRef (broken)
    call,      \* handshakes: registerKey calls
    queue,     \* TOKEN_QUEUES of the token
    head,      \* the job at the head of the queue
    registry,  \* REGISTRY: the entry in memory
    heap,      \* the entries: their clients and the file's resumeToken
    store,     \* IndexedDB: the row on disk
    dl,        \* downloads, each under the handshake that precedes it
    faults, slips

sw   == <<queue, head, registry, heap, store>>
vars == <<page, call, sw, dl, faults, slips>>

Idle   == [step |-> "idle", obj |-> None, row |-> None]
Blank  == [clients |-> {}, resume |-> FALSE]
NoCall == [at |-> "free", page |-> None, kind |-> "auto", fate |-> "dead"]
NoDl   == [at |-> "none", page |-> None, obj |-> None, row |-> None, again |-> FALSE,
           told |-> TRUE]
NoView == [at |-> "none", ctl |-> FALSE, flag |-> FALSE, key |-> FALSE,
           registered |-> FALSE, broken |-> FALSE]

Init ==
    /\ page = [p \in Pages |-> NoView]
    /\ call = [c \in Calls |-> NoCall]
    /\ queue = <<>> /\ head = Idle
    /\ registry = None /\ heap = [o \in Objs |-> Blank] /\ store = None
    /\ dl = [c \in Calls |-> NoDl]
    /\ faults = 0 /\ slips = {}

Mounted(p) == page[p].at \notin {"none", "left", "gone"}
Windows    == {p \in Pages : page[p].at \notin {"none", "gone"}}
Refs       == {registry, head.obj} \cup {dl[c].obj : c \in Calls}
Fresh(S)   == CHOOSE o \in Objs \ S : TRUE
Keep(h)    == heap' = [o \in Objs |-> IF o \in Refs' THEN h[o] ELSE Blank]
Pending(p) == \E c \in Calls : dl[c].page = p /\ ~dl[c].told
Fault      == faults < MaxFaults /\ faults' = faults + 1
Ended(c)   == [NoCall EXCEPT !.at = "end", !.page = call[c].page]
Started(p) == Cardinality({c \in Calls : call[c].page = p})
May(p)     == \E u \in Uses : \A x \in Pages :
                 /\ Started(x) + (IF x = p THEN 1 ELSE 0) <= u[x]
                 /\ page[x].at = "none" \/ u[x] > 0
Turn(c)    == \A x \in Calls : x < c /\ call[x].page = call[c].page => call[x].at # call[c].at
Slip(b, s) == slips' = IF b THEN slips \cup {s} ELSE slips

-----------------------------------------------------------------------------
(* The views: what starts a handshake. *)

\* A tab's handshakes proceed in order.  A newer registration cancels the earlier ones of the effect.
Start(c, p, kind) ==
    /\ call[c].at = "free" /\ \A x \in Calls : x < c => call[x].at # "free"
    /\ May(p)
    /\ call' = [x \in Calls |->
         IF x = c THEN [at |-> "ensure", page |-> p, kind |-> kind, fate |-> "mine"]
         ELSE IF kind = "auto" /\ call[x].page = p /\ call[x].kind = "auto"
                 /\ call[x].fate = "mine"
         THEN [call[x] EXCEPT !.fate = "superseded"] ELSE call[x]]

\* A view is mounted, with the key at hand (in the fragment, or from the
\* backend) or without.
Open(c, p) ==
    /\ page[p].at \in {"none", "left"} /\ May(p)
    /\ \/ /\ page' = [page EXCEPT ![p].at = "loading", ![p].key = TRUE]
          /\ Start(c, p, "auto")
       \/ /\ page' = [page EXCEPT ![p].at = "need-key", ![p].key = FALSE]
          /\ UNCHANGED call
    /\ UNCHANGED <<sw, dl, faults, slips>>

\* The registration effect runs again: the link is pasted over the open page
\* (hashchange), or the list of files changes.
Rerun(c, p) ==
    /\ Mounted(p)
    /\ \/ page' = [page EXCEPT ![p].at = "loading", ![p].key = TRUE]
       \/ page[p].key /\ UNCHANGED page
    /\ Start(c, p, "auto")
    /\ UNCHANGED <<sw, dl, faults, slips>>

Paste(c, p) ==
    /\ page[p].at = "need-key"
    /\ page' = [page EXCEPT ![p].at = "loading"]
    /\ Start(c, p, "paste")
    /\ UNCHANGED <<sw, dl, faults, slips>>

\* The button is disabled while a download of the file is pending.
Clickable(p) == page[p].at = "ready" /\ ~Pending(p)

\* A click registers the key once more before it opens the download.
Click(c, p) ==
    /\ Clickable(p)
    /\ Start(c, p, "click")
    /\ UNCHANGED <<page, sw, dl, faults, slips>>

\* The tab is shown again.
Refresh(c, p) ==
    /\ page[p].at = "ready"
    /\ Start(c, p, "refresh")
    /\ UNCHANGED <<page, sw, dl, faults, slips>>

Released(q, p) == Append(q, [op |-> "release", page |-> p, call |-> None])

\* The iframes of the downloads that have not settled go with their view.
Orphan(p) == [c \in Calls |-> IF dl[c].page = p
                              THEN [dl[c] EXCEPT !.page = None, !.told = TRUE] ELSE dl[c]]

\* The view is unmounted in a tab that stays open.
Leave(p) ==
    /\ Mounted(p)
    /\ page' = [page EXCEPT ![p] = [@ EXCEPT !.at = "left", !.key = FALSE,
                                             !.registered = FALSE, !.broken = FALSE]]
    /\ queue' = IF page[p].registered THEN Released(queue, p) ELSE queue
    /\ call' = [c \in Calls |-> IF call[c].page = p THEN [call[c] EXCEPT !.fate = "dead"]
                                ELSE call[c]]
    /\ dl' = Orphan(p)
    /\ UNCHANGED <<head, registry, heap, store, faults, slips>>

\* The tab is closed: nothing is unmounted, and no message leaves.
Close(p) ==
    /\ p \in Windows
    /\ page' = [page EXCEPT ![p] = [NoView EXCEPT !.at = "gone"]]
    /\ call' = [c \in Calls |->
         IF call[c].page # p THEN call[c]
         ELSE IF call[c].at \in {"queued", "late"} THEN [call[c] EXCEPT !.at = "late", !.fate = "dead"]
         ELSE Ended(c)]
    /\ dl' = Orphan(p)
    /\ UNCHANGED <<sw, faults, slips>>

-----------------------------------------------------------------------------
(* The handshake, seen from the page. *)

\* What a view makes of a handshake that failed.
Failed(c) ==
    LET p == call[c].page IN
    /\ call' = [call EXCEPT ![c] = IF @.at = "queued" THEN [@ EXCEPT !.at = "late", !.fate = "dead"]
                                   ELSE Ended(c)]
    /\ page' = IF call[c].fate # "mine" THEN page
               ELSE IF call[c].kind = "auto" THEN [page EXCEPT ![p].at = "error"]
               ELSE IF call[c].kind = "paste" THEN [page EXCEPT ![p].at = "need-key"]
               ELSE page

\* ensureEncryptionServiceWorker: a page that gets no controller reloads,
\* unless it has done so, has no active worker, or cannot leave the flag.
Uncontrolled(c) ==
    /\ call[c].at = "ensure"
    /\ LET p == call[c].page IN
       /\ ~page[p].ctl
       /\ \/ Failed(c) /\ UNCHANGED dl
          \/ /\ ~page[p].flag
             /\ page' = [page EXCEPT ![p] = [NoView EXCEPT !.flag = TRUE]]
             /\ call' = [x \in Calls |-> IF call[x].page = p THEN Ended(x) ELSE call[x]]
             /\ dl' = Orphan(p)
    /\ UNCHANGED <<sw, faults, slips>>

\* The page has a controller and posts the key; the worker imports it, and
\* the registration queues up.  A pasted key may be malformed.
Posted(c) ==
    /\ call[c].at = "ensure" /\ Turn(c)
    /\ page' = [page EXCEPT ![call[c].page].ctl = TRUE, ![call[c].page].flag = FALSE]
    /\ \/ /\ queue' = Append(queue, [op |-> "register", page |-> call[c].page, call |-> c])
          /\ call' = [call EXCEPT ![c].at = "queued"]
       \/ /\ call[c].kind = "paste"
          /\ call' = [call EXCEPT ![c].at = "nack"]
          /\ UNCHANGED queue
    /\ UNCHANGED <<head, registry, heap, store, dl, faults, slips>>

\* The acknowledgement of a handshake whose view is still there.
AckedMounted(c) ==
    LET p == call[c].page
        k == call[c].kind IN
    /\ call[c].fate # "dead"
    /\ page' = [page EXCEPT
         ![p].registered = TRUE,
         ![p].at = IF k \in {"auto", "paste"} /\ call[c].fate = "mine" THEN "ready" ELSE @,
         ![p].broken = @ /\ k # "click"]
    /\ dl' = IF k # "click" THEN dl
             ELSE [dl EXCEPT ![c] = [NoDl EXCEPT !.at = "request", !.page = p,
                                                 !.again = page[p].broken, !.told = FALSE]]
    /\ UNCHANGED <<queue, slips>>

M_AckedDeadKept(c) ==
    /\ call[c].fate = "dead"
    /\ UNCHANGED <<page, dl, queue, slips>>

\* Of one whose view has been unmounted: the key is let go again, except by
\* the refresh.
AckedDead(c) ==
    /\ call[c].fate = "dead"
    /\ queue' = IF call[c].kind = "refresh" THEN queue ELSE Released(queue, call[c].page)
    /\ slips' = IF call[c].kind = "refresh" THEN slips \cup {"late"}
                ELSE IF Mounted(call[c].page) THEN slips \cup {"again"} ELSE slips
    /\ UNCHANGED <<page, dl>>

Acked(c) ==
    /\ call[c].at = "ack" /\ Turn(c)
    /\ AckedMounted(c) \/ AckedDead(c)
    /\ call' = [call EXCEPT ![c] = Ended(c)]
    /\ UNCHANGED <<head, registry, heap, store, faults>>

M_RefusedUntimed(c) ==
    /\ call[c].at = "nack"
    /\ Failed(c)
    /\ UNCHANGED <<sw, dl, faults, slips>>

\* It was refused, or lost with the worker: then the wait times out.
Refused(c) ==
    /\ call[c].at \in {"nack", "lost"}
    /\ Failed(c)
    /\ UNCHANGED <<sw, dl, faults, slips>>

\* The wait times out although the worker still works on it.
GivenUp(c) ==
    /\ call[c].at = "queued" /\ Fault
    /\ Failed(c)
    /\ slips' = slips \cup {"timeout"}
    /\ UNCHANGED <<sw, dl>>

-----------------------------------------------------------------------------
(* The worker's queue: one registration or release at a time. *)

Job     == queue[1]
Dequeue == queue' = Tail(queue) /\ head' = Idle

M_BeginForgetsClients(o, h) ==
    IF Job.op = "register"
    THEN LET n == Fresh(Refs \cup {o}) IN
         /\ head' = [Idle EXCEPT !.step = "prune", !.obj = n]
         /\ Keep([h EXCEPT ![n] = IF o = None THEN Blank ELSE [h[o] EXCEPT !.clients = {}]])
         /\ UNCHANGED queue
    ELSE IF o = None
    THEN Dequeue /\ Keep(h)
    ELSE /\ head' = [Idle EXCEPT !.step = "prune", !.obj = o]
         /\ Keep([h EXCEPT ![o].clients = @ \ {Job.page}])
         /\ UNCHANGED queue

M_BeginForgetsResume(o, h) ==
    IF Job.op = "register"
    THEN LET n == Fresh(Refs \cup {o}) IN
         /\ head' = [Idle EXCEPT !.step = "prune", !.obj = n]
         /\ Keep([h EXCEPT ![n] = IF o = None THEN Blank ELSE [h[o] EXCEPT !.resume = FALSE]])
         /\ UNCHANGED queue
    ELSE IF o = None
    THEN Dequeue /\ Keep(h)
    ELSE /\ head' = [Idle EXCEPT !.step = "prune", !.obj = o]
         /\ Keep([h EXCEPT ![o].clients = @ \ {Job.page}])
         /\ UNCHANGED queue

\* What a job does with the entry it found: a registration goes on with a
\* copy of it, a release with the entry itself.
Begin(o, h) ==
    IF Job.op = "register"
    THEN LET n == Fresh(Refs \cup {o}) IN
         /\ head' = [Idle EXCEPT !.step = "prune", !.obj = n]
         /\ Keep([h EXCEPT ![n] = IF o = None THEN Blank ELSE h[o]])
         /\ UNCHANGED queue
    ELSE IF o = None
    THEN Dequeue /\ Keep(h)
    ELSE /\ head' = [Idle EXCEPT !.step = "prune", !.obj = o]
         /\ Keep([h EXCEPT ![o].clients = @ \ {Job.page}])
         /\ UNCHANGED queue

\* The entry is in memory, or its row is read from disk.
Take ==
    /\ queue # <<>> /\ head.step = "idle"
    /\ UNCHANGED <<page, call, registry, store, dl, faults, slips>>
    /\ IF registry # None THEN Begin(registry, heap)
       ELSE /\ head' = [Idle EXCEPT !.step = "load", !.row = store]
            /\ UNCHANGED <<queue, heap>>

M_LoadedMissing ==
    /\ head.step = "load"
    /\ UNCHANGED <<page, call, store, dl, faults, slips>>
    /\ LET o == Fresh(Refs) IN
       registry' = o /\ Begin(o, [heap EXCEPT ![o] = head.row])

\* loadEntry: the row becomes the entry.  A read that fails finds nothing.
Loaded ==
    /\ head.step = "load"
    /\ UNCHANGED <<page, call, store, dl>>
    /\ \/ /\ head.row # None
          /\ LET o == Fresh(Refs) IN registry' = o /\ Begin(o, [heap EXCEPT ![o] = head.row])
          /\ Slip(registry # None \/ store # head.row, "raced")
          /\ UNCHANGED faults
       \/ /\ UNCHANGED registry /\ Begin(None, heap)
          /\ \/ head.row = None /\ UNCHANGED <<faults, slips>>
             \/ /\ head.row # None /\ Fault
                /\ slips' = slips \cup {IF Job.op = "register" THEN "forgot" ELSE "kept"}

\* pruneClients drops the windows that are gone, or none when they cannot be
\* listed.
Pruned ==
    /\ head.step = "prune"
    /\ UNCHANGED <<page, call, queue, store, dl>>
    /\ \E listed \in BOOLEAN :
       LET o    == head.obj
           kept == {p \in heap[o].clients : listed => p \in Windows} IN
       /\ IF listed THEN UNCHANGED faults ELSE Fault
       /\ IF Job.op = "register"
          THEN /\ registry' = o /\ head' = [head EXCEPT !.step = "write"]
               /\ UNCHANGED slips
               /\ Keep([heap EXCEPT ![o].clients = kept \cup {Job.page}])
          ELSE /\ registry' = IF kept = {} THEN None ELSE registry
               /\ head' = [head EXCEPT !.step = IF kept = {} THEN "forget" ELSE "write"]
               /\ Slip(registry # o, "raced")
               /\ Keep([heap EXCEPT ![o].clients = kept])

M_WrittenUnstored ==
    /\ head.step \in {"write", "forget"}
    /\ call' = IF Job.op = "release" THEN call
               ELSE [call EXCEPT ![Job.call] = IF @.at = "queued" THEN [@ EXCEPT !.at = "ack"]
                                               ELSE Ended(Job.call)]
    /\ UNCHANGED <<registry, dl, page, store, faults, slips>> /\ Dequeue /\ Keep(heap)

\* The write has committed, or failed unnoticed; a registration is
\* acknowledged either way.
Written ==
    /\ head.step \in {"write", "forget"}
    /\ \/ /\ store' = IF head.step = "write" THEN heap[head.obj] ELSE None
          /\ UNCHANGED <<faults, slips>>
       \/ /\ Fault /\ slips' = slips \cup {"unsaved"} /\ UNCHANGED store
    /\ call' = IF Job.op = "release" THEN call
               ELSE [call EXCEPT ![Job.call] = IF @.at = "queued" THEN [@ EXCEPT !.at = "ack"]
                                               ELSE Ended(Job.call)]
    /\ UNCHANGED <<registry, dl>> /\ Dequeue /\ Keep(heap)
    /\ UNCHANGED <<page>>

-----------------------------------------------------------------------------
(* Downloads: the fetch handler, outside the queue. *)

\* The request ends at `at`; the page is told, and drops the iframe.
Answer(c, at) ==
    dl' = [dl EXCEPT ![c] = [NoDl EXCEPT !.at = at,
                                         !.page = IF at = "keyless" THEN dl[c].page ELSE None]]

DlTake(c) ==
    /\ dl[c].at = "request"
    /\ dl' = [dl EXCEPT ![c] = IF registry # None
                               THEN [@ EXCEPT !.at = "nego", !.obj = registry]
                               ELSE [@ EXCEPT !.at = "load", !.row = store]]
    /\ UNCHANGED <<page, call, sw, faults, slips>>

\* loadEntry again: without a row, or when it cannot be read, the click is
\* refused.
DlLoaded(c) ==
    /\ dl[c].at = "load"
    /\ \/ /\ dl[c].row # None
          /\ LET o == Fresh(Refs) IN
             /\ registry' = o
             /\ dl' = [dl EXCEPT ![c].at = "nego", ![c].obj = o, ![c].row = None]
             /\ UNCHANGED head /\ Keep([heap EXCEPT ![o] = dl[c].row])
             /\ Slip(registry # None \/ store # dl[c].row \/ head.step = "forget", "stale")
          /\ UNCHANGED faults
       \/ /\ Answer(c, "keyless")
          /\ UNCHANGED <<head, heap, registry>>
          /\ \/ dl[c].row = None /\ UNCHANGED <<faults, slips>>
             \/ dl[c].row # None /\ Fault /\ slips' = slips \cup {"unread"}
    /\ UNCHANGED <<page, call, queue, store>>

\* The backend answers with a URL and a resume capability, or refuses.
Negotiated(c) ==
    /\ dl[c].at = "nego"
    /\ UNCHANGED <<registry, head>>
    /\ \/ /\ dl' = [dl EXCEPT ![c].at = "write", ![c].again = FALSE]
          /\ Keep([heap EXCEPT ![dl[c].obj].resume = TRUE])
          /\ Slip(head.step = "prune" /\ Job.op = "register", "raced")
       \/ Answer(c, "over") /\ Keep(heap) /\ UNCHANGED slips
    /\ UNCHANGED <<page, call, queue, store, faults>>

\* The capability is committed with its entry, whatever became of that.
DlWritten(c) ==
    /\ dl[c].at = "write"
    /\ \/ /\ store' = heap[dl[c].obj]
          /\ Slip(registry # dl[c].obj, "stale")
          /\ UNCHANGED faults
       \/ /\ Fault /\ slips' = slips \cup {"unsaved"} /\ UNCHANGED store
    /\ dl' = [dl EXCEPT ![c].at = "fetch", ![c].obj = None]
    /\ UNCHANGED <<registry, head>> /\ Keep(heap)
    /\ UNCHANGED <<page, call, queue>>

\* The stream starts, fails, or is cancelled by the browser: then the page
\* notes that its next click is to resume it.
Streams(c) ==
    /\ dl[c].at = "fetch"
    /\ Answer(c, "over")
    /\ \E cancelled \in BOOLEAN :
         page' = IF cancelled /\ dl[c].page # None
                 THEN [page EXCEPT ![dl[c].page].broken = TRUE] ELSE page
    /\ UNCHANGED <<call, sw, faults, slips>>

-----------------------------------------------------------------------------
(* The browser. *)

\* The worker is killed: its memory, its queue and the downloads it
\* serves go;
\* a write under way may still have committed.
Die ==
    /\ Fault
    /\ queue' = <<>> /\ head' = Idle /\ registry' = None
    /\ heap' = [o \in Objs |-> Blank]
    /\ call' = [c \in Calls |->
         IF call[c].at = "queued" THEN [call[c] EXCEPT !.at = "lost"]
         ELSE IF call[c].at = "late" THEN Ended(c) ELSE call[c]]
    /\ dl' = [c \in Calls |->
         IF dl[c].at \in Running \ {"request"}
         THEN [NoDl EXCEPT !.at = "killed", !.page = dl[c].page, !.told = dl[c].told]
         ELSE dl[c]]
    /\ \/ head.step = "write" /\ store' = heap[head.obj]
       \/ head.step = "forget" /\ store' = None
       \/ UNCHANGED store
    /\ Slip(head.step = "write" \/ \E i \in DOMAIN queue : queue[i].op = "release", "lost")
    /\ UNCHANGED page

-----------------------------------------------------------------------------
Handshake(c) == Uncontrolled(c) \/ Posted(c) \/ Acked(c) \/ Refused(c)
Work         == Take \/ Loaded \/ Pruned \/ Written
Serve(c)     == DlTake(c) \/ DlLoaded(c) \/ Negotiated(c) \/ DlWritten(c) \/ Streams(c)

Next ==
    \/ \E c \in Calls, p \in Pages :
         Open(c, p) \/ Rerun(c, p) \/ Paste(c, p) \/ Click(c, p) \/ Refresh(c, p)
    \/ \E p \in Pages : Leave(p) \/ Close(p)
    \/ \E c \in Calls : Handshake(c) \/ GivenUp(c) \/ Serve(c)
    \/ Work \/ Die

Spec == Init /\ [][Next]_vars

FairSpec ==
    /\ Spec
    /\ WF_vars(Work)
    /\ \A c \in Calls : WF_vars(Handshake(c)) /\ WF_vars(Serve(c))

-----------------------------------------------------------------------------
\* The state has its type: in particular an entry, in memory or on disk, is
\* never built from a row that does not exist.
TypeOK ==
    /\ page \in [Pages -> [at : ViewStates, ctl : BOOLEAN, flag : BOOLEAN, key : BOOLEAN,
                           registered : BOOLEAN, broken : BOOLEAN]]
    /\ call \in [Calls -> [at : CallStates, page : Pages \cup {None}, kind : Kinds, fate : Fates]]
    /\ queue \in Seq([op : {"register", "release"}, page : Pages, call : Calls \cup {None}])
    /\ head \in [step : {"idle", "load", "prune", "write", "forget"}, obj : Objs \cup {None},
                 row : Entries \cup {None}]
    /\ registry \in Objs \cup {None}
    /\ heap \in [Objs -> Entries]
    /\ store \in Entries \cup {None}
    /\ dl \in [Calls -> [at : DlStates, page : Pages \cup {None}, obj : Objs \cup {None},
                         row : Entries \cup {None}, again : BOOLEAN, told : BOOLEAN]]
    /\ faults \in 0 .. MaxFaults
    /\ slips \subseteq Slips

Clean(S) == slips \cap S = {}

\* While a view offers its downloads (`ready`), the worker holds the key for
\* it, on disk and in whatever is in memory: no release by another view, no
\* earlier handshake of its own and no death of the worker takes it away
\* (comments at TOKEN_QUEUES and releaseEntry, sw.js).
ReadyIsHeld ==
    Clean({"again", "stale", "unsaved", "forgot"}) => \A p \in Pages : page[p].at = "ready" =>
        /\ store # None /\ p \in store.clients
        /\ registry # None => p \in heap[registry].clients

\* A download asked for by a click that is still shown is never answered
\* "Decryption key not loaded": not if the worker dies between the
\* acknowledgement and the request (comment at triggerDownload), nor if an
\* earlier handshake of the tab lets the key go.
ClickFindsKey ==
    Clean({"stale", "unsaved", "forgot", "unread"}) =>
        \A c \in Calls : dl[c].at = "keyless" => dl[c].page = None

\* Nothing is queued, in flight or being served.
Quiet ==
    /\ queue = <<>>
    /\ \A c \in Calls : call[c].at \in {"free", "end"} /\ dl[c].at \notin Running

\* When nothing is under way, no key is held for unmounted views alone,
\* whatever handshakes they left behind (comments at triggerDownload and at
\* the registration effect: "so it doesn't outlive the page").
LeftIsReleased ==
    Clean({"late", "timeout", "stale", "lost", "unsaved", "kept"}) /\ Quiet =>
        /\ store # None => \E p \in store.clients : page[p].at # "left"
        /\ registry # None => \E p \in heap[registry].clients : page[p].at # "left"

\* A click that resumes an interrupted download, and is still shown, finds
\* the capability its earlier answer came with, across registrations and
\* worker deaths.
ResumeIsCarried ==
    Clean({"stale", "raced", "unsaved", "forgot"}) =>
        \A c \in Calls : dl[c].at = "nego" /\ dl[c].again /\ dl[c].page # None =>
            heap[dl[c].obj].resume

\* No handshake leaves a view in `loading` for ever: not a key that is
\* malformed, a worker that dies, a page without controller, a newer attempt.
\* And every click that opened a download stops waiting, unless the worker
\* died with the download ("No timer", comment at `pending`).
ViewsSettle ==
    /\ []<>(\A p \in Pages : page[p].at # "loading")
    /\ []<>(\A p \in Pages : Pending(p) => \E c \in Calls : dl[c].at = "killed")
=============================================================================
