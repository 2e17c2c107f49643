--------------------------- MODULE KeyRegistryProofs ---------------------------
(***************************************************************************)
(* TypeOK, ReadyIsHeld, ClickFindsKey, LeftIsReleased and ResumeIsCarried  *)
(* of KeyRegistry, for all tabs, handshakes and faults.                    *)
(*                                                                         *)
(* A key is held for a tab from the write of its registration on: what     *)
(* could take it away is a release of that very tab, and the order of the  *)
(* handshakes and of the queue keeps those in front.  Conversely whatever  *)
(* mentions a tab owes a release, or the tab is still shown.               *)
(*                                                                         *)
(* A read of the disk that fails takes a row for missing: it spoils only   *)
(* what the job or the download at work makes of it (Misreads).            *)
(***************************************************************************)
EXTENDS KeyRegistry, FiniteSetTheorems, TLAPS

-----------------------------------------------------------------------------
(* The inductive invariant. *)

Live(c)     == call[c].fate # "dead"
Due(c)      == ~Live(c) /\ call[c].at \in {"ensure", "queued", "ack"}
Registers(i, c) == i \in DOMAIN queue /\ queue[i].op = "register" /\ queue[i].call = c
Releases(i, p)  == i \in DOMAIN queue /\ queue[i].op = "release" /\ queue[i].page = p

\* The entry in memory, and the one that the job at work has in hand.
InMemory == IF registry = None THEN None ELSE heap[registry]
InHand   == IF head.obj = None THEN None ELSE heap[head.obj]

\* A handshake that somebody waits for belongs to a view that is there.  The
\* handshakes start, are posted and are acknowledged in order; those of the
\* views that went come first.
CallOwn(c) ==
    /\ call[c].at = "free" => call[c].page = None /\ ~Live(c)
    /\ call[c].at # "free" => call[c].page \in Pages
    /\ Live(c) => /\ Mounted(call[c].page)
                  /\ call[c].at \in {"ensure", "queued", "ack", "nack", "lost"}
    /\ dl[c].at # "none" => call[c].at = "end"
InOrder(x, c) ==
    /\ call[c].at # "free" => call[x].at # "free"
    /\ call[x].page = call[c].page =>
         /\ call[c].at \in {"queued", "ack", "late"} => call[x].at # "ensure"
         /\ call[c].at = "ack" => call[x].at # "queued"
         /\ Live(x) => ~Due(c)
CallInv == \A c \in Calls : CallOwn(c) /\ \A x \in Calls : x < c => InOrder(x, c)

\* What a tab remembers, it remembers while its view is there; before it has
\* a controller it has posted nothing, after it is closed it posts no more.
PageInv ==
    \A p \in Pages :
        /\ page[p].registered \/ page[p].broken => Mounted(p)
        /\ page[p].registered => page[p].ctl
        /\ ~page[p].ctl /\ page[p].at # "gone" =>
             \A c \in Calls : call[c].page = p => call[c].at \in {"ensure", "end"}
        /\ page[p].at = "gone" =>
             \A c \in Calls : call[c].page = p => call[c].at \in {"late", "end"}

\* The queue holds the registrations posted, each once, those of a tab in
\* the order of its handshakes.
QueueInv ==
    /\ \A i \in DOMAIN queue : queue[i].op = "register" =>
         /\ queue[i].call \in Calls
         /\ call[queue[i].call].at \in {"queued", "late"}
         /\ call[queue[i].call].page = queue[i].page
    /\ \A i, j \in DOMAIN queue :
         i < j /\ queue[i].op = "register" /\ queue[j].op = "register" =>
           /\ queue[i].call # queue[j].call
           /\ queue[i].page = queue[j].page => queue[i].call < queue[j].call
    /\ \A c \in Calls : call[c].at = "queued" => \E i \in DOMAIN queue : Registers(i, c)

\* The job at work is the first of the queue, and has its entry in hand.
HeadInv ==
    /\ head.step # "idle" => queue # <<>>
    /\ head.obj = None <=> head.step \in {"idle", "load"}
    /\ head.step = "forget" => Job.op = "release"
    /\ head.step = "write" /\ Job.op = "register" => Job.page \in InHand.clients

\* A download holds an entry from the negotiation to the write, and is shown
\* by a view that is there.
DlInv ==
    \A c \in Calls :
        /\ dl[c].obj # None <=> dl[c].at \in {"nego", "write"}
        /\ dl[c].at = "write" => heap[dl[c].obj].resume
        /\ dl[c].page # None => Mounted(dl[c].page)

\* A tab that was served a click, or is about to be, has no handshake left
\* of an earlier view.
Clicked(p) ==
    \/ page[p].at = "ready" \/ page[p].broken
    \/ \E c \in Calls : \/ dl[c].page = p
                        \/ call[c].page = p /\ Live(c) /\ call[c].kind = "click"
AgainInv ==
    /\ \A p \in Pages : Clicked(p) => \A x \in Calls : call[x].page = p => ~Due(x)
    \* The releases of a tab are in front of the registrations it waits for.
    /\ \A c \in Calls :
         Live(c) /\ call[c].at = "queued" /\ ("again" \notin slips \/ call[c].kind = "click") =>
           \A i, j \in DOMAIN queue : Registers(i, c) /\ Releases(j, call[c].page) => j < i

\* While no download put an old entry back, the job at work has its hand on
\* the entry in memory, except a registration that is still pruning its copy.
RegInv ==
    "stale" \notin slips =>
        /\ head.step = "write" \/ (head.step = "prune" /\ Job.op = "release") => registry = head.obj
        /\ head.step = "forget" => registry = None
        /\ head.step = "load" /\ head.row = None => store = None /\ registry = None
        /\ "forgot" \notin slips /\ head.step = "prune" /\ registry = None => store = None

\* The key is there for p, on disk, in memory and in the hands of the queue.
Has(p) ==
    /\ store # None /\ p \in store.clients
    /\ registry # None => p \in InMemory.clients
    /\ head.step = "load" => head.row # None /\ p \in head.row.clients
    /\ head.step \in {"prune", "write"} => p \in InHand.clients
    /\ head.step # "forget"

\* The tabs it has to be there for.
Held(p) ==
    \/ "again" \notin slips /\ page[p].at = "ready"
    \/ page[p].broken
    \/ \E c \in Calls :
         \/ /\ call[c].page = p /\ Live(c) /\ call[c].at = "ack"
            /\ "again" \notin slips \/ call[c].kind = "click"
         \/ dl[c].page = p /\ dl[c].at \in Running
HeldInv ==
    Clean({"stale", "unsaved", "forgot"}) =>
        /\ \A p \in Pages : Held(p) => Has(p) /\ \A i \in DOMAIN queue : ~Releases(i, p)
        /\ \A c \in Calls : dl[c].page # None =>
             /\ dl[c].at = "load" => dl[c].row # None
             /\ "unread" \notin slips => dl[c].at # "keyless"

\* The capability of a download that was interrupted, or may be, is wherever
\* the key is.
Carried ==
    /\ store # None => store.resume
    /\ registry # None => InMemory.resume
    /\ head.step \in {"prune", "write"} => InHand.resume
Resuming ==
    \/ \E p \in Pages : page[p].broken
    \/ \E c \in Calls : dl[c].page # None /\ (dl[c].at = "fetch" \/ (dl[c].again /\ dl[c].at = "request"))
ResumeInv ==
    Clean({"stale", "raced", "unsaved", "forgot"}) =>
        /\ Resuming => Carried
        /\ registry # None /\ head.step \in {"prune", "write"} /\ InMemory.resume =>
             InHand.resume
        /\ \A c \in Calls : dl[c].page # None /\ dl[c].again =>
             /\ dl[c].at = "load" /\ dl[c].row # None => dl[c].row.resume
             /\ dl[c].at = "nego" => heap[dl[c].obj].resume

\* A release of p is still to come, or its view is there and has registered.
Owed(p) ==
    \/ page[p].registered
    \/ \E c \in Calls : call[c].page = p /\ call[c].at = "ack"
    \/ /\ head.step = "write" /\ Job.op = "register" /\ Job.page = p
       /\ call[Job.call].at = "queued"
    \/ \E i \in DOMAIN queue : Releases(i, p) /\ (i > 1 \/ head.step \in {"idle", "load"})
Releasing    == head.step \in {"prune", "write", "forget"} /\ Job.op = "release"
Hands(e, p)  == e # None /\ p \in e.clients
LeftInv ==
    Clean({"late", "timeout", "stale", "lost", "unsaved", "kept"}) =>
        /\ \A p \in Pages : page[p].at # "gone" =>
             /\ Hands(InMemory, p) \/ Hands(InHand, p) \/ Hands(head.row, p) => Owed(p)
             /\ Hands(store, p) => Owed(p) \/ (Releasing /\ Job.page = p)
        /\ \A c \in Calls : call[c].at = "late" => page[call[c].page].at = "gone"
        /\ InMemory # None /\ InMemory.clients = {} => head.step = "prune" /\ Job.op = "release"
        /\ store # None /\ store.clients = {} => Releasing
        /\ head.step = "write" => InHand.clients # {}
        /\ head.row # None => head.row.clients # {}

IInv == /\ TypeOK /\ CallInv /\ PageInv /\ QueueInv /\ HeadInv /\ DlInv /\ AgainInv
        /\ RegInv /\ HeldInv /\ ResumeInv /\ LeftInv

-----------------------------------------------------------------------------
(* Types. *)

PageRecs == [at : ViewStates, ctl : BOOLEAN, flag : BOOLEAN, key : BOOLEAN,
             registered : BOOLEAN, broken : BOOLEAN]
CallRecs == [at : CallStates, page : Pages \cup {None}, kind : Kinds, fate : Fates]
Jobs     == [op : {"register", "release"}, page : Pages, call : Calls \cup {None}]
HeadRecs == [step : {"idle", "load", "prune", "write", "forget"}, obj : Objs \cup {None},
             row : Entries \cup {None}]
DlRecs   == [at : DlStates, page : Pages \cup {None}, obj : Objs \cup {None},
             row : Entries \cup {None}, again : BOOLEAN, told : BOOLEAN]

\* Sets of records as they are used: one at a time.
LEMMA Typed == ASSUME TypeOK
               PROVE  /\ \A p \in Pages : page[p] \in PageRecs
                      /\ \A c \in Calls : call[c] \in CallRecs /\ dl[c] \in DlRecs
                      /\ page \in [Pages -> PageRecs] /\ call \in [Calls -> CallRecs]
                      /\ dl \in [Calls -> DlRecs] /\ queue \in Seq(Jobs) /\ head \in HeadRecs
                      /\ registry \in Objs \cup {None} /\ heap \in [Objs -> Entries]
                      /\ store \in Entries \cup {None}
                      /\ faults \in 0 .. MaxFaults /\ slips \subseteq Slips
  BY DEF TypeOK, PageRecs, CallRecs, DlRecs, Jobs, HeadRecs

\* None is not an object, a handshake or an entry.
LEMMA Nones == /\ None \notin Objs /\ None \notin Calls /\ None \notin Pages
               /\ Calls \subseteq Nat /\ Objs \subseteq Nat /\ MaxCalls \in Nat
  BY BoundsAssumption, PagesAssumption DEF Objs, Calls

\* What becomes of the record of a handshake.
Alters(r, c, a, f) == /\ r \in CallRecs /\ r.at = a /\ r.fate = f
                      /\ r.page = call[c].page /\ r.kind = call[c].kind
Ends(r, c)         == /\ r \in CallRecs /\ r.at = "end" /\ r.fate = "dead"
                      /\ r.page = call[c].page
\* Such a record is what the code makes of it.
LEMMA CallSet ==
  ASSUME TypeOK, NEW c \in Calls, NEW a \in CallStates, NEW f \in Fates
  PROVE  /\ Alters(call[c], c, call[c].at, call[c].fate)
         /\ Alters([call[c] EXCEPT !.at = a], c, a, call[c].fate)
         /\ Alters([call[c] EXCEPT !.fate = f], c, call[c].at, f)
         /\ Alters([call[c] EXCEPT !.at = a, !.fate = f], c, a, f)
         /\ Ends(Ended(c), c)
  BY Typed DEF CallRecs, Ended, NoCall, CallStates, Kinds, Fates, Alters, Ends

-----------------------------------------------------------------------------
(* What the steps of the worker do to the entries that are in use. *)

DlObjs    == {dl[c].obj : c \in Calls}
Structure == /\ TypeOK /\ CallInv /\ PageInv /\ QueueInv /\ HeadInv /\ DlInv

\* The jobs at the head have their types.
LEMMA JobTyped == ASSUME TypeOK, queue # <<>>
                  PROVE  /\ Job \in Jobs /\ 1 \in DOMAIN queue
                         /\ Tail(queue) \in Seq(Jobs) /\ Len(queue) \in Nat \ {0}
                         /\ Len(Tail(queue)) = Len(queue) - 1
                         /\ \A i \in DOMAIN Tail(queue) :
                              i + 1 \in DOMAIN queue /\ Tail(queue)[i] = queue[i + 1]
  BY Typed DEF Job

\* The downloads whose handshake has not ended hold nothing.
LEMMA JobIdle == ASSUME Structure, queue # <<>>, Job.op = "register"
                 PROVE  Job.call \in Calls /\ dl[Job.call].obj = None
  BY JobTyped, Typed DEF Structure, QueueInv, CallInv, CallOwn, DlInv, Job

\* What is fresh is in use nowhere: there is an object to spare beyond those
\* of the downloads and two more, when one download has none or there is only
\* one more.
LEMMA FreshIs ==
  ASSUME TypeOK, NEW a, NEW b, NEW d \in 1 .. MaxCalls + 1,
         d \in Calls => dl[d].obj = None, d = MaxCalls + 1 => b = None,
         NEW S, \A o \in S : o \in {None, a, b} \cup DlObjs
  PROVE  Fresh(S) \in Objs /\ Fresh(S) \notin S
<1>. SUFFICES \E o \in Objs : o \notin S
  BY DEF Fresh
<1>1. SUFFICES ASSUME \A o \in Objs : o = a \/ o = b \/ \E c \in Calls : o = dl[c].obj
               PROVE  FALSE
  BY Nones DEF DlObjs
<1>. DEFINE Slots == (0 .. MaxCalls + 1) \ {d}
            Of(o) == CHOOSE c \in Calls : o = dl[c].obj
            slot  == [o \in Objs |-> IF o = a THEN 0 ELSE IF o = b THEN MaxCalls + 1 ELSE Of(o)]
<1>2. \A o \in Objs : o # a /\ o # b => Of(o) \in Calls /\ o = dl[Of(o)].obj
  BY <1>1
<1>. HIDE DEF Of
<1>3. slot \in [Objs -> Slots]
  BY <1>2, Nones, Typed DEF Calls
<1>4. /\ IsFiniteSet(Objs) /\ Cardinality(Objs) = MaxCalls + 2
      /\ IsFiniteSet(Slots) /\ Cardinality(Slots) = MaxCalls + 1
  <2>1. /\ IsFiniteSet(0 .. MaxCalls + 1) /\ Cardinality(0 .. MaxCalls + 1) = MaxCalls + 2
    BY FS_Interval, Nones
  <2>2. /\ IsFiniteSet(Objs) /\ Cardinality(Objs) = MaxCalls + 2
    BY FS_Interval, Nones DEF Objs
  <2>3. d \in 0 .. MaxCalls + 1
    BY Nones
  <2>4. /\ IsFiniteSet(Slots)
        /\ Cardinality(Slots) = IF d \in 0 .. MaxCalls + 1 THEN Cardinality(0 .. MaxCalls + 1) - 1
                                ELSE Cardinality(0 .. MaxCalls + 1)
    BY <2>1, FS_RemoveElement
  <2>. QED
    BY <2>1, <2>2, <2>3, <2>4, Nones
<1>5. PICK x, y \in Objs : x # y /\ slot[x] = slot[y]
  <2>1. Cardinality(Slots) < Cardinality(Objs)
    BY <1>4, Nones
  <2>. HIDE DEF slot, Slots
  <2>. QED
    BY <1>3, <1>4, <2>1, FS_PigeonHole
<1>. QED
  BY <1>2, <1>5, Nones DEF Calls

\* An object in use after a step holds what the step gave it.
LEMMA Keeps ==
  ASSUME NEW h \in [Objs -> Entries], Keep(h)
  PROVE  /\ heap' \in [Objs -> Entries]
         /\ \A o \in Objs :
              o = registry' \/ o = head.obj' \/ (\E c \in Calls : o = dl'[c].obj) => heap'[o] = h[o]
  BY DEF Keep, Refs, Blank, Entries

\* A job starts with the entry e that it found: a registration goes on with a
\* copy, a release with the entry itself.
Starts(e) ==
    /\ queue # <<>>
    /\ IF Job.op = "register"
       THEN /\ head'.step = "prune" /\ head'.obj \in Objs /\ head'.row = None
            /\ InHand' = IF e = None THEN Blank ELSE e
            /\ InMemory' = IF e = None THEN InMemory ELSE e
            /\ queue' = queue
       ELSE IF e = None
       THEN /\ head' = Idle /\ InMemory' = InMemory /\ queue' = Tail(queue)
       ELSE /\ head'.step = "prune" /\ head'.obj \in Objs /\ head'.row = None
            /\ head'.obj = registry'
            /\ InHand' = [e EXCEPT !.clients = @ \ {Job.page}] /\ InMemory' = InHand'
            /\ queue' = queue
    /\ e = None => registry' = registry
    /\ e # None => registry' \in Objs

\* Capabilities are not taken back.
Resumes == /\ heap' \in [Objs -> Entries]
           /\ \A c \in Calls : dl[c].obj \in Objs /\ dl'[c].obj = dl[c].obj =>
                (heap[dl[c].obj].resume => heap'[dl[c].obj].resume)

\* Begin does that, whatever else is in use.
LEMMA BeginStep ==
  ASSUME Structure, head.obj = None, queue # <<>>,
         NEW o \in Objs \cup {None}, NEW h \in [Objs -> Entries], Begin(o, h),
         \A x \in Objs : x \in Refs => h[x] = heap[x],
         dl' = dl, registry' = IF o = None THEN registry ELSE o
  PROVE  /\ Starts(IF o = None THEN None ELSE h[o])
         /\ Resumes
         /\ head' \in HeadRecs
<1>. USE Typed, Nones, EntriesAssumption
<1>0. TypeOK
  BY DEF Structure
<1>1. /\ Job \in Jobs /\ registry \in Refs \cup {None} /\ \A c \in Calls : dl[c].obj \in Refs
      /\ \A c \in Calls : dl[c].obj \in Objs \cup {None}
  BY <1>0, JobTyped DEF Refs, DlRecs
<1>2. CASE Job.op = "register"
  <2>. DEFINE n == Fresh(Refs \cup {o})
              g == [h EXCEPT ![n] = IF o = None THEN Blank ELSE h[o]]
  <2>1. n \in Objs /\ n \notin Refs /\ n # o
    <3>1. \A x \in Refs \cup {o} : x \in {None, registry, o} \cup DlObjs
      BY DEF Refs, DlObjs
    <3>2. Job.call \in 1 .. MaxCalls + 1 /\ dl[Job.call].obj = None /\ Job.call # MaxCalls + 1
      BY <1>2, JobIdle DEF Calls
    <3>. DEFINE S == Refs \cup {o}
                d == Job.call
    <3>3. d \in 1 .. MaxCalls + 1 /\ (d \in Calls => dl[d].obj = None) /\ d # MaxCalls + 1
      BY <3>2
    <3>4. \A x \in S : x \in {None, registry, o} \cup DlObjs
      BY <3>1
    <3>. HIDE DEF S, d
    <3>5. Fresh(S) \in Objs /\ Fresh(S) \notin S
      BY <1>0, <3>3, <3>4, FreshIs
    <3>6. registry \in Refs \cup {None}
      BY <1>1
    <3>. QED
      BY <3>5 DEF S
  <2>2. g \in [Objs -> Entries] /\ \A x \in Objs : x # n => g[x] = h[x]
    BY <2>1 DEF Blank, Entries
  <2>3. g[n] = IF o = None THEN Blank ELSE h[o]
    BY <2>1
  <2>4. /\ head' = [Idle EXCEPT !.step = "prune", !.obj = n] /\ Keep(g) /\ queue' = queue
    BY <1>2 DEF Begin
  <2>. HIDE DEF g, n
  <2>5. head'.step = "prune" /\ head'.obj = n /\ head'.row = None /\ head' \in HeadRecs
    BY <2>1, <2>4 DEF Idle, HeadRecs
  <2>6. /\ heap' \in [Objs -> Entries] /\ heap'[n] = g[n]
        /\ registry' \in Objs => heap'[registry'] = g[registry']
        /\ \A c \in Calls : dl[c].obj \in Objs => heap'[dl[c].obj] = g[dl[c].obj]
    BY <2>1, <2>2, <2>4, <2>5, Keeps
  <2>7. InHand' = g[n]
    BY <2>1, <2>5, <2>6 DEF InHand
  <2>8. InMemory' = IF o = None THEN InMemory ELSE h[o]
    BY <1>0, <1>1, <2>1, <2>2, <2>6 DEF InMemory
  <2>9. Starts(IF o = None THEN None ELSE h[o])
    BY <1>0, <1>2, <2>1, <2>3, <2>4, <2>5, <2>7, <2>8 DEF Starts
  <2>10. Resumes
    BY <1>1, <2>1, <2>2, <2>6 DEF Resumes
  <2>. QED
    BY <2>5, <2>9, <2>10
<1>3. CASE Job.op # "register" /\ o = None
  <2>1. head' = Idle /\ queue' = Tail(queue) /\ Keep(h)
    BY <1>3 DEF Begin, Dequeue
  <2>2. /\ heap' \in [Objs -> Entries]
        /\ registry' \in Objs => heap'[registry'] = h[registry']
        /\ \A c \in Calls : dl[c].obj \in Objs => heap'[dl[c].obj] = h[dl[c].obj]
    BY <2>1, Keeps
  <2>3. InMemory' = InMemory
    BY <1>0, <1>1, <1>3, <2>2 DEF InMemory
  <2>. QED
    BY <1>1, <1>3, <2>1, <2>2, <2>3 DEF Starts, Resumes, Idle, HeadRecs
<1>4. CASE Job.op # "register" /\ o # None
  <2>. DEFINE g == [h EXCEPT ![o].clients = @ \ {Job.page}]
  <2>1. /\ head' = [Idle EXCEPT !.step = "prune", !.obj = o] /\ Keep(g) /\ queue' = queue
    BY <1>4 DEF Begin
  <2>2. /\ g \in [Objs -> Entries] /\ \A x \in Objs : g[x].resume = h[x].resume
        /\ g[o] = [h[o] EXCEPT !.clients = @ \ {Job.page}]
    BY <1>4 DEF Entries
  <2>. HIDE DEF g
  <2>3. head'.step = "prune" /\ head'.obj = o /\ head'.row = None /\ head' \in HeadRecs
    BY <1>4, <2>1 DEF Idle, HeadRecs
  <2>4. /\ heap' \in [Objs -> Entries] /\ heap'[o] = g[o]
        /\ \A c \in Calls : dl[c].obj \in Objs => heap'[dl[c].obj] = g[dl[c].obj]
    BY <1>4, <2>1, <2>2, <2>3, Keeps
  <2>5. InHand' = g[o] /\ InMemory' = g[o] /\ registry' = o
    BY <1>4, <2>3, <2>4 DEF InHand, InMemory
  <2>6. Starts(IF o = None THEN None ELSE h[o])
    BY <1>4, <2>1, <2>2, <2>3, <2>5 DEF Starts
  <2>7. Resumes
    BY <1>1, <2>2, <2>4 DEF Resumes
  <2>. QED
    BY <2>3, <2>6, <2>7
<1>. QED
  BY <1>2, <1>3, <1>4

\* Loading starts with the row that is on disk.
Loads == /\ registry = None /\ head.step = "idle" /\ queue # <<>>
         /\ head'.step = "load" /\ head'.obj = None /\ head'.row = store
         /\ UNCHANGED <<queue, registry, heap, store>>

\* A job takes the entry in memory, or reads the row.
LEMMA TakeStep ==
  ASSUME Structure, Take
  PROVE  /\ UNCHANGED <<page, call, registry, store, dl, faults, slips>>
         /\ head.step = "idle"
         /\ Loads \/ (registry # None /\ Starts(InMemory))
         /\ Resumes /\ head' \in HeadRecs /\ queue # <<>>
<1>. USE Typed, Nones, EntriesAssumption
<1>0. TypeOK /\ head.obj = None /\ queue # <<>> /\ head.step = "idle"
  BY DEF Structure, HeadInv, Take
<1>1. CASE registry # None
  <2>1. Begin(registry, heap) /\ dl' = dl /\ registry' = registry
    BY <1>1 DEF Take
  <2>2. registry \in Objs \cup {None} /\ heap \in [Objs -> Entries]
    BY <1>0
  <2>3. Starts(IF registry = None THEN None ELSE heap[registry]) /\ Resumes /\ head' \in HeadRecs
    BY <1>0, <1>1, <2>1, <2>2, BeginStep
  <2>. QED
    BY <1>0, <1>1, <2>3 DEF Take, InMemory
<1>2. CASE registry = None
  <2>1. head' = [Idle EXCEPT !.step = "load", !.row = store] /\ UNCHANGED <<queue, heap>>
    BY <1>2 DEF Take
  <2>. QED
    BY <1>0, <1>2, <2>1 DEF Take, Loads, Idle, HeadRecs, Resumes, DlRecs
<1>. QED
  BY <1>1, <1>2

\* The row that was read becomes the entry,
Reads == /\ Starts(head.row)
         /\ slips' = IF head.row # None /\ (registry # None \/ store # head.row)
                     THEN slips \cup {"raced"} ELSE slips
\* or it could not be read, and the job goes on as if there were none.
Misreads == /\ head.row # None /\ Starts(None)
            /\ slips' = slips \cup {IF Job.op = "register" THEN "forgot" ELSE "kept"}

\* A job that waits for its row does one or the other.
LEMMA LoadedStep ==
  ASSUME Structure, Loaded
  PROVE  /\ UNCHANGED <<page, call, store, dl>>
         /\ Reads \/ Misreads
         /\ head.step = "load" /\ queue # <<>>
         /\ Resumes /\ head' \in HeadRecs
<1>. USE Typed, Nones, EntriesAssumption
<1>0. /\ TypeOK /\ head.obj = None /\ queue # <<>> /\ head.step = "load"
      /\ UNCHANGED <<page, call, store, dl>>
  BY DEF Structure, HeadInv, Loaded
<1>1. CASE /\ head.row # None
           /\ LET o == Fresh(Refs) IN registry' = o /\ Begin(o, [heap EXCEPT ![o] = head.row])
           /\ Slip(registry # None \/ store # head.row, "raced")
  <2>. DEFINE o == Fresh(Refs)
              h == [heap EXCEPT ![o] = head.row]
  <2>1. o \in Objs /\ o \notin Refs
    <3>. DEFINE d == MaxCalls + 1
                S == Refs
    <3>1. d \in 1 .. MaxCalls + 1 /\ d \notin Calls
      BY DEF Calls
    <3>2. \A x \in S : x \in {None, registry, None} \cup DlObjs
      BY <1>0 DEF Refs, DlObjs
    <3>. HIDE DEF d, S
    <3>3. Fresh(S) \in Objs /\ Fresh(S) \notin S
      BY <1>0, <3>1, <3>2, FreshIs
    <3>. QED
      BY <3>3 DEF S
  <2>2. registry' = o /\ Begin(o, h)
    BY <1>1
  <2>3. head.row \in Entries
    BY <1>0, <1>1 DEF HeadRecs
  <2>. HIDE DEF o
  <2>4. /\ h \in [Objs -> Entries] /\ h[o] = head.row
        /\ \A x \in Objs : x \in Refs => h[x] = heap[x]
    BY <1>0, <2>1, <2>3
  <2>. HIDE DEF h
  <2>5. Starts(IF o = None THEN None ELSE h[o]) /\ Resumes /\ head' \in HeadRecs
    <3>1. o \in Objs \cup {None} /\ registry' = IF o = None THEN registry ELSE o
      BY <2>1, <2>2
    <3>. QED
      BY <1>0, <2>2, <2>4, <3>1, BeginStep
  <2>6. slips' = IF registry # None \/ store # head.row THEN slips \cup {"raced"} ELSE slips
    BY <1>1 DEF Slip
  <2>7. (IF o = None THEN None ELSE h[o]) = head.row
    BY <2>1, <2>4
  <2>. QED
    BY <1>0, <1>1, <2>5, <2>6, <2>7 DEF Reads
<1>2. CASE /\ registry' = registry /\ Begin(None, heap)
           /\ \/ head.row = None /\ slips' = slips
              \/ /\ head.row # None
                 /\ slips' = slips \cup {IF Job.op = "register" THEN "forgot" ELSE "kept"}
  <2>1. registry' = registry /\ Begin(None, heap)
    BY <1>2
  <2>2. Starts(IF None = None THEN None ELSE heap[None]) /\ Resumes /\ head' \in HeadRecs
    <3>1. None \in Objs \cup {None} /\ heap \in [Objs -> Entries]
      BY <1>0
    <3>2. registry' = IF None = None THEN registry ELSE None
      BY <2>1
    <3>. QED
      BY <1>0, <2>1, <3>1, <3>2, BeginStep
  <2>3. Starts(None)
    BY <2>2
  <2>. QED
    BY <1>0, <1>2, <2>2, <2>3 DEF Reads, Misreads
<1>. QED
  BY <1>1, <1>2 DEF Loaded

Remaining == InHand.clients \cap Windows

\* The windows that are gone are dropped, all those that are not in k; a
\* registration adds its own.
PrunesTo(k) ==
    /\ Remaining \subseteq k /\ k \subseteq InHand.clients
    /\ IF Job.op = "register"
       THEN /\ head'.step = "write" /\ registry' = head.obj /\ slips' = slips
            /\ InHand'.clients = k \cup {Job.page}
       ELSE /\ InHand'.clients = k
            /\ registry' = IF k = {} THEN None ELSE registry
            /\ head'.step = IF k = {} THEN "forget" ELSE "write"
            /\ slips' = IF registry # head.obj THEN slips \cup {"raced"} ELSE slips
            /\ k # {} /\ registry # head.obj => InMemory' = InMemory
Prunes ==
    /\ head.step = "prune" /\ queue # <<>> /\ head.obj \in Objs /\ InHand \in Entries
    /\ head'.obj = head.obj /\ head'.row = head.row
    /\ InHand'.resume = InHand.resume /\ InHand' \in Entries
    /\ \E k \in SUBSET Pages : PrunesTo(k)
    /\ UNCHANGED <<page, call, queue, store, dl>>

\* Pruning is that.
LEMMA PrunedStep == ASSUME Structure, Pruned PROVE Prunes /\ Resumes /\ head' \in HeadRecs
<1>. USE Typed, Nones, EntriesAssumption
<1>0. /\ TypeOK /\ head.step = "prune" /\ queue # <<>> /\ head.obj # None
      /\ UNCHANGED <<page, call, queue, store, dl>>
  BY DEF Structure, HeadInv, Pruned
<1>1. Job \in Jobs /\ head.obj \in Objs /\ InHand = heap[head.obj] /\ InHand \in Entries
  BY <1>0, JobTyped DEF HeadRecs, InHand
<1>2. PICK listed \in BOOLEAN :
        LET o    == head.obj
            kept == {p \in heap[o].clients : listed => p \in Windows} IN
        IF Job.op = "register"
        THEN /\ registry' = o /\ head' = [head EXCEPT !.step = "write"]
             /\ UNCHANGED slips
             /\ Keep([heap EXCEPT ![o].clients = kept \cup {Job.page}])
        ELSE /\ registry' = IF kept = {} THEN None ELSE registry
             /\ head' = [head EXCEPT !.step = IF kept = {} THEN "forget" ELSE "write"]
             /\ Slip(registry # o, "raced")
             /\ Keep([heap EXCEPT ![o].clients = kept])
  BY DEF Pruned
<1>. DEFINE k == {p \in heap[head.obj].clients : listed => p \in Windows}
<1>3. IF Job.op = "register"
      THEN /\ registry' = head.obj /\ head' = [head EXCEPT !.step = "write"]
           /\ slips' = slips
           /\ Keep([heap EXCEPT ![head.obj].clients = k \cup {Job.page}])
      ELSE /\ registry' = IF k = {} THEN None ELSE registry
           /\ head' = [head EXCEPT !.step = IF k = {} THEN "forget" ELSE "write"]
           /\ slips' = IF registry # head.obj THEN slips \cup {"raced"} ELSE slips
           /\ Keep([heap EXCEPT ![head.obj].clients = k])
  BY <1>2 DEF Slip
<1>4. Remaining \subseteq k /\ k \subseteq InHand.clients /\ k \in SUBSET Pages
  BY <1>1 DEF Remaining, Entries
<1>. HIDE DEF k
<1>5. CASE Job.op = "register"
  <2>. DEFINE g == [heap EXCEPT ![head.obj].clients = k \cup {Job.page}]
  <2>1. /\ registry' = head.obj /\ head' = [head EXCEPT !.step = "write"]
        /\ slips' = slips /\ Keep(g)
    BY <1>3, <1>5
  <2>2. /\ g \in [Objs -> Entries] /\ \A x \in Objs : g[x].resume = heap[x].resume
        /\ \A x \in Objs : x # head.obj => g[x] = heap[x]
        /\ g[head.obj].clients = k \cup {Job.page} /\ g[head.obj].resume = InHand.resume
    BY <1>0, <1>1, <1>4 DEF Entries, Jobs
  <2>. HIDE DEF g
  <2>3. head'.obj = head.obj /\ head'.row = head.row /\ head'.step = "write" /\ head' \in HeadRecs
    BY <1>0, <2>1 DEF HeadRecs
  <2>4. /\ heap' \in [Objs -> Entries] /\ heap'[head.obj] = g[head.obj]
        /\ \A c \in Calls : dl[c].obj \in Objs => heap'[dl[c].obj] = g[dl[c].obj]
    BY <1>0, <1>1, <2>1, <2>2, <2>3, Keeps
  <2>5. InHand' = g[head.obj]
    BY <1>1, <2>3, <2>4 DEF InHand
  <2>6. InHand' \in Entries
    BY <1>1, <2>2, <2>5
  <2>7. PrunesTo(k)
    BY <1>4, <1>5, <2>1, <2>2, <2>3, <2>5 DEF PrunesTo
  <2>8. Prunes
    BY <1>0, <1>1, <1>4, <2>2, <2>3, <2>5, <2>6, <2>7 DEF Prunes
  <2>9. Resumes
    BY <1>0, <2>2, <2>4 DEF Resumes
  <2>. QED
    BY <2>3, <2>8, <2>9
<1>6. CASE Job.op # "register"
  <2>. DEFINE g == [heap EXCEPT ![head.obj].clients = k]
  <2>1. /\ registry' = IF k = {} THEN None ELSE registry
        /\ head' = [head EXCEPT !.step = IF k = {} THEN "forget" ELSE "write"]
        /\ slips' = (IF registry # head.obj THEN slips \cup {"raced"} ELSE slips) /\ Keep(g)
    BY <1>3, <1>6
  <2>2. /\ g \in [Objs -> Entries] /\ \A x \in Objs : g[x].resume = heap[x].resume
        /\ \A x \in Objs : x # head.obj => g[x] = heap[x]
        /\ g[head.obj].clients = k /\ g[head.obj].resume = InHand.resume
    BY <1>0, <1>1, <1>4 DEF Entries
  <2>. HIDE DEF g
  <2>3. /\ head'.obj = head.obj /\ head'.row = head.row /\ head' \in HeadRecs
        /\ head'.step = IF k = {} THEN "forget" ELSE "write"
    BY <1>0, <2>1 DEF HeadRecs
  <2>4. /\ heap' \in [Objs -> Entries] /\ heap'[head.obj] = g[head.obj]
        /\ registry' \in Objs => heap'[registry'] = g[registry']
        /\ \A c \in Calls : dl[c].obj \in Objs => heap'[dl[c].obj] = g[dl[c].obj]
    BY <1>0, <1>1, <2>1, <2>2, <2>3, Keeps
  <2>5. InHand' = g[head.obj]
    BY <1>1, <2>3, <2>4 DEF InHand
  <2>6. InHand' \in Entries
    BY <1>1, <2>2, <2>5
  <2>7. k # {} /\ registry # head.obj => InMemory' = InMemory
    BY <1>0, <2>1, <2>2, <2>4 DEF InMemory
  <2>8. PrunesTo(k)
    BY <1>4, <1>6, <2>1, <2>2, <2>3, <2>5, <2>7 DEF PrunesTo
  <2>9. Prunes
    BY <1>0, <1>1, <1>4, <2>2, <2>3, <2>5, <2>6, <2>8 DEF Prunes
  <2>10. Resumes
    BY <1>0, <2>2, <2>4 DEF Resumes
  <2>. QED
    BY <2>3, <2>9, <2>10
<1>. QED
  BY <1>5, <1>6

\* The write ends the job, and acknowledges a registration.
Writes ==
    /\ head.step \in {"write", "forget"} /\ queue # <<>>
    /\ \/ store' = (IF head.step = "write" THEN InHand ELSE None) /\ slips' = slips
       \/ store' = store /\ slips' = slips \cup {"unsaved"}
    /\ queue' = Tail(queue) /\ head' = Idle
    /\ UNCHANGED <<registry, dl, page>> /\ InMemory' = InMemory
    /\ \A x \in Calls :
         IF Job.op = "register" /\ x = Job.call
         THEN /\ call'[x].page = call[x].page
              /\ IF call[x].at = "queued"
                 THEN /\ call'[x].at = "ack" /\ call'[x].fate = call[x].fate
                      /\ call'[x].kind = call[x].kind
                 ELSE call'[x].at = "end" /\ call'[x].fate = "dead"
         ELSE call'[x] = call[x]

\* Writing is that.
LEMMA WrittenStep ==
  ASSUME Structure, Written PROVE Writes /\ Resumes /\ head' \in HeadRecs /\ call' \in [Calls -> CallRecs]
<1>. USE Typed, Nones, EntriesAssumption
<1>0. /\ TypeOK /\ head.step \in {"write", "forget"} /\ queue # <<>> /\ head.obj # None
      /\ UNCHANGED <<page, registry, dl>> /\ queue' = Tail(queue) /\ head' = Idle /\ Keep(heap)
  BY DEF Structure, HeadInv, Written, Dequeue
<1>1. Job \in Jobs /\ head.obj \in Objs /\ InHand = heap[head.obj] /\ InHand \in Entries
  BY <1>0, JobTyped DEF HeadRecs, InHand
<1>2. Job.op = "register" => Job.call \in Calls
  BY <1>0, JobIdle
<1>3. /\ heap' \in [Objs -> Entries]
      /\ registry \in Objs => heap'[registry] = heap[registry]
      /\ \A c \in Calls : dl[c].obj \in Objs => heap'[dl[c].obj] = heap[dl[c].obj]
  BY <1>0, Keeps
<1>4. InMemory' = InMemory /\ Resumes
  BY <1>0, <1>3 DEF InMemory, Resumes
<1>5. \/ store' = (IF head.step = "write" THEN InHand ELSE None) /\ slips' = slips
      \/ store' = store /\ slips' = slips \cup {"unsaved"}
  BY <1>1 DEF Written
<1>6. /\ call' \in [Calls -> CallRecs]
      /\ \A x \in Calls :
         IF Job.op = "register" /\ x = Job.call
         THEN /\ call'[x].page = call[x].page
              /\ IF call[x].at = "queued"
                 THEN /\ call'[x].at = "ack" /\ call'[x].fate = call[x].fate
                      /\ call'[x].kind = call[x].kind
                 ELSE call'[x].at = "end" /\ call'[x].fate = "dead"
         ELSE call'[x] = call[x]
  <2>1. call' = IF Job.op = "release" THEN call
               ELSE [call EXCEPT ![Job.call] = IF @.at = "queued" THEN [@ EXCEPT !.at = "ack"]
                                               ELSE Ended(Job.call)]
    BY DEF Written
  <2>2. Job.op \in {"release", "register"}
    BY <1>1 DEF Jobs
  <2>3. CASE Job.op = "register"
    <3>. DEFINE j == Job.call
    <3>1. call' = [call EXCEPT ![j] = IF call[j].at = "queued" THEN [call[j] EXCEPT !.at = "ack"]
                                      ELSE Ended(j)] /\ j \in Calls /\ "ack" \in CallStates
      BY <1>2, <2>1, <2>3 DEF CallStates
    <3>2. \A x \in Calls : x # j => call'[x] = call[x]
      BY <1>0, <3>1
    <3>3. call'[j] = IF call[j].at = "queued" THEN [call[j] EXCEPT !.at = "ack"] ELSE Ended(j)
      BY <1>0, <3>1
    <3>. HIDE DEF j
    <3>4. /\ call'[j] \in CallRecs /\ call'[j].page = call[j].page
          /\ IF call[j].at = "queued"
             THEN /\ call'[j].at = "ack" /\ call'[j].fate = call[j].fate
                  /\ call'[j].kind = call[j].kind
             ELSE call'[j].at = "end" /\ call'[j].fate = "dead"
      <4>1. Alters([call[j] EXCEPT !.at = "ack"], j, "ack", call[j].fate) /\ Ends(Ended(j), j)
        BY <1>0, <3>1, CallSet DEF Fates
      <4>. QED
        BY <3>3, <4>1 DEF Alters, Ends
    <3>5. call' \in [Calls -> CallRecs]
      BY <1>0, <3>1, <3>4
    <3>. QED
      BY <2>3, <3>2, <3>4, <3>5 DEF j
  <2>. QED
    BY <1>0, <2>1, <2>2, <2>3
<1>. QED
  BY <1>0, <1>4, <1>5, <1>6 DEF Writes, Idle, HeadRecs

-----------------------------------------------------------------------------
(* What the steps of a download do. *)

\* One download changes.
OnlyDl(c) == \A x \in Calls : x # c => dl'[x] = dl[x]
\* It ends: only a download without key is still shown.
Answers(c, at) == /\ dl'[c].at = at /\ dl'[c].obj = None /\ dl'[c].row = None /\ ~dl'[c].again
                  /\ dl'[c].page = IF at = "keyless" THEN dl[c].page ELSE None
                  /\ OnlyDl(c)

\* An answer is that.
LEMMA AnswerStep ==
  ASSUME TypeOK, NEW c \in Calls, NEW at \in DlStates, Answer(c, at)
  PROVE  Answers(c, at) /\ dl' \in [Calls -> DlRecs]
<1>. DEFINE r == [NoDl EXCEPT !.at = at, !.page = IF at = "keyless" THEN dl[c].page ELSE None]
<1>1. /\ r \in DlRecs /\ r.at = at /\ r.obj = None /\ r.row = None /\ ~r.again
      /\ r.page = IF at = "keyless" THEN dl[c].page ELSE None
  BY Typed DEF NoDl, DlRecs
<1>2. dl' = [dl EXCEPT ![c] = r]
  BY DEF Answer
<1>. HIDE DEF r
<1>. QED
  BY <1>1, <1>2, Typed DEF Answers, OnlyDl

\* The worker has the entry in memory, or reads the row.
DlTakes(c) ==
    /\ dl[c].at = "request" /\ OnlyDl(c)
    /\ dl'[c].page = dl[c].page /\ dl'[c].again = dl[c].again
    /\ IF registry # None
       THEN dl'[c].at = "nego" /\ dl'[c].obj = registry
       ELSE dl'[c].at = "load" /\ dl'[c].row = store /\ dl'[c].obj = None
    /\ UNCHANGED <<page, call, sw, faults, slips>>

\* The fetch handler does that first,
LEMMA DlTakeStep ==
  ASSUME Structure, NEW c \in Calls, DlTake(c)
  PROVE  DlTakes(c) /\ dl' \in [Calls -> DlRecs]
<1>. DEFINE r == IF registry # None THEN [dl[c] EXCEPT !.at = "nego", !.obj = registry]
                 ELSE [dl[c] EXCEPT !.at = "load", !.row = store]
<1>1. TypeOK /\ dl[c].at = "request" /\ dl[c].obj = None
  BY Typed DEF Structure, DlInv, DlTake
<1>2. /\ r \in DlRecs /\ r.page = dl[c].page /\ r.again = dl[c].again
      /\ IF registry # None THEN r.at = "nego" /\ r.obj = registry
         ELSE r.at = "load" /\ r.row = store /\ r.obj = None
  BY <1>1, Typed DEF DlRecs, DlStates
<1>3. dl' = [dl EXCEPT ![c] = r] /\ UNCHANGED <<page, call, sw, faults, slips>>
  BY DEF DlTake
<1>. HIDE DEF r
<1>. QED
  BY <1>1, <1>2, <1>3, Typed DEF DlTakes, OnlyDl

\* The row becomes the entry in memory, or the download is answered that
\* there is no key.
DlLoads(c) ==
    /\ dl[c].at = "load" /\ dl[c].row # None /\ dl[c].row \in Entries /\ OnlyDl(c)
    /\ dl'[c].at = "nego" /\ dl'[c].obj = registry' /\ registry' \in Objs
    /\ dl'[c].page = dl[c].page /\ dl'[c].again = dl[c].again
    /\ InMemory' = dl[c].row /\ InHand' = InHand
    /\ slips' = IF registry # None \/ store # dl[c].row \/ head.step = "forget"
                THEN slips \cup {"stale"} ELSE slips
    /\ UNCHANGED <<page, call, queue, head, store>>
DlFinds(c) == /\ dl[c].at = "load" /\ Answers(c, "keyless")
              /\ slips' = IF dl[c].row = None THEN slips ELSE slips \cup {"unread"}
              /\ UNCHANGED <<page, call, sw>>

\* and that when the row has been read, or not.
LEMMA DlLoadedStep ==
  ASSUME Structure, NEW c \in Calls, DlLoaded(c)
  PROVE  (DlLoads(c) \/ DlFinds(c)) /\ Resumes /\ dl' \in [Calls -> DlRecs]
<1>. USE Typed, Nones, EntriesAssumption
<1>0. TypeOK /\ dl[c].at = "load" /\ dl[c].obj = None /\ UNCHANGED <<page, call, queue, store>>
  BY DEF Structure, DlInv, DlLoaded
<1>1. CASE /\ Answer(c, "keyless") /\ UNCHANGED <<head, heap, registry>>
           /\ \/ dl[c].row = None /\ slips' = slips
              \/ dl[c].row # None /\ slips' = slips \cup {"unread"}
  <2>1. Answer(c, "keyless") /\ UNCHANGED <<head, heap, registry>>
    BY <1>1
  <2>2. Answers(c, "keyless") /\ dl' \in [Calls -> DlRecs]
    BY <1>0, <2>1, AnswerStep DEF DlStates
  <2>. QED
    BY <1>0, <1>1, <2>1, <2>2 DEF DlFinds, Resumes, sw
<1>2. CASE /\ dl[c].row # None
           /\ LET o == Fresh(Refs) IN
              /\ registry' = o
              /\ dl' = [dl EXCEPT ![c].at = "nego", ![c].obj = o, ![c].row = None]
              /\ UNCHANGED head /\ Keep([heap EXCEPT ![o] = dl[c].row])
              /\ Slip(registry # None \/ store # dl[c].row \/ head.step = "forget", "stale")
  <2>. DEFINE o == Fresh(Refs)
              r == [dl[c] EXCEPT !.at = "nego", !.obj = o, !.row = None]
              h == [heap EXCEPT ![o] = dl[c].row]
  <2>1. o \in Objs /\ o \notin Refs
    <3>. DEFINE S == Refs
    <3>1. c \in 1 .. MaxCalls + 1 /\ c # MaxCalls + 1
      BY DEF Calls
    <3>2. \A x \in S : x \in {None, registry, head.obj} \cup DlObjs
      BY DEF Refs, DlObjs
    <3>. HIDE DEF S
    <3>3. Fresh(S) \in Objs /\ Fresh(S) \notin S
      BY <1>0, <3>1, <3>2, FreshIs
    <3>. QED
      BY <3>3 DEF S
  <2>2. /\ registry' = o /\ dl' = [dl EXCEPT ![c].at = "nego", ![c].obj = o, ![c].row = None]
        /\ head' = head /\ Keep(h)
        /\ slips' = IF registry # None \/ store # dl[c].row \/ head.step = "forget"
                    THEN slips \cup {"stale"} ELSE slips
    BY <1>2 DEF Slip
  <2>3. dl' = [dl EXCEPT ![c] = r]
    BY <1>0, <2>2
  <2>. HIDE DEF o
  <2>4. /\ dl[c].row \in Entries
        /\ r \in DlRecs /\ r.at = "nego" /\ r.obj = o /\ r.page = dl[c].page
        /\ r.again = dl[c].again
    BY <1>0, <1>2, <2>1 DEF DlRecs, DlStates
  <2>. HIDE DEF r
  <2>5. h \in [Objs -> Entries] /\ h[o] = dl[c].row /\ \A x \in Objs : x \in Refs => h[x] = heap[x]
    BY <1>0, <2>1, <2>4
  <2>. HIDE DEF h
  <2>6. /\ heap' \in [Objs -> Entries] /\ heap'[o] = h[o]
        /\ head.obj \in Objs => heap'[head.obj] = h[head.obj]
        /\ \A x \in Calls : dl[x].obj \in Objs /\ dl'[x].obj = dl[x].obj =>
             heap'[dl[x].obj] = h[dl[x].obj]
    BY <1>0, <2>1, <2>2, <2>5, Keeps
  <2>7. head.obj \in Refs /\ \A x \in Calls : dl[x].obj \in Refs
    BY DEF Refs
  <2>8. dl'[c] = r /\ dl' \in [Calls -> DlRecs] /\ OnlyDl(c)
    BY <1>0, <2>3, <2>4 DEF OnlyDl
  <2>9. Resumes
    <3>1. \A x \in Calls : dl[x].obj \in Objs /\ dl'[x].obj = dl[x].obj =>
             heap'[dl[x].obj] = heap[dl[x].obj]
      <4>. TAKE x \in Calls
      <4>1. dl[x].obj \in Objs => h[dl[x].obj] = heap[dl[x].obj]
        BY <2>5, <2>7
      <4>. QED
        BY <2>6, <4>1
    <3>. QED
      BY <2>6, <3>1 DEF Resumes
  <2>10. InMemory' = dl[c].row /\ InHand' = InHand
    BY <1>0, <2>1, <2>2, <2>5, <2>6, <2>7 DEF InMemory, InHand, HeadRecs
  <2>11. DlLoads(c)
    BY <1>0, <1>2, <2>1, <2>2, <2>4, <2>8, <2>10 DEF DlLoads
  <2>. QED
    BY <2>8, <2>9, <2>11
<1>. QED
  BY <1>1, <1>2 DEF DlLoaded

\* The entry that the download holds.
Obtained(c) == heap[dl[c].obj]
Resumed(e)  == [e EXCEPT !.resume = TRUE]

\* The entry has its capability, or the request is refused.
Negotiates(c) ==
    /\ dl[c].at = "nego" /\ dl[c].obj \in Objs /\ OnlyDl(c)
    /\ dl'[c].at = "write" /\ dl'[c].obj = dl[c].obj /\ dl'[c].page = dl[c].page /\ ~dl'[c].again
    /\ Obtained(c)'.resume
    /\ InMemory' = IF registry = dl[c].obj THEN Resumed(InMemory) ELSE InMemory
    /\ InHand' = IF head.obj = dl[c].obj THEN Resumed(InHand) ELSE InHand
    /\ slips' = IF head.step = "prune" /\ Job.op = "register" THEN slips \cup {"raced"} ELSE slips
    /\ UNCHANGED <<page, call, queue, head, registry, store, faults>>
Overs(c) == /\ dl[c].at \in {"nego", "fetch"} /\ Answers(c, "over")
            /\ UNCHANGED <<call, queue, head, registry, store, faults, slips>>
            /\ InMemory' = InMemory /\ InHand' = InHand

\* The negotiation does one or the other.
LEMMA NegotiatedStep ==
  ASSUME Structure, NEW c \in Calls, Negotiated(c)
  PROVE  /\ Negotiates(c) \/ (Overs(c) /\ dl[c].at = "nego" /\ page' = page)
         /\ Resumes /\ dl' \in [Calls -> DlRecs]
<1>. USE Typed, Nones, EntriesAssumption
<1>0. /\ TypeOK /\ dl[c].at = "nego" /\ dl[c].obj \in Objs
      /\ UNCHANGED <<registry, head, page, call, queue, store, faults>>
  BY DEF Structure, DlInv, Negotiated, DlRecs
<1>. DEFINE r == [dl[c] EXCEPT !.at = "write", !.again = FALSE]
            g == [heap EXCEPT ![dl[c].obj].resume = TRUE]
<1>1. CASE /\ dl' = [dl EXCEPT ![c].at = "write", ![c].again = FALSE]
           /\ Keep(g)
           /\ Slip(head.step = "prune" /\ Job.op = "register", "raced")
  <2>1. dl' = [dl EXCEPT ![c] = r]
    BY <1>0, <1>1
  <2>2. /\ r \in DlRecs /\ r.at = "write" /\ r.obj = dl[c].obj /\ r.page = dl[c].page /\ ~r.again
    BY <1>0 DEF DlRecs, DlStates
  <2>. HIDE DEF r
  <2>3. /\ g \in [Objs -> Entries] /\ g[dl[c].obj] = Resumed(Obtained(c))
        /\ \A x \in Objs : x # dl[c].obj => g[x] = heap[x]
        /\ \A x \in Objs : heap[x].resume => g[x].resume
        /\ g[dl[c].obj].resume
    BY <1>0 DEF Entries, Resumed, Obtained
  <2>. HIDE DEF g
  <2>4. dl'[c] = r /\ dl' \in [Calls -> DlRecs] /\ OnlyDl(c)
    BY <1>0, <2>1, <2>2 DEF OnlyDl
  <2>5. /\ heap' \in [Objs -> Entries]
        /\ registry \in Objs => heap'[registry] = g[registry]
        /\ head.obj \in Objs => heap'[head.obj] = g[head.obj]
        /\ \A x \in Calls : dl[x].obj \in Objs /\ dl'[x].obj = dl[x].obj =>
             heap'[dl[x].obj] = g[dl[x].obj]
    BY <1>0, <1>1, <2>3, Keeps
  <2>6. /\ InMemory' = IF registry = dl[c].obj THEN Resumed(InMemory) ELSE InMemory
        /\ InHand' = IF head.obj = dl[c].obj THEN Resumed(InHand) ELSE InHand
    BY <1>0, <2>3, <2>5 DEF InMemory, InHand, HeadRecs, Obtained
  <2>7. Obtained(c)'.resume
    BY <1>0, <2>2, <2>3, <2>4, <2>5 DEF Obtained
  <2>8. Negotiates(c)
    BY <1>0, <1>1, <2>2, <2>4, <2>6, <2>7 DEF Negotiates, Slip
  <2>9. Resumes
    BY <2>3, <2>5 DEF Resumes
  <2>. QED
    BY <2>4, <2>8, <2>9
<1>2. CASE Answer(c, "over") /\ Keep(heap) /\ UNCHANGED slips
  <2>1. Answers(c, "over") /\ dl' \in [Calls -> DlRecs]
    BY <1>0, <1>2, AnswerStep DEF DlStates
  <2>2. /\ heap' \in [Objs -> Entries]
        /\ registry \in Objs => heap'[registry] = heap[registry]
        /\ head.obj \in Objs => heap'[head.obj] = heap[head.obj]
        /\ \A x \in Calls : dl[x].obj \in Objs /\ dl'[x].obj = dl[x].obj =>
             heap'[dl[x].obj] = heap[dl[x].obj]
    BY <1>0, <1>2, Keeps
  <2>3. InMemory' = InMemory /\ InHand' = InHand
    BY <1>0, <2>2 DEF InMemory, InHand, HeadRecs
  <2>. QED
    BY <1>0, <1>2, <2>1, <2>2, <2>3 DEF Overs, Resumes
<1>. QED
  BY <1>1, <1>2 DEF Negotiated

\* The entry the download holds is committed, or the write fails.
DlWrites(c) ==
    /\ dl[c].at = "write" /\ dl[c].obj \in Objs /\ OnlyDl(c)
    /\ dl'[c].at = "fetch" /\ dl'[c].obj = None /\ dl'[c].page = dl[c].page
    /\ dl'[c].again = dl[c].again
    /\ \/ /\ store' = Obtained(c)
          /\ slips' = IF registry # dl[c].obj THEN slips \cup {"stale"} ELSE slips
       \/ store' = store /\ slips' = slips \cup {"unsaved"}
    /\ InMemory' = InMemory /\ InHand' = InHand
    /\ UNCHANGED <<page, call, queue, head, registry>>

\* The write of the capability does that.
LEMMA DlWrittenStep ==
  ASSUME Structure, NEW c \in Calls, DlWritten(c)
  PROVE  DlWrites(c) /\ Resumes /\ dl' \in [Calls -> DlRecs]
<1>. USE Typed, Nones, EntriesAssumption
<1>0. /\ TypeOK /\ dl[c].at = "write" /\ dl[c].obj \in Objs /\ Keep(heap)
      /\ UNCHANGED <<registry, head, page, call, queue>>
  BY DEF Structure, DlInv, DlWritten, DlRecs
<1>. DEFINE r == [dl[c] EXCEPT !.at = "fetch", !.obj = None]
<1>1. dl' = [dl EXCEPT ![c] = r]
  <2>1. dl' = [dl EXCEPT ![c].at = "fetch", ![c].obj = None]
    BY DEF DlWritten
  <2>. QED
    BY <1>0, <2>1
<1>2. /\ r \in DlRecs /\ r.at = "fetch" /\ r.obj = None /\ r.page = dl[c].page
      /\ r.again = dl[c].again
  BY <1>0 DEF DlRecs, DlStates
<1>. HIDE DEF r
<1>3. dl'[c] = r /\ dl' \in [Calls -> DlRecs] /\ OnlyDl(c)
  BY <1>0, <1>1, <1>2 DEF OnlyDl
<1>4. /\ heap' \in [Objs -> Entries]
      /\ registry \in Objs => heap'[registry] = heap[registry]
      /\ head.obj \in Objs => heap'[head.obj] = heap[head.obj]
      /\ \A x \in Calls : dl[x].obj \in Objs /\ dl'[x].obj = dl[x].obj =>
           heap'[dl[x].obj] = heap[dl[x].obj]
  BY <1>0, Keeps
<1>5. InMemory' = InMemory /\ InHand' = InHand
  BY <1>0, <1>4 DEF InMemory, InHand, HeadRecs
<1>6. \/ /\ store' = Obtained(c)
         /\ slips' = IF registry # dl[c].obj THEN slips \cup {"stale"} ELSE slips
      \/ store' = store /\ slips' = slips \cup {"unsaved"}
  BY DEF DlWritten, Slip, Obtained
<1>. QED
  BY <1>0, <1>2, <1>3, <1>4, <1>5, <1>6 DEF DlWrites, Resumes

\* The page whose stream was cancelled notes it.
Notes(c) == \/ page' = page
            \/ /\ dl[c].page \in Pages
               /\ page' = [page EXCEPT ![dl[c].page].broken = TRUE]

\* A stream ends so.
LEMMA StreamsStep ==
  ASSUME Structure, NEW c \in Calls, Streams(c)
  PROVE  Overs(c) /\ dl[c].at = "fetch" /\ Notes(c) /\ Resumes /\ dl' \in [Calls -> DlRecs]
<1>0. TypeOK /\ UNCHANGED <<call, sw, faults, slips>> /\ dl[c].at = "fetch" /\ Answer(c, "over")
  BY DEF Structure, Streams
<1>1. Answers(c, "over") /\ dl' \in [Calls -> DlRecs]
  BY <1>0, AnswerStep DEF DlStates
<1>2. Notes(c)
  BY <1>0, Typed DEF Streams, Notes, DlRecs
<1>. QED
  BY <1>0, <1>1, <1>2, Typed DEF Overs, Resumes, InMemory, InHand, sw

-----------------------------------------------------------------------------
(* What the steps of a tab do. *)

OnlyPage(p)  == \A q \in Pages : q # p => page'[q] = page[q]
OnlyCall(c)  == \A x \in Calls : x # c => call'[x] = call[x]
SameCall(x)  == /\ call'[x].at = call[x].at /\ call'[x].page = call[x].page
                /\ call'[x].kind = call[x].kind
                /\ call'[x].fate = "dead" <=> call[x].fate = "dead"
ViewTypes    == /\ page' \in [Pages -> PageRecs] /\ call' \in [Calls -> CallRecs]
                /\ dl' \in [Calls -> DlRecs] /\ queue' \in Seq(Jobs)
Entry        == <<head, registry, heap, store>>
\* What a tab remembers stays.
SameTab(p)   == /\ page'[p].registered = page[p].registered /\ page'[p].broken = page[p].broken
                /\ page'[p].ctl = page[p].ctl
ClearTab(p)  == ~page'[p].registered /\ ~page'[p].broken
\* The downloads that it shows go with a view.
Orphaned(p)  == \A c \in Calls :
                  /\ dl'[c].at = dl[c].at /\ dl'[c].obj = dl[c].obj /\ dl'[c].row = dl[c].row
                  /\ dl'[c].again = dl[c].again
                  /\ dl'[c].page = IF dl[c].page = p THEN None ELSE dl[c].page

\* The iframes go so.
LEMMA OrphanStep ==
  ASSUME TypeOK, NEW p \in Pages, dl' = Orphan(p)
  PROVE  Orphaned(p) /\ dl' \in [Calls -> DlRecs]
<1>. DEFINE r(c) == [dl[c] EXCEPT !.page = None, !.told = TRUE]
<1>1. \A c \in Calls : /\ r(c) \in DlRecs /\ r(c).at = dl[c].at /\ r(c).obj = dl[c].obj
                       /\ r(c).row = dl[c].row /\ r(c).again = dl[c].again /\ r(c).page = None
  BY Typed DEF DlRecs
<1>2. dl' = [c \in Calls |-> IF dl[c].page = p THEN r(c) ELSE dl[c]]
  BY DEF Orphan
<1>. HIDE DEF r
<1>. QED
  BY <1>1, <1>2, Typed DEF Orphaned

\* A handshake starts.
Begun(c, p, k) ==
    /\ call[c].at = "free" /\ \A x \in Calls : x < c => call[x].at # "free"
    /\ call'[c].at = "ensure" /\ call'[c].page = p /\ call'[c].kind = k
    /\ call'[c].fate = "mine"
    /\ \A x \in Calls : x # c => SameCall(x)
    /\ OnlyPage(p) /\ SameTab(p) /\ Mounted(p)'
    /\ page[p].at \in {"none", "left"} \/ Mounted(p)
    /\ page'[p].at = "ready" => page[p].at = "ready"
    /\ k = "click" => page[p].at = "ready"

\* Starting a handshake leaves the others where they were.
LEMMA StartStep ==
  ASSUME TypeOK, NEW c \in Calls, NEW p \in Pages, NEW k \in Kinds, Start(c, p, k)
  PROVE  /\ call[c].at = "free" /\ \A x \in Calls : x < c => call[x].at # "free"
         /\ call'[c].at = "ensure" /\ call'[c].page = p /\ call'[c].kind = k
         /\ call'[c].fate = "mine"
         /\ \A x \in Calls : x # c => SameCall(x)
         /\ call' \in [Calls -> CallRecs]
<1>. DEFINE r == [at |-> "ensure", page |-> p, kind |-> k, fate |-> "mine"]
            s(x) == [call[x] EXCEPT !.fate = "superseded"]
<1>1. /\ call[c].at = "free" /\ \A x \in Calls : x < c => call[x].at # "free"
      /\ call' = [x \in Calls |->
           IF x = c THEN r
           ELSE IF k = "auto" /\ call[x].page = p /\ call[x].kind = "auto"
                   /\ call[x].fate = "mine"
           THEN s(x) ELSE call[x]]
  BY DEF Start
<1>2. /\ r \in CallRecs /\ r.at = "ensure" /\ r.page = p /\ r.kind = k /\ r.fate = "mine"
  BY DEF CallRecs, CallStates, Fates
<1>3. \A x \in Calls : Alters(s(x), x, call[x].at, "superseded") /\ call[x] \in CallRecs
  BY CallSet, Typed DEF Fates, CallStates
<1>. HIDE DEF r, s
<1>. QED
  BY <1>1, <1>2, <1>3 DEF Alters, SameCall

\* A view is mounted without a key.
Keyless(p) == /\ page[p].at \in {"none", "left"} /\ page'[p].at = "need-key"
              /\ OnlyPage(p) /\ SameTab(p) /\ call' = call

\* All that starts a handshake, or a view, does one or the other.
LEMMA OpenStep ==
  ASSUME TypeOK, NEW c \in Calls, NEW p \in Pages,
         Open(c, p) \/ Rerun(c, p) \/ Paste(c, p) \/ Click(c, p) \/ Refresh(c, p)
  PROVE  /\ (\E k \in Kinds : Begun(c, p, k)) \/ Keyless(p)
         /\ UNCHANGED <<sw, dl, faults, slips>> /\ ViewTypes
<1>. USE Typed
<1>1. UNCHANGED <<sw, dl, faults, slips>>
  BY DEF Open, Rerun, Paste, Click, Refresh
<1>2. dl' \in [Calls -> DlRecs] /\ queue' \in Seq(Jobs) /\ page[p] \in PageRecs
  BY <1>1 DEF sw
<1>3. CASE Open(c, p)
  <2>1. CASE page' = [page EXCEPT ![p].at = "loading", ![p].key = TRUE] /\ Start(c, p, "auto")
    <3>1. /\ page' \in [Pages -> PageRecs] /\ OnlyPage(p) /\ SameTab(p) /\ page'[p].at = "loading"
      BY <2>1, <1>2 DEF PageRecs, ViewStates, OnlyPage, SameTab
    <3>. QED
      BY <1>1, <1>2, <1>3, <2>1, <3>1, StartStep DEF Open, Begun, Mounted, Kinds, ViewTypes
  <2>2. CASE page' = [page EXCEPT ![p].at = "need-key", ![p].key = FALSE] /\ UNCHANGED call
    <3>1. /\ page' \in [Pages -> PageRecs] /\ OnlyPage(p) /\ SameTab(p) /\ page'[p].at = "need-key"
      BY <2>2, <1>2 DEF PageRecs, ViewStates, OnlyPage, SameTab
    <3>. QED
      BY <1>1, <1>2, <1>3, <2>2, <3>1 DEF Open, Keyless, ViewTypes
  <2>. QED
    BY <1>3, <2>1, <2>2 DEF Open
<1>4. CASE Rerun(c, p) \/ Paste(c, p) \/ Click(c, p) \/ Refresh(c, p)
  <2>1. \/ page' = page
        \/ page' = [page EXCEPT ![p].at = "loading", ![p].key = TRUE]
        \/ page' = [page EXCEPT ![p].at = "loading"]
    BY <1>4 DEF Rerun, Paste, Click, Refresh
  <2>2. /\ page' \in [Pages -> PageRecs] /\ OnlyPage(p) /\ SameTab(p)
        /\ page'[p].at \in {page[p].at, "loading"}
    BY <2>1, <1>2 DEF PageRecs, ViewStates, OnlyPage, SameTab
  <2>3. Mounted(p)
    BY <1>4 DEF Rerun, Paste, Click, Refresh, Clickable, Mounted
  <2>4. PICK k \in Kinds : Start(c, p, k) /\ (k = "click" => page[p].at = "ready")
    <3>1. CASE Rerun(c, p)
      BY <3>1 DEF Rerun, Kinds
    <3>2. CASE Paste(c, p)
      BY <3>2 DEF Paste, Kinds
    <3>3. CASE Click(c, p)
      BY <3>3 DEF Click, Clickable, Kinds
    <3>4. CASE Refresh(c, p)
      BY <3>4 DEF Refresh, Kinds
    <3>. QED
      BY <1>4, <3>1, <3>2, <3>3, <3>4
  <2>5. Begun(c, p, k)
    BY <2>2, <2>3, <2>4, StartStep DEF Begun, Mounted
  <2>. QED
    BY <1>1, <1>2, <2>2, <2>4, <2>5, StartStep DEF ViewTypes
<1>. QED
  BY <1>3, <1>4

Release(p) == [op |-> "release", page |-> p, call |-> None]

\* A view goes, and lets its key go if it had been acknowledged.
Left(p) ==
    /\ Mounted(p) /\ page'[p].at = "left" /\ ClearTab(p) /\ page'[p].ctl = page[p].ctl
    /\ OnlyPage(p)
    /\ queue' = IF page[p].registered THEN Append(queue, Release(p)) ELSE queue
    /\ \A x \in Calls : /\ call'[x].at = call[x].at /\ call'[x].page = call[x].page
                        /\ call'[x].kind = call[x].kind
                        /\ call'[x].fate = IF call[x].page = p THEN "dead" ELSE call[x].fate
    /\ Orphaned(p)

\* Unmounting a view does that.
LEMMA LeaveStep ==
  ASSUME TypeOK, NEW p \in Pages, Leave(p)
  PROVE  Left(p) /\ UNCHANGED <<Entry, faults, slips>> /\ ViewTypes
<1>. USE Typed
<1>. DEFINE s(x) == [call[x] EXCEPT !.fate = "dead"]
            r == [page[p] EXCEPT !.at = "left", !.key = FALSE, !.registered = FALSE,
                                 !.broken = FALSE]
<1>1. /\ Mounted(p) /\ page' = [page EXCEPT ![p] = r]
      /\ queue' = IF page[p].registered THEN Append(queue, Release(p)) ELSE queue
      /\ call' = [c \in Calls |-> IF call[c].page = p THEN s(c) ELSE call[c]]
      /\ dl' = Orphan(p) /\ UNCHANGED <<Entry, faults, slips>>
  BY DEF Leave, Released, Release, Entry
<1>2. \A x \in Calls : Alters(s(x), x, call[x].at, "dead") /\ call[x] \in CallRecs
  BY CallSet DEF Fates, CallStates
<1>3. r \in PageRecs /\ r.at = "left" /\ ~r.registered /\ ~r.broken /\ r.ctl = page[p].ctl
  BY DEF PageRecs, ViewStates
<1>4. queue' \in Seq(Jobs)
  <2>1. Release(p) \in Jobs
    BY DEF Release, Jobs
  <2>. QED
    BY <1>1, <2>1
<1>5. Orphaned(p) /\ dl' \in [Calls -> DlRecs]
  BY <1>1, OrphanStep
<1>. HIDE DEF s, r
<1>. QED
  BY <1>1, <1>2, <1>3, <1>4, <1>5 DEF Left, ViewTypes, Alters, ClearTab, OnlyPage

\* A tab is closed: the worker still serves what it was sent.
Closed(p) ==
    /\ page[p].at \notin {"none", "gone"} /\ page'[p].at = "gone" /\ ClearTab(p)
    /\ OnlyPage(p)
    /\ \A x \in Calls :
         IF call[x].page # p THEN call'[x] = call[x]
         ELSE /\ call'[x].page = p /\ call'[x].fate = "dead"
              /\ call'[x].at = IF call[x].at \in {"queued", "late"} THEN "late" ELSE "end"
    /\ Orphaned(p)

\* Closing a tab does that.
LEMMA CloseStep ==
  ASSUME TypeOK, NEW p \in Pages, Close(p)
  PROVE  Closed(p) /\ UNCHANGED <<sw, faults, slips>> /\ ViewTypes
<1>. USE Typed
<1>. DEFINE s(x) == [call[x] EXCEPT !.at = "late", !.fate = "dead"]
            r == [NoView EXCEPT !.at = "gone"]
<1>1. /\ p \in Windows /\ page' = [page EXCEPT ![p] = r]
      /\ call' = [c \in Calls |->
           IF call[c].page # p THEN call[c]
           ELSE IF call[c].at \in {"queued", "late"} THEN s(c) ELSE Ended(c)]
      /\ dl' = Orphan(p) /\ UNCHANGED <<sw, faults, slips>>
  BY DEF Close
<1>2. \A x \in Calls : Alters(s(x), x, "late", "dead") /\ Ends(Ended(x), x) /\ call[x] \in CallRecs
  BY CallSet DEF Fates, CallStates
<1>3. r \in PageRecs /\ r.at = "gone" /\ ~r.registered /\ ~r.broken
  BY DEF PageRecs, ViewStates, NoView
<1>4. queue' \in Seq(Jobs) /\ page[p].at \notin {"none", "gone"}
  BY <1>1 DEF sw, Windows
<1>5. Orphaned(p) /\ dl' \in [Calls -> DlRecs]
  BY <1>1, OrphanStep
<1>. HIDE DEF s, r
<1>. QED
  BY <1>1, <1>2, <1>3, <1>4, <1>5 DEF Closed, ViewTypes, Alters, Ends, ClearTab, OnlyPage

\* A page without controller reloads.
Reloaded(p) ==
    /\ page[p].at # "gone" /\ ~page[p].ctl
    /\ page'[p].at = "none" /\ ClearTab(p) /\ ~page'[p].ctl
    /\ OnlyPage(p)
    /\ \A x \in Calls :
         IF call[x].page # p THEN call'[x] = call[x]
         ELSE call'[x].page = p /\ call'[x].fate = "dead" /\ call'[x].at = "end"
    /\ Orphaned(p)

\* A handshake fails; its view says so, if it still waits for it.
Fails(c) ==
    /\ call'[c].page = call[c].page /\ call'[c].fate = "dead"
    /\ call'[c].at = IF call[c].at = "queued" THEN "late" ELSE "end"
    /\ OnlyCall(c)
    /\ \/ page' = page
       \/ /\ Live(c) /\ OnlyPage(call[c].page) /\ SameTab(call[c].page)
          /\ page'[call[c].page].at \in {"error", "need-key"}

\* A failed handshake leaves its tab so.
LEMMA FailedStep ==
  ASSUME TypeOK, NEW c \in Calls, call[c].page \in Pages, Failed(c)
  PROVE  Fails(c) /\ page' \in [Pages -> PageRecs] /\ call' \in [Calls -> CallRecs]
<1>. USE Typed
<1>. DEFINE s == [call[c] EXCEPT !.at = "late", !.fate = "dead"]
            p == call[c].page
<1>1. call' = [call EXCEPT ![c] = IF call[c].at = "queued" THEN s ELSE Ended(c)]
  BY DEF Failed
<1>2. \/ page' = page
      \/ /\ call[c].fate = "mine"
         /\ \/ page' = [page EXCEPT ![p].at = "error"]
            \/ page' = [page EXCEPT ![p].at = "need-key"]
  BY DEF Failed
<1>3. Alters(s, c, "late", "dead") /\ Ends(Ended(c), c)
  BY CallSet DEF Fates, CallStates
<1>. HIDE DEF s
<1>4. /\ call'[c].page = call[c].page /\ call'[c].fate = "dead"
      /\ call'[c].at = IF call[c].at = "queued" THEN "late" ELSE "end"
      /\ OnlyCall(c) /\ call' \in [Calls -> CallRecs]
  BY <1>1, <1>3 DEF Alters, Ends, OnlyCall
<1>5. /\ page' \in [Pages -> PageRecs]
      /\ \/ page' = page
         \/ /\ Live(c) /\ OnlyPage(p) /\ SameTab(p)
            /\ page'[p].at \in {"error", "need-key"}
  <2>1. CASE page' = page
    BY <2>1
  <2>2. CASE page' # page
    <3>1. page[p] \in PageRecs /\ p \in Pages
      OBVIOUS
    <3>2. Live(c)
      BY <1>2, <2>2 DEF Live
    <3>3. PICK a \in {"error", "need-key"} : page' = [page EXCEPT ![p].at = a]
      BY <1>2, <2>2
    <3>. HIDE DEF p
    <3>4. page' \in [Pages -> PageRecs] /\ OnlyPage(p) /\ SameTab(p) /\ page'[p].at = a
      BY <3>1, <3>3 DEF PageRecs, ViewStates, OnlyPage, SameTab
    <3>. QED
      BY <3>2, <3>4
  <2>. QED
    BY <2>1, <2>2
<1>. QED
  BY <1>4, <1>5 DEF Fails

\* The page without controller reloads, or its handshake fails.
LEMMA UncontrolledStep ==
  ASSUME Structure, NEW c \in Calls, Uncontrolled(c)
  PROVE  /\ call[c].page \in Pages /\ call[c].at = "ensure"
         /\ UNCHANGED <<sw, faults, slips>> /\ ViewTypes
         /\ Reloaded(call[c].page) \/ (Fails(c) /\ dl' = dl)
<1>. USE Typed
<1>. DEFINE p == call[c].page
            r == [NoView EXCEPT !.flag = TRUE]
<1>0. TypeOK /\ p \in Pages /\ call[c].at = "ensure" /\ UNCHANGED <<sw, faults, slips>>
  BY DEF Structure, CallInv, CallOwn, Uncontrolled
<1>1. queue' \in Seq(Jobs)
  BY <1>0 DEF sw
<1>2. CASE Failed(c) /\ UNCHANGED dl
  BY <1>0, <1>1, <1>2, FailedStep DEF ViewTypes
<1>3. CASE /\ page' = [page EXCEPT ![p] = r]
           /\ call' = [x \in Calls |-> IF call[x].page = p THEN Ended(x) ELSE call[x]]
           /\ dl' = Orphan(p)
  <2>1. \A x \in Calls : Ends(Ended(x), x) /\ call[x] \in CallRecs
    BY <1>0, CallSet DEF Fates, CallStates
  <2>2. r \in PageRecs /\ r.at = "none" /\ ~r.registered /\ ~r.broken /\ ~r.ctl
    BY DEF PageRecs, ViewStates, NoView
  <2>3. Orphaned(p) /\ dl' \in [Calls -> DlRecs]
    BY <1>0, <1>3, OrphanStep
  <2>4. ~page[p].ctl /\ page[p].at # "gone"
    BY <1>0 DEF Uncontrolled, Structure, PageInv
  <2>. HIDE DEF r, p
  <2>5. Reloaded(p) /\ ViewTypes
    BY <1>0, <1>1, <1>3, <2>1, <2>2, <2>3, <2>4 DEF Reloaded, ViewTypes, Ends, ClearTab, OnlyPage
  <2>. QED
    BY <1>0, <2>5 DEF p
<1>. QED
  BY <1>2, <1>3 DEF Uncontrolled

\* A refusal, or a lost answer, is a failure,
LEMMA RefusedStep ==
  ASSUME Structure, NEW c \in Calls, Refused(c)
  PROVE  /\ call[c].page \in Pages /\ call[c].at \in {"nack", "lost"} /\ Fails(c)
         /\ UNCHANGED <<sw, dl, faults, slips>> /\ ViewTypes
  BY Typed, FailedStep DEF Structure, CallInv, CallOwn, Refused, ViewTypes, sw

\* and so is a wait that is given up.
LEMMA GivenUpStep ==
  ASSUME Structure, NEW c \in Calls, GivenUp(c)
  PROVE  /\ call[c].page \in Pages /\ call[c].at = "queued" /\ Fails(c)
         /\ slips' = slips \cup {"timeout"} /\ UNCHANGED <<sw, dl>> /\ ViewTypes
  BY Typed, FailedStep DEF Structure, CallInv, CallOwn, GivenUp, ViewTypes, sw

\* The key is posted: the registration queues up, or is refused.
Posts(c) ==
    /\ call[c].at = "ensure" /\ call[c].page \in Pages
    /\ \A x \in Calls : x < c /\ call[x].page = call[c].page => call[x].at # "ensure"
    /\ OnlyPage(call[c].page) /\ page'[call[c].page].ctl
    /\ page'[call[c].page].at = page[call[c].page].at
    /\ page'[call[c].page].registered = page[call[c].page].registered
    /\ page'[call[c].page].broken = page[call[c].page].broken
    /\ OnlyCall(c) /\ call'[c].page = call[c].page /\ call'[c].kind = call[c].kind
    /\ call'[c].fate = call[c].fate
    /\ \/ /\ call'[c].at = "queued"
          /\ queue' = Append(queue, [op |-> "register", page |-> call[c].page, call |-> c])
       \/ call'[c].at = "nack" /\ queue' = queue

\* Posting the key does that.
LEMMA PostedStep ==
  ASSUME Structure, NEW c \in Calls, Posted(c)
  PROVE  Posts(c) /\ UNCHANGED <<Entry, dl, faults, slips>> /\ ViewTypes
<1>. USE Typed
<1>. DEFINE p == call[c].page
            q == [call[c] EXCEPT !.at = "queued"]
            n == [call[c] EXCEPT !.at = "nack"]
            j == [op |-> "register", page |-> p, call |-> c]
<1>0. /\ TypeOK /\ p \in Pages /\ call[c].at = "ensure" /\ UNCHANGED <<Entry, dl, faults, slips>>
      /\ \A x \in Calls : x < c /\ call[x].page = p => call[x].at # "ensure"
  BY DEF Structure, CallInv, CallOwn, Posted, Entry, Turn
<1>1. /\ page' = [page EXCEPT ![p].ctl = TRUE, ![p].flag = FALSE]
      /\ \/ call' = [call EXCEPT ![c] = q] /\ queue' = Append(queue, j)
         \/ call' = [call EXCEPT ![c] = n] /\ queue' = queue
  BY <1>0 DEF Posted
<1>2. Alters(q, c, "queued", call[c].fate) /\ Alters(n, c, "nack", call[c].fate)
  BY <1>0, CallSet DEF CallRecs, CallStates, Fates
<1>3. j \in Jobs
  BY <1>0 DEF Jobs
<1>4. page[p] \in PageRecs
  BY <1>0
<1>5. /\ page' \in [Pages -> PageRecs] /\ OnlyPage(p) /\ page'[p].ctl
      /\ page'[p].at = page[p].at /\ page'[p].registered = page[p].registered
      /\ page'[p].broken = page[p].broken
  <2>. HIDE DEF p
  <2>. QED
    BY <1>0, <1>1, <1>4 DEF PageRecs, OnlyPage
<1>. HIDE DEF q, n, j
<1>6. ViewTypes
  <2>1. queue' \in Seq(Jobs)
    <3>1. queue \in Seq(Jobs) /\ Append(queue, j) \in Seq(Jobs)
      BY <1>0, <1>3
    <3>2. queue' = queue \/ queue' = Append(queue, j)
      BY <1>1, Zenon
    <3>. QED
      BY <3>1, <3>2, Zenon
  <2>2. call' \in [Calls -> CallRecs]
    BY <1>0, <1>1, <1>2 DEF Alters
  <2>. QED
    BY <1>0, <1>5, <2>1, <2>2 DEF ViewTypes
<1>. QED
  BY <1>0, <1>1, <1>2, <1>5, <1>6 DEF Posts, Alters, OnlyCall, j

\* The acknowledgement reaches a view that is there,
AckLands(c) ==
    LET p == call[c].page IN
    /\ Live(c) /\ OnlyPage(p) /\ page'[p].registered /\ page'[p].ctl = page[p].ctl
    /\ page'[p].at = IF call[c].kind \in {"auto", "paste"} /\ call[c].fate = "mine" THEN "ready"
                     ELSE page[p].at
    /\ page'[p].broken = (page[p].broken /\ call[c].kind # "click")
    /\ IF call[c].kind = "click"
       THEN /\ OnlyDl(c) /\ dl'[c].at = "request" /\ dl'[c].page = p /\ dl'[c].obj = None
            /\ dl'[c].row = None /\ dl'[c].again = page[p].broken
       ELSE dl' = dl
    /\ queue' = queue /\ slips' = slips
\* or one that went: then the key is let go.
AckDrops(c) ==
    /\ ~Live(c) /\ page' = page /\ dl' = dl
    /\ IF call[c].kind = "refresh"
       THEN queue' = queue /\ slips' = slips \cup {"late"}
       ELSE /\ queue' = Append(queue, Release(call[c].page))
            /\ slips' = IF Mounted(call[c].page) THEN slips \cup {"again"} ELSE slips
Acks(c) ==
    /\ call[c].at = "ack" /\ call[c].page \in Pages
    /\ \A x \in Calls : x < c /\ call[x].page = call[c].page => call[x].at # "ack"
    /\ OnlyCall(c) /\ call'[c].at = "end" /\ call'[c].fate = "dead"
    /\ call'[c].page = call[c].page
    /\ AckLands(c) \/ AckDrops(c)

\* An acknowledgement does one or the other.
LEMMA AckedStep ==
  ASSUME Structure, NEW c \in Calls, Acked(c)
  PROVE  Acks(c) /\ UNCHANGED <<Entry, faults>> /\ ViewTypes
<1>. USE Typed
<1>. DEFINE p == call[c].page
            k == call[c].kind
            r == [NoDl EXCEPT !.at = "request", !.page = p, !.again = page[p].broken,
                              !.told = FALSE]
<1>0. /\ TypeOK /\ p \in Pages /\ call[c].at = "ack" /\ UNCHANGED <<Entry, faults>>
      /\ \A x \in Calls : x < c /\ call[x].page = p => call[x].at # "ack"
      /\ call' = [call EXCEPT ![c] = Ended(c)]
      /\ page[p] \in PageRecs
  BY DEF Structure, CallInv, CallOwn, Acked, Entry, Turn
<1>1. /\ OnlyCall(c) /\ call'[c].at = "end" /\ call'[c].fate = "dead" /\ call'[c].page = p
      /\ call' \in [Calls -> CallRecs]
  <2>1. Ends(Ended(c), c)
    BY <1>0, CallSet DEF CallRecs, CallStates, Fates
  <2>. QED
    BY <1>0, <2>1 DEF Ends, OnlyCall
<1>2. CASE AckedMounted(c)
  <2>1. /\ Live(c) /\ UNCHANGED <<queue, slips>>
        /\ page' = [page EXCEPT
             ![p].registered = TRUE,
             ![p].at = IF k \in {"auto", "paste"} /\ call[c].fate = "mine" THEN "ready" ELSE @,
             ![p].broken = @ /\ k # "click"]
        /\ dl' = IF k # "click" THEN dl ELSE [dl EXCEPT ![c] = r]
    BY <1>2 DEF AckedMounted, Live
  <2>2. /\ page' \in [Pages -> PageRecs] /\ OnlyPage(p) /\ page'[p].registered
        /\ page'[p].ctl = page[p].ctl
        /\ page'[p].at = (IF k \in {"auto", "paste"} /\ call[c].fate = "mine" THEN "ready"
                          ELSE page[p].at)
        /\ page'[p].broken = (page[p].broken /\ k # "click")
    <3>. HIDE DEF p, k
    <3>. QED
      BY <1>0, <2>1 DEF PageRecs, ViewStates, OnlyPage
  <2>3. /\ r \in DlRecs /\ r.at = "request" /\ r.page = p /\ r.obj = None /\ r.row = None
        /\ r.again = page[p].broken
    BY <1>0 DEF DlRecs, DlStates, NoDl, PageRecs
  <2>. HIDE DEF r
  <2>4. /\ dl' \in [Calls -> DlRecs]
        /\ IF k = "click"
           THEN /\ OnlyDl(c) /\ dl'[c].at = "request" /\ dl'[c].page = p /\ dl'[c].obj = None
                /\ dl'[c].row = None /\ dl'[c].again = page[p].broken
           ELSE dl' = dl
    BY <1>0, <2>1, <2>3 DEF OnlyDl
  <2>5. AckLands(c)
    BY <2>1, <2>2, <2>4 DEF AckLands
  <2>. QED
    BY <1>0, <1>1, <2>1, <2>2, <2>4, <2>5 DEF Acks, ViewTypes
<1>3. CASE AckedDead(c)
  <2>1. queue' \in Seq(Jobs)
    <3>1. Release(p) \in Jobs
      BY <1>0 DEF Release, Jobs
    <3>. QED
      BY <1>0, <1>3, <3>1 DEF AckedDead, Released, Release
  <2>2. AckDrops(c)
    BY <1>3 DEF AckedDead, AckDrops, Live, Released, Release
  <2>. QED
    BY <1>0, <1>1, <1>3, <2>1, <2>2 DEF Acks, ViewTypes, AckedDead
<1>. QED
  BY <1>2, <1>3 DEF Acked

-----------------------------------------------------------------------------
(* The steps, as the invariants see them. *)

\* The worker dies: what it had in memory goes.
Dies ==
    /\ queue' = <<>> /\ head' = Idle /\ registry' = None /\ InMemory' = None /\ InHand' = None
    /\ page' = page
    /\ \A x \in Calls :
         IF call[x].at = "late"
         THEN call'[x].at = "end" /\ call'[x].fate = "dead" /\ call'[x].page = call[x].page
         ELSE /\ call'[x].at = IF call[x].at = "queued" THEN "lost" ELSE call[x].at
              /\ call'[x].page = call[x].page /\ call'[x].kind = call[x].kind
              /\ call'[x].fate = call[x].fate
    /\ \A c \in Calls :
         IF dl[c].at \in Running \ {"request"}
         THEN /\ dl'[c].at = "killed" /\ dl'[c].page = dl[c].page /\ dl'[c].obj = None
              /\ ~dl'[c].again
         ELSE dl'[c] = dl[c]
    /\ \/ head.step = "write" /\ store' = InHand
       \/ head.step = "forget" /\ store' = None
       \/ store' = store
    /\ slips' = IF head.step = "write" \/ \E i \in DOMAIN queue : queue[i].op = "release"
                THEN slips \cup {"lost"} ELSE slips

\* The death of the worker does that.
LEMMA DieStep ==
  ASSUME Structure, Die
  PROVE  /\ Dies /\ Resumes /\ ViewTypes /\ head' \in HeadRecs
<1>. USE Typed
<1>. DEFINE q(c) == [call[c] EXCEPT !.at = "lost"]
            k(c) == [NoDl EXCEPT !.at = "killed", !.page = dl[c].page, !.told = dl[c].told]
<1>0. /\ TypeOK /\ queue' = <<>> /\ head' = Idle /\ registry' = None /\ page' = page
      /\ heap' = [o \in Objs |-> Blank]
      /\ call' = [c \in Calls |-> IF call[c].at = "queued" THEN q(c)
                                  ELSE IF call[c].at = "late" THEN Ended(c) ELSE call[c]]
      /\ dl' = [c \in Calls |-> IF dl[c].at \in Running \ {"request"} THEN k(c) ELSE dl[c]]
      /\ slips' = IF head.step = "write" \/ \E i \in DOMAIN queue : queue[i].op = "release"
                  THEN slips \cup {"lost"} ELSE slips
  BY DEF Structure, Die, Slip
<1>1. head.step \in {"write", "forget"} => InHand = heap[head.obj]
  BY DEF Structure, HeadInv, InHand
<1>2. \/ head.step = "write" /\ store' = InHand
      \/ head.step = "forget" /\ store' = None
      \/ store' = store
  BY <1>1 DEF Die
<1>3. \A c \in Calls : /\ Alters(q(c), c, "lost", call[c].fate) /\ Ends(Ended(c), c)
                       /\ call[c] \in CallRecs
  BY <1>0, CallSet DEF CallRecs, CallStates, Fates
<1>4. \A c \in Calls : /\ k(c) \in DlRecs /\ k(c).at = "killed" /\ k(c).page = dl[c].page
                       /\ k(c).obj = None /\ ~k(c).again
  BY <1>0 DEF NoDl, DlRecs, DlStates
<1>. HIDE DEF q, k
<1>5. /\ call' \in [Calls -> CallRecs]
      /\ \A x \in Calls :
         IF call[x].at = "late"
         THEN call'[x].at = "end" /\ call'[x].fate = "dead" /\ call'[x].page = call[x].page
         ELSE /\ call'[x].at = IF call[x].at = "queued" THEN "lost" ELSE call[x].at
              /\ call'[x].page = call[x].page /\ call'[x].kind = call[x].kind
              /\ call'[x].fate = call[x].fate
  BY <1>0, <1>3 DEF Alters, Ends
<1>6. /\ dl' \in [Calls -> DlRecs]
      /\ \A c \in Calls :
         IF dl[c].at \in Running \ {"request"}
         THEN /\ dl'[c].at = "killed" /\ dl'[c].page = dl[c].page /\ dl'[c].obj = None
              /\ ~dl'[c].again
         ELSE dl'[c] = dl[c]
  BY <1>0, <1>4
<1>7. InMemory' = None /\ InHand' = None /\ head' \in HeadRecs /\ heap' \in [Objs -> Entries]
  BY <1>0 DEF InMemory, InHand, Idle, HeadRecs, Blank, Entries
<1>8. ViewTypes
  BY <1>0, <1>5, <1>6 DEF ViewTypes
<1>9. Dies
  BY <1>0, <1>2, <1>5, <1>6, <1>7 DEF Dies
<1>10. Resumes
  <2>. SUFFICES ASSUME NEW c \in Calls, dl[c].obj \in Objs, dl'[c].obj = dl[c].obj PROVE FALSE
    BY <1>7 DEF Resumes
  <2>1. dl[c].at \in {"nego", "write"}
    BY Nones DEF Structure, DlInv
  <2>. QED
    BY <1>6, <2>1, Nones DEF Running
<1>. QED
  BY <1>7, <1>8, <1>9, <1>10

\* The steps of the tabs, of the queue and of the downloads.
Opening    == /\ \E p \in Pages : Keyless(p) \/ \E c \in Calls, k \in Kinds : Begun(c, p, k)
              /\ UNCHANGED <<sw, dl, slips>>
Leaving    == \E p \in Pages : Left(p) /\ UNCHANGED <<Entry, slips>>
Closing    == \E p \in Pages : Closed(p) /\ UNCHANGED <<sw, slips>>
Reloading  == \E p \in Pages : Reloaded(p) /\ UNCHANGED <<sw, slips>>
Failing    == \E c \in Calls :
                /\ call[c].page \in Pages /\ Fails(c) /\ UNCHANGED <<sw, dl>>
                /\ \/ call[c].at \in {"ensure", "nack", "lost"} /\ slips' = slips
                   \/ call[c].at = "queued" /\ slips' = slips \cup {"timeout"}
Posting    == \E c \in Calls : Posts(c) /\ UNCHANGED <<Entry, dl, slips>>
Acking     == \E c \in Calls : Acks(c) /\ UNCHANGED Entry
Loading    == Loads /\ UNCHANGED <<page, call, dl, slips>>
Starting   == /\ UNCHANGED <<page, call, store, dl>>
              /\ \/ /\ head.step = "idle" /\ registry # None /\ Starts(InMemory)
                    /\ slips' = slips /\ registry' = registry
                 \/ head.step = "load" /\ Reads
Misreading == UNCHANGED <<page, call, store, dl>> /\ head.step = "load" /\ Misreads
DlTaking   == \E c \in Calls : DlTakes(c)
DlLoading  == \E c \in Calls : DlLoads(c)
DlFinding  == \E c \in Calls : DlFinds(c)
Negotiating == \E c \in Calls : Negotiates(c)
Ending     == \E c \in Calls : Overs(c) /\ (page' = page \/ (dl[c].at = "fetch" /\ Notes(c)))
DlWriting  == \E c \in Calls : DlWrites(c)

Views   == Opening \/ Leaving \/ Closing \/ Reloading \/ Failing \/ Posting \/ Acking
Worker  == Loading \/ Starting \/ Misreading \/ Prunes \/ Writes
Serving == DlTaking \/ DlLoading \/ DlFinding \/ Negotiating \/ Ending \/ DlWriting
Types   == ViewTypes /\ head' \in HeadRecs

\* Every step is one of these.
LEMMA Steps ==
  ASSUME Structure, [Next]_vars
  PROVE  /\ Views \/ Worker \/ Serving \/ Dies \/ UNCHANGED vars
         /\ Resumes /\ Types
<1>. USE Typed DEF Types
<1>0. TypeOK
  BY DEF Structure
<1>1. UNCHANGED Entry => Resumes /\ head' \in HeadRecs
  BY <1>0 DEF Entry, Resumes
<1>2. UNCHANGED sw => UNCHANGED Entry
  BY DEF sw, Entry
<1>3. UNCHANGED <<page, call, dl, queue>> => ViewTypes
  BY <1>0 DEF ViewTypes
<1>4. ASSUME NEW c \in Calls, NEW p \in Pages,
             Open(c, p) \/ Rerun(c, p) \/ Paste(c, p) \/ Click(c, p) \/ Refresh(c, p)
      PROVE  Views /\ Resumes /\ Types
  BY <1>0, <1>1, <1>2, <1>4, OpenStep DEF Views, Opening
<1>5. ASSUME NEW p \in Pages, Leave(p)
      PROVE  Views /\ Resumes /\ Types
  BY <1>0, <1>1, <1>2, <1>5, LeaveStep DEF Views, Leaving
<1>6. ASSUME NEW p \in Pages, Close(p)
      PROVE  Views /\ Resumes /\ Types
  BY <1>0, <1>1, <1>2, <1>6, CloseStep DEF Views, Closing
<1>7. ASSUME NEW c \in Calls, Uncontrolled(c)
      PROVE  Views /\ Resumes /\ Types
  BY <1>0, <1>1, <1>2, <1>7, UncontrolledStep DEF Views, Reloading, Failing
<1>8. ASSUME NEW c \in Calls, Refused(c) \/ GivenUp(c)
      PROVE  Views /\ Resumes /\ Types
  BY <1>0, <1>1, <1>2, <1>8, RefusedStep, GivenUpStep DEF Views, Failing
<1>9. ASSUME NEW c \in Calls, Posted(c)
      PROVE  Views /\ Resumes /\ Types
  BY <1>0, <1>1, <1>9, PostedStep DEF Views, Posting
<1>10. ASSUME NEW c \in Calls, Acked(c)
       PROVE  Views /\ Resumes /\ Types
  BY <1>0, <1>1, <1>10, AckedStep DEF Views, Acking
<1>11. ASSUME NEW c \in Calls, Serve(c)
       PROVE  Serving /\ Resumes /\ Types
  <2>1. CASE DlTake(c)
    BY <1>0, <1>1, <1>2, <2>1, DlTakeStep DEF Serving, DlTaking, DlTakes, ViewTypes, sw
  <2>2. CASE DlLoaded(c)
    BY <1>0, <2>2, DlLoadedStep DEF Serving, DlLoading, DlFinding, DlLoads, DlFinds, ViewTypes, sw
  <2>3. CASE Negotiated(c)
    BY <1>0, <2>3, NegotiatedStep DEF Serving, Negotiating, Ending, Negotiates, Overs, ViewTypes
  <2>4. CASE DlWritten(c)
    BY <1>0, <2>4, DlWrittenStep DEF Serving, DlWriting, DlWrites, ViewTypes
  <2>5. CASE Streams(c)
    <3>1. Overs(c) /\ dl[c].at = "fetch" /\ Notes(c) /\ Resumes /\ dl' \in [Calls -> DlRecs]
      BY <2>5, StreamsStep
    <3>2. page' \in [Pages -> PageRecs]
      BY <1>0, <3>1 DEF Notes, PageRecs
    <3>. QED
      BY <1>0, <3>1, <3>2 DEF Serving, Ending, Overs, ViewTypes
  <2>. QED
    BY <1>11, <2>1, <2>2, <2>3, <2>4, <2>5 DEF Serve
<1>12. CASE Work
  <2>1. CASE Take
    <3>1. queue' \in {queue, Tail(queue)} /\ queue # <<>>
      BY <2>1, TakeStep DEF Loads, Starts
    <3>2. UNCHANGED <<page, call, dl>> /\ queue' \in Seq(Jobs)
      BY <1>0, <2>1, <3>1, TakeStep, JobTyped
    <3>3. ViewTypes
      BY <1>0, <3>2 DEF ViewTypes
    <3>4. Loading \/ Starting
      BY <2>1, TakeStep DEF Loading, Starting
    <3>. QED
      BY <2>1, <3>3, <3>4, TakeStep DEF Worker
  <2>2. CASE Loaded
    <3>1. queue' \in {queue, Tail(queue)} /\ queue # <<>>
      BY <2>2, LoadedStep DEF Reads, Misreads, Starts
    <3>2. UNCHANGED <<page, call, dl>> /\ queue' \in Seq(Jobs)
      BY <1>0, <2>2, <3>1, LoadedStep, JobTyped
    <3>3. ViewTypes
      BY <1>0, <3>2 DEF ViewTypes
    <3>4. Starting \/ Misreading
      BY <2>2, LoadedStep DEF Starting, Misreading
    <3>. QED
      BY <2>2, <3>3, <3>4, LoadedStep DEF Worker
  <2>3. CASE Pruned
    BY <1>3, <2>3, PrunedStep DEF Worker, Prunes
  <2>4. CASE Written
    BY <1>0, <2>4, WrittenStep, JobTyped DEF Worker, Writes, ViewTypes
  <2>. QED
    BY <1>12, <2>1, <2>2, <2>3, <2>4 DEF Work
<1>13. CASE Die
  BY <1>13, DieStep
<1>14. CASE UNCHANGED vars
  BY <1>1, <1>2, <1>3, <1>14 DEF vars, sw
<1>. QED
  BY <1>4, <1>5, <1>6, <1>7, <1>8, <1>9, <1>10, <1>11, <1>12, <1>13, <1>14 DEF Next, Handshake

-----------------------------------------------------------------------------
(* The invariant, one part at a time. *)

\* No step exceeds the bound on the faults.
LEMMA Faulty == ASSUME TypeOK, [Next]_vars PROVE faults' \in 0 .. MaxFaults
<1>1. faults' = faults \/ Fault
  BY DEF Next, vars, Open, Rerun, Paste, Click, Refresh, Leave, Close, Handshake, Uncontrolled,
         Posted, Acked, Refused, GivenUp, Serve, DlTake, DlLoaded, Negotiated, DlWritten, Streams,
         Work, Take, Loaded, Pruned, Written, Die
<1>. QED
  BY <1>1, Nones, BoundsAssumption, Typed DEF Fault

\* Types are kept.
LEMMA TypeOKNext == ASSUME IInv, [Next]_vars PROVE TypeOK'
<1>. USE Typed, Nones, EntriesAssumption
<1>0. Structure /\ TypeOK
  BY DEF IInv, Structure
<1>1. Resumes /\ Types /\ (Views \/ Worker \/ Serving \/ Dies \/ UNCHANGED vars)
  BY <1>0, Steps
<1>2. /\ registry' \in Objs \cup {None} /\ store' \in Entries \cup {None}
      /\ slips' \subseteq Slips
  <2>0. head.obj # None => InHand \in Entries /\ head.obj \in Objs
    BY <1>0 DEF InHand, HeadRecs
  <2>1. CASE Views
    BY <1>0, <2>1 DEF Views, Opening, Leaving, Closing, Reloading, Failing, Posting, Acking, sw,
       Entry, Acks, AckLands, AckDrops, Slips
  <2>2. CASE Worker
    <3>1. CASE Loading \/ Starting \/ Misreading
      BY <1>0, <3>1 DEF Loading, Loads, Starting, Misreading, Reads, Misreads, Starts, Slips
    <3>2. CASE Prunes
      BY <1>0, <3>2 DEF Prunes, PrunesTo, Slips
    <3>3. CASE Writes
      BY <1>0, <2>0, <3>3 DEF Writes, Slips, Structure, HeadInv
    <3>. QED
      BY <2>2, <3>1, <3>2, <3>3 DEF Worker
  <2>3. CASE Serving
    <3>1. ASSUME NEW c \in Calls, dl[c].obj \in Objs PROVE Obtained(c) \in Entries
      BY <1>0, <3>1 DEF Obtained
    <3>. QED
      BY <1>0, <2>3, <3>1 DEF Serving, DlTaking, DlLoading, DlFinding, Negotiating, Ending,
         DlWriting, DlTakes, DlLoads, DlFinds, Negotiates, Overs, DlWrites, sw, Slips
  <2>4. CASE Dies
    BY <1>0, <2>0, <2>4 DEF Dies, Slips, Structure, HeadInv
  <2>5. CASE UNCHANGED vars
    BY <1>0, <2>5 DEF vars, sw
  <2>. QED
    BY <1>1, <2>1, <2>2, <2>3, <2>4, <2>5
<1>3. faults' \in 0 .. MaxFaults
  BY <1>0, Faulty
<1>. QED
  BY <1>1, <1>2, <1>3 DEF TypeOK, Types, ViewTypes, Resumes, PageRecs, CallRecs, DlRecs, Jobs, HeadRecs

\* The steps of the queue and of the downloads leave the handshakes alone,
\* but for the end of a job and of the worker.
Aside == /\ call' = call
         /\ \A p \in Pages : page'[p].at = page[p].at
         /\ \A c \in Calls : dl'[c].at = "none" <=> dl[c].at = "none"
\* What the other steps leave alone.
LEMMA AsideStep ==
  ASSUME Structure, Loading \/ Starting \/ Misreading \/ Prunes \/ Serving \/ UNCHANGED vars
  PROVE  Aside
<1>0. TypeOK
  BY DEF Structure
<1>1. CASE Loading \/ Starting \/ Misreading \/ Prunes \/ UNCHANGED vars
  BY <1>1 DEF Loading, Starting, Misreading, Prunes, Aside, vars
<1>2. CASE DlTaking \/ DlLoading \/ DlFinding \/ Negotiating \/ DlWriting
  BY <1>2 DEF DlTaking, DlLoading, DlFinding, Negotiating, DlWriting,
     DlTakes, DlLoads, DlFinds, Negotiates, DlWrites, OnlyDl, Answers, Aside
<1>3. CASE Ending
  <2>1. PICK c \in Calls : Overs(c) /\ (page' = page \/ Notes(c))
    BY <1>3 DEF Ending
  <2>2. \A p \in Pages : page'[p].at = page[p].at
    <3>1. \A p \in Pages : page[p] \in PageRecs
      BY <1>0, Typed
    <3>. QED
      BY <1>0, <2>1, <3>1, Typed DEF Notes, PageRecs
  <2>. QED
    BY <2>1, <2>2 DEF Overs, OnlyDl, Answers, Aside
<1>. QED
  BY <1>1, <1>2, <1>3 DEF Serving

\* One handshake, and the tab that it belongs to.
LEMMA CallOwnNext == ASSUME IInv, [Next]_vars, NEW x \in Calls PROVE CallOwn(x)'
<1>0. Structure /\ TypeOK /\ CallOwn(x) /\ call[x] \in CallRecs /\ None \notin Pages
  BY Typed, Nones DEF IInv, Structure, CallInv
<1>1. Views \/ Worker \/ Serving \/ Dies \/ UNCHANGED vars
  BY <1>0, Steps
<1>2. CASE Opening
  <2>1. PICK p \in Pages : Keyless(p) \/ \E c \in Calls, k \in Kinds : Begun(c, p, k)
    BY <1>2 DEF Opening
  <2>2. dl' = dl
    BY <1>2 DEF Opening
  <2>3. CASE Keyless(p)
    BY <1>0, <2>2, <2>3 DEF CallOwn, Live, Mounted, Keyless, OnlyPage
  <2>4. CASE \E c \in Calls, k \in Kinds : Begun(c, p, k)
    <3>1. PICK c \in Calls, k \in Kinds : Begun(c, p, k)
      BY <2>4
    <3>2. CASE x = c
      BY <1>0, <2>2, <3>1, <3>2 DEF CallOwn, Live, Mounted, Begun
    <3>3. CASE x # c
      BY <1>0, <2>2, <3>1, <3>3 DEF CallOwn, Live, Mounted, Begun, OnlyPage, SameCall
    <3>. QED
      BY <3>2, <3>3
  <2>. QED
    BY <2>1, <2>3, <2>4
<1>3. CASE Leaving
  <2>1. PICK p \in Pages : Left(p)
    BY <1>3 DEF Leaving
  <2>. QED
    BY <1>0, <2>1 DEF CallOwn, Live, Mounted, Left, OnlyPage, Orphaned
<1>4. CASE Closing
  <2>1. PICK p \in Pages : Closed(p)
    BY <1>4 DEF Closing
  <2>. QED
    BY <1>0, <2>1 DEF CallOwn, Live, Mounted, Closed, OnlyPage, Orphaned
<1>5. CASE Reloading
  <2>1. PICK p \in Pages : Reloaded(p)
    BY <1>5 DEF Reloading
  <2>. QED
    BY <1>0, <2>1 DEF CallOwn, Live, Mounted, Reloaded, OnlyPage, Orphaned
<1>6. CASE Failing
  <2>1. PICK c \in Calls : /\ call[c].page \in Pages /\ Fails(c) /\ dl' = dl
                           /\ call[c].at \in {"ensure", "nack", "lost", "queued"}
    BY <1>6 DEF Failing
  <2>2. CASE x = c
    BY <1>0, <2>1, <2>2 DEF CallOwn, Live, Fails
  <2>3. CASE x # c
    BY <1>0, <2>1, <2>3 DEF CallOwn, Live, Mounted, Fails, OnlyCall, OnlyPage
  <2>. QED
    BY <2>2, <2>3
<1>7. CASE Posting
  <2>1. PICK c \in Calls : Posts(c) /\ dl' = dl
    BY <1>7 DEF Posting
  <2>. QED
    BY <1>0, <2>1 DEF CallOwn, Live, Mounted, Posts, OnlyCall, OnlyPage
<1>8. CASE Acking
  <2>1. PICK c \in Calls : Acks(c)
    BY <1>8 DEF Acking
  <2>2. CASE x = c
    BY <1>0, <2>1, <2>2 DEF CallOwn, Live, Acks
  <2>3. CASE x # c
    BY <1>0, <2>1, <2>3 DEF CallOwn, Live, Mounted, Acks, AckLands, AckDrops, OnlyCall, OnlyPage, OnlyDl
  <2>. QED
    BY <2>2, <2>3
<1>9. CASE Writes
  <2>1. dl' = dl /\ page' = page
    BY <1>9 DEF Writes
  <2>2. CASE Job.op = "register" /\ x = Job.call
    <3>1. call[x].at \in {"queued", "late"}
      BY <1>0, <1>9, <2>2, JobTyped DEF Structure, QueueInv, Writes, Job
    <3>2. /\ call'[x].page = call[x].page
          /\ IF call[x].at = "queued" THEN call'[x].at = "ack" /\ call'[x].fate = call[x].fate
             ELSE call'[x].at = "end" /\ call'[x].fate = "dead"
      BY <1>9, <2>2 DEF Writes
    <3>. QED
      BY <1>0, <2>1, <3>1, <3>2 DEF CallOwn, Live, Mounted
  <2>3. CASE ~(Job.op = "register" /\ x = Job.call)
    <3>1. call'[x] = call[x]
      BY <1>9, <2>3 DEF Writes
    <3>. QED
      BY <1>0, <2>1, <3>1 DEF CallOwn, Live, Mounted
  <2>. QED
    BY <2>2, <2>3
<1>10. CASE Dies
  <2>1. page' = page
    BY <1>10 DEF Dies
  <2>2. dl'[x].at # "none" => dl[x].at # "none"
    BY <1>10 DEF Dies, Running
  <2>3. /\ call'[x].page = call[x].page
        /\ IF call[x].at = "late" THEN call'[x].at = "end" /\ call'[x].fate = "dead"
           ELSE /\ call'[x].at = IF call[x].at = "queued" THEN "lost" ELSE call[x].at
                /\ call'[x].fate = call[x].fate
    BY <1>10 DEF Dies
  <2>. QED
    BY <1>0, <2>1, <2>2, <2>3 DEF CallOwn, Live, Mounted
<1>11. CASE Loading \/ Starting \/ Misreading \/ Prunes \/ Serving \/ UNCHANGED vars
  BY <1>0, <1>11, AsideStep DEF CallOwn, Live, Mounted, Aside
<1>. QED
  BY <1>1, <1>2, <1>3, <1>4, <1>5, <1>6, <1>7, <1>8, <1>9, <1>10, <1>11 DEF Views, Worker

\* The registration that is written is the earliest of its tab's that wait.
LEMMA Earliest ==
  ASSUME Structure, queue # <<>>, Job.op = "register", NEW x \in Calls,
         x < Job.call, call[x].page = call[Job.call].page
  PROVE  call[x].at # "queued"
<1>. SUFFICES ASSUME call[x].at = "queued" PROVE FALSE
  OBVIOUS
<1>1. PICK i \in DOMAIN queue : Registers(i, x)
  BY DEF Structure, QueueInv
<1>2. 1 \in DOMAIN queue /\ i \in Nat \ {0} /\ i # 1 /\ queue[1] = Job
  BY <1>1, JobTyped, Nones, Typed DEF Structure, Registers, Job
<1>3. queue[i].op = "register" /\ queue[i].call = x /\ queue[1].op = "register"
  BY <1>1, <1>2 DEF Registers
<1>4. call[x].page = queue[i].page /\ call[Job.call].page = queue[1].page
  BY <1>1, <1>2, <1>3 DEF Structure, QueueInv
<1>5. 1 < i
  BY <1>2
<1>6. queue[1].call < queue[i].call
  BY <1>1, <1>2, <1>3, <1>4, <1>5 DEF Structure, QueueInv
<1>7. Job.call \in Nat /\ x \in Nat
  BY JobIdle, Nones
<1>. QED
  BY <1>2, <1>3, <1>6, <1>7

\* Two handshakes, of one tab or not.
LEMMA InOrderNext ==
  ASSUME IInv, [Next]_vars, NEW x \in Calls, NEW y \in Calls, x < y
  PROVE  InOrder(x, y)'
<1>0. /\ Structure /\ TypeOK /\ CallOwn(x) /\ CallOwn(y) /\ InOrder(x, y)
      /\ None \notin Pages
  BY Typed, Nones DEF IInv, Structure, CallInv
<1>n. x \in Nat /\ y \in Nat
  BY Nones
<1>1. Views \/ Worker \/ Serving \/ Dies \/ UNCHANGED vars
  BY <1>0, Steps
<1>2. CASE Opening
  <2>1. PICK p \in Pages : Keyless(p) \/ \E c \in Calls, k \in Kinds : Begun(c, p, k)
    BY <1>2 DEF Opening
  <2>2. CASE Keyless(p)
    BY <1>0, <2>2 DEF InOrder, Live, Due, Keyless
  <2>3. CASE \E c \in Calls, k \in Kinds : Begun(c, p, k)
    <3>1. PICK c \in Calls, k \in Kinds : Begun(c, p, k)
      BY <2>3
    <3>2. CASE y = c
      BY <1>0, <3>1, <3>2 DEF InOrder, Live, Due, Begun, SameCall
    <3>3. CASE x = c
      BY <1>0, <3>1, <3>3 DEF InOrder, Live, Due, Begun, SameCall, CallOwn
    <3>4. CASE x # c /\ y # c
      BY <1>0, <3>1, <3>4 DEF InOrder, Live, Due, Begun, SameCall
    <3>. QED
      BY <3>2, <3>3, <3>4
  <2>. QED
    BY <2>1, <2>2, <2>3
<1>3. CASE Leaving
  <2>1. PICK p \in Pages : Left(p)
    BY <1>3 DEF Leaving
  <2>. QED
    BY <1>0, <2>1 DEF InOrder, Live, Due, Left
<1>4. CASE Closing
  <2>1. PICK p \in Pages : Closed(p)
    BY <1>4 DEF Closing
  <2>. QED
    BY <1>0, <2>1 DEF InOrder, Live, Due, Closed, CallOwn
<1>5. CASE Reloading
  <2>1. PICK p \in Pages : Reloaded(p)
    BY <1>5 DEF Reloading
  <2>. QED
    BY <1>0, <2>1 DEF InOrder, Live, Due, Reloaded, CallOwn
<1>6. CASE Failing
  <2>1. PICK c \in Calls : /\ call[c].page \in Pages /\ Fails(c)
                           /\ call[c].at \in {"ensure", "nack", "lost", "queued"}
    BY <1>6 DEF Failing
  <2>. QED
    BY <1>0, <1>n, <2>1 DEF InOrder, Live, Due, Fails, OnlyCall
<1>7. CASE Posting
  <2>1. PICK c \in Calls : Posts(c)
    BY <1>7 DEF Posting
  <2>2. CASE y = c
    BY <1>0, <1>n, <2>1, <2>2 DEF InOrder, Live, Due, Posts, OnlyCall
  <2>3. CASE x = c
    BY <1>0, <1>n, <2>1, <2>3 DEF InOrder, Live, Due, Posts, OnlyCall
  <2>4. CASE x # c /\ y # c
    BY <1>0, <1>n, <2>1, <2>4 DEF InOrder, Live, Due, Posts, OnlyCall
  <2>. QED
    BY <2>2, <2>3, <2>4
<1>8. CASE Acking
  <2>1. PICK c \in Calls : Acks(c)
    BY <1>8 DEF Acking
  <2>2. OnlyCall(c) /\ call'[c].at = "end" /\ call'[c].fate = "dead"
        /\ call'[c].page = call[c].page /\ call[c].at = "ack"
    BY <2>1 DEF Acks
  <2>. QED
    BY <1>0, <1>n, <2>2 DEF InOrder, Live, Due, OnlyCall
<1>9. CASE Writes
  <2>1. CASE Job.op = "register" /\ y = Job.call
    <3>1. call[y].at \in {"queued", "late"}
      BY <1>0, <1>9, <2>1, JobTyped DEF Structure, QueueInv, Writes, Job
    <3>2. call[x].page = call[y].page => call[x].at # "queued"
      BY <1>0, <1>9, <2>1, Earliest DEF Writes
    <3>3. /\ call'[y].page = call[y].page
          /\ IF call[y].at = "queued" THEN call'[y].at = "ack" /\ call'[y].fate = call[y].fate
             ELSE call'[y].at = "end" /\ call'[y].fate = "dead"
      BY <1>9, <2>1 DEF Writes
    <3>4. call'[x] = call[x]
      BY <1>9, <1>n, <2>1 DEF Writes
    <3>. QED
      BY <1>0, <3>1, <3>2, <3>3, <3>4 DEF InOrder, Live, Due
  <2>2. CASE Job.op = "register" /\ x = Job.call
    <3>1. call[x].at \in {"queued", "late"}
      BY <1>0, <1>9, <2>2, JobTyped DEF Structure, QueueInv, Writes, Job
    <3>3. /\ call'[x].page = call[x].page
          /\ IF call[x].at = "queued" THEN call'[x].at = "ack" /\ call'[x].fate = call[x].fate
             ELSE call'[x].at = "end" /\ call'[x].fate = "dead"
      BY <1>9, <2>2 DEF Writes
    <3>4. call'[y] = call[y]
      BY <1>9, <1>n, <2>2 DEF Writes
    <3>. QED
      BY <1>0, <3>1, <3>3, <3>4 DEF InOrder, Live, Due
  <2>3. CASE ~(Job.op = "register" /\ Job.call \in {x, y})
    <3>1. call'[x] = call[x] /\ call'[y] = call[y]
      BY <1>9, <2>3 DEF Writes
    <3>. QED
      BY <1>0, <3>1 DEF InOrder, Live, Due
  <2>. QED
    BY <2>1, <2>2, <2>3
<1>10. CASE Dies
  <2>1. \A z \in {x, y} :
        /\ call'[z].page = call[z].page
        /\ IF call[z].at = "late" THEN call'[z].at = "end" /\ call'[z].fate = "dead"
           ELSE /\ call'[z].at = IF call[z].at = "queued" THEN "lost" ELSE call[z].at
                /\ call'[z].fate = call[z].fate
    BY <1>10 DEF Dies
  <2>. QED
    BY <1>0, <2>1 DEF InOrder, Live, Due
<1>11. CASE Loading \/ Starting \/ Misreading \/ Prunes \/ Serving \/ UNCHANGED vars
  BY <1>0, <1>11, AsideStep DEF InOrder, Live, Due, Aside
<1>. QED
  BY <1>1, <1>2, <1>3, <1>4, <1>5, <1>6, <1>7, <1>8, <1>9, <1>10, <1>11 DEF Views, Worker

\* The handshakes, together.
LEMMA CallInvNext == ASSUME IInv, [Next]_vars PROVE CallInv'
  BY CallOwnNext, InOrderNext DEF CallInv

\* What a tab remembers.
PageOwn(p) == /\ page[p].registered \/ page[p].broken => Mounted(p)
              /\ page[p].registered => page[p].ctl
PageCall(p, c) ==
    call[c].page = p => /\ ~page[p].ctl /\ page[p].at # "gone" => call[c].at \in {"ensure", "end"}
                        /\ page[p].at = "gone" => call[c].at \in {"late", "end"}
\* The part of the invariant about tabs, tab by tab and handshake by handshake,
LEMMA PageParts == PageInv <=> \A p \in Pages : PageOwn(p) /\ \A c \in Calls : PageCall(p, c)
  BY DEF PageInv, PageOwn, PageCall
\* now and next.
LEMMA PagePartsNext == PageInv' <=> \A p \in Pages : PageOwn(p)' /\ \A c \in Calls : PageCall(p, c)'
  BY DEF PageInv, PageOwn, PageCall

\* What the tab of a stream that is cancelled notes.
LEMMA NoteStep ==
  ASSUME Structure, NEW c \in Calls, Notes(c), NEW p \in Pages
  PROVE  /\ page'[p].at = page[p].at /\ page'[p].registered = page[p].registered
         /\ page'[p].ctl = page[p].ctl
         /\ page'[p].broken => page[p].broken \/ dl[c].page = p
<1>1. page[p] \in PageRecs /\ page \in [Pages -> PageRecs]
  BY Typed DEF Structure
<1>. QED
  BY <1>1 DEF Notes, PageRecs

\* A tab forgets when its view goes.
LEMMA PageOwnNext == ASSUME IInv, [Next]_vars, NEW q \in Pages PROVE PageOwn(q)'
<1>0. Structure /\ TypeOK /\ PageOwn(q)
  BY PageParts DEF IInv, Structure
<1>1. Views \/ Worker \/ Serving \/ Dies \/ UNCHANGED vars
  BY <1>0, Steps
<1>2. CASE Opening
  BY <1>0, <1>2 DEF Opening, Keyless, Begun, PageOwn, Mounted, OnlyPage, SameTab
<1>3. CASE Leaving
  BY <1>0, <1>3 DEF Leaving, Left, PageOwn, Mounted, OnlyPage, ClearTab
<1>4. CASE Closing
  BY <1>0, <1>4 DEF Closing, Closed, PageOwn, Mounted, OnlyPage, ClearTab
<1>5. CASE Reloading
  BY <1>0, <1>5 DEF Reloading, Reloaded, PageOwn, Mounted, OnlyPage, ClearTab
<1>6. CASE Failing
  BY <1>0, <1>6 DEF Failing, Fails, PageOwn, Mounted, OnlyPage, SameTab
<1>7. CASE Posting
  BY <1>0, <1>7 DEF Posting, Posts, PageOwn, Mounted, OnlyPage
<1>8. CASE Acking
  <2>1. PICK c \in Calls : Acks(c)
    BY <1>8 DEF Acking
  <2>2. CASE AckDrops(c)
    BY <1>0, <2>2 DEF AckDrops, PageOwn, Mounted
  <2>3. CASE AckLands(c)
    <3>1. Live(c) /\ Mounted(call[c].page) /\ call[c].page \in Pages
      BY <1>0, <2>1, <2>3 DEF AckLands, Structure, CallInv, CallOwn, Acks
    <3>2. page[call[c].page].ctl
      <4>1. PageCall(call[c].page, c) /\ call[c].at = "ack"
        BY <1>0, <2>1, <3>1, PageParts DEF Structure, Acks
      <4>. QED
        BY <3>1, <4>1 DEF PageCall, Mounted
    <3>. QED
      BY <1>0, <2>3, <3>1, <3>2 DEF AckLands, PageOwn, Mounted, OnlyPage
  <2>. QED
    BY <2>1, <2>2, <2>3 DEF Acks
<1>9. CASE Worker \/ Dies \/ UNCHANGED vars \/ page' = page
  <2>1. page' = page
    BY <1>9 DEF Worker, Loading, Starting, Misreading, Prunes, Writes, Dies, vars
  <2>. QED
    BY <1>0, <2>1 DEF PageOwn, Mounted
<1>10. CASE Serving
  <2>1. page' = page \/ \E c \in Calls : Notes(c)
    BY <1>10 DEF Serving, DlTaking, DlLoading, DlFinding, Negotiating, DlWriting, Ending,
       DlTakes, DlLoads, DlFinds, Negotiates, DlWrites
  <2>2. ASSUME NEW c \in Calls, Notes(c) PROVE PageOwn(q)'
    <3>1. dl[c].page = q => Mounted(q)
      BY <1>0, Nones DEF Structure, DlInv
    <3>. QED
      BY <1>0, <2>2, <3>1, NoteStep DEF PageOwn, Mounted
  <2>. QED
    BY <1>9, <2>1, <2>2
<1>. QED
  BY <1>1, <1>2, <1>3, <1>4, <1>5, <1>6, <1>7, <1>8, <1>9, <1>10 DEF Views

\* A tab and one of its handshakes.
LEMMA PageCallNext == ASSUME IInv, [Next]_vars, NEW q \in Pages, NEW x \in Calls PROVE PageCall(q, x)'
<1>0. Structure /\ TypeOK /\ PageCall(q, x) /\ CallOwn(x) /\ None \notin Pages
  BY PageParts, Nones DEF IInv, Structure, CallInv
<1>1. Views \/ Worker \/ Serving \/ Dies \/ UNCHANGED vars
  BY <1>0, Steps
<1>2. CASE Opening
  <2>1. PICK p \in Pages : Keyless(p) \/ \E c \in Calls, k \in Kinds : Begun(c, p, k)
    BY <1>2 DEF Opening
  <2>2. CASE Keyless(p)
    BY <1>0, <2>2 DEF PageCall, Keyless, OnlyPage, SameTab
  <2>3. CASE \E c \in Calls, k \in Kinds : Begun(c, p, k)
    BY <1>0, <2>3 DEF PageCall, Begun, Mounted, OnlyPage, SameTab, SameCall
  <2>. QED
    BY <2>1, <2>2, <2>3
<1>3. CASE Leaving
  BY <1>0, <1>3 DEF Leaving, Left, Mounted, PageCall, OnlyPage
<1>4. CASE Closing
  BY <1>0, <1>4 DEF Closing, Closed, PageCall, OnlyPage
<1>5. CASE Reloading
  BY <1>0, <1>5 DEF Reloading, Reloaded, PageCall, OnlyPage
<1>6. CASE Failing
  <2>1. PICK c \in Calls : call[c].page \in Pages /\ Fails(c)
    BY <1>6 DEF Failing
  <2>2. /\ page'[q].ctl = page[q].ctl
        /\ page'[q].at = "gone" <=> page[q].at = "gone"
    <3>1. Live(c) => Mounted(call[c].page)
      BY <1>0 DEF Structure, CallInv, CallOwn
    <3>. QED
      BY <2>1, <3>1 DEF Fails, OnlyPage, SameTab, Mounted
  <2>. QED
    BY <1>0, <2>1, <2>2 DEF Fails, PageCall, OnlyCall
<1>7. CASE Posting
  BY <1>0, <1>7 DEF Posting, Posts, PageCall, OnlyPage, OnlyCall
<1>8. CASE Acking
  <2>1. PICK c \in Calls : Acks(c)
    BY <1>8 DEF Acking
  <2>2. /\ page'[q].ctl = page[q].ctl
        /\ page'[q].at = "gone" <=> page[q].at = "gone"
    <3>1. Live(c) => Mounted(call[c].page)
      BY <1>0 DEF Structure, CallInv, CallOwn
    <3>. QED
      BY <2>1, <3>1 DEF Acks, AckLands, AckDrops, OnlyPage, Mounted
  <2>. QED
    BY <1>0, <2>1, <2>2 DEF Acks, PageCall, OnlyCall
<1>9. CASE Writes
  <2>1. Job.op = "register" /\ x = Job.call => call[x].at \in {"queued", "late"}
    BY <1>0, <1>9, JobTyped DEF Structure, QueueInv, Writes, Job
  <2>. QED
    BY <1>0, <1>9, <2>1 DEF Writes, PageCall
<1>10. CASE Dies
  BY <1>0, <1>10 DEF Dies, PageCall
<1>11. CASE Loading \/ Starting \/ Misreading \/ Prunes \/ Serving \/ UNCHANGED vars
  <2>1. Aside
    BY <1>0, <1>11, AsideStep
  <2>2. page' = page \/ \E c \in Calls : Notes(c)
    BY <1>11 DEF Serving, DlTaking, DlLoading, DlFinding, Negotiating, DlWriting, Ending,
       DlTakes, DlLoads, DlFinds, Negotiates, DlWrites, Loading, Starting, Misreading, Prunes, vars
  <2>3. page'[q].ctl = page[q].ctl
    BY <1>0, <2>2, NoteStep
  <2>. QED
    BY <1>0, <2>1, <2>3 DEF PageCall, Aside
<1>. QED
  BY <1>1, <1>2, <1>3, <1>4, <1>5, <1>6, <1>7, <1>8, <1>9, <1>10, <1>11 DEF Views, Worker

\* What a tab remembers, next.
LEMMA PageInvNext == ASSUME IInv, [Next]_vars PROVE PageInv'
  BY PageOwnNext, PageCallNext, PagePartsNext

-----------------------------------------------------------------------------
(* The queue. *)

\* A job of the queue, and two of them.
QueueJob(i) == queue[i].op = "register" =>
                 /\ queue[i].call \in Calls
                 /\ call[queue[i].call].at \in {"queued", "late"}
                 /\ call[queue[i].call].page = queue[i].page
QueuePair(i, j) == queue[i].op = "register" /\ queue[j].op = "register" =>
                     /\ queue[i].call # queue[j].call
                     /\ queue[i].page = queue[j].page => queue[i].call < queue[j].call
QueueCall(c) == call[c].at = "queued" => \E i \in DOMAIN queue : Registers(i, c)

\* The part of the invariant about the queue, job by job,
LEMMA QueueParts ==
  QueueInv <=> /\ \A i \in DOMAIN queue : QueueJob(i)
               /\ \A i, j \in DOMAIN queue : i < j => QueuePair(i, j)
               /\ \A c \in Calls : QueueCall(c)
  BY DEF QueueInv, QueueJob, QueuePair, QueueCall
\* now and next.
LEMMA QueuePartsNext ==
  QueueInv' <=> /\ \A i \in DOMAIN queue' : QueueJob(i)'
                /\ \A i, j \in DOMAIN queue' : i < j => QueuePair(i, j)'
                /\ \A c \in Calls : QueueCall(c)'
  BY DEF QueueInv, QueueJob, QueuePair, QueueCall

\* The queue is as it was, and so are the handshakes in it, unless they wait
\* no longer.
LEMMA QueueSame ==
  ASSUME QueueInv, queue' = queue,
         \A x \in Calls : /\ call'[x].page = call[x].page
                          /\ call[x].at \in {"queued", "late"} => call'[x].at \in {"queued", "late"}
                          /\ call'[x].at = "queued" => call[x].at = "queued"
  PROVE  QueueInv'
<1>1. \A i \in DOMAIN queue' : QueueJob(i)'
  BY QueueParts DEF QueueJob
<1>2. \A i, j \in DOMAIN queue' : i < j => QueuePair(i, j)'
  BY QueueParts DEF QueuePair
<1>3. \A c \in Calls : QueueCall(c)'
  BY QueueParts DEF QueueCall, Registers
<1>. QED
  BY <1>1, <1>2, <1>3, QueuePartsNext

\* What a job that is appended comes behind.
LEMMA Appended ==
  ASSUME queue \in Seq(Jobs), NEW j \in Jobs, queue' = Append(queue, j)
  PROVE  /\ Len(queue) \in Nat /\ DOMAIN queue = 1 .. Len(queue)
         /\ DOMAIN queue' = 1 .. Len(queue) + 1
         /\ \A i \in DOMAIN queue : queue'[i] = queue[i]
         /\ queue'[Len(queue) + 1] = j
         /\ queue # <<>> => Job' = Job
         /\ queue' # <<>>
  BY DEF Job

\* A release is appended.
LEMMA QueueReleases ==
  ASSUME QueueInv, queue \in Seq(Jobs), NEW p \in Pages, queue' = Append(queue, Release(p)),
         \A x \in Calls : /\ call'[x].page = call[x].page
                          /\ call[x].at \in {"queued", "late"} => call'[x].at \in {"queued", "late"}
                          /\ call'[x].at = "queued" => call[x].at = "queued"
  PROVE  QueueInv'
<1>. DEFINE n == Len(queue) + 1
            r == Release(p)
<1>1. r \in Jobs /\ r.op = "release"
  BY DEF Release, Jobs
<1>. HIDE DEF r
<1>2. /\ n \in Nat /\ DOMAIN queue = 1 .. n - 1 /\ DOMAIN queue' = 1 .. n
      /\ \A i \in DOMAIN queue : queue'[i] = queue[i]
      /\ queue'[n] = r
  BY <1>1, Appended DEF r
<1>. HIDE DEF n
<1>3. \A i \in DOMAIN queue' : QueueJob(i)'
  BY <1>1, <1>2, QueueParts DEF QueueJob
<1>4. \A i, j \in DOMAIN queue' : i < j => QueuePair(i, j)'
  BY <1>1, <1>2, QueueParts DEF QueuePair
<1>5. \A c \in Calls : QueueCall(c)'
  BY <1>1, <1>2, QueueParts DEF QueueCall, Registers
<1>. QED
  BY <1>3, <1>4, <1>5, QueuePartsNext

\* A registration is appended.
LEMMA QueueRegisters ==
  ASSUME Structure, NEW c \in Calls, Posts(c), call'[c].at = "queued"
  PROVE  QueueInv'
<1>. DEFINE n == Len(queue) + 1
            r == [op |-> "register", page |-> call[c].page, call |-> c]
<1>0. /\ QueueInv /\ queue \in Seq(Jobs) /\ call[c].at = "ensure" /\ OnlyCall(c)
      /\ call'[c].page = call[c].page /\ call[c].page \in Pages
      /\ queue' = Append(queue, r)
  BY Typed DEF Structure, Posts
<1>1. r \in Jobs /\ r.op = "register" /\ r.call = c /\ r.page = call[c].page
  BY <1>0 DEF Jobs
<1>. HIDE DEF r
<1>2. /\ n \in Nat \ {0} /\ DOMAIN queue = 1 .. n - 1 /\ DOMAIN queue' = 1 .. n
      /\ \A i \in DOMAIN queue : queue'[i] = queue[i]
      /\ queue'[n] = r
  BY <1>0, <1>1, Appended
<1>. HIDE DEF n
<1>3. \A i \in DOMAIN queue' : QueueJob(i)'
  <2>. SUFFICES ASSUME NEW i \in DOMAIN queue' PROVE QueueJob(i)'
    OBVIOUS
  <2>1. CASE i = n
    BY <1>0, <1>1, <1>2, <2>1 DEF QueueJob
  <2>2. CASE i # n
    <3>1. i \in DOMAIN queue /\ queue'[i] = queue[i] /\ QueueJob(i)
      BY <1>0, <1>2, <2>2, QueueParts
    <3>. QED
      BY <1>0, <3>1 DEF QueueJob, OnlyCall
  <2>. QED
    BY <2>1, <2>2
<1>4. \A i, j \in DOMAIN queue' : i < j => QueuePair(i, j)'
  <2>. SUFFICES ASSUME NEW i \in DOMAIN queue', NEW j \in DOMAIN queue', i < j
                PROVE  QueuePair(i, j)'
    OBVIOUS
  <2>1. i \in DOMAIN queue /\ queue'[i] = queue[i] /\ QueueJob(i)
    BY <1>0, <1>2, QueueParts
  <2>2. CASE j = n
    <3>. SUFFICES ASSUME queue[i].op = "register"
                  PROVE  queue[i].call # c /\ (queue[i].page = call[c].page => queue[i].call < c)
      BY <1>1, <1>2, <2>1, <2>2 DEF QueuePair
    <3>1. /\ queue[i].call \in Calls /\ call[queue[i].call].at \in {"queued", "late"}
          /\ call[queue[i].call].page = queue[i].page
      BY <2>1 DEF QueueJob
    <3>2. queue[i].call # c
      BY <1>0, <3>1
    <3>3. ASSUME c < queue[i].call, queue[i].page = call[c].page PROVE FALSE
      <4>1. InOrder(c, queue[i].call)
        BY <3>1, <3>3 DEF Structure, CallInv
      <4>. QED
        BY <1>0, <3>1, <3>3, <4>1 DEF InOrder
    <3>. QED
      BY <3>1, <3>2, <3>3, Nones
  <2>3. CASE j # n
    <3>1. j \in DOMAIN queue /\ queue'[j] = queue[j] /\ QueuePair(i, j)
      BY <1>0, <1>2, <2>1, <2>3, QueueParts
    <3>. QED
      BY <2>1, <3>1 DEF QueuePair
  <2>. QED
    BY <2>2, <2>3
<1>5. \A x \in Calls : QueueCall(x)'
  <2>. SUFFICES ASSUME NEW x \in Calls PROVE QueueCall(x)'
    OBVIOUS
  <2>1. CASE x = c
    BY <1>1, <1>2, <2>1 DEF QueueCall, Registers
  <2>2. CASE x # c
    <3>1. call'[x] = call[x] /\ QueueCall(x)
      BY <1>0, <2>2, QueueParts DEF OnlyCall
    <3>. QED
      BY <1>2, <3>1 DEF QueueCall, Registers
  <2>. QED
    BY <2>1, <2>2
<1>. QED
  BY <1>3, <1>4, <1>5, QueuePartsNext

\* The first job leaves the queue.
LEMMA QueueMoves ==
  ASSUME Structure, queue # <<>>, queue' = Tail(queue),
         \A x \in Calls : call'[x].page = call[x].page,
         \A x \in Calls : ~(Job.op = "register" /\ x = Job.call) => call'[x] = call[x],
         Job.op = "register" => call'[Job.call].at # "queued"
  PROVE  QueueInv'
<1>0. /\ QueueInv /\ Job = queue[1] /\ 1 \in DOMAIN queue /\ queue \in Seq(Jobs)
      /\ Tail(queue) \in Seq(Jobs) /\ Len(queue) \in Nat \ {0}
      /\ Len(Tail(queue)) = Len(queue) - 1
      /\ \A i \in DOMAIN Tail(queue) : i + 1 \in DOMAIN queue /\ Tail(queue)[i] = queue[i + 1]
  BY Typed, JobTyped DEF Structure, Job
<1>1. /\ DOMAIN queue = 1 .. Len(queue) /\ DOMAIN queue' = 1 .. Len(queue) - 1
      /\ \A i \in DOMAIN queue' : i \in Nat /\ 1 < i + 1 /\ i + 1 \in DOMAIN queue
                                  /\ queue'[i] = queue[i + 1]
  BY <1>0
<1>2. \A i \in DOMAIN queue' : QueueJob(i)'
  <2>. SUFFICES ASSUME NEW i \in DOMAIN queue', queue'[i].op = "register"
                PROVE  /\ queue'[i].call \in Calls
                       /\ call'[queue'[i].call].at \in {"queued", "late"}
                       /\ call'[queue'[i].call].page = queue'[i].page
    BY DEF QueueJob
  <2>. DEFINE k == i + 1
  <2>1. k \in DOMAIN queue /\ 1 < k /\ queue'[i] = queue[k]
    BY <1>1
  <2>. HIDE DEF k
  <2>2. QueueJob(k) /\ QueuePair(1, k)
    BY <1>0, <2>1, QueueParts
  <2>3. ~(Job.op = "register" /\ queue[k].call = Job.call)
    BY <1>0, <2>1, <2>2 DEF QueuePair
  <2>. QED
    BY <2>1, <2>2, <2>3 DEF QueueJob
<1>3. \A i, j \in DOMAIN queue' : i < j => QueuePair(i, j)'
  <2>. SUFFICES ASSUME NEW i \in DOMAIN queue', NEW j \in DOMAIN queue', i < j
                PROVE  QueuePair(i, j)'
    OBVIOUS
  <2>1. i + 1 < j + 1 /\ i + 1 \in DOMAIN queue /\ j + 1 \in DOMAIN queue
    BY <1>1
  <2>2. QueuePair(i + 1, j + 1)
    BY <1>0, <2>1, QueueParts
  <2>. QED
    BY <1>1, <2>2 DEF QueuePair
<1>4. \A x \in Calls : QueueCall(x)'
  <2>. SUFFICES ASSUME NEW x \in Calls, call'[x].at = "queued"
                PROVE  \E i \in DOMAIN queue' : queue'[i].op = "register" /\ queue'[i].call = x
    BY DEF QueueCall, Registers
  <2>1. ~(Job.op = "register" /\ x = Job.call) /\ call[x].at = "queued"
    OBVIOUS
  <2>2. PICK k \in DOMAIN queue : queue[k].op = "register" /\ queue[k].call = x
    BY <1>0, <2>1, QueueParts DEF QueueCall, Registers
  <2>3. k # 1
    BY <1>0, <2>1, <2>2
  <2>4. k - 1 \in DOMAIN queue' /\ (k - 1) + 1 = k
    BY <1>1, <2>3
  <2>. QED
    BY <1>1, <2>2, <2>4
<1>. QED
  BY <1>2, <1>3, <1>4, QueuePartsNext

\* The queue, next.
LEMMA QueueInvNext == ASSUME IInv, [Next]_vars PROVE QueueInv'
<1>0. Structure /\ TypeOK /\ QueueInv /\ queue \in Seq(Jobs)
  BY Typed DEF IInv, Structure
<1>1. Views \/ Worker \/ Serving \/ Dies \/ UNCHANGED vars
  BY <1>0, Steps
<1>2. CASE Opening
  <2>1. queue' = queue
    BY <1>2 DEF Opening, sw
  <2>2. PICK p \in Pages : Keyless(p) \/ \E c \in Calls, k \in Kinds : Begun(c, p, k)
    BY <1>2 DEF Opening
  <2>3. CASE Keyless(p)
    BY <1>0, <2>1, <2>3, QueueSame DEF Keyless
  <2>4. CASE \E c \in Calls, k \in Kinds : Begun(c, p, k)
    <3>1. PICK c \in Calls, k \in Kinds : Begun(c, p, k)
      BY <2>4
    <3>2. \A x \in Calls : /\ x # c => call'[x].page = call[x].page /\ call'[x].at = call[x].at
                           /\ x = c => call[x].at = "free" /\ call'[x].at = "ensure"
      BY <3>1 DEF Begun, SameCall
    <3>3. \A i \in DOMAIN queue' : QueueJob(i)'
      BY <1>0, <2>1, <3>2, QueueParts DEF QueueJob
    <3>4. \A i, j \in DOMAIN queue' : i < j => QueuePair(i, j)'
      BY <1>0, <2>1, QueueParts DEF QueuePair
    <3>5. \A x \in Calls : QueueCall(x)'
      BY <1>0, <2>1, <3>2, QueueParts DEF QueueCall, Registers
    <3>. QED
      BY <3>3, <3>4, <3>5, QueuePartsNext
  <2>. QED
    BY <2>2, <2>3, <2>4
<1>3. CASE Leaving
  <2>1. PICK p \in Pages : Left(p)
    BY <1>3 DEF Leaving
  <2>2. \A x \in Calls : call'[x].page = call[x].page /\ call'[x].at = call[x].at
    BY <2>1 DEF Left
  <2>. QED
    BY <1>0, <2>1, <2>2, QueueSame, QueueReleases DEF Left
<1>4. CASE Closing
  <2>1. PICK p \in Pages : Closed(p)
    BY <1>4 DEF Closing
  <2>2. queue' = queue
    BY <1>4 DEF Closing, sw
  <2>3. \A x \in Calls : /\ call'[x].page = call[x].page
                         /\ call[x].at \in {"queued", "late"} => call'[x].at \in {"queued", "late"}
                         /\ call'[x].at = "queued" => call[x].at = "queued"
    BY <2>1 DEF Closed
  <2>. QED
    BY <1>0, <2>2, <2>3, QueueSame
<1>5. CASE Reloading
  <2>1. PICK p \in Pages : Reloaded(p)
    BY <1>5 DEF Reloading
  <2>2. queue' = queue
    BY <1>5 DEF Reloading, sw
  <2>3. \A x \in Calls : call[x].page = p => call[x].at \notin {"queued", "late"}
    BY <1>0, <2>1 DEF Structure, PageInv, Reloaded
  <2>4. \A x \in Calls : /\ call'[x].page = call[x].page
                         /\ call[x].at \in {"queued", "late"} => call'[x].at \in {"queued", "late"}
                         /\ call'[x].at = "queued" => call[x].at = "queued"
    BY <2>1, <2>3 DEF Reloaded
  <2>. QED
    BY <1>0, <2>2, <2>4, QueueSame
<1>6. CASE Failing
  <2>1. PICK c \in Calls : Fails(c) /\ call[c].at \in {"ensure", "nack", "lost", "queued"}
    BY <1>6 DEF Failing
  <2>2. queue' = queue
    BY <1>6 DEF Failing, sw
  <2>3. \A x \in Calls : /\ call'[x].page = call[x].page
                         /\ call[x].at \in {"queued", "late"} => call'[x].at \in {"queued", "late"}
                         /\ call'[x].at = "queued" => call[x].at = "queued"
    BY <2>1 DEF Fails, OnlyCall
  <2>. QED
    BY <1>0, <2>2, <2>3, QueueSame
<1>7. CASE Posting
  <2>1. PICK c \in Calls : Posts(c)
    BY <1>7 DEF Posting
  <2>2. CASE call'[c].at = "queued"
    BY <1>0, <2>1, <2>2, QueueRegisters
  <2>3. CASE call'[c].at # "queued"
    <3>1. queue' = queue
      BY <2>1, <2>3 DEF Posts
    <3>2. \A x \in Calls : /\ call'[x].page = call[x].page
                           /\ call[x].at \in {"queued", "late"} => call'[x].at \in {"queued", "late"}
                           /\ call'[x].at = "queued" => call[x].at = "queued"
      BY <2>1, <2>3 DEF Posts, OnlyCall
    <3>. QED
      BY <1>0, <3>1, <3>2, QueueSame
  <2>. QED
    BY <2>2, <2>3
<1>8. CASE Acking
  <2>1. PICK c \in Calls : Acks(c)
    BY <1>8 DEF Acking
  <2>2. \A x \in Calls : /\ call'[x].page = call[x].page
                         /\ call[x].at \in {"queued", "late"} => call'[x].at \in {"queued", "late"}
                         /\ call'[x].at = "queued" => call[x].at = "queued"
    BY <2>1 DEF Acks, OnlyCall
  <2>3. queue' = queue \/ (call[c].page \in Pages /\ queue' = Append(queue, Release(call[c].page)))
    BY <2>1 DEF Acks, AckLands, AckDrops
  <2>. QED
    BY <1>0, <2>2, <2>3, QueueSame, QueueReleases
<1>9. CASE Writes
  <2>1. queue # <<>> /\ queue' = Tail(queue)
    BY <1>9 DEF Writes
  <2>2. \A x \in Calls : call'[x].page = call[x].page
    BY <1>9 DEF Writes
  <2>3. \A x \in Calls : ~(Job.op = "register" /\ x = Job.call) => call'[x] = call[x]
    BY <1>9 DEF Writes
  <2>4. Job.op = "register" => call'[Job.call].at # "queued"
    BY <1>0, <1>9, <2>1, JobIdle DEF Writes
  <2>. QED
    BY <1>0, <2>1, <2>2, <2>3, <2>4, QueueMoves
<1>10. CASE Dies
  <2>1. queue' = <<>> /\ \A x \in Calls : call'[x].at # "queued"
    BY <1>10 DEF Dies
  <2>. QED
    BY <2>1 DEF QueueInv
<1>11. CASE Starting \/ Misreading
  <2>1. call' = call /\ queue # <<>>
    BY <1>11 DEF Starting, Misreading, Reads, Misreads, Starts
  <2>2. CASE queue' = queue
    BY <1>0, <2>1, <2>2, QueueSame
  <2>3. CASE queue' # queue
    <3>1. Job.op # "register" /\ queue' = Tail(queue)
      BY <1>11, <2>3 DEF Starting, Misreading, Reads, Misreads, Starts
    <3>. QED
      BY <1>0, <2>1, <3>1, QueueMoves
  <2>. QED
    BY <2>2, <2>3
<1>12. CASE Loading \/ Prunes \/ Serving \/ UNCHANGED vars
  <2>1. call' = call
    BY <1>0, <1>12, AsideStep DEF Aside
  <2>2. queue' = queue
    BY <1>12 DEF Serving, DlTaking, DlLoading, DlFinding, Negotiating, DlWriting, Ending,
       DlTakes, DlLoads, DlFinds, Negotiates, Overs, DlWrites, Loading, Loads, Prunes, vars, sw
  <2>. QED
    BY <1>0, <2>1, <2>2, QueueSame
<1>. QED
  BY <1>1, <1>2, <1>3, <1>4, <1>5, <1>6, <1>7, <1>8, <1>9, <1>10, <1>11, <1>12 DEF Views, Worker

-----------------------------------------------------------------------------
(* The job at work, and the downloads. *)

\* A job that could not read its row goes on without.
LEMMA MisreadingIs ==
  ASSUME Misreading
  PROVE  /\ queue # <<>> /\ UNCHANGED <<page, call, registry, store, dl>> /\ InMemory' = InMemory
         /\ head.step = "load"
         /\ IF Job.op = "register"
            THEN /\ "forgot" \in slips' /\ queue' = queue /\ Job' = Job /\ InHand' = Blank
                 /\ head'.step = "prune" /\ head'.obj \in Objs /\ head'.row = None
            ELSE "kept" \in slips' /\ queue' = Tail(queue) /\ head' = Idle
  BY DEF Misreading, Misreads, Starts, Job

\* What is queued stays where it is.
Grows == /\ DOMAIN queue \subseteq DOMAIN queue' /\ \A i \in DOMAIN queue : queue'[i] = queue[i]
         /\ queue # <<>> => queue' # <<>> /\ Job' = Job

\* The tabs do not touch what the worker holds.
LEMMA ViewsEntry ==
  ASSUME Structure, Views
  PROVE  /\ UNCHANGED <<head, registry, heap, store>> /\ InHand' = InHand /\ InMemory' = InMemory
         /\ Grows
<1>0. queue \in Seq(Jobs)
  BY Typed DEF Structure
<1>1. UNCHANGED <<head, registry, heap, store>> /\ InHand' = InHand /\ InMemory' = InMemory
  BY DEF Views, Opening, Leaving, Closing, Reloading, Failing, Posting, Acking, sw, Entry,
         InHand, InMemory
<1>2. queue' = queue \/ \E j \in Jobs : queue' = Append(queue, j)
  <2>1. CASE Opening \/ Closing \/ Reloading \/ Failing
    BY <2>1 DEF Opening, Closing, Reloading, Failing, sw
  <2>2. CASE Leaving
    BY <2>2 DEF Leaving, Left, Release, Jobs
  <2>3. CASE Posting
    BY <2>3 DEF Posting, Posts, Jobs
  <2>4. CASE Acking
    BY <2>4 DEF Acking, Acks, AckLands, AckDrops, Release, Jobs
  <2>. QED
    BY <2>1, <2>2, <2>3, <2>4 DEF Views
<1>3. CASE queue' = queue
  BY <1>1, <1>3 DEF Grows, Job
<1>4. ASSUME NEW j \in Jobs, queue' = Append(queue, j) PROVE Grows
  BY <1>0, <1>4, Appended DEF Grows
<1>. QED
  BY <1>1, <1>2, <1>3, <1>4

\* Nor do the downloads touch the queue.
LEMMA ServingQueue ==
  ASSUME Structure, Serving
  PROVE  /\ UNCHANGED <<queue, head, call>> /\ Job' = Job
         /\ head.obj # None => InHand' = InHand \/ InHand' = Resumed(InHand)
<1>1. UNCHANGED <<queue, head, call>> /\ (InHand' = InHand \/ InHand' = Resumed(InHand))
  BY DEF Serving, DlTaking, DlLoading, DlFinding, Negotiating, DlWriting, Ending, DlTakes, DlLoads,
     DlFinds, Negotiates, Overs, DlWrites, sw, InHand
<1>. QED
  BY <1>1 DEF Job

\* The job at work, next.
LEMMA HeadInvNext == ASSUME IInv, [Next]_vars PROVE HeadInv'
<1>0. Structure /\ HeadInv /\ TypeOK
  BY DEF IInv, Structure
<1>1. Views \/ Worker \/ Serving \/ Dies \/ UNCHANGED vars
  BY <1>0, Steps
<1>2. CASE Views
  BY <1>0, <1>2, ViewsEntry DEF HeadInv, Grows
<1>3. CASE Loading
  BY <1>3 DEF HeadInv, Loading, Loads
<1>4. CASE Starting
  BY <1>4, Nones DEF HeadInv, Starting, Reads, Starts, Idle
<1>5. CASE Prunes
  <2>1. PICK k : PrunesTo(k)
    BY <1>5 DEF Prunes
  <2>2. Job \in Jobs /\ Job' = Job /\ None \notin Objs
    BY <1>0, <1>5, JobTyped, Nones DEF Prunes, Job
  <2>. QED
    BY <1>5, <2>1, <2>2 DEF HeadInv, Prunes, PrunesTo, Jobs
<1>6. CASE Writes \/ Dies
  BY <1>6 DEF HeadInv, Writes, Dies, Idle
<1>7. CASE Serving
  <2>1. head.obj # None => InHand' = InHand \/ InHand' = Resumed(InHand)
    BY <1>0, <1>7, ServingQueue
  <2>2. head.obj # None => InHand'.clients = InHand.clients
    <3>1. head.obj # None => InHand \in Entries
      BY <1>0, Typed DEF InHand, HeadRecs
    <3>. QED
      BY <2>1, <3>1 DEF Resumed, Entries
  <2>. QED
    BY <1>0, <1>7, <2>2, ServingQueue DEF HeadInv
<1>8. CASE UNCHANGED vars
  BY <1>0, <1>8 DEF HeadInv, vars, sw, Job, InHand
<1>9. CASE Misreading
  BY <1>9, Nones, MisreadingIs DEF HeadInv, Idle
<1>. QED
  BY <1>1, <1>2, <1>3, <1>4, <1>5, <1>6, <1>7, <1>8, <1>9 DEF Worker

\* One download.
DlOwn(c) == /\ dl[c].obj # None <=> dl[c].at \in {"nego", "write"}
            /\ dl[c].at = "write" => heap[dl[c].obj].resume
            /\ dl[c].page # None => Mounted(dl[c].page)

\* The downloads, next.
LEMMA DlInvNext == ASSUME IInv, [Next]_vars PROVE DlInv'
<1>. SUFFICES ASSUME NEW x \in Calls PROVE DlOwn(x)'
  BY DEF DlInv, DlOwn
<1>0. /\ Structure /\ TypeOK /\ DlOwn(x) /\ Resumes /\ dl[x] \in DlRecs /\ CallOwn(x)
      /\ None \notin Objs /\ None \notin Pages
  BY Steps, Typed, Nones DEF IInv, Structure, DlInv, DlOwn, CallInv
<1>1. Views \/ Worker \/ Serving \/ Dies \/ UNCHANGED vars
  BY <1>0, Steps
<1>r. dl[x].at = "write" /\ dl'[x].obj = dl[x].obj => heap'[dl[x].obj].resume
  BY <1>0 DEF DlOwn, Resumes, DlRecs
<1>2. CASE Opening
  <2>1. dl' = dl /\ \A p \in Pages : Mounted(p) => Mounted(p)'
    BY <1>2 DEF Opening, Keyless, Begun, Mounted, OnlyPage
  <2>. QED
    BY <1>0, <1>r, <2>1 DEF DlOwn, DlRecs
<1>3. CASE Leaving \/ Closing \/ Reloading
  <2>1. PICK p \in Pages : OnlyPage(p) /\ Orphaned(p)
    BY <1>3 DEF Leaving, Left, Closing, Closed, Reloading, Reloaded
  <2>. QED
    BY <1>0, <1>r, <2>1 DEF DlOwn, OnlyPage, Orphaned, Mounted, DlRecs
<1>4. CASE Failing \/ Posting
  <2>1. dl' = dl /\ \A p \in Pages : Mounted(p) => Mounted(p)'
    BY <1>4 DEF Failing, Fails, Posting, Posts, Mounted, OnlyPage
  <2>. QED
    BY <1>0, <1>r, <2>1 DEF DlOwn, DlRecs
<1>5. CASE Acking
  <2>1. PICK c \in Calls : Acks(c)
    BY <1>5 DEF Acking
  <2>2. Live(c) => Mounted(call[c].page)
    BY <1>0 DEF Structure, CallInv, CallOwn
  <2>3. \A p \in Pages : Mounted(p) => Mounted(p)'
    BY <2>1 DEF Acks, AckLands, AckDrops, Mounted, OnlyPage
  <2>4. CASE dl'[x] = dl[x]
    BY <1>0, <1>r, <2>3, <2>4 DEF DlOwn, DlRecs
  <2>5. CASE dl'[x] # dl[x]
    <3>1. x = c /\ Live(c) /\ dl'[x].at = "request" /\ dl'[x].page = call[c].page /\ dl'[x].obj = None
      BY <2>1, <2>5 DEF Acks, AckLands, AckDrops, OnlyDl
    <3>. QED
      BY <2>1, <2>2, <2>3, <3>1 DEF DlOwn, Acks
  <2>. QED
    BY <2>4, <2>5
<1>6. CASE Worker \/ UNCHANGED vars
  <2>1. dl' = dl /\ page' = page
    BY <1>6 DEF Worker, Loading, Starting, Misreading, Prunes, Writes, vars
  <2>. QED
    BY <1>0, <1>r, <2>1 DEF DlOwn, Mounted
<1>7. CASE Dies
  BY <1>0, <1>r, <1>7 DEF Dies, DlOwn, Mounted, Running
<1>8. CASE Serving
  <2>1. \A p \in Pages : page'[p].at = page[p].at
    BY <1>0, <1>8, AsideStep DEF Aside
  <2>2. CASE dl'[x] = dl[x]
    BY <1>0, <1>r, <2>1, <2>2 DEF DlOwn, Mounted, DlRecs
  <2>3. CASE dl'[x] # dl[x]
    <3>1. \/ DlTakes(x) \/ DlLoads(x) \/ Negotiates(x) \/ DlWrites(x)
          \/ Answers(x, "keyless") \/ Answers(x, "over")
      BY <1>8, <2>3 DEF Serving, DlTaking, DlLoading, DlFinding, Negotiating, DlWriting, Ending,
         DlTakes, DlLoads, DlFinds, Negotiates, Overs, DlWrites, Answers, OnlyDl
    <3>2. Negotiates(x) => heap'[dl'[x].obj].resume
      BY DEF Negotiates, Obtained
    <3>. QED
      BY <1>0, <2>1, <3>1, <3>2, Typed DEF DlOwn, Mounted, DlRecs, DlTakes, DlLoads, Negotiates,
         DlWrites, Answers
  <2>. QED
    BY <2>2, <2>3
<1>. QED
  BY <1>1, <1>2, <1>3, <1>4, <1>5, <1>6, <1>7, <1>8 DEF Views

-----------------------------------------------------------------------------
(* What the handshakes of earlier views may still do. *)

\* Slips are not undone.
LEMMA SlipsGrow == ASSUME Structure, [Next]_vars PROVE slips \subseteq slips'
<1>1. Views \/ Worker \/ Serving \/ Dies \/ UNCHANGED vars
  BY Steps
<1>2. CASE Views
  BY <1>2 DEF Views, Opening, Leaving, Closing, Reloading, Failing, Posting, Acking, Acks, AckLands, AckDrops
<1>3. CASE Worker \/ Dies \/ UNCHANGED vars
  BY <1>3 DEF Worker, Loading, Starting, Misreading, Reads, Misreads, Prunes, PrunesTo, Writes, Dies,
     vars
<1>4. CASE Serving
  BY <1>4 DEF Serving, DlTaking, DlLoading, DlFinding, Negotiating, DlWriting, Ending, DlTakes,
     DlLoads, DlFinds, Negotiates, Overs, DlWrites
<1>. QED
  BY <1>1, <1>2, <1>3, <1>4

\* What the jobs behind the first become when it leaves.
LEMMA TailJobs ==
  ASSUME queue \in Seq(Jobs), queue # <<>>, queue' = Tail(queue), NEW i, NEW c
  PROVE  /\ Registers(i, c)' => i \in Nat /\ Registers(i + 1, c)
         /\ Releases(i, c)' => i \in Nat /\ Releases(i + 1, c)
         /\ Registers(i, c) /\ i > 1 => Registers(i - 1, c)'
         /\ Releases(i, c) /\ i > 1 => Releases(i - 1, c)'
<1>1. /\ Len(queue) \in Nat \ {0} /\ DOMAIN queue = 1 .. Len(queue)
      /\ DOMAIN queue' = 1 .. Len(queue) - 1
      /\ \A k \in DOMAIN queue' : k + 1 \in DOMAIN queue /\ queue'[k] = queue[k + 1]
  OBVIOUS
<1>2. i \in DOMAIN queue' => i \in Nat /\ i + 1 \in DOMAIN queue /\ queue'[i] = queue[i + 1]
  BY <1>1
<1>3. i \in DOMAIN queue /\ i > 1 => i - 1 \in DOMAIN queue' /\ queue'[i - 1] = queue[i]
  <2>. SUFFICES ASSUME i \in DOMAIN queue, i > 1
                PROVE  i - 1 \in DOMAIN queue' /\ queue'[i - 1] = queue[i]
    OBVIOUS
  <2>1. i - 1 \in DOMAIN queue' /\ (i - 1) + 1 = i
    BY <1>1
  <2>. QED
    BY <1>1, <2>1
<1>. QED
  BY <1>2, <1>3 DEF Registers, Releases

\* No handshake is left behind but by a view that leaves.
LEMMA DueNext ==
  ASSUME IInv, [Next]_vars, NEW x \in Calls, Due(x)'
  PROVE  /\ call'[x].page = call[x].page
         /\ Due(x) \/ \E p \in Pages : Left(p) /\ call[x].page = p
<1>0. Structure /\ CallOwn(x) /\ call[x] \in CallRecs
  BY Typed DEF IInv, Structure, CallInv
<1>1. Views \/ Worker \/ Serving \/ Dies \/ UNCHANGED vars
  BY <1>0, Steps
<1>2. CASE Opening \/ Leaving \/ Closing \/ Reloading
  BY <1>0, <1>2 DEF Opening, Keyless, Begun, SameCall, Leaving, Left, Closing, Closed, Reloading,
     Reloaded, Due, Live
<1>3. CASE Failing \/ Posting \/ Acking
  BY <1>0, <1>3 DEF Failing, Fails, Posting, Posts, Acking, Acks, OnlyCall, Due, Live
<1>4. CASE Writes \/ Dies
  BY <1>0, <1>4 DEF Writes, Dies, Due, Live
<1>5. CASE Loading \/ Starting \/ Misreading \/ Prunes \/ Serving \/ UNCHANGED vars
  BY <1>0, <1>5, AsideStep DEF Aside, Due, Live
<1>. QED
  BY <1>1, <1>2, <1>3, <1>4, <1>5 DEF Views, Worker

\* A click is served to the view that is there, once acknowledged.
LEMMA ClickedNext ==
  ASSUME IInv, [Next]_vars, NEW p \in Pages, Clicked(p)'
  PROVE  Clicked(p) \/ \E c \in Calls : Acks(c) /\ AckLands(c) /\ call[c].page = p
<1>0. Structure /\ None \notin Pages
  BY Nones DEF IInv, Structure
<1>1. Views \/ Worker \/ Serving \/ Dies \/ UNCHANGED vars
  BY <1>0, Steps
<1>2. CASE Opening
  BY <1>2 DEF Opening, Keyless, Begun, SameCall, SameTab, OnlyPage, Clicked, Live
<1>3. CASE Leaving \/ Closing \/ Reloading
  BY <1>0, <1>3 DEF Leaving, Left, Closing, Closed, Reloading, Reloaded, ClearTab, OnlyPage, Orphaned,
     Clicked, Live
<1>4. CASE Failing
  BY <1>4 DEF Failing, Fails, OnlyCall, OnlyPage, SameTab, Clicked, Live
<1>5. CASE Posting
  BY <1>5 DEF Posting, Posts, OnlyCall, OnlyPage, Clicked, Live
<1>6. CASE Acking
  BY <1>6 DEF Acking, Acks, AckLands, AckDrops, OnlyCall, OnlyPage, OnlyDl, Clicked, Live
<1>7. CASE Writes
  BY <1>7 DEF Writes, Clicked, Live
<1>8. CASE Dies
  BY <1>8 DEF Dies, Clicked, Live
<1>9. CASE Loading \/ Starting \/ Misreading \/ Prunes \/ UNCHANGED vars
  BY <1>9 DEF Loading, Starting, Misreading, Prunes, vars, Clicked, Live
<1>10. CASE Serving
  <2>1. call' = call
    BY <1>0, <1>10, ServingQueue
  <2>2. \A c \in Calls : dl'[c].page = p => dl[c].page = p
    BY <1>0, <1>10 DEF Serving, DlTaking, DlLoading, DlFinding, Negotiating, DlWriting, Ending,
       DlTakes, DlLoads, DlFinds, Negotiates, Overs, DlWrites, OnlyDl, Answers
  <2>3. page' = page \/ \E c \in Calls : Notes(c)
    BY <1>10 DEF Serving, DlTaking, DlLoading, DlFinding, Negotiating, DlWriting, Ending,
       DlTakes, DlLoads, DlFinds, Negotiates, DlWrites
  <2>4. /\ page'[p].at = page[p].at
        /\ page'[p].broken => page[p].broken \/ \E c \in Calls : dl[c].page = p
    BY <1>0, <2>3, NoteStep
  <2>. QED
    BY <2>1, <2>2, <2>4 DEF Clicked, Live
<1>. QED
  BY <1>1, <1>2, <1>3, <1>4, <1>5, <1>6, <1>7, <1>8, <1>9, <1>10 DEF Views, Worker

\* No earlier view has a handshake left in a tab that was served a click.
LEMMA ClickedDue ==
  ASSUME IInv, [Next]_vars, NEW p \in Pages, Clicked(p)', NEW x \in Calls, call'[x].page = p
  PROVE  ~Due(x)'
<1>. SUFFICES ASSUME Due(x)' PROVE FALSE
  OBVIOUS
<1>0. call[x].page = p /\ (Due(x) \/ Left(p)) /\ None \notin Pages
  BY DueNext, Nones
<1>1. CASE Left(p)
  BY <1>0, <1>1 DEF Left, Clicked, ClearTab, Orphaned, Live
<1>2. CASE Due(x)
  <2>1. CASE Clicked(p)
    BY <1>0, <1>2, <2>1 DEF IInv, AgainInv
  <2>2. CASE ~Clicked(p)
    <3>1. PICK c \in Calls : Acks(c) /\ AckLands(c) /\ call[c].page = p
      BY <2>2, ClickedNext
    <3>2. x # c /\ call[c].at = "ack" /\ Live(c)
      BY <1>2, <3>1 DEF Acks, AckLands, Due
    <3>3. CASE x < c
      <4>1. InOrder(x, c)
        BY <3>3 DEF IInv, CallInv
      <4>. QED
        BY <1>0, <1>2, <3>1, <3>2, <3>3, <4>1 DEF InOrder, Acks, Due
    <3>4. CASE c < x
      <4>1. InOrder(c, x)
        BY <3>4 DEF IInv, CallInv
      <4>. QED
        BY <1>0, <1>2, <3>1, <3>2, <4>1 DEF InOrder
    <3>. QED
      BY <3>2, <3>3, <3>4, Nones
  <2>. QED
    BY <2>1, <2>2
<1>. QED
  BY <1>0, <1>1, <1>2

\* The releases of the tab are ahead of a registration that it waits for.
Awaited(c) == Live(c) /\ call[c].at = "queued" /\ ("again" \notin slips \/ call[c].kind = "click")
Behind(c)  == \A i, j \in DOMAIN queue : Registers(i, c) /\ Releases(j, call[c].page) => j < i

\* They stay ahead, and no release comes behind.
LEMMA BehindNext ==
  ASSUME IInv, [Next]_vars, NEW x \in Calls, Awaited(x)'
  PROVE  Behind(x)'
<1>0. /\ Structure /\ CallOwn(x) /\ queue \in Seq(Jobs) /\ slips \subseteq slips'
      /\ Awaited(x) => Behind(x)
  BY Typed, SlipsGrow DEF IInv, Structure, CallInv, AgainInv, Awaited, Behind
<1>1. Views \/ Worker \/ Serving \/ Dies \/ UNCHANGED vars
  BY <1>0, Steps
<1>2. ASSUME Awaited(x), queue' = queue, call'[x].page = call[x].page PROVE Behind(x)'
  BY <1>0, <1>2 DEF Behind, Registers, Releases
<1>3. ASSUME Awaited(x), queue # <<>>, queue' = Tail(queue), call'[x].page = call[x].page
      PROVE  Behind(x)'
  <2>. SUFFICES ASSUME NEW i, NEW j, Registers(i, x)', Releases(j, call[x].page)'
                PROVE  j < i
    BY <1>3 DEF Behind, Releases
  <2>1. i \in Nat /\ Registers(i + 1, x) /\ j \in Nat /\ Releases(j + 1, call[x].page)
    BY <1>0, <1>3, TailJobs
  <2>2. i + 1 \in DOMAIN queue /\ j + 1 \in DOMAIN queue
    BY <2>1 DEF Registers, Releases
  <2>3. j + 1 < i + 1
    BY <1>0, <1>3, <2>1, <2>2 DEF Behind
  <2>. QED
    BY <2>1, <2>3
<1>4. ASSUME Awaited(x), call'[x].page = call[x].page, NEW p \in Pages, p # call[x].page,
             queue' = Append(queue, Release(p))
      PROVE  Behind(x)'
  <2>. DEFINE n == Len(queue) + 1
              r == Release(p)
  <2>1. r \in Jobs /\ r.op = "release" /\ r.page = p
    BY DEF Release, Jobs
  <2>. HIDE DEF r
  <2>2. /\ n \in Nat \ {0} /\ DOMAIN queue = 1 .. n - 1 /\ DOMAIN queue' = 1 .. n
        /\ \A i \in DOMAIN queue : queue'[i] = queue[i]
        /\ queue'[n] = r
    BY <1>0, <1>4, <2>1, Appended DEF r
  <2>. HIDE DEF n
  <2>. QED
    BY <1>0, <1>4, <2>1, <2>2 DEF Behind, Registers, Releases
<1>5. CASE Opening
  BY <1>2, <1>5 DEF Opening, sw, Keyless, Begun, SameCall, Awaited, Live
<1>6. CASE Leaving
  BY <1>2, <1>4, <1>6 DEF Leaving, Left, Awaited, Live
<1>7. CASE Closing \/ Reloading
  BY <1>2, <1>7 DEF Closing, Closed, Reloading, Reloaded, sw, Awaited, Live
<1>8. CASE Failing
  BY <1>0, <1>2, <1>8 DEF Failing, Fails, OnlyCall, sw, Awaited, Live
<1>9. CASE Posting
  <2>1. PICK c \in Calls : Posts(c) /\ slips' = slips
    BY <1>9 DEF Posting
  <2>. DEFINE n == Len(queue) + 1
              r == [op |-> "register", page |-> call[c].page, call |-> c]
  <2>2. CASE queue' = queue
    <3>1. x # c
      BY <2>1, <2>2, Appended DEF Posts, Awaited, Jobs
    <3>. QED
      BY <1>2, <2>1, <2>2, <3>1 DEF Posts, OnlyCall, Awaited, Live
  <2>3. CASE queue' # queue
    <3>1. r \in Jobs /\ r.op = "register" /\ r.call = c /\ queue' = Append(queue, r)
      BY <2>1, <2>3 DEF Jobs, Posts
    <3>. HIDE DEF r
    <3>2. /\ n \in Nat \ {0} /\ DOMAIN queue = 1 .. n - 1 /\ DOMAIN queue' = 1 .. n
          /\ \A i \in DOMAIN queue : queue'[i] = queue[i]
          /\ queue'[n] = r
      BY <1>0, <3>1, Appended
    <3>. HIDE DEF n
    <3>3. call'[x].page = call[x].page /\ (x # c => Awaited(x))
      BY <2>1 DEF Posts, OnlyCall, Awaited, Live
    <3>4. CASE x # c
      BY <1>0, <3>1, <3>2, <3>3, <3>4 DEF Behind, Registers, Releases
    <3>5. CASE x = c
      <4>1. \A i \in DOMAIN queue : ~Registers(i, c)
        BY <1>0, <2>1 DEF Posts, Structure, QueueInv, Registers
      <4>. QED
        BY <1>0, <3>1, <3>2, <3>5, <4>1 DEF Behind, Registers, Releases
    <3>. QED
      BY <3>4, <3>5
  <2>. QED
    BY <2>2, <2>3
<1>10. CASE Acking
  <2>1. PICK c \in Calls : Acks(c)
    BY <1>10 DEF Acking
  <2>2. x # c /\ call'[x] = call[x] /\ Awaited(x)
    BY <1>0, <2>1 DEF Acks, OnlyCall, Awaited, Live
  <2>3. CASE queue' = queue
    BY <1>2, <2>2, <2>3
  <2>4. CASE queue' # queue
    <3>1. /\ ~Live(c) /\ queue' = Append(queue, Release(call[c].page)) /\ call[c].page \in Pages
          /\ slips' = IF Mounted(call[c].page) THEN slips \cup {"again"} ELSE slips
      BY <2>1, <2>4 DEF Acks, AckLands, AckDrops
    <3>2. Due(c)
      BY <2>1, <3>1 DEF Acks, Due
    <3>3. call[x].page # call[c].page
      <4>. SUFFICES ASSUME call[x].page = call[c].page PROVE FALSE
        OBVIOUS
      <4>1. Mounted(call[c].page)
        BY <1>0, <2>2 DEF CallOwn, Awaited
      <4>2. call[x].kind = "click"
        BY <2>2, <3>1, <4>1 DEF Awaited
      <4>3. Clicked(call[c].page)
        BY <2>2, <4>2 DEF Clicked, Awaited
      <4>. QED
        BY <3>1, <3>2, <4>3 DEF IInv, AgainInv
    <3>. QED
      BY <1>4, <2>2, <3>1, <3>3
  <2>. QED
    BY <2>3, <2>4
<1>11. CASE Writes
  <2>1. queue # <<>> /\ queue' = Tail(queue)
    BY <1>11 DEF Writes
  <2>2. call'[x] = call[x]
    BY <1>11 DEF Writes, Awaited
  <2>. QED
    BY <1>0, <1>3, <1>11, <2>1, <2>2 DEF Awaited, Live
<1>12. CASE Dies
  BY <1>12 DEF Dies, Awaited
<1>13. CASE Loading \/ Starting \/ Misreading \/ Prunes \/ Serving \/ UNCHANGED vars
  <2>1. call' = call /\ Awaited(x)
    <3>1. call' = call
      BY <1>0, <1>13, AsideStep DEF Aside
    <3>. QED
      BY <1>0, <3>1 DEF Awaited, Live
  <2>2. queue' = queue \/ (queue # <<>> /\ queue' = Tail(queue))
    <3>1. CASE Serving
      BY <1>0, <3>1, ServingQueue
    <3>2. CASE ~Serving
      BY <1>13, <3>2 DEF Loading, Loads, Starting, Misreading, Reads, Misreads, Starts, Prunes, vars, sw
    <3>. QED
      BY <3>1, <3>2
  <2>. QED
    BY <1>2, <1>3, <2>1, <2>2
<1>. QED
  BY <1>1, <1>5, <1>6, <1>7, <1>8, <1>9, <1>10, <1>11, <1>12, <1>13 DEF Views, Worker

\* The handshakes of earlier views, next.
LEMMA AgainInvNext == ASSUME IInv, [Next]_vars PROVE AgainInv'
<1>1. \A p \in Pages : Clicked(p)' => \A x \in Calls : call'[x].page = p => ~Due(x)'
  BY ClickedDue
<1>2. \A c \in Calls : Awaited(c)' => Behind(c)'
  BY BehindNext
<1>. QED
  BY <1>1, <1>2 DEF AgainInv, Awaited, Behind

-----------------------------------------------------------------------------
(* The key is there. *)

\* What has not slipped had not slipped.
LEMMA CleanNext == ASSUME Structure, [Next]_vars, NEW S, Clean(S)' PROVE Clean(S)
  BY SlipsGrow DEF Clean

\* What the job at work has its hand on.
Registry == /\ head.step = "write" \/ (head.step = "prune" /\ Job.op = "release") => registry = head.obj
            /\ head.step = "forget" => registry = None
            /\ head.step = "load" /\ head.row = None => store = None /\ registry = None
            /\ "forgot" \notin slips /\ head.step = "prune" /\ registry = None => store = None

\* The hand of the job at work, next.
LEMMA RegInvNext == ASSUME IInv, [Next]_vars PROVE RegInv'
<1>. SUFFICES ASSUME "stale" \notin slips' PROVE Registry'
  BY DEF RegInv, Registry
<1>0. /\ Structure /\ HeadInv /\ Registry /\ "stale" \notin slips /\ None \notin Objs
      /\ slips \subseteq slips'
      /\ head.step # "idle" => queue # <<>>
      /\ head.step \notin {"idle", "load"} => head.obj \in Objs
  BY SlipsGrow, Nones, Typed DEF IInv, Structure, RegInv, Registry, HeadInv, HeadRecs
<1>1. Views \/ Worker \/ Serving \/ Dies \/ UNCHANGED vars
  BY <1>0, Steps
<1>2. CASE Views
  BY <1>0, <1>2, ViewsEntry DEF Registry, Grows
<1>3. CASE Loading
  BY <1>3 DEF Loading, Loads, Registry
<1>4. CASE Starting
  <2>1. PICK e : /\ Starts(e) /\ store' = store
                 /\ e = None => registry' = registry /\ store = None
    <3>1. CASE head.step = "idle"
      <4>1. registry # None => InMemory # None
        BY Typed, EntriesAssumption DEF InMemory, IInv
      <4>. QED
        BY <1>4, <3>1, <4>1 DEF Starting
    <3>2. CASE head.step # "idle"
      BY <1>0, <1>4, <3>2 DEF Starting, Reads, Registry, Starts
    <3>. QED
      BY <3>1, <3>2
  <2>2. CASE head' = Idle
    BY <2>2 DEF Registry, Idle
  <2>3. CASE head' # Idle
    <3>1. /\ head'.step = "prune" /\ Job' = Job
          /\ Job.op = "register" \/ head'.obj = registry'
      BY <2>1, <2>3 DEF Starts, Job
    <3>. QED
      BY <1>0, <2>1, <3>1 DEF Registry, Starts
  <2>. QED
    BY <2>2, <2>3
<1>5. CASE Prunes
  <2>1. Job \in Jobs /\ Job' = Job
    BY <1>5, JobTyped DEF Prunes, IInv, Job
  <2>2. PICK k : PrunesTo(k)
    BY <1>5 DEF Prunes
  <2>. QED
    BY <1>0, <1>5, <2>1, <2>2 DEF Prunes, PrunesTo, Registry, Jobs
<1>6. CASE Writes \/ Dies
  BY <1>6 DEF Writes, Dies, Registry, Idle
<1>7. CASE Serving
  <2>1. head' = head /\ Job' = Job
    BY <1>0, <1>7, ServingQueue
  <2>2. CASE registry' = registry /\ store' = store
    BY <1>0, <2>1, <2>2 DEF Registry
  <2>3. CASE ~(registry' = registry /\ store' = store)
    <3>1. (\E c \in Calls : DlLoads(c)) \/ (\E c \in Calls : DlWrites(c))
      BY <1>7, <2>3 DEF Serving, DlTaking, DlLoading, DlFinding, Negotiating, DlWriting, Ending,
         DlTakes, DlFinds, Negotiates, Overs, sw
    <3>2. ASSUME NEW c \in Calls, DlLoads(c) PROVE Registry'
      <4>1. /\ registry = None /\ store = dl[c].row /\ dl[c].row # None /\ head.step # "forget"
            /\ registry' \in Objs /\ store' = store
        BY <3>2, EntriesAssumption DEF DlLoads
      <4>. QED
        BY <1>0, <2>1, <4>1 DEF Registry
    <3>3. ASSUME NEW c \in Calls, DlWrites(c) PROVE Registry'
      <4>1. registry' = registry /\ dl[c].obj \in Objs /\ (store' = store \/ registry = dl[c].obj)
        BY <3>3 DEF DlWrites
      <4>. QED
        BY <1>0, <2>1, <4>1 DEF Registry
    <3>. QED
      BY <3>1, <3>2, <3>3
  <2>. QED
    BY <2>2, <2>3
<1>8. CASE UNCHANGED vars
  BY <1>0, <1>8 DEF vars, sw, Registry, Job
<1>9. CASE Misreading
  BY <1>9, MisreadingIs DEF Registry, Idle
<1>. QED
  BY <1>1, <1>2, <1>3, <1>4, <1>5, <1>6, <1>7, <1>8, <1>9 DEF Worker

\* The key that is there for a window stays, unless it is released.
LEMMA HasNext ==
  ASSUME IInv, [Next]_vars, Clean({"stale", "unsaved", "forgot"})', NEW p \in Windows, Has(p),
         \A i \in DOMAIN queue : ~Releases(i, p)
  PROVE  Has(p)'
<1>0. /\ Structure /\ HeadInv /\ None \notin Objs /\ None \notin Entries
      /\ "stale" \notin slips /\ "stale" \notin slips' /\ "unsaved" \notin slips'
      /\ "forgot" \notin slips'
      /\ registry # None => InMemory \in Entries
      /\ head.obj # None => InHand \in Entries
      /\ head.step \notin {"idle", "load"} => head.obj \in Objs
      /\ queue # <<>> => 1 \in DOMAIN queue
  BY SlipsGrow, Nones, Typed, EntriesAssumption, JobTyped
     DEF IInv, Structure, Clean, InMemory, InHand, HeadInv, HeadRecs
<1>1. Views \/ Worker \/ Serving \/ Dies \/ UNCHANGED vars
  BY <1>0, Steps
<1>2. CASE Views
  BY <1>2, <1>0, ViewsEntry DEF Has
<1>3. CASE Loading
  BY <1>3 DEF Loading, Loads, Has
<1>4. CASE Starting
  <2>1. PICK e \in Entries : Starts(e) /\ p \in e.clients /\ store' = store
    <3>1. CASE head.step = "idle"
      BY <1>0, <1>4, <3>1 DEF Starting, Has
    <3>2. CASE head.step # "idle"
      <4>1. head.row # None => head.row \in Entries
        BY Typed DEF HeadRecs, IInv
      <4>. QED
        BY <1>4, <3>2, <4>1 DEF Starting, Reads, Has
    <3>. QED
      BY <3>1, <3>2
  <2>2. CASE Job.op = "register"
    BY <1>0, <2>1, <2>2 DEF Starts, Has
  <2>3. CASE Job.op # "register"
    <3>1. Job.op = "release" /\ Job.page # p /\ Job \in Jobs
      BY <1>0, <2>1, <2>3, JobTyped DEF Starts, Releases, Job, Jobs, IInv
    <3>. QED
      BY <1>0, <2>1, <2>3, <3>1 DEF Starts, Has, Entries
  <2>. QED
    BY <2>2, <2>3
<1>5. CASE Prunes
  <2>0. Job \in Jobs
    BY <1>5, JobTyped DEF Prunes, IInv
  <2>1. PICK k : PrunesTo(k) /\ p \in k
    BY <1>5 DEF Prunes, PrunesTo, Has, Remaining
  <2>2. p \in InHand'.clients /\ registry' = head.obj /\ head'.obj = head.obj /\ head'.step = "write"
    BY <1>0, <1>5, <2>0, <2>1 DEF Prunes, PrunesTo, Jobs, IInv, RegInv
  <2>3. InMemory' = InHand'
    BY <1>0, <1>5, <2>2 DEF InMemory, InHand, Prunes
  <2>. QED
    BY <1>5, <2>2, <2>3 DEF Prunes, Has
<1>6. CASE Writes
  BY <1>0, <1>6 DEF Writes, Has, Idle
<1>7. CASE Dies
  BY <1>0, <1>7 DEF Dies, Has, Idle
<1>8. CASE Serving
  <2>1. head' = head /\ (head.step \in {"prune", "write"} => InHand'.clients = InHand.clients)
    BY <1>0, <1>8, ServingQueue DEF Resumed, Entries
  <2>2. ASSUME registry' = registry, store' = store,
               InMemory' = InMemory \/ InMemory' = Resumed(InMemory)
        PROVE  Has(p)'
    <3>1. registry # None => InMemory'.clients = InMemory.clients
      BY <1>0, <2>2 DEF Resumed, Entries
    <3>. QED
      BY <2>1, <2>2, <3>1 DEF Has
  <2>3. CASE DlTaking \/ DlFinding
    BY <2>2, <2>3 DEF DlTaking, DlFinding, DlTakes, DlFinds, sw, InMemory
  <2>4. CASE Negotiating \/ Ending
    BY <2>2, <2>4 DEF Negotiating, Ending, Negotiates, Overs
  <2>5. CASE DlLoading
    <3>1. PICK c \in Calls : DlLoads(c)
      BY <2>5 DEF DlLoading
    <3>2. store = dl[c].row /\ InMemory' = store /\ store' = store
      BY <1>0, <3>1 DEF DlLoads
    <3>. QED
      BY <2>1, <3>2 DEF Has
  <2>6. CASE DlWriting
    <3>1. PICK c \in Calls : DlWrites(c)
      BY <2>6 DEF DlWriting
    <3>2. store' = Obtained(c) /\ registry = dl[c].obj /\ dl[c].obj \in Objs
      BY <1>0, <3>1 DEF DlWrites
    <3>3. store' = InMemory /\ registry' = registry /\ InMemory' = InMemory /\ registry # None
      BY <1>0, <3>1, <3>2 DEF InMemory, Obtained, DlWrites
    <3>. QED
      BY <1>0, <2>1, <3>3 DEF Has
  <2>. QED
    BY <1>8, <2>3, <2>4, <2>5, <2>6 DEF Serving
<1>9. CASE UNCHANGED vars
  BY <1>9 DEF vars, sw, Has, InMemory, InHand
<1>10. CASE Misreading
  <2>1. head' = Idle /\ UNCHANGED <<registry, store>> /\ InMemory' = InMemory
    BY <1>0, <1>10, MisreadingIs
  <2>. QED
    BY <2>1 DEF Has, Idle
<1>. QED
  BY <1>1, <1>2, <1>3, <1>4, <1>5, <1>6, <1>7, <1>8, <1>9, <1>10 DEF Worker

\* Whoever the key has to be there for is shown; and once an earlier view has
\* let it go, only a click makes it so.
LEMMA HeldIs ==
  ASSUME IInv, NEW p \in Pages, Held(p)
  PROVE  Mounted(p) /\ ("again" \in slips => Clicked(p))
<1>1. /\ page[p].broken => Mounted(p)
      /\ \A c \in Calls : /\ dl[c].page = p => Mounted(p)
                          /\ call[c].page = p /\ Live(c) => Mounted(p)
  BY Nones DEF IInv, PageInv, DlInv, CallInv, CallOwn
<1>. QED
  BY <1>1 DEF Held, Clicked, Mounted
\* The same, next.
LEMMA HeldIsNext ==
  ASSUME PageInv', DlInv', CallInv', NEW p \in Pages, Held(p)'
  PROVE  Mounted(p)' /\ ("again" \in slips' => Clicked(p)')
<1>1. /\ page'[p].broken => Mounted(p)'
      /\ \A c \in Calls : /\ dl'[c].page = p => Mounted(p)'
                          /\ call'[c].page = p /\ Live(c)' => Mounted(p)'
  BY Nones DEF PageInv, DlInv, CallInv, CallOwn
<1>. QED
  BY <1>1 DEF Held, Clicked, Mounted

\* The job at work registers the key for p, which waits for it.
Establishes(p) == /\ Writes /\ Job.op = "register" /\ Job.page = p
                  /\ Job.call \in Calls /\ Awaited(Job.call) /\ call[Job.call].page = p

\* It has to be there from the write of its registration on.
LEMMA HeldNext ==
  ASSUME IInv, [Next]_vars, NEW p \in Pages, Held(p)'
  PROVE  Held(p) \/ Establishes(p)
<1>0. /\ Structure /\ slips \subseteq slips' /\ None \notin Pages
      /\ {"request", "load", "nego", "write", "fetch"} = Running
  BY SlipsGrow, Nones DEF IInv, Structure, Running
<1>1. Views \/ Worker \/ Serving \/ Dies \/ UNCHANGED vars
  BY <1>0, Steps
<1>2. CASE Opening
  BY <1>0, <1>2 DEF Opening, Keyless, Begun, SameCall, SameTab, OnlyPage, Held, Live
<1>3. CASE Leaving \/ Closing \/ Reloading
  BY <1>0, <1>3 DEF Leaving, Left, Closing, Closed, Reloading, Reloaded, ClearTab, OnlyPage, Orphaned,
     Held, Live
<1>4. CASE Failing
  BY <1>0, <1>4 DEF Failing, Fails, OnlyCall, OnlyPage, SameTab, Held, Live
<1>5. CASE Posting
  BY <1>0, <1>5 DEF Posting, Posts, OnlyCall, OnlyPage, Held, Live
<1>6. CASE Acking
  <2>1. PICK c \in Calls : Acks(c)
    BY <1>6 DEF Acking
  <2>2. CASE AckDrops(c)
    BY <1>0, <2>1, <2>2 DEF Acks, AckDrops, OnlyCall, Held, Live
  <2>3. CASE AckLands(c)
    <3>1. call[c].at = "ack" /\ Live(c) /\ OnlyCall(c) /\ call'[c].at = "end" /\ slips' = slips
      BY <2>1, <2>3 DEF Acks, AckLands
    <3>2. \A x \in Calls : dl'[x] = dl[x] \/ (x = c /\ call[c].kind = "click" /\ dl'[x].page = call[c].page)
      BY <2>3 DEF AckLands, OnlyDl
    <3>3. CASE call[c].page = p
      <4>1. "again" \notin slips \/ call[c].kind = "click" => Held(p)
        BY <3>1, <3>3 DEF Held
      <4>2. page'[p].broken => page[p].broken
        BY <2>3, <3>3 DEF AckLands
      <4>. QED
        BY <3>1, <3>2, <3>3, <4>1, <4>2 DEF Held, Live, OnlyCall
    <3>4. CASE call[c].page # p
      <4>1. page'[p] = page[p]
        BY <2>3, <3>4 DEF AckLands, OnlyPage
      <4>. QED
        BY <3>1, <3>2, <3>4, <4>1 DEF Held, Live, OnlyCall
    <3>. QED
      BY <3>3, <3>4
  <2>. QED
    BY <2>1, <2>2, <2>3 DEF Acks
<1>7. CASE Writes
  <2>1. page' = page /\ dl' = dl
    BY <1>7 DEF Writes
  <2>2. CASE \E c \in Calls : /\ call'[c].page = p /\ Live(c)' /\ call'[c].at = "ack"
                              /\ "again" \notin slips' \/ call'[c].kind = "click"
                              /\ call'[c] # call[c]
    <3>1. PICK c \in Calls : /\ call'[c].page = p /\ Live(c)' /\ call'[c].at = "ack"
                             /\ "again" \notin slips' \/ call'[c].kind = "click"
                             /\ call'[c] # call[c]
      BY <2>2
    <3>2. Job.op = "register" /\ c = Job.call
      BY <1>7, <3>1 DEF Writes
    <3>3. call[c].at = "queued" /\ call[c].page = p /\ Live(c) /\ call[c].kind = call'[c].kind
      BY <1>7, <3>1, <3>2 DEF Writes, Live
    <3>4. Job.page = call[c].page
      BY <1>0, <1>7, <3>2, JobTyped DEF Structure, QueueInv, Writes, Job
    <3>. QED
      BY <1>0, <1>7, <3>1, <3>2, <3>3, <3>4 DEF Establishes, Awaited
  <2>3. CASE ~ \E c \in Calls : /\ call'[c].page = p /\ Live(c)' /\ call'[c].at = "ack"
                                /\ "again" \notin slips' \/ call'[c].kind = "click"
                                /\ call'[c] # call[c]
    BY <1>0, <2>1, <2>3 DEF Held, Live
  <2>. QED
    BY <2>2, <2>3
<1>8. CASE Dies
  BY <1>0, <1>8 DEF Dies, Held, Live
<1>9. CASE Loading \/ Starting \/ Misreading \/ Prunes \/ UNCHANGED vars
  BY <1>0, <1>9 DEF Loading, Starting, Misreading, Prunes, vars, Held, Live
<1>10. CASE Serving
  <2>1. call' = call
    BY <1>0, <1>10, ServingQueue
  <2>2. \A c \in Calls : dl'[c].page = p /\ dl'[c].at \in Running =>
          dl[c].page = p /\ dl[c].at \in Running
    BY <1>0, <1>10 DEF Serving, DlTaking, DlLoading, DlFinding, Negotiating, DlWriting, Ending,
       DlTakes, DlLoads, DlFinds, Negotiates, Overs, DlWrites, OnlyDl, Answers
  <2>3. page' = page \/ \E c \in Calls : Notes(c) /\ dl[c].at = "fetch"
    BY <1>10 DEF Serving, DlTaking, DlLoading, DlFinding, Negotiating, DlWriting, Ending,
       DlTakes, DlLoads, DlFinds, Negotiates, DlWrites
  <2>4. /\ page'[p].at = page[p].at
        /\ page'[p].broken => page[p].broken \/ \E c \in Calls : dl[c].page = p /\ dl[c].at = "fetch"
    BY <1>0, <2>3, NoteStep
  <2>. QED
    BY <1>0, <2>1, <2>2, <2>4 DEF Held, Live
<1>. QED
  BY <1>1, <1>2, <1>3, <1>4, <1>5, <1>6, <1>7, <1>8, <1>9, <1>10 DEF Views, Worker

\* No release of a tab is queued while its key has to be there.
LEMMA NoRelease ==
  ASSUME IInv, [Next]_vars, NEW p \in Pages, Held(p)', \A i \in DOMAIN queue : ~Releases(i, p)
  PROVE  \A i \in DOMAIN queue' : ~Releases(i, p)'
<1>0. Structure /\ queue \in Seq(Jobs) /\ None \notin Pages
  BY Typed, Nones DEF IInv, Structure
<1>1. Views \/ Worker \/ Serving \/ Dies \/ UNCHANGED vars
  BY <1>0, Steps
<1>2. ASSUME queue' = queue PROVE \A i \in DOMAIN queue' : ~Releases(i, p)'
  BY <1>2 DEF Releases
<1>3. ASSUME queue # <<>>, queue' = Tail(queue) PROVE \A i \in DOMAIN queue' : ~Releases(i, p)'
  <2>. SUFFICES ASSUME NEW i, Releases(i, p)' PROVE FALSE
    OBVIOUS
  <2>1. Releases(i + 1, p)
    BY <1>0, <1>3, TailJobs
  <2>. QED
    BY <2>1 DEF Releases
<1>4. ASSUME NEW j \in Jobs, queue' = Append(queue, j), j.op = "register" \/ j.page # p
      PROVE  \A i \in DOMAIN queue' : ~Releases(i, p)'
  BY <1>0, <1>4, Appended DEF Releases
<1>5. CASE Opening \/ Closing \/ Reloading \/ Failing
  BY <1>2, <1>5 DEF Opening, Closing, Reloading, Failing, sw
<1>6. CASE Leaving
  <2>1. PICK q \in Pages : Left(q)
    BY <1>6 DEF Leaving
  <2>2. q # p
    <3>. SUFFICES ASSUME Left(p) PROVE FALSE
      BY <2>1
    <3>. QED
      BY <1>0 DEF Left, Held, ClearTab, Orphaned, Live
  <2>. DEFINE r == Release(q)
  <2>3. r \in Jobs /\ r.page = q
    BY DEF Release, Jobs
  <2>4. queue' = queue \/ queue' = Append(queue, r)
    BY <2>1 DEF Left
  <2>. HIDE DEF r
  <2>. QED
    BY <1>2, <1>4, <2>2, <2>3, <2>4
<1>7. CASE Posting
  <2>1. PICK c \in Calls : Posts(c)
    BY <1>7 DEF Posting
  <2>. DEFINE r == [op |-> "register", page |-> call[c].page, call |-> c]
  <2>2. /\ r \in Jobs /\ r.op = "register"
        /\ queue' = queue \/ queue' = Append(queue, r)
    BY <2>1 DEF Posts, Jobs
  <2>. HIDE DEF r
  <2>. QED
    BY <1>2, <1>4, <2>2
<1>8. CASE Acking
  <2>1. PICK c \in Calls : Acks(c)
    BY <1>8 DEF Acking
  <2>2. CASE queue' = queue
    BY <1>2, <2>2
  <2>3. CASE queue' # queue
    <3>1. /\ ~Live(c) /\ queue' = Append(queue, Release(call[c].page)) /\ call[c].page \in Pages
          /\ slips' = IF Mounted(call[c].page) THEN slips \cup {"again"} ELSE slips
          /\ page' = page /\ dl' = dl /\ Due(c)
      BY <2>1, <2>3 DEF Acks, AckLands, AckDrops, Due
    <3>2. call[c].page # p
      <4>. SUFFICES ASSUME call[c].page = p PROVE FALSE
        OBVIOUS
      <4>1. PageInv' /\ DlInv' /\ CallInv'
        BY PageInvNext, DlInvNext, CallInvNext
      <4>2. Mounted(p)' /\ ("again" \in slips' => Clicked(p)')
        BY <4>1, HeldIsNext
      <4>3. Clicked(p)'
        BY <3>1, <4>2 DEF Mounted
      <4>4. Clicked(p)
        BY <2>1, <3>1, <4>3 DEF Acks, OnlyCall, Clicked, Live
      <4>. QED
        BY <3>1, <4>4 DEF IInv, AgainInv
    <3>. DEFINE r == Release(call[c].page)
    <3>3. r \in Jobs /\ r.page = call[c].page
      BY <3>1 DEF Release, Jobs
    <3>4. queue' = Append(queue, r)
      BY <3>1
    <3>. HIDE DEF r
    <3>. QED
      BY <1>4, <3>2, <3>3, <3>4
  <2>. QED
    BY <2>2, <2>3
<1>9. CASE Writes
  BY <1>3, <1>9 DEF Writes
<1>10. CASE Dies
  BY <1>10 DEF Dies, Releases
<1>11. CASE Loading \/ Starting \/ Misreading \/ Prunes \/ UNCHANGED vars
  BY <1>2, <1>3, <1>11 DEF Loading, Loads, Starting, Misreading, Reads, Misreads, Starts, Prunes, vars, sw
<1>12. CASE Serving
  BY <1>0, <1>2, <1>12, ServingQueue
<1>. QED
  BY <1>1, <1>5, <1>6, <1>7, <1>8, <1>9, <1>10, <1>11, <1>12 DEF Views, Worker

\* The write of a registration puts the key there.
LEMMA EstablishesKey ==
  ASSUME IInv, [Next]_vars, Clean({"stale", "unsaved", "forgot"})', NEW p \in Pages, Establishes(p)
  PROVE  Has(p)' /\ \A i \in DOMAIN queue' : ~Releases(i, p)'
<1>0. /\ Structure /\ HeadInv /\ queue \in Seq(Jobs) /\ None \notin Objs
      /\ "stale" \notin slips /\ "unsaved" \notin slips'
  BY SlipsGrow, Typed, Nones DEF IInv, Structure, Clean
<1>1. /\ head.step = "write" /\ queue # <<>> /\ p \in InHand.clients /\ head.obj # None
      /\ store' = InHand /\ head' = Idle /\ InMemory' = InMemory /\ registry' = registry
      /\ queue' = Tail(queue)
  BY <1>0 DEF Establishes, Writes, HeadInv
<1>2. registry = head.obj /\ InMemory = InHand
  BY <1>0, <1>1 DEF IInv, RegInv, InMemory, InHand
<1>3. InHand # None
  BY <1>0, <1>1, Typed, EntriesAssumption DEF InHand, HeadRecs, IInv
<1>4. Has(p)'
  BY <1>1, <1>2, <1>3 DEF Has, Idle
<1>5. \A i \in DOMAIN queue' : ~Releases(i, p)'
  <2>. SUFFICES ASSUME NEW i, Releases(i, p)' PROVE FALSE
    OBVIOUS
  <2>1. i \in Nat /\ Releases(i + 1, p)
    BY <1>0, <1>1, TailJobs
  <2>2. 1 \in DOMAIN queue /\ i + 1 \in DOMAIN queue /\ Registers(1, Job.call)
    BY <1>0, <1>1, <2>1, JobTyped DEF IInv, Establishes, Registers, Releases, Job
  <2>3. Behind(Job.call) /\ call[Job.call].page = p
    BY DEF Establishes, IInv, AgainInv, Awaited, Behind
  <2>4. i + 1 < 1
    BY <2>1, <2>2, <2>3 DEF Behind
  <2>5. i + 1 \in 1 .. Len(queue) /\ Len(queue) \in Nat
    BY <1>0, <2>2
  <2>. QED
    BY <2>1, <2>4, <2>5
<1>. QED
  BY <1>4, <1>5

\* The key is there, next.
LEMMA HeldInvNext == ASSUME IInv, [Next]_vars PROVE HeldInv'
<1>. SUFFICES ASSUME Clean({"stale", "unsaved", "forgot"})'
              PROVE  /\ \A p \in Pages : Held(p)' => Has(p)' /\ \A i \in DOMAIN queue' : ~Releases(i, p)'
                     /\ \A c \in Calls : dl'[c].page # None =>
                          /\ dl'[c].at = "load" => dl'[c].row # None
                          /\ "unread" \notin slips' => dl'[c].at # "keyless"
  BY DEF HeldInv
<1>0. Structure /\ TypeOK /\ Clean({"stale", "unsaved", "forgot"}) /\ HeldInv
  BY CleanNext DEF IInv, Structure
<1>1. ASSUME NEW p \in Pages, Held(p)'
      PROVE  Has(p)' /\ \A i \in DOMAIN queue' : ~Releases(i, p)'
  <2>1. CASE Held(p)
    <3>1. Has(p) /\ \A i \in DOMAIN queue : ~Releases(i, p)
      BY <1>0, <2>1 DEF HeldInv
    <3>2. p \in Windows
      BY <2>1, HeldIs DEF Windows, Mounted
    <3>. QED
      BY <1>1, <3>1, <3>2, HasNext, NoRelease
  <2>2. CASE Establishes(p)
    BY <2>2, EstablishesKey
  <2>. QED
    BY <1>1, <2>1, <2>2, HeldNext
<1>2. ASSUME NEW c \in Calls, dl'[c].page # None
      PROVE  /\ dl'[c].at = "load" => dl'[c].row # None
             /\ "unread" \notin slips' => dl'[c].at # "keyless"
  <2>0. dl[c].page # None => /\ dl[c].at = "load" => dl[c].row # None
                             /\ "unread" \notin slips' => dl[c].at # "keyless"
    BY <1>0, SlipsGrow DEF HeldInv
  <2>1. Views \/ Worker \/ Serving \/ Dies \/ UNCHANGED vars
    BY <1>0, Steps
  <2>2. CASE Opening \/ Leaving \/ Closing \/ Reloading \/ Failing \/ Posting
    BY <1>2, <2>0, <2>2 DEF Opening, Leaving, Left, Closing, Closed, Reloading, Reloaded, Failing,
       Posting, Orphaned
  <2>3. CASE Acking
    BY <1>2, <2>0, <2>3 DEF Acking, Acks, AckLands, AckDrops, OnlyDl
  <2>4. CASE Worker \/ UNCHANGED vars
    BY <1>2, <2>0, <2>4 DEF Worker, Loading, Starting, Misreading, Prunes, Writes, vars
  <2>5. CASE Dies
    BY <1>2, <2>0, <2>5 DEF Dies
  <2>6. CASE DlTaking
    <3>1. PICK x \in Calls : DlTakes(x)
      BY <2>6 DEF DlTaking
    <3>2. CASE x = c
      <4>1. dl[c].page \in Pages /\ dl[c].at = "request"
        BY <1>0, <1>2, <3>1, <3>2, Typed DEF DlTakes, DlRecs
      <4>2. Has(dl[c].page)
        BY <1>0, <4>1 DEF HeldInv, Held, Running
      <4>. QED
        BY <3>1, <3>2, <4>2 DEF DlTakes, Has
    <3>. QED
      BY <1>2, <2>0, <3>1, <3>2 DEF DlTakes, OnlyDl
  <2>7. CASE Serving /\ ~DlTaking
    BY <1>2, <2>0, <2>7 DEF Serving, DlLoading, DlFinding, Negotiating, DlWriting, Ending,
       DlLoads, DlFinds, Negotiates, Overs, DlWrites, OnlyDl, Answers
  <2>. QED
    BY <2>1, <2>2, <2>3, <2>4, <2>5, <2>6, <2>7 DEF Views
<1>. QED
  BY <1>1, <1>2

-----------------------------------------------------------------------------
(* The capability of an interrupted download is carried along. *)

\* The key of a download that may be resumed has to be there.
LEMMA ResumingIs == ASSUME IInv, Resuming, Clean({"stale", "unsaved", "forgot"}) PROVE \E p \in Pages : Has(p)
<1>0. \A c \in Calls : dl[c].page # None => dl[c].page \in Pages
  BY Typed DEF IInv, DlRecs
<1>. QED
  BY <1>0 DEF Resuming, Held, Running, IInv, HeldInv

\* The job at work has the entry of the memory in hand, or its copy.
Follows == registry # None /\ head.step \in {"prune", "write"} /\ InMemory.resume => InHand.resume

Clear == Clean({"stale", "raced", "unsaved", "forgot"})

\* What the invariant says, of a step after which nothing has slipped.
LEMMA ClearIs ==
  ASSUME IInv, [Next]_vars, Clear'
  PROVE  /\ Clean({"stale", "unsaved", "forgot"}) /\ Clear
         /\ "stale" \notin slips /\ "stale" \notin slips'
         /\ "raced" \notin slips /\ "raced" \notin slips' /\ "unsaved" \notin slips'
         /\ "forgot" \notin slips /\ "forgot" \notin slips'
         /\ Follows /\ (Resuming => Carried) /\ Registry
  BY SlipsGrow DEF IInv, Structure, Clean, Clear, ResumeInv, Follows, RegInv, Registry

\* What is carried stays.
LEMMA CarriedNext ==
  ASSUME IInv, [Next]_vars, Clear', Resuming
  PROVE  Carried'
<1>0. /\ Structure /\ HeadInv /\ DlInv /\ None \notin Objs /\ None \notin Entries
      /\ "stale" \notin slips' /\ "raced" \notin slips' /\ "unsaved" \notin slips'
      /\ "forgot" \notin slips'
      /\ Carried /\ Registry
      /\ registry # None => InMemory \in Entries
      /\ head.obj # None => InHand \in Entries
      /\ head.step \notin {"idle", "load"} => head.obj \in Objs
  BY ClearIs, Nones, Typed, EntriesAssumption
     DEF IInv, Structure, InMemory, InHand, HeadInv, HeadRecs
<1>1. Views \/ Worker \/ Serving \/ Dies \/ UNCHANGED vars
  BY <1>0, Steps
<1>2. CASE Views
  BY <1>2, <1>0, ViewsEntry DEF Carried
<1>3. CASE Loading
  BY <1>0, <1>3 DEF Loading, Loads, Carried, InMemory, InHand
<1>4. CASE Starting
  <2>1. PICK e \in Entries : Starts(e) /\ e.resume /\ store' = store
    <3>1. CASE head.step = "idle"
      BY <1>0, <1>4, <3>1 DEF Starting, Carried
    <3>2. CASE head.step # "idle"
      <4>1. head.row # None => head.row \in Entries
        BY Typed DEF HeadRecs, IInv
      <4>2. head.step = "load"
        BY <1>4, <3>2 DEF Starting, Reads
      <4>3. head.row # None
        BY <4>2, ClearIs, ResumingIs DEF Has
      <4>. QED
        BY <1>0, <1>4, <3>2, <4>1, <4>3 DEF Starting, Reads, Carried
    <3>. QED
      BY <3>1, <3>2
  <2>2. CASE Job.op = "register"
    BY <1>0, <2>1, <2>2 DEF Starts, Carried
  <2>3. CASE Job.op # "register"
    BY <1>0, <2>1, <2>3 DEF Starts, Carried, Entries
  <2>. QED
    BY <2>2, <2>3
<1>5. CASE Prunes
  <2>0. Job \in Jobs
    BY <1>5, JobTyped DEF Prunes, IInv
  <2>1. /\ InHand'.resume /\ store' = store
        /\ registry' = head.obj \/ registry' = None
        /\ head'.obj = head.obj
    <3>1. PICK k : PrunesTo(k)
      BY <1>5 DEF Prunes
    <3>. QED
      BY <1>0, <1>5, <2>0, <3>1 DEF Prunes, PrunesTo, Carried, Registry, Jobs
  <2>2. registry' # None => InMemory' = InHand'
    BY <1>0, <1>5, <2>1 DEF InMemory, InHand, Prunes
  <2>. QED
    BY <1>0, <2>1, <2>2 DEF Carried
<1>6. CASE Writes
  BY <1>0, <1>6 DEF Writes, Carried, Idle
<1>7. CASE Dies
  BY <1>0, <1>7 DEF Dies, Carried, Idle
<1>8. CASE DlTaking \/ DlFinding
  BY <1>0, <1>8 DEF DlTaking, DlFinding, DlTakes, DlFinds, sw, InMemory, InHand, Carried
<1>9. CASE Negotiating \/ Ending
  BY <1>0, <1>9 DEF Negotiating, Ending, Negotiates, Overs, Carried, Resumed, Entries
<1>10. CASE DlLoading
  <2>1. PICK c \in Calls : DlLoads(c)
    BY <1>10 DEF DlLoading
  <2>2. /\ store = dl[c].row /\ store # None /\ InMemory' = store /\ store' = store
        /\ head' = head /\ InHand' = InHand
    BY <1>0, <2>1 DEF DlLoads
  <2>. QED
    BY <1>0, <2>2 DEF Carried
<1>11. CASE DlWriting
  <2>1. PICK c \in Calls : DlWrites(c)
    BY <1>11 DEF DlWriting
  <2>2. Obtained(c).resume
    BY <1>0, <2>1 DEF DlWrites, DlInv, Obtained
  <2>. QED
    BY <1>0, <2>1, <2>2 DEF Carried, DlWrites
<1>12. CASE UNCHANGED vars
  BY <1>0, <1>12 DEF vars, sw, Carried, InMemory, InHand
<1>13. CASE Misreading
  <2>1. head' = Idle /\ UNCHANGED <<registry, store>> /\ InMemory' = InMemory
    BY <1>0, <1>13, MisreadingIs
  <2>. QED
    BY <1>0, <2>1 DEF Carried, Idle
<1>. QED
  BY <1>1, <1>2, <1>3, <1>4, <1>5, <1>6, <1>7, <1>8, <1>9, <1>10, <1>11, <1>12, <1>13
     DEF Worker, Serving

\* It is carried from the write of the capability on.
LEMMA ResumingNext ==
  ASSUME IInv, [Next]_vars, Clear', Resuming'
  PROVE  Resuming \/ \E c \in Calls : DlWrites(c)
<1>0. Structure /\ \A c \in Calls : dl[c].page # None => dl[c].page \in Pages
  BY Typed DEF IInv, Structure, DlRecs
<1>1. Views \/ Worker \/ Serving \/ Dies \/ UNCHANGED vars
  BY <1>0, Steps
<1>2. CASE Opening
  BY <1>2 DEF Opening, Keyless, Begun, SameTab, OnlyPage, Resuming
<1>3. CASE Leaving \/ Closing \/ Reloading
  BY <1>3 DEF Leaving, Left, Closing, Closed, Reloading, Reloaded, ClearTab, OnlyPage, Orphaned, Resuming
<1>4. CASE Failing \/ Posting
  BY <1>4 DEF Failing, Fails, Posting, Posts, OnlyPage, SameTab, Resuming
<1>5. CASE Acking
  <2>1. PICK c \in Calls : Acks(c)
    BY <1>5 DEF Acking
  <2>2. CASE AckDrops(c)
    BY <2>2 DEF AckDrops, Resuming
  <2>3. CASE AckLands(c)
    <3>1. \A p \in Pages : page'[p].broken => page[p].broken
      BY <2>3 DEF AckLands, OnlyPage
    <3>2. \A x \in Calls : \/ dl'[x] = dl[x]
                           \/ dl'[x].at = "request" /\ dl'[x].again = page[call[c].page].broken
      BY <2>3 DEF AckLands, OnlyDl
    <3>3. call[c].page \in Pages
      BY <2>1 DEF Acks
    <3>. QED
      BY <3>1, <3>2, <3>3 DEF Resuming
  <2>. QED
    BY <2>1, <2>2, <2>3 DEF Acks
<1>6. CASE Worker \/ UNCHANGED vars
  BY <1>6 DEF Worker, Loading, Starting, Misreading, Prunes, Writes, vars, Resuming
<1>7. CASE Dies
  BY <1>7 DEF Dies, Resuming
<1>8. CASE DlTaking \/ DlLoading \/ DlFinding \/ Negotiating
  BY <1>8 DEF DlTaking, DlLoading, DlFinding, Negotiating, DlTakes, DlLoads, DlFinds, Negotiates,
     OnlyDl, Answers, Resuming
<1>9. CASE Ending
  <2>1. PICK c \in Calls : Overs(c) /\ (page' = page \/ (dl[c].at = "fetch" /\ Notes(c)))
    BY <1>9 DEF Ending
  <2>2. \A p \in Pages : page'[p].broken => page[p].broken \/ (dl[c].at = "fetch" /\ dl[c].page = p)
    BY <1>0, <2>1, NoteStep
  <2>3. dl[c].at = "fetch" /\ dl[c].page \in Pages => Resuming
    BY Nones DEF Resuming
  <2>4. \A x \in Calls : dl'[x] = dl[x] \/ dl'[x].at = "over"
    BY <2>1 DEF Overs, OnlyDl, Answers
  <2>. QED
    BY <2>2, <2>3, <2>4 DEF Resuming
<1>10. CASE DlWriting
  BY <1>10 DEF DlWriting
<1>. QED
  BY <1>1, <1>2, <1>3, <1>4, <1>5, <1>6, <1>7, <1>8, <1>9, <1>10 DEF Views, Serving

\* The write of the capability finds, or puts, it everywhere.
LEMMA CarriesIt ==
  ASSUME IInv, [Next]_vars, Clear', NEW c \in Calls, DlWrites(c)
  PROVE  Carried'
<1>1. /\ "stale" \notin slips' /\ "unsaved" \notin slips' /\ Follows /\ DlInv /\ None \notin Objs
  BY ClearIs, Nones DEF IInv
<1>2. registry = dl[c].obj /\ dl[c].obj \in Objs /\ store' = Obtained(c) /\ dl[c].at = "write"
  BY <1>1 DEF DlWrites
<1>3. Obtained(c).resume /\ InMemory = Obtained(c)
  BY <1>1, <1>2 DEF DlInv, Obtained, InMemory
<1>. QED
  BY <1>1, <1>2, <1>3 DEF Carried, DlWrites, Follows

\* A registration does not lose the capability that the memory has.
LEMMA FollowsNext == ASSUME IInv, [Next]_vars, Clear' PROVE Follows'
<1>0. /\ Structure /\ HeadInv /\ None \notin Objs /\ None \notin Entries
      /\ "stale" \notin slips' /\ "raced" \notin slips'
      /\ "forgot" \notin slips /\ "forgot" \notin slips'
      /\ Follows /\ Registry
      /\ registry # None => InMemory \in Entries
      /\ head.obj # None => InHand \in Entries
      /\ head.step \notin {"idle", "load"} => head.obj \in Objs
      /\ queue # <<>> => Job \in Jobs
  BY ClearIs, Nones, Typed, EntriesAssumption, JobTyped
     DEF IInv, Structure, InMemory, InHand, HeadInv, HeadRecs
<1>1. Views \/ Worker \/ Serving \/ Dies \/ UNCHANGED vars
  BY <1>0, Steps
<1>2. CASE Views
  BY <1>2, <1>0, ViewsEntry DEF Follows
<1>3. CASE Loading
  BY <1>3 DEF Loading, Loads, Follows
<1>4. CASE Starting
  BY <1>0, <1>4 DEF Starting, Reads, Starts, Follows, Registry, Idle
<1>5. CASE Prunes
  <2>1. /\ registry' = head.obj \/ registry' = None
        /\ head'.obj = head.obj
    <3>1. PICK k : PrunesTo(k)
      BY <1>5 DEF Prunes
    <3>. QED
      BY <1>0, <1>5, <3>1 DEF Prunes, PrunesTo, Registry, Jobs
  <2>2. registry' # None => InMemory' = InHand'
    BY <1>0, <1>5, <2>1 DEF InMemory, InHand, Prunes
  <2>. QED
    BY <1>0, <2>2 DEF Follows
<1>6. CASE Writes \/ Dies
  BY <1>6 DEF Writes, Dies, Follows, Idle
<1>7. CASE DlTaking \/ DlFinding
  BY <1>0, <1>7 DEF DlTaking, DlFinding, DlTakes, DlFinds, sw, InMemory, InHand, Follows
<1>8. CASE Ending \/ DlWriting
  BY <1>0, <1>8 DEF Ending, DlWriting, Overs, DlWrites, Follows
<1>9. CASE Negotiating
  <2>1. PICK c \in Calls : Negotiates(c)
    BY <1>9 DEF Negotiating
  <2>2. CASE registry # None /\ head.step \in {"prune", "write"}
    <3>1. head.step # "prune" \/ Job.op = "release"
      BY <1>0, <2>1, <2>2 DEF Negotiates, Jobs, HeadInv
    <3>2. registry = head.obj
      BY <1>0, <2>2, <3>1 DEF Registry
    <3>3. InMemory = InHand
      BY <1>0, <2>2, <3>2 DEF InMemory, InHand
    <3>. QED
      BY <1>0, <2>1, <2>2, <3>2, <3>3 DEF Negotiates, Follows, Resumed, Entries
  <2>3. CASE ~(registry # None /\ head.step \in {"prune", "write"})
    BY <1>0, <2>1, <2>3 DEF Negotiates, Follows
  <2>. QED
    BY <2>2, <2>3
<1>10. CASE DlLoading
  <2>1. PICK c \in Calls : DlLoads(c)
    BY <1>10 DEF DlLoading
  <2>2. registry = None /\ store # None /\ head' = head
    BY <1>0, <2>1, EntriesAssumption DEF DlLoads
  <2>. QED
    BY <1>0, <2>2 DEF Registry, Follows, HeadInv, Jobs
<1>11. CASE UNCHANGED vars
  BY <1>0, <1>11 DEF vars, sw, Follows, InMemory, InHand
<1>12. CASE Misreading
  BY <1>0, <1>12, MisreadingIs DEF Follows, Idle
<1>. QED
  BY <1>1, <1>2, <1>3, <1>4, <1>5, <1>6, <1>7, <1>8, <1>9, <1>10, <1>11, <1>12 DEF Worker, Serving

\* A click that resumes finds it.
Finds(c) == dl[c].page # None /\ dl[c].again =>
              /\ dl[c].at = "load" /\ dl[c].row # None => dl[c].row.resume
              /\ dl[c].at = "nego" => heap[dl[c].obj].resume

\* What a resuming click finds, next.
LEMMA FindsNext == ASSUME IInv, [Next]_vars, Clear', NEW x \in Calls PROVE Finds(x)'
<1>0. /\ Structure /\ TypeOK /\ Finds(x) /\ Resumes /\ dl[x] \in DlRecs /\ DlOwn(x)
      /\ None \notin Objs
  BY ClearIs, Steps, Typed, Nones DEF IInv, Structure, DlInv, DlOwn, ResumeInv, Finds, Clear
<1>1. Views \/ Worker \/ Serving \/ Dies \/ UNCHANGED vars
  BY <1>0, Steps
<1>r. ASSUME dl'[x].at = dl[x].at, dl'[x].obj = dl[x].obj, dl'[x].row = dl[x].row,
             dl'[x].again = dl[x].again, dl'[x].page \in {dl[x].page, None}
      PROVE  Finds(x)'
  <2>1. dl[x].at = "nego" /\ heap[dl[x].obj].resume => heap'[dl[x].obj].resume
    BY <1>0, <1>r DEF DlOwn, Resumes, DlRecs
  <2>. QED
    BY <1>0, <1>r, <2>1 DEF Finds
<1>2. CASE Opening \/ Failing \/ Posting \/ Worker \/ UNCHANGED vars
  <2>1. dl' = dl
    BY <1>2 DEF Opening, Failing, Posting, Worker, Loading, Starting, Misreading, Prunes, Writes, vars
  <2>. QED
    BY <1>r, <2>1
<1>3. CASE Leaving \/ Closing \/ Reloading
  BY <1>r, <1>3 DEF Leaving, Left, Closing, Closed, Reloading, Reloaded, Orphaned
<1>4. CASE Acking
  BY <1>r, <1>4 DEF Acking, Acks, AckLands, AckDrops, OnlyDl, Finds
<1>5. CASE Dies
  BY <1>r, <1>5 DEF Dies, Finds
<1>6. CASE Serving
  <2>1. CASE dl'[x] = dl[x]
    BY <1>r, <2>1
  <2>2. CASE dl'[x] # dl[x]
    <3>1. \/ DlTakes(x) \/ DlLoads(x) \/ Negotiates(x) \/ DlWrites(x)
          \/ Answers(x, "keyless") \/ Answers(x, "over")
      BY <1>6, <2>2 DEF Serving, DlTaking, DlLoading, DlFinding, Negotiating, DlWriting, Ending,
         DlTakes, DlLoads, DlFinds, Negotiates, Overs, DlWrites, Answers, OnlyDl
    <3>2. CASE DlTakes(x)
      <4>. SUFFICES ASSUME dl[x].page # None, dl[x].again PROVE Finds(x)'
        BY <3>2 DEF DlTakes, Finds
      <4>1. Resuming
        BY <3>2 DEF DlTakes, Resuming
      <4>2. Carried
        BY <4>1, ClearIs
      <4>. QED
        BY <3>2, <4>2 DEF DlTakes, Finds, Carried, InMemory, sw
    <3>3. CASE DlLoads(x)
      <4>1. dl[x].page # None /\ dl[x].again => heap'[dl'[x].obj].resume
        BY <1>0, <3>3 DEF DlLoads, Finds, InMemory
      <4>. QED
        BY <3>3, <4>1 DEF DlLoads, Finds
    <3>4. CASE ~DlTakes(x) /\ ~DlLoads(x)
      BY <3>1, <3>4 DEF Negotiates, DlWrites, Answers, Finds
    <3>. QED
      BY <3>2, <3>3, <3>4
  <2>. QED
    BY <2>1, <2>2
<1>. QED
  BY <1>1, <1>2, <1>3, <1>4, <1>5, <1>6 DEF Views

\* The capability is carried, next.
LEMMA ResumeInvNext == ASSUME IInv, [Next]_vars PROVE ResumeInv'
<1>. SUFFICES ASSUME Clear'
              PROVE  (Resuming' => Carried') /\ Follows' /\ \A c \in Calls : Finds(c)'
  BY DEF ResumeInv, Clear, Follows, Finds
<1>1. Resuming' => Carried'
  BY ResumingNext, CarriesIt, CarriedNext
<1>. QED
  BY <1>1, FollowsNext, FindsNext

-----------------------------------------------------------------------------
(* The key does not outlive its views. *)

Settled == Clean({"late", "timeout", "stale", "lost", "unsaved", "kept"})

\* The tab is mentioned by what the worker has in memory, in hand or read.
Touched(p) == Hands(InMemory, p) \/ Hands(InHand, p) \/ Hands(head.row, p)
Stays(p)   == Releasing /\ Job.page = p
Released1(p) == Starting /\ Job.op = "release" /\ Job.page = p

\* What the invariant says, of a step after which nothing has slipped.
LEMMA SettledIs ==
  ASSUME IInv, [Next]_vars, Settled'
  PROVE  /\ Settled
         /\ "late" \notin slips' /\ "timeout" \notin slips' /\ "stale" \notin slips'
         /\ "lost" \notin slips' /\ "unsaved" \notin slips' /\ "kept" \notin slips'
         /\ Registry
         /\ \A p \in Pages : page[p].at # "gone" =>
              /\ Touched(p) => Owed(p)
              /\ Hands(store, p) => Owed(p) \/ Stays(p)
         /\ \A c \in Calls : call[c].at = "late" => page[call[c].page].at = "gone"
         /\ InMemory # None /\ InMemory.clients = {} => head.step = "prune" /\ Job.op = "release"
         /\ store # None /\ store.clients = {} => Releasing
         /\ head.step = "write" => InHand.clients # {}
         /\ head.row # None => head.row.clients # {}
<1>1. Settled /\ "stale" \notin slips
  BY SlipsGrow DEF IInv, Structure, Clean, Settled
<1>2. /\ "late" \notin slips' /\ "timeout" \notin slips' /\ "stale" \notin slips'
      /\ "lost" \notin slips' /\ "unsaved" \notin slips' /\ "kept" \notin slips'
  BY DEF Clean, Settled
<1>. QED
  BY <1>1, <1>2 DEF IInv, LeftInv, RegInv, Registry, Settled, Touched, Stays

\* A tab that is closed stays closed.
LEMMA GoneStays ==
  ASSUME IInv, [Next]_vars, NEW p \in Pages, page[p].at = "gone"
  PROVE  page'[p].at = "gone"
<1>0. Structure
  BY DEF IInv, Structure
<1>1. Views \/ Worker \/ Serving \/ Dies \/ UNCHANGED vars
  BY <1>0, Steps
<1>2. CASE Opening \/ Leaving \/ Closing \/ Reloading \/ Posting
  BY <1>2 DEF Opening, Keyless, Begun, Leaving, Left, Closing, Closed, Reloading, Reloaded, Posting,
     Posts, OnlyPage, Mounted
<1>3. CASE Failing \/ Acking
  <2>1. \A c \in Calls : Live(c) => Mounted(call[c].page)
    BY DEF IInv, CallInv, CallOwn
  <2>. QED
    BY <1>3, <2>1 DEF Failing, Fails, Acking, Acks, AckLands, AckDrops, OnlyPage, Mounted
<1>4. CASE Writes \/ Dies
  BY <1>4 DEF Writes, Dies
<1>5. CASE Loading \/ Starting \/ Misreading \/ Prunes \/ Serving \/ UNCHANGED vars
  BY <1>0, <1>5, AsideStep DEF Aside
<1>. QED
  BY <1>1, <1>2, <1>3, <1>4, <1>5 DEF Views, Worker

\* The four ways to owe a release.
ByCall(p)  == \E c \in Calls : call[c].page = p /\ call[c].at = "ack"
ByWrite(p) == /\ head.step = "write" /\ Job.op = "register" /\ Job.page = p
              /\ call[Job.call].at = "queued"
ByQueue(p) == \E i \in DOMAIN queue : Releases(i, p) /\ (i > 1 \/ head.step \in {"idle", "load"})
\* Those are all,
LEMMA OwedIs == ASSUME NEW p PROVE Owed(p) <=> page[p].registered \/ ByCall(p) \/ ByWrite(p) \/ ByQueue(p)
  BY DEF Owed, ByCall, ByWrite, ByQueue
\* now and next.
LEMMA OwedIsNext ==
  ASSUME NEW p PROVE Owed(p)' <=> page'[p].registered \/ ByCall(p)' \/ ByWrite(p)' \/ ByQueue(p)'
  BY DEF Owed, ByCall, ByWrite, ByQueue

\* A release that is appended is owed.
LEMMA ReleaseOwed ==
  ASSUME IInv, NEW p \in Pages, head' = head, queue' = Append(queue, Release(p))
  PROVE  ByQueue(p)'
<1>. DEFINE n == Len(queue) + 1
            r == Release(p)
<1>1. r \in Jobs /\ r.op = "release" /\ r.page = p
  BY DEF Release, Jobs
<1>2. queue \in Seq(Jobs)
  BY Typed DEF IInv
<1>. HIDE DEF r
<1>3. /\ n \in Nat \ {0} /\ DOMAIN queue = 1 .. n - 1 /\ DOMAIN queue' = 1 .. n
      /\ queue'[n] = r
  BY <1>1, <1>2, Appended DEF r
<1>4. n > 1 \/ head.step = "idle"
  BY <1>2, <1>3 DEF IInv, HeadInv
<1>. HIDE DEF n
<1>. QED
  BY <1>1, <1>3, <1>4 DEF ByQueue, Releases

\* One that is queued remains, until its job starts.
LEMMA ByQueueNext ==
  ASSUME IInv, [Next]_vars, Settled', NEW p \in Pages, ByQueue(p)
  PROVE  ByQueue(p)' \/ Released1(p)
<1>0. Structure /\ queue \in Seq(Jobs) /\ "lost" \notin slips'
  BY Typed, SettledIs DEF IInv, Structure
<1>1. Views \/ Worker \/ Serving \/ Dies \/ UNCHANGED vars
  BY <1>0, Steps
<1>2. PICK i \in DOMAIN queue : Releases(i, p) /\ (i > 1 \/ head.step \in {"idle", "load"})
  BY DEF ByQueue
<1>3. queue # <<>> /\ i \in Nat \ {0} /\ queue[i].op = "release" /\ queue[i].page = p
  BY <1>0, <1>2 DEF Releases
<1>4. CASE Views
  BY <1>0, <1>2, <1>4, ViewsEntry DEF Grows, ByQueue, Releases
<1>5. CASE Loading
  BY <1>2, <1>5 DEF Loading, Loads, ByQueue, Releases
<1>6. CASE Starting /\ i = 1
  BY <1>2, <1>3, <1>6 DEF Released1, Job
<1>7. CASE Starting /\ i # 1
  <2>1. i > 1
    BY <1>3, <1>7
  <2>2. CASE queue' = queue
    BY <1>2, <2>1, <2>2 DEF ByQueue, Releases
  <2>3. CASE queue' # queue
    <3>1. queue' = Tail(queue) /\ head' = Idle
      BY <1>7, <2>3 DEF Starting, Reads, Starts
    <3>2. Releases(i - 1, p)'
      BY <1>0, <1>2, <1>3, <2>1, <3>1, TailJobs
    <3>. QED
      BY <3>1, <3>2 DEF ByQueue, Idle, Releases
  <2>. QED
    BY <2>2, <2>3
<1>8. CASE Prunes
  BY <1>2, <1>8 DEF Prunes, ByQueue, Releases
<1>9. CASE Writes
  <2>1. queue' = Tail(queue) /\ head' = Idle /\ i > 1
    BY <1>2, <1>9 DEF Writes
  <2>2. Releases(i - 1, p)'
    BY <1>0, <1>2, <1>3, <2>1, TailJobs
  <2>. QED
    BY <2>1, <2>2 DEF ByQueue, Idle, Releases
<1>10. CASE Dies
  BY <1>0, <1>3, <1>10 DEF Dies
<1>11. CASE Serving
  BY <1>0, <1>2, <1>11, ServingQueue DEF ByQueue, Releases
<1>12. CASE UNCHANGED vars
  BY <1>2, <1>12 DEF vars, sw, ByQueue, Releases
<1>13. CASE Misreading
  <2>1. queue' = queue /\ Job.op = "register"
    BY <1>13, MisreadingIs, SettledIs
  <2>2. i > 1
    BY <1>2, <1>3, <2>1 DEF Job
  <2>. QED
    BY <1>2, <2>1, <2>2 DEF ByQueue, Releases
<1>. QED
  BY <1>1, <1>4, <1>5, <1>6, <1>7, <1>8, <1>9, <1>10, <1>11, <1>12, <1>13 DEF Worker

\* What a view registered, it lets go when it leaves.
LEMMA RegisteredNext ==
  ASSUME IInv, [Next]_vars, NEW p \in Pages, page'[p].at # "gone", page[p].registered
  PROVE  page'[p].registered \/ ByQueue(p)'
<1>0. Structure
  BY DEF IInv, Structure
<1>1. Views \/ Worker \/ Serving \/ Dies \/ UNCHANGED vars
  BY <1>0, Steps
<1>2. CASE Opening
  BY <1>2 DEF Opening, Keyless, Begun, OnlyPage, SameTab
<1>3. CASE Leaving
  <2>1. PICK q \in Pages : Left(q) /\ head' = head
    BY <1>3 DEF Leaving, Entry
  <2>2. CASE q = p
    BY <2>1, <2>2, ReleaseOwed DEF Left
  <2>3. CASE q # p
    BY <2>1, <2>3 DEF Left, OnlyPage
  <2>. QED
    BY <2>2, <2>3
<1>4. CASE Closing
  BY <1>4 DEF Closing, Closed, OnlyPage
<1>5. CASE Reloading
  BY <1>5 DEF Reloading, Reloaded, OnlyPage, IInv, PageInv
<1>6. CASE Failing \/ Posting
  BY <1>6 DEF Failing, Fails, Posting, Posts, OnlyPage, SameTab
<1>7. CASE Acking
  BY <1>7 DEF Acking, Acks, AckLands, AckDrops, OnlyPage
<1>8. CASE Worker \/ Dies \/ UNCHANGED vars
  BY <1>8 DEF Worker, Loading, Starting, Misreading, Prunes, Writes, Dies, vars
<1>9. CASE Serving
  <2>1. page' = page \/ \E c \in Calls : Notes(c)
    BY <1>9 DEF Serving, DlTaking, DlLoading, DlFinding, Negotiating, DlWriting, Ending,
       DlTakes, DlLoads, DlFinds, Negotiates, DlWrites
  <2>. QED
    BY <1>0, <2>1, NoteStep
<1>. QED
  BY <1>1, <1>2, <1>3, <1>4, <1>5, <1>6, <1>7, <1>8, <1>9 DEF Views

\* An acknowledgement on its way is taken, or the key is let go.
LEMMA ByCallNext ==
  ASSUME IInv, [Next]_vars, Settled', NEW p \in Pages, page'[p].at # "gone", ByCall(p)
  PROVE  page'[p].registered \/ ByCall(p)' \/ ByQueue(p)'
<1>0. Structure /\ "late" \notin slips' /\ page[p].at # "gone"
  BY SettledIs, GoneStays DEF IInv, Structure
<1>1. Views \/ Worker \/ Serving \/ Dies \/ UNCHANGED vars
  BY <1>0, Steps
<1>2. PICK c \in Calls : call[c].page = p /\ call[c].at = "ack"
  BY DEF ByCall
<1>3. CASE call'[c].page = p /\ call'[c].at = "ack"
  BY <1>3 DEF ByCall
<1>4. CASE ~(call'[c].page = p /\ call'[c].at = "ack")
  <2>1. CASE Opening \/ Leaving
    BY <1>2, <1>4, <2>1 DEF Opening, Keyless, Begun, SameCall, Leaving, Left
  <2>2. CASE Closing
    BY <1>2, <1>4, <2>2 DEF Closing, Closed
  <2>3. CASE Reloading
    <3>1. page[p].ctl
      BY <1>0, <1>2 DEF IInv, PageInv
    <3>. QED
      BY <1>2, <1>4, <2>3, <3>1 DEF Reloading, Reloaded
  <2>4. CASE Failing \/ Posting
    BY <1>2, <1>4, <2>4 DEF Failing, Fails, Posting, Posts, OnlyCall
  <2>5. CASE Acking
    <3>1. PICK x \in Calls : Acks(x) /\ head' = head
      BY <2>5 DEF Acking, Entry
    <3>2. x = c
      BY <1>2, <1>4, <3>1 DEF Acks, OnlyCall
    <3>3. CASE AckLands(c)
      BY <1>2, <3>3 DEF AckLands
    <3>4. CASE AckDrops(c)
      BY <1>0, <1>2, <3>1, <3>4, ReleaseOwed DEF AckDrops
    <3>. QED
      BY <3>1, <3>2, <3>3, <3>4 DEF Acks
  <2>6. CASE Writes
    <3>1. Job.op = "register" => call[Job.call].at # "ack"
      BY <1>0, <2>6, JobTyped DEF Structure, QueueInv, Writes, Job
    <3>. QED
      BY <1>2, <1>4, <2>6, <3>1 DEF Writes
  <2>7. CASE Dies
    BY <1>2, <1>4, <2>7 DEF Dies
  <2>8. CASE Loading \/ Starting \/ Misreading \/ Prunes \/ Serving \/ UNCHANGED vars
    BY <1>0, <1>2, <1>4, <2>8, AsideStep DEF Aside
  <2>. QED
    BY <1>1, <2>1, <2>2, <2>3, <2>4, <2>5, <2>6, <2>7, <2>8 DEF Views, Worker
<1>. QED
  BY <1>3, <1>4

\* A registration that is being written will be acknowledged.
LEMMA ByWriteNext ==
  ASSUME IInv, [Next]_vars, Settled', NEW p \in Pages, page'[p].at # "gone", ByWrite(p)
  PROVE  ByCall(p)' \/ ByWrite(p)'
<1>0. /\ Structure /\ "timeout" \notin slips' /\ "lost" \notin slips' /\ page[p].at # "gone"
      /\ queue # <<>>
  BY SettledIs, GoneStays DEF IInv, Structure, HeadInv, ByWrite
<1>1. Views \/ Worker \/ Serving \/ Dies \/ UNCHANGED vars
  BY <1>0, Steps
<1>2. /\ head.step = "write" /\ Job.op = "register" /\ Job.page = p /\ Job.call \in Calls
      /\ call[Job.call].at = "queued" /\ call[Job.call].page = p
  BY <1>0, JobTyped DEF ByWrite, Structure, QueueInv, Job
<1>3. CASE Views
  <2>1. head' = head /\ Job' = Job
    BY <1>0, <1>3, ViewsEntry DEF Grows
  <2>2. call'[Job.call].at = "queued"
    <3>1. CASE Opening \/ Leaving
      BY <1>2, <3>1 DEF Opening, Keyless, Begun, SameCall, Leaving, Left
    <3>2. CASE Closing
      BY <1>2, <3>2 DEF Closing, Closed
    <3>3. CASE Reloading
      <4>1. page[p].ctl
        BY <1>0, <1>2 DEF IInv, PageInv
      <4>. QED
        BY <1>2, <3>3, <4>1 DEF Reloading, Reloaded
    <3>4. CASE Failing
      BY <1>0, <1>2, <3>4 DEF Failing, Fails, OnlyCall
    <3>5. CASE Posting \/ Acking
      BY <1>2, <3>5 DEF Posting, Posts, Acking, Acks, OnlyCall
    <3>. QED
      BY <1>3, <3>1, <3>2, <3>3, <3>4, <3>5 DEF Views
  <2>. QED
    BY <1>2, <2>1, <2>2 DEF ByWrite
<1>4. CASE Writes
  BY <1>2, <1>4 DEF Writes, ByCall
<1>5. CASE Dies
  BY <1>0, <1>2, <1>5 DEF Dies
<1>6. CASE Loading \/ Starting \/ Misreading \/ Prunes
  BY <1>2, <1>6 DEF Loading, Loads, Starting, Misreading, Prunes
<1>7. CASE Serving
  BY <1>0, <1>2, <1>7, ServingQueue DEF ByWrite
<1>8. CASE UNCHANGED vars
  BY <1>2, <1>8 DEF vars, sw, ByWrite, Job
<1>. QED
  BY <1>1, <1>3, <1>4, <1>5, <1>6, <1>7, <1>8 DEF Worker

\* What is owed is owed until its release starts.
LEMMA OwedNext ==
  ASSUME IInv, [Next]_vars, Settled', NEW p \in Pages, page'[p].at # "gone", Owed(p)
  PROVE  Owed(p)' \/ Released1(p)
  BY OwedIs, OwedIsNext, RegisteredNext, ByCallNext, ByWriteNext, ByQueueNext

\* The facts that the steps below rest on.
LEMMA Facts ==
  ASSUME IInv
  PROVE  /\ Structure /\ HeadInv /\ None \notin Objs /\ None \notin Entries
         /\ registry # None => InMemory \in Entries
         /\ registry = None => InMemory = None
         /\ head.obj # None => InHand \in Entries
         /\ head.obj = None => InHand = None
         /\ head.step \notin {"idle", "load"} => head.obj \in Objs
         /\ queue # <<>> => Job \in Jobs /\ 1 \in DOMAIN queue
         /\ head.step # "idle" => queue # <<>>
         /\ head.row \in Entries \cup {None} /\ store \in Entries \cup {None}
  BY Nones, Typed, EntriesAssumption, JobTyped
     DEF IInv, Structure, InMemory, InHand, HeadInv, HeadRecs

\* A row that a download puts back is the one on disk, and nothing is being
\* let go.
LEMMA LoadsRow ==
  ASSUME IInv, [Next]_vars, Settled', NEW c \in Calls, DlLoads(c)
  PROVE  /\ InMemory' = store /\ store # None /\ ~Releasing /\ store' = store
         /\ UNCHANGED <<queue, head, page, call>> /\ InHand' = InHand
<1>0. "stale" \notin slips' /\ Registry /\ None \notin Entries /\ HeadInv /\ None \notin Objs
  BY SettledIs, EntriesAssumption, Nones DEF IInv
<1>1. registry = None /\ store = dl[c].row /\ head.step # "forget" /\ dl[c].row # None
  BY <1>0 DEF DlLoads
<1>2. ~Releasing
  BY <1>0, <1>1 DEF Releasing, Registry, HeadInv
<1>. QED
  BY <1>1, <1>2 DEF DlLoads

\* What a download commits is the entry in memory.
LEMMA WritesEntry ==
  ASSUME IInv, [Next]_vars, Settled', NEW c \in Calls, DlWrites(c)
  PROVE  /\ store' = InMemory /\ InMemory' = InMemory /\ InMemory # None
         /\ UNCHANGED <<queue, head, page, call>> /\ InHand' = InHand
<1>0. "stale" \notin slips' /\ "unsaved" \notin slips' /\ None \notin Objs /\ None \notin Entries
  BY SettledIs, EntriesAssumption, Nones
<1>1. registry = dl[c].obj /\ store' = Obtained(c) /\ dl[c].obj \in Objs
  BY <1>0 DEF DlWrites
<1>2. InMemory = Obtained(c) /\ InMemory # None
  BY <1>0, <1>1, Typed DEF InMemory, Obtained, IInv
<1>. QED
  BY <1>1, <1>2 DEF DlWrites

\* The job at work prunes the entry in memory.
LEMMA PrunesEntry ==
  ASSUME IInv, [Next]_vars, Settled', Prunes
  PROVE  /\ InMemory' # None => InMemory' = InHand'
         /\ UNCHANGED <<queue, page, call, store>> /\ Job' = Job /\ head'.row = head.row
         /\ head'.obj = head.obj
         /\ \E k \in SUBSET InHand.clients :
              IF Job.op = "register"
              THEN head'.step = "write" /\ InHand'.clients = k \cup {Job.page}
              ELSE /\ Job.op = "release" /\ InHand'.clients = k
                   /\ InMemory' # None => k # {}
                   /\ head'.step = IF k = {} THEN "forget" ELSE "write"
<1>0. Registry /\ None \notin Objs /\ head.obj \in Objs /\ Job \in Jobs
  BY SettledIs, Nones, JobTyped DEF Prunes, IInv
<1>1. PICK k : PrunesTo(k)
  BY DEF Prunes
<1>2. registry' = head.obj \/ registry' = None
  BY <1>0, <1>1 DEF Prunes, PrunesTo, Registry, Jobs
<1>3. registry' # None => InMemory' = InHand'
  BY <1>0, <1>2 DEF InMemory, InHand, Prunes
<1>4. registry' = None => InMemory' = None
  BY DEF InMemory
<1>5. UNCHANGED <<queue, page, call, store>> /\ Job' = Job /\ head'.row = head.row /\ head'.obj = head.obj
  BY DEF Prunes, Job
<1>6. /\ k \in SUBSET InHand.clients
      /\ IF Job.op = "register"
         THEN head'.step = "write" /\ InHand'.clients = k \cup {Job.page}
         ELSE /\ Job.op = "release" /\ InHand'.clients = k
              /\ InMemory' # None => k # {}
              /\ head'.step = IF k = {} THEN "forget" ELSE "write"
  BY <1>0, <1>1, <1>4 DEF PrunesTo, Jobs
<1>. QED
  BY <1>3, <1>4, <1>5, <1>6

\* A job starts with the entry that it found.
LEMMA StartsEntry ==
  ASSUME IInv, [Next]_vars, Settled', Starting
  PROVE  \E e \in Entries \cup {None} :
           /\ Starts(e) /\ UNCHANGED <<page, call, store, dl>> /\ head.step \in {"idle", "load"}
           /\ e # None => e = InMemory \/ e = head.row
           /\ e = None => registry = None /\ store = None /\ InMemory = None /\ InMemory' = None
<1>0. Registry
  BY SettledIs
<1>1. CASE head.step = "idle"
  BY <1>1, Facts DEF Starting
<1>2. CASE head.step # "idle"
  <2>1. Starts(head.row) /\ head.step = "load"
    BY <1>2 DEF Starting, Reads
  <2>2. head.row = None => registry = None /\ store = None
    BY <1>0, <2>1 DEF Registry
  <2>3. head.row = None => InMemory = None /\ InMemory' = None
    BY <2>1, <2>2 DEF Starts, InMemory
  <2>. QED
    BY <2>1, <2>2, <2>3, Facts DEF Starting, Reads
<1>. QED
  BY <1>1, <1>2

\* A tab that the worker mentions is owed a release.
LEMMA TouchedNext ==
  ASSUME IInv, [Next]_vars, Settled', NEW p \in Pages, page'[p].at # "gone", Touched(p)'
  PROVE  Owed(p)'
<1>0. /\ page[p].at # "gone"
      /\ Touched(p) => Owed(p)
      /\ Hands(store, p) => Owed(p) \/ Stays(p)
      /\ Owed(p) => Owed(p)' \/ Released1(p)
  BY SettledIs, GoneStays, OwedNext
<1>1. Views \/ Worker \/ Serving \/ Dies \/ UNCHANGED vars
  BY Steps, Facts
<1>2. ASSUME Touched(p), ~Starting PROVE Owed(p)'
  BY <1>0, <1>2 DEF Released1
<1>3. CASE Views
  <2>1. Touched(p)
    BY <1>3, Facts, ViewsEntry DEF Touched, Hands
  <2>2. head' = head
    BY <1>3, Facts, ViewsEntry
  <2>3. ~Starting
    BY <2>2, Facts DEF Starting, Reads, Starts, Idle, HeadInv
  <2>. QED
    BY <1>2, <2>1, <2>3
<1>4. CASE Loading
  <2>1. Hands(store, p) /\ head.step = "idle" /\ head'.step = "load"
    BY <1>4, Facts DEF Loading, Loads, Touched, Hands, InMemory, InHand
  <2>2. ~Stays(p) /\ ~Starting
    BY <2>1, Nones DEF Stays, Releasing, Starting, Reads, Starts, Idle
  <2>. QED
    BY <1>0, <2>1, <2>2 DEF Released1
<1>5. CASE Starting
  <2>1. PICK e \in Entries \cup {None} :
           /\ Starts(e) /\ UNCHANGED <<page, call, store, dl>>
           /\ e # None => e = InMemory \/ e = head.row
           /\ e = None => InMemory = None /\ InMemory' = None
    BY <1>5, StartsEntry
  <2>2. ~Released1(p)
    <3>. SUFFICES ASSUME Job.op = "release", Job.page = p PROVE ~Touched(p)'
      BY DEF Released1
    <3>1. CASE e = None
      BY <2>1, <3>1 DEF Starts, Touched, Hands, Idle, InHand
    <3>2. CASE e # None
      BY <2>1, <3>2 DEF Starts, Touched, Hands, Entries
    <3>. QED
      BY <3>1, <3>2
  <2>3. Touched(p)
    <3>1. CASE e = None
      BY <2>1, <3>1 DEF Starts, Touched, Hands, Idle, InHand, Blank
    <3>2. CASE e # None
      <4>1. Hands(e, p)
        BY <2>1, <3>2 DEF Starts, Touched, Hands, Entries
      <4>. QED
        BY <2>1, <3>2, <4>1 DEF Touched
    <3>. QED
      BY <3>1, <3>2
  <2>. QED
    BY <1>0, <2>2, <2>3
<1>6. CASE Prunes
  <2>1. ~Starting
    BY <1>6 DEF Prunes, Starting
  <2>2. CASE Touched(p)
    BY <1>2, <2>1, <2>2
  <2>3. CASE ~Touched(p)
    <3>1. Job.op = "register" /\ Job.page = p /\ head'.step = "write" /\ Job' = Job /\ call' = call
      <4>1. ~Hands(InHand, p) /\ InHand # None /\ ~Hands(head.row, p)
        BY <1>6, <2>3, Facts DEF Touched, Prunes
      <4>2. Hands(InHand', p)
        BY <1>6, <4>1, PrunesEntry DEF Touched, Hands
      <4>. QED
        BY <1>6, <4>1, <4>2, PrunesEntry DEF Hands
    <3>2. call[Job.call].at \in {"queued", "late"} /\ call[Job.call].page = p /\ Job.call \in Calls
      BY <1>6, <3>1, Facts DEF IInv, QueueInv, Prunes, Job
    <3>3. call[Job.call].at = "queued"
      BY <1>0, <3>2, SettledIs
    <3>4. ByWrite(p)'
      BY <3>1, <3>3 DEF ByWrite
    <3>. QED
      BY <3>4, OwedIsNext
  <2>. QED
    BY <2>2, <2>3
<1>7. CASE Writes
  <2>1. Touched(p)
    BY <1>7 DEF Writes, Touched, Hands, Idle, InHand
  <2>2. ~Starting
    BY <1>7 DEF Writes, Starting
  <2>. QED
    BY <1>2, <2>1, <2>2
<1>8. CASE Dies
  BY <1>8 DEF Dies, Touched, Hands, Idle
<1>9. CASE Serving
  <2>1. head' = head
    BY <1>9, Facts, ServingQueue
  <2>2. ~Starting
    BY <2>1, Facts DEF Starting, Reads, Starts, Idle, HeadInv
  <2>3. CASE DlLoading
    <3>1. PICK c \in Calls : DlLoads(c)
      BY <2>3 DEF DlLoading
    <3>2. InMemory' = store /\ ~Releasing /\ InHand' = InHand
      BY <3>1, LoadsRow
    <3>3. Touched(p) \/ Hands(store, p)
      BY <2>1, <3>2 DEF Touched
    <3>. QED
      BY <1>0, <1>2, <2>2, <3>2, <3>3 DEF Released1, Stays
  <2>4. CASE Negotiating
    <3>1. PICK c \in Calls : Negotiates(c)
      BY <2>4 DEF Negotiating
    <3>2. Touched(p)
      BY <2>1, <3>1, Facts DEF Negotiates, Touched, Hands, Resumed, Entries
    <3>. QED
      BY <1>2, <2>2, <3>2
  <2>5. CASE Serving /\ ~DlLoading /\ ~Negotiating
    <3>1. InMemory' = InMemory /\ InHand' = InHand
      BY <2>5 DEF Serving, DlTaking, DlFinding, DlWriting, Ending, DlTakes, DlFinds, Overs,
         DlWrites, sw, InMemory, InHand
    <3>2. Touched(p)
      BY <2>1, <3>1 DEF Touched
    <3>. QED
      BY <1>2, <2>2, <3>2
  <2>. QED
    BY <1>9, <2>3, <2>4, <2>5
<1>10. CASE UNCHANGED vars
  <2>1. Touched(p) /\ head' = head
    BY <1>10 DEF vars, sw, Touched, InMemory, InHand
  <2>2. ~Starting
    BY <2>1, Facts DEF Starting, Reads, Starts, Idle, HeadInv
  <2>. QED
    BY <1>2, <2>1, <2>2
<1>11. CASE Misreading
  <2>1. Job.op = "register" /\ InMemory' = InMemory /\ InHand' = Blank /\ head'.row = None
    BY <1>11, MisreadingIs, SettledIs
  <2>2. Touched(p)
    BY <2>1 DEF Touched, Hands, Blank
  <2>. QED
    BY <1>0, <2>1, <2>2 DEF Released1
<1>. QED
  BY <1>1, <1>3, <1>4, <1>5, <1>6, <1>7, <1>8, <1>9, <1>10, <1>11 DEF Worker

\* And so is a tab whose row is on disk, unless its release is at work.
LEMMA StoredNext ==
  ASSUME IInv, [Next]_vars, Settled', NEW p \in Pages, page'[p].at # "gone", Hands(store, p)'
  PROVE  Owed(p)' \/ Stays(p)'
<1>0. /\ page[p].at # "gone"
      /\ Touched(p) => Owed(p)
      /\ Hands(store, p) => Owed(p) \/ Stays(p)
      /\ Owed(p) => Owed(p)' \/ Released1(p)
      /\ "lost" \notin slips' /\ "unsaved" \notin slips'
  BY SettledIs, GoneStays, OwedNext
<1>1. Views \/ Worker \/ Serving \/ Dies \/ UNCHANGED vars
  BY Steps, Facts
<1>2. ASSUME Hands(store, p), ~Starting, UNCHANGED head, head.step # "idle" => Job' = Job
      PROVE  Owed(p)' \/ Stays(p)'
  BY <1>0, <1>2 DEF Released1, Stays, Releasing
<1>3. ASSUME UNCHANGED head PROVE ~Starting
  BY <1>3, Facts DEF Starting, Reads, Starts, Idle, HeadInv
<1>4. CASE Views
  <2>1. head' = head /\ store' = store /\ (head.step # "idle" => Job' = Job)
    BY <1>4, Facts, ViewsEntry DEF Grows
  <2>. QED
    BY <1>2, <1>3, <2>1 DEF Hands
<1>5. CASE Loading
  <2>1. store' = store /\ head.step = "idle" /\ head'.step = "load"
    BY <1>5 DEF Loading, Loads
  <2>2. ~Starting /\ ~Stays(p)
    BY <2>1, Nones DEF Starting, Reads, Starts, Idle, Stays, Releasing
  <2>. QED
    BY <1>0, <2>1, <2>2 DEF Hands, Released1
<1>6. CASE Starting
  <2>1. PICK e \in Entries \cup {None} :
           /\ Starts(e) /\ UNCHANGED <<page, call, store, dl>> /\ head.step \in {"idle", "load"}
           /\ e = None => store = None
    BY <1>6, StartsEntry
  <2>2. Hands(store, p) /\ e # None /\ ~Stays(p)
    BY <2>1 DEF Hands, Stays, Releasing
  <2>3. CASE Owed(p)'
    BY <2>3
  <2>4. CASE Released1(p)
    BY <2>1, <2>2, <2>4 DEF Released1, Starts, Stays, Releasing, Job
  <2>. QED
    BY <1>0, <2>2, <2>3, <2>4
<1>7. CASE Prunes
  <2>1. Hands(store, p) /\ ~Starting /\ Job' = Job
    BY <1>7, PrunesEntry DEF Prunes, Starting, Hands
  <2>2. Stays(p) => Stays(p)'
    BY <1>7, <2>1, PrunesEntry DEF Stays, Releasing
  <2>. QED
    BY <1>0, <2>1, <2>2 DEF Released1
<1>8. CASE Writes
  <2>1. store' = InHand /\ ~Starting
    BY <1>0, <1>8 DEF Writes, Hands, Starting
  <2>2. Touched(p)
    BY <2>1 DEF Touched, Hands
  <2>. QED
    BY <1>0, <2>1, <2>2 DEF Released1
<1>9. CASE Dies
  <2>1. head.step # "write" /\ \A i \in DOMAIN queue : queue[i].op # "release"
    BY <1>0, <1>9 DEF Dies
  <2>2. ~Releasing /\ head.step # "forget" /\ ~Released1(p)
    BY <2>1, Facts DEF Releasing, Job, HeadInv, Released1, Starting, Reads, Starts
  <2>3. Hands(store, p)
    BY <1>9, <2>1, <2>2 DEF Dies, Hands
  <2>. QED
    BY <1>0, <2>2, <2>3 DEF Stays
<1>10. CASE Serving
  <2>1. head' = head /\ Job' = Job
    BY <1>10, Facts, ServingQueue
  <2>2. CASE DlWriting
    <3>1. Touched(p)
      BY <2>2, WritesEntry DEF DlWriting, Touched, Hands
    <3>. QED
      BY <1>0, <1>3, <2>1, <3>1 DEF Released1
  <2>3. CASE ~DlWriting
    <3>1. store' = store
      BY <1>10, <2>3 DEF Serving, DlTaking, DlLoading, DlFinding, Negotiating, Ending, DlTakes,
         DlLoads, DlFinds, Negotiates, Overs, sw
    <3>. QED
      BY <1>2, <1>3, <2>1, <3>1 DEF Hands
  <2>. QED
    BY <2>2, <2>3
<1>11. CASE UNCHANGED vars
  BY <1>2, <1>3, <1>11 DEF vars, sw, Hands, Job
<1>12. CASE Misreading
  <2>1. Job.op = "register" /\ store' = store /\ head.step = "load"
    BY <1>12, MisreadingIs, SettledIs
  <2>. QED
    BY <1>0, <2>1 DEF Hands, Released1, Stays, Releasing
<1>. QED
  BY <1>1, <1>4, <1>5, <1>6, <1>7, <1>8, <1>9, <1>10, <1>11, <1>12 DEF Worker

\* Only a tab that was closed has handshakes that nobody waits for.
LEMMA LateNext ==
  ASSUME IInv, [Next]_vars, Settled', NEW x \in Calls, call'[x].at = "late"
  PROVE  page'[call'[x].page].at = "gone"
<1>0. /\ Structure /\ CallOwn(x) /\ "timeout" \notin slips'
      /\ call[x].at = "late" => page[call[x].page].at = "gone"
  BY SettledIs DEF IInv, Structure, CallInv
<1>1. Views \/ Worker \/ Serving \/ Dies \/ UNCHANGED vars
  BY <1>0, Steps
<1>2. ASSUME call[x].at = "late", call'[x].page = call[x].page PROVE page'[call'[x].page].at = "gone"
  BY <1>0, <1>2, GoneStays DEF CallOwn
<1>3. CASE Opening \/ Leaving
  BY <1>2, <1>3 DEF Opening, Keyless, Begun, SameCall, Leaving, Left
<1>4. CASE Closing
  BY <1>2, <1>4 DEF Closing, Closed
<1>5. CASE Reloading
  BY <1>2, <1>5 DEF Reloading, Reloaded
<1>6. CASE Failing
  BY <1>0, <1>2, <1>6 DEF Failing, Fails, OnlyCall
<1>7. CASE Posting \/ Acking
  <2>1. PICK c \in Calls : Posts(c) \/ Acks(c)
    BY <1>7 DEF Posting, Acking
  <2>2. x # c
    BY <2>1 DEF Posts, Acks
  <2>3. call'[x] = call[x]
    BY <2>1, <2>2 DEF Posts, Acks, OnlyCall
  <2>. QED
    BY <1>2, <2>3
<1>8. CASE Writes
  BY <1>2, <1>8 DEF Writes
<1>9. CASE Dies
  BY <1>2, <1>9 DEF Dies
<1>10. CASE Loading \/ Starting \/ Misreading \/ Prunes \/ Serving \/ UNCHANGED vars
  BY <1>0, <1>2, <1>10, AsideStep DEF Aside
<1>. QED
  BY <1>1, <1>3, <1>4, <1>5, <1>6, <1>7, <1>8, <1>9, <1>10 DEF Views, Worker

\* No entry is kept for nobody, but in the hands of the release that empties it.
Inhabited == /\ InMemory # None /\ InMemory.clients = {} => head.step = "prune" /\ Job.op = "release"
             /\ store # None /\ store.clients = {} => Releasing
             /\ head.step = "write" => InHand.clients # {}
             /\ head.row # None => head.row.clients # {}

\* No entry is left empty by a step.
LEMMA InhabitedNext == ASSUME IInv, [Next]_vars, Settled' PROVE Inhabited'
<1>0. Inhabited /\ "lost" \notin slips' /\ "unsaved" \notin slips' /\ None \notin Entries
  BY SettledIs, EntriesAssumption DEF Inhabited
<1>1. Views \/ Worker \/ Serving \/ Dies \/ UNCHANGED vars
  BY Steps, Facts
<1>2. CASE Views
  BY <1>0, <1>2, Facts, ViewsEntry DEF Inhabited, Releasing, Grows
<1>3. CASE Loading
  <2>1. ~Releasing /\ InMemory' = None /\ store' = store /\ head'.row = store /\ head'.step = "load"
    BY <1>3 DEF Loading, Loads, Releasing, InMemory
  <2>. QED
    BY <1>0, <2>1 DEF Inhabited
<1>4. CASE Starting
  <2>1. PICK e \in Entries \cup {None} :
           /\ Starts(e) /\ UNCHANGED <<page, call, store, dl>> /\ head.step \in {"idle", "load"}
           /\ e # None => e = InMemory \/ e = head.row
           /\ e = None => InMemory' = None
    BY <1>4, StartsEntry
  <2>2. e # None => e.clients # {}
    BY <1>0, <2>1 DEF Inhabited
  <2>3. store # None => store.clients # {}
    BY <1>0, <2>1 DEF Inhabited, Releasing
  <2>4. Job \in Jobs
    BY <2>1, Facts DEF Starts
  <2>5. CASE head' = Idle
    <3>1. InMemory' = None
      BY <2>1, <2>5, Nones DEF Starts, Idle
    <3>. QED
      BY <2>1, <2>3, <2>5, <3>1 DEF Inhabited, Idle
  <2>6. CASE head' # Idle
    <3>1. head'.step = "prune" /\ head'.row = None /\ Job' = Job
      BY <2>1, <2>6 DEF Starts, Job
    <3>2. Job.op = "register" /\ InMemory' # None => InMemory'.clients # {}
      BY <2>1, <2>2 DEF Starts
    <3>. QED
      BY <2>1, <2>3, <2>4, <3>1, <3>2 DEF Inhabited, Jobs
  <2>. QED
    BY <2>5, <2>6
<1>5. CASE Prunes
  BY <1>0, <1>5, PrunesEntry DEF Inhabited, Prunes, Releasing
<1>6. CASE Writes
  BY <1>0, <1>6 DEF Inhabited, Writes, Idle
<1>7. CASE Dies
  <2>1. head.step # "write" /\ \A i \in DOMAIN queue : queue[i].op # "release"
    BY <1>0, <1>7 DEF Dies
  <2>2. ~Releasing /\ head.step # "forget"
    BY <2>1, Facts DEF Releasing, Job, HeadInv
  <2>. QED
    BY <1>0, <1>7, <2>1, <2>2 DEF Inhabited, Dies, Idle
<1>8. CASE Serving
  <2>1. head' = head /\ Job' = Job
    BY <1>8, Facts, ServingQueue
  <2>2. CASE DlLoading
    BY <1>0, <2>1, <2>2, LoadsRow DEF DlLoading, Inhabited, Releasing
  <2>3. CASE DlWriting
    BY <1>0, <2>1, <2>3, WritesEntry DEF DlWriting, Inhabited, Releasing
  <2>4. CASE Negotiating
    <3>1. PICK c \in Calls : Negotiates(c)
      BY <2>4 DEF Negotiating
    <3>2. /\ InMemory' # None => InMemory # None /\ InMemory'.clients = InMemory.clients
          /\ head.step = "write" => InHand'.clients = InHand.clients
          /\ store' = store
      BY <3>1, Facts DEF Negotiates, Resumed, Entries
    <3>. QED
      BY <1>0, <2>1, <3>2 DEF Inhabited, Releasing
  <2>5. CASE DlTaking \/ DlFinding \/ Ending
    <3>1. InMemory' = InMemory /\ InHand' = InHand /\ store' = store
      BY <2>5 DEF DlTaking, DlFinding, Ending, DlTakes, DlFinds, Overs, sw, InMemory, InHand
    <3>. QED
      BY <1>0, <2>1, <3>1 DEF Inhabited, Releasing
  <2>. QED
    BY <1>8, <2>2, <2>3, <2>4, <2>5 DEF Serving
<1>9. CASE UNCHANGED vars
  BY <1>0, <1>9 DEF vars, sw, Inhabited, Releasing, Job, InMemory, InHand
<1>10. CASE Misreading
  <2>1. /\ UNCHANGED store /\ InMemory' = InMemory /\ head.step = "load"
        /\ head'.step = "prune" /\ head'.row = None
    BY <1>10, MisreadingIs, SettledIs
  <2>. QED
    BY <1>0, <2>1 DEF Inhabited, Releasing
<1>. QED
  BY <1>1, <1>2, <1>3, <1>4, <1>5, <1>6, <1>7, <1>8, <1>9, <1>10 DEF Worker

\* The key does not outlive its views, next.
LEMMA LeftInvNext == ASSUME IInv, [Next]_vars PROVE LeftInv'
<1>. SUFFICES ASSUME Settled'
              PROVE  /\ \A p \in Pages : page'[p].at # "gone" =>
                          /\ Touched(p)' => Owed(p)'
                          /\ Hands(store, p)' => Owed(p)' \/ Stays(p)'
                     /\ \A c \in Calls : call'[c].at = "late" => page'[call'[c].page].at = "gone"
                     /\ Inhabited'
  BY DEF LeftInv, Settled, Touched, Stays, Inhabited
<1>. QED
  BY TouchedNext, StoredNext, LateNext, InhabitedNext

-----------------------------------------------------------------------------
(* The theorems. *)

\* The invariant holds at first,
LEMMA InitInv == ASSUME Init PROVE IInv
<1>. USE Nones, EntriesAssumption
<1>1. TypeOK
  BY BoundsAssumption DEF Init, TypeOK, NoView, NoCall, NoDl, Idle, Blank, ViewStates, CallStates, Kinds, Fates,
     DlStates, Entries, Slips
<1>2. /\ \A p \in Pages : page[p] = NoView
      /\ \A c \in Calls : call[c] = NoCall /\ dl[c] = NoDl
      /\ queue = <<>> /\ head = Idle /\ registry = None /\ store = None
      /\ InMemory = None /\ InHand = None
  BY DEF Init, InMemory, InHand, Idle
<1>3. /\ \A p \in Pages : page[p].at = "none" /\ ~page[p].registered /\ ~page[p].broken
      /\ \A c \in Calls : /\ call[c].at = "free" /\ call[c].page = None /\ ~Live(c)
                          /\ dl[c].at = "none" /\ dl[c].page = None /\ dl[c].obj = None
      /\ head.step = "idle" /\ head.obj = None /\ head.row = None /\ DOMAIN queue = {}
  BY <1>2 DEF NoView, NoCall, NoDl, Idle, Live
<1>4. CallInv /\ PageInv
  BY <1>3 DEF CallInv, CallOwn, InOrder, Due, PageInv
<1>5. QueueInv /\ HeadInv /\ DlInv
  BY <1>2, <1>3 DEF QueueInv, HeadInv, DlInv
<1>6. AgainInv /\ RegInv
  BY <1>2, <1>3 DEF AgainInv, Clicked, RegInv
<1>7. HeldInv /\ ResumeInv
  BY <1>2, <1>3 DEF HeldInv, Held, Running, ResumeInv, Resuming
<1>8. LeftInv
  BY <1>2, <1>3 DEF LeftInv, Hands
<1>. QED
  BY <1>1, <1>4, <1>5, <1>6, <1>7, <1>8 DEF IInv

\* and every step keeps it.
LEMMA NextInv == ASSUME IInv, [Next]_vars PROVE IInv'
  BY TypeOKNext, CallInvNext, PageInvNext, QueueInvNext, HeadInvNext, DlInvNext, AgainInvNext,
     RegInvNext, HeldInvNext, ResumeInvNext, LeftInvNext DEF IInv

\* The order of the handshakes and of the queue, and what the entries in
\* memory, in hand and on disk owe each other, hold throughout.
THEOREM Inductive == Spec => []IInv
<1>1. Init => IInv
  BY InitInv
<1>2. IInv /\ [Next]_vars => IInv'
  BY NextInv
<1>. QED
  BY <1>1, <1>2, PTL DEF Spec

\* The state has its type: in particular no entry is built from a row that
\* does not exist (loadEntry, sw.js), and a fresh entry is nobody's.
THEOREM TypeCorrect == Spec => []TypeOK
<1>1. IInv => TypeOK
  BY DEF IInv
<1>. QED
  BY <1>1, Inductive, PTL

\* While a view offers its downloads, the worker holds the key for it, on
\* disk and in memory (TOKEN_QUEUES, releaseEntry and pruneClients, sw.js),
\* whichever releases and downloads could not read the row (loadEntry).
THEOREM ReadyHeld == Spec => []ReadyIsHeld
<1>1. IInv => ReadyIsHeld
  <2>. SUFFICES ASSUME IInv, Clean({"again", "stale", "unsaved", "forgot"}), NEW p \in Pages,
                       page[p].at = "ready"
                PROVE  /\ store # None /\ p \in store.clients
                       /\ registry # None => p \in heap[registry].clients
    BY DEF ReadyIsHeld
  <2>1. Held(p) /\ Clean({"stale", "unsaved", "forgot"})
    BY DEF Held, Clean
  <2>2. Has(p)
    BY <2>1 DEF IInv, HeldInv
  <2>. QED
    BY <2>2 DEF Has, InMemory
<1>. QED
  BY <1>1, Inductive, PTL

\* A download that a shown view asked for is never answered that there is no
\* key (the click's registration, triggerDownload; loadEntry, sw.js), unless
\* a read of the row failed or the disk lost it.
THEOREM ClickFinds == Spec => []ClickFindsKey
<1>1. IInv => ClickFindsKey
  BY DEF IInv, HeldInv, ClickFindsKey, Clean
<1>. QED
  BY <1>1, Inductive, PTL

\* When nothing is under way, no key is held for unmounted views alone (the
\* clean-up of the registration effect, releaseEntry), unless a release
\* could not read the row, or one of the other slips happened.
THEOREM LeftReleased == Spec => []LeftIsReleased
<1>1. IInv => LeftIsReleased
  <2>. SUFFICES ASSUME IInv, Settled, Quiet
                PROVE  /\ store # None => \E p \in store.clients : page[p].at # "left"
                       /\ registry # None => \E p \in heap[registry].clients : page[p].at # "left"
    BY DEF LeftIsReleased, Settled
  <2>1. head.step = "idle" /\ ~Releasing
    BY DEF IInv, HeadInv, Quiet, Releasing
  <2>2. \A p \in Pages : page[p].at = "left" => ~Owed(p) /\ ~Stays(p)
    BY <2>1 DEF IInv, PageInv, Mounted, Quiet, Owed, Stays, Releases
  <2>3. \A p \in Pages : page[p].at = "left" => ~Hands(InMemory, p) /\ ~Hands(store, p)
    BY <2>2 DEF IInv, LeftInv, Settled, Stays
  <2>4. /\ InMemory # None => InMemory \in Entries /\ InMemory.clients # {}
        /\ store # None => store \in Entries /\ store.clients # {}
        /\ registry # None => InMemory = heap[registry] /\ InMemory # None
    BY <2>1, Facts DEF IInv, LeftInv, Settled, InMemory
  <2>. QED
    BY <2>3, <2>4 DEF Hands, Entries
<1>. QED
  BY <1>1, Inductive, PTL

\* A click that resumes an interrupted download finds its capability, across
\* registrations and deaths of the worker (resumeTokens, sw.js; the
\* interrupted files of DownloadView), whichever releases and downloads could
\* not read the row.
THEOREM ResumeCarried == Spec => []ResumeIsCarried
<1>1. IInv => ResumeIsCarried
  BY DEF IInv, ResumeInv, ResumeIsCarried
<1>. QED
  BY <1>1, Inductive, PTL
=============================================================================
