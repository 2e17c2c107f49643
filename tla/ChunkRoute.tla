------------------------------ MODULE ChunkRoute ------------------------------
(***************************************************************************)
(* One file's way from the sender's disk to the recipient's.  The sender's *)
(* page cuts it into chunks, encrypts each and puts it to storage as one   *)
(* part (MultipartUploader.ts, uploadPart.ts, encryption.ts and the pump   *)
(* of useTransferDraft.ts); the backend completes the multipart upload;    *)
(* the recipient's service worker fetches the object, decrypts it chunk by *)
(* chunk and answers the range that was asked for (sw.js).                 *)
(*                                                                         *)
(* Bytes are counted in units: a chunk is ChunkSize units of plaintext and *)
(* one of overhead (IV and tag).                                           *)
(***************************************************************************)
EXTENDS Integers, Sequences, FiniteSets, SequencesExt

CONSTANTS
    Sizes,        \* sizes of the file, in units of plaintext
    ChunkSize,
    Workers,      \* the `parallelism` of the uploader
    MaxAttempts,  \* attempts at one part
    MaxFaults,    \* requests that fail, connections that drop, objects damaged
    None

ASSUME SizesAssumption  == Sizes \subseteq Nat \ {0} /\ ChunkSize \in Nat \ {0}
ASSUME BoundsAssumption == MaxAttempts \in Nat \ {0} /\ MaxFaults \in Nat
ASSUME WorkersAssumption == Workers # {}
ASSUME NoneAssumption   == None \notin Nat

Overhead == 1

\* How a part of the route can fail for good; a property names those it
\* does not survive.
\*   fault    a request failed, a connection dropped, the object was damaged
\*   short    an abort between two parts made the upload resolve without the
\*            parts that were left
\*   late     a part given up by its request landed after its retry
\*   hung     a part reached its PUT after the abort: no event ever comes
Slips == {"fault", "short", "late", "hung"}

VARIABLES
    size,      \* file.size
    next,      \* nextIndex
    worker,    \* the workers of upload()
    uploaded,  \* the parts that were acknowledged, in that order
    aborted,   \* the abort signal
    upload,    \* what became of the upload
    parts,     \* storage: per part the attempt it holds, 0 for none
    stray,     \* PUTs that were given up and may still land
    object,    \* storage: the completed object, a sequence of units
    get,       \* the download: what was asked, and where it is
    queue,     \* decryptStream: ciphertext queued
    out,       \* plaintext units handed to the browser, by position
    told,      \* notices sent to the page
    faults, slips

up   == <<next, worker, uploaded, aborted, upload, parts, stray>>
down == <<get, queue, out, told>>
vars == <<size, up, object, down, faults, slips>>

Least(a, b)    == IF a <= b THEN a ELSE b
CeilDiv(a, b)  == (a + b - 1) \div b
Fault          == faults < MaxFaults /\ faults' = faults + 1

-----------------------------------------------------------------------------
(* The wire format. *)

CiphertextChunk == ChunkSize + Overhead

TotalParts(n) == IF n <= 0 THEN 1 ELSE CeilDiv(n, ChunkSize)

CiphertextSize(n) == IF n = 0 THEN Overhead ELSE n + CeilDiv(n, ChunkSize) * Overhead

\* The slice of the file that is one part: its first and last unit.
Blob(p) == [first |-> (p - 1) * ChunkSize,
            last |-> Least(p * ChunkSize, size) - 1]

\* What a chunk is bound to.
Aad(p) == [n |-> p, of |-> TotalParts(size)]

\* A chunk of ciphertext, unit by unit.
Chunk(p) ==
    [k \in 1 .. Blob(p).last - Blob(p).first + 1 + Overhead |->
        [aad |-> Aad(p), blob |-> Blob(p), k |-> k]]

\* decryptOne: the plaintext, if the units are one whole chunk bound to this
\* position; a failure otherwise.
Intact(ct, n) ==
    /\ Len(ct) > Overhead
    /\ LET b == ct[1].blob IN
       /\ Len(ct) = b.last - b.first + 1 + Overhead
       /\ \A k \in DOMAIN ct : ct[k] = [aad |-> [n |-> n, of |-> TotalParts(size)],
                                        blob |-> b, k |-> k]

Plain(ct) == [i \in 1 .. Len(ct) - Overhead |-> ct[1].blob.first + i - 1]

-----------------------------------------------------------------------------
NoGet  == [at |-> "none", header |-> None, range |-> None, pos |-> 0, part |-> 0,
           left |-> 0, skip |-> 0, remaining |-> 0]
Resting == [at |-> "top", part |-> 0, try |-> 0]

Init ==
    /\ size \in Sizes
    /\ next = 0
    /\ worker = [w \in Workers |-> Resting]
    /\ uploaded = <<>> /\ aborted = FALSE /\ upload = "running"
    /\ parts = [p \in 1 .. TotalParts(size) |-> 0] /\ stray = {}
    /\ object = <<>>
    /\ get = NoGet /\ queue = <<>> /\ out = <<>> /\ told = {}
    /\ faults = 0 /\ slips = {}

-----------------------------------------------------------------------------
(* upload(): the workers. *)

M_NextUnchecked(w) ==
    /\ worker[w].at = "top"
    /\ IF aborted
       THEN worker' = [worker EXCEPT ![w].at = "done"] /\ UNCHANGED next
       ELSE /\ next' = Least(next + 1, TotalParts(size))
            /\ worker' = [worker EXCEPT ![w] =
                 IF next > TotalParts(size) THEN [@ EXCEPT !.at = "done"]
                 ELSE [at |-> "sign", part |-> next + 1, try |-> 1]]
    /\ UNCHANGED <<size, uploaded, aborted, upload, parts, stray, object, down, faults, slips>>

\* A worker takes the next part, or returns: none is left, or the upload was
\* aborted.
TakePart(w) ==
    /\ worker[w].at = "top"
    /\ IF aborted
       THEN worker' = [worker EXCEPT ![w].at = "done"] /\ UNCHANGED next
       ELSE /\ next' = Least(next + 1, TotalParts(size))
            /\ worker' = [worker EXCEPT ![w] =
                 IF next >= TotalParts(size) THEN [@ EXCEPT !.at = "done"]
                 ELSE [at |-> "sign", part |-> next + 1, try |-> 1]]
    /\ UNCHANGED <<size, uploaded, aborted, upload, parts, stray, object, down, faults, slips>>

\* uploadWithRetry's catch: an aborted upload, or the last attempt, fails
\* the worker and with it the upload; else the part is tried again.
Rethrown(w) ==
    IF aborted \/ worker[w].try = MaxAttempts
    THEN /\ worker' = [worker EXCEPT ![w].at = "failed"]
         /\ upload' = IF upload = "running" THEN "rejected" ELSE upload
    ELSE /\ worker' = [worker EXCEPT ![w].at = "sleep"]
         /\ UNCHANGED upload

Awake(w) ==
    /\ worker[w].at = "sleep"
    /\ IF aborted
       THEN /\ worker' = [worker EXCEPT ![w].at = "failed"]
            /\ upload' = IF upload = "running" THEN "rejected" ELSE upload
       ELSE /\ worker' = [worker EXCEPT ![w].at = "sign", ![w].try = @ + 1]
            /\ UNCHANGED upload
    /\ UNCHANGED <<size, next, uploaded, aborted, parts, stray, object, down, faults, slips>>

\* The part is signed and encrypted; a PUT that starts after the abort is
\* never sent, and never settles.
Signed(w) ==
    /\ worker[w].at = "sign"
    /\ worker' = [worker EXCEPT ![w].at = IF aborted THEN "hung" ELSE "put"]
    /\ slips' = IF aborted THEN slips \cup {"hung"} ELSE slips
    /\ UNCHANGED <<size, next, uploaded, aborted, upload, parts, stray, object, down, faults>>

NotSigned(w) ==
    /\ worker[w].at = "sign" /\ Fault
    /\ Rethrown(w)
    /\ slips' = slips \cup {"fault"}
    /\ UNCHANGED <<size, next, uploaded, aborted, parts, stray, object, down>>

\* Storage takes the part and answers its ETag.
PartPut(w) ==
    /\ worker[w].at = "put" /\ ~aborted
    /\ parts' = [parts EXCEPT ![worker[w].part] = worker[w].try]
    /\ uploaded' = Append(uploaded, [part |-> worker[w].part, etag |-> worker[w].try])
    /\ worker' = [worker EXCEPT ![w] = Resting]
    /\ UNCHANGED <<size, next, aborted, upload, stray, object, down, faults, slips>>

\* The PUT fails, or its answer is lost: the part may have landed, may not,
\* or may still land.
PartLost(w) ==
    /\ worker[w].at = "put" /\ ~aborted /\ Fault
    /\ Rethrown(w)
    /\ LET p == worker[w].part IN
       \/ UNCHANGED <<parts, stray>>
       \/ parts' = [parts EXCEPT ![p] = worker[w].try] /\ UNCHANGED stray
       \/ stray' = stray \cup {[part |-> p, etag |-> worker[w].try]} /\ UNCHANGED parts
    /\ slips' = slips \cup {"fault"}
    /\ UNCHANGED <<size, next, uploaded, aborted, object, down>>

M_PartAbortedUnheard(w) == FALSE

\* abort() interrupts a PUT that was sent.
PartAborted(w) ==
    /\ worker[w].at = "put" /\ aborted
    /\ Rethrown(w)
    /\ UNCHANGED <<size, next, uploaded, aborted, parts, stray, object, down, faults, slips>>

StrayLands ==
    \E s \in stray :
        /\ stray' = stray \ {s}
        /\ upload \notin {"completed", "refused"}
        /\ parts' = [parts EXCEPT ![s.part] = s.etag]
        /\ slips' = IF parts[s.part] > s.etag THEN slips \cup {"late"} ELSE slips
        /\ UNCHANGED <<size, next, worker, uploaded, aborted, upload, object, down, faults>>

\* The file is removed, or the form is left.
Abort ==
    /\ ~aborted /\ upload = "running"
    /\ aborted' = TRUE
    /\ UNCHANGED <<size, next, worker, uploaded, upload, parts, stray, object, down, faults, slips>>

\* A list sorted by part.
Sorted(list) ==
    LET order == CHOOSE f \in Bijection(DOMAIN list, DOMAIN list) :
                    \A i, j \in DOMAIN list : i < j => list[f[i]].part <= list[f[j]].part
    IN [i \in DOMAIN list |-> list[order[i]]]

\* What upload() resolves with; and what the backend sends of it to storage,
\* in whatever order it comes.
PartList     == Sorted(uploaded)
OrderedParts == Sorted(PartList)

\* The object of a list in order: its chunks one after the other, of which
\* only the file's last one may be shorter.
JoinedLen(list) ==
    Len(list) * CiphertextChunk
    - (IF \E i \in DOMAIN list : list[i].part = TotalParts(size)
       THEN TotalParts(size) * ChunkSize - size ELSE 0)

Joined(list) ==
    [u \in 1 .. JoinedLen(list) |->
        Chunk(list[((u - 1) \div CiphertextChunk) + 1].part)[((u - 1) % CiphertextChunk) + 1]]

M_CompleteUnchecked ==
    /\ upload = "running"
    /\ \A w \in Workers : worker[w].at = "done"
    /\ LET list  == OrderedParts
           ok    == /\ list # <<>>
                    /\ \A i \in DOMAIN list : parts[list[i].part] = list[i].etag
                    /\ \A i, j \in DOMAIN list : i < j => list[i].part < list[j].part IN
       /\ upload' = IF ok THEN "completed" ELSE "refused"
       /\ object' = IF ok THEN Joined(list) ELSE <<>>
       /\ slips' = IF aborted /\ Len(list) < TotalParts(size) THEN slips \cup {"short"} ELSE slips
    /\ uploaded' = <<>> /\ stray' = {} /\ parts' = [p \in DOMAIN parts |-> 0]
    /\ UNCHANGED <<size, next, worker, aborted, down, faults>>

\* Promise.all resolves; complete-upload is posted.  Storage wants the parts
\* in order, with the tags it gave; the backend wants the declared size.
Complete ==
    /\ upload = "running"
    /\ \A w \in Workers : worker[w].at = "done"
    /\ LET list  == OrderedParts
           ok    == /\ list # <<>>
                    /\ \A i \in DOMAIN list : parts[list[i].part] = list[i].etag
                    /\ \A i, j \in DOMAIN list : i < j => list[i].part < list[j].part
                    /\ JoinedLen(list) = CiphertextSize(size) IN
       /\ upload' = IF ok THEN "completed" ELSE "refused"
       /\ object' = IF ok THEN Joined(list) ELSE <<>>
       /\ slips' = IF aborted /\ Len(list) < TotalParts(size) THEN slips \cup {"short"} ELSE slips
    /\ uploaded' = <<>> /\ stray' = {} /\ parts' = [p \in DOMAIN parts |-> 0]
    /\ UNCHANGED <<size, next, worker, aborted, down, faults>>

-----------------------------------------------------------------------------
(* handleDownload: the answer to one request. *)

\* parseRange: "bytes=START-END" clamped to the file, or nothing.
ParseRange(h) ==
    IF h = None \/ h.first >= size \/ Least(h.last, size - 1) < h.first THEN None
    ELSE [first |-> h.first, last |-> Least(h.last, size - 1)]

\* The Range headers a browser sends: an open end is one past the file.
Headers == {None} \cup [first : 0 .. size, last : 0 .. size + 1]

\* What sliceStream drops in front, and lets pass.
Skip(r)   == r.first % ChunkSize
Length(r) == r.last - r.first + 1

\* A request without range, or whose If-Range names another entity, gets the
\* whole file; the others are fetched from the chunk that holds the start.
Request(h, fresh) ==
    /\ upload = "completed" /\ get.at = "none"
    /\ LET r  == IF fresh THEN ParseRange(h) ELSE None
           sc == IF r = None THEN 0 ELSE r.first \div ChunkSize IN
       get' = [at |-> "fetch", header |-> IF fresh THEN h ELSE None, range |-> r,
               pos |-> sc * CiphertextChunk, part |-> sc + 1,
               left |-> size - sc * ChunkSize,
               skip |-> IF r = None THEN 0 ELSE Skip(r),
               remaining |-> IF r = None THEN 0 ELSE Length(r)]
    /\ UNCHANGED <<size, up, object, queue, out, told, faults, slips>>

\* Storage answers; or an error; or with the whole object to a range, which
\* is refused.
Fetched ==
    /\ get.at = "fetch"
    /\ \/ /\ get' = [get EXCEPT !.at = "stream"]
          /\ UNCHANGED <<told, faults, slips>>
       \/ /\ Fault /\ slips' = slips \cup {"fault"}
          /\ get' = [get EXCEPT !.at = "errored"]
          /\ told' = told \cup {"failed"}
    /\ UNCHANGED <<size, up, object, queue, out>>

Decrypting      == get.left > ChunkSize /\ Len(queue) >= CiphertextChunk

Errored == get' = [get EXCEPT !.at = "errored"] /\ told' = told \cup {"failed"} /\ UNCHANGED out

\* A piece of the object arrives, of any length.
Arrive ==
    /\ get.at = "stream" /\ ~Decrypting /\ get.pos < Len(object)
    /\ \E n \in 1 .. Len(object) - get.pos :
         /\ queue' = queue \o SubSeq(object, get.pos + 1, get.pos + n)
         /\ get' = [get EXCEPT !.pos = @ + n]
    /\ UNCHANGED <<size, up, object, out, told, faults, slips>>

\* enqueuePlain, then sliceStream: the page hears of the first plaintext;
\* a range that is served in full ends the stream.
Enqueue(plain, g) ==
    /\ told' = IF plain = <<>> THEN told ELSE told \cup {"streaming"}
    /\ IF g.range = None
       THEN out' = out \o plain /\ get' = g
       ELSE LET drop  == Least(g.skip, Len(plain))
                piece == SubSeq(plain, drop + 1, Least(Len(plain), drop + g.remaining)) IN
            /\ out' = out \o piece
            /\ get' = [g EXCEPT !.skip = @ - drop, !.remaining = @ - Len(piece),
                                !.at = IF Len(piece) = g.remaining THEN "closed" ELSE @]

\* transform's loop: a whole chunk that is not the last is decrypted.
Decrypt ==
    /\ get.at = "stream" /\ Decrypting
    /\ LET ct == SubSeq(queue, 1, CiphertextChunk) IN
       /\ queue' = SubSeq(queue, CiphertextChunk + 1, Len(queue))
       /\ IF Intact(ct, get.part)
          THEN Enqueue(Plain(ct), [get EXCEPT !.left = @ - (Len(ct) - Overhead), !.part = @ + 1])
          ELSE Errored
    /\ UNCHANGED <<size, up, object, faults, slips>>

M_FlushUnchecked ==
    /\ get.at = "stream" /\ ~Decrypting /\ get.pos >= Len(object)
    /\ queue' = <<>>
    /\ IF queue = <<>> THEN get' = [get EXCEPT !.at = "closed"] /\ UNCHANGED <<out, told>>
       ELSE IF Intact(queue, get.part)
       THEN Enqueue(Plain(queue), [get EXCEPT !.left = 0, !.at = "closed"])
       ELSE Errored
    /\ UNCHANGED <<size, up, object, faults, slips>>

\* flush: what is left must be the last chunk, of exactly the length that is
\* still expected.
Flush ==
    /\ get.at = "stream" /\ ~Decrypting /\ get.pos >= Len(object)
    /\ queue' = <<>>
    /\ IF Len(queue) = get.left + Overhead /\ Intact(queue, get.part)
       THEN Enqueue(Plain(queue), [get EXCEPT !.left = 0, !.at = "closed"])
       ELSE Errored
    /\ UNCHANGED <<size, up, object, faults, slips>>

\* The connection to storage drops.
Dropped ==
    /\ get.at = "stream" /\ Fault
    /\ slips' = slips \cup {"fault"}
    /\ Errored
    /\ queue' = <<>>
    /\ UNCHANGED <<size, up, object>>

\* The browser cancels: the download manager pauses it.
Cancel ==
    /\ get.at = "stream"
    /\ get' = [get EXCEPT !.at = "cancelled"] /\ told' = told \cup {"interrupted"}
    /\ queue' = <<>>
    /\ UNCHANGED <<size, up, object, out, faults, slips>>

\* What storage holds is not what was put: cut short, or chunks misplaced.
Damage ==
    /\ upload = "completed" /\ get.at = "none" /\ Fault
    /\ slips' = slips \cup {"fault"}
    /\ \/ \E n \in 0 .. Len(object) - 1 : object' = SubSeq(object, 1, n)
       \/ LET c == CiphertextChunk IN
          /\ Len(object) > c
          /\ object' = SubSeq(object, c + 1, Len(object)) \o SubSeq(object, 1, c)
    /\ UNCHANGED <<size, up, down>>

-----------------------------------------------------------------------------
Part(w) == \/ TakePart(w) \/ Awake(w) \/ Signed(w) \/ PartPut(w) \/ PartAborted(w)
Stream  == Fetched \/ Arrive \/ Decrypt \/ Flush

Next ==
    \/ \E w \in Workers : Part(w) \/ NotSigned(w) \/ PartLost(w)
    \/ StrayLands \/ Abort \/ Complete
    \/ \E h \in Headers, fresh \in BOOLEAN : Request(h, fresh)
    \/ Stream \/ Dropped \/ Cancel \/ Damage

Spec == Init /\ [][Next]_vars

\* Requests are answered or fail, timers fire, bytes arrive.
FairSpec ==
    /\ Spec
    /\ \A w \in Workers : WF_vars(Part(w))
    /\ WF_vars(Complete) /\ WF_vars(Stream)

-----------------------------------------------------------------------------
(* Properties. *)

\* The state has its type: parts stay within the file, and the counters of
\* the two streams within their chunk, their range and the object.
TypeOK ==
    /\ size \in Sizes /\ next \in 0 .. TotalParts(size)
    /\ worker \in [Workers -> [at : {"top", "sign", "put", "sleep", "done", "failed", "hung"},
                               part : 0 .. TotalParts(size), try : 0 .. MaxAttempts]]
    /\ uploaded \in Seq([part : 1 .. TotalParts(size), etag : 1 .. MaxAttempts])
    /\ aborted \in BOOLEAN
    /\ upload \in {"running", "rejected", "completed", "refused"}
    /\ parts \in [1 .. TotalParts(size) -> 0 .. MaxAttempts]
    /\ stray \subseteq [part : 1 .. TotalParts(size), etag : 1 .. MaxAttempts]
    /\ Len(object) <= CiphertextSize(size)
    /\ get \in [at : {"none", "fetch", "stream", "closed", "errored", "cancelled"},
                header : Headers, range : {None} \cup [first : 0 .. size, last : 0 .. size],
                pos : 0 .. CiphertextSize(size), part : 0 .. TotalParts(size),
                left : 0 .. size, skip : 0 .. ChunkSize - 1, remaining : 0 .. size]
    /\ told \subseteq {"streaming", "failed", "interrupted"}
    /\ faults \in 0 .. MaxFaults /\ slips \subseteq Slips

\* The plaintext a request is owed.
Owed ==
    LET h == get.header
        lo == IF ParseRange(h) = None THEN 0 ELSE h.first
        hi == IF ParseRange(h) = None THEN size - 1 ELSE Least(h.last, size - 1) IN
    [i \in 1 .. hi - lo + 1 |-> lo + i - 1]

\* Whatever storage serves, and however the network cuts it up, what the
\* browser gets is the beginning of what it asked for, and all of it when the
\* stream ends well: nothing misplaced, repeated, or cut off unnoticed.
ServedIsOwed ==
    /\ IsPrefix(out, Owed)
    /\ get.at = "closed" => out = Owed

\* An upload whose parts were all acknowledged is accepted, and what it left
\* decrypts: a stream fails only if storage or the network did.
CompletedIsReadable ==
    /\ upload = "refused" => slips \cap {"short", "late"} # {}
    /\ get.at = "errored" => "fault" \in slips

\* The upload settles, abort or not, unless a part reached its PUT after the
\* abort; every request for the file ends, and then the page has heard of it
\* ("so the click does not stay pending", sw.js).
RouteSettles ==
    /\ <>(upload # "running" \/ "hung" \in slips)
    /\ get.at = "fetch" ~> get.at \in {"closed", "errored", "cancelled"} /\ told # {}
=============================================================================
