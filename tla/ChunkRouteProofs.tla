---------------------------- MODULE ChunkRouteProofs ----------------------------
(***************************************************************************)
(* What ChunkRoute promises in every state, for all file sizes, chunk      *)
(* sizes, workers, attempts and faults.                                    *)
(*                                                                         *)
(* On the way up every part is with one worker or on the list, and storage *)
(* holds the attempt that was acknowledged; hence the list of an upload    *)
(* that was not cut short has every part once, and in order it is the      *)
(* object.  On the way down the stream stands at a chunk boundary: what is *)
(* queued is what the object holds from there, what was handed out is what *)
(* is owed up to there, and a chunk that decrypts is the one that belongs  *)
(* there, whatever happened to the object.                                 *)
(***************************************************************************)
EXTENDS ChunkRoute, FiniteSetTheorems, TLAPS

-----------------------------------------------------------------------------
(* The inductive invariant. *)

\* A worker that has a part.
Holding(w) == worker[w].at \notin {"top", "done"}

\* A part is with one worker; those that return found none left.
WorkInv == \A w \in Workers :
    /\ Holding(w) => worker[w].part \in 1 .. next /\ worker[w].try \in 1 .. MaxAttempts
    /\ worker[w].at = "sleep" => worker[w].try < MaxAttempts
    /\ worker[w].at = "failed" => upload # "running"
    /\ worker[w].at = "done" => aborted \/ next = TotalParts(size)
    /\ upload \in {"completed", "refused"} => worker[w].at = "done"
    /\ \A v \in Workers : Holding(w) /\ Holding(v) /\ worker[v].part = worker[w].part => v = w

\* A part that was taken is with a worker or on the list, which names it once.
ListInv ==
    /\ \A i \in DOMAIN uploaded :
         /\ uploaded[i].part <= next
         /\ \A w \in Workers : Holding(w) => worker[w].part # uploaded[i].part
         /\ \A j \in DOMAIN uploaded : uploaded[j].part = uploaded[i].part => j = i
    /\ upload = "running" => \A p \in 1 .. next :
         \/ \E i \in DOMAIN uploaded : uploaded[i].part = p
         \/ \E w \in Workers : Holding(w) /\ worker[w].part = p

\* Storage holds the attempt that was acknowledged; those given up are older.
StoreInv ==
    /\ \A i \in DOMAIN uploaded :
         /\ "late" \notin slips => parts[uploaded[i].part] = uploaded[i].etag
         /\ \A s \in stray : s.part = uploaded[i].part => s.etag < uploaded[i].etag
    /\ \A s \in stray :
         /\ s.part <= next
         /\ \A w \in Workers : Holding(w) /\ worker[w].part = s.part =>
              \/ s.etag < worker[w].try
              \/ s.etag = worker[w].try /\ worker[w].at \in {"sleep", "failed"}

\* The units of the file's chunks, and the length of a chunk's plaintext.
Unit(p, k) == [aad |-> Aad(p), blob |-> Blob(p), k |-> k]
Units      == {Unit(p, k) : p \in 1 .. TotalParts(size), k \in 1 .. CiphertextChunk}
PlainLen(p) == IF p < TotalParts(size) THEN ChunkSize
               ELSE size - (TotalParts(size) - 1) * ChunkSize

\* The object is made of such units; undamaged, of all of them in order.
Whole == /\ Len(object) = CiphertextSize(size)
         /\ \A p \in 1 .. TotalParts(size) : \A k \in 1 .. PlainLen(p) + Overhead :
              object[(p - 1) * CiphertextChunk + k] = Unit(p, k)
ObjectInv ==
    /\ object \in Seq(Units)
    /\ upload = "completed" /\ "fault" \notin slips => Whole

\* The first unit that is owed, and how many.
First  == IF get.range = None THEN 0 ELSE get.range.first
Amount == IF get.range = None THEN size ELSE Length(get.range)

Open == get.at \in {"fetch", "stream"}

\* The range is the header's; nothing is asked before the object is complete.
AskInv ==
    /\ get.range = ParseRange(get.header)
    /\ get.at = "none" => get.header = None
    /\ get.at \in {"none", "fetch"} => out = <<>> /\ queue = <<>>
    /\ get.at # "none" => upload = "completed"

\* An open stream stands at a chunk boundary: the queue is what the object
\* holds from there.
QueueInv ==
    /\ queue \in Seq(Units)
    /\ Open =>
         /\ get.part \in 1 .. TotalParts(size)
         /\ get.left = size - (get.part - 1) * ChunkSize
         /\ get.pos = (get.part - 1) * CiphertextChunk + Len(queue)
         /\ queue # <<>> => get.pos <= Len(object)
         /\ \A i \in 1 .. Len(queue) : queue[i] = object[(get.part - 1) * CiphertextChunk + i]

\* What was handed out begins at the first unit owed, and reaches up to the
\* boundary, but for what a range skips.
OutInv ==
    /\ out \in Seq(Nat)
    /\ Len(out) <= Amount
    /\ \A i \in 1 .. Len(out) : out[i] = First + i - 1
    /\ get.at = "closed" => Len(out) = Amount
    /\ Open =>
         /\ First + Len(out) = (get.part - 1) * ChunkSize + get.skip
         /\ IF get.range = None THEN get.skip = 0
            ELSE Len(out) + get.remaining = Amount /\ get.remaining > 0

IInv == /\ TypeOK /\ WorkInv /\ ListInv /\ StoreInv /\ ObjectInv /\ AskInv /\ QueueInv
        /\ OutInv /\ CompletedIsReadable

-----------------------------------------------------------------------------
(* The layout: parts, chunks, and where a unit of the object is. *)

\* The parts of a file cover it, and the last one is not empty.
LEMMA PartCount == ASSUME NEW n \in Nat \ {0}
                   PROVE  /\ TotalParts(n) \in Nat \ {0}
                          /\ (TotalParts(n) - 1) * ChunkSize < n
                          /\ n <= TotalParts(n) * ChunkSize
<1> DEFINE t == (n + ChunkSize - 1) \div ChunkSize
<1>1. ChunkSize \in Nat \ {0}
  BY SizesAssumption
<1>2. TotalParts(n) = t
  BY DEF TotalParts, CeilDiv
<1>3. t \in Nat \ {0} /\ (t - 1) * ChunkSize < n /\ n <= t * ChunkSize
  BY <1>1
<1>. QED
  BY <1>2, <1>3

\* A quotient and a remainder are those of the number they make.
LEMMA Division == ASSUME NEW a \in Nat, NEW c \in Nat \ {0}, NEW k \in 0 .. c - 1
                  PROVE  (a * c + k) \div c = a /\ (a * c + k) % c = k
  OBVIOUS

\* A number is made of its quotient and its remainder.
LEMMA Divided == ASSUME NEW u \in Nat, NEW c \in Nat \ {0}
                 PROVE  u \div c \in Nat /\ u % c \in 0 .. c - 1 /\ u = (u \div c) * c + (u % c)
  OBVIOUS

\* Multiples are ordered as their factors.
LEMMA Multiples == ASSUME NEW a \in Int, NEW b \in Int, NEW c \in Nat, a <= b
                   PROVE  a * c <= b * c
  OBVIOUS

\* The state of the file: it has parts, and a chunk is longer than nothing.
LEMMA Sized == ASSUME TypeOK
               PROVE  /\ size \in Nat \ {0} /\ ChunkSize \in Nat \ {0}
                      /\ TotalParts(size) \in Nat \ {0}
                      /\ (TotalParts(size) - 1) * ChunkSize < size
                      /\ size <= TotalParts(size) * ChunkSize
                      /\ CiphertextChunk = ChunkSize + 1 /\ Overhead = 1
                      /\ CiphertextSize(size) = size + TotalParts(size)
<1>1. size \in Nat \ {0} /\ ChunkSize \in Nat \ {0}
  BY SizesAssumption DEF TypeOK
<1>2. CiphertextSize(size) = size + TotalParts(size)
  <2>1. TotalParts(size) = CeilDiv(size, ChunkSize)
    BY <1>1 DEF TotalParts
  <2>2. TotalParts(size) \in Nat
    BY <1>1, PartCount
  <2>. QED
    BY <1>1, <2>1, <2>2 DEF CiphertextSize, Overhead
<1>. QED
  BY <1>1, <1>2, PartCount DEF CiphertextChunk, Overhead

\* A part of the file holds the plaintext of its chunk.
LEMMA Blobs == ASSUME TypeOK, NEW p \in 1 .. TotalParts(size)
               PROVE  /\ PlainLen(p) \in 1 .. ChunkSize
                      /\ Blob(p).first = (p - 1) * ChunkSize /\ Blob(p).first \in Nat
                      /\ Blob(p).last - Blob(p).first + 1 = PlainLen(p)
                      /\ Blob(p).first + PlainLen(p) <= size
                      /\ p < TotalParts(size) => Blob(p).first + PlainLen(p) = p * ChunkSize
                      /\ p = TotalParts(size) => Blob(p).first + PlainLen(p) = size
<1> DEFINE t == TotalParts(size)
<1>1. /\ size \in Nat /\ ChunkSize \in Nat \ {0} /\ t \in Nat \ {0}
      /\ (t - 1) * ChunkSize < size /\ size <= t * ChunkSize
  BY Sized
<1>2. p \in Nat /\ p <= t /\ p >= 1
  BY <1>1
<1>3. /\ (p - 1) * ChunkSize \in Nat /\ p * ChunkSize = (p - 1) * ChunkSize + ChunkSize
      /\ t * ChunkSize = (t - 1) * ChunkSize + ChunkSize /\ (t - 1) * ChunkSize \in Nat
      /\ p * ChunkSize \in Nat
  BY <1>1, <1>2
<1>4. CASE p < t
  <2>1. p * ChunkSize <= (t - 1) * ChunkSize
    BY <1>1, <1>2, <1>4, Multiples
  <2>2. Least(p * ChunkSize, size) = p * ChunkSize
    BY <1>1, <1>3, <2>1 DEF Least
  <2>. QED
    BY <1>1, <1>2, <1>3, <1>4, <2>1, <2>2 DEF Blob, PlainLen
<1>5. CASE p = t
  <2>1. Least(p * ChunkSize, size) = size
    BY <1>1, <1>5 DEF Least
  <2>. QED
    BY <1>1, <1>3, <1>5, <2>1 DEF Blob, PlainLen
<1>6. p < t \/ p = t
  BY <1>1, <1>2
<1>. QED
  BY <1>4, <1>5, <1>6

\* A chunk has the units of its part, in order.
LEMMA Chunks == ASSUME TypeOK, NEW p \in 1 .. TotalParts(size)
                PROVE  Chunk(p) = [k \in 1 .. PlainLen(p) + Overhead |-> Unit(p, k)]
  BY Blobs DEF Chunk, Unit

\* Different chunks have different units.
LEMMA UnitIs == ASSUME TypeOK, NEW u \in Units, u.aad.n \in Nat
                PROVE  /\ u.aad.n \in 1 .. TotalParts(size)
                       /\ u.blob = Blob(u.aad.n)
  BY DEF Units, Unit, Aad

-----------------------------------------------------------------------------
(* What the steps of the upload do. *)

Entries == [part : 1 .. TotalParts(size), etag : 1 .. MaxAttempts]
WorkRecs == [at : {"top", "sign", "put", "sleep", "done", "failed", "hung"},
             part : 0 .. TotalParts(size), try : 0 .. MaxAttempts]

\* The state of the upload has its type.
LEMMA UpTyped == ASSUME TypeOK
                 PROVE  /\ worker \in [Workers -> WorkRecs] /\ next \in 0 .. TotalParts(size)
                        /\ uploaded \in Seq(Entries) /\ stray \subseteq Entries
                        /\ parts \in [1 .. TotalParts(size) -> 0 .. MaxAttempts]
                        /\ aborted \in BOOLEAN /\ slips \subseteq Slips
                        /\ upload \in {"running", "rejected", "completed", "refused"}
  BY DEF TypeOK, Entries, WorkRecs

\* Only w moves.
Alone(w) == /\ worker' \in [Workers -> WorkRecs]
            /\ \A v \in Workers : v # w => worker'[v] = worker[v]

\* A worker's place changes, and nothing else of it.
LEMMA PlaceStep ==
    ASSUME TypeOK, NEW w \in Workers,
           NEW a \in {"top", "sign", "put", "sleep", "done", "failed", "hung"},
           worker' = [worker EXCEPT ![w].at = a]
    PROVE  /\ Alone(w)
           /\ worker'[w].at = a /\ worker'[w].part = worker[w].part
           /\ worker'[w].try = worker[w].try
<1>1. worker \in [Workers -> WorkRecs]
  BY UpTyped
<1>. QED
  BY <1>1 DEF Alone, WorkRecs

\* w keeps its part, and goes on, waits or fails.
Keeps(w) ==
    /\ Alone(w) /\ worker[w].at \in {"sign", "put", "sleep"}
    /\ worker'[w].part = worker[w].part /\ worker'[w].at \in {"sign", "put", "sleep", "failed", "hung"}
    /\ \/ worker[w].at # "sleep" /\ worker'[w].try = worker[w].try
       \/ worker[w].at = "sleep" /\ worker'[w].at = "sign" /\ worker'[w].try = worker[w].try + 1
       \/ worker[w].at = "sleep" /\ worker'[w].at = "failed" /\ worker'[w].try = worker[w].try
    /\ worker'[w].at = "sleep" => worker[w].try # MaxAttempts
    /\ worker'[w].at = "failed" => upload' # "running"
    /\ upload' = upload \/ (upload = "running" /\ upload' = "rejected")

\* A worker takes the next part, or returns.
LEMMA TakePartStep ==
    ASSUME IInv, NEW w \in Workers, TakePart(w)
    PROVE  /\ Alone(w) /\ worker[w].at = "top"
           /\ \/ worker'[w].at = "done" /\ next' = next /\ (aborted \/ next = TotalParts(size))
              \/ /\ worker'[w] = [at |-> "sign", part |-> next + 1, try |-> 1]
                 /\ next' = next + 1 /\ next < TotalParts(size)
           /\ UNCHANGED <<size, uploaded, aborted, upload, parts, stray, object, down, slips>>
<1>1. TypeOK /\ TotalParts(size) \in Nat \ {0} /\ MaxAttempts \in Nat \ {0}
  BY Sized, BoundsAssumption DEF IInv
<1>2. /\ worker \in [Workers -> WorkRecs] /\ next \in 0 .. TotalParts(size)
      /\ Least(next + 1, TotalParts(size)) = IF next >= TotalParts(size) THEN next ELSE next + 1
  BY <1>1, UpTyped DEF Least
<1>3. CASE aborted \/ next >= TotalParts(size)
  <2>1. worker' = [worker EXCEPT ![w].at = "done"] /\ next' = next
    BY <1>2, <1>3 DEF TakePart
  <2>. QED
    BY <1>1, <1>2, <1>3, <2>1 DEF TakePart, Alone, WorkRecs
<1>4. CASE ~aborted /\ next < TotalParts(size)
  <2>1. /\ worker' = [worker EXCEPT ![w] = [at |-> "sign", part |-> next + 1, try |-> 1]]
        /\ next' = next + 1
    BY <1>1, <1>2, <1>4 DEF TakePart
  <2>. QED
    BY <1>1, <1>2, <1>4, <2>1 DEF TakePart, Alone, WorkRecs
<1>. QED
  BY <1>1, <1>2, <1>3, <1>4

\* A failed attempt leaves the part with its worker.
LEMMA RethrownStep ==
    ASSUME IInv, NEW w \in Workers, Rethrown(w), worker[w].at \in {"sign", "put"}
    PROVE  Keeps(w) /\ worker'[w].at \in {"sleep", "failed"}
<1>1. worker \in [Workers -> WorkRecs] /\ upload \in {"running", "rejected", "completed", "refused"}
  BY UpTyped DEF IInv
<1>2. CASE aborted \/ worker[w].try = MaxAttempts
  <2>1. worker' = [worker EXCEPT ![w].at = "failed"]
    BY <1>2 DEF Rethrown
  <2>2. /\ Alone(w) /\ worker'[w].at = "failed" /\ worker'[w].part = worker[w].part
        /\ worker'[w].try = worker[w].try
    BY <2>1, PlaceStep DEF IInv
  <2>. QED
    BY <1>1, <1>2, <2>2 DEF Rethrown, Keeps
<1>3. CASE ~(aborted \/ worker[w].try = MaxAttempts)
  <2>1. worker' = [worker EXCEPT ![w].at = "sleep"]
    BY <1>3 DEF Rethrown
  <2>2. /\ Alone(w) /\ worker'[w].at = "sleep" /\ worker'[w].part = worker[w].part
        /\ worker'[w].try = worker[w].try
    BY <2>1, PlaceStep DEF IInv
  <2>. QED
    BY <1>1, <1>3, <2>2 DEF Rethrown, Keeps
<1>. QED
  BY <1>2, <1>3

\* Signing, waiting and failing.
LEMMA KeepStep ==
    ASSUME IInv, NEW w \in Workers, Awake(w) \/ Signed(w) \/ PartAborted(w) \/ NotSigned(w)
    PROVE  /\ Keeps(w) /\ slips' \cap {"late", "short"} = slips \cap {"late", "short"}
           /\ slips \subseteq slips'
           /\ UNCHANGED <<size, next, uploaded, aborted, parts, stray, object, down>>
<1>1. /\ worker \in [Workers -> WorkRecs] /\ upload \in {"running", "rejected", "completed", "refused"}
      /\ MaxAttempts \in Nat
  BY UpTyped, BoundsAssumption DEF IInv
<1>2. ASSUME Awake(w) PROVE Keeps(w)
  <2>1. worker[w].try + 1 \in 0 .. MaxAttempts /\ worker[w].try \in Nat
    BY <1>1, <1>2 DEF Awake, IInv, WorkInv, WorkRecs
  <2>2. CASE aborted
    <3>1. worker' = [worker EXCEPT ![w].at = "failed"]
      BY <1>2, <2>2 DEF Awake
    <3>2. /\ Alone(w) /\ worker'[w].at = "failed" /\ worker'[w].part = worker[w].part
          /\ worker'[w].try = worker[w].try
      BY <3>1, PlaceStep DEF IInv
    <3>. QED
      BY <1>1, <1>2, <2>2, <3>2 DEF Awake, Keeps
  <2>3. CASE ~aborted
    <3>1. worker' = [worker EXCEPT ![w] = [at |-> "sign", part |-> worker[w].part,
                                            try |-> worker[w].try + 1]]
      BY <1>1, <1>2, <2>3 DEF Awake, WorkRecs
    <3>. QED
      BY <1>1, <1>2, <2>1, <2>3, <3>1 DEF Awake, Keeps, Alone, WorkRecs
  <2>. QED
    BY <2>2, <2>3
<1>3. ASSUME Signed(w) PROVE Keeps(w)
  <2>1. PICK a \in {"hung", "put"} : worker' = [worker EXCEPT ![w].at = a]
    BY <1>3 DEF Signed
  <2>2. /\ Alone(w) /\ worker'[w].at = a /\ worker'[w].part = worker[w].part
        /\ worker'[w].try = worker[w].try
    BY <2>1, PlaceStep DEF IInv
  <2>. QED
    BY <1>1, <1>3, <2>2 DEF Signed, Keeps
<1>4. ASSUME PartAborted(w) \/ NotSigned(w) PROVE Keeps(w)
  BY <1>4, RethrownStep DEF PartAborted, NotSigned
<1>. QED
  BY <1>2, <1>3, <1>4 DEF Awake, Signed, PartAborted, NotSigned

\* Storage takes a part.
LEMMA PartPutStep ==
    ASSUME IInv, NEW w \in Workers, PartPut(w)
    PROVE  LET n == Len(uploaded) + 1 IN
           /\ Alone(w) /\ worker[w].at = "put" /\ worker'[w].at = "top"
           /\ uploaded' \in Seq(Entries) /\ Len(uploaded') = n /\ n \in Nat
           /\ uploaded'[n].part = worker[w].part /\ uploaded'[n].etag = worker[w].try
           /\ \A i \in 1 .. n - 1 : uploaded'[i] = uploaded[i]
           /\ parts' = [parts EXCEPT ![worker[w].part] = worker[w].try]
           /\ UNCHANGED <<size, next, aborted, upload, stray, object, down, slips>>
<1>1. /\ worker \in [Workers -> WorkRecs] /\ uploaded \in Seq(Entries)
      /\ TotalParts(size) \in Nat /\ MaxAttempts \in Nat /\ next \in 0 .. TotalParts(size)
  BY UpTyped, Sized, BoundsAssumption DEF IInv
<1>2. worker[w].part \in 1 .. TotalParts(size) /\ worker[w].try \in 1 .. MaxAttempts
  BY <1>1 DEF PartPut, IInv, WorkInv, Holding
<1> DEFINE e == [part |-> worker[w].part, etag |-> worker[w].try]
<1>3. e \in Entries /\ uploaded' = Append(uploaded, e)
  BY <1>2 DEF PartPut, Entries
<1>4. Alone(w) /\ worker'[w].at = "top"
  BY <1>1 DEF PartPut, Alone, WorkRecs, Resting
<1>. QED
  BY <1>1, <1>3, <1>4 DEF PartPut

\* A part is given up: it landed, did not, or may still land.
LEMMA PartLostStep ==
    ASSUME IInv, NEW w \in Workers, PartLost(w)
    PROVE  LET p == worker[w].part
               t == worker[w].try IN
           /\ Keeps(w) /\ worker[w].at = "put" /\ worker'[w].at \in {"sleep", "failed"}
           /\ \/ UNCHANGED <<parts, stray>>
              \/ parts' = [parts EXCEPT ![p] = t] /\ UNCHANGED stray
              \/ stray' = stray \cup {[part |-> p, etag |-> t]} /\ UNCHANGED parts
           /\ p \in 1 .. TotalParts(size) /\ t \in 1 .. MaxAttempts /\ p <= next
           /\ slips' = slips \cup {"fault"}
           /\ UNCHANGED <<size, next, uploaded, aborted, object, down>>
<1>1. worker[w].at = "put" /\ Keeps(w) /\ worker'[w].at \in {"sleep", "failed"}
  BY RethrownStep DEF PartLost
<1>2. TotalParts(size) \in Nat /\ next \in 0 .. TotalParts(size)
  BY UpTyped, Sized DEF IInv
<1>3. /\ worker[w].part \in 1 .. TotalParts(size) /\ worker[w].try \in 1 .. MaxAttempts
      /\ worker[w].part <= next
  BY <1>1, <1>2 DEF IInv, WorkInv, Holding
<1>. QED
  BY <1>1, <1>3 DEF PartLost

-----------------------------------------------------------------------------
(* The list an upload resolves with, and the object made of it. *)

\* The list names every part once.
Full == /\ \A i \in DOMAIN uploaded : uploaded[i].part \in 1 .. TotalParts(size)
        /\ \A i, j \in DOMAIN uploaded : uploaded[i].part = uploaded[j].part => i = j
        /\ \A p \in 1 .. TotalParts(size) : \E i \in DOMAIN uploaded : uploaded[i].part = p

\* The interval from one has so many elements.
LEMMA Counted == ASSUME NEW n \in Nat PROVE IsFiniteSet(1 .. n) /\ Cardinality(1 .. n) = n
<1>1. Cardinality(1 .. n) = IF 1 > n THEN 0 ELSE n - 1 + 1
  BY FS_Interval
<1>2. IsFiniteSet(1 .. n)
  BY FS_Interval
<1>. QED
  BY <1>1, <1>2

\* A list is not longer than the file has parts, and full if it is as long.
LEMMA ListLength ==
    ASSUME IInv
    PROVE  LET n == Len(uploaded) IN
           /\ n \in Nat /\ n <= TotalParts(size)
           /\ n = TotalParts(size) <=> Full
<1> DEFINE n == Len(uploaded)
           t == TotalParts(size)
           f == [i \in 1 .. n |-> uploaded[i].part]
<1>1. n \in Nat /\ DOMAIN uploaded = 1 .. n /\ t \in Nat
  BY UpTyped, Sized DEF IInv
<1>2. \A i \in 1 .. n : uploaded[i].part \in 1 .. t
  <2>1. \A i \in 1 .. n : uploaded[i] \in Entries
    BY <1>1, UpTyped DEF IInv
  <2>. QED
    BY <2>1 DEF Entries
<1>3. \A i, j \in 1 .. n : uploaded[i].part = uploaded[j].part => i = j
  BY <1>1 DEF IInv, ListInv
<1>4. f \in Injection(1 .. n, 1 .. t)
  BY <1>2, <1>3 DEF Injection, IsInjective
<1>5. /\ IsFiniteSet(1 .. t) /\ Cardinality(1 .. t) = t /\ Cardinality(1 .. n) = n
  BY <1>1, Counted
<1>6. n <= t /\ (n = t <=> f \in Surjection(1 .. n, 1 .. t))
  BY <1>4, <1>5, FS_Injection
<1>7. f \in Surjection(1 .. n, 1 .. t) <=> \A p \in 1 .. t : \E i \in 1 .. n : uploaded[i].part = p
  BY <1>2 DEF Surjection
<1>. QED
  BY <1>1, <1>2, <1>3, <1>6, <1>7 DEF Full

\* A list that has every part of the file once.
HasAll(list) ==
    /\ list \in [1 .. TotalParts(size) -> Entries]
    /\ \A i, j \in 1 .. TotalParts(size) : list[i].part = list[j].part => i = j
    /\ \A p \in 1 .. TotalParts(size) : \E i \in 1 .. TotalParts(size) : list[i].part = p

\* Sorting puts the parts of such a list in their places.
LEMMA Sorting ==
    ASSUME IInv, NEW list, HasAll(list)
    PROVE  /\ Sorted(list) \in [1 .. TotalParts(size) -> Entries]
           /\ \A p \in 1 .. TotalParts(size) : Sorted(list)[p].part = p
           /\ \A p \in 1 .. TotalParts(size) :
                \E i \in 1 .. TotalParts(size) : Sorted(list)[p] = list[i]
<1> DEFINE t == TotalParts(size)
           Sorts(g) == \A i, j \in DOMAIN list :
                          i < j => list[g[i]].part <= list[g[j]].part
           order == CHOOSE g \in Bijection(DOMAIN list, DOMAIN list) : Sorts(g)
<1>1. t \in Nat /\ DOMAIN list = 1 .. t /\ list \in [1 .. t -> Entries]
  BY Sized DEF IInv, HasAll
<1>2. order \in Bijection(1 .. t, 1 .. t) /\ Sorts(order)
  <2> DEFINE g == [p \in 1 .. t |-> CHOOSE i \in 1 .. t : list[i].part = p]
  <2>1. \A p \in 1 .. t : g[p] \in 1 .. t /\ list[g[p]].part = p
    BY <1>1 DEF HasAll
  <2>2. \A i \in 1 .. t : list[i].part \in 1 .. t /\ g[list[i].part] = i
    BY <1>1, <2>1 DEF HasAll, Entries
  <2>a. g \in [1 .. t -> 1 .. t]
    BY <2>1
  <2> HIDE DEF g
  <2>b. \A p, o \in 1 .. t : g[p] = g[o] => p = o
    BY <2>1
  <2>3. g \in Bijection(1 .. t, 1 .. t)
    BY <2>a, <2>b, <2>2 DEF Bijection, Injection, Surjection, IsInjective
  <2>4. Sorts(g)
    <3> SUFFICES ASSUME NEW i \in 1 .. t, NEW j \in 1 .. t, i < j
                 PROVE  list[g[i]].part <= list[g[j]].part
      BY <1>1
    <3>. QED
      BY <2>1, <1>1
  <2>. QED
    BY <1>1, <2>3, <2>4
<1>3. Sorted(list) = [i \in 1 .. t |-> list[order[i]]]
  BY <1>1 DEF Sorted
<1> HIDE DEF order
<1>4. /\ \A i \in 1 .. t : order[i] \in 1 .. t
      /\ \A i, j \in 1 .. t : order[i] = order[j] => i = j
      /\ \A k \in 1 .. t : \E i \in 1 .. t : order[i] = k
  BY <1>2 DEF Bijection, Injection, Surjection, IsInjective
<1> DEFINE q(i) == list[order[i]].part
<1>5. \A i \in 1 .. t : q(i) \in 1 .. t
  BY <1>1, <1>4 DEF HasAll, Entries
<1>6. \A i, j \in 1 .. t : i < j => q(i) < q(j)
  <2> SUFFICES ASSUME NEW i \in 1 .. t, NEW j \in 1 .. t, i < j PROVE q(i) < q(j)
    OBVIOUS
  <2>1. q(i) <= q(j)
    BY <1>1, <1>2
  <2>2. order[i] \in 1 .. t /\ order[j] \in 1 .. t /\ order[i] # order[j]
    BY <1>1, <1>4
  <2>3. q(i) # q(j)
    BY <1>1, <2>2 DEF HasAll
  <2>. QED
    BY <1>1, <1>5, <2>1, <2>3
<1>7. \A p \in 1 .. t : \E i \in 1 .. t : q(i) = p
  <2> SUFFICES ASSUME NEW p \in 1 .. t PROVE \E i \in 1 .. t : q(i) = p
    OBVIOUS
  <2>1. PICK k \in 1 .. t : list[k].part = p
    BY <1>1 DEF HasAll
  <2>2. PICK i \in 1 .. t : order[i] = k
    BY <1>4
  <2>. QED
    BY <2>1, <2>2
<1>8. ASSUME NEW i \in 1 .. t PROVE q(i) = i
  <2> DEFINE h == [j \in 1 .. i - 1 |-> q(j)]
  <2>1. \A j \in 1 .. i - 1 : q(j) \in 1 .. q(i) - 1
    BY <1>1, <1>5, <1>6
  <2>2. \A j, k \in 1 .. i - 1 : q(j) = q(k) => j = k
    BY <1>1, <1>5, <1>6
  <2>3. \A p \in 1 .. q(i) - 1 : \E j \in 1 .. i - 1 : q(j) = p
    <3> SUFFICES ASSUME NEW p \in 1 .. q(i) - 1 PROVE \E j \in 1 .. i - 1 : q(j) = p
      OBVIOUS
    <3>0. q(i) \in 1 .. t /\ p \in 1 .. t
      BY <1>1, <1>5
    <3>1. PICK j \in 1 .. t : q(j) = p
      BY <3>0, <1>7
    <3>2. j < i
      BY <1>1, <1>5, <1>6, <3>1
    <3>. QED
      BY <1>1, <3>1, <3>2
  <2> HIDE DEF q
  <2>4. h \in Bijection(1 .. i - 1, 1 .. q(i) - 1)
    BY <2>1, <2>2, <2>3 DEF Bijection, Injection, Surjection, IsInjective
  <2>5. ExistsBijection(1 .. i - 1, 1 .. q(i) - 1)
    BY <2>4 DEF ExistsBijection
  <2>6. /\ i \in Nat /\ q(i) \in Nat /\ i >= 1 /\ q(i) >= 1
    BY <1>1, <1>5
  <2>7. IsFiniteSet(1 .. i - 1) /\ Cardinality(1 .. i - 1) = i - 1
    BY <2>6, Counted
  <2>8. Cardinality(1 .. q(i) - 1) = q(i) - 1
    BY <2>6, Counted
  <2>9. Cardinality(1 .. q(i) - 1) = Cardinality(1 .. i - 1)
    BY <2>5, <2>7, FS_Bijection
  <2>. QED
    BY <2>6, <2>7, <2>8, <2>9
<1>9. \A i \in 1 .. t : /\ Sorted(list)[i] = list[order[i]] /\ order[i] \in 1 .. t
                       /\ list[order[i]] \in Entries /\ list[order[i]].part = i
  BY <1>1, <1>3, <1>4, <1>8
<1>10. Sorted(list) \in [1 .. t -> Entries]
  BY <1>3, <1>9
<1>. QED
  BY <1>9, <1>10

\* Sorting keeps the length.
LEMMA SortedLength ==
    ASSUME NEW list, NEW n \in Nat, DOMAIN list = 1 .. n
    PROVE  DOMAIN Sorted(list) = 1 .. n /\ Len(Sorted(list)) = n
<1> DEFINE order == CHOOSE f \in Bijection(DOMAIN list, DOMAIN list) :
                       \A i, j \in DOMAIN list : i < j => list[f[i]].part <= list[f[j]].part
<1>1. Sorted(list) = [i \in DOMAIN list |-> list[order[i]]]
  BY DEF Sorted
<1> HIDE DEF order
<1>2. DOMAIN Sorted(list) = 1 .. n
  BY <1>1
<1>3. Sorted(list) \in Seq({list[order[i]] : i \in 1 .. n})
  BY <1>1
<1>. QED
  BY <1>2, <1>3

\* The page sorts a full list, and the backend sorts it again.
LEMMA SortedList ==
    ASSUME IInv, Full
    PROVE  /\ OrderedParts \in [1 .. TotalParts(size) -> Entries]
           /\ \A p \in 1 .. TotalParts(size) : OrderedParts[p].part = p
           /\ \A p \in 1 .. TotalParts(size) : \E i \in DOMAIN uploaded : OrderedParts[p] = uploaded[i]
<1>1. DOMAIN uploaded = 1 .. TotalParts(size) /\ HasAll(uploaded)
  <2>1. uploaded \in Seq(Entries) /\ Len(uploaded) = TotalParts(size) /\ TotalParts(size) \in Nat
    BY UpTyped, Sized, ListLength DEF IInv
  <2>2. DOMAIN uploaded = 1 .. TotalParts(size) /\ uploaded \in [1 .. TotalParts(size) -> Entries]
    BY <2>1
  <2>. QED
    BY <2>2 DEF Full, HasAll
<1>2. /\ PartList \in [1 .. TotalParts(size) -> Entries]
      /\ \A p \in 1 .. TotalParts(size) : PartList[p].part = p
      /\ \A p \in 1 .. TotalParts(size) : \E i \in DOMAIN uploaded : PartList[p] = uploaded[i]
  <2>1. /\ Sorted(uploaded) \in [1 .. TotalParts(size) -> Entries]
        /\ \A p \in 1 .. TotalParts(size) : Sorted(uploaded)[p].part = p
        /\ \A p \in 1 .. TotalParts(size) :
             \E i \in 1 .. TotalParts(size) : Sorted(uploaded)[p] = uploaded[i]
    BY ONLY IInv, <1>1, Sorting
  <2>2. PartList = Sorted(uploaded)
    BY ONLY DEF PartList
  <2>. QED
    BY ONLY <1>1, <2>1, <2>2
<1>3. HasAll(PartList)
  <2>1. \A p \in 1 .. TotalParts(size) : \E i \in 1 .. TotalParts(size) : PartList[i].part = p
    BY <1>2
  <2>. QED
    BY <1>2, <2>1 DEF HasAll
<1>4. /\ OrderedParts \in [1 .. TotalParts(size) -> Entries]
      /\ \A p \in 1 .. TotalParts(size) : OrderedParts[p].part = p
      /\ \A p \in 1 .. TotalParts(size) :
           \E i \in 1 .. TotalParts(size) : OrderedParts[p] = PartList[i]
  <2>1. /\ Sorted(PartList) \in [1 .. TotalParts(size) -> Entries]
        /\ \A p \in 1 .. TotalParts(size) : Sorted(PartList)[p].part = p
        /\ \A p \in 1 .. TotalParts(size) :
             \E i \in 1 .. TotalParts(size) : Sorted(PartList)[p] = PartList[i]
    BY ONLY IInv, <1>3, Sorting
  <2>2. OrderedParts = Sorted(PartList)
    BY ONLY DEF OrderedParts
  <2>. QED
    BY ONLY <2>1, <2>2
<1>. QED
  BY <1>2, <1>4

\* A full list makes the whole object.
LEMMA JoinedWhole ==
    ASSUME IInv, Full
    PROVE  LET o == Joined(OrderedParts) IN
           /\ JoinedLen(OrderedParts) = CiphertextSize(size)
           /\ o \in Seq(Units) /\ Len(o) = CiphertextSize(size)
           /\ \A p \in 1 .. TotalParts(size) : \A k \in 1 .. PlainLen(p) + Overhead :
                o[(p - 1) * CiphertextChunk + k] = Unit(p, k)
<1> DEFINE t == TotalParts(size)
           c == CiphertextChunk
           n == CiphertextSize(size)
           o == Joined(OrderedParts)
           Splits(a, m) == (a * c + m) \div c = a /\ (a * c + m) % c = m
           Found(p, k) == o[(p - 1) * c + k] = Unit(p, k)
<1>1. /\ size \in Nat \ {0} /\ ChunkSize \in Nat \ {0} /\ t \in Nat \ {0}
      /\ (t - 1) * ChunkSize < size /\ size <= t * ChunkSize
      /\ c = ChunkSize + 1 /\ c \in Nat \ {0} /\ n = size + t /\ n \in Nat /\ Overhead = 1
  BY Sized DEF IInv
<1>2. OrderedParts \in [1 .. t -> Entries] /\ \A p \in 1 .. t : OrderedParts[p].part = p
  BY SortedList
<1>3. JoinedLen(OrderedParts) = n
  <2>1. Len(OrderedParts) = t /\ DOMAIN OrderedParts = 1 .. t
    BY <1>1, <1>2
  <2>2. \E i \in DOMAIN OrderedParts : OrderedParts[i].part = t
    BY <1>1, <1>2, <2>1
  <2>3. JoinedLen(OrderedParts) = t * c - (t * ChunkSize - size)
    BY <2>1, <2>2 DEF JoinedLen
  <2>4. t * c = t * ChunkSize + t
    BY <1>1
  <2>5. t * ChunkSize \in Nat
    BY <1>1
  <2>. QED
    BY <1>1, <2>3, <2>4, <2>5
<1>4. o = [u \in 1 .. n |-> Chunk(OrderedParts[((u - 1) \div c) + 1].part)[((u - 1) % c) + 1]]
  BY <1>3 DEF Joined
<1>a. \A a \in Nat : \A m \in 0 .. c - 1 : Splits(a, m)
  BY <1>1, Division
<1>5. ASSUME NEW p \in 1 .. t, NEW k \in 1 .. PlainLen(p) + 1
      PROVE  Found(p, k) /\ k \in 1 .. c
  <2>1. /\ PlainLen(p) \in 1 .. ChunkSize /\ (p - 1) * ChunkSize + PlainLen(p) <= size
        /\ (p - 1) * ChunkSize \in Nat
    BY Blobs DEF IInv
  <2>2. k \in 1 .. c /\ p \in Nat /\ p - 1 \in Nat
    BY <1>1, <2>1
  <2>3. (p - 1) * c = (p - 1) * ChunkSize + (p - 1)
    BY <1>1, <2>2
  <2>4. (p - 1) * c + k \in 1 .. n
    BY <1>1, <2>1, <2>2, <2>3
  <2> DEFINE u == (p - 1) * c + k
  <2>5. u - 1 = (p - 1) * c + (k - 1) /\ k - 1 \in 0 .. c - 1
    BY <1>1, <2>1, <2>2, <2>3
  <2> HIDE DEF Splits
  <2>b. Splits(p - 1, k - 1)
    BY <1>a, <2>2, <2>5
  <2> USE DEF Splits
  <2>6. (u - 1) \div c = p - 1 /\ (u - 1) % c = k - 1
    BY <2>5, <2>b
  <2>7. ((u - 1) \div c) + 1 = p /\ ((u - 1) % c) + 1 = k
    BY <2>2, <2>6
  <2>8. o[u] = Chunk(p)[k]
    BY <1>2, <1>4, <2>4, <2>7
  <2>9. Chunk(p)[k] = Unit(p, k)
    BY <1>1, Chunks DEF IInv
  <2>. QED
    BY <2>2, <2>8, <2>9
<1>6. ASSUME NEW u \in 1 .. n PROVE o[u] \in Units
  <2> DEFINE q == (u - 1) \div c
             k == (u - 1) % c
  <2>0. u - 1 \in Nat
    BY <1>1
  <2>1. q \in Nat /\ k \in 0 .. c - 1 /\ u - 1 = q * c + k
    <3> DEFINE x == u - 1
    <3> HIDE DEF x
    <3>1. x \in Nat /\ x \div c \in Nat /\ x % c \in 0 .. c - 1 /\ x = (x \div c) * c + (x % c)
      <4>1. x \in Nat
        BY <2>0 DEF x
      <4> HIDE DEF c
      <4>. QED
        BY <4>1, <1>1, Divided
    <3>. QED
      BY <3>1 DEF x
  <2> HIDE DEF q, k
  <2>2. q + 1 \in 1 .. t
    <3>1. t * c = t * ChunkSize + t /\ t * ChunkSize \in Nat
      BY <1>1
    <3>2. u - 1 < t * c
      BY <1>1, <3>1
    <3>3. q >= t => t * c <= q * c
      BY <1>1, <2>1, Multiples
    <3>4. q * c \in Nat
      BY <1>1, <2>1
    <3>. QED
      BY <1>1, <2>1, <3>1, <3>2, <3>3, <3>4
  <2>3. k + 1 \in 1 .. PlainLen(q + 1) + 1
    <3>1. CASE q + 1 < t
      BY <1>1, <2>1, <2>2, <3>1 DEF PlainLen
    <3>2. CASE q + 1 = t
      <4>1. q * c = (t - 1) * ChunkSize + (t - 1) /\ (t - 1) * ChunkSize \in Nat
        BY <1>1, <2>1, <3>2
      <4>2. PlainLen(q + 1) = size - (t - 1) * ChunkSize
        BY <1>1, <2>1, <3>2 DEF PlainLen
      <4>. QED
        BY <1>1, <2>1, <4>1, <4>2
    <3>. QED
      BY <1>1, <2>1, <2>2, <3>1, <3>2
  <2> HIDE DEF Found
  <2>c. Found(q + 1, k + 1) /\ k + 1 \in 1 .. c
    BY <1>5, <2>2, <2>3
  <2> USE DEF Found
  <2>4. o[(q + 1 - 1) * c + (k + 1)] = Unit(q + 1, k + 1) /\ k + 1 \in 1 .. c
    BY <1>1, <2>1, <2>c
  <2>5. (q + 1 - 1) * c + (k + 1) = u
    BY <1>1, <2>1
  <2>. QED
    BY <2>2, <2>4, <2>5 DEF Units
<1>7. o \in [1 .. n -> Units]
  BY <1>4, <1>6
<1>8. o \in Seq(Units) /\ Len(o) = n
  BY <1>1, <1>7
<1>. QED
  BY <1>1, <1>3, <1>5, <1>8

\* A list that is not full makes too short an object.
LEMMA JoinedShort == ASSUME IInv, ~Full PROVE JoinedLen(OrderedParts) # CiphertextSize(size)
<1> DEFINE t == TotalParts(size)
           n == Len(uploaded)
<1>1. /\ size \in Nat \ {0} /\ ChunkSize \in Nat \ {0} /\ t \in Nat \ {0}
      /\ (t - 1) * ChunkSize < size /\ size <= t * ChunkSize
      /\ CiphertextChunk = ChunkSize + 1 /\ CiphertextSize(size) = size + t
  BY Sized DEF IInv
<1>2. n \in Nat /\ n <= t - 1 /\ DOMAIN uploaded = 1 .. n
  BY <1>1, ListLength, UpTyped DEF IInv
<1>3. Len(OrderedParts) = n
  <2>1. DOMAIN PartList = 1 .. n
    BY <1>2, SortedLength DEF PartList
  <2>. QED
    BY <1>2, <2>1, SortedLength DEF OrderedParts
<1>4. n * (ChunkSize + 1) <= (t - 1) * (ChunkSize + 1)
  BY <1>1, <1>2, Multiples
<1>5. (t - 1) * (ChunkSize + 1) = (t - 1) * ChunkSize + t - 1 /\ t * ChunkSize - size >= 0
  BY <1>1
<1>6. n * (ChunkSize + 1) \in Nat /\ t * ChunkSize \in Nat /\ (t - 1) * ChunkSize \in Nat
  BY <1>1, <1>2
<1>7. JoinedLen(OrderedParts) <= n * (ChunkSize + 1) /\ JoinedLen(OrderedParts) \in Int
  BY <1>1, <1>3, <1>5, <1>6 DEF JoinedLen
<1>. QED
  BY <1>1, <1>4, <1>5, <1>6, <1>7


\* The file's layout depends on its size alone.
LEMMA SameLayout ==
    ASSUME size' = size
    PROVE  /\ TotalParts(size)' = TotalParts(size) /\ Units' = Units
           /\ \A p, k : Unit(p, k)' = Unit(p, k)
           /\ \A p : PlainLen(p)' = PlainLen(p)
           /\ CiphertextSize(size)' = CiphertextSize(size) /\ Headers' = Headers
           /\ \A h : ParseRange(h)' = ParseRange(h)
  BY DEF Units, Unit, PlainLen, Aad, Blob, Headers, ParseRange

\* If no abort cut it short, the upload resolves with a full list.
LEMMA NotAborted == ASSUME IInv, Complete, ~aborted PROVE Full
<1>1. next \in 0 .. TotalParts(size) /\ uploaded \in Seq(Entries) /\ TotalParts(size) \in Nat
  BY UpTyped, Sized DEF IInv
<1>2. next = TotalParts(size)
  BY WorkersAssumption DEF Complete, IInv, WorkInv
<1>3. \A w \in Workers : ~Holding(w)
  BY DEF Complete, Holding
<1>4. \A p \in 1 .. next : \E i \in DOMAIN uploaded : uploaded[i].part = p
  BY <1>3 DEF Complete, IInv, ListInv
<1>5. \A i \in DOMAIN uploaded : uploaded[i].part \in 1 .. TotalParts(size)
  <2>1. \A i \in DOMAIN uploaded : uploaded[i] \in Entries
    BY <1>1
  <2>. QED
    BY <2>1 DEF Entries
<1>6. \A i, j \in DOMAIN uploaded : uploaded[i].part = uploaded[j].part => i = j
  BY DEF IInv, ListInv
<1>. QED
  BY <1>2, <1>4, <1>5, <1>6 DEF Full

\* A full list is accepted, unless a part was overwritten late.
Accepted ==
    /\ OrderedParts # <<>>
    /\ \A i \in DOMAIN OrderedParts : parts[OrderedParts[i].part] = OrderedParts[i].etag
    /\ \A i, j \in DOMAIN OrderedParts : i < j => OrderedParts[i].part < OrderedParts[j].part
    /\ JoinedLen(OrderedParts) = CiphertextSize(size)

\* The parts of a full list are those storage holds, in their order.
LEMMA FullAccepted == ASSUME IInv, Full, "late" \notin slips PROVE Accepted
<1>1. /\ OrderedParts \in [1 .. TotalParts(size) -> Entries] /\ DOMAIN OrderedParts = 1 .. TotalParts(size)
      /\ \A p \in 1 .. TotalParts(size) : OrderedParts[p].part = p
      /\ \A p \in 1 .. TotalParts(size) : \E i \in DOMAIN uploaded : OrderedParts[p] = uploaded[i]
      /\ TotalParts(size) \in Nat \ {0}
  BY SortedList, Sized DEF IInv
<1>2. OrderedParts # <<>>
  BY <1>1
<1>3. \A i \in DOMAIN OrderedParts : parts[OrderedParts[i].part] = OrderedParts[i].etag
  BY <1>1 DEF IInv, StoreInv
<1>4. \A i, j \in DOMAIN OrderedParts : i < j => OrderedParts[i].part < OrderedParts[j].part
  BY <1>1
<1>5. JoinedLen(OrderedParts) = CiphertextSize(size)
  BY JoinedWhole
<1>. QED
  BY <1>2, <1>3, <1>4, <1>5 DEF Accepted

\* What is accepted is the whole object; what is refused was cut short, or
\* overwritten late.
LEMMA CompleteStep ==
    ASSUME IInv, Complete
    PROVE  /\ upload = "running" /\ upload' \in {"completed", "refused"}
           /\ upload' = "refused" => slips' \cap {"short", "late"} # {}
           /\ upload' = "completed" => Whole'
           /\ object' \in Seq(Units) /\ Len(object') <= CiphertextSize(size)
           /\ uploaded' = <<>> /\ stray' = {} /\ parts' = [p \in DOMAIN parts |-> 0]
           /\ slips' \in {slips, slips \cup {"short"}}
           /\ \A w \in Workers : worker[w].at = "done"
           /\ UNCHANGED <<size, next, worker, aborted, down, faults>>
<1>1. /\ upload' = IF Accepted THEN "completed" ELSE "refused"
      /\ object' = IF Accepted THEN Joined(OrderedParts) ELSE <<>>
      /\ slips' = IF aborted /\ Len(OrderedParts) < TotalParts(size) THEN slips \cup {"short"} ELSE slips
  BY DEF Complete, Accepted
<1>2. upload' = "refused" => slips' \cap {"short", "late"} # {}
  <2>1. CASE Full
    BY <1>1, <2>1, FullAccepted
  <2>2. CASE ~Full
    <3>1. uploaded \in Seq(Entries) /\ TotalParts(size) \in Nat
      BY UpTyped, Sized DEF IInv
    <3>2. Len(uploaded) < TotalParts(size)
      BY <2>2, <3>1, ListLength
    <3>3. Len(OrderedParts) = Len(uploaded)
      <4>1. Len(uploaded) \in Nat /\ DOMAIN uploaded = 1 .. Len(uploaded)
        BY <3>1
      <4>2. DOMAIN PartList = 1 .. Len(uploaded)
        BY <4>1, SortedLength DEF PartList
      <4>. QED
        BY <4>1, <4>2, SortedLength DEF OrderedParts
    <3>. QED
      BY <1>1, <2>2, <3>2, <3>3, NotAborted
  <2>. QED
    BY <2>1, <2>2
<1>3. CiphertextSize(size) \in Nat /\ CiphertextSize(size) >= 0
  BY Sized DEF IInv
<1>4. /\ upload' = "completed" => Whole'
      /\ object' \in Seq(Units) /\ Len(object') <= CiphertextSize(size)
  <2>1. CASE Accepted
    <3>1. Full
      BY <2>1, JoinedShort DEF Accepted
    <3>2. /\ object' \in Seq(Units) /\ Len(object') = CiphertextSize(size)
          /\ \A p \in 1 .. TotalParts(size) : \A k \in 1 .. PlainLen(p) + Overhead :
               object'[(p - 1) * CiphertextChunk + k] = Unit(p, k)
      BY <1>1, <2>1, <3>1, JoinedWhole
    <3>3. size' = size
      BY DEF Complete
    <3>4. Whole'
      BY <3>2, <3>3, SameLayout DEF Whole
    <3>. QED
      BY <1>3, <3>2, <3>4
  <2>2. CASE ~Accepted
    BY <1>1, <1>3, <2>2
  <2>. QED
    BY <2>1, <2>2
<1>5. /\ upload = "running" /\ uploaded' = <<>> /\ stray' = {} /\ parts' = [p \in DOMAIN parts |-> 0]
      /\ \A w \in Workers : worker[w].at = "done"
      /\ UNCHANGED <<size, next, worker, aborted, down, faults>>
  BY DEF Complete
<1>6. upload' \in {"completed", "refused"} /\ slips' \in {slips, slips \cup {"short"}}
  BY <1>1
<1>. QED
  BY <1>2, <1>4, <1>5, <1>6

-----------------------------------------------------------------------------
(* The upload's invariants are kept. *)

\* What the download does, and damage, leave the upload alone.
Calm == UNCHANGED <<size, up>> /\ slips' \in {slips, slips \cup {"fault"}}

Downloads == \/ \E h \in Headers, fresh \in BOOLEAN : Request(h, fresh)
             \/ Stream \/ Dropped \/ Cancel \/ Damage

\* A step is one of a worker, of storage, of the user, or of the download.
LEMMA Steps ==
    ASSUME [Next]_vars
    PROVE  \/ \E w \in Workers : \/ TakePart(w) \/ PartPut(w) \/ PartLost(w)
                                 \/ Awake(w) \/ Signed(w) \/ PartAborted(w) \/ NotSigned(w)
           \/ StrayLands \/ Abort \/ Complete \/ Downloads \/ UNCHANGED vars
  BY DEF Next, Part, Downloads

\* No step of the download, or damage, is a step of the upload.
LEMMA CalmStep == ASSUME Downloads \/ UNCHANGED vars PROVE Calm
<1>1. ASSUME NEW h \in Headers, NEW fresh \in BOOLEAN, Request(h, fresh) PROVE Calm
  BY <1>1 DEF Request, Calm
<1>2. CASE Fetched
  BY <1>2 DEF Fetched, Calm
<1>3. CASE Arrive \/ Decrypt \/ Flush \/ Cancel
  BY <1>3 DEF Arrive, Decrypt, Flush, Cancel, Calm
<1>4. CASE Dropped \/ Damage
  BY <1>4 DEF Dropped, Damage, Calm
<1>5. CASE UNCHANGED vars
  BY <1>5 DEF Calm, vars
<1>. QED
  BY <1>1, <1>2, <1>3, <1>4, <1>5 DEF Downloads, Stream

\* A worker keeps its rules when another one moves.
WorkRules(w) ==
    /\ Holding(w) => worker[w].part \in 1 .. next /\ worker[w].try \in 1 .. MaxAttempts
    /\ worker[w].at = "sleep" => worker[w].try < MaxAttempts
    /\ worker[w].at = "failed" => upload # "running"
    /\ worker[w].at = "done" => aborted \/ next = TotalParts(size)
    /\ upload \in {"completed", "refused"} => worker[w].at = "done"

Apart(v, w) == Holding(w) /\ Holding(v) /\ worker[v].part = worker[w].part => v = w

\* The rules of the workers are each worker's, and each pair's.
LEMMA WorkParts == WorkInv <=> \A w \in Workers : WorkRules(w) /\ \A v \in Workers : Apart(v, w)
  BY DEF WorkInv, WorkRules, Apart

\* And so they are after a step.
LEMMA WorkPartsNext ==
    WorkInv' <=> \A w \in Workers : WorkRules(w)' /\ \A v \in Workers : Apart(v, w)'
  BY DEF WorkInv, WorkRules, Apart

\* No two workers have the same part, however they take, keep and lose it.
LEMMA WorkInvNext == ASSUME IInv, [Next]_vars PROVE WorkInv'
<1>1. /\ worker \in [Workers -> WorkRecs] /\ next \in 0 .. TotalParts(size)
      /\ TotalParts(size) \in Nat \ {0} /\ MaxAttempts \in Nat \ {0}
      /\ upload \in {"running", "rejected", "completed", "refused"}
  BY UpTyped, Sized, BoundsAssumption DEF IInv
<1>2. \A w \in Workers : WorkRules(w) /\ \A v \in Workers : Apart(v, w)
  BY WorkParts DEF IInv
<1>3. ASSUME NEW w \in Workers, TakePart(w) PROVE WorkInv'
  <2>1. /\ Alone(w) /\ worker[w].at = "top"
        /\ \/ worker'[w].at = "done" /\ next' = next /\ (aborted \/ next = TotalParts(size))
           \/ /\ worker'[w] = [at |-> "sign", part |-> next + 1, try |-> 1]
              /\ next' = next + 1 /\ next < TotalParts(size)
        /\ UNCHANGED <<size, uploaded, aborted, upload, parts, stray, object, down, slips>>
    BY <1>3, TakePartStep
  <2>2. WorkRules(w)'
    BY <1>1, <1>2, <2>1 DEF WorkRules, Holding
  <2>3. ASSUME NEW v \in Workers, v # w PROVE WorkRules(v)'
    BY <1>1, <1>2, <2>1, <2>3 DEF WorkRules, Holding, Alone
  <2>4. ASSUME NEW v \in Workers, NEW u \in Workers PROVE Apart(v, u)'
    BY <1>1, <1>2, <2>1 DEF WorkRules, Apart, Holding, Alone
  <2>. QED
    BY <2>2, <2>3, <2>4, WorkPartsNext
<1>4. ASSUME NEW w \in Workers, Keeps(w), UNCHANGED <<size, next, aborted>> PROVE WorkInv'
  <2>1. WorkRules(w)'
    BY <1>1, <1>2, <1>4 DEF WorkRules, Holding, Keeps, WorkRecs
  <2>2. ASSUME NEW v \in Workers, v # w PROVE WorkRules(v)'
    BY <1>1, <1>2, <1>4, <2>2 DEF WorkRules, Holding, Keeps, Alone
  <2>3. ASSUME NEW v \in Workers, NEW u \in Workers PROVE Apart(v, u)'
    BY <1>1, <1>2, <1>4 DEF Apart, Holding, Keeps, Alone
  <2>. QED
    BY <2>1, <2>2, <2>3, WorkPartsNext
<1>5. ASSUME NEW w \in Workers, PartPut(w) PROVE WorkInv'
  <2>1. /\ Alone(w) /\ worker[w].at = "put" /\ worker'[w].at = "top"
        /\ UNCHANGED <<size, next, aborted, upload>>
    BY <1>5, PartPutStep
  <2>2. ASSUME NEW v \in Workers PROVE WorkRules(v)'
    BY <1>1, <1>2, <2>1 DEF WorkRules, Holding, Alone
  <2>3. ASSUME NEW v \in Workers, NEW u \in Workers PROVE Apart(v, u)'
    BY <1>1, <1>2, <2>1 DEF Apart, Holding, Alone
  <2>. QED
    BY <2>2, <2>3, WorkPartsNext
<1>6. ASSUME UNCHANGED <<size, next, worker>>, aborted => aborted',
             upload' # upload => upload = "running" /\ \A w \in Workers : worker[w].at = "done"
      PROVE  WorkInv'
  <2>1. ASSUME NEW v \in Workers PROVE WorkRules(v)'
    BY <1>1, <1>2, <1>6 DEF WorkRules, Holding
  <2>2. ASSUME NEW v \in Workers, NEW u \in Workers PROVE Apart(v, u)'
    BY <1>2, <1>6 DEF Apart, Holding
  <2>. QED
    BY <2>1, <2>2, WorkPartsNext
<1>7. CASE StrayLands \/ Abort \/ Complete
  BY <1>6, <1>7, CompleteStep DEF StrayLands, Abort
<1>8. CASE Calm
  BY <1>6, <1>8 DEF Calm, up
<1>9. ASSUME NEW w \in Workers, Awake(w) \/ Signed(w) \/ PartAborted(w) \/ NotSigned(w) \/ PartLost(w)
      PROVE  WorkInv'
  BY <1>4, <1>9, KeepStep, PartLostStep
<1>. QED
  BY <1>3, <1>5, <1>7, <1>8, <1>9, Steps, CalmStep

\* A part is on the list once, and none is lost on its way there.
Listed(i) ==
    /\ uploaded[i].part <= next
    /\ \A w \in Workers : Holding(w) => worker[w].part # uploaded[i].part
    /\ \A j \in DOMAIN uploaded : uploaded[j].part = uploaded[i].part => j = i

Covered(p) == \/ \E i \in DOMAIN uploaded : uploaded[i].part = p
              \/ \E w \in Workers : Holding(w) /\ worker[w].part = p

\* Taking, losing and putting parts keeps that: what leaves a worker is listed.
LEMMA ListInvNext == ASSUME IInv, [Next]_vars PROVE ListInv'
<1>1. /\ worker \in [Workers -> WorkRecs] /\ next \in 0 .. TotalParts(size)
      /\ TotalParts(size) \in Nat \ {0} /\ uploaded \in Seq(Entries)
  BY UpTyped, Sized DEF IInv
<1>2. /\ \A i \in DOMAIN uploaded : Listed(i)
      /\ upload = "running" => \A p \in 1 .. next : Covered(p)
  BY DEF IInv, ListInv, Listed, Covered
<1>a. /\ \A w \in Workers : Holding(w) => worker[w].part \in 1 .. next
      /\ \A w, v \in Workers : Holding(w) /\ Holding(v) /\ worker[v].part = worker[w].part => v = w
  BY DEF IInv, WorkInv
<1>b. \A i \in DOMAIN uploaded : uploaded[i].part \in 1 .. TotalParts(size)
  <2>1. \A i \in DOMAIN uploaded : uploaded[i] \in Entries
    BY <1>1
  <2>. QED
    BY <2>1 DEF Entries
<1>c. ASSUME \A i \in DOMAIN uploaded' : Listed(i)',
             upload' = "running" => \A p \in 1 .. next' : Covered(p)'
      PROVE  ListInv'
  BY <1>c DEF ListInv, Listed, Covered
<1>3. ASSUME NEW w \in Workers, TakePart(w) PROVE ListInv'
  <2>1. /\ Alone(w) /\ worker[w].at = "top"
        /\ \/ worker'[w].at = "done" /\ next' = next /\ (aborted \/ next = TotalParts(size))
           \/ /\ worker'[w] = [at |-> "sign", part |-> next + 1, try |-> 1]
              /\ next' = next + 1 /\ next < TotalParts(size)
        /\ UNCHANGED <<size, uploaded, aborted, upload, parts, stray, object, down, slips>>
    BY <1>3, TakePartStep
  <2>2. ASSUME NEW i \in DOMAIN uploaded' PROVE Listed(i)'
    <3>1. Listed(i) /\ i \in DOMAIN uploaded /\ uploaded' = uploaded
      BY <1>2, <2>1
    <3>2. uploaded[i].part <= next /\ uploaded[i].part \in Nat
      BY <3>1, <1>1, <1>b DEF Listed
    <3>. QED
      BY <1>1, <2>1, <3>1, <3>2 DEF Listed, Holding, Alone
  <2>3. ASSUME upload' = "running", NEW p \in 1 .. next' PROVE Covered(p)'
    <3>1. CASE p \in 1 .. next
      <4>1. Covered(p)
        BY <1>2, <2>1, <2>3, <3>1
      <4>. QED
        BY <2>1, <4>1 DEF Covered, Holding, Alone
    <3>2. CASE p \notin 1 .. next
      <4>1. next' = next + 1 /\ p = next + 1
        BY <1>1, <2>1, <2>3, <3>2
      <4>. QED
        BY <1>1, <2>1, <4>1 DEF Covered, Holding
    <3>. QED
      BY <3>1, <3>2
  <2>. QED
    BY <1>c, <2>2, <2>3
<1>4. ASSUME NEW w \in Workers, Keeps(w), UNCHANGED <<next, uploaded>> PROVE ListInv'
  <2>1. Holding(w) /\ Holding(w)' /\ worker'[w].part = worker[w].part
    BY <1>4 DEF Keeps, Holding
  <2>2. \A v \in Workers : Holding(v)' = Holding(v) /\ worker'[v].part = worker[v].part
    BY <1>4, <2>1 DEF Keeps, Holding, Alone
  <2>3. ASSUME NEW i \in DOMAIN uploaded' PROVE Listed(i)'
    BY <1>2, <1>4, <2>2 DEF Listed
  <2>4. upload' = "running" => upload = "running"
    BY <1>4 DEF Keeps
  <2>5. ASSUME upload' = "running", NEW p \in 1 .. next' PROVE Covered(p)'
    BY <1>2, <1>4, <2>2, <2>4, <2>5 DEF Covered
  <2>. QED
    BY <1>c, <2>3, <2>5
<1>5. ASSUME NEW w \in Workers, PartPut(w) PROVE ListInv'
  <2> DEFINE n == Len(uploaded) + 1
  <2>1. /\ Alone(w) /\ worker[w].at = "put" /\ worker'[w].at = "top"
        /\ uploaded' \in Seq(Entries) /\ Len(uploaded') = n /\ n \in Nat
        /\ uploaded'[n].part = worker[w].part
        /\ \A i \in 1 .. n - 1 : uploaded'[i] = uploaded[i]
        /\ UNCHANGED <<size, next, aborted, upload>>
    BY <1>5, PartPutStep
  <2>2. DOMAIN uploaded' = 1 .. n /\ DOMAIN uploaded = 1 .. n - 1 /\ n \in 1 .. n
    BY <1>1, <2>1
  <2>3. Holding(w) /\ ~Holding(w)'
    BY <2>1 DEF Holding
  <2>4. \A v \in Workers : v # w => Holding(v)' = Holding(v) /\ worker'[v] = worker[v]
    BY <2>1 DEF Alone, Holding
  <2>5. \A i \in 1 .. n - 1 : Listed(i) /\ uploaded[i].part # worker[w].part
    BY <1>2, <2>2, <2>3 DEF Listed
  <2> HIDE DEF n
  <2>6. ASSUME NEW i \in 1 .. n - 1 PROVE Listed(i)'
    <3>1. \A j \in 1 .. n : uploaded'[j].part = uploaded'[i].part => j = i
      BY <2>1, <2>2, <2>5, <2>6 DEF Listed
    <3>. QED
      BY <2>1, <2>2, <2>3, <2>4, <2>5, <3>1 DEF Listed
  <2>7. ASSUME NEW i \in 1 .. n, i = n PROVE Listed(i)'
    <3>1. \A j \in 1 .. n : uploaded'[j].part = uploaded'[i].part => j = i
      BY <2>1, <2>2, <2>5, <2>7
    <3>2. \A v \in Workers : Holding(v)' => worker'[v].part # uploaded'[i].part
      BY <1>a, <2>1, <2>3, <2>4, <2>7
    <3>3. uploaded'[i].part <= next'
      BY <1>1, <1>a, <2>1, <2>3, <2>7
    <3>. QED
      BY <2>2, <3>1, <3>2, <3>3 DEF Listed
  <2>8. ASSUME upload' = "running", NEW p \in 1 .. next' PROVE Covered(p)'
    <3>1. Covered(p)
      BY <1>2, <2>1, <2>8
    <3>2. CASE \E i \in DOMAIN uploaded : uploaded[i].part = p
      BY <2>1, <2>2, <3>2 DEF Covered
    <3>3. CASE \E v \in Workers : Holding(v) /\ worker[v].part = p
      BY <2>1, <2>2, <2>4, <3>3 DEF Covered
    <3>. QED
      BY <3>1, <3>2, <3>3 DEF Covered
  <2>9. \A i \in DOMAIN uploaded' : Listed(i)'
    <3>1. \A i \in 1 .. n : i \in 1 .. n - 1 \/ i = n
      BY <2>1
    <3>. QED
      BY <2>2, <2>6, <2>7, <3>1
  <2>. QED
    BY <1>c, <2>8, <2>9
<1>6. ASSUME UNCHANGED <<next, worker, uploaded>>, upload' = upload PROVE ListInv'
  BY <1>6 DEF IInv, ListInv, Holding
<1>7. CASE StrayLands \/ Abort \/ Calm
  BY <1>6, <1>7 DEF StrayLands, Abort, Calm, up
<1>8. CASE Complete
  <2>1. uploaded' = <<>> /\ upload' # "running"
    BY <1>8, CompleteStep
  <2>. QED
    BY <2>1 DEF ListInv
<1>9. ASSUME NEW w \in Workers, Awake(w) \/ Signed(w) \/ PartAborted(w) \/ NotSigned(w) \/ PartLost(w)
      PROVE  ListInv'
  BY <1>4, <1>9, KeepStep, PartLostStep
<1>. QED
  BY <1>3, <1>5, <1>7, <1>8, <1>9, Steps, CalmStep

\* What storage holds of an acknowledged part stays what was acknowledged, or
\* an older attempt landed on it late.
Held(i) ==
    /\ "late" \notin slips => parts[uploaded[i].part] = uploaded[i].etag
    /\ \A s \in stray : s.part = uploaded[i].part => s.etag < uploaded[i].etag

Old(s) ==
    /\ s.part <= next
    /\ \A w \in Workers : Holding(w) /\ worker[w].part = s.part =>
         \/ s.etag < worker[w].try
         \/ s.etag = worker[w].try /\ worker[w].at \in {"sleep", "failed"}

\* A retry is newer than what its part had given up, until that lands late.
LEMMA StoreInvNext == ASSUME IInv, [Next]_vars PROVE StoreInv'
<1>1. /\ worker \in [Workers -> WorkRecs] /\ next \in 0 .. TotalParts(size)
      /\ TotalParts(size) \in Nat \ {0} /\ uploaded \in Seq(Entries) /\ stray \subseteq Entries
      /\ parts \in [1 .. TotalParts(size) -> 0 .. MaxAttempts] /\ MaxAttempts \in Nat
  BY UpTyped, Sized, BoundsAssumption DEF IInv
<1>2. (\A i \in DOMAIN uploaded : Held(i)) /\ (\A s \in stray : Old(s))
  BY DEF IInv, StoreInv, Held, Old
<1>3. \A s \in stray : s.part \in 1 .. TotalParts(size) /\ s.etag \in 1 .. MaxAttempts /\ s \in Entries
  BY <1>1 DEF Entries
<1>4. \A i \in DOMAIN uploaded : uploaded[i].part \in 1 .. TotalParts(size) /\ uploaded[i].etag \in Nat
  <2>1. \A i \in DOMAIN uploaded : uploaded[i] \in Entries
    BY <1>1
  <2>. QED
    BY <1>1, <2>1 DEF Entries
<1>5. /\ \A w \in Workers : Holding(w) =>
           worker[w].part \in 1 .. TotalParts(size) /\ worker[w].try \in Nat
      /\ \A w, v \in Workers : Holding(w) /\ Holding(v) /\ worker[v].part = worker[w].part => v = w
      /\ \A i \in DOMAIN uploaded : \A w \in Workers : Holding(w) => worker[w].part # uploaded[i].part
      /\ \A i, j \in DOMAIN uploaded : uploaded[j].part = uploaded[i].part => j = i
  BY <1>1 DEF IInv, WorkInv, ListInv
<1>6. ASSUME \A i \in DOMAIN uploaded' : Held(i)', \A s \in stray' : Old(s)' PROVE StoreInv'
  BY <1>6 DEF StoreInv, Held, Old
<1>7. ASSUME NEW w \in Workers, TakePart(w) PROVE StoreInv'
  <2>1. /\ Alone(w) /\ worker[w].at = "top"
        /\ \/ worker'[w].at = "done" /\ next' = next /\ (aborted \/ next = TotalParts(size))
           \/ /\ worker'[w] = [at |-> "sign", part |-> next + 1, try |-> 1]
              /\ next' = next + 1 /\ next < TotalParts(size)
        /\ UNCHANGED <<size, uploaded, aborted, upload, parts, stray, object, down, slips>>
    BY <1>7, TakePartStep
  <2>2. ASSUME NEW i \in DOMAIN uploaded' PROVE Held(i)'
    BY <1>2, <2>1 DEF Held
  <2>3. ASSUME NEW s \in stray' PROVE Old(s)'
    <3>1. Old(s) /\ s.part \in Nat
      BY <1>1, <1>2, <1>3, <2>1
    <3>. QED
      BY <1>1, <2>1, <3>1 DEF Old, Holding, Alone
  <2>. QED
    BY <1>6, <2>2, <2>3
<1>8. ASSUME NEW w \in Workers, Keeps(w) PROVE \A s \in stray : Old(s) /\ next' = next => Old(s)'
  <2> SUFFICES ASSUME NEW s \in stray, Old(s), next' = next PROVE Old(s)'
    OBVIOUS
  <2>1. /\ Holding(w) /\ worker'[w].part = worker[w].part
        /\ \A v \in Workers : v # w => Holding(v)' = Holding(v) /\ worker'[v] = worker[v]
    BY <1>8 DEF Keeps, Holding, Alone
  <2>2. worker[w].part = s.part =>
             \/ s.etag < worker'[w].try
             \/ s.etag = worker'[w].try /\ worker'[w].at \in {"sleep", "failed"}
    BY <1>3, <1>5, <1>8, <2>1 DEF Old, Keeps
  <2>. QED
    BY <2>1, <2>2 DEF Old
<1>9. ASSUME NEW w \in Workers, Keeps(w), UNCHANGED <<next, uploaded, parts, stray>>,
             "late" \in slips => "late" \in slips'
      PROVE  StoreInv'
  <2>1. ASSUME NEW i \in DOMAIN uploaded' PROVE Held(i)'
    BY <1>2, <1>9 DEF Held
  <2>. QED
    BY <1>2, <1>6, <1>8, <1>9, <2>1
<1>10. ASSUME NEW w \in Workers, PartPut(w) PROVE StoreInv'
  <2> DEFINE n == Len(uploaded) + 1
  <2>1. /\ Alone(w) /\ worker[w].at = "put" /\ worker'[w].at = "top"
        /\ uploaded' \in Seq(Entries) /\ Len(uploaded') = n /\ n \in Nat
        /\ uploaded'[n].part = worker[w].part /\ uploaded'[n].etag = worker[w].try
        /\ \A i \in 1 .. n - 1 : uploaded'[i] = uploaded[i]
        /\ parts' = [parts EXCEPT ![worker[w].part] = worker[w].try]
        /\ UNCHANGED <<next, stray, slips>>
    BY <1>10, PartPutStep
  <2>2. DOMAIN uploaded' = 1 .. n /\ DOMAIN uploaded = 1 .. n - 1 /\ n \in 1 .. n
    BY <1>1, <2>1
  <2>3. Holding(w) /\ worker[w].part \in 1 .. TotalParts(size) /\ worker[w].try \in Nat
    BY <1>5, <2>1 DEF Holding
  <2> HIDE DEF n
  <2>4. ASSUME NEW i \in 1 .. n - 1 PROVE Held(i)'
    <3>1. uploaded[i].part # worker[w].part
      BY <1>5, <2>2, <2>3
    <3>2. parts'[uploaded[i].part] = parts[uploaded[i].part]
      BY <1>1, <1>4, <2>1, <2>2, <3>1
    <3>. QED
      BY <1>2, <2>1, <2>2, <3>2 DEF Held
  <2>5. ASSUME NEW i \in 1 .. n, i = n PROVE Held(i)'
    <3>1. parts'[worker[w].part] = worker[w].try
      BY <1>1, <2>1, <2>3
    <3>2. \A s \in stray : s.part = worker[w].part => s.etag < worker[w].try
      BY <1>2, <2>1, <2>3 DEF Old
    <3>. QED
      BY <2>1, <2>5, <3>1, <3>2 DEF Held
  <2>6. \A i \in DOMAIN uploaded' : Held(i)'
    <3>1. \A i \in 1 .. n : i \in 1 .. n - 1 \/ i = n
      BY <2>1
    <3>. QED
      BY <2>2, <2>4, <2>5, <3>1
  <2>7. ASSUME NEW s \in stray' PROVE Old(s)'
    BY <1>2, <2>1, <2>7 DEF Old, Holding, Alone
  <2>. QED
    BY <1>6, <2>6, <2>7
<1>11. ASSUME NEW w \in Workers, PartLost(w) PROVE StoreInv'
  <2> DEFINE p == worker[w].part
             t == worker[w].try
             e == [part |-> p, etag |-> t]
  <2>1. /\ Keeps(w) /\ worker[w].at = "put" /\ worker'[w].at \in {"sleep", "failed"}
        /\ \/ UNCHANGED <<parts, stray>>
           \/ parts' = [parts EXCEPT ![p] = t] /\ UNCHANGED stray
           \/ stray' = stray \cup {e} /\ UNCHANGED parts
        /\ p \in 1 .. TotalParts(size) /\ t \in 1 .. MaxAttempts /\ p <= next
        /\ slips' = slips \cup {"fault"}
        /\ UNCHANGED <<size, next, uploaded>>
    BY <1>11, PartLostStep
  <2>2. Holding(w) /\ worker'[w].part = p /\ worker'[w].try = t
    BY <2>1 DEF Holding, Keeps
  <2>3. ASSUME NEW i \in DOMAIN uploaded' PROVE Held(i)'
    <3>1. i \in DOMAIN uploaded /\ Held(i) /\ uploaded[i].part # p
      BY <1>2, <1>5, <2>1, <2>2
    <3>2. parts'[uploaded[i].part] = parts[uploaded[i].part]
      BY <1>1, <1>4, <2>1, <3>1
    <3>. QED
      BY <2>1, <3>1, <3>2 DEF Held
  <2>4. ASSUME NEW s \in stray' PROVE Old(s)'
    <3>1. CASE s \in stray
      BY <1>2, <1>8, <2>1, <3>1
    <3>2. CASE s = e
      <4>1. \A v \in Workers : v # w => Holding(v)' = Holding(v) /\ worker'[v] = worker[v]
        BY <2>1 DEF Keeps, Holding, Alone
      <4>2. \A v \in Workers : Holding(v)' /\ worker'[v].part = p => v = w
        BY <1>5, <2>2, <4>1
      <4>. QED
        BY <2>1, <2>2, <3>2, <4>2 DEF Old
    <3>. QED
      BY <2>1, <2>4, <3>1, <3>2
  <2>. QED
    BY <1>6, <2>3, <2>4
<1>12. CASE StrayLands
  <2>1. PICK s \in stray :
          /\ stray' = stray \ {s} /\ parts' = [parts EXCEPT ![s.part] = s.etag]
          /\ slips' = IF parts[s.part] > s.etag THEN slips \cup {"late"} ELSE slips
          /\ UNCHANGED <<next, worker, uploaded>>
    BY <1>12 DEF StrayLands
  <2>2. ASSUME NEW i \in DOMAIN uploaded' PROVE Held(i)'
    <3>1. i \in DOMAIN uploaded /\ Held(i)
      BY <1>2, <2>1
    <3>2. ASSUME "late" \notin slips' PROVE parts'[uploaded[i].part] = uploaded[i].etag
      <4>1. "late" \notin slips /\ ~(parts[s.part] > s.etag)
        BY <2>1, <3>2
      <4>2. parts[uploaded[i].part] = uploaded[i].etag
        BY <3>1, <4>1 DEF Held
      <4>3. uploaded[i].part # s.part
        BY <1>3, <1>4, <3>1, <4>1, <4>2 DEF Held
      <4>. QED
        BY <1>1, <1>4, <2>1, <3>1, <4>2, <4>3
    <3>. QED
      BY <2>1, <3>1, <3>2 DEF Held
  <2>3. ASSUME NEW r \in stray' PROVE Old(r)'
    BY <1>2, <2>1 DEF Old, Holding
  <2>. QED
    BY <1>6, <2>2, <2>3
<1>13. ASSUME UNCHANGED <<next, worker, uploaded, parts, stray>>, slips \subseteq slips' PROVE StoreInv'
  <2>1. ASSUME NEW i \in DOMAIN uploaded' PROVE Held(i)'
    BY <1>2, <1>13 DEF Held
  <2>2. ASSUME NEW s \in stray' PROVE Old(s)'
    BY <1>2, <1>13 DEF Old, Holding
  <2>. QED
    BY <1>6, <2>1, <2>2
<1>14. CASE Abort \/ Calm
  BY <1>13, <1>14 DEF Abort, Calm, up
<1>15. CASE Complete
  <2>1. uploaded' = <<>> /\ stray' = {}
    BY <1>15, CompleteStep
  <2>. QED
    BY <2>1 DEF StoreInv
<1>16. ASSUME NEW w \in Workers, Awake(w) \/ Signed(w) \/ PartAborted(w) \/ NotSigned(w)
       PROVE  StoreInv'
  BY <1>9, <1>16, KeepStep
<1>. QED
  BY <1>7, <1>10, <1>11, <1>12, <1>14, <1>15, <1>16, Steps, CalmStep

-----------------------------------------------------------------------------
(* What the upload leaves to the download. *)

\* The upload is settled once, by Complete alone; the object changes when it
\* is completed or damaged, and what the recipient has when he downloads.
LEMMA UploadStep ==
    ASSUME IInv, [Next]_vars
    PROVE  /\ size' = size /\ slips \subseteq slips'
           /\ upload = "completed" => upload' = "completed"
           /\ Complete \/ (upload' \in {"completed", "refused"} => upload' = upload)
           /\ Complete \/ Damage \/ object' = object
           /\ Downloads \/ UNCHANGED down
<1>1. ASSUME NEW w \in Workers, TakePart(w) \/ PartPut(w)
      PROVE  UNCHANGED <<size, upload, object, down, slips>>
  BY <1>1 DEF TakePart, PartPut
<1>2. ASSUME NEW w \in Workers, PartLost(w) \/ Awake(w) \/ Signed(w) \/ PartAborted(w) \/ NotSigned(w)
      PROVE  /\ UNCHANGED <<size, object, down>> /\ slips \subseteq slips'
             /\ upload' = upload \/ (upload = "running" /\ upload' = "rejected")
  BY <1>2, KeepStep, PartLostStep DEF Keeps
<1>3. CASE StrayLands \/ Abort
  BY <1>3 DEF StrayLands, Abort
<1>4. CASE Complete
  BY <1>4, CompleteStep
<1>5. ASSUME Downloads PROVE Damage \/ object' = object
  BY <1>5 DEF Downloads, Stream, Request, Fetched, Arrive, Decrypt, Flush, Dropped, Cancel
<1>6. CASE Downloads
  BY <1>5, <1>6, CalmStep DEF Calm, up
<1>7. CASE UNCHANGED vars
  BY <1>7 DEF vars, up
<1>. QED
  BY <1>1, <1>2, <1>3, <1>4, <1>6, <1>7, Steps

\* The counters stay within their bounds.
LEMMA CountsNext ==
    ASSUME IInv, [Next]_vars
    PROVE  faults' \in 0 .. MaxFaults /\ slips' \subseteq Slips
<1>1. faults \in 0 .. MaxFaults /\ slips \subseteq Slips /\ MaxFaults \in Nat
  BY BoundsAssumption DEF IInv, TypeOK
<1>2. {"fault", "short", "late", "hung"} \subseteq Slips
  BY DEF Slips
<1>3. ASSUME Fault PROVE faults' \in 0 .. MaxFaults
  BY <1>1, <1>3 DEF Fault
<1>4. ASSUME NEW w \in Workers,
             TakePart(w) \/ PartPut(w) \/ Awake(w) \/ Signed(w) \/ PartAborted(w)
      PROVE  faults' = faults /\ slips' \in {slips, slips \cup {"hung"}}
  BY <1>4 DEF TakePart, PartPut, Awake, Signed, PartAborted
<1>5. ASSUME NEW w \in Workers, PartLost(w) \/ NotSigned(w)
      PROVE  Fault /\ slips' = slips \cup {"fault"}
  BY <1>5 DEF PartLost, NotSigned
<1>6. CASE StrayLands
  BY <1>1, <1>2, <1>6 DEF StrayLands
<1>7. CASE Abort
  BY <1>1, <1>7 DEF Abort
<1>8. CASE Complete
  BY <1>1, <1>2, <1>8, CompleteStep
<1>9. ASSUME Downloads
      PROVE  (faults' = faults \/ Fault) /\ slips' \in {slips, slips \cup {"fault"}}
  <2>1. slips' \in {slips, slips \cup {"fault"}}
    BY <1>9, CalmStep DEF Calm
  <2>2. faults' = faults \/ Fault
    BY <1>9 DEF Downloads, Stream, Request, Fetched, Arrive, Decrypt, Flush, Dropped, Cancel, Damage
  <2>. QED
    BY <2>1, <2>2
<1>10. CASE UNCHANGED vars
  BY <1>1, <1>10 DEF vars
<1>11. CASE Downloads
  BY <1>1, <1>2, <1>3, <1>9, <1>11
<1>12. CASE \E w \in Workers : TakePart(w) \/ PartPut(w) \/ Awake(w) \/ Signed(w) \/ PartAborted(w)
  BY <1>1, <1>2, <1>4, <1>12
<1>13. CASE \E w \in Workers : PartLost(w) \/ NotSigned(w)
  BY <1>1, <1>2, <1>3, <1>5, <1>13
<1>. QED
  BY <1>6, <1>7, <1>8, <1>10, <1>11, <1>12, <1>13, Steps

\* The upload's part of the type.
UpType == /\ worker \in [Workers -> WorkRecs] /\ next \in 0 .. TotalParts(size)
          /\ uploaded \in Seq(Entries) /\ stray \subseteq Entries
          /\ parts \in [1 .. TotalParts(size) -> 0 .. MaxAttempts]
          /\ aborted \in BOOLEAN
          /\ upload \in {"running", "rejected", "completed", "refused"}

\* The upload keeps its type.
LEMMA UpTypeNext == ASSUME IInv, [Next]_vars PROVE UpType'
<1>1. UpType /\ MaxAttempts \in Nat \ {0} /\ TotalParts(size) \in Nat \ {0}
  BY UpTyped, Sized, BoundsAssumption DEF IInv, UpType
<1>2. /\ size' = size /\ TotalParts(size)' = TotalParts(size)
      /\ Entries' = Entries /\ WorkRecs' = WorkRecs
  BY UploadStep DEF Entries, WorkRecs
<1>3. ASSUME NEW w \in Workers, TakePart(w) PROVE UpType'
  BY <1>1, <1>2, <1>3, TakePartStep DEF UpType, Alone
<1>4. ASSUME NEW w \in Workers, PartPut(w) PROVE UpType'
  <2>1. /\ Alone(w) /\ uploaded' \in Seq(Entries) /\ worker[w].at = "put"
        /\ parts' = [parts EXCEPT ![worker[w].part] = worker[w].try]
        /\ UNCHANGED <<next, aborted, upload, stray>>
    BY <1>4, PartPutStep
  <2>2. worker[w].try \in 0 .. MaxAttempts
    BY <1>1 DEF UpType, WorkRecs
  <2>. QED
    BY <1>1, <1>2, <2>1, <2>2 DEF UpType, Alone
<1>5. ASSUME NEW w \in Workers, PartLost(w) PROVE UpType'
  <2> DEFINE p == worker[w].part
             t == worker[w].try
             e == [part |-> p, etag |-> t]
  <2>1. /\ Keeps(w)
        /\ \/ UNCHANGED <<parts, stray>>
           \/ parts' = [parts EXCEPT ![p] = t] /\ UNCHANGED stray
           \/ stray' = stray \cup {e} /\ UNCHANGED parts
        /\ p \in 1 .. TotalParts(size) /\ t \in 1 .. MaxAttempts
        /\ UNCHANGED <<next, uploaded, aborted>>
    BY <1>5, PartLostStep
  <2>2. e \in Entries
    BY <2>1 DEF Entries
  <2> HIDE DEF e
  <2>3. parts' \in [1 .. TotalParts(size) -> 0 .. MaxAttempts] /\ stray' \subseteq Entries
    BY <1>1, <2>1, <2>2 DEF UpType
  <2>. QED
    BY <1>1, <1>2, <2>1, <2>3 DEF UpType, Keeps, Alone
<1>6. ASSUME NEW w \in Workers, Awake(w) \/ Signed(w) \/ PartAborted(w) \/ NotSigned(w)
      PROVE  UpType'
  <2>1. Keeps(w) /\ UNCHANGED <<next, uploaded, aborted, parts, stray>>
    BY <1>6, KeepStep
  <2>. QED
    BY <1>1, <1>2, <2>1 DEF UpType, Keeps, Alone
<1>7. CASE StrayLands
  <2>1. PICK s \in stray :
          /\ stray' = stray \ {s} /\ parts' = [parts EXCEPT ![s.part] = s.etag]
          /\ UNCHANGED <<next, worker, uploaded, aborted, upload>>
    BY <1>7 DEF StrayLands
  <2>2. s.etag \in 0 .. MaxAttempts
    BY <1>1 DEF UpType, Entries
  <2>. QED
    BY <1>1, <1>2, <2>1, <2>2 DEF UpType
<1>8. CASE Abort
  BY <1>1, <1>2, <1>8 DEF Abort, UpType
<1>9. CASE Complete
  <2>1. /\ uploaded' = <<>> /\ stray' = {} /\ parts' = [p \in DOMAIN parts |-> 0]
        /\ upload' \in {"completed", "refused"} /\ UNCHANGED <<next, worker, aborted>>
    BY <1>9, CompleteStep
  <2>. QED
    BY <1>1, <1>2, <2>1 DEF UpType
<1>10. CASE Calm
  BY <1>1, <1>2, <1>10 DEF UpType, Calm, up
<1>. QED
  BY <1>3, <1>4, <1>5, <1>6, <1>7, <1>8, <1>9, <1>10, Steps, CalmStep

\* What is stored stays made of the file's units, and an undamaged object is
\* whole.
LEMMA ObjectInvNext ==
    ASSUME IInv, [Next]_vars
    PROVE  ObjectInv' /\ Len(object') <= CiphertextSize(size')
<1>1. size' = size /\ Units' = Units /\ CiphertextSize(size)' = CiphertextSize(size)
  BY UploadStep, SameLayout
<1>2. /\ object \in Seq(Units) /\ Len(object) <= CiphertextSize(size)
      /\ upload = "completed" /\ "fault" \notin slips => Whole
      /\ CiphertextChunk \in Nat /\ CiphertextSize(size) \in Nat
  <2>1. CiphertextChunk \in Nat /\ CiphertextSize(size) \in Nat
    BY Sized DEF IInv
  <2>2. Len(object) <= CiphertextSize(size)
    BY DEF IInv, TypeOK
  <2>. QED
    BY <2>1, <2>2 DEF IInv, ObjectInv
<1>3. CASE Complete
  <2>1. /\ object' \in Seq(Units) /\ Len(object') <= CiphertextSize(size)
        /\ upload' = "completed" => Whole'
    BY <1>3, CompleteStep
  <2>. QED
    BY <1>1, <2>1 DEF ObjectInv
<1>4. CASE Damage
  <2>1. object' \in Seq(Units) /\ Len(object') <= Len(object)
    <3>1. CASE \E n \in 0 .. Len(object) - 1 : object' = SubSeq(object, 1, n)
      BY <1>2, <3>1
    <3>2. CASE /\ Len(object) > CiphertextChunk
               /\ object' = SubSeq(object, CiphertextChunk + 1, Len(object))
                            \o SubSeq(object, 1, CiphertextChunk)
      <4> DEFINE a == SubSeq(object, CiphertextChunk + 1, Len(object))
                 b == SubSeq(object, 1, CiphertextChunk)
      <4>1. /\ a \in Seq(Units) /\ Len(a) = Len(object) - CiphertextChunk
            /\ b \in Seq(Units) /\ Len(b) = CiphertextChunk
        BY <1>2, <3>2
      <4>2. object' = a \o b
        BY <3>2
      <4> HIDE DEF a, b
      <4>. QED
        BY <1>2, <4>1, <4>2
    <3>. QED
      BY <1>4, <3>1, <3>2 DEF Damage
  <2>2. Len(object') \in Nat /\ Len(object) \in Nat
    BY <1>2, <2>1
  <2>3. "fault" \in slips'
    BY <1>4 DEF Damage
  <2>. QED
    BY <1>1, <1>2, <2>1, <2>2, <2>3 DEF ObjectInv
<1>5. ASSUME object' = object, ~Complete PROVE ObjectInv' /\ Len(object') <= CiphertextSize(size')
  <2>1. upload' = "completed" /\ "fault" \notin slips' => Whole
    BY <1>2, <1>5, UploadStep
  <2>2. Whole => Whole'
    BY <1>1, <1>5, SameLayout DEF Whole
  <2>. QED
    BY <1>1, <1>2, <1>5, <2>1, <2>2 DEF ObjectInv
<1>. QED
  BY <1>3, <1>4, <1>5, UploadStep

\* A piece of a sequence.
LEMMA PieceOf ==
    ASSUME NEW S, NEW q \in Seq(S), NEW m \in Nat, NEW n \in Nat, m <= n, n <= Len(q)
    PROVE  LET s == SubSeq(q, m + 1, n) IN
           /\ s \in Seq(S) /\ Len(s) = n - m
           /\ \A i \in 1 .. n - m : s[i] = q[m + i]
  OBVIOUS

\* Two sequences, one after the other.
LEMMA Joins ==
    ASSUME NEW S, NEW q \in Seq(S), NEW s \in Seq(S)
    PROVE  /\ q \o s \in Seq(S) /\ Len(q \o s) = Len(q) + Len(s)
           /\ Len(q) \in Nat /\ Len(s) \in Nat
           /\ \A i \in 1 .. Len(q) : (q \o s)[i] = q[i]
           /\ \A i \in 1 .. Len(s) : (q \o s)[Len(q) + i] = s[i]
  OBVIOUS

\* The whole of a sequence, as a piece.
LEMMA AllOf == ASSUME NEW S, NEW q \in Seq(S) PROVE SubSeq(q, 1, Len(q)) = q
  OBVIOUS

-----------------------------------------------------------------------------
(* What was asked, and the stream that answers it. *)

GetRecs == [at : {"none", "fetch", "stream", "closed", "errored", "cancelled"},
            header : Headers, range : {None} \cup [first : 0 .. size, last : 0 .. size],
            pos : 0 .. CiphertextSize(size), part : 0 .. TotalParts(size),
            left : 0 .. size, skip : 0 .. ChunkSize - 1, remaining : 0 .. size]

Notices == {"streaming", "failed", "interrupted"}

DownInv == get \in GetRecs /\ told \subseteq Notices /\ AskInv /\ QueueInv /\ OutInv

\* The download's part of the invariant.
LEMMA DownTyped == ASSUME IInv PROVE DownInv
  BY DEF IInv, TypeOK, DownInv, GetRecs, Notices

\* A range that is served lies within the file.
LEMMA Ranges ==
    ASSUME TypeOK, NEW h \in Headers, ParseRange(h) # None
    PROVE  LET r == ParseRange(h) IN
           /\ r \in [first : 0 .. size, last : 0 .. size]
           /\ r.first \in 0 .. size - 1 /\ r.last \in r.first .. size - 1
           /\ Length(r) \in 1 .. size /\ r.first + Length(r) <= size
<1>1. size \in Nat \ {0}
  BY Sized
<1>2. h \in [first : 0 .. size, last : 0 .. size + 1] /\ h.first < size
      /\ Least(h.last, size - 1) >= h.first
      /\ ParseRange(h) = [first |-> h.first, last |-> Least(h.last, size - 1)]
  BY <1>1 DEF ParseRange, Headers, Least
<1>3. /\ h.first \in 0 .. size - 1 /\ h.last \in 0 .. size + 1
  BY <1>1, <1>2
<1>4. Least(h.last, size - 1) \in h.first .. size - 1
  BY <1>1, <1>2, <1>3 DEF Least
<1>. QED
  BY <1>1, <1>2, <1>3, <1>4 DEF Length

\* What is owed lies within the file.
LEMMA Asked ==
    ASSUME IInv
    PROVE  /\ First \in Nat /\ Amount \in 1 .. size /\ First + Amount <= size
           /\ get.range = None => First = 0 /\ Amount = size
<1>1. size \in Nat \ {0}
  BY Sized DEF IInv
<1>2. get.header \in Headers /\ get.range = ParseRange(get.header)
  BY DownTyped DEF DownInv, GetRecs, AskInv
<1>3. CASE get.range = None
  BY <1>1, <1>3 DEF First, Amount
<1>4. CASE get.range # None
  <2>1. /\ get.range.first \in 0 .. size - 1
        /\ Length(get.range) \in 1 .. size /\ get.range.first + Length(get.range) <= size
    BY <1>2, <1>4, Ranges DEF IInv
  <2>. QED
    BY <1>1, <1>4, <2>1 DEF First, Amount
<1>. QED
  BY <1>3, <1>4

\* The answer stays that to the same question.
LEMMA SameAsk ==
    ASSUME IInv, size' = size, get'.range = get.range, get'.header = get.header
    PROVE  /\ First' = First /\ Amount' = Amount
           /\ (get.range = ParseRange(get.header))'
<1>1. get.range = ParseRange(get.header)
  BY DEF IInv, AskInv
<1>. QED
  BY <1>1, SameLayout DEF First, Amount, Length, ParseRange

\* Where an open stream is.
LEMMA At ==
    ASSUME IInv, Open
    PROVE  LET p == get.part
               b == (p - 1) * ChunkSize IN
           /\ p \in 1 .. TotalParts(size) /\ b \in Nat
           /\ get.left = size - b /\ get.left \in 1 .. size
           /\ PlainLen(p) \in 1 .. ChunkSize /\ b + PlainLen(p) <= size
           /\ p < TotalParts(size) => b + PlainLen(p) = p * ChunkSize /\ PlainLen(p) = ChunkSize
           /\ p = TotalParts(size) => b + PlainLen(p) = size
           /\ get.left > ChunkSize <=> p < TotalParts(size)
           /\ p = TotalParts(size) => PlainLen(p) = get.left
<1> DEFINE p == get.part
           b == (p - 1) * ChunkSize
           t == TotalParts(size)
<1>1. p \in 1 .. t /\ get.left = size - b
  BY DEF IInv, QueueInv
<1>2. /\ PlainLen(p) \in 1 .. ChunkSize /\ b \in Nat /\ b + PlainLen(p) <= size
      /\ p < t => b + PlainLen(p) = p * ChunkSize
      /\ p = t => b + PlainLen(p) = size
  BY <1>1, Blobs DEF IInv
<1>3. /\ size \in Nat /\ ChunkSize \in Nat \ {0} /\ t \in Nat
      /\ (t - 1) * ChunkSize < size
  BY Sized DEF IInv
<1>4. PlainLen(p) \in Nat /\ p \in Nat
  BY <1>1, <1>2, <1>3
<1>5. get.left \in 1 .. size
  BY <1>1, <1>2, <1>3, <1>4
<1>6. p < t => PlainLen(p) = ChunkSize
  BY <1>1 DEF PlainLen
<1>7. CASE p < t
  <2>1. p * ChunkSize <= (t - 1) * ChunkSize
    BY <1>1, <1>3, <1>4, <1>7, Multiples
  <2>2. p * ChunkSize = b + ChunkSize /\ (t - 1) * ChunkSize \in Nat
    BY <1>3, <1>4, <1>7
  <2>3. get.left > ChunkSize
    BY <1>1, <1>2, <1>3, <2>1, <2>2
  <2>. QED
    BY <1>1, <1>2, <1>3, <1>5, <1>6, <1>7, <2>3
<1>8. CASE p = t
  <2>1. PlainLen(p) = get.left /\ ~(get.left > ChunkSize)
    BY <1>1, <1>2, <1>3, <1>4, <1>8
  <2>. QED
    BY <1>1, <1>2, <1>3, <1>5, <1>6, <1>8, <2>1
<1>9. p < t \/ p = t
  <2>1. p \in 1 .. t /\ t \in Nat
    BY <1>1, <1>3
  <2> HIDE DEF p, t
  <2>. QED
    BY <2>1
<1>. QED
  BY <1>7, <1>8, <1>9

\* A stream that was closed, or never opened, has nothing more to keep than
\* what was handed out.
LEMMA Asking ==
    ASSUME IInv, NEW h \in Headers, NEW fresh \in BOOLEAN, Request(h, fresh)
    PROVE  DownInv'
<1> DEFINE r  == IF fresh THEN ParseRange(h) ELSE None
           sc == IF r = None THEN 0 ELSE r.first \div ChunkSize
           t  == TotalParts(size)
           g  == [at |-> "fetch", header |-> IF fresh THEN h ELSE None, range |-> r,
                  pos |-> sc * CiphertextChunk, part |-> sc + 1,
                  left |-> size - sc * ChunkSize,
                  skip |-> IF r = None THEN 0 ELSE Skip(r),
                  remaining |-> IF r = None THEN 0 ELSE Length(r)]
<1>1. /\ get' = g /\ UNCHANGED <<size, object, queue, out, told, upload>>
      /\ upload = "completed" /\ get.at = "none"
  BY DEF Request, up
<1>2. /\ size \in Nat \ {0} /\ ChunkSize \in Nat \ {0} /\ t \in Nat \ {0}
      /\ size <= t * ChunkSize /\ CiphertextChunk = ChunkSize + 1
      /\ CiphertextSize(size) = size + t
  BY Sized DEF IInv
<1>3. queue = <<>> /\ out = <<>> /\ told \subseteq Notices
  BY <1>1, DownTyped DEF DownInv, AskInv
<1>4. r # None => /\ r \in [first : 0 .. size, last : 0 .. size]
                  /\ r.first \in 0 .. size - 1 /\ Length(r) \in 1 .. size
  BY Ranges DEF IInv
<1>5. r = ParseRange(g.header) /\ g.header \in Headers
  BY DEF ParseRange, Headers
<1> HIDE DEF r
<1>6. /\ sc \in Nat /\ sc * ChunkSize \in Nat /\ sc * ChunkSize < size
      /\ r = None => sc = 0
      /\ r # None => /\ Skip(r) \in 0 .. ChunkSize - 1
                     /\ r.first = sc * ChunkSize + Skip(r)
  <2>1. CASE r = None
    BY <1>2, <2>1
  <2>2. CASE r # None
    <3> DEFINE f == r.first
               q == f \div ChunkSize
               m == f % ChunkSize
    <3>1. f \in Nat /\ f < size
      BY <1>2, <1>4, <2>2
    <3> HIDE DEF f
    <3>2. q \in Nat /\ m \in 0 .. ChunkSize - 1 /\ f = q * ChunkSize + m
      BY <1>2, <3>1, Divided
    <3>3. sc = q /\ Skip(r) = m
      BY <2>2 DEF f, Skip
    <3> HIDE DEF sc, q, m
    <3>4. q * ChunkSize \in Nat /\ q * ChunkSize <= f
      BY <1>2, <3>1, <3>2
    <3>5. sc \in Nat /\ sc * ChunkSize \in Nat /\ sc * ChunkSize < size
      BY <1>2, <3>1, <3>2, <3>3, <3>4
    <3>6. Skip(r) \in 0 .. ChunkSize - 1 /\ r.first = sc * ChunkSize + Skip(r)
      BY <3>2, <3>3 DEF f
    <3>. QED
      BY <2>2, <3>5, <3>6
  <2>. QED
    BY <2>1, <2>2
<1> HIDE DEF sc
<1>7. sc + 1 \in 1 .. t
  <2>1. sc >= t => t * ChunkSize <= sc * ChunkSize
    BY <1>2, <1>6, Multiples
  <2>2. t * ChunkSize \in Nat
    BY <1>2
  <2>. QED
    BY <1>2, <1>6, <2>1, <2>2
<1>8. /\ sc * CiphertextChunk = sc * ChunkSize + sc
      /\ sc * CiphertextChunk \in 0 .. CiphertextSize(size)
  BY <1>2, <1>6, <1>7
<1>9. g \in GetRecs
  <2>1. size - sc * ChunkSize \in 0 .. size
    BY <1>2, <1>6
  <2>2. (IF r = None THEN 0 ELSE Skip(r)) \in 0 .. ChunkSize - 1
    BY <1>2, <1>6
  <2>3. (IF r = None THEN 0 ELSE Length(r)) \in 0 .. size
    BY <1>2, <1>4
  <2>4. r \in {None} \cup [first : 0 .. size, last : 0 .. size]
    BY <1>4
  <2>5. sc + 1 \in 0 .. t
    BY <1>7
  <2>. QED
    BY <1>5, <1>8, <2>1, <2>2, <2>3, <2>4, <2>5 DEF GetRecs
<1>10. /\ GetRecs' = GetRecs /\ Units' = Units /\ TotalParts(size)' = t
       /\ ParseRange(get.header)' = ParseRange(g.header)
  BY <1>1, SameLayout DEF GetRecs, ParseRange
<1>11. AskInv'
  BY <1>1, <1>3, <1>5, <1>10 DEF AskInv
<1>12. QueueInv'
  <2>1. /\ (sc + 1 - 1) * ChunkSize = sc * ChunkSize
        /\ (sc + 1 - 1) * CiphertextChunk = sc * CiphertextChunk
    BY <1>6
  <2>2. get'.part = sc + 1 /\ get'.left = size - sc * ChunkSize /\ get'.pos = sc * CiphertextChunk
    BY <1>1
  <2>3. queue' = <<>> /\ Len(queue') = 0 /\ queue' \in Seq(Units)
    BY <1>1, <1>3
  <2>4. /\ get'.part \in 1 .. t /\ get'.left = size' - (get'.part - 1) * ChunkSize
        /\ get'.pos = (get'.part - 1) * CiphertextChunk + Len(queue')
    BY <1>1, <1>2, <1>6, <1>7, <1>8, <2>1, <2>2, <2>3
  <2>5. \A i \in 1 .. Len(queue') : FALSE
    BY <2>3
  <2>. QED
    BY <1>10, <2>3, <2>4, <2>5 DEF QueueInv
<1>13. OutInv'
  <2>1. out' = <<>> /\ Len(out') = 0 /\ out' \in Seq(Nat) /\ \A i \in 1 .. Len(out') : FALSE
    BY <1>1, <1>3
  <2>2. First' = (IF r = None THEN 0 ELSE r.first) /\ Amount' = (IF r = None THEN size ELSE Length(r))
    BY <1>1 DEF First, Amount, Length
  <2>3. Amount' \in Nat /\ Amount' > 0
    BY <1>2, <1>4, <2>2
  <2>4. First' + Len(out') = (get'.part - 1) * ChunkSize + get'.skip
    <3>1. get'.part = sc + 1 /\ sc + 1 - 1 = sc
      BY <1>1, <1>6
    <3>2. get'.skip = IF r = None THEN 0 ELSE Skip(r)
      BY <1>1
    <3>. QED
      BY <1>2, <1>4, <1>6, <2>1, <2>2, <3>1, <3>2
  <2>5. IF get'.range = None THEN get'.skip = 0
        ELSE Len(out') + get'.remaining = Amount' /\ get'.remaining > 0
    BY <1>1, <1>4, <2>1, <2>2, <2>3
  <2>6. get'.at = "fetch"
    BY <1>1
  <2>. QED
    BY <2>1, <2>3, <2>4, <2>5, <2>6 DEF OutInv
<1>. QED
  BY <1>1, <1>3, <1>9, <1>10, <1>11, <1>12, <1>13 DEF DownInv

\* The stream goes on, or ends without an answer, where it is.
LEMMA Staying ==
    ASSUME IInv, NEW a \in {"stream", "errored", "cancelled"}, get.at \in {"fetch", "stream"},
           get' = [get EXCEPT !.at = a], a = "stream" => queue' = queue,
           queue' \in Seq(Units), told' \subseteq Notices,
           UNCHANGED <<size, object, upload, out>>
    PROVE  DownInv'
<1>1. DownInv
  BY DownTyped
<1>2. /\ get' \in GetRecs /\ get'.at = a
      /\ get'.header = get.header /\ get'.range = get.range /\ get'.pos = get.pos
      /\ get'.part = get.part /\ get'.left = get.left /\ get'.skip = get.skip
      /\ get'.remaining = get.remaining
  BY <1>1 DEF DownInv, GetRecs
<1>3. /\ GetRecs' = GetRecs /\ Units' = Units /\ TotalParts(size)' = TotalParts(size)
      /\ First' = First /\ Amount' = Amount /\ (get.range = ParseRange(get.header))'
  BY <1>2, SameLayout, SameAsk DEF GetRecs
<1>4. AskInv'
  BY <1>1, <1>2, <1>3 DEF DownInv, AskInv
<1>5. QueueInv'
  <2>2. CASE a = "stream"
    BY <1>1, <1>2, <1>3, <2>2 DEF DownInv, QueueInv, Open
  <2>3. CASE a # "stream"
    BY <1>2, <1>3, <2>3 DEF QueueInv, Open
  <2>. QED
    BY <2>2, <2>3
<1>6. OutInv'
  BY <1>1, <1>2, <1>3 DEF DownInv, OutInv, Open
<1>. QED
  BY <1>1, <1>2, <1>3, <1>4, <1>5, <1>6 DEF DownInv, Notices

\* What arrives is queued behind what is.
LEMMA Arriving == ASSUME IInv, Arrive PROVE DownInv'
<1>1. PICK n \in 1 .. Len(object) - get.pos :
        /\ queue' = queue \o SubSeq(object, get.pos + 1, get.pos + n)
        /\ get' = [get EXCEPT !.pos = @ + n]
  BY DEF Arrive
<1>2. get.at = "stream" /\ get.pos < Len(object) /\ UNCHANGED <<size, object, upload, out, told>>
  BY DEF Arrive, up
<1>3. /\ DownInv /\ object \in Seq(Units) /\ Len(object) <= CiphertextSize(size)
      /\ CiphertextSize(size) \in Nat
  <2>1. CiphertextSize(size) \in Nat
    BY Sized DEF IInv
  <2>. QED
    BY <2>1, DownTyped DEF IInv, TypeOK, ObjectInv
<1>4. get.pos \in Nat /\ get.pos + n <= Len(object) /\ Len(object) \in Nat /\ n \in Nat
  <2>1. get.pos \in 0 .. CiphertextSize(size)
    BY <1>3 DEF DownInv, GetRecs
  <2>2. Len(object) \in Nat
    BY <1>3
  <2>. QED
    BY <1>3, <2>1, <2>2
<1>5. get.pos + n \in 0 .. CiphertextSize(size)
  BY <1>3, <1>4
<1>6. /\ get' \in GetRecs /\ get'.at = "stream" /\ get'.pos = get.pos + n
      /\ get'.header = get.header /\ get'.range = get.range
      /\ get'.part = get.part /\ get'.left = get.left /\ get'.skip = get.skip
      /\ get'.remaining = get.remaining
  BY <1>1, <1>2, <1>3, <1>5 DEF DownInv, GetRecs
<1>7. /\ GetRecs' = GetRecs /\ Units' = Units /\ TotalParts(size)' = TotalParts(size)
      /\ First' = First /\ Amount' = Amount /\ (get.range = ParseRange(get.header))'
  BY <1>2, <1>6, SameLayout, SameAsk DEF GetRecs
<1>8. AskInv'
  BY <1>2, <1>3, <1>6, <1>7 DEF DownInv, AskInv
<1>9. OutInv'
  BY <1>2, <1>3, <1>6, <1>7 DEF DownInv, OutInv, Open
<1>10. QueueInv'
  <2> DEFINE s == SubSeq(object, get.pos + 1, get.pos + n)
             b == (get.part - 1) * CiphertextChunk
  <2>1. /\ s \in Seq(Units) /\ Len(s) = n
        /\ \A i \in 1 .. n : s[i] = object[get.pos + i]
    <3> DEFINE m == get.pos
               e == get.pos + n
    <3>1. m \in Nat /\ e \in Nat /\ m <= e /\ e - m = n /\ e <= Len(object)
      BY <1>4
    <3>2. s = SubSeq(object, m + 1, e)
      OBVIOUS
    <3> HIDE DEF s, m, e
    <3>3. s \in Seq(Units) /\ Len(s) = e - m /\ \A i \in 1 .. e - m : s[i] = object[m + i]
      BY <1>3, <3>1, <3>2, PieceOf
    <3>. QED
      BY <3>1, <3>3 DEF m
  <2>2. /\ queue \in Seq(Units) /\ get.pos = b + Len(queue) /\ get.part \in 1 .. TotalParts(size)
        /\ get.left = size - (get.part - 1) * ChunkSize
        /\ \A i \in 1 .. Len(queue) : queue[i] = object[b + i]
    BY <1>2, <1>3 DEF DownInv, QueueInv, Open
  <2>3. b \in Nat
    <3>1. TotalParts(size) \in Nat /\ CiphertextChunk \in Nat
      BY Sized DEF IInv
    <3>2. get.part - 1 \in Nat
      BY <2>2, <3>1
    <3>. QED
      BY <3>1, <3>2
  <2> HIDE DEF s, b
  <2>4. /\ queue' \in Seq(Units) /\ Len(queue') = Len(queue) + n
        /\ \A i \in 1 .. Len(queue') : queue'[i] = object[b + i]
    <3>1. queue' = queue \o s
      BY <1>1 DEF s
    <3>2. queue' \in Seq(Units) /\ Len(queue') = Len(queue) + n /\ Len(queue) \in Nat
      BY <2>1, <2>2, <3>1, Joins
    <3>3. ASSUME NEW i \in 1 .. Len(queue') PROVE queue'[i] = object[b + i]
      <4>1. CASE i \in 1 .. Len(queue)
        BY <2>1, <2>2, <3>1, <4>1, Joins
      <4>2. CASE i \notin 1 .. Len(queue)
        <5>1. i - Len(queue) \in 1 .. n
          BY <1>4, <3>2, <4>2
        <5>2. queue'[i] = s[i - Len(queue)]
          <6>1. Len(queue) + (i - Len(queue)) = i
            BY <3>2
          <6>. QED
            BY <2>1, <2>2, <3>1, <5>1, <6>1, Joins
        <5>3. get.pos + (i - Len(queue)) = b + i
          BY <2>2, <2>3, <3>2
        <5>. QED
          BY <2>1, <5>1, <5>2, <5>3
      <4>. QED
        BY <4>1, <4>2
    <3>. QED
      BY <3>2, <3>3
  <2>5. get'.pos = b + Len(queue') /\ get'.pos <= Len(object)
    BY <1>4, <1>6, <2>2, <2>3, <2>4
  <2>. QED
    BY <1>2, <1>6, <1>7, <2>2, <2>4, <2>5 DEF QueueInv, b
<1>. QED
  BY <1>2, <1>3, <1>6, <1>7, <1>8, <1>9, <1>10 DEF DownInv

\* The steps of the upload, and damage, do not touch an open stream.
LEMMA Aside ==
    ASSUME IInv, UNCHANGED <<size, down>>, Open => object' = object,
           upload = "completed" => upload' = "completed"
    PROVE  DownInv'
<1>1. DownInv /\ UNCHANGED <<get, queue, out, told>>
  BY DownTyped DEF down
<1>2. /\ GetRecs' = GetRecs /\ Units' = Units /\ TotalParts(size)' = TotalParts(size)
      /\ First' = First /\ Amount' = Amount /\ (get.range = ParseRange(get.header))'
  BY <1>1, SameLayout, SameAsk DEF GetRecs
<1>3. AskInv'
  BY <1>1, <1>2 DEF DownInv, AskInv
<1>4. QueueInv'
  BY <1>1, <1>2 DEF DownInv, QueueInv, Open
<1>5. OutInv'
  BY <1>1, <1>2 DEF DownInv, OutInv, Open
<1>. QED
  BY <1>1, <1>2, <1>3, <1>4, <1>5 DEF DownInv, Notices

-----------------------------------------------------------------------------
(* A chunk that decrypts is the one that belongs there. *)

\* The plaintext of a chunk that decrypts at the stream's position.
LEMMA PlainOf ==
    ASSUME IInv, Open, NEW ct \in Seq(Units), Intact(ct, get.part)
    PROVE  LET n == PlainLen(get.part) IN
           /\ Len(ct) = n + 1
           /\ Plain(ct) \in Seq(Nat) /\ Len(Plain(ct)) = n
           /\ \A i \in 1 .. n : Plain(ct)[i] = (get.part - 1) * ChunkSize + i - 1
<1> DEFINE p == get.part
           n == PlainLen(p)
           b == (p - 1) * ChunkSize
<1>1. /\ p \in 1 .. TotalParts(size) /\ b \in Nat /\ n \in 1 .. ChunkSize
      /\ ChunkSize \in Nat \ {0} /\ Overhead = 1 /\ TotalParts(size) \in Nat
  BY At, Sized DEF IInv
<1>2. Len(ct) \in Nat /\ Len(ct) > 1 /\ 1 \in DOMAIN ct /\ ct[1] \in Units
  BY <1>1 DEF Intact
<1>3. ct[1].aad.n = p
  BY <1>2 DEF Intact
<1>4. ct[1].blob = Blob(p)
  <2>1. ct[1].aad.n \in Nat
    BY <1>1, <1>3
  <2>. QED
    BY <1>2, <1>3, <2>1, UnitIs DEF IInv
<1>5. Blob(p).first = b /\ Blob(p).last - Blob(p).first + 1 = n
  BY <1>1, Blobs DEF IInv
<1>6. Len(ct) = n + 1
  BY <1>1, <1>4, <1>5 DEF Intact
<1> HIDE DEF n, b
<1>7. Plain(ct) = [i \in 1 .. n |-> b + i - 1]
  <2>1. n + 1 - 1 = n
    BY <1>1
  <2>. QED
    BY <1>1, <1>4, <1>5, <1>6, <2>1 DEF Plain
<1>8. \A i \in 1 .. n : b + i - 1 \in Nat
  BY <1>1
<1>9. Plain(ct) \in Seq(Nat) /\ Len(Plain(ct)) = n
  BY <1>1, <1>7, <1>8
<1>. QED
  BY <1>6, <1>7, <1>9 DEF n, b

\* The chunk of an undamaged object decrypts.
LEMMA WholeIntact ==
    ASSUME IInv, Open, Whole, NEW ct \in Seq(Units), Len(ct) = PlainLen(get.part) + 1,
           \A k \in 1 .. Len(ct) : ct[k] = object[(get.part - 1) * CiphertextChunk + k]
    PROVE  Intact(ct, get.part)
<1> DEFINE p == get.part
           n == PlainLen(p)
<1>1. p \in 1 .. TotalParts(size) /\ n \in 1 .. ChunkSize /\ ChunkSize \in Nat /\ Overhead = 1
  BY At, Sized DEF IInv
<1>2. \A k \in 1 .. n + 1 : ct[k] = Unit(p, k)
  BY <1>1 DEF Whole
<1>3. DOMAIN ct = 1 .. n + 1 /\ 1 \in 1 .. n + 1 /\ Len(ct) > 1
  BY <1>1
<1>4. ct[1].blob = Blob(p)
  BY <1>2, <1>3 DEF Unit
<1>5. Blob(p).last - Blob(p).first + 1 = n
  BY <1>1, Blobs DEF IInv
<1> HIDE DEF n
<1>6. \A k \in DOMAIN ct : ct[k] = [aad |-> [n |-> p, of |-> TotalParts(size)],
                                    blob |-> Blob(p), k |-> k]
  BY <1>2, <1>3 DEF Unit, Aad
<1>7. Len(ct) = Blob(p).last - Blob(p).first + 1 + Overhead
  BY <1>1, <1>3, <1>5 DEF n
<1>. QED
  BY <1>1, <1>3, <1>4, <1>6, <1>7 DEF Intact

-----------------------------------------------------------------------------
(* What is handed out. *)

\* What the browser has, and that it is the beginning of what it is owed.
Handed == out \in Seq(Nat) /\ Len(out) <= Amount /\ \A i \in 1 .. Len(out) : out[i] = First + i - 1

\* A piece handed out is the next units that are owed.
LEMMA HandOut ==
    ASSUME IInv, NEW piece \in Seq(Nat), out' = out \o piece,
           size' = size, get'.range = get.range, get'.header = get.header,
           \A i \in 1 .. Len(piece) : piece[i] = First + Len(out) + i - 1,
           Len(out) + Len(piece) <= Amount
    PROVE  Handed' /\ Len(out') = Len(out) + Len(piece)
<1>1. First' = First /\ Amount' = Amount
  BY SameAsk
<1>2. First \in Nat /\ Amount \in Nat
  <2>1. size \in Nat
    BY Sized DEF IInv
  <2>. QED
    BY <2>1, Asked
<1>3. out \in Seq(Nat) /\ \A i \in 1 .. Len(out) : out[i] = First + i - 1
  BY DEF IInv, OutInv
<1>4. out' \in Seq(Nat) /\ Len(out') = Len(out) + Len(piece) /\ Len(out) \in Nat /\ Len(piece) \in Nat
  BY <1>3, Joins
<1>5. ASSUME NEW i \in 1 .. Len(out') PROVE out'[i] = First + i - 1
  <2>1. CASE i \in 1 .. Len(out)
    BY <1>3, <2>1, Joins
  <2>2. CASE i \notin 1 .. Len(out)
    <3> DEFINE j == i - Len(out)
    <3>1. j \in 1 .. Len(piece) /\ i = Len(out) + j
      BY <1>4, <2>2
    <3> HIDE DEF j
    <3>2. out'[i] = piece[j]
      BY <1>3, <3>1, Joins
    <3>3. First + Len(out) + j - 1 = First + i - 1
      BY <1>2, <1>4, <3>1
    <3>. QED
      BY <3>1, <3>2, <3>3
  <2>. QED
    BY <2>1, <2>2
<1>. QED
  BY <1>1, <1>4, <1>5 DEF Handed

\* A chunk's plaintext is handed out up to the end of the chunk, or of what is
\* owed.
LEMMA EnqueueStep ==
    ASSUME IInv, get.at = "stream", size' = size,
           NEW plain \in Seq(Nat), Len(plain) = PlainLen(get.part),
           \A i \in 1 .. Len(plain) : plain[i] = (get.part - 1) * ChunkSize + i - 1,
           NEW g \in GetRecs, g.range = get.range, g.header = get.header,
           g.skip = get.skip, g.remaining = get.remaining, Enqueue(plain, g)
    PROVE  /\ get' \in GetRecs /\ told' \subseteq Notices /\ Handed'
           /\ get'.header = get.header /\ get'.range = get.range
           /\ get'.part = g.part /\ get'.left = g.left /\ get'.pos = g.pos
           /\ \/ get'.at = "closed" /\ Len(out') = Amount
              \/ /\ get'.at = g.at /\ get'.skip = 0
                 /\ First + Len(out') = (get.part - 1) * ChunkSize + Len(plain)
                 /\ get.range # None => /\ Len(out') + get'.remaining = Amount
                                        /\ get'.remaining > 0
<1> DEFINE b == (get.part - 1) * ChunkSize
           n == Len(plain)
           s == get.skip
           m == get.remaining
<1>1. /\ b \in Nat /\ n \in Nat /\ n > 0 /\ n <= ChunkSize /\ b + n <= size
      /\ size \in Nat /\ ChunkSize \in Nat
      /\ n = ChunkSize \/ b + n = size
  <2>1. Open
    BY DEF Open
  <2>2. /\ b \in Nat /\ n \in 1 .. ChunkSize /\ b + n <= size /\ get.part \in 1 .. TotalParts(size)
        /\ get.part < TotalParts(size) => n = ChunkSize
        /\ get.part = TotalParts(size) => b + n = size
    BY <2>1, At
  <2>3. size \in Nat /\ ChunkSize \in Nat /\ TotalParts(size) \in Nat
    BY Sized DEF IInv
  <2> HIDE DEF b, n
  <2>4. get.part < TotalParts(size) \/ get.part = TotalParts(size)
    BY <2>2, <2>3
  <2>. QED
    BY <2>2, <2>3, <2>4
<1>2. /\ s \in 0 .. ChunkSize - 1 /\ m \in 0 .. size /\ told \subseteq Notices
  BY DownTyped DEF DownInv, GetRecs
<1>3. /\ First \in Nat /\ Amount \in Nat /\ First + Amount <= size
      /\ get.range = None => First = 0 /\ Amount = size
  BY <1>1, Asked
<1>4. /\ First + Len(out) = b + s /\ Len(out) \in Nat /\ out \in Seq(Nat)
      /\ get.range = None => s = 0
      /\ get.range # None => Len(out) + m = Amount /\ m > 0
  BY DEF IInv, OutInv, Open
<1>5. told' \subseteq Notices
  BY <1>2 DEF Enqueue, Notices
<1> HIDE DEF b, n, s, m
<1>6. CASE get.range = None
  <2>1. out' = out \o plain /\ get' = g
    BY <1>6 DEF Enqueue
  <2>2. \A i \in 1 .. Len(plain) : plain[i] = First + Len(out) + i - 1
    BY <1>1, <1>4, <1>6 DEF b
  <2>3. Len(out) + Len(plain) <= Amount
    BY <1>1, <1>3, <1>4, <1>6 DEF n
  <2>4. Handed' /\ Len(out') = Len(out) + Len(plain)
    BY <2>1, <2>2, <2>3, HandOut
  <2>5. First + Len(out') = b + n
    BY <1>1, <1>3, <1>4, <1>6, <2>4 DEF n
  <2>. QED
    BY <1>4, <1>5, <1>6, <2>1, <2>4, <2>5 DEF b, n, s
<1>7. CASE get.range # None
  <2> DEFINE e == Least(n, s + m)
             piece == SubSeq(plain, s + 1, e)
  <2>1. s \in Nat /\ m \in Nat /\ s < n
    BY <1>1, <1>2, <1>3, <1>4, <1>7
  <2>2. e \in Nat /\ s < e /\ e <= n /\ (e = n \/ e = s + m) /\ e <= s + m
    BY <1>1, <1>4, <1>7, <2>1 DEF Least
  <2>3. Least(s, n) = s
    BY <1>1, <2>1 DEF Least
  <2>4. /\ out' = out \o piece
        /\ get' = [g EXCEPT !.skip = @ - s, !.remaining = @ - Len(piece),
                            !.at = IF Len(piece) = m THEN "closed" ELSE @]
    BY <1>7, <2>3 DEF Enqueue, n, s, m
  <2> HIDE DEF e
  <2>5. /\ piece \in Seq(Nat) /\ Len(piece) = e - s
        /\ \A i \in 1 .. e - s : piece[i] = plain[s + i]
    BY <2>1, <2>2, PieceOf DEF n
  <2> HIDE DEF piece
  <2>6. \A i \in 1 .. Len(piece) : piece[i] = First + Len(out) + i - 1
    <3> SUFFICES ASSUME NEW i \in 1 .. e - s PROVE piece[i] = First + Len(out) + i - 1
      BY <2>5
    <3>1. s + i \in 1 .. n
      BY <1>1, <2>1, <2>2
    <3>2. plain[s + i] = b + (s + i) - 1
      BY <3>1 DEF n, b
    <3>3. piece[i] = b + (s + i) - 1
      BY <2>5, <3>2
    <3>4. i \in Nat /\ b \in Nat /\ s \in Nat /\ First + Len(out) = b + s /\ Len(out) \in Nat /\ First \in Nat
      BY <1>1, <1>3, <1>4, <2>1, <2>2
    <3>5. b + (s + i) - 1 = First + Len(out) + i - 1
      BY <3>4
    <3>. QED
      BY <3>3, <3>5
  <2>7. Len(out) + Len(piece) <= Amount
    BY <1>1, <1>3, <1>4, <1>7, <2>1, <2>2, <2>5
  <2>8. m - Len(piece) \in 0 .. size /\ 0 \in 0 .. ChunkSize - 1
    BY <1>1, <1>2, <2>1, <2>2, <2>5
  <2>9. /\ get' \in GetRecs /\ get'.header = get.header /\ get'.range = get.range
        /\ get'.part = g.part /\ get'.left = g.left /\ get'.pos = g.pos
        /\ get'.skip = 0 /\ get'.remaining = m - Len(piece)
        /\ get'.at = IF Len(piece) = m THEN "closed" ELSE g.at
    <3>1. s - s = 0
      BY <2>1
    <3>. QED
      BY <2>4, <2>8, <3>1 DEF GetRecs, s, m
  <2>10. Handed' /\ Len(out') = Len(out) + Len(piece)
    BY <2>4, <2>5, <2>6, <2>7, <2>9, HandOut
  <2>11. CASE Len(piece) = m
    <3>1. Len(out') = Amount
      BY <1>4, <1>7, <2>10, <2>11
    <3>. QED
      BY <1>5, <2>9, <2>10, <2>11, <3>1
  <2>12. CASE Len(piece) # m
    <3>a. e = n
      BY <2>1, <2>2, <2>5, <2>12
    <3>b. Len(out') = Len(out) + (n - s)
      BY <2>5, <2>10, <3>a
    <3>c. First + Len(out) = b + s /\ Len(out) \in Nat /\ First \in Nat /\ b \in Nat /\ n \in Nat /\ s \in Nat
      BY <1>1, <1>3, <1>4, <2>1
    <3>d. First + (Len(out) + (n - s)) = b + n
      BY <3>c
    <3>1. e = n /\ First + Len(out') = b + n
      BY <3>a, <3>b, <3>d
    <3>2. Len(out') + get'.remaining = Amount /\ get'.remaining > 0
      BY <1>4, <1>7, <2>1, <2>2, <2>5, <2>9, <2>10, <2>12
    <3>. QED
      BY <1>5, <2>9, <2>10, <2>12, <3>1, <3>2 DEF b, n
  <2>. QED
    BY <2>11, <2>12
<1>. QED
  BY <1>6, <1>7

-----------------------------------------------------------------------------
(* The decrypting stream. *)

\* A whole chunk of the queue, and what is left behind it.
LEMMA FirstChunk ==
    ASSUME IInv, get.at = "stream", Decrypting
    PROVE  LET ct == SubSeq(queue, 1, CiphertextChunk)
               b  == (get.part - 1) * CiphertextChunk
               rest == SubSeq(queue, CiphertextChunk + 1, Len(queue)) IN
           /\ get.part < TotalParts(size) /\ PlainLen(get.part) = ChunkSize
           /\ ct \in Seq(Units) /\ Len(ct) = CiphertextChunk /\ b \in Nat
           /\ \A k \in 1 .. Len(ct) : ct[k] = object[b + k]
           /\ rest \in Seq(Units) /\ Len(queue) = CiphertextChunk + Len(rest)
           /\ \A i \in 1 .. Len(rest) : rest[i] = object[b + CiphertextChunk + i]
           /\ get.pos = b + CiphertextChunk + Len(rest) /\ get.pos <= Len(object)
<1> DEFINE c == CiphertextChunk
           ct == SubSeq(queue, 1, c)
           b == (get.part - 1) * c
           rest == SubSeq(queue, c + 1, Len(queue))
<1>1. Open /\ get.left > ChunkSize /\ Len(queue) >= c
  BY DEF Open, Decrypting
<1>2. /\ get.part < TotalParts(size) /\ PlainLen(get.part) = ChunkSize
      /\ get.part \in 1 .. TotalParts(size)
  BY <1>1, At
<1>3. c \in Nat \ {0} /\ TotalParts(size) \in Nat
  BY Sized DEF IInv
<1>4. /\ queue \in Seq(Units) /\ get.pos = b + Len(queue)
      /\ queue # <<>> => get.pos <= Len(object)
      /\ \A i \in 1 .. Len(queue) : queue[i] = object[b + i]
  BY <1>1 DEF IInv, QueueInv
<1>5. Len(queue) \in Nat /\ b \in Nat
  <2>1. get.part - 1 \in Nat
    BY <1>2, <1>3
  <2>. QED
    BY <1>3, <1>4, <2>1
<1>6. queue # <<>>
  BY <1>1, <1>3, <1>5
<1> HIDE DEF c, b
<1>7. ct \in Seq(Units) /\ Len(ct) = c /\ \A k \in 1 .. c : ct[k] = queue[k]
  <2>1. ct = SubSeq(queue, 0 + 1, c)
    OBVIOUS
  <2> HIDE DEF ct
  <2>2. ct \in Seq(Units) /\ Len(ct) = c - 0 /\ \A k \in 1 .. c - 0 : ct[k] = queue[0 + k]
    BY <1>1, <1>3, <1>4, <1>5, <2>1, PieceOf
  <2>. QED
    BY <1>3, <2>2
<1>8. /\ rest \in Seq(Units) /\ Len(rest) = Len(queue) - c
      /\ \A i \in 1 .. Len(queue) - c : rest[i] = queue[c + i]
  BY <1>1, <1>3, <1>4, <1>5, PieceOf
<1> HIDE DEF ct, rest
<1>9. \A k \in 1 .. Len(ct) : ct[k] = object[b + k]
  <2> SUFFICES ASSUME NEW k \in 1 .. c PROVE ct[k] = object[b + k]
    BY <1>7
  <2>1. k \in 1 .. Len(queue)
    BY <1>1, <1>3, <1>5
  <2>. QED
    BY <1>4, <1>7, <2>1
<1>10. \A i \in 1 .. Len(rest) : rest[i] = object[b + c + i]
  <2> SUFFICES ASSUME NEW i \in 1 .. Len(queue) - c PROVE rest[i] = object[b + c + i]
    BY <1>8
  <2>1. c + i \in 1 .. Len(queue) /\ b + (c + i) = b + c + i
    BY <1>1, <1>3, <1>5
  <2>. QED
    BY <1>4, <1>8, <2>1
<1>11. Len(queue) = c + Len(rest) /\ get.pos = b + c + Len(rest) /\ get.pos <= Len(object)
  BY <1>1, <1>3, <1>4, <1>5, <1>6, <1>8
<1>. QED
  BY <1>2, <1>5, <1>7, <1>8, <1>9, <1>10, <1>11 DEF c, b, ct, rest

\* After a chunk the stream stands at the next boundary.
LEMMA Decrypted == ASSUME IInv, Decrypt, get'.at # "errored" PROVE DownInv'
<1> DEFINE c == CiphertextChunk
           ct == SubSeq(queue, 1, c)
           b == (get.part - 1) * c
           rest == SubSeq(queue, c + 1, Len(queue))
           t == TotalParts(size)
           g == [get EXCEPT !.left = @ - (Len(ct) - Overhead), !.part = @ + 1]
<1>1. get.at = "stream" /\ Decrypting /\ Open /\ queue' = rest
      /\ UNCHANGED <<size, object, upload>>
  BY DEF Decrypt, Open, up
<1>2. Intact(ct, get.part) /\ Enqueue(Plain(ct), g)
  <2>1. Errored => get'.at = "errored"
    BY DownTyped DEF DownInv, GetRecs, Errored
  <2>. QED
    BY <2>1 DEF Decrypt
<1>3. /\ get.part < t /\ PlainLen(get.part) = ChunkSize
      /\ ct \in Seq(Units) /\ Len(ct) = c /\ b \in Nat
      /\ rest \in Seq(Units)
      /\ \A i \in 1 .. Len(rest) : rest[i] = object[b + c + i]
      /\ get.pos = b + c + Len(rest) /\ get.pos <= Len(object)
  BY <1>1, FirstChunk
<1>4. /\ ChunkSize \in Nat \ {0} /\ c = ChunkSize + 1 /\ Overhead = 1 /\ t \in Nat
      /\ size \in Nat
  BY Sized DEF IInv
<1>5. /\ get.part \in 1 .. t /\ get.left = size - (get.part - 1) * ChunkSize
      /\ (get.part - 1) * ChunkSize \in Nat /\ get.left > ChunkSize
  BY <1>1, At DEF Decrypting
<1>6. /\ Plain(ct) \in Seq(Nat) /\ Len(Plain(ct)) = PlainLen(get.part)
      /\ \A i \in 1 .. Len(Plain(ct)) : Plain(ct)[i] = (get.part - 1) * ChunkSize + i - 1
  BY <1>1, <1>2, <1>3, PlainOf
<1>7. /\ get.left - (Len(ct) - Overhead) = get.left - ChunkSize
      /\ get.left - ChunkSize \in 0 .. size /\ get.part + 1 \in 1 .. t /\ get.part + 1 \in 0 .. t
      /\ get.part + 1 - 1 = get.part /\ get.part \in Nat
  <2>1. Len(ct) - Overhead = ChunkSize
    BY <1>3, <1>4
  <2> DEFINE x == (get.part - 1) * ChunkSize
  <2> HIDE DEF x, ct
  <2>2. x \in Nat /\ get.left = size - x /\ get.left > ChunkSize
    BY <1>5 DEF x
  <2>3. get.left - ChunkSize \in 0 .. size
    BY <1>4, <2>2
  <2>4. get.part + 1 \in 1 .. t /\ get.part + 1 \in 0 .. t /\ get.part + 1 - 1 = get.part /\ get.part \in Nat
    <3> DEFINE p == get.part
    <3>1. p < t /\ t \in Nat /\ p \in 1 .. t
      BY <1>3, <1>4, <1>5
    <3> HIDE DEF t, p
    <3>2. p + 1 \in 1 .. t /\ p + 1 \in 0 .. t /\ p + 1 - 1 = p /\ p \in Nat
      BY <3>1
    <3>. QED
      BY <3>2 DEF p
  <2>. QED
    BY <2>1, <2>3, <2>4
<1> HIDE DEF ct, rest, b
<1>8. /\ g \in GetRecs /\ g.at = "stream" /\ g.range = get.range /\ g.header = get.header
      /\ g.skip = get.skip /\ g.remaining = get.remaining /\ g.pos = get.pos
      /\ g.part = get.part + 1 /\ g.left = get.left - ChunkSize
  BY <1>1, <1>7, DownTyped DEF DownInv, GetRecs
<1> HIDE DEF g
<1>9. /\ get' \in GetRecs /\ told' \subseteq Notices /\ Handed'
      /\ get'.header = get.header /\ get'.range = get.range
      /\ get'.part = g.part /\ get'.left = g.left /\ get'.pos = g.pos
      /\ \/ get'.at = "closed" /\ Len(out') = Amount
         \/ /\ get'.at = g.at /\ get'.skip = 0
            /\ First + Len(out') = (get.part - 1) * ChunkSize + Len(Plain(ct))
            /\ get.range # None => /\ Len(out') + get'.remaining = Amount
                                   /\ get'.remaining > 0
  <2> DEFINE plain == Plain(ct)
  <2>1. /\ plain \in Seq(Nat) /\ Len(plain) = PlainLen(get.part) /\ Enqueue(plain, g)
        /\ \A i \in 1 .. Len(plain) : plain[i] = (get.part - 1) * ChunkSize + i - 1
    BY <1>2, <1>6
  <2> HIDE DEF plain
  <2>2. /\ get' \in GetRecs /\ told' \subseteq Notices /\ Handed'
        /\ get'.header = get.header /\ get'.range = get.range
        /\ get'.part = g.part /\ get'.left = g.left /\ get'.pos = g.pos
        /\ \/ get'.at = "closed" /\ Len(out') = Amount
           \/ /\ get'.at = g.at /\ get'.skip = 0
              /\ First + Len(out') = (get.part - 1) * ChunkSize + Len(plain)
              /\ get.range # None => /\ Len(out') + get'.remaining = Amount
                                     /\ get'.remaining > 0
    BY <1>1, <1>8, <2>1, EnqueueStep
  <2>. QED
    BY <2>2 DEF plain
<1>10. /\ GetRecs' = GetRecs /\ Units' = Units /\ TotalParts(size)' = t
       /\ First' = First /\ Amount' = Amount /\ (get.range = ParseRange(get.header))'
  BY <1>1, <1>9, SameLayout, SameAsk DEF GetRecs
<1>11. /\ get.part * ChunkSize = (get.part - 1) * ChunkSize + ChunkSize
       /\ get.part * c = (get.part - 1) * c + c
  BY <1>4, <1>7
<1>12. AskInv'
  BY <1>1, <1>8, <1>9, <1>10, DownTyped DEF DownInv, AskInv
<1>13. QueueInv'
  <2>1. get'.part = get.part + 1 /\ get'.part - 1 = get.part /\ get'.part \in 1 .. t
    BY <1>7, <1>8, <1>9
  <2>2. get'.left = size - (get'.part - 1) * ChunkSize
    BY <1>4, <1>5, <1>8, <1>9, <1>11, <2>1
  <2>3. (get'.part - 1) * c = b + c
    BY <1>11, <2>1 DEF b
  <2>4. get'.pos = (get'.part - 1) * c + Len(rest) /\ get'.pos <= Len(object)
    BY <1>3, <1>8, <1>9, <2>3
  <2>5. \A i \in 1 .. Len(rest) : rest[i] = object[(get'.part - 1) * c + i]
    BY <1>3, <2>3
  <2>. QED
    BY <1>1, <1>3, <1>10, <2>1, <2>2, <2>4, <2>5 DEF QueueInv
<1>14. OutInv'
  <2>1. CASE get'.at = "closed" /\ Len(out') = Amount
    BY <1>9, <1>10, <2>1 DEF OutInv, Handed, Open
  <2>2. CASE /\ get'.at = g.at /\ get'.skip = 0
             /\ First + Len(out') = (get.part - 1) * ChunkSize + Len(Plain(ct))
             /\ get.range # None => /\ Len(out') + get'.remaining = Amount
                                    /\ get'.remaining > 0
    <3>1. (get'.part - 1) * ChunkSize + get'.skip = (get.part - 1) * ChunkSize + ChunkSize
      <4>1. get'.part - 1 = get.part
        BY <1>7, <1>8, <1>9
      <4>2. get.part * ChunkSize \in Nat
        BY <1>4, <1>7
      <4>. QED
        BY <1>11, <2>2, <4>1, <4>2
    <3>2. First' + Len(out') = (get'.part - 1) * ChunkSize + get'.skip
      BY <1>3, <1>6, <1>10, <2>2, <3>1
    <3>. QED
      BY <1>8, <1>9, <1>10, <2>2, <3>2 DEF OutInv, Handed
  <2>. QED
    BY <1>9, <2>1, <2>2
<1>. QED
  BY <1>9, <1>10, <1>12, <1>13, <1>14 DEF DownInv, Notices

\* What is left at the end of the object is the file's last chunk, and then
\* all that is owed was handed out.
LEMMA Flushed == ASSUME IInv, Flush, get'.at # "errored" PROVE DownInv'
<1> DEFINE g == [get EXCEPT !.left = 0, !.at = "closed"]
           p == get.part
           t == TotalParts(size)
           b == (p - 1) * ChunkSize
<1>1. get.at = "stream" /\ Open /\ queue' = <<>> /\ UNCHANGED <<size, object, upload>>
  BY DEF Flush, Open, up
<1>2. Len(queue) = get.left + Overhead /\ Intact(queue, p) /\ Enqueue(Plain(queue), g)
  <2>1. Errored => get'.at = "errored"
    BY DownTyped DEF DownInv, GetRecs, Errored
  <2>. QED
    BY <2>1 DEF Flush
<1>3. queue \in Seq(Units)
  BY DEF IInv, QueueInv
<1>4. /\ Len(queue) = PlainLen(p) + 1
      /\ Plain(queue) \in Seq(Nat) /\ Len(Plain(queue)) = PlainLen(p)
      /\ \A i \in 1 .. PlainLen(p) : Plain(queue)[i] = b + i - 1
  BY <1>1, <1>2, <1>3, PlainOf
<1>5. b + PlainLen(p) = size
  <2>1. /\ get.left = size - b /\ b \in Nat /\ PlainLen(p) \in 1 .. ChunkSize
        /\ get.left \in 1 .. size
    BY <1>1, At
  <2>2. Overhead = 1 /\ size \in Nat /\ ChunkSize \in Nat
    BY Sized DEF IInv
  <2> HIDE DEF b, p
  <2>3. get.left + 1 = PlainLen(p) + 1
    BY <1>2, <1>4, <2>2
  <2>. QED
    BY <2>1, <2>2, <2>3
<1>6. /\ g \in GetRecs /\ g.at = "closed" /\ g.range = get.range /\ g.header = get.header
      /\ g.skip = get.skip /\ g.remaining = get.remaining
  <2>1. size \in Nat
    BY Sized DEF IInv
  <2>2. 0 \in 0 .. size
    BY <2>1
  <2>. QED
    BY <2>2, DownTyped DEF DownInv, GetRecs
<1> HIDE DEF g
<1> DEFINE plain == Plain(queue)
<1>7. /\ plain \in Seq(Nat) /\ Len(plain) = PlainLen(p) /\ Enqueue(plain, g)
      /\ \A i \in 1 .. Len(plain) : plain[i] = (get.part - 1) * ChunkSize + i - 1
  BY <1>2, <1>4
<1> HIDE DEF plain
<1>8. /\ get' \in GetRecs /\ told' \subseteq Notices /\ Handed'
      /\ get'.header = get.header /\ get'.range = get.range
      /\ \/ get'.at = "closed" /\ Len(out') = Amount
         \/ /\ get'.at = g.at
            /\ First + Len(out') = (get.part - 1) * ChunkSize + Len(plain)
  BY <1>1, <1>6, <1>7, EnqueueStep
<1>9. /\ GetRecs' = GetRecs /\ Units' = Units
      /\ First' = First /\ Amount' = Amount /\ (get.range = ParseRange(get.header))'
  BY <1>1, <1>8, SameLayout, SameAsk DEF GetRecs
<1>10. get'.at = "closed" /\ Len(out') = Amount
  <2>1. First \in Nat /\ Amount \in Nat /\ First + Amount <= size /\ size \in Nat
    <3>1. size \in Nat
      BY Sized DEF IInv
    <3>. QED
      BY <3>1, Asked
  <2>2. Len(out') \in Nat /\ Len(out') <= Amount
    BY <1>8, <1>9 DEF Handed
  <2>3. CASE First + Len(out') = (get.part - 1) * ChunkSize + Len(plain)
    <3>1. First + Len(out') = size
      BY <1>5, <1>7, <2>3
    <3>. QED
      BY <1>6, <1>8, <2>1, <2>2, <3>1
  <2>. QED
    BY <1>8, <2>3
<1>11. AskInv'
  BY <1>1, <1>8, <1>9, <1>10, DownTyped DEF DownInv, AskInv, Open
<1>12. QueueInv'
  <2>1. <<>> \in Seq(Units)
    OBVIOUS
  <2>. QED
    BY <1>1, <1>9, <1>10, <2>1 DEF QueueInv, Open
<1>13. OutInv'
  BY <1>8, <1>9, <1>10 DEF OutInv, Handed, Open
<1>. QED
  BY <1>8, <1>9, <1>11, <1>12, <1>13 DEF DownInv, Notices

\* A chunk of an undamaged object is not refused.
LEMMA DecryptsWhole == ASSUME IInv, Decrypt, Whole PROVE get'.at # "errored"
<1> DEFINE ct == SubSeq(queue, 1, CiphertextChunk)
<1>1. get.at = "stream" /\ Decrypting /\ Open
  BY DEF Decrypt, Open
<1>2. /\ ct \in Seq(Units) /\ Len(ct) = CiphertextChunk /\ PlainLen(get.part) = ChunkSize
      /\ \A k \in 1 .. Len(ct) : ct[k] = object[(get.part - 1) * CiphertextChunk + k]
  BY <1>1, FirstChunk
<1>3. Len(ct) = PlainLen(get.part) + 1
  BY <1>2, Sized DEF IInv
<1> HIDE DEF ct
<1>4. Intact(ct, get.part)
  BY <1>1, <1>2, <1>3, WholeIntact
<1>5. \E plain, g : Enqueue(plain, g) /\ g.at = "stream" /\ "at" \in DOMAIN g
  <2> DEFINE g == [get EXCEPT !.left = @ - (Len(ct) - Overhead), !.part = @ + 1]
  <2>1. Enqueue(Plain(ct), g)
    BY <1>4 DEF Decrypt, ct
  <2>2. g.at = "stream" /\ "at" \in DOMAIN g
    BY <1>1, DownTyped DEF DownInv, GetRecs
  <2>. QED
    BY <2>1, <2>2
<1>. QED
  BY <1>5 DEF Enqueue

\* Nor is what is left of it at the end.
LEMMA FlushesWhole == ASSUME IInv, Flush, Whole PROVE get'.at # "errored"
<1> DEFINE p == get.part
           t == TotalParts(size)
           c == CiphertextChunk
           d == (p - 1) * ChunkSize
<1>1. /\ get.at = "stream" /\ Open /\ get.pos >= Len(object)
      /\ ~(get.left > ChunkSize /\ Len(queue) >= c)
  BY DEF Flush, Open, Decrypting
<1>2. /\ p \in 1 .. t /\ get.left = size - d /\ d \in Nat /\ get.left \in 1 .. size
      /\ get.left > ChunkSize <=> p < t
      /\ p = t => PlainLen(p) = get.left
  BY <1>1, At
<1>3. /\ size \in Nat /\ ChunkSize \in Nat \ {0} /\ t \in Nat /\ c = ChunkSize + 1
      /\ Len(object) = size + t /\ Overhead = 1
  BY Sized DEF IInv, Whole
<1>4. /\ queue \in Seq(Units) /\ get.pos = (p - 1) * c + Len(queue)
      /\ queue # <<>> => get.pos <= Len(object)
      /\ \A i \in 1 .. Len(queue) : queue[i] = object[(p - 1) * c + i]
  BY <1>1 DEF IInv, QueueInv
<1>5. (p - 1) * c = d + (p - 1) /\ p \in Nat
  <2>1. p \in Nat
    <3> HIDE DEF p, t, d
    <3>. QED
      BY <1>2, <1>3
  <2> DEFINE a == p - 1
  <2>2. a \in Nat
    <3> HIDE DEF p, t, d
    <3>. QED
      BY <1>2, <1>3
  <2> HIDE DEF a
  <2>3. a * (ChunkSize + 1) = a * ChunkSize + a
    BY <1>3, <2>2
  <2>. QED
    BY <1>3, <2>1, <2>3 DEF a
<1>6. Len(queue) \in Nat /\ (queue = <<>> <=> Len(queue) = 0)
  BY <1>4
<1>7. Len(queue) = get.left + (t - p) + 1
  <2>1. size + t <= d + (p - 1) + Len(queue)
    BY <1>1, <1>3, <1>4, <1>5
  <2>2. p <= t
    BY <1>2, <1>3
  <2>3. size - d >= 1
    BY <1>2, <1>3
  <2> HIDE DEF d
  <2>4. queue # <<>>
    BY <1>2, <1>3, <1>5, <1>6, <2>1, <2>2, <2>3
  <2>5. d + (p - 1) + Len(queue) <= size + t
    BY <1>3, <1>4, <1>5, <2>4
  <2> DEFINE l == Len(queue)
             f == get.left
  <2>6. l \in Nat /\ p \in Nat /\ t \in Nat /\ d \in Nat /\ size \in Nat /\ f = size - d
    BY <1>2, <1>3, <1>5, <1>6
  <2>7. size + t <= d + (p - 1) + l /\ d + (p - 1) + l <= size + t
    BY <2>1, <2>5
  <2> HIDE DEF l, f, p, t
  <2>8. l = f + (t - p) + 1
    BY <2>6, <2>7
  <2>. QED
    BY <2>8 DEF l, f
<1> HIDE DEF d
<1>8. p = t
  <2>1. p < t \/ p = t
    <3> HIDE DEF p, t
    <3>. QED
      BY <1>2, <1>3
  <2>2. p < t => get.left > ChunkSize /\ Len(queue) >= c
    BY <1>2, <1>3, <1>5, <1>6, <1>7
  <2>. QED
    BY <1>1, <2>1, <2>2
<1>9. Len(queue) = get.left + 1 /\ PlainLen(p) = get.left
  BY <1>2, <1>3, <1>7, <1>8
<1>10. Intact(queue, p)
  BY <1>1, <1>4, <1>9, WholeIntact
<1>11. \E plain, g : Enqueue(plain, g) /\ g.at = "closed" /\ "at" \in DOMAIN g
  <2> DEFINE g == [get EXCEPT !.left = 0, !.at = "closed"]
  <2>1. Enqueue(Plain(queue), g)
    BY <1>3, <1>9, <1>10 DEF Flush
  <2>2. g.at = "closed" /\ "at" \in DOMAIN g
    BY <1>1, DownTyped DEF DownInv, GetRecs
  <2>. QED
    BY <2>1, <2>2
<1>. QED
  BY <1>11 DEF Enqueue

\* A chunk that is refused ends the stream with nothing more handed out.
LEMMA Refusing == ASSUME IInv, Decrypt \/ Flush, get'.at = "errored" PROVE DownInv'
<1>1. /\ get.at = "stream" /\ UNCHANGED <<size, object, upload>> /\ DownInv
  BY DownTyped DEF Decrypt, Flush, up
<1>2. ASSUME NEW plain, NEW g, Enqueue(plain, g), "at" \in DOMAIN g, g.at # "errored" PROVE FALSE
  BY <1>2 DEF Enqueue
<1>3. get \in GetRecs
  BY <1>1 DEF DownInv
<1>4. CASE Decrypt
  <2> DEFINE ct == SubSeq(queue, 1, CiphertextChunk)
             g == [get EXCEPT !.left = @ - (Len(ct) - Overhead), !.part = @ + 1]
  <2>1. "at" \in DOMAIN g /\ g.at = "stream"
    BY <1>1, <1>3 DEF GetRecs
  <2>2. Enqueue(Plain(ct), g) \/ Errored
    BY <1>4 DEF Decrypt
  <2> HIDE DEF g, ct
  <2>3. Errored
    BY <1>2, <2>1, <2>2
  <2>4. queue' \in Seq(Units)
    <3>1. Decrypting /\ queue' = SubSeq(queue, CiphertextChunk + 1, Len(queue))
      BY <1>4 DEF Decrypt
    <3>. QED
      BY <1>1, <3>1, FirstChunk
  <2>5. get' = [get EXCEPT !.at = "errored"] /\ told' \subseteq Notices /\ out' = out
    BY <1>1, <2>3 DEF Errored, DownInv, Notices
  <2>. QED
    BY <1>1, <2>4, <2>5, Staying
<1>5. CASE Flush
  <2> DEFINE g == [get EXCEPT !.left = 0, !.at = "closed"]
  <2>1. "at" \in DOMAIN g /\ g.at = "closed"
    BY <1>3 DEF GetRecs
  <2>2. Enqueue(Plain(queue), g) \/ Errored
    BY <1>5 DEF Flush
  <2> HIDE DEF g
  <2>3. Errored
    BY <1>2, <2>1, <2>2
  <2>4. queue' = <<>> /\ queue' \in Seq(Units)
    BY <1>5 DEF Flush
  <2>5. get' = [get EXCEPT !.at = "errored"] /\ told' \subseteq Notices /\ out' = out
    BY <1>1, <2>3 DEF Errored, DownInv, Notices
  <2>. QED
    BY <1>1, <2>4, <2>5, Staying
<1>. QED
  BY <1>4, <1>5

-----------------------------------------------------------------------------
(* The invariant is inductive. *)

\* An open stream's object is not touched by the upload, nor damaged.
LEMMA DownInvNext == ASSUME IInv, [Next]_vars PROVE DownInv'
<1>1. /\ size' = size
      /\ upload = "completed" => upload' = "completed"
      /\ Complete \/ Damage \/ object' = object
      /\ Downloads \/ UNCHANGED down
  BY UploadStep
<1>2. DownInv /\ queue \in Seq(Units)
  BY DownTyped DEF DownInv, QueueInv
<1>a. <<>> \in Seq(Units)
  OBVIOUS
<1>3. Complete \/ Damage => ~Open
  BY DEF Complete, Damage, IInv, AskInv, Open
<1>4. CASE UNCHANGED down
  BY <1>1, <1>3, <1>4, Aside
<1>5. ASSUME NEW h \in Headers, NEW fresh \in BOOLEAN, Request(h, fresh) PROVE DownInv'
  BY <1>5, Asking
<1>6. CASE Fetched
  <2>1. PICK a \in {"stream", "errored"} : get' = [get EXCEPT !.at = a]
    BY <1>6 DEF Fetched
  <2>2. /\ told' \subseteq Notices /\ get.at = "fetch"
        /\ UNCHANGED <<size, object, upload, queue, out>>
    BY <1>2, <1>6 DEF Fetched, DownInv, Notices, up
  <2>. QED
    BY <1>2, <2>1, <2>2, Staying
<1>7. CASE Arrive
  BY <1>7, Arriving
<1>8. ASSUME get.at = "stream", Errored, queue' \in {queue, <<>>}, UNCHANGED <<size, object, upload>>
      PROVE  DownInv'
  <2>1. get' = [get EXCEPT !.at = "errored"] /\ told' \subseteq Notices /\ out' = out
    BY <1>2, <1>8 DEF Errored, DownInv, Notices
  <2>. QED
    BY <1>2, <1>a, <1>8, <2>1, Staying
<1>9. CASE Dropped
  BY <1>8, <1>9 DEF Dropped, up
<1>10. CASE Cancel
  <2>1. /\ get' = [get EXCEPT !.at = "cancelled"] /\ told' \subseteq Notices /\ get.at = "stream"
        /\ queue' = <<>> /\ UNCHANGED <<size, object, upload, out>>
    BY <1>2, <1>10 DEF Cancel, DownInv, Notices, up
  <2>. QED
    BY <1>a, <2>1, Staying
<1>11. CASE Damage
  BY <1>4, <1>11 DEF Damage
<1>12. CASE Decrypt
  <2>1. CASE get'.at # "errored"
    BY <1>12, <2>1, Decrypted
  <2>2. CASE get'.at = "errored"
    BY <1>12, <2>2, Refusing
  <2>. QED
    BY <2>1, <2>2
<1>13. CASE Flush
  <2>1. CASE get'.at # "errored"
    BY <1>13, <2>1, Flushed
  <2>2. CASE get'.at = "errored"
    BY <1>13, <2>2, Refusing
  <2>. QED
    BY <2>1, <2>2
<1>. QED
  BY <1>1, <1>4, <1>5, <1>6, <1>7, <1>9, <1>10, <1>11, <1>12, <1>13 DEF Downloads, Stream

\* Every conjunct of the type is kept by the upload or by the download.
LEMMA TypeOKNext == ASSUME IInv, [Next]_vars PROVE TypeOK'
<1>1. size' \in Sizes
  BY UploadStep DEF IInv, TypeOK
<1>2. faults' \in 0 .. MaxFaults /\ slips' \subseteq Slips
  BY CountsNext
<1>3. UpType'
  BY UpTypeNext
<1>4. (get \in GetRecs /\ told \subseteq Notices)'
  BY DownInvNext DEF DownInv
<1>5. Len(object') <= CiphertextSize(size')
  BY ObjectInvNext
<1>. QED
  BY <1>1, <1>2, <1>3, <1>4, <1>5 DEF TypeOK, UpType, GetRecs, Notices, WorkRecs, Entries

\* What is refused was cut short or overwritten late, and a stream fails only
\* after a fault.
LEMMA ReadableNext == ASSUME IInv, [Next]_vars PROVE CompletedIsReadable'
<1>1. /\ slips \subseteq slips'
      /\ Downloads \/ UNCHANGED down
      /\ Complete \/ (upload' \in {"completed", "refused"} => upload' = upload)
  BY UploadStep
<1>2. upload' = "refused" => slips' \cap {"short", "late"} # {}
  BY <1>1, CompleteStep DEF IInv, CompletedIsReadable
<1>3. ASSUME get'.at = "errored" PROVE "fault" \in slips'
  <2>1. get.at = "errored" => "fault" \in slips'
    BY <1>1 DEF IInv, CompletedIsReadable
  <2>2. get \in GetRecs
    BY DownTyped DEF DownInv
  <2>3. CASE UNCHANGED down
    BY <1>3, <2>1, <2>3 DEF down
  <2>4. ASSUME NEW h \in Headers, NEW fresh \in BOOLEAN, Request(h, fresh) PROVE FALSE
    BY <1>3, <2>4 DEF Request
  <2>5. CASE Fetched
    BY <1>3, <2>2, <2>5 DEF Fetched, GetRecs
  <2>6. CASE Arrive
    BY <1>3, <2>2, <2>6 DEF Arrive, GetRecs
  <2>7. CASE Dropped
    BY <2>7 DEF Dropped
  <2>8. CASE Cancel
    BY <1>3, <2>2, <2>8 DEF Cancel, GetRecs
  <2>9. CASE Damage
    BY <2>9 DEF Damage
  <2>10. CASE Decrypt \/ Flush
    <3>1. ~Whole
      BY <1>3, <2>10, DecryptsWhole, FlushesWhole
    <3>2. upload = "completed"
      BY <2>10 DEF Decrypt, Flush, IInv, AskInv
    <3>. QED
      BY <1>1, <3>1, <3>2 DEF IInv, ObjectInv
  <2>. QED
    BY <1>1, <2>3, <2>4, <2>5, <2>6, <2>7, <2>8, <2>9, <2>10 DEF Downloads, Stream
<1>. QED
  BY <1>2, <1>3 DEF CompletedIsReadable

\* The route starts in the invariant.
LEMMA InitInv == Init => IInv
<1> SUFFICES ASSUME Init PROVE IInv
  OBVIOUS
<1>1. /\ size \in Sizes /\ size \in Nat \ {0} /\ ChunkSize \in Nat \ {0}
      /\ MaxAttempts \in Nat \ {0} /\ MaxFaults \in Nat
  BY SizesAssumption, BoundsAssumption DEF Init
<1>2. TotalParts(size) \in Nat \ {0}
  BY <1>1, PartCount
<1>3. CiphertextSize(size) \in Nat
  <2>1. TotalParts(size) = CeilDiv(size, ChunkSize)
    BY <1>1 DEF TotalParts
  <2>. QED
    BY <1>1, <1>2, <2>1 DEF CiphertextSize, Overhead
<1>4. /\ next = 0 /\ worker = [w \in Workers |-> Resting] /\ uploaded = <<>>
      /\ aborted = FALSE /\ upload = "running" /\ stray = {} /\ object = <<>>
      /\ parts = [p \in 1 .. TotalParts(size) |-> 0]
      /\ get = NoGet /\ queue = <<>> /\ out = <<>> /\ told = {} /\ faults = 0 /\ slips = {}
  BY DEF Init
<1>5. UpType
  <2>1. Resting \in WorkRecs
    BY <1>1, <1>2 DEF Resting, WorkRecs
  <2>. QED
    <3>1. next \in 0 .. TotalParts(size) /\ worker \in [Workers -> WorkRecs]
      BY <1>2, <1>4, <2>1
    <3>2. uploaded \in Seq(Entries) /\ stray \subseteq Entries
      BY <1>4
    <3>3. parts \in [1 .. TotalParts(size) -> 0 .. MaxAttempts]
      BY <1>1, <1>4
    <3>. QED
      BY <1>4, <3>1, <3>2, <3>3 DEF UpType
<1>6. get \in GetRecs
  <2>1. 0 \in 0 .. size /\ 0 \in 0 .. ChunkSize - 1 /\ 0 \in 0 .. TotalParts(size)
        /\ 0 \in 0 .. CiphertextSize(size)
    BY <1>1, <1>2, <1>3
  <2>2. None \in Headers
    BY DEF Headers
  <2>. QED
    BY <1>4, <2>1, <2>2 DEF NoGet, GetRecs
<1>7. Len(object) <= CiphertextSize(size)
  BY <1>3, <1>4
<1>8. faults \in 0 .. MaxFaults /\ slips \subseteq Slips /\ told \subseteq Notices
  BY <1>1, <1>4
<1>9. TypeOK
  BY <1>1, <1>5, <1>6, <1>7, <1>8 DEF TypeOK, UpType, GetRecs, Notices, WorkRecs, Entries
<1>10. \A w \in Workers : worker[w].at = "top"
  BY <1>4 DEF Resting
<1>11. WorkInv
  BY <1>4, <1>10 DEF WorkInv, Holding
<1>12. ListInv /\ StoreInv
  BY <1>4 DEF ListInv, StoreInv
<1>13. <<>> \in Seq(Units) /\ <<>> \in Seq(Nat)
  OBVIOUS
<1>14. ObjectInv
  BY <1>4, <1>13 DEF ObjectInv
<1>15. get.at = "none" /\ get.range = None /\ get.header = None
  BY <1>4 DEF NoGet
<1>16. AskInv /\ QueueInv
  BY <1>4, <1>13, <1>15 DEF AskInv, QueueInv, ParseRange, Open
<1>17. OutInv
  BY <1>1, <1>4, <1>13, <1>15 DEF OutInv, Open, Amount
<1>18. CompletedIsReadable
  BY <1>4, <1>15 DEF CompletedIsReadable
<1>. QED
  BY <1>9, <1>11, <1>12, <1>14, <1>16, <1>17, <1>18 DEF IInv

\* The invariant of both ways: every step of the upload, of storage and of the
\* download keeps it.
THEOREM Inductive == Spec => []IInv
<1>1. IInv /\ [Next]_vars => IInv'
  <2> SUFFICES ASSUME IInv, [Next]_vars PROVE IInv'
    OBVIOUS
  <2>1. TypeOK' /\ WorkInv' /\ ListInv' /\ StoreInv'
    BY TypeOKNext, WorkInvNext, ListInvNext, StoreInvNext
  <2>2. ObjectInv' /\ AskInv' /\ QueueInv' /\ OutInv'
    BY ObjectInvNext, DownInvNext DEF DownInv
  <2>3. CompletedIsReadable'
    BY ReadableNext
  <2>. QED
    BY <2>1, <2>2, <2>3 DEF IInv
<1>. QED
  BY <1>1, InitInv, PTL DEF Spec

\* The state has its type, in every file, with any number of workers.
THEOREM TypeCorrect == Spec => []TypeOK
<1>1. IInv => TypeOK
  BY DEF IInv
<1>. QED
  BY <1>1, Inductive, PTL

\* What is owed are the units from the first one on.
LEMMA OwedIs ==
    ASSUME IInv
    PROVE  /\ Owed = [i \in 1 .. Amount |-> First + i - 1]
           /\ Amount \in Nat /\ Owed \in Seq(Nat) /\ Len(Owed) = Amount
<1>1. size \in Nat \ {0}
  BY Sized DEF IInv
<1>2. First \in Nat /\ Amount \in Nat
  BY <1>1, Asked
<1>3. get.range = ParseRange(get.header) /\ get.header \in Headers
  BY DownTyped DEF DownInv, AskInv, GetRecs
<1>4. Owed = [i \in 1 .. Amount |-> First + i - 1]
  <2>1. CASE get.range = None
    <3>1. size - 1 - 0 + 1 = size
      BY <1>1
    <3>. QED
      BY <1>1, <1>3, <2>1, <3>1 DEF Owed, First, Amount
  <2>2. CASE get.range # None
    <3>1. get.range = [first |-> get.header.first, last |-> Least(get.header.last, size - 1)]
      BY <1>3, <2>2 DEF ParseRange
    <3>2. First = get.header.first
      BY <2>2, <3>1 DEF First
    <3>3. Amount = Least(get.header.last, size - 1) - get.header.first + 1
      BY <2>2, <3>1 DEF Amount, Length
    <3>. QED
      BY <1>3, <2>2, <3>2, <3>3 DEF Owed
  <2>. QED
    BY <2>1, <2>2
<1>5. \A i \in 1 .. Amount : First + i - 1 \in Nat
  BY <1>2
<1>. QED
  BY <1>2, <1>4, <1>5

\* Whatever storage serves, the browser gets the beginning of what it asked
\* for, and all of it when the stream ends well.
THEOREM ServedOwed == Spec => []ServedIsOwed
<1>1. IInv => ServedIsOwed
  <2> SUFFICES ASSUME IInv PROVE ServedIsOwed
    OBVIOUS
  <2>1. /\ Owed = [i \in 1 .. Amount |-> First + i - 1]
        /\ Amount \in Nat /\ Owed \in Seq(Nat) /\ Len(Owed) = Amount
    BY OwedIs
  <2>2. /\ out \in Seq(Nat) /\ Len(out) <= Amount /\ Len(out) \in Nat
        /\ \A i \in 1 .. Len(out) : out[i] = First + i - 1
        /\ get.at = "closed" => Len(out) = Amount
    BY DEF IInv, OutInv
  <2>3. \A i \in 1 .. Len(out) : out[i] = Owed[i]
    BY <2>1, <2>2
  <2>4. out = SubSeq(Owed, 1, Len(out))
    BY <2>1, <2>2, <2>3
  <2>5. IsPrefix(out, Owed)
    <3>1. SubSeq(out, 1, Len(out)) = out
      BY <2>2, AllOf
    <3>. QED
      BY <2>1, <2>2, <2>4, <3>1 DEF IsPrefix
  <2>6. get.at = "closed" => out = Owed
    <3>1. SubSeq(Owed, 1, Len(Owed)) = Owed
      BY <2>1, AllOf
    <3>. QED
      BY <2>1, <2>2, <2>4, <3>1
  <2>. QED
    BY <2>5, <2>6 DEF ServedIsOwed
<1>. QED
  BY <1>1, Inductive, PTL

\* An upload whose parts were all acknowledged is accepted, and a stream of
\* what it left fails only after a fault.
THEOREM Readable == Spec => []CompletedIsReadable
<1>1. IInv => CompletedIsReadable
  BY DEF IInv
<1>. QED
  BY <1>1, Inductive, PTL
=============================================================================
