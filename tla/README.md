# A verification project for Transfers

Transfers is a service for sending large files: an agent uploads files to a
*draft*, finalizes it into a *transfer* with a public link, and recipients
download from that link until it is closed and its bytes are purged. This
directory holds TLA+ models of that program, the TLC runs that check them and
the TLAPS proofs about them. Paths below are relative to `src/src/backend/core/`
unless they start with `src/`.

## The system

| Part | State | Operations | Hard behaviour | What makes it correct |
|---|---|---|---|---|
| Transfer lifecycle (`models.py`, `api/viewsets/{transfer,download}.py`, `tasks.py`) | the `core_transfer` row, its S3 objects, the event journal | three deactivation feeds (sender, expiry sweep, last one-shot download), owner's destroy, purge, downloads and resumes | autocommit views acting on stale reads, overlapping cron runs, S3 errors between two files, dead workers | closed once and for one reason; no byte lost while promised, none left behind |
| Draft and upload API (`api/viewsets/draft.py`, `services/s3.py`) | draft row, file rows, multipart uploads, objects | add-file, sign-part, complete-upload, remove-file, abort, finalize (a 202 poll loop) under the draft's row lock | S3 calls inside a transaction that may roll back; a rejected completion | one parent per file; limits; no upload or object without a row |
| Drive import (`tasks.py`, `services/safe_http.py`) | the file row, one multipart upload | stream, encrypt, complete; cleanup on failure | runs outside the draft's lock, at least once | at most one object per file, owned by a row |
| Antivirus (`tasks.py`, `api/viewsets/{draft,webhook}.py`, `services/scan_budget.py`) | scan status, submission stamp, callback secret | submit at finalize, rescan, reaper, callback | stamps committed before the enqueue, duplicate and late callbacks | only settled files are shared; a virus stays a virus; a lost scan is found |
| Cleanup and orphan sweep (`tasks.py`, `services/s3_sweep.py`) | none of their own | delete drafts older than 24 h; delete objects and uploads no row knows | a snapshot of keys against a moving table | deletes nothing that a row owns |
| Receipts (`api/viewsets/download.py`, `tasks.py`) | two stamps per recipient | arm a delayed task, enqueue an immediate one, claim, release | several queued tasks, retries | at most one mail per recipient |
| Invitations (`tasks.py`, `api/viewsets/transfer.py`) | `email_sent_at`, completion stamp | send, resend | overlapping tasks | every recipient mailed; the sender's screen leaves "sending…" |
| Recipient quota (`api/viewsets/draft.py`) | creation events | sliding window under the user's row lock | concurrent finalizes | never above the limit |
| Service Worker (`src/src/frontend/public/sw.js`) | key registry in memory and IndexedDB | register, load, persist, release, sweep; decrypt a range | loads outside the per-token queue, restarts | a released key does not come back; ranges decode exactly |
| Client draft hook (`src/src/frontend/src/features/transfers/`) | files, uploader, pollers | add, remove, submit, cancel, retry | callbacks after an abort | one upload at a time, no draft leaked |
| Chunk layout (`services/encryption.py`, `upload/encryption.ts`, `sw.js`) | none | sizes and offsets | last short chunk, limits | three implementations agree |
| Scheduler (`src/src/backend/transfers/scheduler.py`) | Redis lock with a TTL | contend, extend, step down | a lapse while the leader sleeps | one scheduler, eventually some scheduler |
| Entitlements (`entitlements/backends/deploycenter.py`) | cached grant | fetch, stale-if-error | refusal, then outage | no grant after a refusal |

The parts meet in few places. Finalize turns a draft into a transfer in one
transaction; the Drive import and the antivirus pipeline decide when it may.
The download view feeds the lifecycle (one-shot links), the receipts and the
journal. Three cron tasks (scheduled by the sidecar) drive every deadline.
Authentication, throttling, admin pages, e-mail wording, screens, management
commands and deployment files are not modelled: they hold no state of a
transfer, or only present it (`PROJECT.json` lists each with its reason).

## Modules

| Module | What it is |
|---|---|
| `LinkContract` | the promise made about one link: closed once for one cause, one-shot only when every file was taken, bytes gone only after closing, declared gone only when gone |
| `TransferLifecycle` | one transfer row with its objects, URLs and journal under all its actors |
| `TransferLifecycleProofs` | the inductive invariant and the theorems |
| `ScanGate` | the promise of the antivirus stage: a verdict is decided once, only a failed scan is reopened, a draft is shared only when all its files are passed or exempted |
| `ScanPipeline` | one draft's scans: polls, rescans, the reaper, `submit_scan_task`, the scanner's callbacks |
| `ScanPipelineProofs` | its inductive invariant, theorems and refinement |
| `DraftStore` | one draft's rows beside its multipart uploads and objects: requests that clean storage up before they commit, redelivered Drive imports, the 24 h cleanup, the orphan sweep |
| `DraftStoreProofs` | its inductive invariant and theorems |
| `DraftClient` | the sender's page (form, draft hook, upload pump) against the draft API |
| `DraftClientProofs` | its types and the one key, with their inductive invariant |
| `DraftClientListProofs` | what the list shows against what the server keeps: three more theorems, on a second invariant |
| `KeyRegistry` | the recipients' tabs and the Service Worker that holds the key of their link |
| `KeyRegistryProofs` | its inductive invariant and theorems |
| `ChunkRoute` | one file through the multipart uploader, storage and the Service Worker's decrypting stream |
| `ChunkRouteProofs` | its inductive invariant and theorems |
| `MCTransferLifecycle`, `MCScanPipeline`, `MCKeyRegistry` | symmetry, and bounds given as functions, for the TLC runs |
| `MCDraftStore`, `MCDraftClient`, `MCChunkRoute` | small instances for the TLC runs |

`ScanPipeline`, `DraftStore` and `DraftClient` look at the same draft API from
three sides: which verdict and key a row has, what storage holds for it, and what
the page believes about it. Each keeps what the others abstract as a choice: the
scan gate of `DraftClient` may answer anything it can answer, the imports of
`DraftClient` land or fail as the runs of `DraftStore` do.

### TransferLifecycle

One row stands for all, because no statement touches two transfers. The actors
are requests (one per visitor's `GET`), sender requests (`Owners`) and cron runs
(`Runs`); each is sequential, and each database statement, transaction block and
S3 call of it is one action, since views run in autocommit. What an actor read
when it started (`job[a].seen`, `job[a].todo`) is what it uses later, however
stale.

| Code | Action |
|---|---|
| `DownloadFileView.get` up to the scan gate | `Admit` (with `Open` and `ResumeGrace`) |
| signing the URL, `FILE_DOWNLOADED` | `RecordDownload` |
| one-shot check under `select_for_update`, response | `FinishDownload` (`ArchiveIfComplete`, `Answer`) |
| `TransferViewSet.deactivate`: check, `Transfer.deactivate`, event | `RequestDeactivate`, `ApplyDeactivate`, `LogDeactivate` |
| `perform_destroy`: check, wipe, event and delete | `RequestDestroy`, `DeleteObject`/`FinishWipe`, `DropRow` |
| `deactivate_expired_transfers_task` | `SelectExpired`, `ExpireRow`, `LogExpiry` |
| `delete_pending_transfer_files_task` | `SelectPurge`, `DeleteObject`/`FinishWipe`, `StampDeactivated` |
| an S3 `ClientError` on one object | the second disjunct of `DeleteObject` |
| a killed worker, a lost connection, any other exception | `Die` |
| time | `Tick` |

Abstractions: a file is a model value, and `Released` is the set of files whose
scan status lets them out; events are counted per kind (only `FILE_DOWNLOADED`
keeps its files, as the one-shot check does); a resume token is the time of its
newest signature per file; a URL is remembered (`urls`) only when the request
that signed it saw the row active, because only those carry a promise, and it
leaves the set when it expires. A destroyed row keeps its last column values.
`missedCheck` is a history variable: a download died between its event and its
check and no later one has made the check yet. A request that is refused changes
nothing, so refusals are not actions.

Time is discrete. `RequestLimit` is how long a request may live: gunicorn kills
a synchronous worker after `timeout = 90` s (`src/src/backend/gunicorn.conf.py`),
so the clock does not pass that limit while a request is unfinished. Cron runs
have no such limit. `LifecycleAssumption` asks `UrlTTL + RequestLimit <=
PurgeDelay` (by default 10 min + 90 s against 6 h); the settings allow other
values, and the promise about URLs depends on it.

### ScanPipeline

One draft, `SCAN_ENABLED`, and every actor that touches a scan. Requests
(`finalize` polls and rescans) are one transaction under the draft's row lock,
cut in two: the rows are read when the lock is taken (`FinalizeBegin`,
`RescanBegin`), the writes become visible at the commit (`FinalizeWait`,
`FinalizeShare`, `RescanEnd`), and after it the `on_commit` callbacks send
messages one by one (`Send`). Between the two halves run all who ignore the
lock: the reaper (autocommit), the worker and the webhook. The short
transactions (`AddFile`, `CompleteUpload`, `RemoveFile`, `DropDraft` for abort,
24 h cleanup and a rejected upload) only need the lock to be free.

| Code | Action |
|---|---|
| `finalize`: checks, read; 202; transfer | `FinalizeBegin` (with `ShapeAllowed`, `KeyAllowed`, `Refused`), `FinalizeWait`, `FinalizeShare` |
| `rescan` | `RescanBegin`, `RescanEnd` (with `Rescannable`, `Claimed`) |
| `transaction.on_commit(... submit_scan_task.send)` | `Send` |
| `reap_stale_pending_scans_task` | `ReapBegin`, `ReapClaim`, `ReapSend`, `ReapRefused` (with `GiveBack`) |
| `submit_scan_task`: its checks; key and POST; an exception or a dead worker | `Deliver`; `Post`; `PostFails` |
| `ScanResultWebhookView.post` | `Callback` (with `Result`, `Apply`) |
| a job the scanner loses, a process that dies | `LoseJob`, `Die` |
| `scan_wait_seconds` and `SCAN_PENDING_REAP_MINUTES` run out | `Lapse` |

Abstractions. A refused poll raises, the transaction rolls back, so it is no
action. What a poll does depends only on what it read, so the job keeps the
outcome (`todo`, `want`) rather than the rows. `ERROR` is split by
`scan_error_kind`. A stamp is a time nobody read before; stamps are only
compared for equality, so values that no row and no actor remembers are used
again (`Fresh`), which makes the clock finite. Whether a stamp is past the
file's budget is the set `late`: it grows by `Lapse` and shrinks when a row is
stamped anew; the reaper's floor and the rescan's budget are one event, because
each run decides freely when to begin. A rescan's conditional `UPDATE` takes the
row's lock until the commit, so evaluating it at the commit is the same. A POST
that was accepted may be followed by any answer, any number of times
(`Callback` may keep the job): the callback secret is reused, so jobs of one
file are not told apart. Two actors stamping in the same microsecond are left
out. Drive files join a scan exactly as landed files do; their import belongs to
the draft module. `handed` is a history variable: the keys the scanner was given.

### DraftStore

Database and storage share no transaction. A request holds the draft's row lock
from its storage calls to its commit (`req`), and between the two it can die or
fail to commit (`Rollback`): the database forgets, storage does not. Only what
ignores the lock runs in between: imports and the sweep.

| Code | Action |
|---|---|
| `add_file`: create the upload; save the row; the save fails | `AddBegin`; `AddEnd`; `AddFails` |
| `complete_upload`: S3 accepts; refuses; makes an object of another size; commit | `CompleteBegin`; `CompleteRejected`; `CompleteMismatch`; `LandEnd`, `RemovalEnd` |
| `remove_file`; `abort` and the 24 h cleanup; commit | `RemoveBegin`; `DropBegin` (`Abandon`); `RemovalEnd` |
| `finalize`: start imports, share; `on_commit` sends | `StartImports`, `Share`; `Send`, `LoseOutbox` |
| `import_drive_file_task`, step by step | `Take`, `AbortStale`, `ClearStale`, `OpenUpload`, `Park`, `Stream`, `Save` |
| its except branch | `FailAbort`, `FailDelete`, `FailSave` |
| a lost worker or the time limit | `Redeliver` |
| `run_orphan_sweep` | `SweepBegin`, `SweepObjects`, `SweepKnown`, `SweepUploads` |

Abstractions. A file has one key; a multipart upload is named after its opener.
Best-effort cleanups choose which items they keep, and one that keeps any costs a
fault. Ages are "new" or "old" (over the sweep's and the cleanup's day); `Day`
asks that no request, import or sweep lasts a day (gunicorn's 90 s, the task's
time limit). `Runs` are deliveries: one per Drive file and one per fault
(`RunsAssumption`), so a message always finds a run. Scans are left to
`ScanPipeline`, `sign_part` and reads change no state, and nobody completes a
Drive file by hand (the client never does).

### DraftClient

Every call of `registerFile`, the pump, `removeFile`, `submit` and `abortDraft`
is a conversation: sent, applied by the server, answered. Between the parts
the user acts and other callbacks run; each continuation reads the refs of the
moment (`draftId`, `initP`, `key`, `pump`, `files`), as the hook does.

| Code | Action |
|---|---|
| `addFile`, `attachFromDrive`, `startRegistration` | `AddFile`, `InitSettled`, `Minted` |
| `registerFile`: request, answer, cleanup of a removed file | `ServeAdd`, `Registered`, `RegistrationFailed`, `ServeDrop`, `Dropped` |
| `removeFile` | `RemoveFile`, `ServeRemove`, `Removed` |
| the pump and its uploader | `PumpStart`, `PartsUp`, `PartsFail`, `ServeComplete`, `ServeShort`, `UploadSettled` |
| `handleSubmit`, `submit`'s wait, its polls | `Submit`, `EditMetadata`, `TickRejects`, `TickResolves`, `ServeFinalize`, `PollAgain`, `PollTimesOut`, `SendFailed`, `Sent` |
| unmount, `abortDraft` | `Leave`, `ServeAbort` |
| a request or its answer is lost | `LoseRegistration`, `LoseUpload`, `LoseRemoval`, `LoseFinalize`, `LoseAbort` |

Abstractions. A registration, its row, its uploader and, for a first one, the
draft and key it brings share a number. A file is a name: the hook's own key
(name, size, date). Parts are one step (`ChunkRoute` has them). The polls'
deadlines may pass at any 202. `shared` is a history variable: per draft, what the
list and the key were when the sender clicked (per draft, because a page whose
last removal is answered can go on to send a second one).

### KeyRegistry

One token, one file, the right key. `page` is what `DownloadView` keeps per tab,
`call` the handshakes (`registerKey`), `queue` and `head` the per-token queue of
`sw.js`, `registry` and `store` the entry in memory and in IndexedDB, `dl` the
downloads. Entries are mutable objects that the queue and the downloads refer to,
hence the `heap`: a download that took an entry before a registration replaced
it writes back the old object.

| Code | Action |
|---|---|
| the registration effects, paste, click, visibility refresh | `Open`, `Rerun`, `Paste`, `Click`, `Refresh` (all with `Start`) |
| unmount; a closed tab | `Leave`; `Close` |
| `registerEncryptionKey`, `ensureEncryptionServiceWorker` | `Posted`, `Uncontrolled`, `Acked`, `Refused`, `GivenUp` |
| `serialized` jobs: `loadEntry`, `pruneClients`, `persistEntry`/`forgetEntry`, each of which may fail | `Take`, `Loaded`, `Pruned`, `Written` |
| `handleDownload` | `DlTake`, `DlLoaded`, `Negotiated`, `DlWritten`, `Streams` |
| the browser kills the worker | `Die` |

Failures. No failure of the storage reaches the page: a row that cannot be read
is taken for a missing one (`sw.js:115`), a write that fails is swallowed, windows that
cannot be listed are all kept (`sw.js:141`). `Loaded`, `Pruned`, `Written`, `DlLoaded`
and `DlWritten` may each fail so, at the cost of a fault. What a failed read does
depends on who reads: a registration replaces the row (`forgot`), a release leaves it
(`kept`), a download is refused (`unread`). A page that gets no controller reloads
once, or fails at once (`Uncontrolled`).

Left out: expiry (`sweepExpired`), keepalive pings (they only delay `Die`), a
second file, a wrong key, streaming after the first byte (`ChunkRoute`).

### ChunkRoute

Units instead of bytes: `ChunkSize` units of plaintext and one of overhead make
a chunk; each ciphertext unit says which chunk it is of and what it is bound to,
so "decrypts" is a comparison. `TakePart` to `Complete` are
`MultipartUploader.upload` with its workers, retries and abort, `uploadPart`, and
`complete_upload`, whose list is sorted by the page (`PartList`) and once more by the
backend (`OrderedParts`, `services/s3.py:188`); `Request` to `Cancel` are `parseRange`, `handleDownload`,
`decryptStream` and `sliceStream`. The network delivers the object in pieces of
any length. A PUT whose client gave up may land later (`StrayLands`).

### Slips

The code survives most interleavings, and knowingly or not gives up on some. In
the four modules above the step that does so adds its name to the history
variable `slips`, and a property that does not survive it names it in its
hypothesis, so it says exactly what the code does promise. Dropping a name from a
hypothesis makes TLC show the slip, for a few on larger instances than those of the
runs (see Proofs). So a hazard that every property exempts has none in
`PROJECT.json`, and a note instead.

| Module | Slip | What happens in the code |
|---|---|---|
| `DraftStore` | torn | a removal dies between deleting bytes and its commit: the row is back, can even be shared, its bytes are not |
| | twice | two runs of one import at once: the one that fails deletes the object of the one that landed |
| `DraftClient` | lost | a lost `add-file` answer leaves a row that no list shows |
| | aliased | a file removed and added again while its first registration is out: `registerFile` finds "its" key on the list |
| | joined | a first file's cleanup aborts the draft (`useTransferDraft.ts:691`: "the file we just created IS the draft's only row") that another file has joined |
| | wiped | the answer to the last file's removal drops files added meanwhile (`useTransferDraft.ts:922`); one that is registered after it brings the old draft id back, and a send of that draft shares rows the list no longer shows |
| | late | a file dropped while finalize is out is folded into the send |
| | overtaken | the send leaves before a removal or cleanup is applied |
| | short | an upload aborted between two parts resolves with those it has; the backend refuses the size and deletes the draft |
| `KeyRegistry` | late | a refresh acknowledged after the view went keeps the key |
| | again | a handshake of an earlier view releases the key of the view now in that tab |
| | timeout | a handshake that was given up is served later |
| | stale | a download writes back an entry released or replaced since; after a death of the worker, a release that reads that row forgets the key of a tab it does not name |
| | raced | a registration copies an entry just before a download stores its resume token in it |
| | lost | a release dies with the worker |
| | unsaved | a failed write to disk is swallowed |
| | forgot | after a death of the worker, a registration cannot read the row and replaces it: the other tabs and the resume token are gone |
| | kept | after a death, a release cannot read the row and leaves it: the key outlives the page |
| | unread | after a death, a download cannot read the row: "Decryption key not loaded" |
| `ChunkRoute` | fault | a request failed or the object was damaged: a stream may fail |
| | short | as above |
| | late | a PUT given up lands after its retry: storage then refuses the list |
| | hung | a part that reaches its PUT after the abort never settles (`uploadPart.ts:90`) |

## Runs

| Run | Question | Bounds |
|---|---|---|
| `lifecycle_safety` | do two downloads, a sender and two overlapping cron runs keep the row, the bytes, the URLs and the journal consistent, and the contract? | 2 files, 2 requests, 1 sender, 2 runs, 1 fault, link expires at 1, grace 2, URL 1, request 1, clock to 2 |
| `lifecycle_liveness` | does every expired link end with its bytes gone? | 2 files, 1 request, 1 sender, 1 run, 1 fault, clock to 2 |
| `lifecycle_manual_event` | is a manual event journalled only for a manual closing? It is not: see Findings | 2 files, 1 request, 1 sender, 1 run |
| `scan_race` | do two polls or rescans, the reaper, redelivery and late callbacks keep verdicts, stamps and key consistent, and the gate? | 1 scanned file and 1 too large, 2 keys, 2 requests, 1 run, queues of 1, 7 stamps, no fault |
| `scan_files` | and with a draft decided in parts? | 2 scanned files, 1 key, 1 request, 4 stamps, no fault |
| `scan_liveness` | does every submitted file get an answer, and does a stamp given back after a refused send disturb nobody? | 1 file, 1 request, 1 run, 2 faults |
| `scan_stamp` | does `scan_submitted_at` mean a scan in flight? It does not: see Findings | 1 file, 1 request, 1 run |
| `store` | do rows, uploads and objects agree although storage is cleaned before the commit and imports are redelivered? | 1 browser file, 1 Drive file, 2 runs, 1 fault |
| `client` | is what is sent what was listed, under one key, and does the page agree with the server in the end? | 2 browser files, 1 Drive file, 2 registrations, 1 removal beyond the list, 1 send, 1 fault |
| `client_wait` | is the wait before a send bounded by the last upload? It is not: see Findings | 1 browser file, 1 Drive file, 2 registrations, 2 sends, no fault |
| `page_keys` | is the key there while a view offers downloads and gone after the last one? | 2 tabs; 3 handshakes in one tab or 1 in each; 2 faults |
| `chunk_route` | is what is served what was asked, and is a complete upload readable? | sizes 1 to 5 in chunks of 2, 2 upload workers, 2 attempts, 2 faults, all ranges |

Two files are the least for which a wipe is partial and a one-shot link is not
complete; two requests are needed for the race to be last, two runs for a purge
over a purge or an expiry over an expiry; actors are reusable (a finished
request may start again), so longer histories than two requests occur. One
fault is an S3 error or a death; the theorems lift every bound. The clock stops
at `Horizon` once no purge deadline is pending, where nothing more can depend on
it; that is why deadlock is not checked: a link that is gone and idle actors
are a proper end. `Horizon` is past the expiry, so that expiry, grace and purge
all happen. Symmetry is used for safety only.

The properties of `lifecycle_safety`:

- `NoStrandedBytes`: a row that says its files are gone, is gone, or has a
  deletion event, leaves no object, whatever overlaps or fails;
- `OpenLinkHasBytes`, `LiveUrlHasBytes`: an open link serves all its files, and
  a URL it signed works until it expires unless the owner destroys the transfer;
- `OneShotCloses`: when all files were handed out and no request is at its
  check, a one-shot link is closed (unless a worker died in between);
- `AuditMatchesReason`: expiry and first-download events are unique and true;
- `OneWay`, `OnlyOwnerSkipsGrace`: what no step may do, as action properties;
- `ImplementsContract`: refinement of `LinkContract` with `phase <- status,
  cause <- reason, bytes <- objects, taken <- downloaded`.

Each has a mutant (operators `M_...`, listed in `PROJECT.json`), a plausible bug
that the property catches: a dropped `WHERE`, `skip_locked`, an ignored return
value, a plain `save()` instead of `update_fields`, a missing deadline check.

The properties of the scan runs:

- `SharedIsSettled`: a transfer holds only complete, released files, for good,
  although the gate decided on rows read before callbacks that ignore its lock;
- `SharedUnderOneKey`: the transfer's key is the link's, every scan used it, and
  a confidential transfer was never given to the scanner, whatever metadata
  earlier polls carried;
- `ArmedOnlyWhenLost`: polls, rescans and runs that meet on a file restart its
  scan only when it never started, failed, or is past its budget;
- `SubmittedIsAnswered`: a lost message, job or process delays a scan, no more;
- `ImplementsGate`: refinement of `ScanGate` with `held <- Held, verdict <-
  Verdict`.

A second request is needed for a claim over a claim; the first request can come
back, so polls with different keys need no third. Stamps: one per row and per
memory of an actor, plus one to read (`Fresh` is never blocked at these
bounds). `MaxQueue = 1` still allows a message, a running task and a job of one
file at once, hence duplicates from the reaper. In `scan_files` the reaper is
left out, since `scan_race` has it. A message that is lost looks to a safety
property like one that is not delivered yet, so the faults are in
`scan_liveness`, where the broker's refusal of the reaper matters to both kinds. No deadlock check: an idle draft may rest.

The properties of the storage and client runs:

- `LandedIsStored`: a row that says its bytes landed has its object, also once
  shared, whatever is aborted, imported again or swept beside it;
- `SweepSparesOwned`: the sweep, which compares an old snapshot with a fresh
  listing, takes nothing a row owns by then;
- `NothingLingers`: what was not shared leaves neither object nor upload for good;
- `SentUnderOneKey`, `SentAsListed`: recipients can open every file, and get
  what the sender saw on clicking Send;
- `DoneIsLanded`, `QuietIsAgreed`: a row shown as done is landed under that very
  id; when nothing is under way the only open draft is the page's, with its rows;
- `RegistrationSettles`, `SendConcludes`: no row stays in registering, no form locked;
- `ReadyIsHeld`, `ClickFindsKey`, `ResumeIsCarried`: the worker has the key for a
  view in `ready`, in memory and on disk; a click that is still shown does not end
  in "Decryption key not loaded"; one that resumes finds its token;
- `LeftIsReleased`: no key is kept for unmounted views;
- `ViewsSettle`: no view loads for ever, no click stays pending unless the
  worker died with its download;
- `ServedIsOwed`: for every `Range` header and every way the network cuts the
  object, the browser gets a prefix of what it asked for, and all of it if the
  stream ends well;
- `CompletedIsReadable`, `RouteSettles`: an upload whose parts were acknowledged
  is accepted and decrypts; uploads and requests end, and the page hears of it.

Bounds. In `store` one file of each kind meets every request; a removal leaves the
draft with a file or without; the fault is a death, a storage error, a refused
send or a redelivery, and the second run is the redelivered one. In `client` a
third registration adds no new kind of pair: every race there is between two
files or a file and the send. In `page_keys` all races of one view with itself need
at most three handshakes, those between tabs one each; a read that fails matters only
after a death, hence two faults. In `chunk_route` five units
in chunks of two give a single short chunk, a single whole one, and a last chunk
that is short or whole after one or two others.

Fairness of `TransferLifecycle` (`FairSpec`): the clock runs; an accepted request continues (it ends
within gunicorn's limit); cron runs are weakly fair because both tasks are fired
every hour (`tasks.py` lines 53 and 589, `src/README.md` on the worker). No
fairness makes anybody download, deactivate or destroy. `Die` is bounded by
`MaxFaults`: with faults for ever nothing can be promised.

Fairness of `ScanPipeline`: a request that began ends, the cron fires the reaper
every five minutes, the broker delivers, a worker that is not killed finishes,
the scanner answers what it did not lose, budgets run out. Nobody has to upload,
poll, rescan or abort; faults are bounded.

Fairness of `DraftStore`: a request that is past its storage calls commits or
falls, messages are delivered and retried (the broker redelivers what was not
acknowledged), both crons fire, days pass (strongly, since work of the day may
interrupt it). Of `DraftClient`: timers fire and requests are answered or fail
(the browser ends them); `PollTimesOut` is strongly fair, because a poll's
deadline passes however often an answer comes in between. Of `KeyRegistry`:
messages between page and worker are handled, a handshake whose worker died times
out (`encryptionServiceWorker.ts:200`). Of `ChunkRoute`: requests end and bytes
arrive. In all of them nobody has to add, remove, send, open, click, leave or
abort, and faults are bounded.

## Findings

`ManualEventOnlyIfApplied` is violated: `TransferViewSet.deactivate` checks the
status, calls `transfer.deactivate(MANUAL)`, ignores the answer and journals
`TRANSFER_DEACTIVATED_MANUALLY`. If the expiry sweep closes the link between the
check and the update, the row says `expired` and the journal says `manual`,
although the docstring of `Transfer.deactivate` (`models.py:367`) asks callers
to skip the event.

`SubmittedHasKey` is violated: `rescan` claims a landed file whose
`scan_submitted_at` is null also before the first finalize. The task it enqueues
returns (no key is parked), and the stamp stays, so the serializer reports a
scan in flight (`api/serializers.py:402`) and the next finalize parks the key but
skips the file; only the reaper submits it, once its budget is over. That it is
submitted in the end is `SubmittedIsAnswered`.

`WaitIsBounded` is violated: an answer that waits for imports marks the Drive
rows "importing", and only an answer that waits for the scan marks them done. A
send that ends in between (the backend refuses it, or `finalize_timeout`, whose
message asks to try again) leaves them so; the next send waits until every file
is done, for ever, although all have landed. `useTransferDraft.ts:939` says "the
wait is bounded by the last byte landing in S3".

Smaller observations, from the slips and from reading: after one part has used up
its attempts, the other workers of an upload go on; the `scan_timeout` error that
`TransferForm.tsx:481` handles is never thrown; a confidential link loses its key
with the recovery reload of `encryptionServiceWorker.ts`, since the fragment has
been stripped by then; answers of the background scan poller can overtake each
other and bring an old verdict back, and if none arrives within its budget Send is
disabled while no retry is offered (`TransferForm.tsx:575` against `:686`).

## Proofs

`TransferLifecycleProofs` proves for all values of the constants that satisfy
`LifecycleAssumption`: type correctness, the five invariants, both action
properties and the refinement. The properties are not inductive, because what a
step does depends on what its actor read. `IInv` adds what those reads imply:

- `RowInv`: the columns agree with the status; an open row has all its objects,
  a deactivated or deleted one has none;
- `WipeInv`: whoever wipes saw the link closed; a wipe without an error leaves
  at most its to-do list in the bucket, so an actor past its wipe faces none;
- `AuditInv`: only the run that closed an expired link is about to journal it;
- `SnapshotInv`: while the row is active every snapshot says so; a request that
  saw the row open is younger than `RequestLimit`, hence any deadline set since
  leaves room for the URL it will sign; a run at its wipe saw the deadline pass;
- `UrlInv`: a remembered URL expires before the deadline of the row.

There is one lemma per part (`RowNext`, `WipeNext`, ...), each with one step per
action; `BeginJob`, `GotoJob`, `EndJob`, `DeleteJob` and the lemmas for single
actions say what an action does to the local state, so that no invariant proof
opens a record. `RowStep` and `ObjectsStep` list the ways the row and the bucket
may change; the action properties and `ContractStep` follow from them.
`ScanPipelineProofs` does the same for `ScanPipeline`, for all sets of files,
keys, requests and runs, all queue bounds and any number of faults. Two
arguments carry it:

- under the lock, what a poll read stays true until it commits (`LockInv`,
  `PollInv`), although callbacks ignore the lock: they only decide pending files,
  and while no key is parked no file has a job (`KeyInv`, `FileInv`), so a
  confidential poll cannot be overtaken;
- without the lock, a claim is safe because the stamp an actor is about to write
  is on no row it has still to claim and in nobody's memory (`ClockInv`), and a
  stamp that is still the one an actor read is still late (`SnapInv`, `ReadInv`).

`SetJob` and the lemmas after it say what each step does to the local state;
there is one lemma per conjunct of `IInv`, with one step per action. `GateStep`
maps the steps: `FinalizeShare` to `Share`, `RescanEnd` to `Reopen`, `Callback`
and an upload too large to scan to `Decide`, the queues to stuttering.

`DraftStoreProofs` proves type correctness, `LandedIsStored` and
`SweepSparesOwned` for all sets of files and deliveries and any number of faults.
Two arguments carry it:

- beside the lock, the object of a run that is about to save is there unless a
  request is about to delete the row (`SaveInv`): requests write objects of browser
  files only (`RequestInv`), and unless two runs of a file overlapped
  (`OneRunInv`, `ImportInv`) no other run touches it; a sweep spares it because the
  row is known to the sweep or the object is younger than a day;
- what exists without being in the sweep's snapshot is new (`SweepInv`): a file
  that was never added has no object (`NewInv`), an upload that a request or a run
  is about to put on a row is young (`RequestInv`, `ParkInv`), and no day passes
  during a sweep. The last is an assumption of the model (`Day`).

The lemmas before `TypeOKNext` say what a step does to a row and to a delivery;
one lemma per conjunct of `IInv` follows, with one step per action that can
disturb it. `LandedIsStored` is proved under the exemption it states (no slip).

`DraftClientProofs` proves type correctness and `SentUnderOneKey` for all names,
registrations, sends and faults. Registrations are numbered in the order in which
they start, and a key and a draft carry the number of the registration that
brought them. Before there is a key only the registration that mints it is under
way and the others wait for it (`MintInv`); from then on what is under way is for
drafts numbered not below the key's (`KeyInv`), and everything encrypted for such a
draft, or being encrypted, is under that key (`EncInv`). A send that was not
disarmed carries it (`SendInv`), also when the page is left (`FinalInv`). Hence the
hypothesis: a wipe drops the key while registrations are under way.

`DraftClientListProofs` adds `Agreed` and proves `DoneIsLanded`, `SentAsListed` and
`QuietIsAgreed`:

- a row is shown under its own name from its registration to its removal
  (`LinkInv`); what is under way for a listed name is alone (`AliasInv`), so the
  uploader that says done is that row's (`LandInv`);
- while nothing was lost, aliased, joined, wiped or cut short (`Plain`), what is under
  way is for the page's draft or opens it (`BaseInv`), and the list and the rows of
  that draft differ by what is under way only (`AgreeInv`);
- an armed send wants what is listed (`AimInv`); once it is being finalized nothing
  is under way unless something slipped, and its names stand for the rows one by one
  (`FixInv`, `SentInv`);
- any other open draft has all its rows removed by requests under way, is being
  aborted, or has its first registration unanswered (`OpenInv`).

In both modules an effect lemma per action (`AddFileStep`, `RemovedStep`, ...) says
what it does without its records, the `...Moves` operators list the ways one file,
registration, row or draft may change in any step, and there is one lemma per
conjunct. The attempt to prove `SentAsListed` with a wipe allowed, as it was first
stated, failed; TLC then found, with four registrations, the behaviour the table of
slips describes, and the property now exempts it.

`ChunkRouteProofs` proves type correctness, `ServedIsOwed` and
`CompletedIsReadable` for all file and chunk sizes, all sets of workers that are not
empty, any number of attempts, requests and faults, and any damage to the object.

- On the way up, a part that was taken is with one worker or once on the list, and
  what storage holds for it is what the list says unless a stray attempt landed later
  (`WorkInv`, `ListInv`, `StoreInv`). An upload that was not aborted ends with a list
  of all parts, put in order by the two sorts (`NotAborted`, `ListLength`, `Sorting`).
  Joining them gives the size the backend checks exactly when nothing is missing or
  cut short (`JoinedWhole`, `JoinedShort`): a completed object without a fault is the
  file (`ObjectInv`).
- On the way down, a range request asks for whole chunks (`AskInv`); the worker's
  queue is always the object from a chunk boundary on (`QueueInv`), and what it handed
  out reaches up to that boundary but for the units it skips (`OutInv`).
- A chunk that decrypts is the one that belongs there (`PlainOf`, `UnitIs`), whatever
  happened to the object, hence `ServedIsOwed`. An undamaged object is never refused,
  neither in the middle nor at its end (`WholeIntact`, `DecryptsWhole`,
  `FlushesWhole`), hence `CompletedIsReadable`.

The layout lemmas at the top do the division: which chunk a unit is in, where a
chunk starts in plaintext and in ciphertext, how long the last one is.

`KeyRegistryProofs` proves type correctness, `ReadyIsHeld`, `ClickFindsKey`,
`LeftIsReleased` and `ResumeIsCarried` for all tabs, handshakes and faults. None is
inductive: whether a key stays depends on what is queued, in flight and in the hands
of the job at work.

- Order: handshakes start, are posted and are acknowledged in the order of their
  numbers (`CallInv`), one that somebody waits for belongs to a view that is there
  (`CallOwn`, `PageInv`), and the queue holds the registrations of a tab in that order
  (`QueueInv`). Hence the releases of a tab are in front of the registrations its view
  waits for (`AgainInv`), always for a click, and for the first registration unless
  a handshake of an earlier view was still out (`again`).
- The hand: `Loaded`, `Pruned` and `Written` are three steps, and a download may come
  between them. Without a stale write-back the job at work has its hand on the entry
  in memory, except while a registration prunes its copy (`RegInv`); and if it found no
  row, there was none, unless it is a registration that could not read it (`forgot`).
- Held: a view that is ready, waits for an acknowledged click or shows a download
  (`Held`) has the key on disk, in memory, in the row being loaded and in the entry in
  hand (`Has`), and no release of it is queued (`HeldInv`). The death of the worker may
  thus leave any of them, and a release or a download that cannot read the row changes
  none (`Misreads`). `ReadyIsHeld` and `ClickFindsKey` follow.
- Carried: while a download was interrupted or may be, all those copies have its
  capability (`ResumeInv`).
- Owed: whatever names a tab has a release to come, in a view that registered, an
  acknowledgement under way or the queue (`LeftInv`); when all is quiet only the first
  is left, hence `LeftIsReleased`.

One family of lemmas says what each action does without its records, and what the
queue is after `Take`, a release or `Written`; then there is one lemma per conjunct,
with one step per action. That a free entry object always exists is `FreshIs`, from
the cardinality assumption on the entries.

The proof corrected two statements. `ClickFindsKey` was first stated under a failed
write alone, which is not inductive: a download writes an entry back that another tab
has joined since, the worker dies, the first tab leaves, and its release, seeing
only itself in the row, forgets the key the other one was acknowledged. TLC shows this
with two tabs of two handshakes each and one death, an instance above the run's
bounds, once "stale" is dropped from the hypothesis. "forgot" is there for the same end
by another way (the row is replaced by a registration that could not read it, and that
tab leaves), which TLC shows with two handshakes in one tab, one in the other and two
faults. `ResumeIsCarried` holds of clicks that
are still shown: a view that went takes its release with it, and a download left
behind may find a key that another tab registered anew.

## Model-checked only

`ExpiredIsPurged`, `SubmittedIsAnswered`, `NothingLingers`, `RegistrationSettles`,
`SendConcludes`, `ViewsSettle`, `RouteSettles`: liveness under fairness is beyond
the prover. Everything else that a passing run checks has a theorem.

## Not modelled

- The background scan poller and `retryScan` of the draft hook, which only set
  verdict badges.
- In the Service Worker: expiry of entries, keepalive, several files, wrong keys.
- Download receipts, invitations and the recipient quota: stamps and counters that
  no modelled part reads.
- Scheduler election: the models let cron runs overlap, as two leaders would.
- Entitlements: a cached grant that decides only whether a draft may be opened.
- Authentication, throttling, admin and management commands, e-mail wording,
  screens that only present data, deployment: no state of a transfer.

## Plan

Done: `TransferLifecycle` and `LinkContract` with proofs; `ScanPipeline` and
`ScanGate` with proofs; `DraftStore` and `DraftClient` with proofs; `ChunkRoute`
with proofs; `KeyRegistry` with proofs.

Next, in this order:

1. `Receipts` and `Invitations`: stamps, queued tasks, retries. Theorem: at most
   one receipt per recipient.
2. `RecipientQuota`: the window under the row lock. Theorem: never above the limit.
3. `SchedulerLock`, `Entitlements`.
