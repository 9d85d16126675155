# clipboard-exchange: TLA+ models, checks and proofs

clipboard-exchange is a small server (Go, SQLite, a directory of files) on which the clients of a
*room* exchange text snippets and files, and three clients: a web page, a native Windows program and
an Electron shell. This directory holds TLA+ modules of the parts of it that are hard to test, TLC
configurations that check them on small instances, and proofs that the TLA+ proof system checks for
every value of the constants. Paths below are relative to the repository's root, `src/` in
`PROJECT.json`.

## 1. The system

| Component | State | Operations | Talks to |
|---|---|---|---|
| **Handlers of uploads and deletions** `internal/httpserver/server.go`, `runtime.go`, `history.go` | 64 striped mutexes, a read-write lock `lifecycle`, the requests under way | createUpload, putChunk, completeUpload, abortUpload, deleteEntry, deleteFile, consumeFile, clearRoom | database by transactions, file store by calls, hub by broadcasts |
| **File store** `internal/filestore/filestore.go` | `uploads/<id>/<chunk>`, `objects/<id>`, temporary files, the `lifecycle` lock | WriteChunk, Assemble, RemoveObject, RemoveUpload, RemoveChunk, Reconcile, Check | file system |
| **Cleanup pass** `cmd/clipboard-exchange/main.go` | the payloads it still has to remove, a snapshot of references | every hour, and every 5 s as long as a pass finds the server busy: short links, rooms, entries, uploads, reconcile | database, file store, exclusively |
| **Room database** `internal/store/store.go` | tables rooms, items, entries, uploads, upload_chunks, files, completed_uploads, short_links | one transaction per operation | SQLite, one connection |
| **Room snapshots** `getRoom`, `history` | none | four queries per answer | database |
| **Room events** `hub.go`, `events` | per subscriber a channel of capacity one | subscribe, unsubscribe, broadcast | WebSocket to every client |
| **Downloads** `downloadFile`, `downloadEntryArchive`, `consumeFile`, `runtime.go` | open files, idle deadlines | stream a file or an archive; delete it after a download-once | file store, database |
| **Short links** `store.go`, `server.go` | table short_links | create, look up, redeem, expire | database |
| **Capabilities** `authorizeMutation`, `rotateWriteCapability` | a hash per room, upload token hashes | check, rotate | database |
| **Rate limiter** `ratelimit.go` | per address a window start and a count | allow | handlers |
| **Readiness probe** `runtime.go` | last result, its time, the running probe | ready | database, file store |
| **Web client** `web/app.js`, `download-sw.js` | the room shown, the upload list, unfinished sessions in localStorage | refresh, connect, send, resume, retry, cancel | HTTP, WebSocket |
| **Windows client** `desktop/windows/src` | current room, snapshot, generations, one refresh at a time, history file | poll, event worker, send, delete, change room | HTTP, WebSocket, window messages |
| **Electron client** `desktop/src` | windows, hotkeys | glue | web client |
| **Service installation** `internal/systemd/systemd.go` | binary and the one before, unit, environment file, data directory, user | install, upgrade with rollback, deinstall | systemd |
| **Administration** `internal/admin/admin.go` | database and files, beside a running or stopped server; an archive | status, purge, reconcile, backup, restore | database, file store, no lock of the server |
| **Configuration, validation** | none | parsing and pattern checks | - |

What is hard, and what makes each part correct:

* **Two stores that commit separately.** A row and the bytes it names are written by different
  systems. A file acknowledged to a client must keep exactly its bytes, and bytes without a row must
  go away, whatever retries, deletions, disconnects and crashes fall between two steps. Handlers
  that delete do not take the mutex of the upload, so that each of their steps may fall between two
  steps of a putChunk or completeUpload of the same upload.
* **Groups that appear at once.** A client declares an entry, uploads its files and commits it;
  readers see all of it or nothing. Legacy clients put single items and files into the same tables.
* **A cleanup that deletes what it cannot see used.** Correct only because of the exclusive lock.
* **Events that coalesce**, connections that break, snapshots that overtake one another: clients must
  end up showing what the server has.
* **Counters at their limits** (quota, records, uses of a link, requests per minute).
* **Uploads that are taken up again.** The page finds unfinished sessions by the name of a file, not
  by its contents or its message; whatever of it is completed, expired or cancelled by then, what it
  reports as sent must be there, and what was cancelled must not appear.
* **Steps of an administrator** on the files of a running service: a backup beside it, a restore
  that breaks off, an upgrade that has to be taken back.

`PROJECT.json` lists these hazards one by one, at the line where each bites, with the properties
that would catch it going wrong.

## 2. Plan

The most important behaviour comes first: bytes that were acknowledged, then what readers are shown
of them, then the clients.

| # | Module | Composes or refines | State |
|---|---|---|---|
| 1 | `UploadLifecycle` | implements `StoredFile` | written, checked, proved |
| 2 | `RoomStore` | - | written, checked, proved |
| 3 | `RoomSnapshot` | extends `RoomStore` with a reader | written, checked, proved |
| 4 | `RoomFeed` | the hub with its pages; versions stand for the states of `RoomStore` | written, checked, `NoLostWakeup` proved |
| 5 | `ShortLinks` | - | written, checked, proved |
| 6 | `DownloadOnce` | starts where `UploadLifecycle` and `RoomStore` end | written, checked, safety proved |
| 7 | `WriteCapability` | - | written, checked, proved |
| 8 | `Readiness` | the cleanup pass of `UploadLifecycle` as a lock | written, checked, safety proved |
| 9 | `DesktopSync` | the Windows client of the events of `RoomFeed` | written, checked, safety proved |
| 10 | `Administration` | the commands beside the server of `UploadLifecycle`, in outline | written, checked, safety proved |
| 11 | `Installation` | - | written, checked, safety proved |
| 12 | `WebUploader` | the page on the transactions of an instance of `RoomStore` | written, checked, proved |

Abstract specifications worth stating: `StoredFile` (done); an entry that is published at once or
given up, which `RoomStore` implements up to the deletion of drafts; a single register per room that
every client comes to read, which `RoomFeed` would implement if pages asked after subscribing.

Every safety invariant and action property that a run checks is a theorem now, and so is the
refinement of `StoredFile`; what is left to the runs is liveness.

## 3. Modules, state and actions

An action stands for one step that nothing of the process interrupts: a transaction, a file-system
call, a lock operation, a message handled by a window. `PROJECT.json`, "map", names the lines of the
source behind every definition. Each module ends with its properties; a definition whose name ends
in `Slip` is a plausible mistake in the action that follows it, kept to see that a property notices.
No specification refers to one.

**`UploadLifecycle`** is the server as far as payloads go. `uploads`, `chunkRow`, `files`,
`completed` and `room` are tables, `dirs`, `chunkFile`, `object`, `tmp` and `strays` the directories
`uploads/` and `objects/`. A request has a step `pc`, the upload `up`, for a PUT the chunk `part`,
and the payloads `pend` its handler goes on to remove after its transaction; `lock` is the striped
mutexes. A handler under `/api/rooms` holds `lifecycle` for reading, so that `CleanupStart` needs
every `pc` to be idle. `putChunk` is `BeginUploadRequest`, `LockUpload`, `PutAuthorize`, `PutWrite`,
`PutLink`, `PutRecord`, `PutUndo`; `completeUpload` is `LockUpload`, `CompleteLookup`,
`CompleteAuthorize`, `CompleteReceived`, `CompleteAssemble`, `CompleteLink`, `CompleteCommit`, or
`CompleteMissing`; deletions are one transaction and then `RemoveNext` for each payload. `Fail(r)`
is an error or a disconnect at any step, `Crash` the end and the start of the process. The pass is
`CleanupRooms`, `CleanupEntries`, `CleanupUploads`, their removals, `CleanupReferences`,
`CleanupReconcile` and `CleanupEnd`. `WrongNonce` is the set of clients that may name another nonce
than their chunk begins with; the properties hold for all others.

**`StoredFile`** is what a reader may rely on: an id is drawn once, published with all of its bytes
in one step, keeps exactly these bytes and never comes back. `ImplementsPromise` is the refinement:
an upload is open while it is in `uploads`, stored while it is in `files`, gone when it was created
and is in neither; its bytes are those of `object`.

**`RoomStore`** has one action per transaction of `store.go`: `CreateEntry`, `CommitEntry`,
`PinEntry`, `AddItem`, `CreateUpload`, `CompleteUpload`, `AbortUpload`, the deletions and the
expiry. Rows carry what its conditions look at: index and size of a file, `expected`, `published`,
the deadline. Whether a group is visible, fits and is admitted are the operators `Visible`, `Fits`
and `Admits`. `fresh`, `trimmed` and `grouped` are history: an id that had no legacy rows when it
was declared, an entry that lost a file, a file that was uploaded into a group. A room may be created
again under its id, which only makes the model more general.

**`RoomSnapshot`** adds one reader to `RoomStore`: `GetRoom`, `ListItems`, `ListFiles`,
`ListEntries`, each a transaction, with any transaction of the store between them.

**`RoomFeed`** has the handlers between commit and broadcast (`owed`), the channel of a subscription
(`chan`), messages on the wire, the timer of 60 ms and the overlapping questions of a page. `Commit`
and `Broadcast` are two steps, as are `Answer` (the server reads) and `Apply` (the page shows).

**`ShortLinks`**: `BeginCreate`, then per attempt `Insert` or `Conflict`, or `RefuseCreate` at the
limit; `Fetch` and `Redeem` are two requests of a reader; `Expire` and `Sweep` free codes.

**`DownloadOnce`**: a reader goes through `Lookup`, `OpenObject`, `Send` per block, `Finish`,
`FindEntry`, `Consume`; for a stream of the service worker each range is a request of its own
(`LookupAgain`), and its confirmation is the last of them. `Cut` and `Fail` end it anywhere. A
download is a GET of the file, an archive or a stream; HEAD, 304, 412, ranges, inline views and
previews are looks.

**`WriteCapability`**: `BeginChange` or `BeginRotate` on a page, `Authorize` and then `Change` or
`Rotate` on the server, `Receive` or `Lose` back on the page.

**`Readiness`**: a request is answered from the cache, joins the probe or starts one (`Ask`, all
under the mutex), and wakes or is late. The goroutine of the probe is `PingAnswers`, `PingFails`,
`BeginCheck` (the lock that a cleanup pass holds), `Check`, `Publish`. Half seconds pass (`Tick`) only
while everybody waits.

**`DesktopSync`**: the window thread handles one message, one hotkey or one timer at a time;
`worker` and `listener` are its threads, `posted` its message queue. `Release` is the reset of
`g_refreshActive`, which the code does before it posts the result.

**`Administration`**: a command is a list of steps (`BackupSteps`, `RestoreSteps`), each of which is a
transaction, a file created, filled or removed, or one name of a directory walk; `Fail` ends it before
any of them. `db` and `wal` are the database and the log a crash left beside it: who opens the
database replays the log, which is why a restore must remove both. The server is reduced to what it
does to these two and to the directory of files: the steps of a PUT and a completion
(`Accept`, `WriteChunk`, `RecordChunk`, `Assemble`, `CommitUpload`, `Tidy`), every deletion
(`Delete`, `RemovePayload`), the pass (`Cleanup`), `StartService`, `StopService`, `ServiceCrash`.
`kept` is what users can count on, `ended` and `gaps` what came to its end while a backup ran.

**`Installation`**: `binary`, `previous`, `unit`, `config`, `account` and `schema` are what the
commands find on the disk, `loaded`, `enabled`, `wanted` and `process` what systemd knows. The steps of
install, upgrade, its rollback and deinstall are lists as well; `StepFails` makes one fail, `Killed`
ends a command without a rollback, `Reboot` takes systemd's memory. `Launch` is systemd starting
whatever binary is in place, which migrates the database, or exits when it is `Broken` or the schema
is newer than its own; `CreationBreaks` is its end while it makes a new
database. `repair` is an operator who has given up and goes back to `Latest`.

**`WebUploader`** puts the page in front of the tables of `RoomStore` (`Store == INSTANCE RoomStore
WITH ...`): every request executes one of its transactions. `rows` is the upload list; a row `at`
"look", "drop", "create", "put", "complete" or "commit" has that request under way. `sending` is
`addItem` waiting for its POST or for `Promise.all`; `session` is localStorage. `Begun` to `Complete`
is `runUpload`, `Throws` and `Returns` its two ends, `Retry` and `Cancel` the buttons, `DeleteEntry`
the request of a cancel. A request may fail before it is executed and its answer may be lost; a page
is reloaded, rows expire.

## 4. What is checked

Every run explores its state space to the end.

| Run | Instance | What it shows |
|---|---|---|
| `upload` | one encrypted upload of two chunks, two bodies, two overlapping requests, five requests, two faults, fair | what was acknowledged stays: stored files are intact, recorded chunks are on disk, leftovers of a failed completion agree with the retry, a repeated complete is not answered 404; the server implements `StoredFile`; a pass leaves nothing unreferenced, orphans and strays go in the end |
| `rooms` | one room at a quota of two, one entry id, two files of two sizes, groups of none to two files | drafts never leak, committed entries are closed, whole and only shrink, the quota covers sessions too; a reader sees texts with their files and files with the row of their entry |
| `feed` | one page, two questions at once, three changes, two faults, fair | no wake-up is lost; what is committed while the page is subscribed is asked for |
| `short_links` | three codes, three links, two creators, two readers, limit two | single use, limit, and what a reader decrypted stays redeemable until it expired or was used |
| `download_once` | a file in an open and one in an encrypted room, one entry id for both, two readers, two blocks, one fault, fair | only whole downloads delete, a whole download does delete, file_missing is told of deleted files only |
| `capability_rotation` | two pages, two requests, three rotations | each token has one successor; somebody keeps the right to write |
| `ready` | two requests, three channels, fair | one probe, nobody forgotten, no answer without a cause within a second, every request answered |
| `desktop` | two rooms, two threads of each kind, any two events, fair | the room shown is the room set; the refresh flag and the listener are accounted for; the window catches up |
| `administration` | one file, four commands and repeated restores, two faults, fair | an archive covers what its database names; no command takes away what users count on; a restore leaves exactly what the archive holds and can be repeated wherever it broke off |
| `installation` | three releases, one broken, two schemas, four commands and a repair, three faults, fair | a rollback that reports success has put the old release back, which serves again unless its database was migrated; deinstall and install set everything right, with a purge where the database was never finished |
| `web_uploader` | two files with two contents each, two messages, two upload ids, two rows, two sends, one fault | what the page reports as sent is published with the contents chosen now; a cancelled message stays hidden |
| `feed_catch_up` | one page, one change | a place where the code does otherwise than a document says, section 7 |

**Bounds.** Handlers meet in the database rows, the directory and one mutex of one upload, so that
two overlapping requests with five requests in all contain every pair of handlers in every order
with a retry before, between and after; two bodies tell a chunk that was kept from one that was
replaced, two chunks a complete upload from a partial one. One fault separates two stores; a second
one hits the repair. In `rooms` a group of two files with its text, a legacy file
under the same id and a file that does not fit are the cases the conditions tell apart; ids, once
drawn, are not reused, so that two files bound the length of a history, not its order. `short_links`
has one link more than its limit and one code to draw again. In `download_once` two readers at a
time are a consumer with a look or a competitor, and the second file comes under the id that a reader
of the first still holds; one file of either kind with two entry ids and three readers was checked
once. Three channels are one under way, one published and still held, and one to start.
Each command of `administration` meets one upload at every step of its life; two files, with two
commands and one fault, were checked once and are as good (2.2 million states), because the steps of
a command visit a name at a time and no action relates two names. In `installation` a release can be older, newer
and broken, or newer and sound, four commands are install, upgrade, upgrade, deinstall, and three
faults break off a command, its rollback and the repair. In `web_uploader` two rows are a message of
two files, or two messages of one file that follow each other into one entry; two ids are one upload
each or a second one after the first was lost; three ids with one message, and three ids with two
messages and no fault, were checked once.
In `desktop` three generations can follow one another while threads of each are alive.

**Fairness.** `UploadLifecycle`: a handler that can step does (weak fairness each): stalled bodies
are cut off by the 30 s idle deadline, Go's mutexes do not starve finitely many waiters. The ticker
of the pass never stops; its `TryLock` succeeds once requests cease, which they do because
`MaxRequests` bounds them. Under traffic without a gap the code promises nothing, see the hazard at
`filestore.go:41`. `RoomFeed`: broadcast, subscription, sending, the page's timer, its connection
attempts and its questions; no change and no failure has to happen. A page whose first question
failed is taken to be reloaded. `DownloadOnce`: a reader goes on or is cut off. `Readiness`: handlers
and goroutines; strong fairness of `Tick`, because time goes by although other things happen; a
pass may last for ever and the database may stay away. `DesktopSync`: threads (every request has
timeouts), the message loop, the timer, which Windows delivers when the queue is empty, and the
30 seconds of the safety poll. `Administration`: a command runs to its end; an operator whose restore
broke off stops the service and restores again (strong fairness, because a service may come up in
between: systemd starts it at boot). `Installation`: systemd launches what it wants to run
(`Restart=on-failure`, every two seconds), commands go on, and an operator who began to set things
right goes through with it; `enable --now` that fails or a kill may interrupt him only as often as
`MaxFaults` allows. `WebUploader` states safety only: the page promises nobody to try again.
Symmetry is used in runs without liveness only.

Deadlock is checked except where ids, tokens or commands run out: `short_links`,
`capability_rotation`, `download_once`, `installation`, `web_uploader`.

Type invariants are not among the properties of the runs: those of the modules with proofs are
theorems (`SnapshotOK` of `RoomSnapshot` is a part of the invariant behind `SnapshotsShownInOrder`).
The inductive invariants of the proofs were checked by TLC on the instances above, or on smaller
ones, before they were proved.

## 5. What is proved

`tlapm` checks the following for every value of the constants that satisfies the named assumption
of its module. The assumptions say that sets are disjoint, that bounds are numbers, and, where
something is counted, that what is counted is finite; TLC evaluates all of them.

| Module | Theorems | Inductive invariant, and why it is needed |
|---|---|---|
| `UploadLifecycleProofs` | `TypeCorrect`, `StoredFilesIntact`, `RecordedChunksKept`, `LeftoversAgree`, `RepeatedCompleteAnswered`, `PassSweepsClean`, `NoResurrection`, `KeepsPromise` | `LocksHeld` (a pass and a request exclude each other; who is past its lock step holds the mutex), `RowsApart` (an id is not open and stored at once), `PendingDead` (what a handler is still to remove has lost its row for good), `RefsCurrent` (the snapshot of a pass is true, because nobody else runs), `PutKnows` and `CompleteKnows` (what a handler found out before still holds, because only holders of the mutex add chunks: deletions can only take the row away, which the commit notices) |
| `RoomStoreProofs` | `TypeCorrect`, `DraftsNeverLeak`, `CommittedEntriesClosed`, `CommittedEntriesOnlyShrink` | `Belongs` (a session or file created for a draft has its entry, or the entry is gone and the row with it), `LegacyIsPublished` |
| | `CommittedEntriesWhole` | `DrawnOnce` (an upload is a session or a file, not both), `Placed` (all rows of a new group were made for it, each at an index of its own below the number declared), `Counted` (a committed group that lost nothing has as many files as declared): as many different indexes as there are indexes are all of them |
| | `QuotaIsKept` | `QuotaKept` itself; the sum of sizes over a finite set is shown to follow its rows one by one (below) |
| | `SnapshotsShownInOrder` | `Listed` and `Covered` (what the queries so far have seen of a group that nobody disturbed, and that the later queries will find the rest: files are listed before entries, and a commit makes both visible in one transaction) |
| `OnlyOnceProofs` | `LinkTypeCorrect`, `UsedOnce`, `LimitHolds`, `KeptForReaders` | `RowsKnow` (a link is in one row, which has counted all of its uses), `Underway` (a link that is being created is in none), `DueExpired` (what the sweep takes has expired); for `KeptForReaders` the property itself on top of these: a row that one client may redeem is changed by no step but a redemption of the same link and its expiry |
| | `TypeCorrect`, `WholeDownloadsSpend`, `MissingWereDeleted` | `RowsSound` (a file is in one entry and its object on disk), `TransfersSound` (a transfer that has come to the deletion has sent all, and its entry holds no other file, unless one that took its id) |
| `RoomPageProofs` | `TypeCorrect`, `OneSuccessor`, `SomebodyCanWrite` | `Drawn`, `Secret` (a new token is known to one page only), `Succession`, `WriterRemains` |
| | `FeedTypeCorrect`, `WakeupsKept` | `NoLostWakeup` itself, with the last conjunct of `FeedTypeOK` |
| `DesktopSyncProofs` | `TypeCorrect`, `RoomsDoNotMix`, `RefreshesExclude`, `RoomHasOneListener` | `WorkersKnown`, `ListenersKnown`, `MessagesKnown` (what is under way is of this generation, and then of this room, or of an older one, which the window ignores), `Paid` (each generation and version has cost an event, so that the bound on events keeps both within their types) |
| `ServiceProofs` | `ReadyTypeCorrect`, `ProbesExclude`, `WaitersAreKnown`, `AnswersHaveCause` | `OneProbe`, `NobodyForgotten`; `ResultTrue` and `FindingTrue` (a result was true when the probe ended, so long ago as it is old), `ClosedNow` (whoever wakes up does so before time passes, and finds the result of its own probe), `WaitedForCause` (time goes by for a waiter only while something is wrong, so that its deadline has a cause, too) |
| | `TypeCorrect`, `RollbacksAreTrue` | `AtWork` (a command is at one of its steps), `Kept` (from the step on that overwrites the binary until the rollback has put it back, the old release is beside it) |
| `AdministrationProofs` | `TypeCorrect`, `ArchivesAreComplete`, `KeptFilesAreAtHand`, `RestoresAreExact` | `AtWork` and `Opened` (which command excludes the service; who has the database open has replayed its log), `DrawnFirst` and `Requests` (what a request is about to record is on the disk, what a deletion is about to remove has no row), `OnDisk` (the disk has what the database, log included, names), `InBackup` (a row of the snapshot is as it was or has ended; its payload is copied or still to be visited), `InRestore` (how far the old data is gone and the new one there), `InReconcile` (references do not grow stale) |
| `WebUploaderProofs` | `TypeCorrect`, `CancelledStayHidden`, `SentArePublished` | `TablesKnown`, `SessionsKnown`, `RowsKnown`, `Groups` (page and tables name the same uploads); `Placed` (no index of a message twice, none beyond its number); `NothingComes` (whatever is still under way for a withdrawn message is cancelled or has lost its upload); `DoneIsThere` (a row that is done has its file, or its message is gone); `StraysLeaveGaps` and `Unheard`, see below |
| | `StoreIsUsed`, `MessagesAreWhole` | `Transaction` (a step of the page is one transaction of the store or leaves the tables alone); `Messages` (the room has no entries but declared ones; an upload into a draft goes with the draft; a published message is closed and has as many files as declared) |

The theorems of `AdministrationProofs` have the hypothesis `DocumentedUse`: restore and reconcile are
run with the service stopped, as `README.md:270` tells the operator to. The code does not enforce it,
and without it the theorems are false: a reconcile beside the service removes a payload whose row is
about to be written. A backup beside the service is allowed for, although the document would have it
stopped there, too; so is a purge. The run `administration` has the same setting.

`QuotaIsKept` is about a recursive sum over a finite set, and the library's induction rules take an
operator, which the provers cannot instantiate. The proof does with a least counterexample instead:
strict inclusion of the subsets of a finite set is well-founded (`FiniteSetTheorems`), so that among
the sets for which an equation of two sums fails there is one all of whose proper subsets satisfy it
(`Smallest`); one element taken out of both sums refutes it. That yields the defining equation of the
sum (`SumsExist`, `SumsAgree`, `TotalUnfold`) and from it what adding or removing a row does to it.

`SentArePublished` hides a case that the page does not look at. While a new message is being
declared, the retry of another row of the same file may leave an unfinished upload of *its* message in
localStorage; the row of the new message goes on with that (`app.js:1030`) and ends as done although
its own message never got the file. The page then commits all the same; the server
refuses. The proof says why it always does: such a row leaves its index in the new message free for
good (`StraysLeaveGaps`: nobody else has that place, nobody knew the message before it was declared),
indexes are distinct and below the number declared (`Placed`), and so there are fewer files than
declared (`GapsCount`), which `CommitEntry` does not accept.

`StoreIsUsed` says that the composition is one: every behaviour of `WebUploader`, read on the tables,
is a behaviour of `RoomStore`. TLAPS cannot cite the theorems of a module that is instantiated, so
what `RoomStoreProofs` shows for any client (`DraftNeverLeaks`, `CommittedIsClosed`,
`CommittedIsWhole`) is shown again for this one in `MessagesAreWhole`, from `Messages`; there it
holds of the messages of one page, which all are declared, and the proof is shorter.

The argument is the same everywhere: `Init => IInv`, one step per action for
`IInv /\ [Next]_vars => IInv'`, `IInv => Inv`; action properties and the refinement follow from the
invariant by the same case distinction.

Model-checked only: liveness (`OrphansSwept`, `ChangesAreAskedFor`, `OnceIsOnce`, `EveryAnswer`,
`CatchesUp`, `RestoreRepeatable`, `RollbackServes`, `OperatorRecovers`), which with ENABLED is beyond
the prover.

`OnlyOnceProofs`, `ServiceProofs` and `RoomPageProofs` each hold the proofs of two components that
share nothing; the names of one of them have a prefix (`LinkSpec`, `ReadySpec`, `FeedSpec`) to keep
them apart.

## 6. What is abstracted

* `os.RemoveAll` and Reconcile are one step each; the pass that Reconcile interrupts half-way is
  repeated by the next one. Directory entries are durable when the call returns (`filestore.go:115`
  does not sync directories: a power failure is outside the model).
* A body stands for its bytes and digest. A chunk that is inserted and counted is one step, as it
  is one transaction. An error while `putChunk` takes its own chunk back is not modelled.
* `UploadLifecycle` has one room and leaves limits and entry rules to `RoomStore`; `RoomStore` has
  no bytes. Broadcasts appear in `RoomFeed` only.
* Time: a deadline may pass at any moment. Lengths of codes, texts, names, MIME types, history
  limits and byte budgets are left out, as is cryptography: an envelope or a token that nobody was
  told is not guessed.
* `ShortLinks` and `WriteCapability`: a link is one value for its envelope and token; rooms have
  separate rights; an answer that is lost takes the write right with it.
* `DownloadOnce`: one file per entry, as the code demands for download-once files; the expiry of an
  entry is `DeleteEntry`.
* `DesktopSync`: writing the history file and resetting the flag are one step, in code order; a
  restart of the client is `Init` with the file an earlier session left.

* `Administration`: an upload is of one chunk, alone in its room, and has the name of its file and its
  room. A database is its rows; one copied in part is malformed or empty. The contents of the
  archive's manifest and the path checks of `extractArchive` are the choice of an archive that is
  whole, cut off or of another release. The upload mutexes appear as one request per upload.
* `Installation`: the contents of the unit and the environment file; owners and modes of files; a
  migration is one step. A start that fails by itself, other than for the binary or the database, is
  `Crash`.
* `WebUploader`: one page and one room, without encryption, whose chunks and bodies are the subject of
  `UploadLifecycle`; a file is one chunk. A request's execution and the page's reaction to its answer
  are one step: what another request does in between it does before or after. A message of text only,
  expiry times, download-once and the alias are left out.

### Not modelled

The rate limiter (one function under a mutex), the Electron shell (glue), the statements of the
schema migrations, configuration and request validation (pure functions of their input), metrics,
rendering of the page, and the comparison of deadlines as strings (`store.go:1205`): two times of one
second may compare the wrong way, and every module lets a deadline pass at any moment anyway.

## 7. Disagreements a run shows

* **`feed_catch_up`**: a change between the page's first answer and its subscription, or while a
  connection was lost, is not shown until the next change, because the page ignores the `ready`
  message (`app.js:1107`). `README.md:6`: rooms are updated in real time.

## 8. Further observations

Met while modelling; no run is devoted to them.

Server:

* `server.go:715`: a repeated PUT of a recorded encrypted chunk whose nonce header differs from the
  first bytes of the chunk makes `putChunk` remove the chunk file, although `WriteChunk` found it
  there and its row stays; `PHASE2.md:139` promises that a repeated PUT is idempotent when the digest
  matches. `WrongNonce` names the clients that may do so; `RecordedChunkKept` is about all others.
* `server.go:396`: `getRoom` reads items, files and entries in transactions of their own, so that a
  commit between them shows a group in parts; `PROTOCOL.md:42` promises groups as a whole.
  `ShownInOrder`, which holds, says what the order of the queries saves.
* `filestore.go:165`: `Assemble` compares sizes, not the recorded digests, so that a chunk removed
  as above and uploaded again with another body is stored. `PHASE2.md:140` says complete checks
  digests.
* `store.go:873`: after a draft was deleted or has expired, `CreateUpload` takes its id for a
  legacy one and accepts the remaining files of the group singly.
* `store.go:753`: `AddItem` counts items only and legacy uploads nothing, so that a room may exceed
  `--max-items-per-room`.
* `ratelimit.go:30`: windows start at a visitor's first request, so that the end of one and the
  beginning of the next allow twice `--rate-limit` within one minute.
* `server.go:846`: the entry is deleted by its id after the transfer. If it was deleted meanwhile
  and its client declared the id again, the new file goes unread; `SpentWhole` names these files
  `reused`.
* `server.go:1120`: a change authorized before a rotation is executed after it, while
  `README.md:284` says former links cease to work at once.
* `app.js:1171`: the page that rotates does not update the copy it keeps on the device.
* `runtime.go:106`: the probe may wait for a cleanup pass between its reading of the database and
  its result, so that "ready" may rest on an old reading, although `README.md:263` names two seconds.
* `main.cpp:169`: a text that the server has taken is reported as not sent when the refresh after
  it fails.

Page (each a behavior of `WebUploader`; `SentIsPublished` and `CancelledStaysHidden` hold beside them):

* `app.js:1028`: the session of an upload whose completion was answered but not heard is forgotten,
  because its GET is answered 404; a new upload at the same index is refused with 409, and the message
  is never committed. The idempotent completion of the server (`history.go:63`) is not used. The same
  holds for a message of which one file is complete and both are chosen again. The retry button
  ignores a 409 (`app.js:1076`).
* `app.js:691`: a file chosen again after a failure gets the index of its place in this choice, so that
  a message can be committed with one file twice and another one missing.
* `app.js:1015`: a cancel while the POST of the entry is under way is undone by `runUpload`, and the
  message is published. `app.js:1007`: a DELETE that fails is not repeated, nor reported.
* `app.js:1030`: a session kept for a draft that has been deleted or has expired is used to upload into
  an entry without a row, which the server shows as that of a legacy client, without its deadline;
  the page is told 404 when it commits. A draft without a deadline is never deleted.

Administration and installation:

* `admin.go:271`: a restore leaves the database and the files owned by the user who ran it;
  `README.md:137` has it run with sudo, while the unit file names another user.
* `admin.go:64`: any command of a newer release migrates the database of a running older one.
* `admin.go:135`: a purge is not broadcast to the pages of the room.
* `main.go:59`: a start after a restore that broke off takes an empty or partial state for the whole.
* A backup beside a running service names files that were deleted before they were copied; a backup of
  what was restored from it names them again (`gaps`).
* `systemd.go:146`: for a service of `Type=simple` a restart succeeds when the process is forked, so that
  a release that exits at once is not rolled back, as `README.md:98` says of a restart that fails.
* `store.go:359`: a new database is made by statements that each commit for themselves, and its version
  is recorded last. A first start that is killed in between leaves tables without a version, which
  `store.go:145` refuses at every further start as those of an unsupported release; only a
  `deinstall --purge` or a removal by hand helps. `CreationBreaks` has it, `OperatorRecovers` says so.
* `systemd.go:121`: an upgrade that is killed after its second step and repeated puts the new binary in
  the place of `.previous`. The rollback does not restore the unit.
* `systemd.go:140`: an upgrade of an installation without an environment file is rolled back by a restart
  of a service that was never enabled and opens a default database.
* `systemd.go:163`: after a stop that failed `deinstall --purge` removes the data under a running process.
