--------------------------- MODULE UploadLifecycle ---------------------------
(***************************************************************************)
(* The life of file payloads on the server of clipboard-exchange: HTTP     *)
(* handlers that move bytes between requests, the SQLite database and the  *)
(* file store, and the cleanup pass that sweeps what nothing refers to.    *)
(*                                                                         *)
(* The database and the disk commit separately.  A handler is a sequence   *)
(* of steps, each of which is one transaction, one file-system call or one *)
(* lock operation; a crash may fall between any two of them.  Two locks    *)
(* order the steps: `lifecycle`, a read-write lock that every request      *)
(* under /api/rooms holds for its whole life and that a cleanup pass tries *)
(* to take exclusively, and 64 striped mutexes taken by putChunk,          *)
(* completeUpload and abortUpload, but not by the handlers that delete.    *)
(*                                                                         *)
(* One room.  An upload id stands for its file id too: createUpload draws  *)
(* both together.  Limits and entry rules are the subject of RoomStore.    *)
(***************************************************************************)
EXTENDS Naturals

CONSTANTS
  Upload,      \* ids drawn by createUpload, never drawn twice
  Chunk,       \* chunk indexes of an upload
  Body,        \* chunk bodies; equal bodies have equal digest and nonce
  Entry,       \* entries of the room
  EntryOf,     \* the entry an upload was created for
  Encrypted,   \* the uploads whose chunks carry a nonce
  WrongNonce,  \* those of them whose client may name another nonce in the
               \* header than the one its chunk begins with
  Request,     \* concurrent requests
  Stripe,      \* the upload mutexes
  StripeOf,    \* the mutex an upload id hashes to
  Room,        \* the room, as a thing whose TTL may pass
  None,
  MaxRequests, \* bound: requests served
  MaxFaults    \* bound: crashes, I/O errors, database errors, lost clients

Content == [Chunk -> Body]
Partial == [Chunk -> Body \cup {None}]
Part == [chunk : Chunk, body : Body, header : Body]
Payload == {"object", "dir"} \X Upload

ASSUME ConstantsAssumption ==
  /\ EntryOf \in [Upload -> Entry]
  /\ StripeOf \in [Upload -> Stripe]
  /\ Encrypted \subseteq Upload /\ WrongNonce \subseteq Encrypted
  /\ None \notin Body \cup Request \cup Upload
  /\ None \notin Content
  /\ None \notin Part
  /\ Room \notin Upload \cup Entry
  /\ MaxRequests \in Nat
  /\ MaxFaults \in Nat

VARIABLES
  (* database *)
  uploads,    \* rows of uploads
  chunkRow,   \* rows of upload_chunks: the digest recorded at an index
  files,      \* rows of files
  completed,  \* rows of completed_uploads
  room,       \* the rooms row exists
  (* disk *)
  dirs,       \* directories under uploads/
  chunkFile,  \* the chunk files in them
  object,     \* the files under objects/
  tmp,        \* a request's temporary file under objects/
  strays,     \* temporary files left there by a crash
  (* requests and locks *)
  pc, up, part, pend, lock,
  (* cleanup: the step of the pass, payloads it still has to remove, and   *)
  (* the reference snapshot it took                                        *)
  maint, mpend, refs,
  (* environment *)
  due,        \* uploads, entries and the room whose deadline has passed
  created, requests, faults,
  (* history: the content each file had when its row was committed *)
  committed

db == <<uploads, chunkRow, files, completed, room>>
disk == <<dirs, chunkFile, object, tmp, strays>>
request == <<pc, up, part, pend, lock>>
cleanup == <<maint, mpend, refs>>
env == <<due, created, requests, faults>>
vars == <<db, disk, request, cleanup, env, committed>>

PutStep == {"putLock", "putAuthorize", "putWrite", "putLink", "putRecord", "putUndo"}
CompleteStep == {"completeLock", "completeLookup", "completeAuthorize", "completeReceived",
                 "completeAssemble", "completeLink", "completeCommit", "completeMissing"}
AbortStep == {"abortLock", "abortAuthorize", "abortDelete"}
Step == {"idle", "delete", "remove"} \cup PutStep \cup CompleteStep \cup AbortStep
CleanupStep == {"idle", "rooms", "entries", "sweepEntries", "uploads", "sweepUploads",
                "references", "reconcile", "swept"}

NoChunks == [c \in Chunk |-> None]
AllRecorded(u) == \A c \in Chunk : chunkRow[u][c] # None

DatabaseTypeOK ==
  /\ uploads \subseteq Upload /\ files \subseteq Upload /\ completed \subseteq Upload
  /\ chunkRow \in [Upload -> Partial]
  /\ room \in BOOLEAN

DiskTypeOK ==
  /\ dirs \subseteq Upload
  /\ chunkFile \in [Upload -> Partial]
  /\ object \in [Upload -> Content \cup {None}]
  /\ tmp \in [Request -> Content \cup {None}]
  /\ strays \in BOOLEAN

RequestTypeOK ==
  /\ pc \in [Request -> Step]
  /\ up \in [Request -> Upload \cup {None}]
  /\ part \in [Request -> Part \cup {None}]
  /\ pend \in [Request -> SUBSET Payload]
  /\ lock \in [Stripe -> Request \cup {None}]

CleanupTypeOK ==
  /\ maint \in CleanupStep
  /\ mpend \subseteq Payload
  /\ refs \in [uploads : SUBSET Upload, objects : SUBSET Upload]

HistoryTypeOK ==
  /\ due \subseteq Upload \cup Entry \cup {Room}
  /\ created \subseteq Upload
  /\ requests \in Nat /\ faults \in Nat
  /\ committed \in [Upload -> Content \cup {None}]

TypeOK ==
  DatabaseTypeOK /\ DiskTypeOK /\ RequestTypeOK /\ CleanupTypeOK /\ HistoryTypeOK

NoRefs == [uploads |-> {}, objects |-> {}]

Init ==
  /\ uploads = {} /\ files = {} /\ completed = {} /\ room = TRUE
  /\ chunkRow = [u \in Upload |-> NoChunks]
  /\ dirs = {} /\ chunkFile = [u \in Upload |-> NoChunks]
  /\ object = [u \in Upload |-> None]
  /\ tmp = [r \in Request |-> None] /\ strays = FALSE
  /\ pc = [r \in Request |-> "idle"]
  /\ up = [r \in Request |-> None]
  /\ part = [r \in Request |-> None]
  /\ pend = [r \in Request |-> {}]
  /\ lock = [s \in Stripe |-> None]
  /\ maint = "idle" /\ mpend = {} /\ refs = NoRefs
  /\ due = {} /\ created = {} /\ requests = 0 /\ faults = 0
  /\ committed = [u \in Upload |-> None]

-----------------------------------------------------------------------------
(* Building blocks                                                         *)

Goto(r, step) == pc' = [pc EXCEPT ![r] = step]

(* The handler returns: its deferred unlocks run.                          *)
Return(r) ==
  /\ pc' = [pc EXCEPT ![r] = "idle"]
  /\ up' = [up EXCEPT ![r] = None]
  /\ part' = [part EXCEPT ![r] = None]
  /\ pend' = [pend EXCEPT ![r] = {}]
  /\ lock' = [s \in Stripe |-> IF lock[s] = r THEN None ELSE lock[s]]

Fault == faults < MaxFaults /\ faults' = faults + 1

(* Deleting rows of uploads takes their upload_chunks rows along, deleting *)
(* rows of files their completed_uploads rows (ON DELETE CASCADE).         *)
DropRows(us, fs) ==
  /\ uploads' = uploads \ us
  /\ chunkRow' = [u \in Upload |-> IF u \in us THEN NoChunks ELSE chunkRow[u]]
  /\ files' = files \ fs
  /\ completed' = completed \ fs

DropDirs(us) ==
  /\ dirs' = dirs \ us
  /\ chunkFile' = [u \in Upload |-> IF u \in us THEN NoChunks ELSE chunkFile[u]]

DropObjects(us) == object' = [u \in Upload |-> IF u \in us THEN None ELSE object[u]]

(* Slip: the object of an upload goes with its directory.                  *)
RemovePayloadSlip(x) ==
  /\ DropObjects({x[2]})
  /\ DropDirs(IF x[1] = "dir" THEN {x[2]} ELSE {})
  /\ UNCHANGED <<tmp, strays>>

(* RemoveObject and RemoveUpload: a payload already gone is not an error.  *)
RemovePayload(x) ==
  /\ DropObjects(IF x[1] = "object" THEN {x[2]} ELSE {})
  /\ DropDirs(IF x[1] = "dir" THEN {x[2]} ELSE {})
  /\ UNCHANGED <<tmp, strays>>

-----------------------------------------------------------------------------
(* Requests begin.  BeginOperation takes the read side of lifecycle, which *)
(* a running cleanup pass denies.                                          *)

Begin(r, step) ==
  /\ pc[r] = "idle" /\ maint = "idle" /\ requests < MaxRequests
  /\ requests' = requests + 1
  /\ Goto(r, step)
  /\ UNCHANGED <<db, disk, part, pend, lock, cleanup, due, created, faults, committed>>

BeginUploadRequest(r) ==
  \E step \in {"putLock", "completeLock", "abortLock"}, u \in created :
    /\ Begin(r, step)
    /\ up' = [up EXCEPT ![r] = u]

BeginDelete(r) == Begin(r, "delete") /\ UNCHANGED up

(* createUpload: one transaction inside one request.                       *)
CreateUpload(u) ==
  /\ maint = "idle" /\ room
  /\ u \notin created
  /\ created' = created \cup {u}
  /\ uploads' = uploads \cup {u}
  /\ UNCHANGED <<chunkRow, files, completed, room, disk, request, cleanup, due,
                 requests, faults, committed>>

(* Slip: the mutex of the upload is not taken.                             *)
LockUploadSlip(r) ==
  /\ pc[r] \in {"putLock", "completeLock", "abortLock"}
  /\ Goto(r, CASE pc[r] = "putLock" -> "putAuthorize"
               [] pc[r] = "completeLock" -> "completeLookup"
               [] OTHER -> "abortAuthorize")
  /\ UNCHANGED <<db, disk, up, part, pend, lock, cleanup, env, committed>>

LockUpload(r) ==
  /\ pc[r] \in {"putLock", "completeLock", "abortLock"}
  /\ lock[StripeOf[up[r]]] = None
  /\ lock' = [lock EXCEPT ![StripeOf[up[r]]] = r]
  /\ Goto(r, CASE pc[r] = "putLock" -> "putAuthorize"
               [] pc[r] = "completeLock" -> "completeLookup"
               [] OTHER -> "abortAuthorize")
  /\ UNCHANGED <<db, disk, up, part, pend, cleanup, env, committed>>

(* The session is open: its row exists and its deadline has not passed.    *)
Open(u) == u \in uploads /\ u \notin due

-----------------------------------------------------------------------------
(* PUT .../chunks/{index}                                                  *)

PutAuthorize(r) ==
  /\ pc[r] = "putAuthorize"
  /\ IF Open(up[r])
       THEN Goto(r, "putWrite") /\ UNCHANGED <<up, part, pend, lock>>
       ELSE Return(r)
  /\ UNCHANGED <<db, disk, cleanup, env, committed>>

(* WriteChunk up to the link: make the directory and take in the body.     *)
PutWrite(r) ==
  /\ pc[r] = "putWrite"
  /\ \E p \in Part :
       /\ up[r] \notin WrongNonce => p.header = p.body
       /\ part' = [part EXCEPT ![r] = p]
  /\ dirs' = dirs \cup {up[r]}
  /\ Goto(r, "putLink")
  /\ UNCHANGED <<db, chunkFile, object, tmp, strays, up, pend, lock, cleanup, env, committed>>

(* The link publishes the chunk file.  It fails when a deletion removed    *)
(* the directory in the meantime, and when other bytes are already there.  *)
PutLink(r) ==
  LET u == up[r]  c == part[r].chunk  b == part[r].body IN
  /\ pc[r] = "putLink"
  /\ IF u \in dirs /\ chunkFile[u][c] \in {None, b}
       THEN /\ chunkFile' = [chunkFile EXCEPT ![u][c] = b]
            /\ Goto(r, IF u \in Encrypted /\ part[r].header # b THEN "putUndo" ELSE "putRecord")
            /\ UNCHANGED <<up, part, pend, lock>>
       ELSE Return(r) /\ UNCHANGED chunkFile
  /\ UNCHANGED <<db, dirs, object, tmp, strays, cleanup, env, committed>>

(* An insert into upload_chunks meets a constraint when the upload is gone *)
(* (foreign key), the index is taken (primary key) or, in an encrypted     *)
(* upload, the nonce is (unique).                                          *)
Insertable(u, c, b) ==
  /\ u \in uploads
  /\ chunkRow[u][c] = None
  /\ u \in Encrypted => \A d \in Chunk : chunkRow[u][d] # b

(* Slip: every constraint counts as a conflict, a repeated chunk too.      *)
PutRecordSlip(r) ==
  LET u == up[r]  c == part[r].chunk  b == part[r].body IN
  /\ pc[r] = "putRecord"
  /\ \/ /\ Insertable(u, c, b)
        /\ chunkRow' = [chunkRow EXCEPT ![u][c] = b]
        /\ Return(r)
     \/ /\ ~Insertable(u, c, b)
        /\ Goto(r, "putUndo")
        /\ UNCHANGED <<chunkRow, up, part, pend, lock>>
  /\ UNCHANGED <<uploads, files, completed, room, disk, cleanup, env, committed>>

(* RecordChunk: a constraint is forgiven only if this very chunk is the    *)
(* one recorded.                                                           *)
PutRecord(r) ==
  LET u == up[r]  c == part[r].chunk  b == part[r].body IN
  /\ pc[r] = "putRecord"
  /\ \/ /\ Insertable(u, c, b)
        /\ chunkRow' = [chunkRow EXCEPT ![u][c] = b]
        /\ Return(r)
     \/ /\ ~Insertable(u, c, b)
        /\ IF chunkRow[u][c] # b /\ u \in Encrypted
             THEN Goto(r, "putUndo") /\ UNCHANGED <<up, part, pend, lock>>
             ELSE Return(r)
        /\ UNCHANGED chunkRow
  /\ UNCHANGED <<uploads, files, completed, room, disk, cleanup, env, committed>>

(* RemoveChunk, on a nonce mismatch or a conflict.                         *)
PutUndo(r) ==
  /\ pc[r] = "putUndo"
  /\ chunkFile' = [chunkFile EXCEPT ![up[r]][part[r].chunk] = None]
  /\ Return(r)
  /\ UNCHANGED <<db, dirs, object, tmp, strays, cleanup, env, committed>>

-----------------------------------------------------------------------------
(* POST .../complete                                                       *)

(* completedUpload: an earlier completion answers for as long as the       *)
(* session would have lived.                                               *)
CompleteLookup(r) ==
  /\ pc[r] = "completeLookup"
  /\ IF up[r] \in completed /\ up[r] \notin due
       THEN Return(r)
       ELSE Goto(r, "completeAuthorize") /\ UNCHANGED <<up, part, pend, lock>>
  /\ UNCHANGED <<db, disk, cleanup, env, committed>>

(* authorizeUpload reads the row, then the chunk rows: the first query ... *)
CompleteAuthorize(r) ==
  /\ pc[r] = "completeAuthorize"
  /\ \/ up[r] \notin uploads /\ Goto(r, "completeMissing") /\ UNCHANGED <<up, part, pend, lock>>
     \/ Open(up[r]) /\ Goto(r, "completeReceived") /\ UNCHANGED <<up, part, pend, lock>>
     \/ up[r] \in uploads /\ up[r] \in due /\ Return(r)
  /\ UNCHANGED <<db, disk, cleanup, env, committed>>

(* Slip: the recorded chunks are not counted.                              *)
CompleteReceivedSlip(r) ==
  /\ pc[r] = "completeReceived"
  /\ Goto(r, "completeAssemble")
  /\ UNCHANGED <<db, disk, up, part, pend, lock, cleanup, env, committed>>

(* ... and the second, whose count decides whether to assemble.            *)
CompleteReceived(r) ==
  /\ pc[r] = "completeReceived"
  /\ IF AllRecorded(up[r])
       THEN Goto(r, "completeAssemble") /\ UNCHANGED <<up, part, pend, lock>>
       ELSE Return(r)
  /\ UNCHANGED <<db, disk, cleanup, env, committed>>

(* The 404 answer, still under the upload lock.                            *)
CompleteMissing(r) ==
  /\ pc[r] = "completeMissing"
  /\ Return(r)
  /\ UNCHANGED <<db, disk, cleanup, env, committed>>

(* Slip: a chunk file that is missing is skipped.                          *)
CompleteAssembleSlip(r) ==
  /\ pc[r] = "completeAssemble"
  /\ tmp' = [tmp EXCEPT ![r] = chunkFile[up[r]]]
  /\ Goto(r, "completeLink")
  /\ UNCHANGED <<db, dirs, chunkFile, object, strays, up, part, pend, lock, cleanup, env,
                 committed>>

(* Assemble: concatenate the chunk files into a temporary object ...       *)
CompleteAssemble(r) ==
  /\ pc[r] = "completeAssemble"
  /\ IF \A c \in Chunk : chunkFile[up[r]][c] # None
       THEN /\ tmp' = [tmp EXCEPT ![r] = chunkFile[up[r]]]
            /\ Goto(r, "completeLink") /\ UNCHANGED <<up, part, pend, lock>>
       ELSE Return(r) /\ UNCHANGED tmp
  /\ UNCHANGED <<db, dirs, chunkFile, object, strays, cleanup, env, committed>>

(* ... and link it to its name.  An object already there is accepted when  *)
(* it has the same digest.                                                 *)
CompleteLink(r) ==
  LET u == up[r] IN
  /\ pc[r] = "completeLink"
  /\ tmp' = [tmp EXCEPT ![r] = None]
  /\ IF object[u] \in {None, tmp[r]} /\ tmp[r] # None
       THEN /\ object' = [object EXCEPT ![u] = tmp[r]]
            /\ Goto(r, "completeCommit") /\ UNCHANGED <<up, part, pend, lock>>
       ELSE Return(r) /\ UNCHANGED object
  /\ UNCHANGED <<db, dirs, chunkFile, strays, cleanup, env, committed>>

(* Slip: the commit relies on the checks made before the assembly.         *)
CompleteCommitSlip(r) ==
  LET u == up[r] IN
  /\ pc[r] = "completeCommit"
  /\ files' = files \cup {u} /\ completed' = completed \cup {u}
  /\ uploads' = uploads \ {u}
  /\ committed' = [committed EXCEPT ![u] = object[u]]
  /\ chunkRow' = [chunkRow EXCEPT ![u] = NoChunks]
  /\ due' = due \ {Room}
  /\ pend' = [pend EXCEPT ![r] = {<<"dir", u>>}]
  /\ Goto(r, "remove")
  /\ UNCHANGED <<up, part, lock, room, disk, cleanup, created, requests, faults>>

(* store.CompleteUpload: one transaction turns the upload into a file.     *)
CompleteCommit(r) ==
  LET u == up[r] IN
  /\ pc[r] = "completeCommit"
  /\ IF u \in uploads /\ AllRecorded(u) /\ u \notin files
       THEN /\ files' = files \cup {u}
            /\ completed' = completed \cup {u}
            /\ uploads' = uploads \ {u}
            /\ committed' = [committed EXCEPT ![u] = chunkRow[u]]
            /\ chunkRow' = [chunkRow EXCEPT ![u] = NoChunks]
            /\ due' = due \ {Room}
            /\ pend' = [pend EXCEPT ![r] = {<<"dir", u>>}]
            /\ Goto(r, "remove")
            /\ UNCHANGED <<up, part, lock>>
       ELSE Return(r) /\ UNCHANGED <<uploads, chunkRow, files, completed, committed, due>>
  /\ UNCHANGED <<room, disk, cleanup, created, requests, faults>>

-----------------------------------------------------------------------------
(* DELETE .../uploads/{upload}                                             *)

AbortAuthorize(r) ==
  /\ pc[r] = "abortAuthorize"
  /\ IF Open(up[r])
       THEN Goto(r, "abortDelete") /\ UNCHANGED <<up, part, pend, lock>>
       ELSE Return(r)
  /\ UNCHANGED <<db, disk, cleanup, env, committed>>

AbortDelete(r) ==
  LET u == up[r] IN
  /\ pc[r] = "abortDelete"
  /\ IF u \in uploads
       THEN /\ DropRows({u}, {})
            /\ pend' = [pend EXCEPT ![r] = {<<"dir", u>>}]
            /\ Goto(r, "remove") /\ UNCHANGED <<up, part, lock>>
       ELSE Return(r) /\ UNCHANGED <<uploads, chunkRow, files, completed>>
  /\ UNCHANGED <<room, disk, cleanup, env, committed>>

-----------------------------------------------------------------------------
(* Deletions.  None of them takes the upload lock.                         *)

Payloads(us, fs) == ({"object"} \X fs) \cup ({"dir"} \X us)

Delete(r, us, fs) ==
  /\ pc[r] = "delete"
  /\ DropRows(us, fs)
  /\ pend' = [pend EXCEPT ![r] = Payloads(us, fs)]
  /\ Goto(r, "remove")
  /\ \/ due' = due \ {Room}
     \/ us \cup fs = {} /\ due' = due   \* nothing to delete: rolled back
  /\ UNCHANGED <<room, disk, up, part, lock, cleanup, created, requests, faults, committed>>

(* DeleteEntry, called by deleteEntry, consumeFile and the end of a        *)
(* download-once transfer.                                                 *)
DeleteEntry(r) ==
  \E e \in Entry :
    LET us == {u \in uploads : EntryOf[u] = e}
        fs == {f \in files : EntryOf[f] = e}
    IN  Delete(r, us, fs)

ClearRoom(r) == room /\ Delete(r, uploads, files)

DeleteFile(r) == \E f \in files : Delete(r, {}, {f})

(* removeDeletedObjects and the RemoveUpload that ends complete and abort: *)
(* an error is logged and the payload stays for a later pass.              *)
RemoveNext(r) ==
  /\ pc[r] = "remove"
  /\ \E x \in pend[r] :
       /\ pend' = [pend EXCEPT ![r] = @ \ {x}]
       /\ \/ RemovePayload(x) /\ UNCHANGED faults
          \/ Fault /\ UNCHANGED disk
  /\ UNCHANGED <<db, pc, up, part, lock, cleanup, due, created, requests, committed>>

RemoveDone(r) ==
  /\ pc[r] = "remove" /\ pend[r] = {}
  /\ Return(r)
  /\ UNCHANGED <<db, disk, cleanup, env, committed>>

(* A step before the payload removal may fail: the client disconnects, the *)
(* body stalls, the disk or the database reports an error.  The handler    *)
(* returns; Assemble and WriteChunk remove their temporary file.           *)
Fail(r) ==
  /\ pc[r] \in {"delete", "putAuthorize", "putWrite", "putLink", "putRecord", "completeLookup",
                "completeAuthorize", "completeReceived", "completeAssemble", "completeLink",
                "completeCommit", "abortAuthorize", "abortDelete"}
  /\ Fault
  /\ tmp' = [tmp EXCEPT ![r] = None]
  /\ Return(r)
  /\ UNCHANGED <<db, dirs, chunkFile, object, strays, cleanup, due, created, requests, committed>>

-----------------------------------------------------------------------------
(* The cleanup pass of runUploadCleanup, inside TryMaintenance.            *)

CleanupOnly == UNCHANGED <<request, created, requests, committed>>

(* Slip: the pass does not wait for the requests under way.                *)
CleanupStartSlip ==
  /\ maint = "idle"
  /\ maint' = "rooms"
  /\ UNCHANGED <<db, disk, request, mpend, refs, env, committed>>

(* Slip: no pass when nothing is due.                                      *)
CleanupStartDueSlip ==
  /\ maint = "idle" /\ due # {}
  /\ \A r \in Request : pc[r] = "idle"
  /\ maint' = "rooms"
  /\ UNCHANGED <<db, disk, request, mpend, refs, env, committed>>

CleanupStart ==
  /\ maint = "idle"
  /\ \A r \in Request : pc[r] = "idle"
  /\ maint' = "rooms"
  /\ UNCHANGED <<db, disk, request, mpend, refs, env, committed>>

(* DeleteExpiredRooms: everything of an idle room goes by cascade.         *)
CleanupRooms ==
  /\ maint = "rooms"
  /\ IF room /\ Room \in due
       THEN room' = FALSE /\ DropRows(uploads, files)
       ELSE UNCHANGED db
  /\ maint' = "entries"
  /\ UNCHANGED <<disk, mpend, refs, due, faults>> /\ CleanupOnly

DueEntries == {e \in Entry : e \in due}

(* DeleteExpiredEntries: one transaction per entry.  If one fails, the     *)
(* entries before it are gone and the caller does not learn their files.   *)
CleanupEntries ==
  /\ maint = "entries"
  /\ \E E \in SUBSET DueEntries :
       LET us == {u \in uploads : EntryOf[u] \in E}
           fs == {f \in files : EntryOf[f] \in E}
       IN  /\ DropRows(us, fs)
           /\ IF E = DueEntries
                THEN mpend' = Payloads(us, fs) /\ UNCHANGED faults
                ELSE mpend' = {} /\ Fault
  /\ maint' = "sweepEntries"
  /\ UNCHANGED <<room, disk, refs, due>> /\ CleanupOnly

(* DeleteExpiredUploads.  The pass ends here if a statement fails.         *)
CleanupUploads ==
  /\ maint = "uploads"
  /\ \E U \in SUBSET (uploads \cap due) :
       /\ uploads' = uploads \ U
       /\ chunkRow' = [u \in Upload |-> IF u \in U THEN NoChunks ELSE chunkRow[u]]
       /\ IF U = uploads \cap due
            THEN mpend' = Payloads(U, {}) /\ maint' = "sweepUploads" /\ UNCHANGED faults
            ELSE mpend' = {} /\ maint' = "idle" /\ Fault
  /\ completed' = completed \ due
  /\ UNCHANGED <<files, room, disk, refs, due>> /\ CleanupOnly

CleanupRemove ==
  /\ maint \in {"sweepEntries", "sweepUploads"}
  /\ \E x \in mpend :
       /\ mpend' = mpend \ {x}
       /\ \/ RemovePayload(x) /\ UNCHANGED faults
          \/ Fault /\ UNCHANGED disk
  /\ UNCHANGED <<db, maint, refs, due>> /\ CleanupOnly

CleanupRemoved ==
  /\ maint \in {"sweepEntries", "sweepUploads"} /\ mpend = {}
  /\ maint' = IF maint = "sweepEntries" THEN "uploads" ELSE "references"
  /\ UNCHANGED <<db, disk, mpend, refs, due, faults>> /\ CleanupOnly

(* StorageReferences: an active upload also owns its future object.        *)
CleanupReferences ==
  /\ maint = "references"
  /\ refs' = [uploads |-> uploads, objects |-> uploads \cup files]
  /\ maint' = "reconcile"
  /\ UNCHANGED <<db, disk, mpend, due, faults>> /\ CleanupOnly

(* Reconcile removes every directory and every file under objects/ that    *)
(* the snapshot does not name, temporary objects included.                 *)
CleanupReconcile ==
  /\ maint = "reconcile"
  /\ DropDirs(Upload \ refs.uploads)
  /\ DropObjects(Upload \ refs.objects)
  /\ tmp' = [r \in Request |-> None]
  /\ strays' = FALSE
  /\ maint' = "swept"
  /\ UNCHANGED <<db, mpend, refs, due, faults>> /\ CleanupOnly

CleanupEnd ==
  /\ maint = "swept"
  /\ maint' = "idle" /\ refs' = NoRefs
  /\ UNCHANGED <<db, disk, mpend, due, faults>> /\ CleanupOnly

(* Errors that end the pass early or skip a step of it.                    *)
CleanupFail ==
  /\ Fault
  /\ \/ maint = "rooms" /\ maint' = "entries"
     \/ maint \in {"uploads", "references", "reconcile"} /\ maint' = "idle"
  /\ refs' = NoRefs
  /\ UNCHANGED <<db, disk, mpend, due>> /\ CleanupOnly

Cleanup ==
  \/ CleanupRooms \/ CleanupEntries \/ CleanupUploads \/ CleanupRemove \/ CleanupRemoved
  \/ CleanupReferences \/ CleanupReconcile \/ CleanupEnd

-----------------------------------------------------------------------------
(* Environment                                                             *)

(* A deadline passes: of an upload, of an entry, of the inactive room.     *)
Expire ==
  /\ \E x \in (created \cup Entry \cup {Room}) \ due : due' = due \cup {x}
  /\ UNCHANGED <<db, disk, request, cleanup, created, requests, faults, committed>>

(* The process dies and is started again: requests, locks and the pass are *)
(* gone, temporary objects stay behind.                                    *)
Crash ==
  /\ Fault
  /\ strays' = (strays \/ \E r \in Request : tmp[r] # None)
  /\ tmp' = [r \in Request |-> None]
  /\ pc' = [r \in Request |-> "idle"]
  /\ up' = [r \in Request |-> None]
  /\ part' = [r \in Request |-> None]
  /\ pend' = [r \in Request |-> {}]
  /\ lock' = [s \in Stripe |-> None]
  /\ maint' = "idle" /\ mpend' = {} /\ refs' = NoRefs
  /\ UNCHANGED <<db, dirs, chunkFile, object, due, created, requests, committed>>

-----------------------------------------------------------------------------
Put(r) == PutAuthorize(r) \/ PutWrite(r) \/ PutLink(r) \/ PutRecord(r) \/ PutUndo(r)

Complete(r) ==
  \/ CompleteLookup(r) \/ CompleteAuthorize(r) \/ CompleteReceived(r) \/ CompleteMissing(r)
  \/ CompleteAssemble(r) \/ CompleteLink(r) \/ CompleteCommit(r)

Abort(r) == AbortAuthorize(r) \/ AbortDelete(r)

DeleteRows(r) == DeleteEntry(r) \/ ClearRoom(r) \/ DeleteFile(r)

Handle(r) ==
  \/ LockUpload(r) \/ Put(r) \/ Complete(r) \/ Abort(r) \/ DeleteRows(r)
  \/ RemoveNext(r) \/ RemoveDone(r)

Next ==
  \/ \E u \in Upload : CreateUpload(u)
  \/ \E r \in Request : BeginUploadRequest(r) \/ BeginDelete(r) \/ Handle(r) \/ Fail(r)
  \/ CleanupStart \/ Cleanup \/ CleanupFail
  \/ Expire \/ Crash

Spec == Init /\ [][Next]_vars

(* A handler that can take a step takes it: bodies that stall are cut off  *)
(* by the idle deadline of the transfer, and Go's mutexes are fair enough  *)
(* for finitely many requests.  The cleanup ticker never stops.            *)
Fairness ==
  /\ \A r \in Request : WF_vars(Handle(r))
  /\ WF_vars(CleanupStart) /\ WF_vars(Cleanup)

FairSpec == Spec /\ Fairness

-----------------------------------------------------------------------------
(* Properties                                                              *)

(* The uploads whose clients keep the protocol: the nonce header repeats   *)
(* the first bytes of the chunk.  Plain uploads are all among them.        *)
Careful == Upload \ WrongNonce

(* Every row of files has its object, and the object holds exactly the     *)
(* chunks whose digests were recorded when the row was committed: no       *)
(* retry, deletion, cleanup pass or crash loses or changes a stored file.  *)
StoredFileIntact == \A f \in files \cap Careful : object[f] = committed[f]

(* A recorded chunk stays on disk, with the recorded digest, for as long   *)
(* as the session lives: the status a client resumes from is true, and a   *)
(* repeated PUT changes nothing.                                           *)
RecordedChunkKept ==
  \A u \in uploads \cap Careful, c \in Chunk :
    chunkRow[u][c] # None => chunkFile[u][c] = chunkRow[u][c]

(* An object left behind by a completion that failed after linking it      *)
(* never blocks the retry: it equals what the retry assembles.             *)
LeftoverObjectAgrees ==
  \A u \in uploads \cap Careful :
    object[u] # None => AllRecorded(u) /\ object[u] = chunkRow[u]

(* A client that repeats complete is not told the upload does not exist    *)
(* while its completion is on record, however the two requests overlap.    *)
NoFalseMissing ==
  \A r \in Request :
    pc[r] = "completeMissing" => up[r] \notin completed \/ up[r] \in due

(* What a pass swept clean stays referenced only: at its end no directory, *)
(* object or temporary file is left that no row of the database names.     *)
SweptClean ==
  maint = "swept" =>
    /\ dirs \subseteq uploads
    /\ \A u \in Upload : object[u] # None => u \in uploads \cup files
    /\ ~strays /\ \A r \in Request : tmp[r] = None

(* Once an upload has been aborted, deleted or expired, or a file deleted, *)
(* no handler already past its checks brings it back.                      *)
DeletedStaysDeleted ==
  [][\A u \in created : u \notin uploads \cup files => u \notin uploads' \cup files']_vars

(* Payloads nobody refers to any more are removed in the end, provided     *)
(* requests and faults cease: the cleanup needs a moment without requests. *)
Orphan(u) ==
  \/ u \in dirs /\ u \notin uploads
  \/ object[u] # None /\ u \notin uploads \cup files
OrphansSwept ==
  /\ \A u \in Upload : Orphan(u) ~> ~Orphan(u)
  /\ strays ~> ~strays

-----------------------------------------------------------------------------
(* The inductive invariant behind these properties.                        *)

Locked == (PutStep \cup CompleteStep \cup AbortStep) \ {"putLock", "completeLock", "abortLock"}

(* The two locks do their work.                                            *)
LocksHeld ==
  /\ maint # "idle" => \A r \in Request : pc[r] = "idle"
  /\ \A r \in Request :
       /\ pc[r] \in PutStep \cup CompleteStep \cup AbortStep => up[r] \in created
       /\ pc[r] \in Locked => lock[StripeOf[up[r]]] = r

(* Ids live in one table at a time and only after they were drawn.         *)
RowsApart ==
  /\ uploads \cup files \subseteq created
  /\ uploads \cap files = {} /\ completed \subseteq files
  /\ \A u \in Upload \ created : chunkRow[u] = NoChunks /\ object[u] = None

(* Whatever waits for removal is dead, and ids never come back to life.    *)
Dead(x) ==
  /\ x[2] \in created /\ x[2] \notin uploads
  /\ x[1] = "object" => x[2] \notin files

PendingDead ==
  /\ \A x \in mpend : Dead(x)
  /\ \A r \in Request : \A x \in pend[r] : Dead(x)

RefsCurrent ==
  /\ maint = "reconcile" => refs = [uploads |-> uploads, objects |-> uploads \cup files]
  /\ \A r \in Request : tmp[r] # None => pc[r] = "completeLink"

(* What a putChunk knows between linking the file and recording it.        *)
PutKnowsAt(r) ==
  LET u == up[r]  c == part[r].chunk  b == part[r].body IN
  pc[r] \in {"putLink", "putRecord", "putUndo"} =>
    /\ part[r] \in Part
    /\ u \in Careful => part[r].header = b
    /\ pc[r] = "putRecord" /\ u \in uploads => chunkFile[u][c] = b
    /\ pc[r] = "putUndo" /\ u \in uploads \cap Careful => chunkRow[u][c] = None

PutKnows == \A r \in Request : PutKnowsAt(r)

(* What a completeUpload knows between its checks and its commit.          *)
CompleteKnowsAt(r) ==
  LET u == up[r] IN
  /\ pc[r] \in {"completeAssemble", "completeLink", "completeCommit"} /\ u \in uploads
       => AllRecorded(u)
  /\ pc[r] = "completeLink" /\ u \in uploads \cap Careful => tmp[r] = chunkRow[u]
  /\ pc[r] = "completeCommit" /\ u \in uploads => object[u] \in Content
  /\ pc[r] = "completeCommit" /\ u \in uploads \cap Careful => object[u] = chunkRow[u]
  /\ pc[r] \in {"completeAuthorize", "completeMissing"} => u \notin completed \/ u \in due

CompleteKnows == \A r \in Request : CompleteKnowsAt(r)

StoredFilePresent == \A f \in files : object[f] \in Content /\ committed[f] \in Content

IInv ==
  /\ TypeOK /\ LocksHeld /\ RowsApart /\ PendingDead /\ RefsCurrent
  /\ PutKnows /\ CompleteKnows
  /\ StoredFilePresent /\ StoredFileIntact /\ RecordedChunkKept /\ LeftoverObjectAgrees
  /\ SweptClean

-----------------------------------------------------------------------------
(* The promise to a reader of the room, see StoredFile.                    *)
Stage(u) ==
  IF u \in files THEN "stored"
  ELSE IF u \in uploads THEN "open"
  ELSE IF u \in created THEN "gone" ELSE "unborn"

Promise == INSTANCE StoredFile WITH
  File <- Upload, Value <- Content,
  stage <- [u \in Upload |-> Stage(u)],
  bytes <- [u \in Upload |-> IF u \in files THEN object[u] ELSE None]

ImplementsPromise == Promise!Spec
=============================================================================
