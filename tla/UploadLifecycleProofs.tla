------------------------ MODULE UploadLifecycleProofs ------------------------
EXTENDS UploadLifecycle, TLAPS

USE ConstantsAssumption DEF db, disk, request, cleanup, env

(***************************************************************************)
(* Lemmas about the building blocks                                        *)
(***************************************************************************)

(* A request that a step of another request leaves alone.                  *)
Untouched(q) ==
  pc'[q] = pc[q] /\ up'[q] = up[q] /\ part'[q] = part[q] /\ pend'[q] = pend[q]

(* A handler that goes on to its next step moves nobody else.              *)
LEMMA GotoEffect ==
  ASSUME RequestTypeOK, NEW r \in Request, NEW s \in Step, Goto(r, s)
  PROVE  /\ pc' \in [Request -> Step]
         /\ pc'[r] = s
         /\ \A q \in Request \ {r} : pc'[q] = pc[q]
BY DEF RequestTypeOK, Goto

(* A handler that returns forgets its own data and frees its own mutexes.  *)
LEMMA ReturnEffect ==
  ASSUME RequestTypeOK, NEW r \in Request, Return(r)
  PROVE  /\ RequestTypeOK'
         /\ pc'[r] = "idle" /\ up'[r] = None /\ part'[r] = None /\ pend'[r] = {}
         /\ \A q \in Request \ {r} : Untouched(q)
         /\ \A s \in Stripe : lock[s] # r => lock'[s] = lock[s]
<1>1. /\ pc' \in [Request -> Step] /\ up' \in [Request -> Upload \cup {None}]
      /\ part' \in [Request -> Part \cup {None}] /\ pend' \in [Request -> SUBSET Payload]
  BY DEF RequestTypeOK, Return, Step
<1>2. lock' \in [Stripe -> Request \cup {None}]
  BY DEF RequestTypeOK, Return
<1>3. pc'[r] = "idle" /\ up'[r] = None /\ part'[r] = None /\ pend'[r] = {}
  BY DEF RequestTypeOK, Return
<1>4. \A q \in Request \ {r} : Untouched(q)
  BY DEF RequestTypeOK, Return, Untouched
<1>5. \A s \in Stripe : lock[s] # r => lock'[s] = lock[s]
  BY DEF RequestTypeOK, Return
<1> QED BY <1>1, <1>2, <1>3, <1>4, <1>5 DEF RequestTypeOK

(* What an object or a directory on a removal list is the payload of.      *)
LEMMA PayloadsAre ==
  ASSUME NEW us, NEW fs, NEW x \in Payloads(us, fs)
  PROVE  \/ x[1] = "object" /\ x[2] \in fs
         \/ x[1] = "dir" /\ x[2] \in us
BY DEF Payloads

(* What every deleting handler has in common.                              *)
LEMMA DeleteShape ==
  ASSUME NEW r \in Request, DeleteRows(r)
  PROVE  \E us \in SUBSET uploads, fs \in SUBSET files : Delete(r, us, fs)
<1>1. CASE DeleteEntry(r)
  <2>1. PICK e \in Entry : Delete(r, {u \in uploads : EntryOf[u] = e}, {f \in files : EntryOf[f] = e})
    BY <1>1 DEF DeleteEntry
  <2> QED BY <2>1
<1>2. CASE ClearRoom(r)
  BY <1>2 DEF ClearRoom
<1>3. CASE DeleteFile(r)
  <2>1. PICK f \in files : Delete(r, {}, {f})
    BY <1>3 DEF DeleteFile
  <2> QED BY <2>1
<1> QED BY <1>1, <1>2, <1>3 DEF DeleteRows

(* Steps that only move a request or the cleanup pass along.               *)
QuietStep ==
  \/ \E r \in Request :
       \/ BeginUploadRequest(r) \/ BeginDelete(r) \/ LockUpload(r) \/ PutAuthorize(r)
       \/ CompleteLookup(r) \/ CompleteAuthorize(r) \/ CompleteReceived(r)
       \/ CompleteMissing(r) \/ AbortAuthorize(r) \/ RemoveDone(r)
  \/ CleanupStart \/ CleanupRemoved \/ CleanupReferences \/ CleanupEnd \/ CleanupFail \/ Expire

(* Such a step changes neither the database nor the disk.                  *)
LEMMA QuietEffect == QuietStep => UNCHANGED <<db, disk, created, committed>>
<1>1. ASSUME NEW r \in Request,
             \/ BeginUploadRequest(r) \/ BeginDelete(r) \/ LockUpload(r) \/ PutAuthorize(r)
             \/ CompleteLookup(r) \/ CompleteAuthorize(r) \/ CompleteReceived(r)
             \/ CompleteMissing(r) \/ AbortAuthorize(r) \/ RemoveDone(r)
      PROVE  UNCHANGED <<db, disk, created, committed>>
  BY <1>1 DEF BeginUploadRequest, BeginDelete, Begin, LockUpload, PutAuthorize,
     CompleteLookup, CompleteAuthorize, CompleteReceived, CompleteMissing, AbortAuthorize,
     RemoveDone, env
<1>2. ASSUME CleanupStart \/ CleanupRemoved \/ CleanupReferences \/ CleanupEnd \/ CleanupFail \/ Expire
      PROVE  UNCHANGED <<db, disk, created, committed>>
  BY <1>2 DEF CleanupStart, CleanupRemoved, CleanupReferences, CleanupEnd, CleanupFail,
     Expire, CleanupOnly, env
<1> QED BY <1>1, <1>2 DEF QuietStep

(* Ids on their way to removal stay dead, whatever else happens.           *)
LEMMA DeadStaysDead ==
  ASSUME NEW x, Dead(x), uploads' \subseteq uploads, files' \subseteq files \cup uploads,
         created \subseteq created'
  PROVE  Dead(x)'
BY DEF Dead

(* Setting one chunk changes that chunk only.                              *)
LEMMA SetChunk ==
  ASSUME NEW f \in [Upload -> Partial], NEW u \in Upload, NEW c \in Chunk, NEW b \in Body \cup {None}
  PROVE  LET g == [f EXCEPT ![u][c] = b] IN
         /\ g \in [Upload -> Partial]
         /\ g[u][c] = b
         /\ \A v \in Upload, d \in Chunk : v # u \/ d # c => g[v][d] = f[v][d]
<1>1. [f[u] EXCEPT ![c] = b] \in Partial
  BY DEF Partial
<1> QED BY <1>1 DEF Partial

(* An upload with a digest recorded for every chunk has a content.         *)
LEMMA RecordedContent ==
  ASSUME DatabaseTypeOK, NEW u \in Upload, AllRecorded(u)
  PROVE  chunkRow[u] \in Content
<1>1. chunkRow[u] \in Partial
  BY DEF DatabaseTypeOK
<1> QED BY <1>1 DEF AllRecorded, Partial, Content

(* An upload without chunks is well-typed.                                 *)
LEMMA NoChunksTyped == NoChunks \in Partial
BY DEF NoChunks, Partial

(* The rows that survive a deletion are well-typed.                        *)
LEMMA DropRowsTyped ==
  ASSUME DatabaseTypeOK, NEW us, NEW fs, DropRows(us, fs), room' \in BOOLEAN
  PROVE  DatabaseTypeOK'
BY NoChunksTyped DEF DropRows, DatabaseTypeOK

(* The payload of a set of rows is well-typed.                             *)
LEMMA PayloadsTyped ==
  ASSUME NEW us \in SUBSET Upload, NEW fs \in SUBSET Upload
  PROVE  Payloads(us, fs) \subseteq Payload
BY DEF Payloads, Payload

(* A step on the disk that takes nothing the database still refers to.     *)
SparesTheLiving ==
  /\ \A u \in Upload : object'[u] \in {object[u], None}
  /\ \A u \in uploads \cup files : object'[u] = object[u]
  /\ \A u \in uploads : chunkFile'[u] = chunkFile[u]

(* Removing a payload that is dead spares the living.                      *)
LEMMA RemovalEffect ==
  ASSUME DatabaseTypeOK, DiskTypeOK, NEW x \in Payload, Dead(x), RemovePayload(x)
  PROVE  DiskTypeOK' /\ SparesTheLiving
<1>1. DiskTypeOK'
  BY NoChunksTyped DEF RemovePayload, DropDirs, DropObjects, DiskTypeOK
<1>2. SparesTheLiving
  BY DEF RemovePayload, DropDirs, DropObjects, DiskTypeOK, DatabaseTypeOK, Dead,
     SparesTheLiving, Payload
<1> QED BY <1>1, <1>2

(* So does the reconciliation, because its snapshot is current.            *)
LEMMA ReconcileEffect ==
  ASSUME DatabaseTypeOK, DiskTypeOK, RefsCurrent, CleanupReconcile
  PROVE  DiskTypeOK' /\ SparesTheLiving
<1>1. refs.uploads = uploads /\ refs.objects = uploads \cup files
  BY DEF CleanupReconcile, RefsCurrent
<1>2. DiskTypeOK'
  BY NoChunksTyped DEF CleanupReconcile, DropDirs, DropObjects, DiskTypeOK
<1>3. SparesTheLiving
  BY <1>1 DEF CleanupReconcile, DropDirs, DropObjects, DiskTypeOK, DatabaseTypeOK,
     SparesTheLiving
<1> QED BY <1>2, <1>3

(* A handler that goes on keeps the request variables well-typed.          *)
LEMMA GotoTyped ==
  ASSUME RequestTypeOK, NEW r \in Request, NEW s \in Step, Goto(r, s), UNCHANGED <<up, part, pend, lock>>
  PROVE  RequestTypeOK'
BY DEF RequestTypeOK, Goto

(* Every step keeps the types.                                             *)
LEMMA TypeStep == IInv /\ [Next]_vars => TypeOK'
<1> SUFFICES ASSUME IInv, [Next]_vars PROVE TypeOK'
  OBVIOUS
<1>t. DatabaseTypeOK /\ DiskTypeOK /\ RequestTypeOK /\ CleanupTypeOK /\ HistoryTypeOK
  BY DEF IInv, TypeOK
<1>i. LocksHeld /\ RowsApart /\ PutKnows /\ PendingDead /\ RefsCurrent
  BY DEF IInv
<1>1. ASSUME NEW v \in Upload, CreateUpload(v) PROVE TypeOK'
  BY <1>t, <1>1 DEF CreateUpload, TypeOK, Return, CleanupStep, NoChunks, NoRefs, Partial,
     Payload, DatabaseTypeOK, DiskTypeOK, RequestTypeOK, CleanupTypeOK, HistoryTypeOK
<1>2. ASSUME NEW r \in Request, BeginUploadRequest(r) PROVE TypeOK'
  BY <1>t, <1>2 DEF BeginUploadRequest, Begin, TypeOK, Goto, Return, CleanupStep, NoChunks,
     NoRefs, Partial, Payload, Step, PutStep, CompleteStep, AbortStep, DatabaseTypeOK,
     DiskTypeOK, RequestTypeOK, CleanupTypeOK, HistoryTypeOK
<1>3. ASSUME NEW r \in Request, BeginDelete(r) PROVE TypeOK'
  BY <1>t, <1>3 DEF BeginDelete, Begin, TypeOK, Goto, Return, CleanupStep, NoChunks,
     NoRefs, Partial, Payload, Step, PutStep, CompleteStep, AbortStep, DatabaseTypeOK,
     DiskTypeOK, RequestTypeOK, CleanupTypeOK, HistoryTypeOK
<1>4. ASSUME NEW r \in Request, LockUpload(r) PROVE TypeOK'
  BY <1>t, <1>4 DEF LockUpload, TypeOK, Goto, Return, CleanupStep, NoChunks, NoRefs,
     Partial, Payload, Step, PutStep, CompleteStep, AbortStep, DatabaseTypeOK, DiskTypeOK,
     RequestTypeOK, CleanupTypeOK, HistoryTypeOK
<1>5. ASSUME NEW r \in Request, PutAuthorize(r) PROVE TypeOK'
  <2>1. RequestTypeOK'
    BY <1>t, <1>5, GotoTyped, ReturnEffect DEF PutAuthorize, Step, PutStep, CompleteStep,
       AbortStep
  <2> QED BY <1>t, <1>5, <2>1 DEF TypeOK, PutAuthorize, DatabaseTypeOK, DiskTypeOK,
     CleanupTypeOK, HistoryTypeOK
<1>6. ASSUME NEW r \in Request, CompleteLookup(r) PROVE TypeOK'
  <2>1. RequestTypeOK'
    BY <1>t, <1>6, GotoTyped, ReturnEffect DEF CompleteLookup, Step, PutStep, CompleteStep,
       AbortStep
  <2> QED BY <1>t, <1>6, <2>1 DEF TypeOK, CompleteLookup, DatabaseTypeOK, DiskTypeOK,
     CleanupTypeOK, HistoryTypeOK
<1>7. ASSUME NEW r \in Request, CompleteAuthorize(r) PROVE TypeOK'
  <2>1. RequestTypeOK'
    BY <1>t, <1>7, GotoTyped, ReturnEffect DEF CompleteAuthorize, Step, PutStep,
       CompleteStep, AbortStep
  <2> QED BY <1>t, <1>7, <2>1 DEF TypeOK, CompleteAuthorize, DatabaseTypeOK, DiskTypeOK,
     CleanupTypeOK, HistoryTypeOK
<1>8. ASSUME NEW r \in Request, CompleteReceived(r) PROVE TypeOK'
  <2>1. RequestTypeOK'
    BY <1>t, <1>8, GotoTyped, ReturnEffect DEF CompleteReceived, Step, PutStep,
       CompleteStep, AbortStep
  <2> QED BY <1>t, <1>8, <2>1 DEF TypeOK, CompleteReceived, DatabaseTypeOK, DiskTypeOK,
     CleanupTypeOK, HistoryTypeOK
<1>9. ASSUME NEW r \in Request, CompleteMissing(r) PROVE TypeOK'
  <2>1. RequestTypeOK'
    BY <1>t, <1>9, ReturnEffect DEF CompleteMissing
  <2> QED BY <1>t, <1>9, <2>1 DEF TypeOK, CompleteMissing, DatabaseTypeOK, DiskTypeOK,
     CleanupTypeOK, HistoryTypeOK
<1>10. ASSUME NEW r \in Request, AbortAuthorize(r) PROVE TypeOK'
  <2>1. RequestTypeOK'
    BY <1>t, <1>10, GotoTyped, ReturnEffect DEF AbortAuthorize, Step, PutStep,
       CompleteStep, AbortStep
  <2> QED BY <1>t, <1>10, <2>1 DEF TypeOK, AbortAuthorize, DatabaseTypeOK, DiskTypeOK,
     CleanupTypeOK, HistoryTypeOK
<1>11. ASSUME NEW r \in Request, RemoveDone(r) PROVE TypeOK'
  BY <1>t, <1>11 DEF RemoveDone, TypeOK, Return, CleanupStep, NoChunks, NoRefs, Partial,
     Payload, Step, PutStep, CompleteStep, AbortStep, DatabaseTypeOK, DiskTypeOK,
     RequestTypeOK, CleanupTypeOK, HistoryTypeOK
<1>12. ASSUME NEW r \in Request, PutWrite(r) PROVE TypeOK'
  <2>1. PICK p \in Part : part' = [part EXCEPT ![r] = p]
    BY <1>12 DEF PutWrite
  <2>2. RequestTypeOK'
    BY <1>t, <1>12, GotoEffect DEF PutWrite, RequestTypeOK, Step, PutStep
  <2>3. up[r] \in Upload
    BY <1>t, <1>i, <1>12 DEF PutWrite, LocksHeld, HistoryTypeOK, PutStep, CompleteStep,
       AbortStep
  <2> QED BY <1>t, <1>12, <2>2, <2>3 DEF TypeOK, PutWrite, DatabaseTypeOK, DiskTypeOK,
     CleanupTypeOK, HistoryTypeOK
<1>13. ASSUME NEW r \in Request, PutLink(r) PROVE TypeOK'
  <2>1. RequestTypeOK'
    BY <1>t, <1>13, GotoTyped, ReturnEffect DEF PutLink, Step, PutStep
  <2>2. up[r] \in Upload
    BY <1>t, <1>i, <1>13 DEF PutLink, LocksHeld, HistoryTypeOK, PutStep, CompleteStep,
       AbortStep
  <2>3. part[r].chunk \in Chunk /\ part[r].body \in Body
    BY <1>i, <1>13 DEF PutLink, PutKnows, PutKnowsAt, Part
  <2>4. chunkFile' \in [Upload -> Partial]
    BY <1>t, <1>13, <2>3, SetChunk DEF PutLink, DiskTypeOK
  <2> QED BY <1>t, <1>13, <2>1, <2>4 DEF TypeOK, PutLink, DatabaseTypeOK, DiskTypeOK,
     CleanupTypeOK, HistoryTypeOK
<1>14. ASSUME NEW r \in Request, PutRecord(r) PROVE TypeOK'
  <2>1. RequestTypeOK'
    BY <1>t, <1>14, GotoTyped, ReturnEffect DEF PutRecord, Step, PutStep
  <2>2. up[r] \in Upload
    BY <1>t, <1>i, <1>14 DEF PutRecord, LocksHeld, HistoryTypeOK, PutStep, CompleteStep,
       AbortStep
  <2>3. part[r].chunk \in Chunk /\ part[r].body \in Body
    BY <1>i, <1>14 DEF PutRecord, PutKnows, PutKnowsAt, Part
  <2>4. chunkRow' \in [Upload -> Partial]
    BY <1>t, <1>14, <2>3, SetChunk DEF PutRecord, DatabaseTypeOK
  <2> QED BY <1>t, <1>14, <2>1, <2>4 DEF TypeOK, PutRecord, DatabaseTypeOK, DiskTypeOK,
     CleanupTypeOK, HistoryTypeOK
<1>15. ASSUME NEW r \in Request, PutUndo(r) PROVE TypeOK'
  <2>1. RequestTypeOK'
    BY <1>t, <1>15, ReturnEffect DEF PutUndo
  <2>2. up[r] \in Upload
    BY <1>t, <1>i, <1>15 DEF PutUndo, LocksHeld, HistoryTypeOK, PutStep, CompleteStep,
       AbortStep
  <2>3. part[r].chunk \in Chunk /\ part[r].body \in Body
    BY <1>i, <1>15 DEF PutUndo, PutKnows, PutKnowsAt, Part
  <2>4. chunkFile' \in [Upload -> Partial]
    BY <1>t, <1>15, <2>2, <2>3, SetChunk DEF PutUndo, DiskTypeOK
  <2> QED BY <1>t, <1>15, <2>1, <2>4 DEF TypeOK, PutUndo, DatabaseTypeOK, DiskTypeOK,
     CleanupTypeOK, HistoryTypeOK
<1>16. ASSUME NEW r \in Request, CompleteAssemble(r) PROVE TypeOK'
  <2>1. RequestTypeOK'
    BY <1>t, <1>16, GotoTyped, ReturnEffect DEF CompleteAssemble, Step, CompleteStep
  <2>2. up[r] \in Upload
    BY <1>t, <1>i, <1>16 DEF CompleteAssemble, LocksHeld, HistoryTypeOK, CompleteStep
  <2>3. tmp' \in [Request -> Content \cup {None}]
    <3>1. chunkFile[up[r]] \in Partial
      BY <1>t, <2>2 DEF DiskTypeOK
    <3>2. CASE \A c \in Chunk : chunkFile[up[r]][c] # None
      <4>1. chunkFile[up[r]] \in Content
        BY <3>1, <3>2 DEF Partial, Content
      <4> QED BY <1>t, <1>16, <3>2, <4>1 DEF CompleteAssemble, DiskTypeOK
    <3>3. CASE ~\A c \in Chunk : chunkFile[up[r]][c] # None
      BY <1>t, <1>16, <3>3 DEF CompleteAssemble, DiskTypeOK
    <3> QED BY <3>2, <3>3
  <2> QED BY <1>t, <1>16, <2>1, <2>3 DEF TypeOK, CompleteAssemble, DatabaseTypeOK,
     DiskTypeOK, CleanupTypeOK, HistoryTypeOK
<1>17. ASSUME NEW r \in Request, CompleteLink(r) PROVE TypeOK'
  <2>1. RequestTypeOK'
    BY <1>t, <1>17, GotoTyped, ReturnEffect DEF CompleteLink, Step, CompleteStep
  <2> QED BY <1>t, <1>17, <2>1 DEF TypeOK, CompleteLink, DatabaseTypeOK, DiskTypeOK,
     CleanupTypeOK, HistoryTypeOK
<1>18. ASSUME NEW r \in Request, CompleteCommit(r) PROVE TypeOK'
  <2>1. up[r] \in Upload
    BY <1>t, <1>i, <1>18 DEF CompleteCommit, LocksHeld, HistoryTypeOK, PutStep,
       CompleteStep, AbortStep
  <2>2. CASE up[r] \in uploads /\ AllRecorded(up[r]) /\ up[r] \notin files
    <3>1. RequestTypeOK'
      <4>1. pend' \in [Request -> SUBSET Payload]
        BY <1>t, <1>18, <2>1, <2>2 DEF CompleteCommit, RequestTypeOK, Payload
      <4>2. pc' \in [Request -> Step]
        BY <1>t, <1>18, <2>2, GotoEffect DEF CompleteCommit, Step
      <4> QED BY <1>t, <1>18, <2>2, <4>1, <4>2 DEF CompleteCommit, RequestTypeOK
    <3>2. DatabaseTypeOK'
      BY <1>t, <1>18, NoChunksTyped DEF CompleteCommit, DatabaseTypeOK
    <3>3. HistoryTypeOK'
      BY <1>t, <1>18, RecordedContent DEF CompleteCommit, HistoryTypeOK
    <3> QED BY <1>t, <1>18, <3>1, <3>2, <3>3 DEF TypeOK, CompleteCommit, DiskTypeOK,
       CleanupTypeOK, DatabaseTypeOK
  <2>3. CASE ~(up[r] \in uploads /\ AllRecorded(up[r]) /\ up[r] \notin files)
    <3>1. RequestTypeOK'
      BY <1>t, <1>18, <2>3, ReturnEffect DEF CompleteCommit
    <3> QED BY <1>t, <1>18, <2>3, <3>1 DEF TypeOK, CompleteCommit, DatabaseTypeOK,
       DiskTypeOK, CleanupTypeOK, HistoryTypeOK
  <2> QED BY <2>2, <2>3
<1>19. ASSUME NEW r \in Request, AbortDelete(r) PROVE TypeOK'
  <2>1. up[r] \in Upload
    BY <1>t, <1>i, <1>19 DEF AbortDelete, LocksHeld, HistoryTypeOK, PutStep, CompleteStep,
       AbortStep
  <2>2. CASE up[r] \in uploads
    <3>1. RequestTypeOK'
      <4>1. pend' \in [Request -> SUBSET Payload]
        BY <1>t, <1>19, <2>1, <2>2 DEF AbortDelete, RequestTypeOK, Payload
      <4>2. pc' \in [Request -> Step]
        BY <1>t, <1>19, <2>2, GotoEffect DEF AbortDelete, Step
      <4> QED BY <1>t, <1>19, <2>2, <4>1, <4>2 DEF AbortDelete, RequestTypeOK
    <3>2. DatabaseTypeOK'
      BY <1>t, <1>19, DropRowsTyped DEF AbortDelete, DatabaseTypeOK
    <3> QED BY <1>t, <1>19, <3>1, <3>2 DEF TypeOK, AbortDelete, DiskTypeOK, CleanupTypeOK,
       HistoryTypeOK, DatabaseTypeOK
  <2>3. CASE up[r] \notin uploads
    <3>1. RequestTypeOK'
      BY <1>t, <1>19, <2>3, ReturnEffect DEF AbortDelete
    <3> QED BY <1>t, <1>19, <2>3, <3>1 DEF TypeOK, AbortDelete, DatabaseTypeOK, DiskTypeOK,
       CleanupTypeOK, HistoryTypeOK
  <2> QED BY <2>2, <2>3
<1>20. ASSUME NEW r \in Request, DeleteRows(r) PROVE TypeOK'
  <2>1. PICK us \in SUBSET uploads, fs \in SUBSET files : Delete(r, us, fs)
    BY <1>20, DeleteShape
  <2>2. DatabaseTypeOK'
    BY <1>t, <2>1, DropRowsTyped DEF Delete, DatabaseTypeOK
  <2>3. RequestTypeOK'
    <3>1. Payloads(us, fs) \subseteq Payload
      BY <1>t, PayloadsTyped DEF DatabaseTypeOK
    <3>2. pc' \in [Request -> Step]
      BY <1>t, <2>1, GotoEffect DEF Delete, Step
    <3> QED BY <1>t, <2>1, <3>1, <3>2 DEF Delete, RequestTypeOK
  <2> QED BY <1>t, <2>1, <2>2, <2>3 DEF TypeOK, Delete, DiskTypeOK, CleanupTypeOK,
     HistoryTypeOK
<1>21. ASSUME NEW r \in Request, RemoveNext(r) PROVE TypeOK'
  <2>1. PICK x \in pend[r] : /\ pend' = [pend EXCEPT ![r] = @ \ {x}]
                             /\ \/ RemovePayload(x) /\ UNCHANGED faults
                                \/ Fault /\ UNCHANGED disk
    BY <1>21 DEF RemoveNext
  <2>2. DiskTypeOK'
    <3>1. x \in Payload /\ Dead(x)
      BY <1>t, <1>i DEF RequestTypeOK, PendingDead
    <3>2. CASE RemovePayload(x)
      BY <1>t, <3>1, <3>2, RemovalEffect
    <3>3. CASE UNCHANGED disk
      BY <1>t, <3>3 DEF DiskTypeOK
    <3> QED BY <2>1, <3>2, <3>3
  <2>3. faults' \in Nat
    BY <1>t, <2>1 DEF HistoryTypeOK, Fault
  <2> QED BY <1>t, <1>21, <2>2, <2>3 DEF TypeOK, RemoveNext, DatabaseTypeOK, RequestTypeOK,
     CleanupTypeOK, HistoryTypeOK
<1>22. ASSUME NEW r \in Request, Fail(r) PROVE TypeOK'
  BY <1>t, <1>22 DEF Fail, Fault, TypeOK, Goto, Return, CleanupStep, NoChunks, NoRefs,
     Partial, Payload, Step, PutStep, CompleteStep, AbortStep, DatabaseTypeOK, DiskTypeOK,
     RequestTypeOK, CleanupTypeOK, HistoryTypeOK
<1>23. CASE CleanupStart
  BY <1>t, <1>23 DEF CleanupStart, TypeOK, Return, CleanupStep, NoChunks, NoRefs, Partial,
     Payload, DatabaseTypeOK, DiskTypeOK, RequestTypeOK, CleanupTypeOK, HistoryTypeOK
<1>24. CASE CleanupRemoved
  BY <1>t, <1>24 DEF CleanupRemoved, CleanupOnly, TypeOK, Goto, Return, CleanupStep,
     NoChunks, NoRefs, Partial, Payload, DatabaseTypeOK, DiskTypeOK, RequestTypeOK,
     CleanupTypeOK, HistoryTypeOK
<1>25. CASE CleanupReferences
  BY <1>t, <1>25 DEF CleanupReferences, CleanupOnly, TypeOK, Goto, Return, CleanupStep,
     NoChunks, NoRefs, Partial, Payload, DatabaseTypeOK, DiskTypeOK, RequestTypeOK,
     CleanupTypeOK, HistoryTypeOK
<1>26. CASE CleanupEnd
  BY <1>t, <1>26 DEF CleanupEnd, CleanupOnly, TypeOK, Goto, Return, CleanupStep, NoChunks,
     NoRefs, Partial, Payload, DatabaseTypeOK, DiskTypeOK, RequestTypeOK, CleanupTypeOK,
     HistoryTypeOK
<1>27. CASE CleanupFail
  BY <1>t, <1>27 DEF CleanupFail, Fault, CleanupOnly, TypeOK, Goto, Return, CleanupStep,
     NoChunks, NoRefs, Partial, Payload, DatabaseTypeOK, DiskTypeOK, RequestTypeOK,
     CleanupTypeOK, HistoryTypeOK
<1>28. CASE Expire
  BY <1>t, <1>28 DEF Expire, TypeOK, Return, CleanupStep, NoChunks, NoRefs, Partial,
     Payload, DatabaseTypeOK, DiskTypeOK, RequestTypeOK, CleanupTypeOK, HistoryTypeOK
<1>29. CASE CleanupRooms
  <2>1. DatabaseTypeOK'
    <3>1. CASE room /\ Room \in due
      BY <1>t, <1>29, <3>1, DropRowsTyped DEF CleanupRooms
    <3>2. CASE ~(room /\ Room \in due)
      BY <1>t, <1>29, <3>2 DEF CleanupRooms, DatabaseTypeOK
    <3> QED BY <3>1, <3>2
  <2> QED BY <1>t, <1>29, <2>1 DEF TypeOK, CleanupRooms, CleanupOnly, DiskTypeOK,
     RequestTypeOK, CleanupTypeOK, CleanupStep, HistoryTypeOK
<1>30. CASE CleanupEntries
  <2> DEFINE us(E) == {u \in uploads : EntryOf[u] \in E}
             fs(E) == {f \in files : EntryOf[f] \in E}
  <2>1. PICK E \in SUBSET DueEntries :
               /\ DropRows(us(E), fs(E))
               /\ \/ mpend' = Payloads(us(E), fs(E)) /\ UNCHANGED faults
                  \/ mpend' = {} /\ Fault
    BY <1>30 DEF CleanupEntries
  <2>2. us(E) \subseteq uploads /\ fs(E) \subseteq files
    OBVIOUS
  <2> HIDE DEF us, fs
  <2>3. DatabaseTypeOK'
    BY <1>t, <1>30, DropRowsTyped DEF CleanupEntries, DatabaseTypeOK
  <2>4. mpend' \subseteq Payload
    BY <1>t, <2>1, <2>2, PayloadsTyped DEF DatabaseTypeOK
  <2>5. faults' \in Nat
    BY <1>t, <2>1 DEF HistoryTypeOK, Fault
  <2> QED BY <1>t, <1>30, <2>3, <2>4, <2>5 DEF TypeOK, CleanupEntries, CleanupOnly,
     DiskTypeOK, RequestTypeOK, CleanupTypeOK, CleanupStep, HistoryTypeOK
<1>31. CASE CleanupUploads
  <2>1. PICK U \in SUBSET (uploads \cap due) :
               /\ uploads' = uploads \ U
               /\ chunkRow' = [u \in Upload |-> IF u \in U THEN NoChunks ELSE chunkRow[u]]
               /\ \/ mpend' = Payloads(U, {}) /\ maint' = "sweepUploads" /\ UNCHANGED faults
                  \/ mpend' = {} /\ maint' = "idle" /\ Fault
    BY <1>31 DEF CleanupUploads
  <2>2. DatabaseTypeOK'
    BY <1>t, <1>31, NoChunksTyped DEF CleanupUploads, DatabaseTypeOK
  <2>3. mpend' \subseteq Payload /\ maint' \in CleanupStep
    BY <1>t, <2>1, PayloadsTyped DEF DatabaseTypeOK, CleanupStep
  <2>4. faults' \in Nat
    BY <1>t, <2>1 DEF HistoryTypeOK, Fault
  <2> QED BY <1>t, <1>31, <2>2, <2>3, <2>4 DEF TypeOK, CleanupUploads, CleanupOnly,
     DiskTypeOK, RequestTypeOK, CleanupTypeOK, HistoryTypeOK
<1>32. CASE CleanupRemove
  <2>1. PICK x \in mpend : /\ mpend' = mpend \ {x}
                           /\ \/ RemovePayload(x) /\ UNCHANGED faults
                              \/ Fault /\ UNCHANGED disk
    BY <1>32 DEF CleanupRemove
  <2>2. DiskTypeOK'
    <3>1. x \in Payload /\ Dead(x)
      BY <1>t, <1>i DEF CleanupTypeOK, PendingDead
    <3>2. CASE RemovePayload(x)
      BY <1>t, <3>1, <3>2, RemovalEffect
    <3>3. CASE UNCHANGED disk
      BY <1>t, <3>3 DEF DiskTypeOK
    <3> QED BY <2>1, <3>2, <3>3
  <2>3. faults' \in Nat
    BY <1>t, <2>1 DEF HistoryTypeOK, Fault
  <2> QED BY <1>t, <1>32, <2>2, <2>3 DEF TypeOK, CleanupRemove, CleanupOnly,
     DatabaseTypeOK, RequestTypeOK, CleanupTypeOK, HistoryTypeOK
<1>33. CASE CleanupReconcile
  <2>1. DiskTypeOK'
    BY <1>t, <1>i, <1>33, ReconcileEffect
  <2> QED BY <1>t, <1>33, <2>1 DEF TypeOK, CleanupReconcile, CleanupOnly, DatabaseTypeOK,
     RequestTypeOK, CleanupTypeOK, CleanupStep, HistoryTypeOK
<1>34. CASE Crash
  BY <1>t, <1>34 DEF Crash, Fault, TypeOK, Goto, Return, CleanupStep, NoChunks, NoRefs,
     Partial, Payload, Step, PutStep, CompleteStep, AbortStep, DatabaseTypeOK, DiskTypeOK,
     RequestTypeOK, CleanupTypeOK, HistoryTypeOK
<1>35. CASE UNCHANGED vars
  BY <1>t, <1>35 DEF vars, TypeOK, Return, CleanupStep, NoChunks, NoRefs, Partial, Payload,
     DatabaseTypeOK, DiskTypeOK, RequestTypeOK, CleanupTypeOK, HistoryTypeOK
<1> QED
  BY <1>1, <1>2, <1>3, <1>4, <1>5, <1>6, <1>7, <1>8, <1>9, <1>10, <1>11, <1>12, <1>13,
     <1>14, <1>15, <1>16, <1>17, <1>18, <1>19, <1>20, <1>21, <1>22, <1>23, <1>24, <1>25,
     <1>26, <1>27, <1>28, <1>29, <1>30, <1>31, <1>32, <1>33, <1>34, <1>35 DEF Next, Handle,
     Put, Complete, Abort, Cleanup

(* Every step respects the locks: no handler runs beside a cleanup pass,   *)
(* and a handler past LockUpload holds the mutex of its upload.            *)
LEMMA LocksStep == IInv /\ [Next]_vars => LocksHeld'
<1> SUFFICES ASSUME IInv, [Next]_vars PROVE LocksHeld'
  OBVIOUS
<1>t. DatabaseTypeOK /\ DiskTypeOK /\ RequestTypeOK /\ CleanupTypeOK /\ HistoryTypeOK
  BY DEF IInv, TypeOK
<1>i. LocksHeld
  BY DEF IInv
<1>1. ASSUME NEW v \in Upload, CreateUpload(v) PROVE LocksHeld'
  BY <1>i, <1>1 DEF CreateUpload, LocksHeld, Untouched, Locked
<1>2. ASSUME NEW r \in Request, BeginUploadRequest(r) PROVE LocksHeld'
  BY <1>t, <1>i, <1>2, GotoEffect DEF BeginUploadRequest, Begin, LocksHeld, Untouched,
     Locked, Step, PutStep, CompleteStep, AbortStep, DatabaseTypeOK, DiskTypeOK,
     RequestTypeOK, CleanupTypeOK, HistoryTypeOK
<1>3. ASSUME NEW r \in Request, BeginDelete(r) PROVE LocksHeld'
  BY <1>t, <1>i, <1>3, GotoEffect DEF BeginDelete, Begin, LocksHeld, Untouched, Locked,
     Step, PutStep, CompleteStep, AbortStep, DatabaseTypeOK, DiskTypeOK, RequestTypeOK,
     CleanupTypeOK, HistoryTypeOK
<1>4. ASSUME NEW r \in Request, LockUpload(r) PROVE LocksHeld'
  BY <1>t, <1>i, <1>4, GotoEffect DEF LockUpload, LocksHeld, Untouched, Locked, Step,
     PutStep, CompleteStep, AbortStep, DatabaseTypeOK, DiskTypeOK, RequestTypeOK,
     CleanupTypeOK, HistoryTypeOK
<1>5. ASSUME NEW r \in Request, PutAuthorize(r) PROVE LocksHeld'
  BY <1>t, <1>i, <1>5, GotoEffect, ReturnEffect DEF PutAuthorize, Open, LocksHeld,
     Untouched, Locked, Step, PutStep, CompleteStep, AbortStep, DatabaseTypeOK, DiskTypeOK,
     RequestTypeOK, CleanupTypeOK, HistoryTypeOK
<1>6. ASSUME NEW r \in Request, CompleteLookup(r) PROVE LocksHeld'
  BY <1>t, <1>i, <1>6, GotoEffect, ReturnEffect DEF CompleteLookup, LocksHeld, Untouched,
     Locked, Step, PutStep, CompleteStep, AbortStep, DatabaseTypeOK, DiskTypeOK,
     RequestTypeOK, CleanupTypeOK, HistoryTypeOK
<1>7. ASSUME NEW r \in Request, CompleteAuthorize(r) PROVE LocksHeld'
  BY <1>t, <1>i, <1>7, GotoEffect, ReturnEffect DEF CompleteAuthorize, Open, LocksHeld,
     Untouched, Locked, Step, PutStep, CompleteStep, AbortStep, DatabaseTypeOK, DiskTypeOK,
     RequestTypeOK, CleanupTypeOK, HistoryTypeOK
<1>8. ASSUME NEW r \in Request, CompleteReceived(r) PROVE LocksHeld'
  BY <1>t, <1>i, <1>8, GotoEffect, ReturnEffect DEF CompleteReceived, AllRecorded,
     LocksHeld, Untouched, Locked, Step, PutStep, CompleteStep, AbortStep, DatabaseTypeOK,
     DiskTypeOK, RequestTypeOK, CleanupTypeOK, HistoryTypeOK
<1>9. ASSUME NEW r \in Request, CompleteMissing(r) PROVE LocksHeld'
  BY <1>t, <1>i, <1>9, ReturnEffect DEF CompleteMissing, LocksHeld, Untouched, Locked,
     Step, PutStep, CompleteStep, AbortStep, DatabaseTypeOK, DiskTypeOK, RequestTypeOK,
     CleanupTypeOK, HistoryTypeOK
<1>10. ASSUME NEW r \in Request, AbortAuthorize(r) PROVE LocksHeld'
  BY <1>t, <1>i, <1>10, GotoEffect, ReturnEffect DEF AbortAuthorize, Open, LocksHeld,
     Untouched, Locked, Step, PutStep, CompleteStep, AbortStep, DatabaseTypeOK, DiskTypeOK,
     RequestTypeOK, CleanupTypeOK, HistoryTypeOK
<1>11. ASSUME NEW r \in Request, RemoveDone(r) PROVE LocksHeld'
  BY <1>t, <1>i, <1>11, ReturnEffect DEF RemoveDone, LocksHeld, Untouched, Locked, Step,
     PutStep, CompleteStep, AbortStep, DatabaseTypeOK, DiskTypeOK, RequestTypeOK,
     CleanupTypeOK, HistoryTypeOK
<1>12. ASSUME NEW r \in Request, PutWrite(r) PROVE LocksHeld'
  BY <1>t, <1>i, <1>12, GotoEffect DEF PutWrite, LocksHeld, Untouched, Locked, Step,
     PutStep, CompleteStep, AbortStep, DatabaseTypeOK, DiskTypeOK, RequestTypeOK,
     CleanupTypeOK, HistoryTypeOK
<1>13. ASSUME NEW r \in Request, PutLink(r) PROVE LocksHeld'
  BY <1>t, <1>i, <1>13, GotoEffect, ReturnEffect DEF PutLink, LocksHeld, Untouched, Locked,
     Step, PutStep, CompleteStep, AbortStep, DatabaseTypeOK, DiskTypeOK, RequestTypeOK,
     CleanupTypeOK, HistoryTypeOK
<1>14. ASSUME NEW r \in Request, PutRecord(r) PROVE LocksHeld'
  BY <1>t, <1>i, <1>14, GotoEffect, ReturnEffect DEF PutRecord, Insertable, LocksHeld,
     Untouched, Locked, Step, PutStep, CompleteStep, AbortStep, DatabaseTypeOK, DiskTypeOK,
     RequestTypeOK, CleanupTypeOK, HistoryTypeOK
<1>15. ASSUME NEW r \in Request, PutUndo(r) PROVE LocksHeld'
  BY <1>t, <1>i, <1>15, ReturnEffect DEF PutUndo, LocksHeld, Untouched, Locked, Step,
     PutStep, CompleteStep, AbortStep, DatabaseTypeOK, DiskTypeOK, RequestTypeOK,
     CleanupTypeOK, HistoryTypeOK
<1>16. ASSUME NEW r \in Request, CompleteAssemble(r) PROVE LocksHeld'
  BY <1>t, <1>i, <1>16, GotoEffect, ReturnEffect DEF CompleteAssemble, LocksHeld,
     Untouched, Locked, Step, PutStep, CompleteStep, AbortStep, DatabaseTypeOK, DiskTypeOK,
     RequestTypeOK, CleanupTypeOK, HistoryTypeOK
<1>17. ASSUME NEW r \in Request, CompleteLink(r) PROVE LocksHeld'
  BY <1>t, <1>i, <1>17, GotoEffect, ReturnEffect DEF CompleteLink, LocksHeld, Untouched,
     Locked, Step, PutStep, CompleteStep, AbortStep, DatabaseTypeOK, DiskTypeOK,
     RequestTypeOK, CleanupTypeOK, HistoryTypeOK
<1>18. ASSUME NEW r \in Request, CompleteCommit(r) PROVE LocksHeld'
  BY <1>t, <1>i, <1>18, GotoEffect, ReturnEffect DEF CompleteCommit, AllRecorded,
     LocksHeld, Untouched, Locked, Step, PutStep, CompleteStep, AbortStep, DatabaseTypeOK,
     DiskTypeOK, RequestTypeOK, CleanupTypeOK, HistoryTypeOK
<1>19. ASSUME NEW r \in Request, AbortDelete(r) PROVE LocksHeld'
  BY <1>t, <1>i, <1>19, GotoEffect, ReturnEffect DEF AbortDelete, DropRows, LocksHeld,
     Untouched, Locked, Step, PutStep, CompleteStep, AbortStep, DatabaseTypeOK, DiskTypeOK,
     RequestTypeOK, CleanupTypeOK, HistoryTypeOK
<1>20. ASSUME NEW r \in Request, DeleteRows(r) PROVE LocksHeld'
  <2>1. PICK us \in SUBSET uploads, fs \in SUBSET files : Delete(r, us, fs)
    BY <1>20, <1>t, DeleteShape
  <2> QED BY <1>t, <1>i, <2>1, GotoEffect DEF Delete, DropRows, LocksHeld, Untouched,
     Locked, Step, PutStep, CompleteStep, AbortStep, DatabaseTypeOK, DiskTypeOK,
     RequestTypeOK, CleanupTypeOK, HistoryTypeOK
<1>21. ASSUME NEW r \in Request, RemoveNext(r) PROVE LocksHeld'
  BY <1>i, <1>21 DEF RemoveNext, RemovePayload, DropDirs, DropObjects, Fault, LocksHeld,
     Untouched, Locked
<1>22. ASSUME NEW r \in Request, Fail(r) PROVE LocksHeld'
  BY <1>t, <1>i, <1>22, ReturnEffect DEF Fail, Fault, LocksHeld, Untouched, Locked, Step,
     PutStep, CompleteStep, AbortStep, DatabaseTypeOK, DiskTypeOK, RequestTypeOK,
     CleanupTypeOK, HistoryTypeOK
<1>23. CASE CleanupStart
  BY <1>i, <1>23 DEF CleanupStart, LocksHeld, Untouched, Locked
<1>24. CASE CleanupRemoved
  BY <1>i, <1>24 DEF CleanupRemoved, CleanupOnly, LocksHeld, Untouched, Locked
<1>25. CASE CleanupReferences
  BY <1>i, <1>25 DEF CleanupReferences, CleanupOnly, LocksHeld, Untouched, Locked
<1>26. CASE CleanupEnd
  BY <1>i, <1>26 DEF CleanupEnd, CleanupOnly, LocksHeld, Untouched, Locked
<1>27. CASE CleanupFail
  BY <1>i, <1>27 DEF CleanupFail, Fault, CleanupOnly, LocksHeld, Untouched, Locked
<1>28. CASE Expire
  BY <1>i, <1>28 DEF Expire, LocksHeld, Untouched, Locked
<1>29. CASE CleanupRooms
  BY <1>i, <1>29 DEF CleanupRooms, DropRows, CleanupOnly, LocksHeld, Untouched, Locked
<1>30. CASE CleanupEntries
  BY <1>i, <1>30 DEF CleanupEntries, DropRows, Fault, CleanupOnly, DueEntries, LocksHeld,
     Untouched, Locked
<1>31. CASE CleanupUploads
  BY <1>i, <1>31 DEF CleanupUploads, Fault, CleanupOnly, LocksHeld, Untouched, Locked
<1>32. CASE CleanupRemove
  BY <1>i, <1>32 DEF CleanupRemove, RemovePayload, DropDirs, DropObjects, Fault,
     CleanupOnly, LocksHeld, Untouched, Locked
<1>33. CASE CleanupReconcile
  BY <1>i, <1>33 DEF CleanupReconcile, DropDirs, DropObjects, CleanupOnly, LocksHeld,
     Untouched, Locked
<1>34. CASE Crash
  BY <1>34 DEF Crash, Fault, LocksHeld, Untouched, Locked, Step, PutStep, CompleteStep,
     AbortStep
<1>35. CASE UNCHANGED vars
  BY <1>i, <1>35 DEF vars, LocksHeld, Untouched, Locked
<1> QED
  BY <1>1, <1>2, <1>3, <1>4, <1>5, <1>6, <1>7, <1>8, <1>9, <1>10, <1>11, <1>12, <1>13,
     <1>14, <1>15, <1>16, <1>17, <1>18, <1>19, <1>20, <1>21, <1>22, <1>23, <1>24, <1>25,
     <1>26, <1>27, <1>28, <1>29, <1>30, <1>31, <1>32, <1>33, <1>34, <1>35 DEF Next, Handle,
     Put, Complete, Abort, Cleanup

(* Ids stay in one table at a time.                                        *)
LEMMA RowsStep == IInv /\ [Next]_vars => RowsApart'
<1> SUFFICES ASSUME IInv, [Next]_vars PROVE RowsApart'
  OBVIOUS
<1>t. DatabaseTypeOK /\ DiskTypeOK /\ RequestTypeOK /\ CleanupTypeOK /\ HistoryTypeOK
  BY DEF IInv, TypeOK
<1>i. RowsApart /\ LocksHeld /\ PendingDead /\ RefsCurrent
  BY DEF IInv
<1>1. CASE QuietStep
  BY <1>i, <1>1, QuietEffect DEF RowsApart
<1>2. ASSUME NEW v \in Upload, CreateUpload(v) PROVE RowsApart'
  BY <1>i, <1>2 DEF CreateUpload, RowsApart
<1>3. ASSUME NEW r \in Request, PutWrite(r) PROVE RowsApart'
  BY <1>i, <1>3 DEF PutWrite, RowsApart
<1>4. ASSUME NEW r \in Request, PutLink(r) PROVE RowsApart'
  BY <1>i, <1>4 DEF PutLink, RowsApart
<1>5. ASSUME NEW r \in Request, PutRecord(r) PROVE RowsApart'
  BY <1>t, <1>i, <1>5 DEF PutRecord, Insertable, RowsApart, NoChunks, DatabaseTypeOK,
     DiskTypeOK, RequestTypeOK, CleanupTypeOK, HistoryTypeOK
<1>6. ASSUME NEW r \in Request, PutUndo(r) PROVE RowsApart'
  BY <1>i, <1>6 DEF PutUndo, RowsApart
<1>7. ASSUME NEW r \in Request, CompleteAssemble(r) PROVE RowsApart'
  BY <1>i, <1>7 DEF CompleteAssemble, RowsApart
<1>8. ASSUME NEW r \in Request, CompleteLink(r) PROVE RowsApart'
  <2>1. up[r] \in created
    BY <1>i, <1>8 DEF CompleteLink, LocksHeld, CompleteStep
  <2> QED BY <1>t, <1>i, <1>8, <2>1 DEF CompleteLink, RowsApart, DiskTypeOK, HistoryTypeOK
<1>9. ASSUME NEW r \in Request, CompleteCommit(r) PROVE RowsApart'
  BY <1>t, <1>i, <1>9 DEF CompleteCommit, RowsApart, NoChunks, DatabaseTypeOK, DiskTypeOK,
     RequestTypeOK, CleanupTypeOK, HistoryTypeOK
<1>10. ASSUME NEW r \in Request, AbortDelete(r) PROVE RowsApart'
  BY <1>i, <1>10 DEF AbortDelete, DropRows, RowsApart
<1>11. ASSUME NEW r \in Request, DeleteRows(r) PROVE RowsApart'
  <2>1. PICK us \in SUBSET uploads, fs \in SUBSET files : Delete(r, us, fs)
    BY <1>11, <1>t, DeleteShape
  <2> QED BY <1>i, <2>1 DEF Delete, DropRows, RowsApart, NoChunks
<1>12. ASSUME NEW r \in Request, RemoveNext(r) PROVE RowsApart'
  BY <1>i, <1>12 DEF RemoveNext, RemovePayload, DropObjects, Fault, RowsApart, NoChunks
<1>13. ASSUME NEW r \in Request, Fail(r) PROVE RowsApart'
  BY <1>i, <1>13 DEF Fail, RowsApart
<1>14. CASE CleanupRooms
  BY <1>i, <1>14 DEF CleanupRooms, DropRows, CleanupOnly, RowsApart, NoChunks
<1>15. CASE CleanupEntries
  BY <1>i, <1>15 DEF CleanupEntries, DropRows, CleanupOnly, DueEntries, RowsApart, NoChunks
<1>16. CASE CleanupUploads
  BY <1>i, <1>16 DEF CleanupUploads, CleanupOnly, RowsApart, NoChunks
<1>17. CASE CleanupRemove
  BY <1>i, <1>17 DEF CleanupRemove, RemovePayload, DropObjects, Fault, CleanupOnly,
     RowsApart, NoChunks
<1>18. CASE CleanupReconcile
  BY <1>i, <1>18 DEF CleanupReconcile, DropObjects, CleanupOnly, RowsApart, NoChunks
<1>19. CASE Crash
  BY <1>i, <1>19 DEF Crash, RowsApart
<1>20. CASE UNCHANGED vars
  BY <1>i, <1>20 DEF vars, RowsApart
<1> QED
  BY <1>1, <1>2, <1>3, <1>4, <1>5, <1>6, <1>7, <1>8, <1>9, <1>10, <1>11, <1>12, <1>13,
     <1>14, <1>15, <1>16, <1>17, <1>18, <1>19, <1>20 DEF Next, Handle, Put, Complete,
     Abort, Cleanup, QuietStep

(* A payload waiting for removal stays dead.                               *)
LEMMA PendingStep == IInv /\ [Next]_vars => PendingDead'
<1> SUFFICES ASSUME IInv, [Next]_vars PROVE PendingDead'
  OBVIOUS
<1>t. DatabaseTypeOK /\ DiskTypeOK /\ RequestTypeOK /\ CleanupTypeOK /\ HistoryTypeOK
  BY DEF IInv, TypeOK
<1>i. RowsApart /\ LocksHeld /\ PendingDead
  BY DEF IInv
<1>1. ASSUME NEW v \in Upload, CreateUpload(v) PROVE PendingDead'
  BY <1>i, <1>1 DEF CreateUpload, PendingDead, Untouched, Dead
<1>2. ASSUME NEW r \in Request, BeginUploadRequest(r) PROVE PendingDead'
  BY <1>i, <1>2 DEF BeginUploadRequest, Begin, PendingDead, Untouched, Dead
<1>3. ASSUME NEW r \in Request, BeginDelete(r) PROVE PendingDead'
  BY <1>i, <1>3 DEF BeginDelete, Begin, PendingDead, Untouched, Dead
<1>4. ASSUME NEW r \in Request, LockUpload(r) PROVE PendingDead'
  BY <1>i, <1>4 DEF LockUpload, PendingDead, Untouched, Dead
<1>5. ASSUME NEW r \in Request, PutAuthorize(r) PROVE PendingDead'
  BY <1>t, <1>i, <1>5, ReturnEffect DEF PutAuthorize, Open, PendingDead, Untouched, Dead,
     DatabaseTypeOK, DiskTypeOK, RequestTypeOK, CleanupTypeOK, HistoryTypeOK
<1>6. ASSUME NEW r \in Request, CompleteLookup(r) PROVE PendingDead'
  BY <1>t, <1>i, <1>6, ReturnEffect DEF CompleteLookup, PendingDead, Untouched, Dead,
     DatabaseTypeOK, DiskTypeOK, RequestTypeOK, CleanupTypeOK, HistoryTypeOK
<1>7. ASSUME NEW r \in Request, CompleteAuthorize(r) PROVE PendingDead'
  BY <1>t, <1>i, <1>7, ReturnEffect DEF CompleteAuthorize, Open, PendingDead, Untouched,
     Dead, DatabaseTypeOK, DiskTypeOK, RequestTypeOK, CleanupTypeOK, HistoryTypeOK
<1>8. ASSUME NEW r \in Request, CompleteReceived(r) PROVE PendingDead'
  BY <1>t, <1>i, <1>8, ReturnEffect DEF CompleteReceived, AllRecorded, PendingDead,
     Untouched, Dead, DatabaseTypeOK, DiskTypeOK, RequestTypeOK, CleanupTypeOK,
     HistoryTypeOK
<1>9. ASSUME NEW r \in Request, CompleteMissing(r) PROVE PendingDead'
  BY <1>t, <1>i, <1>9, ReturnEffect DEF CompleteMissing, PendingDead, Untouched, Dead,
     DatabaseTypeOK, DiskTypeOK, RequestTypeOK, CleanupTypeOK, HistoryTypeOK
<1>10. ASSUME NEW r \in Request, AbortAuthorize(r) PROVE PendingDead'
  BY <1>t, <1>i, <1>10, ReturnEffect DEF AbortAuthorize, Open, PendingDead, Untouched,
     Dead, DatabaseTypeOK, DiskTypeOK, RequestTypeOK, CleanupTypeOK, HistoryTypeOK
<1>11. ASSUME NEW r \in Request, RemoveDone(r) PROVE PendingDead'
  BY <1>t, <1>i, <1>11, ReturnEffect DEF RemoveDone, PendingDead, Untouched, Dead,
     DatabaseTypeOK, DiskTypeOK, RequestTypeOK, CleanupTypeOK, HistoryTypeOK
<1>12. ASSUME NEW r \in Request, PutWrite(r) PROVE PendingDead'
  BY <1>i, <1>12 DEF PutWrite, PendingDead, Untouched, Dead
<1>13. ASSUME NEW r \in Request, PutLink(r) PROVE PendingDead'
  BY <1>t, <1>i, <1>13, ReturnEffect DEF PutLink, PendingDead, Untouched, Dead,
     DatabaseTypeOK, DiskTypeOK, RequestTypeOK, CleanupTypeOK, HistoryTypeOK
<1>14. ASSUME NEW r \in Request, PutRecord(r) PROVE PendingDead'
  BY <1>t, <1>i, <1>14, ReturnEffect DEF PutRecord, Insertable, PendingDead, Untouched,
     Dead, DatabaseTypeOK, DiskTypeOK, RequestTypeOK, CleanupTypeOK, HistoryTypeOK
<1>15. ASSUME NEW r \in Request, PutUndo(r) PROVE PendingDead'
  BY <1>t, <1>i, <1>15, ReturnEffect DEF PutUndo, PendingDead, Untouched, Dead,
     DatabaseTypeOK, DiskTypeOK, RequestTypeOK, CleanupTypeOK, HistoryTypeOK
<1>16. ASSUME NEW r \in Request, CompleteAssemble(r) PROVE PendingDead'
  BY <1>t, <1>i, <1>16, ReturnEffect DEF CompleteAssemble, PendingDead, Untouched, Dead,
     DatabaseTypeOK, DiskTypeOK, RequestTypeOK, CleanupTypeOK, HistoryTypeOK
<1>17. ASSUME NEW r \in Request, CompleteLink(r) PROVE PendingDead'
  BY <1>t, <1>i, <1>17, ReturnEffect DEF CompleteLink, PendingDead, Untouched, Dead,
     DatabaseTypeOK, DiskTypeOK, RequestTypeOK, CleanupTypeOK, HistoryTypeOK
<1>18. ASSUME NEW r \in Request, CompleteCommit(r) PROVE PendingDead'
  <2>1. CASE up[r] \in uploads /\ AllRecorded(up[r]) /\ up[r] \notin files
    <3>1. \A x : Dead(x) => Dead(x)'
      BY <1>18, <2>1, DeadStaysDead DEF CompleteCommit
    <3>2. Dead(<<"dir", up[r]>>)'
      BY <1>i, <1>18, <2>1 DEF CompleteCommit, Dead, RowsApart
    <3>3. ASSUME NEW q \in Request, NEW x \in pend'[q] PROVE Dead(x)'
      BY <1>t, <1>i, <1>18, <2>1, <3>1, <3>2, <3>3 DEF CompleteCommit, PendingDead,
         RequestTypeOK
    <3> QED BY <1>i, <1>18, <3>1, <3>3 DEF CompleteCommit, PendingDead
  <2>2. CASE ~(up[r] \in uploads /\ AllRecorded(up[r]) /\ up[r] \notin files)
    BY <1>t, <1>i, <1>18, <2>2, ReturnEffect DEF CompleteCommit, PendingDead, Dead,
       Untouched
  <2> QED BY <2>1, <2>2
<1>19. ASSUME NEW r \in Request, AbortDelete(r) PROVE PendingDead'
  <2>1. CASE up[r] \in uploads
    <3>1. \A x : Dead(x) => Dead(x)'
      BY <1>19, DeadStaysDead DEF AbortDelete, DropRows
    <3>2. Dead(<<"dir", up[r]>>)'
      BY <1>i, <1>19, <2>1 DEF AbortDelete, DropRows, Dead, RowsApart
    <3>3. ASSUME NEW q \in Request, NEW x \in pend'[q] PROVE Dead(x)'
      BY <1>t, <1>i, <1>19, <2>1, <3>1, <3>2, <3>3 DEF AbortDelete, PendingDead,
         RequestTypeOK
    <3> QED BY <1>i, <1>19, <3>1, <3>3 DEF AbortDelete, PendingDead
  <2>2. CASE up[r] \notin uploads
    BY <1>t, <1>i, <1>19, <2>2, ReturnEffect DEF AbortDelete, PendingDead, Dead, Untouched
  <2> QED BY <2>1, <2>2
<1>20. ASSUME NEW r \in Request, DeleteRows(r) PROVE PendingDead'
  <2>1. PICK us \in SUBSET uploads, fs \in SUBSET files : Delete(r, us, fs)
    BY <1>20, DeleteShape
  <2>2. \A x : Dead(x) => Dead(x)'
    BY <2>1, DeadStaysDead DEF Delete, DropRows
  <2>3. \A x \in Payloads(us, fs) : Dead(x)'
    BY <1>i, <2>1, PayloadsAre DEF Delete, DropRows, Dead, RowsApart
  <2>4. ASSUME NEW q \in Request, NEW x \in pend'[q] PROVE Dead(x)'
    BY <1>i, <2>1, <2>2, <2>3 DEF Delete, PendingDead
  <2> QED BY <1>i, <2>1, <2>2, <2>4 DEF Delete, PendingDead
<1>21. ASSUME NEW r \in Request, RemoveNext(r) PROVE PendingDead'
  BY <1>i, <1>21 DEF RemoveNext, RemovePayload, DropDirs, DropObjects, Fault, PendingDead,
     Untouched, Dead
<1>22. ASSUME NEW r \in Request, Fail(r) PROVE PendingDead'
  BY <1>t, <1>i, <1>22, ReturnEffect DEF Fail, Fault, PendingDead, Untouched, Dead,
     DatabaseTypeOK, DiskTypeOK, RequestTypeOK, CleanupTypeOK, HistoryTypeOK
<1>23. CASE CleanupStart
  BY <1>i, <1>23 DEF CleanupStart, PendingDead, Untouched, Dead
<1>24. CASE CleanupRemoved
  BY <1>i, <1>24 DEF CleanupRemoved, CleanupOnly, PendingDead, Untouched, Dead
<1>25. CASE CleanupReferences
  BY <1>i, <1>25 DEF CleanupReferences, CleanupOnly, PendingDead, Untouched, Dead
<1>26. CASE CleanupEnd
  BY <1>i, <1>26 DEF CleanupEnd, CleanupOnly, PendingDead, Untouched, Dead
<1>27. CASE CleanupFail
  BY <1>i, <1>27 DEF CleanupFail, Fault, CleanupOnly, PendingDead, Untouched, Dead
<1>28. CASE Expire
  BY <1>i, <1>28 DEF Expire, PendingDead, Untouched, Dead
<1>29. CASE CleanupRooms
  BY <1>i, <1>29 DEF CleanupRooms, DropRows, CleanupOnly, PendingDead, Untouched, Dead
<1>30. CASE CleanupEntries
  <2> DEFINE us(E) == {u \in uploads : EntryOf[u] \in E}
             fs(E) == {f \in files : EntryOf[f] \in E}
  <2>1. PICK E \in SUBSET DueEntries :
               /\ DropRows(us(E), fs(E))
               /\ \/ mpend' = Payloads(us(E), fs(E)) /\ UNCHANGED faults
                  \/ mpend' = {} /\ Fault
    BY <1>30 DEF CleanupEntries
  <2>2. us(E) \subseteq uploads /\ fs(E) \subseteq files
    OBVIOUS
  <2> HIDE DEF us, fs
  <2>3. \A x : Dead(x) => Dead(x)'
    BY <1>30, DeadStaysDead DEF CleanupEntries, CleanupOnly, DropRows
  <2>4. \A x \in mpend' : Dead(x)'
    BY <1>i, <1>30, PayloadsAre DEF CleanupEntries, CleanupOnly, Dead, RowsApart, DropRows
  <2> QED BY <1>i, <1>30, <2>3, <2>4 DEF CleanupEntries, CleanupOnly, PendingDead
<1>31. CASE CleanupUploads
  <2>1. PICK U \in SUBSET (uploads \cap due) :
               /\ uploads' = uploads \ U
               /\ chunkRow' = [u \in Upload |-> IF u \in U THEN NoChunks ELSE chunkRow[u]]
               /\ \/ mpend' = Payloads(U, {}) /\ maint' = "sweepUploads" /\ UNCHANGED faults
                  \/ mpend' = {} /\ maint' = "idle" /\ Fault
    BY <1>31 DEF CleanupUploads
  <2>2. \A x : Dead(x) => Dead(x)'
    BY <1>31, DeadStaysDead DEF CleanupUploads, CleanupOnly
  <2>3. \A x \in mpend' : Dead(x)'
    BY <1>i, <1>31, PayloadsAre DEF CleanupUploads, CleanupOnly, Dead, RowsApart
  <2> QED BY <1>i, <1>31, <2>2, <2>3 DEF CleanupUploads, CleanupOnly, PendingDead
<1>32. CASE CleanupRemove
  BY <1>i, <1>32 DEF CleanupRemove, RemovePayload, DropDirs, DropObjects, Fault,
     CleanupOnly, PendingDead, Untouched, Dead
<1>33. CASE CleanupReconcile
  BY <1>i, <1>33 DEF CleanupReconcile, DropDirs, DropObjects, CleanupOnly, PendingDead,
     Untouched, Dead
<1>34. CASE Crash
  BY <1>34 DEF Crash, Fault, PendingDead, Untouched, Dead
<1>35. CASE UNCHANGED vars
  BY <1>i, <1>35 DEF vars, PendingDead, Untouched, Dead
<1> QED
  BY <1>1, <1>2, <1>3, <1>4, <1>5, <1>6, <1>7, <1>8, <1>9, <1>10, <1>11, <1>12, <1>13,
     <1>14, <1>15, <1>16, <1>17, <1>18, <1>19, <1>20, <1>21, <1>22, <1>23, <1>24, <1>25,
     <1>26, <1>27, <1>28, <1>29, <1>30, <1>31, <1>32, <1>33, <1>34, <1>35 DEF Next, Handle,
     Put, Complete, Abort, Cleanup

(* The snapshot that Reconcile uses is current, since requests are kept    *)
(* out, and a temporary object belongs to an assembling request.           *)
LEMMA RefsStep == IInv /\ [Next]_vars => RefsCurrent'
<1> SUFFICES ASSUME IInv, [Next]_vars PROVE RefsCurrent'
  OBVIOUS
<1>t. DatabaseTypeOK /\ DiskTypeOK /\ RequestTypeOK /\ CleanupTypeOK /\ HistoryTypeOK
  BY DEF IInv, TypeOK
<1>i. RowsApart /\ LocksHeld /\ RefsCurrent
  BY DEF IInv
<1>1. ASSUME NEW v \in Upload, CreateUpload(v) PROVE RefsCurrent'
  BY <1>i, <1>1 DEF CreateUpload, RefsCurrent, Untouched, Goto
<1>2. ASSUME NEW r \in Request, BeginUploadRequest(r) PROVE RefsCurrent'
  BY <1>i, <1>2 DEF BeginUploadRequest, Begin, RefsCurrent, Untouched, Goto
<1>3. ASSUME NEW r \in Request, BeginDelete(r) PROVE RefsCurrent'
  BY <1>i, <1>3 DEF BeginDelete, Begin, RefsCurrent, Untouched, Goto
<1>4. ASSUME NEW r \in Request, LockUpload(r) PROVE RefsCurrent'
  BY <1>i, <1>4 DEF LockUpload, RefsCurrent, Untouched, Goto
<1>5. ASSUME NEW r \in Request, PutAuthorize(r) PROVE RefsCurrent'
  BY <1>t, <1>i, <1>5, ReturnEffect DEF PutAuthorize, RefsCurrent, Untouched, Goto,
     DatabaseTypeOK, DiskTypeOK, RequestTypeOK, CleanupTypeOK, HistoryTypeOK
<1>6. ASSUME NEW r \in Request, CompleteLookup(r) PROVE RefsCurrent'
  BY <1>t, <1>i, <1>6, ReturnEffect DEF CompleteLookup, RefsCurrent, Untouched, Goto,
     DatabaseTypeOK, DiskTypeOK, RequestTypeOK, CleanupTypeOK, HistoryTypeOK
<1>7. ASSUME NEW r \in Request, CompleteAuthorize(r) PROVE RefsCurrent'
  BY <1>t, <1>i, <1>7, ReturnEffect DEF CompleteAuthorize, RefsCurrent, Untouched, Goto,
     DatabaseTypeOK, DiskTypeOK, RequestTypeOK, CleanupTypeOK, HistoryTypeOK
<1>8. ASSUME NEW r \in Request, CompleteReceived(r) PROVE RefsCurrent'
  BY <1>t, <1>i, <1>8, ReturnEffect DEF CompleteReceived, RefsCurrent, Untouched, Goto,
     DatabaseTypeOK, DiskTypeOK, RequestTypeOK, CleanupTypeOK, HistoryTypeOK
<1>9. ASSUME NEW r \in Request, CompleteMissing(r) PROVE RefsCurrent'
  BY <1>t, <1>i, <1>9, ReturnEffect DEF CompleteMissing, RefsCurrent, Untouched, Goto,
     DatabaseTypeOK, DiskTypeOK, RequestTypeOK, CleanupTypeOK, HistoryTypeOK
<1>10. ASSUME NEW r \in Request, AbortAuthorize(r) PROVE RefsCurrent'
  BY <1>t, <1>i, <1>10, ReturnEffect DEF AbortAuthorize, RefsCurrent, Untouched, Goto,
     DatabaseTypeOK, DiskTypeOK, RequestTypeOK, CleanupTypeOK, HistoryTypeOK
<1>11. ASSUME NEW r \in Request, RemoveDone(r) PROVE RefsCurrent'
  BY <1>t, <1>i, <1>11, ReturnEffect DEF RemoveDone, RefsCurrent, Untouched, Goto,
     DatabaseTypeOK, DiskTypeOK, RequestTypeOK, CleanupTypeOK, HistoryTypeOK
<1>12. ASSUME NEW r \in Request, PutWrite(r) PROVE RefsCurrent'
  BY <1>i, <1>12 DEF PutWrite, RefsCurrent, Untouched, Goto
<1>13. ASSUME NEW r \in Request, PutLink(r) PROVE RefsCurrent'
  BY <1>t, <1>i, <1>13, ReturnEffect DEF PutLink, RefsCurrent, Untouched, Goto,
     DatabaseTypeOK, DiskTypeOK, RequestTypeOK, CleanupTypeOK, HistoryTypeOK
<1>14. ASSUME NEW r \in Request, PutRecord(r) PROVE RefsCurrent'
  BY <1>t, <1>i, <1>14, ReturnEffect DEF PutRecord, RefsCurrent, Untouched, Goto,
     DatabaseTypeOK, DiskTypeOK, RequestTypeOK, CleanupTypeOK, HistoryTypeOK
<1>15. ASSUME NEW r \in Request, PutUndo(r) PROVE RefsCurrent'
  BY <1>t, <1>i, <1>15, ReturnEffect DEF PutUndo, RefsCurrent, Untouched, Goto,
     DatabaseTypeOK, DiskTypeOK, RequestTypeOK, CleanupTypeOK, HistoryTypeOK
<1>16. ASSUME NEW r \in Request, CompleteAssemble(r) PROVE RefsCurrent'
  BY <1>t, <1>i, <1>16, ReturnEffect DEF CompleteAssemble, RefsCurrent, Untouched, Goto,
     DatabaseTypeOK, DiskTypeOK, RequestTypeOK, CleanupTypeOK, HistoryTypeOK
<1>17. ASSUME NEW r \in Request, CompleteLink(r) PROVE RefsCurrent'
  BY <1>t, <1>i, <1>17, ReturnEffect DEF CompleteLink, RefsCurrent, Untouched, Goto,
     DatabaseTypeOK, DiskTypeOK, RequestTypeOK, CleanupTypeOK, HistoryTypeOK
<1>18. ASSUME NEW r \in Request, CompleteCommit(r) PROVE RefsCurrent'
  <2>1. maint = "idle" /\ tmp[r] = None
    BY <1>i, <1>18 DEF CompleteCommit, LocksHeld, RefsCurrent
  <2>2. \A q \in Request \ {r} : pc'[q] = pc[q]
    BY <1>t, <1>18, GotoEffect, ReturnEffect DEF CompleteCommit, Untouched, Step
  <2> QED BY <1>t, <1>i, <1>18, <2>1, <2>2 DEF CompleteCommit, RefsCurrent
<1>19. ASSUME NEW r \in Request, AbortDelete(r) PROVE RefsCurrent'
  <2>1. maint = "idle" /\ tmp[r] = None
    BY <1>i, <1>19 DEF AbortDelete, LocksHeld, RefsCurrent
  <2>2. \A q \in Request \ {r} : pc'[q] = pc[q]
    BY <1>t, <1>19, GotoEffect, ReturnEffect DEF AbortDelete, Untouched, Step
  <2> QED BY <1>t, <1>i, <1>19, <2>1, <2>2 DEF AbortDelete, RefsCurrent
<1>20. ASSUME NEW r \in Request, DeleteRows(r) PROVE RefsCurrent'
  <2>1. PICK us \in SUBSET uploads, fs \in SUBSET files : Delete(r, us, fs)
    BY <1>20, DeleteShape
  <2>2. maint = "idle"
    BY <1>i, <2>1 DEF Delete, LocksHeld
  <2> QED BY <1>i, <2>1, <2>2 DEF Delete, Goto, RefsCurrent
<1>21. ASSUME NEW r \in Request, RemoveNext(r) PROVE RefsCurrent'
  BY <1>i, <1>21 DEF RemoveNext, RemovePayload, DropDirs, DropObjects, Fault, RefsCurrent,
     Untouched, Goto
<1>22. ASSUME NEW r \in Request, Fail(r) PROVE RefsCurrent'
  BY <1>t, <1>i, <1>22, ReturnEffect DEF Fail, RefsCurrent, Untouched, Goto,
     DatabaseTypeOK, DiskTypeOK, RequestTypeOK, CleanupTypeOK, HistoryTypeOK
<1>23. CASE CleanupStart
  BY <1>i, <1>23 DEF CleanupStart, RefsCurrent, Untouched, Goto
<1>24. CASE CleanupRemoved
  BY <1>i, <1>24 DEF CleanupRemoved, CleanupOnly, RefsCurrent, Untouched, Goto
<1>25. CASE CleanupReferences
  BY <1>i, <1>25 DEF CleanupReferences, CleanupOnly, RefsCurrent, Untouched, Goto
<1>26. CASE CleanupEnd
  BY <1>i, <1>26 DEF CleanupEnd, CleanupOnly, RefsCurrent, Untouched, Goto
<1>27. CASE CleanupFail
  BY <1>i, <1>27 DEF CleanupFail, CleanupOnly, RefsCurrent, Untouched, Goto
<1>28. CASE Expire
  BY <1>i, <1>28 DEF Expire, RefsCurrent, Untouched, Goto
<1>29. CASE CleanupRooms
  BY <1>i, <1>29 DEF CleanupRooms, CleanupOnly, RefsCurrent, Untouched, Goto
<1>30. CASE CleanupEntries
  BY <1>i, <1>30 DEF CleanupEntries, Fault, CleanupOnly, DueEntries, RefsCurrent,
     Untouched, Goto
<1>31. CASE CleanupUploads
  BY <1>i, <1>31 DEF CleanupUploads, CleanupOnly, RefsCurrent, Untouched, Goto
<1>32. CASE CleanupRemove
  BY <1>i, <1>32 DEF CleanupRemove, RemovePayload, DropDirs, DropObjects, Fault,
     CleanupOnly, RefsCurrent, Untouched, Goto
<1>33. CASE CleanupReconcile
  BY <1>33 DEF CleanupReconcile, DropObjects, CleanupOnly, RefsCurrent, Untouched, Goto
<1>34. CASE Crash
  BY <1>34 DEF Crash, RefsCurrent, Untouched, Goto
<1>35. CASE UNCHANGED vars
  BY <1>i, <1>35 DEF vars, RefsCurrent, Untouched, Goto
<1> QED
  BY <1>1, <1>2, <1>3, <1>4, <1>5, <1>6, <1>7, <1>8, <1>9, <1>10, <1>11, <1>12, <1>13,
     <1>14, <1>15, <1>16, <1>17, <1>18, <1>19, <1>20, <1>21, <1>22, <1>23, <1>24, <1>25,
     <1>26, <1>27, <1>28, <1>29, <1>30, <1>31, <1>32, <1>33, <1>34, <1>35 DEF Next, Handle,
     Put, Complete, Abort, Cleanup

(* What putChunk relies on between linking the chunk file and recording    *)
(* it survives the steps of everybody else.                                *)
LEMMA PutInvStep == IInv /\ [Next]_vars => PutKnows'
<1> SUFFICES ASSUME IInv, [Next]_vars PROVE PutKnows'
  OBVIOUS
<1>t. DatabaseTypeOK /\ DiskTypeOK /\ RequestTypeOK /\ CleanupTypeOK /\ HistoryTypeOK
  BY DEF IInv, TypeOK
<1>i. RowsApart /\ LocksHeld /\ PutKnows /\ RecordedChunkKept /\ PendingDead /\ RefsCurrent
  BY DEF IInv
<1>1. ASSUME NEW v \in Upload, CreateUpload(v) PROVE PutKnows'
  BY <1>i, <1>1 DEF CreateUpload, PutKnows, PutKnowsAt, Untouched, Locked, LocksHeld, Step,
     PutStep, CompleteStep, AbortStep
<1>2. ASSUME NEW r \in Request, BeginUploadRequest(r) PROVE PutKnows'
  BY <1>t, <1>i, <1>2, GotoEffect DEF BeginUploadRequest, Begin, PutKnows, PutKnowsAt,
     Untouched, Locked, LocksHeld, Step, PutStep, CompleteStep, AbortStep, DatabaseTypeOK,
     DiskTypeOK, RequestTypeOK, CleanupTypeOK, HistoryTypeOK
<1>3. ASSUME NEW r \in Request, BeginDelete(r) PROVE PutKnows'
  BY <1>t, <1>i, <1>3, GotoEffect DEF BeginDelete, Begin, PutKnows, PutKnowsAt, Untouched,
     Locked, LocksHeld, Step, PutStep, CompleteStep, AbortStep, DatabaseTypeOK, DiskTypeOK,
     RequestTypeOK, CleanupTypeOK, HistoryTypeOK
<1>4. ASSUME NEW r \in Request, LockUpload(r) PROVE PutKnows'
  BY <1>t, <1>i, <1>4, GotoEffect DEF LockUpload, PutKnows, PutKnowsAt, Untouched, Locked,
     LocksHeld, Step, PutStep, CompleteStep, AbortStep, DatabaseTypeOK, DiskTypeOK,
     RequestTypeOK, CleanupTypeOK, HistoryTypeOK
<1>5. ASSUME NEW r \in Request, PutAuthorize(r) PROVE PutKnows'
  BY <1>t, <1>i, <1>5, GotoEffect, ReturnEffect DEF PutAuthorize, Open, PutKnows,
     PutKnowsAt, Untouched, Locked, LocksHeld, Step, PutStep, CompleteStep, AbortStep,
     DatabaseTypeOK, DiskTypeOK, RequestTypeOK, CleanupTypeOK, HistoryTypeOK
<1>6. ASSUME NEW r \in Request, CompleteLookup(r) PROVE PutKnows'
  BY <1>t, <1>i, <1>6, GotoEffect, ReturnEffect DEF CompleteLookup, PutKnows, PutKnowsAt,
     Untouched, Locked, LocksHeld, Step, PutStep, CompleteStep, AbortStep, DatabaseTypeOK,
     DiskTypeOK, RequestTypeOK, CleanupTypeOK, HistoryTypeOK
<1>7. ASSUME NEW r \in Request, CompleteAuthorize(r) PROVE PutKnows'
  BY <1>t, <1>i, <1>7, GotoEffect, ReturnEffect DEF CompleteAuthorize, Open, PutKnows,
     PutKnowsAt, Untouched, Locked, LocksHeld, Step, PutStep, CompleteStep, AbortStep,
     DatabaseTypeOK, DiskTypeOK, RequestTypeOK, CleanupTypeOK, HistoryTypeOK
<1>8. ASSUME NEW r \in Request, CompleteReceived(r) PROVE PutKnows'
  BY <1>t, <1>i, <1>8, GotoEffect, ReturnEffect DEF CompleteReceived, AllRecorded,
     PutKnows, PutKnowsAt, Untouched, Locked, LocksHeld, Step, PutStep, CompleteStep,
     AbortStep, DatabaseTypeOK, DiskTypeOK, RequestTypeOK, CleanupTypeOK, HistoryTypeOK
<1>9. ASSUME NEW r \in Request, CompleteMissing(r) PROVE PutKnows'
  BY <1>t, <1>i, <1>9, ReturnEffect DEF CompleteMissing, PutKnows, PutKnowsAt, Untouched,
     Locked, LocksHeld, DatabaseTypeOK, DiskTypeOK, RequestTypeOK, CleanupTypeOK,
     HistoryTypeOK
<1>10. ASSUME NEW r \in Request, AbortAuthorize(r) PROVE PutKnows'
  BY <1>t, <1>i, <1>10, GotoEffect, ReturnEffect DEF AbortAuthorize, Open, PutKnows,
     PutKnowsAt, Untouched, Locked, LocksHeld, Step, PutStep, CompleteStep, AbortStep,
     DatabaseTypeOK, DiskTypeOK, RequestTypeOK, CleanupTypeOK, HistoryTypeOK
<1>11. ASSUME NEW r \in Request, RemoveDone(r) PROVE PutKnows'
  BY <1>t, <1>i, <1>11, ReturnEffect DEF RemoveDone, PutKnows, PutKnowsAt, Untouched,
     Locked, LocksHeld, DatabaseTypeOK, DiskTypeOK, RequestTypeOK, CleanupTypeOK,
     HistoryTypeOK
<1>12. ASSUME NEW r \in Request, PutWrite(r) PROVE PutKnows'
  <2>1. PICK p \in Part : /\ up[r] \notin WrongNonce => p.header = p.body
                          /\ part' = [part EXCEPT ![r] = p]
    BY <1>12 DEF PutWrite
  <2>2. pc'[r] = "putLink" /\ \A q \in Request \ {r} : pc'[q] = pc[q]
    BY <1>t, <1>12, GotoEffect DEF PutWrite, Step, PutStep
  <2> SUFFICES ASSUME NEW q \in Request PROVE PutKnowsAt(q)'
    BY DEF PutKnows
  <2>3. CASE q = r
    BY <1>t, <1>12, <2>2, <2>3 DEF PutWrite, PutKnowsAt, RequestTypeOK, Careful
  <2>4. CASE q # r
    BY <1>i, <1>12, <2>2, <2>4 DEF PutWrite, PutKnows, PutKnowsAt
  <2> QED BY <2>3, <2>4
<1>13. ASSUME NEW r \in Request, PutLink(r) PROVE PutKnows'
  <2>1. \A q \in Request \ {r} : pc[q] \in Locked => StripeOf[up[q]] # StripeOf[up[r]]
    BY <1>i, <1>13 DEF PutLink, LocksHeld, Locked, PutStep, CompleteStep, AbortStep
  <2>2. \A q \in Request \ {r} : Untouched(q)
    BY <1>t, <1>13, GotoEffect, ReturnEffect DEF PutLink, Untouched, Step, PutStep,
       CompleteStep
  <2>3. up[r] \in Upload
    BY <1>t, <1>i, <1>13 DEF PutLink, LocksHeld, HistoryTypeOK, PutStep, CompleteStep,
       AbortStep
  <2>4. part[r].chunk \in Chunk /\ part[r].body \in Body
    BY <1>i, <1>13 DEF PutLink, PutKnows, PutKnowsAt, Part
  <2>5. \A v \in Upload : v # up[r] => chunkFile'[v] = chunkFile[v]
    BY <1>t, <1>13 DEF PutLink, DiskTypeOK
  <2> SUFFICES ASSUME NEW q \in Request PROVE PutKnowsAt(q)'
    BY DEF PutKnows
  <2>6. CASE q = r
    <3>1. CASE up[r] \in dirs /\ chunkFile[up[r]][part[r].chunk] \in {None, part[r].body}
      <4>1. pc'[r] \in {"putRecord", "putUndo"}
        BY <1>t, <1>13, <3>1, GotoEffect DEF PutLink, Step, PutStep
      <4>2. chunkFile'[up[r]][part[r].chunk] = part[r].body
        BY <1>t, <1>13, <3>1, <2>4, SetChunk DEF PutLink, DiskTypeOK
      <4>3. pc'[r] = "putUndo" => up[r] \notin Careful
        BY <1>t, <1>i, <1>13, <3>1, GotoEffect DEF PutLink, PutKnows, PutKnowsAt, Step,
           PutStep
      <4> QED BY <1>i, <1>13, <2>6, <3>1, <4>2, <4>3 DEF PutLink, PutKnows, PutKnowsAt
    <3>2. CASE ~(up[r] \in dirs /\ chunkFile[up[r]][part[r].chunk] \in {None, part[r].body})
      BY <1>t, <1>13, <2>6, <3>2, ReturnEffect DEF PutLink, PutKnowsAt
    <3> QED BY <3>1, <3>2
  <2>7. CASE q # r
    <3>1. pc[q] \in Locked => up[q] # up[r]
      BY <2>1, <2>7
    <3>2. pc[q] \in Locked => up[q] \in Upload
      BY <1>t, <1>i DEF LocksHeld, Locked, HistoryTypeOK
    <3> QED BY <1>i, <1>13, <2>2, <2>5, <3>1, <3>2 DEF PutLink, PutKnows, PutKnowsAt,
       Untouched, Locked, PutStep
  <2> QED BY <2>6, <2>7
<1>14. ASSUME NEW r \in Request, PutRecord(r) PROVE PutKnows'
  <2>1. \A q \in Request \ {r} : pc[q] \in Locked => StripeOf[up[q]] # StripeOf[up[r]]
    BY <1>i, <1>14 DEF PutRecord, LocksHeld, Locked, PutStep, CompleteStep, AbortStep
  <2>2. \A q \in Request \ {r} : Untouched(q)
    BY <1>t, <1>14, GotoEffect, ReturnEffect DEF PutRecord, Untouched, Step, PutStep,
       CompleteStep
  <2>3. up[r] \in Upload
    BY <1>t, <1>i, <1>14 DEF PutRecord, LocksHeld, HistoryTypeOK, PutStep, CompleteStep,
       AbortStep
  <2>4. part[r].chunk \in Chunk /\ part[r].body \in Body
    BY <1>i, <1>14 DEF PutRecord, PutKnows, PutKnowsAt, Part
  <2>5. \A v \in Upload : v # up[r] => chunkRow'[v] = chunkRow[v]
    BY <1>t, <1>14 DEF PutRecord, DatabaseTypeOK
  <2> SUFFICES ASSUME NEW q \in Request PROVE PutKnowsAt(q)'
    BY DEF PutKnows
  <2>6. CASE q = r
    <3>1. CASE pc'[r] = "idle"
      BY <2>6, <3>1 DEF PutKnowsAt
    <3>2. CASE /\ ~Insertable(up[r], part[r].chunk, part[r].body)
               /\ chunkRow[up[r]][part[r].chunk] # part[r].body
               /\ Goto(r, "putUndo") /\ UNCHANGED <<up, part, pend, lock, chunkRow>>
      <4>1. pc'[r] = "putUndo"
        BY <1>t, <3>2, GotoEffect DEF Step, PutStep
      <4>2. up[r] \in uploads \cap Careful => chunkRow[up[r]][part[r].chunk] = None
        BY <1>i, <1>14, <3>2, <2>4 DEF PutRecord, Insertable, PutKnows, PutKnowsAt,
           RecordedChunkKept
      <4> QED BY <1>i, <1>14, <2>6, <3>2, <4>2 DEF PutRecord, PutKnows, PutKnowsAt
    <3> QED BY <1>t, <1>14, <3>1, <3>2, ReturnEffect DEF PutRecord
  <2>7. CASE q # r
    <3>1. pc[q] \in Locked => up[q] # up[r]
      BY <2>1, <2>7
    <3>2. pc[q] \in Locked => up[q] \in Upload
      BY <1>t, <1>i DEF LocksHeld, Locked, HistoryTypeOK
    <3> QED BY <1>i, <1>14, <2>2, <2>5, <3>1, <3>2 DEF PutRecord, PutKnows, PutKnowsAt,
       Untouched, Locked, PutStep
  <2> QED BY <2>6, <2>7
<1>15. ASSUME NEW r \in Request, PutUndo(r) PROVE PutKnows'
  BY <1>t, <1>i, <1>15, ReturnEffect DEF PutUndo, PutKnows, PutKnowsAt, Untouched, Locked,
     LocksHeld, Step, PutStep, CompleteStep, AbortStep, DatabaseTypeOK, DiskTypeOK,
     RequestTypeOK, CleanupTypeOK, HistoryTypeOK
<1>16. ASSUME NEW r \in Request, CompleteAssemble(r) PROVE PutKnows'
  BY <1>t, <1>i, <1>16, GotoEffect, ReturnEffect DEF CompleteAssemble, PutKnows,
     PutKnowsAt, Untouched, Locked, LocksHeld, Step, PutStep, CompleteStep, AbortStep,
     DatabaseTypeOK, DiskTypeOK, RequestTypeOK, CleanupTypeOK, HistoryTypeOK
<1>17. ASSUME NEW r \in Request, CompleteLink(r) PROVE PutKnows'
  BY <1>t, <1>i, <1>17, GotoEffect, ReturnEffect DEF CompleteLink, PutKnows, PutKnowsAt,
     Untouched, Locked, LocksHeld, Step, PutStep, CompleteStep, AbortStep, DatabaseTypeOK,
     DiskTypeOK, RequestTypeOK, CleanupTypeOK, HistoryTypeOK
<1>18. ASSUME NEW r \in Request, CompleteCommit(r) PROVE PutKnows'
  BY <1>t, <1>i, <1>18, GotoEffect, ReturnEffect DEF CompleteCommit, AllRecorded, PutKnows,
     PutKnowsAt, Untouched, Locked, LocksHeld, Step, PutStep, CompleteStep, AbortStep,
     DatabaseTypeOK, DiskTypeOK, RequestTypeOK, CleanupTypeOK, HistoryTypeOK
<1>19. ASSUME NEW r \in Request, AbortDelete(r) PROVE PutKnows'
  BY <1>t, <1>i, <1>19, GotoEffect, ReturnEffect DEF AbortDelete, DropRows, PutKnows,
     PutKnowsAt, Untouched, Locked, LocksHeld, Step, PutStep, CompleteStep, AbortStep,
     DatabaseTypeOK, DiskTypeOK, RequestTypeOK, CleanupTypeOK, HistoryTypeOK
<1>20. ASSUME NEW r \in Request, DeleteRows(r) PROVE PutKnows'
  <2>1. PICK us \in SUBSET uploads, fs \in SUBSET files : Delete(r, us, fs)
    BY <1>20, <1>t, DeleteShape
  <2> QED BY <1>t, <1>i, <2>1, GotoEffect DEF Delete, DropRows, PutKnows, PutKnowsAt,
     Untouched, Locked, LocksHeld, Step, PutStep, CompleteStep, AbortStep, DatabaseTypeOK,
     DiskTypeOK, RequestTypeOK, CleanupTypeOK, HistoryTypeOK
<1>21. ASSUME NEW r \in Request, RemoveNext(r) PROVE PutKnows'
  <2>1. PICK x \in pend[r] : RemovePayload(x) \/ UNCHANGED disk
    BY <1>21 DEF RemoveNext
  <2>2. x \in Payload /\ Dead(x)
    BY <1>t, <1>i DEF RequestTypeOK, PendingDead
  <2>3. CASE RemovePayload(x)
    <3>1. SparesTheLiving
      BY <1>t, <2>2, <2>3, RemovalEffect
    <3> QED BY <1>i, <1>21, <3>1 DEF RemoveNext, RemovePayload, SparesTheLiving, PutKnows,
       PutKnowsAt, LocksHeld, RowsApart, Careful
  <2>4. CASE UNCHANGED disk
    BY <1>i, <1>21, <2>4 DEF RemoveNext, PutKnows, PutKnowsAt, LocksHeld, RowsApart,
       DatabaseTypeOK, HistoryTypeOK, Careful
  <2> QED BY <2>1, <2>3, <2>4
<1>22. ASSUME NEW r \in Request, Fail(r) PROVE PutKnows'
  BY <1>t, <1>i, <1>22, ReturnEffect DEF Fail, Fault, PutKnows, PutKnowsAt, Untouched,
     Locked, LocksHeld, DatabaseTypeOK, DiskTypeOK, RequestTypeOK, CleanupTypeOK,
     HistoryTypeOK
<1>23. CASE CleanupStart
  BY <1>23 DEF CleanupStart, PutKnows, PutKnowsAt, Untouched, Locked, LocksHeld
<1>24. CASE CleanupRemoved
  BY <1>i, <1>24 DEF CleanupRemoved, CleanupOnly, PutKnows, PutKnowsAt, Untouched, Locked,
     LocksHeld
<1>25. CASE CleanupReferences
  BY <1>i, <1>25 DEF CleanupReferences, CleanupOnly, PutKnows, PutKnowsAt, Untouched,
     Locked, LocksHeld
<1>26. CASE CleanupEnd
  BY <1>i, <1>26 DEF CleanupEnd, CleanupOnly, PutKnows, PutKnowsAt, Untouched, Locked,
     LocksHeld
<1>27. CASE CleanupFail
  BY <1>i, <1>27 DEF CleanupFail, Fault, CleanupOnly, PutKnows, PutKnowsAt, Untouched,
     Locked, LocksHeld
<1>28. CASE Expire
  BY <1>i, <1>28 DEF Expire, PutKnows, PutKnowsAt, Untouched, Locked, LocksHeld
<1>29. CASE CleanupRooms
  BY <1>i, <1>29 DEF CleanupRooms, DropRows, CleanupOnly, PutKnows, PutKnowsAt, Untouched,
     Locked, LocksHeld
<1>30. CASE CleanupEntries
  BY <1>i, <1>30 DEF CleanupEntries, DropRows, Fault, CleanupOnly, DueEntries, PutKnows,
     PutKnowsAt, Untouched, Locked, LocksHeld
<1>31. CASE CleanupUploads
  BY <1>i, <1>31 DEF CleanupUploads, Fault, CleanupOnly, PutKnows, PutKnowsAt, Untouched,
     Locked, LocksHeld
<1>32. CASE CleanupRemove
  <2>1. PICK x \in mpend : RemovePayload(x) \/ UNCHANGED disk
    BY <1>32 DEF CleanupRemove
  <2>2. x \in Payload /\ Dead(x)
    BY <1>t, <1>i DEF CleanupTypeOK, PendingDead
  <2>3. CASE RemovePayload(x)
    <3>1. SparesTheLiving
      BY <1>t, <2>2, <2>3, RemovalEffect
    <3> QED BY <1>i, <1>32 DEF CleanupRemove, RemovePayload, CleanupOnly, SparesTheLiving,
       PutKnows, PutKnowsAt, LocksHeld, RowsApart, Careful
  <2>4. CASE UNCHANGED disk
    BY <1>i, <1>32 DEF CleanupRemove, CleanupOnly, PutKnows, PutKnowsAt, LocksHeld,
       RowsApart, DatabaseTypeOK, HistoryTypeOK, Careful
  <2> QED BY <2>1, <2>3, <2>4
<1>33. CASE CleanupReconcile
  <2>1. SparesTheLiving
    BY <1>t, <1>i, <1>33, ReconcileEffect
  <2> QED BY <1>i, <1>33 DEF CleanupReconcile, CleanupOnly, SparesTheLiving, PutKnows,
     PutKnowsAt, LocksHeld, RowsApart, Careful
<1>34. CASE Crash
  BY <1>34 DEF Crash, Fault, PutKnows, PutKnowsAt, Untouched, Locked, LocksHeld
<1>35. CASE UNCHANGED vars
  BY <1>i, <1>35 DEF vars, PutKnows, PutKnowsAt, Untouched, Locked, LocksHeld
<1> QED
  BY <1>1, <1>2, <1>3, <1>4, <1>5, <1>6, <1>7, <1>8, <1>9, <1>10, <1>11, <1>12, <1>13,
     <1>14, <1>15, <1>16, <1>17, <1>18, <1>19, <1>20, <1>21, <1>22, <1>23, <1>24, <1>25,
     <1>26, <1>27, <1>28, <1>29, <1>30, <1>31, <1>32, <1>33, <1>34, <1>35 DEF Next, Handle,
     Put, Complete, Abort, Cleanup

(* What completeUpload relies on between its checks and its commit         *)
(* survives the steps of everybody else.                                   *)
LEMMA CompleteInvStep == IInv /\ [Next]_vars => CompleteKnows'
<1> SUFFICES ASSUME IInv, [Next]_vars PROVE CompleteKnows'
  OBVIOUS
<1>t. DatabaseTypeOK /\ DiskTypeOK /\ RequestTypeOK /\ CleanupTypeOK /\ HistoryTypeOK
  BY DEF IInv, TypeOK
<1>i. RowsApart /\ LocksHeld /\ CompleteKnows /\ RecordedChunkKept /\ PendingDead /\ RefsCurrent
  BY DEF IInv
<1>1. ASSUME NEW v \in Upload, CreateUpload(v) PROVE CompleteKnows'
  BY <1>i, <1>1 DEF CreateUpload, CompleteKnows, CompleteKnowsAt, AllRecorded, Untouched,
     Locked, LocksHeld, Step, PutStep, CompleteStep, AbortStep
<1>2. ASSUME NEW r \in Request, BeginUploadRequest(r) PROVE CompleteKnows'
  BY <1>t, <1>i, <1>2, GotoEffect DEF BeginUploadRequest, Begin, CompleteKnows,
     CompleteKnowsAt, AllRecorded, Untouched, Locked, LocksHeld, Step, PutStep,
     CompleteStep, AbortStep, DatabaseTypeOK, DiskTypeOK, RequestTypeOK, CleanupTypeOK,
     HistoryTypeOK
<1>3. ASSUME NEW r \in Request, BeginDelete(r) PROVE CompleteKnows'
  BY <1>t, <1>i, <1>3, GotoEffect DEF BeginDelete, Begin, CompleteKnows, CompleteKnowsAt,
     AllRecorded, Untouched, Locked, LocksHeld, Step, PutStep, CompleteStep, AbortStep,
     DatabaseTypeOK, DiskTypeOK, RequestTypeOK, CleanupTypeOK, HistoryTypeOK
<1>4. ASSUME NEW r \in Request, LockUpload(r) PROVE CompleteKnows'
  BY <1>t, <1>i, <1>4, GotoEffect DEF LockUpload, CompleteKnows, CompleteKnowsAt,
     AllRecorded, Untouched, Locked, LocksHeld, Step, PutStep, CompleteStep, AbortStep,
     DatabaseTypeOK, DiskTypeOK, RequestTypeOK, CleanupTypeOK, HistoryTypeOK
<1>5. ASSUME NEW r \in Request, PutAuthorize(r) PROVE CompleteKnows'
  BY <1>t, <1>i, <1>5, GotoEffect, ReturnEffect DEF PutAuthorize, Open, CompleteKnows,
     CompleteKnowsAt, AllRecorded, Untouched, Locked, LocksHeld, Step, PutStep,
     CompleteStep, AbortStep, DatabaseTypeOK, DiskTypeOK, RequestTypeOK, CleanupTypeOK,
     HistoryTypeOK
<1>6. ASSUME NEW r \in Request, CompleteLookup(r) PROVE CompleteKnows'
  BY <1>t, <1>i, <1>6, GotoEffect, ReturnEffect DEF CompleteLookup, CompleteKnows,
     CompleteKnowsAt, AllRecorded, Untouched, Locked, LocksHeld, Step, PutStep,
     CompleteStep, AbortStep, DatabaseTypeOK, DiskTypeOK, RequestTypeOK, CleanupTypeOK,
     HistoryTypeOK
<1>7. ASSUME NEW r \in Request, CompleteAuthorize(r) PROVE CompleteKnows'
  BY <1>t, <1>i, <1>7, GotoEffect, ReturnEffect DEF CompleteAuthorize, Open, CompleteKnows,
     CompleteKnowsAt, AllRecorded, Untouched, Locked, LocksHeld, Step, PutStep,
     CompleteStep, AbortStep, DatabaseTypeOK, DiskTypeOK, RequestTypeOK, CleanupTypeOK,
     HistoryTypeOK
<1>8. ASSUME NEW r \in Request, CompleteReceived(r) PROVE CompleteKnows'
  BY <1>t, <1>i, <1>8, GotoEffect, ReturnEffect DEF CompleteReceived, AllRecorded,
     CompleteKnows, CompleteKnowsAt, Untouched, Locked, LocksHeld, Step, PutStep,
     CompleteStep, AbortStep, DatabaseTypeOK, DiskTypeOK, RequestTypeOK, CleanupTypeOK,
     HistoryTypeOK
<1>9. ASSUME NEW r \in Request, CompleteMissing(r) PROVE CompleteKnows'
  BY <1>t, <1>i, <1>9, ReturnEffect DEF CompleteMissing, CompleteKnows, CompleteKnowsAt,
     AllRecorded, Untouched, Locked, LocksHeld, DatabaseTypeOK, DiskTypeOK, RequestTypeOK,
     CleanupTypeOK, HistoryTypeOK
<1>10. ASSUME NEW r \in Request, AbortAuthorize(r) PROVE CompleteKnows'
  BY <1>t, <1>i, <1>10, GotoEffect, ReturnEffect DEF AbortAuthorize, Open, CompleteKnows,
     CompleteKnowsAt, AllRecorded, Untouched, Locked, LocksHeld, Step, PutStep,
     CompleteStep, AbortStep, DatabaseTypeOK, DiskTypeOK, RequestTypeOK, CleanupTypeOK,
     HistoryTypeOK
<1>11. ASSUME NEW r \in Request, RemoveDone(r) PROVE CompleteKnows'
  BY <1>t, <1>i, <1>11, ReturnEffect DEF RemoveDone, CompleteKnows, CompleteKnowsAt,
     AllRecorded, Untouched, Locked, LocksHeld, DatabaseTypeOK, DiskTypeOK, RequestTypeOK,
     CleanupTypeOK, HistoryTypeOK
<1>12. ASSUME NEW r \in Request, PutWrite(r) PROVE CompleteKnows'
  BY <1>t, <1>i, <1>12, GotoEffect DEF PutWrite, CompleteKnows, CompleteKnowsAt,
     AllRecorded, Untouched, Locked, LocksHeld, Step, PutStep, CompleteStep, AbortStep,
     DatabaseTypeOK, DiskTypeOK, RequestTypeOK, CleanupTypeOK, HistoryTypeOK
<1>13. ASSUME NEW r \in Request, PutLink(r) PROVE CompleteKnows'
  BY <1>t, <1>i, <1>13, GotoEffect, ReturnEffect DEF PutLink, CompleteKnows,
     CompleteKnowsAt, AllRecorded, Untouched, Locked, LocksHeld, Step, PutStep,
     CompleteStep, AbortStep, DatabaseTypeOK, DiskTypeOK, RequestTypeOK, CleanupTypeOK,
     HistoryTypeOK
<1>14. ASSUME NEW r \in Request, PutRecord(r) PROVE CompleteKnows'
  BY <1>t, <1>i, <1>14, GotoEffect, ReturnEffect DEF PutRecord, Insertable, CompleteKnows,
     CompleteKnowsAt, AllRecorded, Untouched, Locked, LocksHeld, Step, PutStep,
     CompleteStep, AbortStep, DatabaseTypeOK, DiskTypeOK, RequestTypeOK, CleanupTypeOK,
     HistoryTypeOK
<1>15. ASSUME NEW r \in Request, PutUndo(r) PROVE CompleteKnows'
  BY <1>t, <1>i, <1>15, ReturnEffect DEF PutUndo, CompleteKnows, CompleteKnowsAt,
     AllRecorded, Untouched, Locked, LocksHeld, DatabaseTypeOK, DiskTypeOK, RequestTypeOK,
     CleanupTypeOK, HistoryTypeOK
<1>16. ASSUME NEW r \in Request, CompleteAssemble(r) PROVE CompleteKnows'
  <2>1. \A q \in Request \ {r} : pc[q] \in Locked => StripeOf[up[q]] # StripeOf[up[r]]
    BY <1>i, <1>16 DEF CompleteAssemble, LocksHeld, Locked, PutStep, CompleteStep, AbortStep
  <2>2. \A q \in Request \ {r} : Untouched(q)
    BY <1>t, <1>16, GotoEffect, ReturnEffect DEF CompleteAssemble, Untouched, Step,
       PutStep, CompleteStep
  <2>3. up[r] \in Upload
    BY <1>t, <1>i, <1>16 DEF CompleteAssemble, LocksHeld, HistoryTypeOK, PutStep,
       CompleteStep, AbortStep
  <2> SUFFICES ASSUME NEW q \in Request PROVE CompleteKnowsAt(q)'
    BY DEF CompleteKnows
  <2>4. CASE q = r
    <3>1. CASE \A c \in Chunk : chunkFile[up[r]][c] # None
      <4>1. pc'[r] = "completeLink" /\ tmp'[r] = chunkFile[up[r]]
        BY <1>t, <1>16, <3>1, GotoEffect DEF CompleteAssemble, DiskTypeOK, Step,
           CompleteStep
      <4>2. up[r] \in uploads => AllRecorded(up[r])
        BY <1>i, <1>16 DEF CompleteAssemble, CompleteKnows, CompleteKnowsAt
      <4>3. up[r] \in uploads \cap Careful => chunkFile[up[r]] = chunkRow[up[r]]
        <5>1. chunkFile[up[r]] \in Partial /\ chunkRow[up[r]] \in Partial
          BY <1>t, <2>3 DEF DiskTypeOK, DatabaseTypeOK
        <5> QED BY <1>i, <4>2, <5>1 DEF AllRecorded, RecordedChunkKept, Partial
      <4> QED BY <1>16, <2>4, <3>1, <4>1, <4>2, <4>3 DEF CompleteAssemble, CompleteKnowsAt,
         AllRecorded
    <3>2. CASE ~\A c \in Chunk : chunkFile[up[r]][c] # None
      BY <1>t, <1>16, <2>4, <3>2, ReturnEffect DEF CompleteAssemble, CompleteKnowsAt
    <3> QED BY <3>1, <3>2
  <2>5. CASE q # r
    BY <1>t, <1>i, <1>16, <2>2, <2>5 DEF CompleteAssemble, CompleteKnows, CompleteKnowsAt,
       AllRecorded, Untouched, DiskTypeOK
  <2> QED BY <2>4, <2>5
<1>17. ASSUME NEW r \in Request, CompleteLink(r) PROVE CompleteKnows'
  BY <1>t, <1>i, <1>17, GotoEffect, ReturnEffect DEF CompleteLink, CompleteKnows,
     CompleteKnowsAt, AllRecorded, Untouched, Locked, LocksHeld, Step, PutStep,
     CompleteStep, AbortStep, DatabaseTypeOK, DiskTypeOK, RequestTypeOK, CleanupTypeOK,
     HistoryTypeOK
<1>18. ASSUME NEW r \in Request, CompleteCommit(r) PROVE CompleteKnows'
  BY <1>t, <1>i, <1>18, GotoEffect, ReturnEffect DEF CompleteCommit, AllRecorded,
     CompleteKnows, CompleteKnowsAt, Untouched, Locked, LocksHeld, Step, PutStep,
     CompleteStep, AbortStep, DatabaseTypeOK, DiskTypeOK, RequestTypeOK, CleanupTypeOK,
     HistoryTypeOK
<1>19. ASSUME NEW r \in Request, AbortDelete(r) PROVE CompleteKnows'
  BY <1>t, <1>i, <1>19, GotoEffect, ReturnEffect DEF AbortDelete, DropRows, CompleteKnows,
     CompleteKnowsAt, AllRecorded, Untouched, Locked, LocksHeld, Step, PutStep,
     CompleteStep, AbortStep, DatabaseTypeOK, DiskTypeOK, RequestTypeOK, CleanupTypeOK,
     HistoryTypeOK
<1>20. ASSUME NEW r \in Request, DeleteRows(r) PROVE CompleteKnows'
  <2>1. PICK us \in SUBSET uploads, fs \in SUBSET files : Delete(r, us, fs)
    BY <1>20, <1>t, DeleteShape
  <2> QED BY <1>t, <1>i, <2>1, GotoEffect DEF Delete, DropRows, CompleteKnows,
     CompleteKnowsAt, AllRecorded, Untouched, Locked, LocksHeld, Step, PutStep,
     CompleteStep, AbortStep, DatabaseTypeOK, DiskTypeOK, RequestTypeOK, CleanupTypeOK,
     HistoryTypeOK
<1>21. ASSUME NEW r \in Request, RemoveNext(r) PROVE CompleteKnows'
  <2>1. PICK x \in pend[r] : RemovePayload(x) \/ UNCHANGED disk
    BY <1>21 DEF RemoveNext
  <2>2. x \in Payload /\ Dead(x)
    BY <1>t, <1>i DEF RequestTypeOK, PendingDead
  <2>3. CASE RemovePayload(x)
    <3>1. SparesTheLiving
      BY <1>t, <2>2, <2>3, RemovalEffect
    <3> QED BY <1>i, <1>21, <3>1 DEF RemoveNext, RemovePayload, SparesTheLiving,
       CompleteKnows, CompleteKnowsAt, AllRecorded, LocksHeld, RowsApart, Careful
  <2>4. CASE UNCHANGED disk
    BY <1>i, <1>21, <2>4 DEF RemoveNext, CompleteKnows, CompleteKnowsAt, AllRecorded,
       LocksHeld, RowsApart, DatabaseTypeOK, HistoryTypeOK, Careful
  <2> QED BY <2>1, <2>3, <2>4
<1>22. ASSUME NEW r \in Request, Fail(r) PROVE CompleteKnows'
  BY <1>t, <1>i, <1>22, ReturnEffect DEF Fail, Fault, CompleteKnows, CompleteKnowsAt,
     AllRecorded, Untouched, Locked, LocksHeld, DatabaseTypeOK, DiskTypeOK, RequestTypeOK,
     CleanupTypeOK, HistoryTypeOK
<1>23. CASE CleanupStart
  BY <1>23 DEF CleanupStart, CompleteKnows, CompleteKnowsAt, AllRecorded, Untouched,
     Locked, LocksHeld
<1>24. CASE CleanupRemoved
  BY <1>i, <1>24 DEF CleanupRemoved, CleanupOnly, CompleteKnows, CompleteKnowsAt,
     AllRecorded, Untouched, Locked, LocksHeld
<1>25. CASE CleanupReferences
  BY <1>i, <1>25 DEF CleanupReferences, CleanupOnly, CompleteKnows, CompleteKnowsAt,
     AllRecorded, Untouched, Locked, LocksHeld
<1>26. CASE CleanupEnd
  BY <1>i, <1>26 DEF CleanupEnd, CleanupOnly, CompleteKnows, CompleteKnowsAt, AllRecorded,
     Untouched, Locked, LocksHeld
<1>27. CASE CleanupFail
  BY <1>i, <1>27 DEF CleanupFail, Fault, CleanupOnly, CompleteKnows, CompleteKnowsAt,
     AllRecorded, Untouched, Locked, LocksHeld
<1>28. CASE Expire
  BY <1>i, <1>28 DEF Expire, CompleteKnows, CompleteKnowsAt, AllRecorded, Untouched,
     Locked, LocksHeld
<1>29. CASE CleanupRooms
  BY <1>i, <1>29 DEF CleanupRooms, DropRows, CleanupOnly, CompleteKnows, CompleteKnowsAt,
     AllRecorded, Untouched, Locked, LocksHeld
<1>30. CASE CleanupEntries
  BY <1>i, <1>30 DEF CleanupEntries, DropRows, Fault, CleanupOnly, DueEntries,
     CompleteKnows, CompleteKnowsAt, AllRecorded, Untouched, Locked, LocksHeld
<1>31. CASE CleanupUploads
  BY <1>i, <1>31 DEF CleanupUploads, Fault, CleanupOnly, CompleteKnows, CompleteKnowsAt,
     AllRecorded, Untouched, Locked, LocksHeld
<1>32. CASE CleanupRemove
  <2>1. PICK x \in mpend : RemovePayload(x) \/ UNCHANGED disk
    BY <1>32 DEF CleanupRemove
  <2>2. x \in Payload /\ Dead(x)
    BY <1>t, <1>i DEF CleanupTypeOK, PendingDead
  <2>3. CASE RemovePayload(x)
    <3>1. SparesTheLiving
      BY <1>t, <2>2, <2>3, RemovalEffect
    <3> QED BY <1>i, <1>32 DEF CleanupRemove, RemovePayload, CleanupOnly, SparesTheLiving,
       CompleteKnows, CompleteKnowsAt, AllRecorded, LocksHeld, RowsApart, Careful
  <2>4. CASE UNCHANGED disk
    BY <1>i, <1>32 DEF CleanupRemove, CleanupOnly, CompleteKnows, CompleteKnowsAt,
       AllRecorded, LocksHeld, RowsApart, DatabaseTypeOK, HistoryTypeOK, Careful
  <2> QED BY <2>1, <2>3, <2>4
<1>33. CASE CleanupReconcile
  <2>1. SparesTheLiving
    BY <1>t, <1>i, <1>33, ReconcileEffect
  <2> QED BY <1>i, <1>33 DEF CleanupReconcile, CleanupOnly, SparesTheLiving, CompleteKnows,
     CompleteKnowsAt, AllRecorded, LocksHeld, RowsApart, Careful
<1>34. CASE Crash
  BY <1>34 DEF Crash, Fault, CompleteKnows, CompleteKnowsAt, AllRecorded, Untouched,
     Locked, LocksHeld
<1>35. CASE UNCHANGED vars
  BY <1>i, <1>35 DEF vars, CompleteKnows, CompleteKnowsAt, AllRecorded, Untouched, Locked,
     LocksHeld
<1> QED
  BY <1>1, <1>2, <1>3, <1>4, <1>5, <1>6, <1>7, <1>8, <1>9, <1>10, <1>11, <1>12, <1>13,
     <1>14, <1>15, <1>16, <1>17, <1>18, <1>19, <1>20, <1>21, <1>22, <1>23, <1>24, <1>25,
     <1>26, <1>27, <1>28, <1>29, <1>30, <1>31, <1>32, <1>33, <1>34, <1>35 DEF Next, Handle,
     Put, Complete, Abort, Cleanup

(* No step loses or changes a recorded chunk of an open upload.            *)
LEMMA ChunkStep == IInv /\ [Next]_vars => RecordedChunkKept'
<1> SUFFICES ASSUME IInv, [Next]_vars PROVE RecordedChunkKept'
  OBVIOUS
<1>t. DatabaseTypeOK /\ DiskTypeOK /\ RequestTypeOK /\ CleanupTypeOK /\ HistoryTypeOK
  BY DEF IInv, TypeOK
<1>i. RowsApart /\ LocksHeld /\ PutKnows /\ PendingDead /\ RefsCurrent /\ RecordedChunkKept
  BY DEF IInv
<1>1. CASE QuietStep
  BY <1>i, <1>1, QuietEffect DEF RecordedChunkKept
<1>2. ASSUME NEW v \in Upload, CreateUpload(v) PROVE RecordedChunkKept'
  <2>1. chunkRow[v] = NoChunks
    BY <1>i, <1>2 DEF CreateUpload, RowsApart
  <2> QED BY <1>i, <1>2, <2>1 DEF CreateUpload, RecordedChunkKept, NoChunks
<1>3. ASSUME NEW r \in Request, PutWrite(r) PROVE RecordedChunkKept'
  BY <1>i, <1>3 DEF PutWrite, RecordedChunkKept
<1>4. ASSUME NEW r \in Request, PutLink(r) PROVE RecordedChunkKept'
  <2>1. up[r] \in Upload
    BY <1>t, <1>i, <1>4 DEF PutLink, LocksHeld, HistoryTypeOK, PutStep, CompleteStep,
       AbortStep
  <2>2. part[r].chunk \in Chunk /\ part[r].body \in Body
    BY <1>i, <1>4 DEF PutLink, PutKnows, PutKnowsAt, Part
  <2>3. CASE up[r] \in dirs /\ chunkFile[up[r]][part[r].chunk] \in {None, part[r].body}
    <3>1. chunkFile' = [chunkFile EXCEPT ![up[r]][part[r].chunk] = part[r].body]
      BY <1>4, <2>3 DEF PutLink
    <3>2. \A u \in uploads,
       c \in Chunk : chunkFile[u][c] # None => chunkFile'[u][c] = chunkFile[u][c]
      BY <2>3, <3>1
    <3> QED BY <1>i, <1>4, <3>2 DEF PutLink, RecordedChunkKept
  <2>4. CASE ~(up[r] \in dirs /\ chunkFile[up[r]][part[r].chunk] \in {None, part[r].body})
    BY <1>i, <1>4, <2>4 DEF PutLink, RecordedChunkKept
  <2> QED BY <2>3, <2>4
<1>5. ASSUME NEW r \in Request, PutRecord(r) PROVE RecordedChunkKept'
  <2>1. up[r] \in Upload
    BY <1>t, <1>i, <1>5 DEF PutRecord, LocksHeld, HistoryTypeOK, PutStep, CompleteStep,
       AbortStep
  <2>2. part[r].chunk \in Chunk /\ part[r].body \in Body
    BY <1>i, <1>5 DEF PutRecord, PutKnows, PutKnowsAt, Part
  <2>3. CASE chunkRow' = [chunkRow EXCEPT ![up[r]][part[r].chunk] = part[r].body]
    <3>1. up[r] \in uploads => chunkFile[up[r]][part[r].chunk] = part[r].body
      BY <1>i, <1>5 DEF PutRecord, PutKnows, PutKnowsAt
    <3>2. \A u \in uploads, c \in Chunk :
            chunkRow'[u][c] = IF u = up[r] /\ c = part[r].chunk THEN part[r].body ELSE chunkRow[u][c]
      BY <1>t, <2>2, <2>3, SetChunk DEF DatabaseTypeOK
    <3> QED BY <1>i, <1>5, <3>1, <3>2 DEF PutRecord, RecordedChunkKept
  <2>4. CASE UNCHANGED chunkRow
    BY <1>i, <1>5, <2>4 DEF PutRecord, RecordedChunkKept
  <2> QED BY <1>5, <2>3, <2>4 DEF PutRecord
<1>6. ASSUME NEW r \in Request, PutUndo(r) PROVE RecordedChunkKept'
  <2>1. up[r] \in Upload
    BY <1>t, <1>i, <1>6 DEF PutUndo, LocksHeld, HistoryTypeOK, PutStep, CompleteStep,
       AbortStep
  <2>2. part[r].chunk \in Chunk /\ part[r].body \in Body
    BY <1>i, <1>6 DEF PutUndo, PutKnows, PutKnowsAt, Part
  <2>3. up[r] \in uploads \cap Careful => chunkRow[up[r]][part[r].chunk] = None
    BY <1>i, <1>6 DEF PutUndo, PutKnows, PutKnowsAt
  <2>4. \A u \in uploads, c \in Chunk :
          u # up[r] \/ c # part[r].chunk => chunkFile'[u][c] = chunkFile[u][c]
    BY <1>6 DEF PutUndo
  <2> QED BY <1>i, <1>6, <2>3, <2>4 DEF PutUndo, RecordedChunkKept
<1>7. ASSUME NEW r \in Request, CompleteAssemble(r) PROVE RecordedChunkKept'
  BY <1>i, <1>7 DEF CompleteAssemble, RecordedChunkKept
<1>8. ASSUME NEW r \in Request, CompleteLink(r) PROVE RecordedChunkKept'
  BY <1>i, <1>8 DEF CompleteLink, RecordedChunkKept
<1>9. ASSUME NEW r \in Request, CompleteCommit(r) PROVE RecordedChunkKept'
  BY <1>t, <1>i, <1>9 DEF CompleteCommit, RecordedChunkKept, NoChunks, DatabaseTypeOK,
     DiskTypeOK, RequestTypeOK, CleanupTypeOK, HistoryTypeOK
<1>10. ASSUME NEW r \in Request, AbortDelete(r) PROVE RecordedChunkKept'
  BY <1>t, <1>i, <1>10 DEF AbortDelete, DropRows, RecordedChunkKept, NoChunks,
     DatabaseTypeOK, DiskTypeOK, RequestTypeOK, CleanupTypeOK, HistoryTypeOK
<1>11. ASSUME NEW r \in Request, DeleteRows(r) PROVE RecordedChunkKept'
  <2>1. PICK us \in SUBSET uploads, fs \in SUBSET files : Delete(r, us, fs)
    BY <1>11, <1>t, DeleteShape
  <2> QED BY <1>t, <1>i, <2>1 DEF Delete, DropRows, RecordedChunkKept, NoChunks,
     DatabaseTypeOK, DiskTypeOK, RequestTypeOK, CleanupTypeOK, HistoryTypeOK
<1>12. ASSUME NEW r \in Request, RemoveNext(r) PROVE RecordedChunkKept'
  <2>1. PICK x \in pend[r] : RemovePayload(x) \/ UNCHANGED disk
    BY <1>12 DEF RemoveNext
  <2>2. x \in Payload /\ Dead(x)
    BY <1>t, <1>i DEF RequestTypeOK, PendingDead
  <2>3. CASE RemovePayload(x)
    <3>1. SparesTheLiving
      BY <1>t, <2>2, <2>3, RemovalEffect
    <3> QED BY <1>i, <1>12, <3>1 DEF RemoveNext, SparesTheLiving, RecordedChunkKept
  <2>4. CASE UNCHANGED disk
    BY <1>i, <1>12, <2>4 DEF RemoveNext, RecordedChunkKept, DatabaseTypeOK
  <2> QED BY <2>1, <2>3, <2>4
<1>13. ASSUME NEW r \in Request, Fail(r) PROVE RecordedChunkKept'
  BY <1>i, <1>13 DEF Fail, RecordedChunkKept
<1>14. CASE CleanupRooms
  BY <1>i, <1>14 DEF CleanupRooms, DropRows, RecordedChunkKept, NoChunks
<1>15. CASE CleanupEntries
  BY <1>t, <1>i, <1>15 DEF CleanupEntries, DropRows, CleanupOnly, DueEntries,
     RecordedChunkKept, NoChunks, DatabaseTypeOK, DiskTypeOK, RequestTypeOK, CleanupTypeOK,
     HistoryTypeOK
<1>16. CASE CleanupUploads
  BY <1>t, <1>i, <1>16 DEF CleanupUploads, RecordedChunkKept, NoChunks, DatabaseTypeOK,
     DiskTypeOK, RequestTypeOK, CleanupTypeOK, HistoryTypeOK
<1>17. CASE CleanupRemove
  <2>1. PICK x \in mpend : RemovePayload(x) \/ UNCHANGED disk
    BY <1>17 DEF CleanupRemove
  <2>2. x \in Payload /\ Dead(x)
    BY <1>t, <1>i DEF CleanupTypeOK, PendingDead
  <2>3. CASE RemovePayload(x)
    <3>1. SparesTheLiving
      BY <1>t, <2>2, <2>3, RemovalEffect
    <3> QED BY <1>i, <1>17, <3>1 DEF CleanupRemove, CleanupOnly, SparesTheLiving,
       RecordedChunkKept
  <2>4. CASE UNCHANGED disk
    BY <1>i, <1>17, <2>4 DEF CleanupRemove, RecordedChunkKept, DatabaseTypeOK
  <2> QED BY <2>1, <2>3, <2>4
<1>18. CASE CleanupReconcile
  <2>1. SparesTheLiving
    BY <1>t, <1>i, <1>18, ReconcileEffect
  <2> QED BY <1>i, <1>18, <2>1 DEF CleanupReconcile, SparesTheLiving, RecordedChunkKept
<1>19. CASE Crash
  BY <1>i, <1>19 DEF Crash, RecordedChunkKept
<1>20. CASE UNCHANGED vars
  BY <1>i, <1>20 DEF vars, RecordedChunkKept
<1> QED
  BY <1>1, <1>2, <1>3, <1>4, <1>5, <1>6, <1>7, <1>8, <1>9, <1>10, <1>11, <1>12, <1>13,
     <1>14, <1>15, <1>16, <1>17, <1>18, <1>19, <1>20 DEF Next, Handle, Put, Complete,
     Abort, Cleanup, QuietStep

(* No step makes a leftover object differ from what a retry assembles.     *)
LEMMA LeftStep == IInv /\ [Next]_vars => LeftoverObjectAgrees'
<1> SUFFICES ASSUME IInv, [Next]_vars PROVE LeftoverObjectAgrees'
  OBVIOUS
<1>t. DatabaseTypeOK /\ DiskTypeOK /\ RequestTypeOK /\ CleanupTypeOK /\ HistoryTypeOK
  BY DEF IInv, TypeOK
<1>i. RowsApart /\ LocksHeld /\ PutKnows /\ CompleteKnows /\ PendingDead /\ RefsCurrent /\ LeftoverObjectAgrees
  BY DEF IInv
<1>1. CASE QuietStep
  BY <1>i, <1>1, QuietEffect DEF LeftoverObjectAgrees, AllRecorded
<1>2. ASSUME NEW v \in Upload, CreateUpload(v) PROVE LeftoverObjectAgrees'
  <2>1. object[v] = None
    BY <1>i, <1>2 DEF CreateUpload, RowsApart
  <2> QED BY <1>i, <1>2, <2>1 DEF CreateUpload, LeftoverObjectAgrees, AllRecorded
<1>3. ASSUME NEW r \in Request, PutWrite(r) PROVE LeftoverObjectAgrees'
  BY <1>i, <1>3 DEF PutWrite, LeftoverObjectAgrees, AllRecorded
<1>4. ASSUME NEW r \in Request, PutLink(r) PROVE LeftoverObjectAgrees'
  BY <1>i, <1>4 DEF PutLink, LeftoverObjectAgrees, AllRecorded
<1>5. ASSUME NEW r \in Request, PutRecord(r) PROVE LeftoverObjectAgrees'
  <2>1. up[r] \in Upload
    BY <1>t, <1>i, <1>5 DEF PutRecord, LocksHeld, HistoryTypeOK, PutStep, CompleteStep,
       AbortStep
  <2>2. part[r].chunk \in Chunk /\ part[r].body \in Body
    BY <1>i, <1>5 DEF PutRecord, PutKnows, PutKnowsAt, Part
  <2>3. CASE /\ Insertable(up[r], part[r].chunk, part[r].body)
             /\ chunkRow' = [chunkRow EXCEPT ![up[r]][part[r].chunk] = part[r].body]
    <3>1. ~AllRecorded(up[r])
      BY <2>2, <2>3 DEF Insertable, AllRecorded
    <3>2. \A u \in Upload : u # up[r] => chunkRow'[u] = chunkRow[u]
      BY <1>t, <2>1, <2>3 DEF DatabaseTypeOK
    <3> QED BY <1>t, <1>i, <1>5, <3>1 DEF PutRecord, LeftoverObjectAgrees, AllRecorded,
       DatabaseTypeOK
  <2>4. CASE UNCHANGED chunkRow
    BY <1>i, <1>5, <2>4 DEF PutRecord, LeftoverObjectAgrees, AllRecorded
  <2> QED BY <1>5, <2>3, <2>4 DEF PutRecord
<1>6. ASSUME NEW r \in Request, PutUndo(r) PROVE LeftoverObjectAgrees'
  BY <1>i, <1>6 DEF PutUndo, LeftoverObjectAgrees, AllRecorded
<1>7. ASSUME NEW r \in Request, CompleteAssemble(r) PROVE LeftoverObjectAgrees'
  BY <1>i, <1>7 DEF CompleteAssemble, LeftoverObjectAgrees, AllRecorded
<1>8. ASSUME NEW r \in Request, CompleteLink(r) PROVE LeftoverObjectAgrees'
  <2>1. up[r] \in Upload
    BY <1>t, <1>i, <1>8 DEF CompleteLink, LocksHeld, HistoryTypeOK, PutStep, CompleteStep,
       AbortStep
  <2>2. CASE object' = [object EXCEPT ![up[r]] = tmp[r]]
    <3>1. up[r] \in uploads \cap Careful => AllRecorded(up[r]) /\ tmp[r] = chunkRow[up[r]]
      BY <1>i, <1>8 DEF CompleteLink, CompleteKnows, CompleteKnowsAt
    <3> QED BY <1>i, <1>8, <2>2, <3>1 DEF CompleteLink, LeftoverObjectAgrees, AllRecorded
  <2>3. CASE UNCHANGED object
    BY <1>i, <1>8, <2>3 DEF CompleteLink, LeftoverObjectAgrees, AllRecorded
  <2> QED BY <1>8, <2>2, <2>3 DEF CompleteLink
<1>9. ASSUME NEW r \in Request, CompleteCommit(r) PROVE LeftoverObjectAgrees'
  BY <1>t, <1>i, <1>9 DEF CompleteCommit, AllRecorded, LeftoverObjectAgrees, NoChunks,
     DatabaseTypeOK, DiskTypeOK, RequestTypeOK, CleanupTypeOK, HistoryTypeOK
<1>10. ASSUME NEW r \in Request, AbortDelete(r) PROVE LeftoverObjectAgrees'
  BY <1>t, <1>i, <1>10 DEF AbortDelete, DropRows, LeftoverObjectAgrees, AllRecorded,
     NoChunks, DatabaseTypeOK, DiskTypeOK, RequestTypeOK, CleanupTypeOK, HistoryTypeOK
<1>11. ASSUME NEW r \in Request, DeleteRows(r) PROVE LeftoverObjectAgrees'
  <2>1. PICK us \in SUBSET uploads, fs \in SUBSET files : Delete(r, us, fs)
    BY <1>11, <1>t, DeleteShape
  <2> QED BY <1>t, <1>i, <2>1 DEF Delete, DropRows, LeftoverObjectAgrees, AllRecorded,
     NoChunks, DatabaseTypeOK, DiskTypeOK, RequestTypeOK, CleanupTypeOK, HistoryTypeOK
<1>12. ASSUME NEW r \in Request, RemoveNext(r) PROVE LeftoverObjectAgrees'
  <2>1. PICK x \in pend[r] : RemovePayload(x) \/ UNCHANGED disk
    BY <1>12 DEF RemoveNext
  <2>2. x \in Payload /\ Dead(x)
    BY <1>t, <1>i DEF RequestTypeOK, PendingDead
  <2>3. CASE RemovePayload(x)
    <3>1. SparesTheLiving
      BY <1>t, <2>2, <2>3, RemovalEffect
    <3> QED BY <1>i, <1>12, <3>1 DEF RemoveNext, SparesTheLiving, LeftoverObjectAgrees,
       AllRecorded
  <2>4. CASE UNCHANGED disk
    BY <1>i, <1>12, <2>4 DEF RemoveNext, LeftoverObjectAgrees, AllRecorded, DatabaseTypeOK
  <2> QED BY <2>1, <2>3, <2>4
<1>13. ASSUME NEW r \in Request, Fail(r) PROVE LeftoverObjectAgrees'
  BY <1>i, <1>13 DEF Fail, LeftoverObjectAgrees, AllRecorded, NoChunks
<1>14. CASE CleanupRooms
  BY <1>i, <1>14 DEF CleanupRooms, DropRows, LeftoverObjectAgrees, AllRecorded, NoChunks
<1>15. CASE CleanupEntries
  BY <1>t, <1>i, <1>15 DEF CleanupEntries, DropRows, CleanupOnly, DueEntries,
     LeftoverObjectAgrees, AllRecorded, NoChunks, DatabaseTypeOK, DiskTypeOK,
     RequestTypeOK, CleanupTypeOK, HistoryTypeOK
<1>16. CASE CleanupUploads
  BY <1>t, <1>i, <1>16 DEF CleanupUploads, LeftoverObjectAgrees, AllRecorded, NoChunks,
     DatabaseTypeOK, DiskTypeOK, RequestTypeOK, CleanupTypeOK, HistoryTypeOK
<1>17. CASE CleanupRemove
  <2>1. PICK x \in mpend : RemovePayload(x) \/ UNCHANGED disk
    BY <1>17 DEF CleanupRemove
  <2>2. x \in Payload /\ Dead(x)
    BY <1>t, <1>i DEF CleanupTypeOK, PendingDead
  <2>3. CASE RemovePayload(x)
    <3>1. SparesTheLiving
      BY <1>t, <2>2, <2>3, RemovalEffect
    <3> QED BY <1>i, <1>17, <3>1 DEF CleanupRemove, CleanupOnly, SparesTheLiving,
       LeftoverObjectAgrees, AllRecorded
  <2>4. CASE UNCHANGED disk
    BY <1>i, <1>17, <2>4 DEF CleanupRemove, LeftoverObjectAgrees, AllRecorded,
       DatabaseTypeOK
  <2> QED BY <2>1, <2>3, <2>4
<1>18. CASE CleanupReconcile
  <2>1. SparesTheLiving
    BY <1>t, <1>i, <1>18, ReconcileEffect
  <2> QED BY <1>i, <1>18, <2>1 DEF CleanupReconcile, SparesTheLiving, LeftoverObjectAgrees,
     AllRecorded
<1>19. CASE Crash
  BY <1>i, <1>19 DEF Crash, LeftoverObjectAgrees, AllRecorded, NoChunks
<1>20. CASE UNCHANGED vars
  BY <1>i, <1>20 DEF vars, LeftoverObjectAgrees, AllRecorded
<1> QED
  BY <1>1, <1>2, <1>3, <1>4, <1>5, <1>6, <1>7, <1>8, <1>9, <1>10, <1>11, <1>12, <1>13,
     <1>14, <1>15, <1>16, <1>17, <1>18, <1>19, <1>20 DEF Next, Handle, Put, Complete,
     Abort, Cleanup, QuietStep

(* No step loses or changes the object of a committed file.                *)
LEMMA StoredStep == IInv /\ [Next]_vars => (StoredFilePresent /\ StoredFileIntact)'
<1> SUFFICES ASSUME IInv, [Next]_vars PROVE (StoredFilePresent /\ StoredFileIntact)'
  OBVIOUS
<1>t. DatabaseTypeOK /\ DiskTypeOK /\ RequestTypeOK /\ CleanupTypeOK /\ HistoryTypeOK
  BY DEF IInv, TypeOK
<1>i. RowsApart /\ LocksHeld /\ CompleteKnows /\ PendingDead /\ RefsCurrent /\ StoredFilePresent /\ StoredFileIntact
  BY DEF IInv
<1>1. CASE QuietStep
  BY <1>i, <1>1, QuietEffect DEF StoredFilePresent, StoredFileIntact
<1>2. ASSUME NEW v \in Upload, CreateUpload(v) PROVE (StoredFilePresent /\ StoredFileIntact)'
  BY <1>i, <1>2 DEF CreateUpload, StoredFilePresent, StoredFileIntact
<1>3. ASSUME NEW r \in Request, PutWrite(r) PROVE (StoredFilePresent /\ StoredFileIntact)'
  BY <1>i, <1>3 DEF PutWrite, StoredFilePresent, StoredFileIntact
<1>4. ASSUME NEW r \in Request, PutLink(r) PROVE (StoredFilePresent /\ StoredFileIntact)'
  BY <1>i, <1>4 DEF PutLink, StoredFilePresent, StoredFileIntact
<1>5. ASSUME NEW r \in Request, PutRecord(r) PROVE (StoredFilePresent /\ StoredFileIntact)'
  BY <1>i, <1>5 DEF PutRecord, StoredFilePresent, StoredFileIntact, AllRecorded
<1>6. ASSUME NEW r \in Request, PutUndo(r) PROVE (StoredFilePresent /\ StoredFileIntact)'
  BY <1>i, <1>6 DEF PutUndo, StoredFilePresent, StoredFileIntact
<1>7. ASSUME NEW r \in Request,
   CompleteAssemble(r) PROVE (StoredFilePresent /\ StoredFileIntact)'
  BY <1>i, <1>7 DEF CompleteAssemble, StoredFilePresent, StoredFileIntact
<1>8. ASSUME NEW r \in Request, CompleteLink(r) PROVE (StoredFilePresent /\ StoredFileIntact)'
  BY <1>t, <1>i, <1>8 DEF CompleteLink, StoredFilePresent, StoredFileIntact, AllRecorded,
     DatabaseTypeOK, DiskTypeOK, RequestTypeOK, CleanupTypeOK, HistoryTypeOK
<1>9. ASSUME NEW r \in Request, CompleteCommit(r) PROVE (StoredFilePresent /\ StoredFileIntact)'
  <2>1. up[r] \in Upload
    BY <1>t, <1>i, <1>9 DEF CompleteCommit, LocksHeld, HistoryTypeOK, PutStep,
       CompleteStep, AbortStep
  <2>2. CASE up[r] \in uploads /\ AllRecorded(up[r]) /\ up[r] \notin files
    <3>1. chunkRow[up[r]] \in Content
      BY <1>t, <2>1, <2>2, RecordedContent
    <3>2. object[up[r]] \in Content /\ (up[r] \in Careful => object[up[r]] = chunkRow[up[r]])
      BY <1>i, <1>9, <2>2 DEF CompleteCommit, CompleteKnows, CompleteKnowsAt
    <3>3. /\ files' = files \cup {up[r]} /\ object' = object
          /\ committed' = [committed EXCEPT ![up[r]] = chunkRow[up[r]]]
      BY <1>9, <2>2 DEF CompleteCommit
    <3> QED BY <1>t, <1>i, <2>1, <3>1, <3>2, <3>3 DEF StoredFilePresent, StoredFileIntact,
       HistoryTypeOK, DatabaseTypeOK
  <2>3. CASE ~(up[r] \in uploads /\ AllRecorded(up[r]) /\ up[r] \notin files)
    BY <1>i, <1>9, <2>3 DEF CompleteCommit, StoredFilePresent, StoredFileIntact
  <2> QED BY <2>2, <2>3
<1>10. ASSUME NEW r \in Request, AbortDelete(r) PROVE (StoredFilePresent /\ StoredFileIntact)'
  BY <1>i, <1>10 DEF AbortDelete, DropRows, StoredFilePresent, StoredFileIntact, AllRecorded
<1>11. ASSUME NEW r \in Request, DeleteRows(r) PROVE (StoredFilePresent /\ StoredFileIntact)'
  <2>1. PICK us \in SUBSET uploads, fs \in SUBSET files : Delete(r, us, fs)
    BY <1>11, <1>t, DeleteShape
  <2> QED BY <1>i, <2>1 DEF Delete, DropRows, StoredFilePresent, StoredFileIntact,
     AllRecorded
<1>12. ASSUME NEW r \in Request, RemoveNext(r) PROVE (StoredFilePresent /\ StoredFileIntact)'
  <2>1. PICK x \in pend[r] : RemovePayload(x) \/ UNCHANGED disk
    BY <1>12 DEF RemoveNext
  <2>2. x \in Payload /\ Dead(x)
    BY <1>t, <1>i DEF RequestTypeOK, PendingDead
  <2>3. CASE RemovePayload(x)
    <3>1. SparesTheLiving
      BY <1>t, <2>2, <2>3, RemovalEffect
    <3> QED BY <1>i, <1>12, <3>1 DEF RemoveNext, SparesTheLiving, StoredFilePresent,
       StoredFileIntact
  <2>4. CASE UNCHANGED disk
    BY <1>i, <1>12, <2>4 DEF RemoveNext, StoredFilePresent, StoredFileIntact, DatabaseTypeOK
  <2> QED BY <2>1, <2>3, <2>4
<1>13. ASSUME NEW r \in Request, Fail(r) PROVE (StoredFilePresent /\ StoredFileIntact)'
  BY <1>i, <1>13 DEF Fail, StoredFilePresent, StoredFileIntact, AllRecorded
<1>14. CASE CleanupRooms
  BY <1>i, <1>14 DEF CleanupRooms, DropRows, CleanupOnly, StoredFilePresent,
     StoredFileIntact, AllRecorded
<1>15. CASE CleanupEntries
  BY <1>i, <1>15 DEF CleanupEntries, DropRows, CleanupOnly, DueEntries, StoredFilePresent,
     StoredFileIntact, AllRecorded
<1>16. CASE CleanupUploads
  BY <1>i, <1>16 DEF CleanupUploads, CleanupOnly, StoredFilePresent, StoredFileIntact,
     AllRecorded
<1>17. CASE CleanupRemove
  <2>1. PICK x \in mpend : RemovePayload(x) \/ UNCHANGED disk
    BY <1>17 DEF CleanupRemove
  <2>2. x \in Payload /\ Dead(x)
    BY <1>t, <1>i DEF CleanupTypeOK, PendingDead
  <2>3. CASE RemovePayload(x)
    <3>1. SparesTheLiving
      BY <1>t, <2>2, <2>3, RemovalEffect
    <3> QED BY <1>i, <1>17, <3>1 DEF CleanupRemove, CleanupOnly, SparesTheLiving,
       StoredFilePresent, StoredFileIntact
  <2>4. CASE UNCHANGED disk
    BY <1>i, <1>17, <2>4 DEF CleanupRemove, CleanupOnly, StoredFilePresent,
       StoredFileIntact, DatabaseTypeOK
  <2> QED BY <2>1, <2>3, <2>4
<1>18. CASE CleanupReconcile
  <2>1. SparesTheLiving
    BY <1>t, <1>i, <1>18, ReconcileEffect
  <2> QED BY <1>i, <1>18, <2>1 DEF CleanupReconcile, CleanupOnly, SparesTheLiving,
     StoredFilePresent, StoredFileIntact
<1>19. CASE Crash
  BY <1>i, <1>19 DEF Crash, StoredFilePresent, StoredFileIntact, AllRecorded
<1>20. CASE UNCHANGED vars
  BY <1>i, <1>20 DEF vars, StoredFilePresent, StoredFileIntact
<1> QED
  BY <1>1, <1>2, <1>3, <1>4, <1>5, <1>6, <1>7, <1>8, <1>9, <1>10, <1>11, <1>12, <1>13,
     <1>14, <1>15, <1>16, <1>17, <1>18, <1>19, <1>20 DEF Next, Handle, Put, Complete,
     Abort, Cleanup, QuietStep

(* Nothing happens between the reconciliation and the end of the pass.     *)
LEMMA SweptStep == IInv /\ [Next]_vars => SweptClean'
<1> SUFFICES ASSUME IInv, [Next]_vars PROVE SweptClean'
  OBVIOUS
<1>t. DatabaseTypeOK /\ DiskTypeOK /\ RequestTypeOK /\ CleanupTypeOK /\ HistoryTypeOK
  BY DEF IInv, TypeOK
<1>i. RowsApart /\ LocksHeld /\ RefsCurrent /\ SweptClean
  BY DEF IInv
<1>1. ASSUME NEW v \in Upload, CreateUpload(v) PROVE SweptClean'
  BY <1>1 DEF CreateUpload, SweptClean
<1>2. ASSUME NEW r \in Request, BeginUploadRequest(r) PROVE SweptClean'
  BY <1>2 DEF BeginUploadRequest, Begin, SweptClean, RefsCurrent
<1>3. ASSUME NEW r \in Request, BeginDelete(r) PROVE SweptClean'
  BY <1>3 DEF BeginDelete, Begin, SweptClean, RefsCurrent
<1>4. ASSUME NEW r \in Request, LockUpload(r) PROVE SweptClean'
  BY <1>i, <1>4 DEF LockUpload, SweptClean
<1>5. ASSUME NEW r \in Request, PutAuthorize(r) PROVE SweptClean'
  BY <1>i, <1>5 DEF PutAuthorize, SweptClean, RefsCurrent
<1>6. ASSUME NEW r \in Request, CompleteLookup(r) PROVE SweptClean'
  BY <1>i, <1>6 DEF CompleteLookup, SweptClean
<1>7. ASSUME NEW r \in Request, CompleteAuthorize(r) PROVE SweptClean'
  BY <1>i, <1>7 DEF CompleteAuthorize, SweptClean, RefsCurrent
<1>8. ASSUME NEW r \in Request, CompleteReceived(r) PROVE SweptClean'
  BY <1>i, <1>8 DEF CompleteReceived, SweptClean, RefsCurrent
<1>9. ASSUME NEW r \in Request, CompleteMissing(r) PROVE SweptClean'
  BY <1>i, <1>9 DEF CompleteMissing, SweptClean
<1>10. ASSUME NEW r \in Request, AbortAuthorize(r) PROVE SweptClean'
  BY <1>i, <1>10 DEF AbortAuthorize, SweptClean, RefsCurrent
<1>11. ASSUME NEW r \in Request, RemoveDone(r) PROVE SweptClean'
  BY <1>i, <1>11 DEF RemoveDone, SweptClean
<1>12. ASSUME NEW r \in Request, PutWrite(r) PROVE SweptClean'
  BY <1>i, <1>12 DEF PutWrite, SweptClean, LocksHeld
<1>13. ASSUME NEW r \in Request, PutLink(r) PROVE SweptClean'
  BY <1>i, <1>13 DEF PutLink, SweptClean
<1>14. ASSUME NEW r \in Request, PutRecord(r) PROVE SweptClean'
  BY <1>i, <1>14 DEF PutRecord, SweptClean, RefsCurrent
<1>15. ASSUME NEW r \in Request, PutUndo(r) PROVE SweptClean'
  BY <1>i, <1>15 DEF PutUndo, SweptClean
<1>16. ASSUME NEW r \in Request, CompleteAssemble(r) PROVE SweptClean'
  BY <1>i, <1>16 DEF CompleteAssemble, SweptClean, LocksHeld
<1>17. ASSUME NEW r \in Request, CompleteLink(r) PROVE SweptClean'
  BY <1>i, <1>17 DEF CompleteLink, SweptClean
<1>18. ASSUME NEW r \in Request, CompleteCommit(r) PROVE SweptClean'
  BY <1>i, <1>18 DEF CompleteCommit, SweptClean, LocksHeld, RefsCurrent
<1>19. ASSUME NEW r \in Request, AbortDelete(r) PROVE SweptClean'
  BY <1>i, <1>19 DEF AbortDelete, SweptClean, LocksHeld, RefsCurrent
<1>20. ASSUME NEW r \in Request, DeleteRows(r) PROVE SweptClean'
  <2>1. PICK us \in SUBSET uploads, fs \in SUBSET files : Delete(r, us, fs)
    BY <1>20, <1>t, DeleteShape
  <2> QED BY <1>i, <2>1 DEF Delete, SweptClean, LocksHeld, RefsCurrent
<1>21. ASSUME NEW r \in Request, RemoveNext(r) PROVE SweptClean'
  BY <1>i, <1>21 DEF RemoveNext, Fault, SweptClean, LocksHeld, RefsCurrent
<1>22. ASSUME NEW r \in Request, Fail(r) PROVE SweptClean'
  BY <1>i, <1>22 DEF Fail, SweptClean, RefsCurrent
<1>23. CASE CleanupStart
  BY <1>23 DEF CleanupStart, SweptClean
<1>24. CASE CleanupRemoved
  BY <1>24 DEF CleanupRemoved, SweptClean, RefsCurrent
<1>25. CASE CleanupReferences
  BY <1>25 DEF CleanupReferences, SweptClean, RefsCurrent
<1>26. CASE CleanupEnd
  BY <1>26 DEF CleanupEnd, SweptClean, RefsCurrent
<1>27. CASE CleanupFail
  BY <1>27 DEF CleanupFail, SweptClean, LocksHeld, RefsCurrent
<1>28. CASE Expire
  BY <1>i, <1>28 DEF Expire, SweptClean
<1>29. CASE CleanupRooms
  BY <1>29 DEF CleanupRooms, SweptClean, LocksHeld, RefsCurrent
<1>30. CASE CleanupEntries
  BY <1>30 DEF CleanupEntries, DueEntries, SweptClean, LocksHeld, RefsCurrent
<1>31. CASE CleanupUploads
  BY <1>31 DEF CleanupUploads, SweptClean, LocksHeld, RefsCurrent
<1>32. CASE CleanupRemove
  BY <1>32 DEF CleanupRemove, Fault, CleanupOnly, SweptClean, LocksHeld, RefsCurrent
<1>33. CASE CleanupReconcile
  BY <1>t, <1>i, <1>33 DEF CleanupReconcile, DropDirs, DropObjects, CleanupOnly,
     SweptClean, LocksHeld, RefsCurrent, DatabaseTypeOK, DiskTypeOK, RequestTypeOK,
     CleanupTypeOK, HistoryTypeOK
<1>34. CASE Crash
  BY <1>34 DEF Crash, SweptClean, RefsCurrent
<1>35. CASE UNCHANGED vars
  BY <1>i, <1>35 DEF vars, SweptClean
<1> QED
  BY <1>1, <1>2, <1>3, <1>4, <1>5, <1>6, <1>7, <1>8, <1>9, <1>10, <1>11, <1>12, <1>13,
     <1>14, <1>15, <1>16, <1>17, <1>18, <1>19, <1>20, <1>21, <1>22, <1>23, <1>24, <1>25,
     <1>26, <1>27, <1>28, <1>29, <1>30, <1>31, <1>32, <1>33, <1>34, <1>35 DEF Next, Handle,
     Put, Complete, Abort, Cleanup

(* What one step can do to the rows: draw an id, publish an upload, or     *)
(* delete.                                                                 *)
RowsMove ==
  \/ \E u \in Upload \ created :
       uploads' = uploads \cup {u} /\ files' = files /\ created' = created \cup {u}
  \/ \E u \in uploads :
       uploads' = uploads \ {u} /\ files' = files \cup {u} /\ created' = created
  \/ uploads' \subseteq uploads /\ files' \subseteq files /\ created' = created

(* Every step does one of these things to the rows, or nothing.            *)
LEMMA RowsMoves == IInv /\ [Next]_vars => RowsMove
<1> SUFFICES ASSUME IInv, [Next]_vars PROVE RowsMove
  OBVIOUS
<1>t. DatabaseTypeOK /\ DiskTypeOK /\ RequestTypeOK /\ CleanupTypeOK /\ HistoryTypeOK
  BY DEF IInv, TypeOK
<1>i. RowsApart /\ LocksHeld
  BY DEF IInv
<1>1. CASE QuietStep
  BY <1>1, QuietEffect DEF RowsMove
<1>2. ASSUME NEW v \in Upload, CreateUpload(v) PROVE RowsMove
  BY <1>2 DEF CreateUpload, RowsMove
<1>3. ASSUME NEW r \in Request, PutWrite(r) PROVE RowsMove
  BY <1>3 DEF PutWrite, RowsMove
<1>4. ASSUME NEW r \in Request, PutLink(r) PROVE RowsMove
  BY <1>4 DEF PutLink, RowsMove
<1>5. ASSUME NEW r \in Request, PutRecord(r) PROVE RowsMove
  BY <1>5 DEF PutRecord, RowsMove
<1>6. ASSUME NEW r \in Request, PutUndo(r) PROVE RowsMove
  BY <1>6 DEF PutUndo, RowsMove
<1>7. ASSUME NEW r \in Request, CompleteAssemble(r) PROVE RowsMove
  BY <1>7 DEF CompleteAssemble, RowsMove
<1>8. ASSUME NEW r \in Request, CompleteLink(r) PROVE RowsMove
  BY <1>8 DEF CompleteLink, RowsMove
<1>9. ASSUME NEW r \in Request, CompleteCommit(r) PROVE RowsMove
  BY <1>9 DEF CompleteCommit, RowsMove
<1>10. ASSUME NEW r \in Request, AbortDelete(r) PROVE RowsMove
  BY <1>10 DEF AbortDelete, DropRows, RowsMove
<1>11. ASSUME NEW r \in Request, DeleteRows(r) PROVE RowsMove
  <2>1. PICK us \in SUBSET uploads, fs \in SUBSET files : Delete(r, us, fs)
    BY <1>11, <1>t, DeleteShape
  <2> QED BY <2>1 DEF Delete, DropRows, RowsMove
<1>12. ASSUME NEW r \in Request, RemoveNext(r) PROVE RowsMove
  BY <1>12 DEF RemoveNext, Fault, RowsMove
<1>13. ASSUME NEW r \in Request, Fail(r) PROVE RowsMove
  BY <1>13 DEF Fail, RowsMove
<1>14. CASE CleanupRooms
  BY <1>14 DEF CleanupRooms, DropRows, CleanupOnly, RowsMove
<1>15. CASE CleanupEntries
  BY <1>15 DEF CleanupEntries, DropRows, CleanupOnly, DueEntries, RowsMove
<1>16. CASE CleanupUploads
  BY <1>16 DEF CleanupUploads, CleanupOnly, RowsMove
<1>17. CASE CleanupRemove
  BY <1>17 DEF CleanupRemove, Fault, CleanupOnly, RowsMove
<1>18. CASE CleanupReconcile
  BY <1>18 DEF CleanupReconcile, CleanupOnly, RowsMove
<1>19. CASE Crash
  BY <1>19 DEF Crash, RowsMove
<1>20. CASE UNCHANGED vars
  BY <1>20 DEF vars, RowsMove
<1> QED
  BY <1>1, <1>2, <1>3, <1>4, <1>5, <1>6, <1>7, <1>8, <1>9, <1>10, <1>11, <1>12, <1>13,
     <1>14, <1>15, <1>16, <1>17, <1>18, <1>19, <1>20 DEF Next, Handle, Put, Complete,
     Abort, Cleanup, QuietStep

BytesKept == \A f \in files \cap files' : object'[f] = object[f]

(* No step changes the object of a file that stays.                        *)
LEMMA FilesKeepBytes == IInv /\ [Next]_vars => BytesKept
<1> SUFFICES ASSUME IInv, [Next]_vars PROVE BytesKept
  OBVIOUS
<1>t. DatabaseTypeOK /\ DiskTypeOK /\ RequestTypeOK /\ CleanupTypeOK /\ HistoryTypeOK
  BY DEF IInv, TypeOK
<1>i. RowsApart /\ LocksHeld /\ PendingDead /\ RefsCurrent /\ StoredFilePresent
  BY DEF IInv
<1>1. CASE QuietStep
  BY <1>1, QuietEffect DEF BytesKept
<1>2. ASSUME NEW v \in Upload, CreateUpload(v) PROVE BytesKept
  BY <1>2 DEF CreateUpload, BytesKept
<1>3. ASSUME NEW r \in Request, PutWrite(r) PROVE BytesKept
  BY <1>3 DEF PutWrite, BytesKept
<1>4. ASSUME NEW r \in Request, PutLink(r) PROVE BytesKept
  BY <1>4 DEF PutLink, BytesKept
<1>5. ASSUME NEW r \in Request, PutRecord(r) PROVE BytesKept
  BY <1>5 DEF PutRecord, BytesKept
<1>6. ASSUME NEW r \in Request, PutUndo(r) PROVE BytesKept
  BY <1>6 DEF PutUndo, BytesKept
<1>7. ASSUME NEW r \in Request, CompleteAssemble(r) PROVE BytesKept
  BY <1>7 DEF CompleteAssemble, BytesKept
<1>8. ASSUME NEW r \in Request, CompleteLink(r) PROVE BytesKept
  <2>1. up[r] \in Upload
    BY <1>t, <1>i, <1>8 DEF CompleteLink, LocksHeld, HistoryTypeOK, PutStep, CompleteStep,
       AbortStep
  <2>2. up[r] \in files => object[up[r]] # None
    BY <1>i DEF StoredFilePresent
  <2> QED BY <1>t, <1>8, <2>2 DEF CompleteLink, BytesKept, DiskTypeOK, DatabaseTypeOK
<1>9. ASSUME NEW r \in Request, CompleteCommit(r) PROVE BytesKept
  BY <1>9 DEF CompleteCommit, BytesKept
<1>10. ASSUME NEW r \in Request, AbortDelete(r) PROVE BytesKept
  BY <1>10 DEF AbortDelete, BytesKept
<1>11. ASSUME NEW r \in Request, DeleteRows(r) PROVE BytesKept
  <2>1. PICK us \in SUBSET uploads, fs \in SUBSET files : Delete(r, us, fs)
    BY <1>11, <1>t, DeleteShape
  <2> QED BY <2>1 DEF Delete, BytesKept
<1>12. ASSUME NEW r \in Request, RemoveNext(r) PROVE BytesKept
  <2>1. PICK x \in pend[r] : RemovePayload(x) \/ UNCHANGED disk
    BY <1>12 DEF RemoveNext
  <2>2. x \in Payload /\ Dead(x)
    BY <1>t, <1>i DEF RequestTypeOK, PendingDead
  <2>3. CASE RemovePayload(x)
    <3>1. SparesTheLiving
      BY <1>t, <2>2, <2>3, RemovalEffect
    <3> QED BY <1>12, <3>1 DEF SparesTheLiving, BytesKept
  <2>4. CASE UNCHANGED disk
    BY <1>12, <2>4 DEF BytesKept, DatabaseTypeOK
  <2> QED BY <2>1, <2>3, <2>4
<1>13. ASSUME NEW r \in Request, Fail(r) PROVE BytesKept
  BY <1>13 DEF Fail, BytesKept
<1>14. CASE CleanupRooms
  BY <1>14 DEF CleanupRooms, BytesKept
<1>15. CASE CleanupEntries
  BY <1>15 DEF CleanupEntries, DueEntries, BytesKept
<1>16. CASE CleanupUploads
  BY <1>16 DEF CleanupUploads, BytesKept
<1>17. CASE CleanupRemove
  <2>1. PICK x \in mpend : RemovePayload(x) \/ UNCHANGED disk
    BY <1>17 DEF CleanupRemove
  <2>2. x \in Payload /\ Dead(x)
    BY <1>t, <1>i DEF CleanupTypeOK, PendingDead
  <2>3. CASE RemovePayload(x)
    <3>1. SparesTheLiving
      BY <1>t, <2>2, <2>3, RemovalEffect
    <3> QED BY <1>17, <3>1 DEF CleanupOnly, SparesTheLiving, BytesKept
  <2>4. CASE UNCHANGED disk
    BY <1>17, <2>4 DEF BytesKept, DatabaseTypeOK
  <2> QED BY <2>1, <2>3, <2>4
<1>18. CASE CleanupReconcile
  <2>1. SparesTheLiving
    BY <1>t, <1>i, <1>18, ReconcileEffect
  <2> QED BY <1>18, <2>1 DEF SparesTheLiving, BytesKept
<1>19. CASE Crash
  BY <1>19 DEF Crash, BytesKept
<1>20. CASE UNCHANGED vars
  BY <1>20 DEF vars, BytesKept
<1> QED
  BY <1>1, <1>2, <1>3, <1>4, <1>5, <1>6, <1>7, <1>8, <1>9, <1>10, <1>11, <1>12, <1>13,
     <1>14, <1>15, <1>16, <1>17, <1>18, <1>19, <1>20 DEF Next, Handle, Put, Complete,
     Abort, Cleanup, QuietStep

(* The empty server satisfies the inductive invariant.                     *)
LEMMA InitInv == Init => IInv
<1> SUFFICES ASSUME Init PROVE IInv
  OBVIOUS
<1>1. TypeOK
  <2>1. DatabaseTypeOK /\ DiskTypeOK
    BY NoChunksTyped DEF Init, DatabaseTypeOK, DiskTypeOK
  <2>2. RequestTypeOK /\ CleanupTypeOK /\ HistoryTypeOK
    BY DEF Init, RequestTypeOK, CleanupTypeOK, HistoryTypeOK, Step, CleanupStep, NoRefs
  <2> QED BY <2>1, <2>2 DEF TypeOK
<1>2. LocksHeld /\ RowsApart /\ PendingDead /\ RefsCurrent
  BY DEF Init, LocksHeld, Locked, PutStep, CompleteStep, AbortStep, RowsApart, PendingDead,
     RefsCurrent
<1>3. PutKnows /\ CompleteKnows
  BY DEF Init, PutKnows, PutKnowsAt, CompleteKnows, CompleteKnowsAt
<1>4. StoredFilePresent /\ StoredFileIntact /\ RecordedChunkKept /\ LeftoverObjectAgrees /\ SweptClean
  BY DEF Init, StoredFilePresent, StoredFileIntact, RecordedChunkKept,
     LeftoverObjectAgrees, SweptClean
<1> QED BY <1>1, <1>2, <1>3, <1>4 DEF IInv

(* Every step of the server preserves it.                                  *)
LEMMA NextInv == IInv /\ [Next]_vars => IInv'
BY TypeStep, LocksStep, RowsStep, PendingStep, RefsStep, PutInvStep, CompleteInvStep,
   StoredStep, ChunkStep, LeftStep, SweptStep DEF IInv

(* The inductive invariant holds of every state the server reaches, with   *)
(* any number of uploads, chunks, requests, mutexes, crashes and passes.   *)
THEOREM Invariance == Spec => []IInv
BY InitInv, NextInv, PTL DEF Spec

(* Every variable keeps to the values its rows, files and locks can have.  *)
THEOREM TypeCorrect == Spec => []TypeOK
<1>1. IInv => TypeOK
  BY DEF IInv
<1> QED BY <1>1, Invariance, PTL

(* A committed file of a client that keeps the protocol always has its     *)
(* object, with exactly the chunks recorded when it was committed: neither *)
(* retries, deletions, cleanup passes nor crashes lose or change it.       *)
THEOREM StoredFilesIntact == Spec => []StoredFileIntact
<1>1. IInv => StoredFileIntact
  BY DEF IInv
<1> QED BY <1>1, Invariance, PTL

(* A chunk whose digest is recorded stays on disk with that digest for as  *)
(* long as the upload is open, whatever is put, undone, swept or deleted.  *)
THEOREM RecordedChunksKept == Spec => []RecordedChunkKept
<1>1. IInv => RecordedChunkKept
  BY DEF IInv
<1> QED BY <1>1, Invariance, PTL

(* An object that a failed completion left behind equals what the retry    *)
(* assembles, so that the digest comparison of Assemble lets it pass.      *)
THEOREM LeftoversAgree == Spec => []LeftoverObjectAgrees
<1>1. IInv => LeftoverObjectAgrees
  BY DEF IInv
<1> QED BY <1>1, Invariance, PTL

(* A repeated completion is never answered with 404 while the completion   *)
(* of the upload is on record and its deadline has not passed.             *)
THEOREM RepeatedCompleteAnswered == Spec => []NoFalseMissing
<1>1. IInv => NoFalseMissing
  BY DEF IInv, CompleteKnows, CompleteKnowsAt, NoFalseMissing
<1> QED BY <1>1, Invariance, PTL

(* At the end of a cleanup pass the disk holds nothing the database does   *)
(* not name.                                                               *)
THEOREM PassSweepsClean == Spec => []SweptClean
<1>1. IInv => SweptClean
  BY DEF IInv
<1> QED BY <1>1, Invariance, PTL

(* No step brings back an upload or a file once it is gone.                *)
THEOREM NoResurrection == Spec => DeletedStaysDeleted
<1>1. IInv /\ [Next]_vars
        => [\A u \in created : u \notin uploads \cup files => u \notin uploads' \cup files']_vars
  BY RowsMoves DEF RowsMove
<1> QED BY <1>1, Invariance, PTL DEF Spec, DeletedStaysDeleted

(* What a reader of the room sees of the server.                           *)
StageOf == [u \in Upload |-> Stage(u)]
BytesOf == [u \in Upload |-> IF u \in files THEN object[u] ELSE None]

(* The empty server is an initial state of the promise.                    *)
LEMMA PromiseInit == Init => Promise!Init
BY DEF Init, Promise!Init, Stage

(* Every step of the server is a step of the promise or invisible to it.   *)
LEMMA PromiseStep == IInv /\ [Next]_vars => [Promise!Next]_<<StageOf, BytesOf>>
<1> SUFFICES ASSUME IInv, [Next]_vars PROVE Promise!Next \/ UNCHANGED <<StageOf, BytesOf>>
  BY DEF Promise!Next
<1>1. /\ uploads \subseteq Upload /\ files \subseteq Upload /\ created \subseteq Upload
      /\ uploads \cup files \subseteq created /\ uploads \cap files = {}
  BY DEF IInv, TypeOK, HistoryTypeOK, RowsApart
<1>2. BytesKept
  BY FilesKeepBytes
<1>3. /\ StageOf' = [u \in Upload |-> Stage(u)']
      /\ BytesOf' = [u \in Upload |-> IF u \in files' THEN object'[u] ELSE None]
  BY DEF StageOf, BytesOf
<1>4. ASSUME NEW v \in Upload \ created,
             uploads' = uploads \cup {v}, files' = files, created' = created \cup {v}
      PROVE  Promise!Create(v)
  <2>1. StageOf[v] = "unborn"
    BY <1>1 DEF StageOf, Stage
  <2>2. StageOf' = [StageOf EXCEPT ![v] = "open"]
    BY <1>1, <1>3, <1>4 DEF StageOf, Stage
  <2>3. BytesOf' = BytesOf
    BY <1>2, <1>3, <1>4 DEF BytesOf, BytesKept
  <2> QED BY <2>1, <2>2, <2>3 DEF Promise!Create, StageOf, BytesOf
<1>5. ASSUME NEW v \in uploads,
             uploads' = uploads \ {v}, files' = files \cup {v}, created' = created
      PROVE  Promise!Publish(v)
  <2>1. StageOf[v] = "open"
    BY <1>1 DEF StageOf, Stage
  <2>2. StageOf' = [StageOf EXCEPT ![v] = "stored"]
    BY <1>1, <1>3, <1>5 DEF StageOf, Stage
  <2>3. object'[v] \in Content
    BY StoredStep, <1>5 DEF StoredFilePresent
  <2>4. BytesOf' = [BytesOf EXCEPT ![v] = object'[v]]
    BY <1>1, <1>2, <1>3, <1>5 DEF BytesOf, BytesKept
  <2> QED BY <2>1, <2>2, <2>3, <2>4 DEF Promise!Publish, StageOf, BytesOf
<1>6. ASSUME uploads' \subseteq uploads, files' \subseteq files, created' = created,
             NEW gone \in SUBSET Upload, gone = (uploads \ uploads') \cup (files \ files')
      PROVE  Promise!Drop(gone)
  <2>1. \A f \in gone : StageOf[f] \in {"open", "stored"}
    BY <1>1, <1>6 DEF StageOf, Stage
  <2>2. StageOf' = [f \in Upload |-> IF f \in gone THEN "gone" ELSE StageOf[f]]
    BY <1>1, <1>3, <1>6 DEF StageOf, Stage
  <2>3. BytesOf' = [f \in Upload |-> IF f \in gone THEN None ELSE BytesOf[f]]
    BY <1>1, <1>2, <1>3, <1>6 DEF BytesOf, BytesKept
  <2> QED BY <2>1, <2>2, <2>3 DEF Promise!Drop, StageOf, BytesOf
<1>7. CASE \E v \in Upload \ created :
             uploads' = uploads \cup {v} /\ files' = files /\ created' = created \cup {v}
  BY <1>4, <1>7 DEF Promise!Next
<1>8. CASE \E v \in uploads :
             uploads' = uploads \ {v} /\ files' = files \cup {v} /\ created' = created
  BY <1>1, <1>5, <1>8 DEF Promise!Next
<1>9. CASE uploads' \subseteq uploads /\ files' \subseteq files /\ created' = created
  <2>1. PICK gone \in SUBSET Upload : gone = (uploads \ uploads') \cup (files \ files')
    BY <1>1
  <2>2. Promise!Drop(gone)
    BY <1>6, <1>9, <2>1
  <2> QED BY <2>2 DEF Promise!Next
<1> QED
  BY <1>7, <1>8, <1>9, RowsMoves DEF RowsMove

(* The server implements the promise to the readers of a room: a file      *)
(* appears complete in one step, keeps its bytes, and never returns.       *)
THEOREM KeepsPromise == Spec => ImplementsPromise
<1>1. Init => Promise!Init
  BY PromiseInit
<1>2. IInv /\ [Next]_vars => [Promise!Next]_<<StageOf, BytesOf>>
  BY PromiseStep
<1> QED BY <1>1, <1>2, Invariance, PTL DEF Spec, ImplementsPromise, Promise!Spec, StageOf,
   BytesOf
=============================================================================
