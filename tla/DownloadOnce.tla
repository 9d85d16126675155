----------------------------- MODULE DownloadOnce -----------------------------
(***************************************************************************)
(* Entries that are deleted after their file was downloaded.  The server   *)
(* decides by itself when an attachment or an archive has been sent        *)
(* whole; an encrypted file is fetched by ranges and the client confirms   *)
(* it with a request of its own.  Readers are not kept apart: one of them  *)
(* may consume the file while others look it up, open it or read it, and   *)
(* its owner may delete it meanwhile.  An object that was opened stays     *)
(* readable after its removal.                                             *)
(*                                                                         *)
(* Every entry here was created with deleteAfterDownload, has one file     *)
(* and is committed; how it got there is UploadLifecycle and RoomStore.    *)
(* The id of an entry is the client's, who may declare it again once the   *)
(* entry is gone, even in a room of the other kind made under the old id.  *)
(***************************************************************************)
EXTENDS Naturals, FiniteSets

CONSTANTS
  Entry, File,
  Reader,    \* concurrent downloads
  Encrypted, \* the files that are encrypted: no archives of the server
  Blocks,    \* blocks, or encrypted chunks, of a file
  MaxFaults, \* bound: restarts and failing transactions
  None, Empty

(* What a reader asks for: a GET of the file, the archive of its entry, or *)
(* what must not consume it, be it without a body (HEAD, 304 and 412) or   *)
(* with one (a range, inline=1).  "chunks" and "preview" are the streams   *)
(* of the service worker, made of ranges.                                  *)
Download == {"file", "archive", "chunks"}
Look == {"bodiless", "peek", "preview"}
Kind == Download \cup Look
Stream == {"chunks", "preview"}
KindsOf(f) == Kind \ (IF f \in Encrypted THEN {"archive"} ELSE Stream)

Transfer == [pc : {"open", "send", "again", "find", "delete"},
             kind : Kind, entry : Entry, file : File, sent : 0 .. Blocks]

ASSUME DownloadAssumption ==
  /\ Encrypted \subseteq File
  /\ Blocks \in Nat \ {0} /\ MaxFaults \in Nat
  /\ None # Empty /\ None \notin File \cup Transfer /\ Empty \notin File

VARIABLES
  entries,   \* rows of entries: the file each has in the table files, Empty after DeleteFile
  disk,      \* the objects directory
  removing,  \* files whose rows are gone and whose objects a handler goes on to remove
  transfers,
  (* history *)
  drawn,     \* entries and files there have been
  reused,    \* files of entries whose id had been another entry's before
  delivered, \* files of which a download has sent every block
  spent,     \* files deleted because of a download
  spared,    \* files whose deletion was interrupted after a whole download
  faults

vars == <<entries, disk, removing, transfers, drawn, reused, delivered, spent, spared, faults>>

TypeOK ==
  /\ entries \in [Entry -> File \cup {None, Empty}]
  /\ disk \subseteq File /\ removing \subseteq File
  /\ transfers \in [Reader -> Transfer \cup {None}]
  /\ drawn \subseteq Entry \cup File /\ reused \subseteq File
  /\ delivered \subseteq File /\ spent \subseteq File /\ spared \subseteq File
  /\ faults \in 0 .. MaxFaults

Init ==
  /\ entries = [e \in Entry |-> None]
  /\ disk = {} /\ removing = {} /\ drawn = {} /\ reused = {}
  /\ transfers = [t \in Reader |-> None]
  /\ delivered = {} /\ spent = {} /\ spared = {} /\ faults = 0

Stored(f) == \E e \in Entry : entries[e] = f

-----------------------------------------------------------------------------
(* The owner                                                               *)
Publish(e, f) ==
  /\ entries[e] = None /\ f \notin drawn
  /\ entries' = [entries EXCEPT ![e] = f]
  /\ disk' = disk \cup {f}
  /\ drawn' = drawn \cup {e, f}
  /\ reused' = IF e \in drawn THEN reused \cup {f} ELSE reused
  /\ UNCHANGED <<removing, transfers, delivered, spent, spared, faults>>

(* Rows first: the object is removed by a later step of the handler.       *)
Drop(e, row) ==
  /\ entries' = [entries EXCEPT ![e] = row]
  /\ removing' = removing \cup ({entries[e]} \cap File)

(* Also the expiry of the entry.                                           *)
DeleteEntry(e) ==
  /\ entries[e] # None
  /\ Drop(e, None)
  /\ UNCHANGED <<disk, transfers, drawn, reused, delivered, spent, spared, faults>>

DeleteFile(e) ==
  /\ entries[e] \in File
  /\ Drop(e, Empty)
  /\ UNCHANGED <<disk, transfers, drawn, reused, delivered, spent, spared, faults>>

RemoveObject(f) ==
  /\ f \in removing
  /\ disk' = disk \ {f} /\ removing' = removing \ {f}
  /\ UNCHANGED <<entries, transfers, drawn, reused, delivered, spent, spared, faults>>

-----------------------------------------------------------------------------
(* Readers                                                                 *)
At(t, pc) == transfers[t] # None /\ transfers[t].pc = pc
Goto(t, pc) == transfers' = [transfers EXCEPT ![t].pc = pc]
Done(t) == transfers' = [transfers EXCEPT ![t] = None]

(* GetFile, or ListFiles for an archive.                                   *)
Lookup(t) ==
  /\ transfers[t] = None
  /\ \E e \in Entry : entries[e] \in File /\ \E kind \in KindsOf(entries[e]) :
          transfers' = [transfers EXCEPT ![t] =
            [pc |-> "open", kind |-> kind, entry |-> e, file |-> entries[e], sent |-> 0]]
  /\ UNCHANGED <<entries, disk, removing, drawn, reused, delivered, spent, spared, faults>>

(* A stream asks for its next range: a request of its own.                 *)
LookupAgain(t) ==
  /\ At(t, "again")
  /\ IF Stored(transfers[t].file) THEN Goto(t, "open") ELSE Done(t)
  /\ UNCHANGED <<entries, disk, removing, drawn, reused, delivered, spent, spared, faults>>

(* Without the object the reader is told file_missing.                     *)
OpenObject(t) ==
  /\ At(t, "open")
  /\ IF transfers[t].file \in disk THEN Goto(t, "send") ELSE Done(t)
  /\ UNCHANGED <<entries, disk, removing, drawn, reused, delivered, spent, spared, faults>>

Length(kind) == IF kind = "bodiless" THEN 0 ELSE Blocks

Send(t) ==
  /\ At(t, "send") /\ transfers[t].sent < Length(transfers[t].kind)
  /\ LET x == transfers[t] IN
     /\ transfers' = [transfers EXCEPT ![t] = [x EXCEPT
          !.sent = @ + 1,
          !.pc = IF x.kind \in Stream /\ x.sent + 1 < Blocks THEN "again" ELSE "send"]]
     /\ delivered' = IF x.kind \in Download /\ x.sent + 1 = Blocks
                     THEN delivered \cup {x.file} ELSE delivered
  /\ UNCHANGED <<entries, disk, removing, drawn, reused, spent, spared, faults>>

(* Slip: every body that was sent to its end consumes.                     *)
FinishSlip(t) ==
  /\ At(t, "send") /\ transfers[t].sent = Length(transfers[t].kind)
  /\ IF transfers[t].kind = "bodiless" THEN Done(t) ELSE Goto(t, "find")
  /\ UNCHANGED <<entries, disk, removing, drawn, reused, delivered, spent, spared, faults>>

(* Slip: an archive is compared with the size of the file, too.            *)
FinishArchiveSlip(t) ==
  /\ At(t, "send") /\ transfers[t].sent = Length(transfers[t].kind)
  /\ IF transfers[t].kind \in Download \ {"archive"} THEN Goto(t, "find") ELSE Done(t)
  /\ UNCHANGED <<entries, disk, removing, drawn, reused, delivered, spent, spared, faults>>

(* transferWriter.complete and the conditions around it: a GET with status *)
(* 200, no Range, no preview, every byte written without an error.         *)
Finish(t) ==
  /\ At(t, "send") /\ transfers[t].sent = Length(transfers[t].kind)
  /\ IF transfers[t].kind \in Download THEN Goto(t, "find") ELSE Done(t)
  /\ UNCHANGED <<entries, disk, removing, drawn, reused, delivered, spent, spared, faults>>

(* Whether the file counts as downloaded although nothing deletes it now.  *)
Spare(t) ==
  spared' = IF transfers[t].kind \in Download /\ transfers[t].sent = Blocks
            THEN spared \cup {transfers[t].file} ELSE spared

(* The reader goes away or does not read for 30 seconds, a write, the      *)
(* flush or the reading of the object fails, a stream is cancelled.        *)
Cut(t) ==
  /\ At(t, "open") \/ At(t, "send") \/ At(t, "again")
  /\ Done(t)
  /\ Spare(t)
  /\ UNCHANGED <<entries, disk, removing, drawn, reused, delivered, spent, faults>>

(* EntryForFile finds the entry through the row of the file, also for the  *)
(* confirmation of a stream; an archive remembers the entry it was of.     *)
FindEntry(t) ==
  /\ At(t, "find")
  /\ LET x == transfers[t] IN
     IF x.kind = "archive"
     THEN IF entries[x.entry] # None THEN Goto(t, "delete") ELSE Done(t)
     ELSE IF Stored(x.file)
          THEN transfers' = [transfers EXCEPT ![t] =
                 [x EXCEPT !.pc = "delete", !.entry = CHOOSE e \in Entry : entries[e] = x.file]]
          ELSE Done(t)
  /\ UNCHANGED <<entries, disk, removing, drawn, reused, delivered, spent, spared, faults>>

(* Slip: the row of the file is taken for granted.                         *)
ConsumeSlip(t) ==
  /\ At(t, "delete")
  /\ LET e == transfers[t].entry IN
     /\ entries' = [entries EXCEPT ![e] = None]
     /\ removing' = removing \cup {entries[e]}
     /\ spent' = spent \cup ({entries[e]} \cap File)
  /\ Done(t)
  /\ UNCHANGED <<disk, drawn, reused, delivered, spared, faults>>

(* Slip: the object is removed before the rows are.                        *)
ConsumeOrderSlip(t) ==
  /\ At(t, "delete")
  /\ LET x == transfers[t] IN
     IF x.file \in disk
     THEN disk' = disk \ {x.file} /\ UNCHANGED <<entries, removing, transfers, spent>>
     ELSE /\ Drop(x.entry, None)
          /\ spent' = spent \cup ({entries[x.entry]} \cap File)
          /\ Done(t) /\ UNCHANGED disk
  /\ UNCHANGED <<drawn, reused, delivered, spared, faults>>

(* store.DeleteEntry; ErrNotFound when somebody else was faster.           *)
Consume(t) ==
  /\ At(t, "delete")
  /\ LET e == transfers[t].entry IN
     /\ Drop(e, None)
     /\ spent' = spent \cup ({entries[e]} \cap File)
  /\ Done(t)
  /\ UNCHANGED <<disk, drawn, reused, delivered, spared, faults>>

(* The query or the transaction fails, or the confirmation is lost.        *)
Fail(t) ==
  /\ At(t, "find") \/ At(t, "delete")
  /\ faults < MaxFaults
  /\ faults' = faults + 1
  /\ Done(t)
  /\ Spare(t)
  /\ UNCHANGED <<entries, disk, removing, drawn, reused, delivered, spent>>

(* The server restarts; objects left behind are the cleanup pass's.        *)
Crash ==
  /\ faults < MaxFaults
  /\ faults' = faults + 1
  /\ transfers' = [t \in Reader |-> None]
  /\ removing' = {}
  /\ spared' = spared \cup {f \in File : \E t \in Reader :
       /\ transfers[t] # None /\ transfers[t].file = f
       /\ transfers[t].kind \in Download /\ transfers[t].sent = Blocks}
  /\ UNCHANGED <<entries, disk, drawn, reused, delivered, spent>>

Progress(t) ==
  OpenObject(t) \/ LookupAgain(t) \/ Send(t) \/ Finish(t) \/ FindEntry(t) \/ Consume(t)

Next ==
  \/ \E e \in Entry, f \in File : Publish(e, f)
  \/ \E e \in Entry : DeleteEntry(e) \/ DeleteFile(e)
  \/ \E f \in File : RemoveObject(f)
  \/ \E t \in Reader : Lookup(t) \/ Progress(t) \/ Cut(t) \/ Fail(t)
  \/ Crash

Spec == Init /\ [][Next]_vars

(* A handler goes on; one that waits for its reader is cut off at last.    *)
Fairness == \A t \in Reader : WF_vars(Progress(t) \/ Cut(t))

FairSpec == Spec /\ Fairness

-----------------------------------------------------------------------------
(* Properties                                                              *)

(* Only a file that was downloaded whole is deleted because of a download: *)
(* no HEAD, range, preview, unmodified answer or interrupted transfer      *)
(* deletes one, and no reader deletes another file than its own, but for   *)
(* one that got the id of the entry after an earlier entry had it.         *)
SpentWhole == spent \subseteq delivered \cup reused

(* While readers are shown the file they can open it: file_missing is told *)
(* only to those who looked the file up before it was deleted.             *)
MissingIsDeleted ==
  \A t \in Reader : At(t, "open") /\ transfers[t].file \notin disk => ~Stored(transfers[t].file)

(* A file that was downloaded whole is deleted in the end, whoever reads   *)
(* it besides, unless its deletion was interrupted.                        *)
OnceIsOnce == \A f \in File : f \in delivered ~> ~Stored(f) \/ f \in spared
=============================================================================
