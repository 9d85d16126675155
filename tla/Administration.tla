---------------------------- MODULE Administration ----------------------------
(***************************************************************************)
(* The administration commands of clipboard-exchange (internal/admin) next *)
(* to the server: backup, restore, rooms purge and storage reconcile run   *)
(* in a process of their own, so that the locks of the server mean nothing *)
(* to them.  What they share is the database and the directory of files.   *)
(*                                                                         *)
(* The server appears as its requests touch the two: UploadLifecycle has   *)
(* the whole of it.  An upload is of one chunk and alone in its room, so   *)
(* that an upload, its file and its room have one name.  The operator runs *)
(* one command at a time; those in Offline only while the service is down. *)
(***************************************************************************)
EXTENDS Naturals, Sequences

CONSTANTS
  File,
  Offline,       \* the commands the documentation wants run with the service stopped
  Absent, Torn,  \* a database that does not exist, one that was copied in part
  None,
  MaxCommands,   \* bound: commands of the operator's own choice
  MaxFaults      \* bound: commands broken off and crashes of the service

Command == {"backup", "restore", "purge", "reconcile"}
RowState == {"none", "session", "received", "file"}
Rows == [File -> RowState]

Archive == [kind : {"whole", "truncated", "foreign"}, rows : Rows, objects : SUBSET File,
            chunks : SUBSET File, ended : SUBSET File]

ASSUME AdministrationAssumption ==
  /\ Offline \subseteq Command
  /\ Absent \notin Rows /\ Torn \notin Rows /\ Absent # Torn
  /\ None \notin Rows /\ None \notin Archive /\ None \notin File /\ None \notin Command
  /\ MaxCommands \in Nat /\ MaxFaults \in Nat

VARIABLES
  db,        \* the database file
  wal,       \* the log beside it that a crash left, with what it adds up to
  objects, chunks,  \* on disk: objects/, and uploads/ as a chunk each
  up,        \* the service runs
  doing,     \* what a request to the service does with an upload
  removing,  \* deleted in the database, to be removed from the disk
  command, step,    \* the command under way, the index of its next step
  room,      \* purge: the room; None otherwise
  held,      \* rows a command read: the snapshot of a backup, the references of reconcile
  todo,      \* what a step of the command still has to visit
  copied,    \* backup: the objects and chunks written to the archive so far
  archive,   \* the file named by --output and --input
  drawn,     \* upload ids already used
  replaced,  \* history: a restore took the data away and none has finished since
  kept,      \* history: files the users can count on
  ended,     \* history: uploads committed, files and sessions deleted since the snapshot
  gaps,      \* history: those of the archive the data was restored from
  commands, faults

data == <<db, wal, objects, chunks>>
server == <<up, doing, removing, drawn>>
admin == <<command, step, room, held, todo, copied, commands>>
outside == <<archive, replaced, kept, ended, gaps, faults>>
vars == <<data, server, admin, outside>>

Nothing == [objects |-> {}, chunks |-> {}]
NoRows == [f \in File |-> "none"]
Idle == [f \in File |-> "nothing"]
Foreign == [kind |-> "foreign", rows |-> NoRows, objects |-> {}, chunks |-> {}, ended |-> {}]
Truncated == [Foreign EXCEPT !.kind = "truncated"]

TypeOK ==
  /\ db \in Rows \cup {Absent, Torn} /\ wal \in Rows \cup {None}
  /\ objects \subseteq File /\ chunks \subseteq File
  /\ up \in BOOLEAN
  /\ doing \in [File -> {"nothing", "put", "record", "assemble", "commit", "tidy"}]
  /\ removing \subseteq File
  /\ command \in Command \cup {None} /\ step \in 0 .. 7
  /\ room \in File \cup {None} /\ held \in Rows /\ todo \subseteq File
  /\ copied \in [objects : SUBSET File, chunks : SUBSET File]
  /\ archive \in Archive \cup {None}
  /\ drawn \subseteq File /\ kept \subseteq File /\ ended \subseteq File /\ gaps \subseteq File
  /\ replaced \in BOOLEAN
  /\ commands \in 0 .. MaxCommands /\ faults \in 0 .. MaxFaults

Init ==
  /\ db = NoRows /\ wal = None /\ objects = {} /\ chunks = {}
  /\ up = TRUE /\ doing = Idle /\ removing = {} /\ drawn = {}
  /\ command = None /\ step = 0 /\ room = None /\ held = NoRows /\ todo = {}
  /\ copied = Nothing /\ commands = 0
  /\ archive \in {None, Foreign}   \* one that a newer release wrote
  /\ replaced = FALSE /\ kept = {} /\ ended = {} /\ gaps = {} /\ faults = 0

(* Slip: the files are copied first, the database after them.              *)
BackupStepsSlip == <<"objects", "chunks", "snapshot", "finish">>

(* The order of what backup and restore do.                                *)
BackupSteps == <<"snapshot", "objects", "chunks", "finish">>

(* Slip: the archive is checked when there is room for what it holds.      *)
RestoreStepsSlip == <<"database", "log", "files", "check", "create", "fill", "copy">>

(* Slip: the log of the database before is left beside the new one.        *)
RestoreLogSlip == <<"check", "database", "files", "create", "fill", "copy">>

RestoreSteps == <<"check", "database", "log", "files", "create", "fill", "copy">>

Fault == faults < MaxFaults /\ faults' = faults + 1

-----------------------------------------------------------------------------
(* The database                                                            *)

(* What the files of the database amount to.  A log without its database   *)
(* is dropped; with it, it is replayed, whatever database it is from.      *)
Content == IF db = Absent THEN NoRows ELSE IF wal # None THEN wal ELSE db

(* store.Open.  A database that was copied in part is malformed and not    *)
(* opened or, cut off at zero, it is an empty one.                         *)
Open == db' = (IF Content = Torn THEN NoRows ELSE Content) /\ wal' = None

Ends(f) == ended' = ended \cup IF command = "backup" /\ held[f] \in {"received", "file"} THEN {f} ELSE {}

Sessions(rows) == {f \in File : rows[f] \in {"session", "received"}}
Files(rows) == {f \in File : rows[f] = "file"}

-----------------------------------------------------------------------------
(* The server                                                              *)

BeginUpload(f) ==
  /\ up /\ f \notin drawn
  /\ drawn' = drawn \cup {f}
  /\ db' = [db EXCEPT ![f] = "session"]
  /\ UNCHANGED <<wal, objects, chunks, up, doing, removing, admin, outside>>

(* A request, holding the lock of its upload, does the next thing.         *)
Serve(f, from, to) == up /\ doing[f] = from /\ doing' = [doing EXCEPT ![f] = to]

Accept(f) ==
  /\ up
  /\ \/ db[f] \in {"session", "received"} /\ Serve(f, "nothing", "put")
     \/ db[f] = "received" /\ Serve(f, "nothing", "assemble")
  /\ UNCHANGED <<data, up, removing, drawn, admin, outside>>

WriteChunk(f) ==
  /\ Serve(f, "put", "record")
  /\ chunks' = chunks \cup {f}
  /\ UNCHANGED <<db, wal, objects, up, removing, drawn, admin, outside>>

RecordChunk(f) ==
  /\ Serve(f, "record", "nothing")
  /\ db' = IF db[f] = "session" THEN [db EXCEPT ![f] = "received"] ELSE db
  /\ UNCHANGED <<wal, objects, chunks, up, removing, drawn, admin, outside>>

Assemble(f) ==
  /\ \/ f \in chunks /\ Serve(f, "assemble", "commit") /\ objects' = objects \cup {f}
     \/ f \notin chunks /\ Serve(f, "assemble", "nothing") /\ UNCHANGED objects
  /\ UNCHANGED <<db, wal, chunks, up, removing, drawn, admin, outside>>

(* The row may be gone: a purge does not wait for the request.             *)
CommitUpload(f) ==
  /\ up
  /\ \/ /\ db[f] = "received" /\ Serve(f, "commit", "tidy")
        /\ db' = [db EXCEPT ![f] = "file"]
        /\ kept' = kept \cup {f} /\ Ends(f)
     \/ /\ db[f] # "received" /\ Serve(f, "commit", "nothing")
        /\ UNCHANGED <<db, kept, ended>>
  /\ UNCHANGED <<wal, objects, chunks, up, removing, drawn, admin, archive, replaced, gaps, faults>>

Tidy(f) ==
  /\ Serve(f, "tidy", "nothing")
  /\ chunks' = chunks \ {f}
  /\ UNCHANGED <<db, wal, objects, up, removing, drawn, admin, outside>>

(* Every way to end an upload or to delete a file: most take no lock.      *)
Delete(f) ==
  /\ up /\ db[f] # "none"
  /\ db' = [db EXCEPT ![f] = "none"]
  /\ removing' = removing \cup {f}
  /\ kept' = kept \ {f} /\ Ends(f)
  /\ UNCHANGED <<wal, objects, chunks, up, doing, drawn, admin, archive, replaced, gaps, faults>>

RemovePayload(f) ==
  /\ f \in removing
  /\ removing' = removing \ {f}
  /\ objects' = objects \ {f} /\ chunks' = chunks \ {f}
  /\ UNCHANGED <<db, wal, up, doing, drawn, admin, outside>>

(* The hourly pass waits for the requests, not for the commands.           *)
Cleanup ==
  /\ up /\ doing = Idle /\ removing = {}
  /\ chunks' = chunks \cap Sessions(db)
  /\ objects' = objects \cap (Sessions(db) \cup Files(db))
  /\ UNCHANGED <<db, wal, server, admin, outside>>

(* The operator, or systemd at boot: also after a restore that failed.     *)
StartService ==
  /\ ~up /\ command \notin Offline
  /\ up' = TRUE /\ Open
  /\ UNCHANGED <<objects, chunks, doing, removing, drawn, admin, outside>>

StopService ==
  /\ up
  /\ up' = FALSE /\ doing' = Idle /\ removing' = {}
  /\ UNCHANGED <<data, drawn, admin, outside>>

(* The database is not closed: its log stays, unless a command that has    *)
(* the database open, too, is there to close it.                           *)
ServiceCrash ==
  /\ up /\ Fault
  /\ up' = FALSE /\ doing' = Idle /\ removing' = {}
  /\ wal' = IF command = None THEN db ELSE None
  /\ UNCHANGED <<db, objects, chunks, drawn, admin, archive, replaced, kept, ended, gaps>>

-----------------------------------------------------------------------------
(* The commands                                                            *)

Steps(c) ==
  CASE c = "backup" -> BackupSteps
    [] c = "restore" -> RestoreSteps
    [] c = "purge" -> <<"clear", "drop", "payload">>
    [] c = "reconcile" -> <<"references", "sweep">>

At(c, what) == command = c /\ Steps(c)[step] = what

Proceed(visits) == step' = step + 1 /\ todo' = visits

Leave ==
  /\ command' = None /\ step' = 0 /\ todo' = {}
  /\ room' = None /\ held' = NoRows /\ copied' = Nothing

(* Whoever opens the database first after a crash gets the log replayed.   *)
OpenBeside == IF up THEN UNCHANGED <<db, wal>> ELSE Open

Begin(c) ==
  /\ command = None /\ (c \in Offline => ~up)
  /\ command' = c /\ step' = 1
  /\ \/ commands < MaxCommands /\ commands' = commands + 1
     \/ c = "restore" /\ replaced /\ UNCHANGED commands
  /\ todo' = IF c = "backup" THEN File ELSE {}
  /\ UNCHANGED <<objects, chunks, server, held, copied, replaced, kept, ended, gaps, faults>>

(* The output must not exist: a backup is given a new name, and the name   *)
(* before is forgotten.  Who has no data left makes no backup of it.       *)
BeginBackup == ~replaced /\ Begin("backup") /\ archive' = None /\ OpenBeside /\ UNCHANGED room
BeginReconcile == Begin("reconcile") /\ OpenBeside /\ UNCHANGED <<room, archive>>
BeginPurge(f) == Begin("purge") /\ room' = f /\ OpenBeside /\ UNCHANGED archive
BeginRestore == archive # None /\ Begin("restore") /\ UNCHANGED <<db, wal, room, archive>>

(* VACUUM INTO: one read transaction.                                      *)
BackupSnapshot ==
  /\ At("backup", "snapshot")
  /\ held' = db /\ ended' = {}
  /\ Proceed(File)
  /\ UNCHANGED <<data, server, command, room, copied, commands, archive, replaced, kept, gaps,
                 faults>>

(* filepath.Walk comes by every name once; a file that is gone is left     *)
(* out.  One that goes between its listing and its opening is an error and *)
(* ends the backup, see Fail.                                              *)
BackupVisit(f) ==
  /\ f \in todo /\ todo' = todo \ {f}
  /\ \/ At("backup", "objects") /\ copied' = [copied EXCEPT !.objects = @ \cup ({f} \cap objects)]
     \/ At("backup", "chunks") /\ copied' = [copied EXCEPT !.chunks = @ \cup ({f} \cap chunks)]
  /\ UNCHANGED <<data, server, command, step, room, held, commands, outside>>

BackupVisited ==
  /\ At("backup", "objects") \/ At("backup", "chunks")
  /\ todo = {} /\ Proceed(File)
  /\ UNCHANGED <<data, server, command, room, held, copied, commands, outside>>

BackupFinish ==
  /\ At("backup", "finish")
  /\ archive' = [kind |-> "whole", rows |-> held, objects |-> copied.objects,
                 chunks |-> copied.chunks, ended |-> ended \cup gaps]
  /\ Leave /\ ended' = {}
  /\ UNCHANGED <<data, server, commands, replaced, kept, gaps, faults>>

(* The archive is unpacked elsewhere, its manifest read, its database      *)
(* opened: one that is cut off or of a newer release goes no further.      *)
RestoreCheck ==
  /\ At("restore", "check")
  /\ IF archive.kind = "whole"
       THEN Proceed({}) /\ UNCHANGED <<command, room, held, copied>>
       ELSE Leave
  /\ UNCHANGED <<data, server, commands, outside>>

(* Slip: a database that is not there is an error.                         *)
RestoreRemoveSlip ==
  /\ \/ At("restore", "database") /\ db = Absent /\ Leave /\ UNCHANGED <<db, wal>>
     \/ /\ \/ At("restore", "database") /\ db # Absent /\ db' = Absent /\ UNCHANGED wal
           \/ At("restore", "log") /\ wal' = None /\ UNCHANGED db
        /\ Proceed({})
        /\ UNCHANGED <<command, room, held, copied>>
  /\ replaced' = TRUE
  /\ UNCHANGED <<objects, chunks, server, commands, archive, kept, ended, gaps, faults>>

RestoreRemove ==
  /\ \/ At("restore", "database") /\ db' = Absent /\ UNCHANGED wal
     \/ At("restore", "log") /\ wal' = None /\ UNCHANGED db
  /\ replaced' = TRUE
  /\ Proceed({})
  /\ UNCHANGED <<objects, chunks, server, command, room, held, copied, commands, archive, kept,
                 ended, gaps, faults>>

(* os.RemoveAll of the directory of files, in the order it meets them.     *)
RestoreEmpty(f) ==
  /\ At("restore", "files") /\ f \in objects \cup chunks
  /\ \/ f \in objects /\ objects' = objects \ {f} /\ UNCHANGED chunks
     \/ f \in chunks /\ chunks' = chunks \ {f} /\ UNCHANGED objects
  /\ UNCHANGED <<db, wal, server, admin, outside>>

RestoreEmptied ==
  /\ At("restore", "files") /\ objects = {} /\ chunks = {}
  /\ Proceed({})
  /\ UNCHANGED <<data, server, command, room, held, copied, commands, outside>>

(* copyFile: the file is there before its bytes are.                       *)
RestoreDatabase ==
  /\ \/ At("restore", "create") /\ db = Absent /\ db' = Torn
     \/ At("restore", "fill") /\ db' = archive.rows
  /\ Proceed(archive.objects \cup archive.chunks)
  /\ UNCHANGED <<wal, objects, chunks, server, command, room, held, copied, commands, outside>>

RestoreCopy(f) ==
  /\ At("restore", "copy") /\ f \in todo /\ todo' = todo \ {f}
  /\ objects' = objects \cup ({f} \cap archive.objects)
  /\ chunks' = chunks \cup ({f} \cap archive.chunks)
  /\ UNCHANGED <<db, wal, server, command, step, room, held, copied, commands, outside>>

(* The restored database is opened and closed once, for a proof.           *)
RestoreVerify ==
  /\ At("restore", "copy") /\ todo = {}
  /\ Open
  /\ Leave
  /\ replaced' = FALSE /\ kept' = Files(archive.rows) \ archive.ended
  /\ gaps' = archive.ended
  /\ UNCHANGED <<objects, chunks, server, commands, archive, ended, faults>>

(* DeleteRoom: two transactions.  The first tells what it deleted, what    *)
(* comes in after it goes by cascade in the second.                        *)
PurgeRows ==
  /\ \/ At("purge", "clear") /\ todo' = {room} \ {f \in File : db[f] = "none"}
     \/ At("purge", "drop") /\ UNCHANGED todo
  /\ step' = step + 1
  /\ db' = [db EXCEPT ![room] = "none"]
  /\ kept' = kept \ {room} /\ Ends(room)
  /\ UNCHANGED <<wal, objects, chunks, server, command, room, held, copied, commands, archive,
                 replaced, gaps, faults>>

PurgePayload ==
  /\ At("purge", "payload")
  /\ objects' = objects \ todo /\ chunks' = chunks \ todo
  /\ Leave
  /\ UNCHANGED <<db, wal, server, commands, outside>>

ReconcileReferences ==
  /\ At("reconcile", "references")
  /\ held' = db
  /\ Proceed({})
  /\ UNCHANGED <<data, server, command, room, copied, commands, outside>>

Reconcile(f) ==
  /\ At("reconcile", "sweep")
  /\ \/ f \in chunks \ Sessions(held) /\ chunks' = chunks \ {f} /\ UNCHANGED objects
     \/ /\ f \in objects \ (Sessions(held) \cup Files(held))
        /\ objects' = objects \ {f} /\ UNCHANGED chunks
  /\ UNCHANGED <<db, wal, server, admin, outside>>

Reconciled ==
  /\ At("reconcile", "sweep")
  /\ chunks \subseteq Sessions(held) /\ objects \subseteq Sessions(held) \cup Files(held)
  /\ Leave
  /\ UNCHANGED <<data, server, commands, outside>>

(* A step fails, or the command is killed.  A backup that fails removes    *)
(* its output; one that is killed does not.                                *)
Fail ==
  /\ command # None /\ Fault
  /\ Leave
  /\ \/ UNCHANGED archive
     \/ command = "backup" /\ step > 1 /\ archive' = Truncated
  /\ UNCHANGED <<data, server, commands, replaced, kept, ended, gaps>>

-----------------------------------------------------------------------------
ServerStep(f) ==
  \/ BeginUpload(f) \/ Accept(f) \/ WriteChunk(f) \/ RecordChunk(f) \/ Assemble(f)
  \/ CommitUpload(f) \/ Tidy(f) \/ Delete(f) \/ RemovePayload(f)

CommandStep(f) ==
  \/ BackupVisit(f) \/ RestoreEmpty(f) \/ RestoreCopy(f) \/ Reconcile(f)

Advance ==
  \/ BackupSnapshot \/ BackupVisited \/ BackupFinish
  \/ RestoreCheck \/ RestoreRemove \/ RestoreEmptied \/ RestoreDatabase \/ RestoreVerify
  \/ PurgeRows \/ PurgePayload \/ ReconcileReferences \/ Reconciled
  \/ \E f \in File : CommandStep(f)

Next ==
  \/ \E f \in File : ServerStep(f) \/ BeginPurge(f)
  \/ Cleanup \/ StartService \/ StopService \/ ServiceCrash
  \/ BeginBackup \/ BeginRestore \/ BeginReconcile
  \/ Advance \/ Fail

Spec == Init /\ [][Next]_vars

(* A command runs to its end, and an operator whose restore broke off      *)
(* stops the service and repeats it.                                       *)
FairSpec ==
  /\ Spec /\ WF_vars(Advance)
  /\ WF_vars(replaced /\ StopService) /\ SF_vars(replaced /\ BeginRestore)

-----------------------------------------------------------------------------
(* Properties                                                              *)

(* An archive holds the object of every file, and the chunks of every      *)
(* session, that its database names, other than what was deleted or        *)
(* completed while the backup went on beside the service.                  *)
BackupCovers ==
  archive # None /\ archive.kind = "whole" =>
    \A f \in File \ archive.ended :
      /\ archive.rows[f] = "file" => f \in archive.objects
      /\ archive.rows[f] = "received" => f \in archive.chunks

(* A file the users were told is stored, and nobody deleted, is in the     *)
(* database and on the disk whatever command runs beside the service,      *)
(* breaks off or meets a crash; only a restore takes it away, and then     *)
(* there is an archive a further restore can start from.                   *)
DataAtHand ==
  IF replaced THEN archive # None /\ archive.kind = "whole"
  ELSE Content # Torn /\ \A f \in kept : Content[f] = "file" /\ f \in objects

(* A restore that reports success leaves what the archive holds and        *)
(* nothing of what was there before.                                       *)
RestoredAsArchived ==
  [][replaced /\ ~replaced' =>
       /\ db' = archive.rows /\ wal' = None
       /\ objects' = archive.objects /\ chunks' = archive.chunks]_vars

(* A restore that broke off anywhere can be repeated until it succeeds.    *)
RestoreRepeatable == replaced ~> ~replaced
=============================================================================
