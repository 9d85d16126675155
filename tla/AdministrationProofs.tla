------------------------- MODULE AdministrationProofs -------------------------
(***************************************************************************)
(* What holds of the administration commands next to the server for any    *)
(* set of files and any bounds, proved with TLAPS, if restore and          *)
(* reconcile are run as the documentation wants them run, with the service *)
(* stopped.  Whatever steps of the server, of a command, of a failure or a *)
(* crash there are in between, the disk has what the database names, an    *)
(* archive has what its own database names, and a restore brings that and  *)
(* nothing else.                                                           *)
(***************************************************************************)
EXTENDS Administration, TLAPS

(* README.md, "Storage": "run storage reconcile, as backup and restore,     *)
(* with the service stopped".  A backup beside the service is allowed for. *)
DocumentedUse == {"restore", "reconcile"} \subseteq Offline

-----------------------------------------------------------------------------
Beside == {"backup", "purge", "reconcile"}

(* A command is at one of its steps; a restore goes on only with an        *)
(* archive that was found whole.                                           *)
AtWork ==
  /\ \/ command = None /\ step = 0
     \/ command = "backup" /\ step \in 1 .. 4
     \/ command = "restore" /\ step \in 1 .. 7
     \/ command = "purge" /\ step \in 1 .. 3
     \/ command = "reconcile" /\ step \in 1 .. 2
  /\ command \in Offline => ~up
  /\ command = "backup" => ~replaced
  /\ command = "purge" => room \in File
  /\ command = "restore" => archive # None /\ (step > 1 => archive.kind = "whole")
  /\ replaced => archive # None /\ archive.kind = "whole"

(* Who has the database open has its log replayed; a service that does not *)
(* run serves nobody; the database is away only in and after a restore.    *)
Opened ==
  /\ up \/ command \in Beside => db \in Rows /\ wal = None
  /\ ~up => doing = Idle /\ removing = {}
  /\ ~replaced => db \in Rows

Born(rows) == \A f \in File : rows[f] # "none" => f \in drawn

(* No row, and no request, is of an upload that has not begun.             *)
DrawnFirst ==
  /\ db \in Rows => Born(db)
  /\ wal # None => Born(wal)
  /\ Born(held)
  /\ archive # None => Born(archive.rows)
  /\ \A f \in File : doing[f] # "nothing" => f \in drawn

(* What a request or a deletion is about to do finds the payload, or the   *)
(* row is gone for good.                                                   *)
Requests ==
  \A f \in File :
    /\ doing[f] = "record" /\ db[f] = "session" => f \in chunks
    /\ doing[f] = "commit" /\ db[f] = "received" => f \in objects
    /\ doing[f] = "tidy" => db[f] \in {"file", "none"}
    /\ f \in removing \/ (command = "purge" /\ f \in todo) => db[f] = "none" /\ f \in drawn

(* What the database names is on the disk, but for what the archive it was *)
(* restored from did not have.                                             *)
OnDisk ==
  ~replaced => \A f \in File :
    /\ Content[f] = "file" /\ f \notin gaps => f \in objects
    /\ Content[f] = "received" /\ f \notin gaps => f \in chunks
    /\ f \in kept => Content[f] = "file" /\ f \in objects

(* A row of the snapshot is as it was then or has ended; what belongs to   *)
(* it is in the archive or will be come by.                                *)
InBackup ==
  command = "backup" /\ step > 1 => \A f \in File \ ended :
    /\ held[f] \in {"received", "file"} => db[f] = held[f]
    /\ held[f] = "file" /\ f \notin gaps => f \in copied.objects \/ (step = 2 /\ f \in todo)
    /\ held[f] = "received" /\ f \notin gaps =>
         f \in copied.chunks \/ step = 2 \/ (step = 3 /\ f \in todo)

(* How far the data has been taken away, and how far it has been brought.  *)
InRestore ==
  command = "restore" =>
    /\ step > 2 => replaced
    /\ step \in 3 .. 5 => db = Absent
    /\ step > 3 => wal = None
    /\ step \in 5 .. 6 => objects = {} /\ chunks = {}
    /\ step = 7 => /\ db = archive.rows
                   /\ objects = archive.objects \ todo /\ chunks = archive.chunks \ todo

(* With the service stopped, the references do not grow stale.             *)
InReconcile == command = "reconcile" /\ step = 2 => held = db

IInv ==
  /\ TypeOK /\ AtWork /\ Opened /\ DrawnFirst /\ Requests /\ OnDisk
  /\ InBackup /\ InRestore /\ InReconcile /\ BackupCovers

-----------------------------------------------------------------------------
(* The command that is at a named step, and the index of that step.        *)
LEMMA Positions ==
  ASSUME IInv
  PROVE  /\ At("backup", "snapshot") => command = "backup" /\ step = 1
         /\ At("backup", "objects") => command = "backup" /\ step = 2
         /\ At("backup", "chunks") => command = "backup" /\ step = 3
         /\ At("backup", "finish") => command = "backup" /\ step = 4
         /\ At("restore", "check") => command = "restore" /\ step = 1
         /\ At("restore", "database") => command = "restore" /\ step = 2
         /\ At("restore", "log") => command = "restore" /\ step = 3
         /\ At("restore", "files") => command = "restore" /\ step = 4
         /\ At("restore", "create") => command = "restore" /\ step = 5
         /\ At("restore", "fill") => command = "restore" /\ step = 6
         /\ At("restore", "copy") => command = "restore" /\ step = 7
         /\ At("purge", "clear") => command = "purge" /\ step = 1
         /\ At("purge", "drop") => command = "purge" /\ step = 2
         /\ At("purge", "payload") => command = "purge" /\ step = 3
         /\ At("reconcile", "references") => command = "reconcile" /\ step = 1
         /\ At("reconcile", "sweep") => command = "reconcile" /\ step = 2
BY AdministrationAssumption
DEF At, Steps, BackupSteps, RestoreSteps, IInv, AtWork, Command

(* What the values that Init, Leave and Fail give have to do with.         *)
LEMMA Shapes ==
  /\ NoRows \in Rows /\ Nothing \in [objects : SUBSET File, chunks : SUBSET File]
  /\ Idle \in [File -> {"nothing", "put", "record", "assemble", "commit", "tidy"}]
  /\ \A f \in File : NoRows[f] = "none" /\ Idle[f] = "nothing"
BY DEF NoRows, Rows, RowState, Idle, Nothing

LEMMA Useless ==
  /\ Truncated \in Archive /\ Truncated.kind = "truncated" /\ Truncated.rows = NoRows
  /\ Foreign \in Archive /\ Foreign.kind = "foreign" /\ Foreign.rows = NoRows
<1>1. Truncated = [kind |-> "truncated", rows |-> NoRows, objects |-> {}, chunks |-> {},
                   ended |-> {}]
  BY DEF Truncated, Foreign
<1>. QED BY <1>1, Shapes DEF Archive, Foreign

LEMMA NoCommand == None \notin Offline /\ None \notin {"backup", "restore", "purge", "reconcile"}
BY AdministrationAssumption DEF Command

(* A restore and a reconcile have the data to themselves.                  *)
LEMMA Stopped ==
  ASSUME DocumentedUse, IInv, command \in {"restore", "reconcile"}
  PROVE  ~up /\ doing = Idle /\ removing = {}
BY DEF DocumentedUse, IInv, AtWork, Opened

(* Whoever opens the database, with the log of a crash or without, has the *)
(* rows that were committed.                                               *)
LEMMA Replayed ==
  ASSUME IInv, OpenBeside
  PROVE  /\ db' \in Rows /\ wal' = None
         /\ \A f \in File : db'[f] # "none" => f \in drawn
         /\ db \in Rows /\ wal = None => db' = db
         /\ ~replaced => Content' = Content
BY Shapes, AdministrationAssumption
DEF OpenBeside, Open, Content, IInv, TypeOK, Opened, DrawnFirst, Born

-----------------------------------------------------------------------------
LEMMA ServerKeeps ==
  ASSUME DocumentedUse, IInv, NEW f \in File, ServerStep(f)
  PROVE  IInv'
<1>. USE DEF IInv
<1>1. CASE BeginUpload(f)
  <2>1. TypeOK' /\ DrawnFirst'
    BY <1>1 DEF BeginUpload, TypeOK, Opened, admin, outside, Rows, RowState, Command,
         Archive, Beside, DrawnFirst, Born
  <2>2. AtWork' /\ Opened' /\ BackupCovers'
    BY <1>1 DEF BeginUpload, AtWork, admin, outside, Opened, Beside, Rows, RowState,
         BackupCovers
  <2>3. Requests' /\ InBackup'
    BY <1>1 DEF BeginUpload, Requests, DrawnFirst, admin, outside, Rows, RowState, Born,
         InBackup
  <2>4. OnDisk'
    BY <1>1, AdministrationAssumption DEF BeginUpload, OnDisk, DrawnFirst, Opened, admin,
         outside, Content, Rows, RowState, Born, Beside
  <2>5. InRestore' /\ InReconcile'
    BY <1>1, Stopped DEF BeginUpload, InRestore, admin, outside, InReconcile
  <2>. QED BY <2>1, <2>2, <2>3, <2>4, <2>5
<1>2. CASE Accept(f)
  <2>1. /\ TypeOK' /\ AtWork' /\ Opened' /\ OnDisk' /\ InBackup'
        /\ InRestore' /\ InReconcile' /\ BackupCovers'
    BY <1>2 DEF Accept, TypeOK, Serve, data, admin, outside, Rows, RowState, Command,
         Archive, AtWork, Opened, Beside, OnDisk, Content, InBackup, InRestore, InReconcile,
         BackupCovers
  <2>2. DrawnFirst'
    BY <1>2 DEF Accept, DrawnFirst, Opened, TypeOK, Serve, data, admin, outside, Rows,
         RowState, Born, Beside, Command, Archive
  <2>3. Requests'
    BY <1>2 DEF Accept, Requests, DrawnFirst, TypeOK, Serve, data, admin, outside, Rows,
         RowState, Born, Command, Archive
  <2>. QED BY <2>1, <2>2, <2>3
<1>3. CASE WriteChunk(f)
  <2>1. /\ TypeOK' /\ AtWork' /\ Opened' /\ DrawnFirst' /\ Requests'
        /\ OnDisk' /\ InBackup' /\ InReconcile' /\ BackupCovers'
    BY <1>3 DEF WriteChunk, TypeOK, Serve, admin, outside, Rows, RowState, Command, Archive,
         AtWork, Opened, Beside, DrawnFirst, Born, Requests, OnDisk, Content, InBackup,
         InReconcile, BackupCovers
  <2>2. InRestore'
    BY <1>3, Stopped DEF WriteChunk, InRestore, Serve, admin, outside
  <2>. QED BY <2>1, <2>2
<1>4. CASE RecordChunk(f)
  <2>1. TypeOK'
    BY <1>4 DEF RecordChunk, TypeOK, Opened, Serve, admin, outside, Rows, RowState, Command,
         Archive, Beside
  <2>2. AtWork' /\ Opened' /\ DrawnFirst' /\ Requests' /\ InBackup' /\ BackupCovers'
    BY <1>4 DEF RecordChunk, AtWork, Serve, admin, outside, Opened, Beside, Rows, RowState,
         DrawnFirst, Born, Requests, InBackup, BackupCovers
  <2>3. OnDisk'
    BY <1>4, AdministrationAssumption DEF RecordChunk, OnDisk, Opened, Requests, Serve,
         admin, outside, Content, Beside, Rows, RowState
  <2>4. InRestore' /\ InReconcile'
    BY <1>4, Stopped DEF RecordChunk, InRestore, Serve, admin, outside, InReconcile
  <2>. QED BY <2>1, <2>2, <2>3, <2>4
<1>5. CASE Assemble(f)
  <2>1. /\ TypeOK' /\ AtWork' /\ Opened' /\ OnDisk'
        /\ InBackup' /\ InReconcile' /\ BackupCovers'
    BY <1>5 DEF Assemble, TypeOK, Serve, admin, outside, Rows, RowState, Command, Archive,
         AtWork, Opened, Beside, OnDisk, Content, InBackup, InReconcile, BackupCovers
  <2>2. DrawnFirst' /\ Requests'
    BY <1>5 DEF Assemble, DrawnFirst, TypeOK, Serve, admin, outside, Rows, RowState, Born,
         Command, Archive, Requests
  <2>3. InRestore'
    BY <1>5, Stopped DEF Assemble, InRestore, Serve, admin, outside
  <2>. QED BY <2>1, <2>2, <2>3
<1>6. CASE CommitUpload(f)
  <2>1. TypeOK' /\ InBackup'
    BY <1>6 DEF CommitUpload, TypeOK, Opened, Serve, Ends, admin, Rows, RowState, Command,
         Archive, Beside, InBackup
  <2>2. AtWork' /\ Opened' /\ BackupCovers'
    BY <1>6 DEF CommitUpload, AtWork, Serve, Ends, admin, Opened, Beside, Rows, RowState,
         BackupCovers
  <2>3. DrawnFirst' /\ Requests'
    BY <1>6 DEF CommitUpload, DrawnFirst, Opened, TypeOK, Serve, Ends, admin, Rows,
         RowState, Born, Beside, Command, Archive, Requests
  <2>4. OnDisk'
    BY <1>6, AdministrationAssumption DEF CommitUpload, OnDisk, Opened, Requests, Serve,
         Ends, admin, Content, Beside, Rows, RowState
  <2>5. InRestore' /\ InReconcile'
    BY <1>6, Stopped DEF CommitUpload, InRestore, Serve, Ends, admin, InReconcile
  <2>. QED BY <2>1, <2>2, <2>3, <2>4, <2>5
<1>7. CASE Tidy(f)
  <2>1. /\ TypeOK' /\ AtWork' /\ Opened' /\ DrawnFirst' /\ Requests'
        /\ InBackup' /\ InReconcile' /\ BackupCovers'
    BY <1>7 DEF Tidy, TypeOK, Serve, admin, outside, Rows, RowState, Command, Archive,
         AtWork, Opened, Beside, DrawnFirst, Born, Requests, InBackup, InReconcile,
         BackupCovers
  <2>2. OnDisk'
    BY <1>7, AdministrationAssumption DEF Tidy, OnDisk, Opened, Requests, Serve, admin,
         outside, Content, Beside, Rows, RowState
  <2>3. InRestore'
    BY <1>7, Stopped DEF Tidy, InRestore, Serve, admin, outside
  <2>. QED BY <2>1, <2>2, <2>3
<1>8. CASE Delete(f)
  <2>1. TypeOK' /\ DrawnFirst'
    BY <1>8 DEF Delete, TypeOK, Opened, Ends, admin, Rows, RowState, Command, Archive,
         Beside, DrawnFirst, Born
  <2>2. AtWork' /\ Opened' /\ InBackup' /\ BackupCovers'
    BY <1>8 DEF Delete, AtWork, Ends, admin, Opened, Beside, Rows, RowState, InBackup,
         BackupCovers
  <2>3. Requests'
    BY <1>8 DEF Delete, Requests, DrawnFirst, Opened, Ends, admin, Rows, RowState, Born,
         Beside
  <2>4. OnDisk'
    BY <1>8, AdministrationAssumption DEF Delete, OnDisk, Opened, Ends, admin, Content,
         Beside, Rows, RowState
  <2>5. InRestore' /\ InReconcile'
    BY <1>8, Stopped DEF Delete, InRestore, Ends, admin, InReconcile
  <2>. QED BY <2>1, <2>2, <2>3, <2>4, <2>5
<1>9. CASE RemovePayload(f)
  <2>1. /\ TypeOK' /\ AtWork' /\ Opened' /\ DrawnFirst' /\ Requests'
        /\ InBackup' /\ InReconcile' /\ BackupCovers'
    BY <1>9 DEF RemovePayload, TypeOK, admin, outside, Rows, RowState, Command, Archive,
         AtWork, Opened, Beside, DrawnFirst, Born, Requests, InBackup, InReconcile,
         BackupCovers
  <2>2. OnDisk'
    BY <1>9, AdministrationAssumption DEF RemovePayload, OnDisk, Opened, Requests, admin,
         outside, Content, Beside, Rows, RowState
  <2>3. InRestore'
    BY <1>9, Stopped DEF RemovePayload, InRestore, admin, outside
  <2>. QED BY <2>1, <2>2, <2>3
<1>. QED BY <1>1, <1>2, <1>3, <1>4, <1>5, <1>6, <1>7, <1>8, <1>9 DEF ServerStep

LEMMA ServiceKeeps ==
  ASSUME DocumentedUse, IInv, Cleanup \/ StartService \/ StopService \/ ServiceCrash
  PROVE  IInv'
<1>. USE DEF IInv
<1>1. CASE Cleanup
  <2>1. /\ TypeOK' /\ AtWork' /\ Opened' /\ DrawnFirst' /\ Requests'
        /\ InBackup' /\ InReconcile' /\ BackupCovers'
    BY <1>1 DEF Cleanup, TypeOK, Sessions, Files, server, admin, outside, Rows, RowState,
         Command, Archive, AtWork, Opened, Beside, DrawnFirst, Born, Requests, InBackup,
         InReconcile, BackupCovers
  <2>2. OnDisk'
    BY <1>1, AdministrationAssumption DEF Cleanup, OnDisk, Opened, Sessions, Files, server,
         admin, outside, Content, Beside, Rows, RowState
  <2>3. InRestore'
    BY <1>1, Stopped DEF Cleanup, InRestore, Sessions, Files, server, admin, outside
  <2>. QED BY <2>1, <2>2, <2>3
<1>2. CASE StartService
  <2>1. OpenBeside
    BY <1>2 DEF StartService, OpenBeside
  <2>2. TypeOK' /\ Opened' /\ DrawnFirst' /\ OnDisk'
    BY <1>2, <2>1, Replayed DEF StartService, TypeOK, admin, outside, Opened, DrawnFirst,
         Born, OnDisk
  <2>3. AtWork' /\ BackupCovers' /\ InRestore'
    BY <1>2 DEF StartService, DocumentedUse, AtWork, admin, outside, BackupCovers, InRestore
  <2>4. Requests'
    BY <1>2, <2>1, Replayed, Shapes DEF StartService, Requests, Opened, admin, Beside
  <2>5. InBackup' /\ InReconcile'
    BY <1>2, <2>1, Replayed DEF StartService, Opened, admin, outside, Beside, InBackup,
         InReconcile
  <2>. QED BY <2>2, <2>3, <2>4, <2>5
<1>3. CASE StopService
  <2>1. TypeOK' /\ DrawnFirst' /\ Requests'
    BY <1>3, Shapes DEF StopService, TypeOK, data, admin, outside, Rows, RowState, Command,
         Archive, DrawnFirst, Born, Requests
  <2>2. /\ AtWork' /\ Opened' /\ OnDisk' /\ InBackup'
        /\ InRestore' /\ InReconcile' /\ BackupCovers'
    BY <1>3 DEF StopService, AtWork, data, admin, outside, Opened, Beside, Rows, RowState,
         OnDisk, Content, InBackup, InRestore, InReconcile, BackupCovers
  <2>. QED BY <2>1, <2>2
<1>4. CASE ServiceCrash
  <2>1. TypeOK'
    <3>1. faults' \in 0 .. MaxFaults
      BY <1>4, AdministrationAssumption DEF ServiceCrash, Fault, TypeOK
    <3>2. wal' \in Rows \cup {None}
      BY <1>4 DEF ServiceCrash, Opened
    <3>. QED BY <1>4, <3>1, <3>2, Shapes DEF ServiceCrash, TypeOK, admin
  <2>2. AtWork' /\ InBackup' /\ InReconcile' /\ BackupCovers'
    BY <1>4 DEF ServiceCrash, AtWork, Fault, admin, InBackup, InReconcile, BackupCovers
  <2>3. Opened' /\ InRestore'
    BY <1>4, NoCommand DEF ServiceCrash, Opened, Fault, admin, Beside, InRestore
  <2>4. DrawnFirst'
    BY <1>4, Shapes DEF ServiceCrash, DrawnFirst, Opened, Fault, admin, Rows, RowState,
         Born, Beside
  <2>5. Requests'
    BY <1>4, Shapes DEF ServiceCrash, Requests, Fault, admin
  <2>6. OnDisk'
    BY <1>4 DEF ServiceCrash, OnDisk, Opened, Fault, admin, Content, Beside, Rows, RowState
  <2>. QED BY <2>1, <2>2, <2>3, <2>4, <2>5, <2>6
<1>. QED BY <1>1, <1>2, <1>3, <1>4

LEMMA BeginKeeps ==
  ASSUME DocumentedUse, IInv,
         BeginBackup \/ BeginReconcile \/ BeginRestore \/ \E f \in File : BeginPurge(f)
  PROVE  IInv'
<1>. USE DEF IInv
<1>1. CASE BeginBackup
  <2>1. OpenBeside
    BY <1>1 DEF BeginBackup
  <2>2. TypeOK'
    BY <1>1, <2>1, Replayed, AdministrationAssumption DEF BeginBackup, TypeOK, Begin,
         server, Command
  <2>3. Opened' /\ DrawnFirst' /\ OnDisk'
    BY <1>1, <2>1, Replayed DEF BeginBackup, Opened, Begin, server, DrawnFirst, Born, OnDisk
  <2>4. Requests'
    BY <1>1, <2>1, Replayed, Shapes DEF BeginBackup, Requests, Opened, Begin, server
  <2>5. AtWork' /\ InBackup' /\ InRestore' /\ InReconcile' /\ BackupCovers'
    BY <1>1 DEF BeginBackup, AtWork, Begin, server, InBackup, InRestore, InReconcile,
         BackupCovers
  <2>. QED BY <2>2, <2>3, <2>4, <2>5
<1>2. CASE BeginReconcile
  <2>1. OpenBeside
    BY <1>2 DEF BeginReconcile
  <2>2. TypeOK'
    BY <1>2, <2>1, Replayed, AdministrationAssumption DEF BeginReconcile, TypeOK, Begin,
         server, Command
  <2>3. Opened' /\ DrawnFirst' /\ OnDisk'
    BY <1>2, <2>1, Replayed DEF BeginReconcile, Opened, Begin, server, DrawnFirst, Born,
         OnDisk
  <2>4. Requests'
    BY <1>2, <2>1, Replayed, Shapes DEF BeginReconcile, Requests, Opened, Begin, server
  <2>5. AtWork' /\ InBackup' /\ InRestore' /\ InReconcile' /\ BackupCovers'
    BY <1>2 DEF BeginReconcile, AtWork, Begin, server, InBackup, InRestore, InReconcile,
         BackupCovers
  <2>. QED BY <2>2, <2>3, <2>4, <2>5
<1>3. ASSUME NEW f \in File, BeginPurge(f) PROVE IInv'
  <2>1. OpenBeside
    BY <1>3 DEF BeginPurge
  <2>2. TypeOK'
    BY <1>3, <2>1, Replayed, AdministrationAssumption DEF BeginPurge, TypeOK, Begin,
         server, Command
  <2>3. Opened' /\ DrawnFirst' /\ OnDisk'
    BY <1>3, <2>1, Replayed DEF BeginPurge, Opened, Begin, server, DrawnFirst, Born, OnDisk
  <2>4. Requests'
    BY <1>3, <2>1, Replayed, Shapes DEF BeginPurge, Requests, Opened, Begin, server
  <2>5. AtWork' /\ InBackup' /\ InRestore' /\ InReconcile' /\ BackupCovers'
    BY <1>3 DEF BeginPurge, AtWork, Begin, server, InBackup, InRestore, InReconcile,
         BackupCovers
  <2>. QED BY <2>2, <2>3, <2>4, <2>5
<1>4. CASE BeginRestore
  <2>1. TypeOK'
    BY <1>4, AdministrationAssumption DEF BeginRestore, TypeOK, Begin, server, Rows,
         RowState, Command, Archive
  <2>2. /\ AtWork' /\ Opened' /\ DrawnFirst' /\ Requests' /\ OnDisk'
        /\ InBackup' /\ InRestore' /\ InReconcile' /\ BackupCovers'
    BY <1>4 DEF BeginRestore, AtWork, Begin, server, Opened, Beside, Rows, RowState,
         DrawnFirst, Born, Requests, OnDisk, Content, InBackup, InRestore, InReconcile,
         BackupCovers
  <2>. QED BY <2>1, <2>2
<1>. QED BY <1>1, <1>2, <1>3, <1>4

LEMMA BackupKeeps ==
  ASSUME DocumentedUse, IInv,
         BackupSnapshot \/ BackupVisited \/ BackupFinish \/ \E f \in File : BackupVisit(f)
  PROVE  IInv'
<1>. USE DEF IInv
<1>1. CASE BackupSnapshot
  <2>1. TypeOK' /\ DrawnFirst'
    BY <1>1, Positions DEF BackupSnapshot, TypeOK, Opened, Proceed, data, server, Rows,
         RowState, Command, Archive, Beside, DrawnFirst, Born
  <2>2. AtWork' /\ Requests' /\ InBackup' /\ InRestore'
    BY <1>1, Positions DEF BackupSnapshot, AtWork, Proceed, data, server, Requests,
         InBackup, InRestore
  <2>3. Opened' /\ OnDisk' /\ InReconcile' /\ BackupCovers'
    BY <1>1 DEF BackupSnapshot, Opened, Proceed, data, server, Beside, Rows, RowState,
         OnDisk, Content, InReconcile, BackupCovers
  <2>. QED BY <2>1, <2>2, <2>3
<1>2. ASSUME NEW f \in File, BackupVisit(f) PROVE IInv'
  <2>1. /\ TypeOK' /\ AtWork' /\ Opened' /\ DrawnFirst' /\ Requests'
        /\ OnDisk' /\ InReconcile' /\ BackupCovers'
    BY <1>2 DEF BackupVisit, TypeOK, data, server, outside, Rows, RowState, Command,
         Archive, AtWork, Opened, Beside, DrawnFirst, Born, Requests, OnDisk, Content,
         InReconcile, BackupCovers
  <2>2. InBackup'
    BY <1>2, Positions, AdministrationAssumption DEF BackupVisit, InBackup, TypeOK, AtWork,
         Opened, OnDisk, Content, Beside, data, server, outside, Rows,
         RowState, Command, Archive
  <2>3. InRestore'
    BY <1>2, Positions DEF BackupVisit, InRestore, data, server, outside
  <2>. QED BY <2>1, <2>2, <2>3
<1>3. CASE BackupVisited
  <2>1. TypeOK' /\ AtWork' /\ Requests' /\ InBackup' /\ InRestore' /\ InReconcile'
    BY <1>3, Positions DEF BackupVisited, TypeOK, Proceed, data, server, outside, Rows,
         RowState, Command, Archive, AtWork, Requests, InBackup, InRestore, InReconcile
  <2>2. Opened' /\ DrawnFirst' /\ OnDisk' /\ BackupCovers'
    BY <1>3 DEF BackupVisited, Opened, Proceed, data, server, outside, Beside, Rows,
         RowState, DrawnFirst, Born, OnDisk, Content, BackupCovers
  <2>. QED BY <2>1, <2>2
<1>4. CASE BackupFinish
  <2>1. TypeOK' /\ DrawnFirst'
    BY <1>4, Shapes DEF BackupFinish, TypeOK, Leave, data, server, Rows, RowState, Command,
         Archive, DrawnFirst, Born
  <2>2. AtWork'
    BY <1>4, Positions, NoCommand DEF BackupFinish, AtWork, Leave, data, server
  <2>3. Opened'
    BY <1>4, NoCommand DEF BackupFinish, Opened, Leave, data, server, Beside, Rows, RowState
  <2>4. Requests' /\ OnDisk' /\ InBackup' /\ InRestore' /\ InReconcile'
    BY <1>4 DEF BackupFinish, Requests, Leave, data, server, OnDisk, Content, InBackup,
         InRestore, InReconcile
  <2>5. BackupCovers'
    BY <1>4, Positions DEF BackupFinish, BackupCovers, InBackup, TypeOK, Leave, data,
         server, Rows, RowState, Command, Archive
  <2>. QED BY <2>1, <2>2, <2>3, <2>4, <2>5
<1>. QED BY <1>1, <1>2, <1>3, <1>4

LEMMA RestoreKeeps ==
  ASSUME DocumentedUse, IInv,
         \/ RestoreCheck \/ RestoreRemove \/ RestoreEmptied \/ RestoreDatabase \/ RestoreVerify
         \/ \E f \in File : RestoreEmpty(f) \/ RestoreCopy(f)
  PROVE  IInv'
<1>. USE DEF IInv
<1>1. CASE RestoreCheck
  <2>1. TypeOK'
    BY <1>1, Positions, Shapes DEF RestoreCheck, TypeOK, Proceed, Leave, data, server,
         outside, Rows, RowState, Command, Archive
  <2>2. AtWork'
    BY <1>1, Positions, NoCommand DEF RestoreCheck, AtWork, Proceed, Leave, data, server,
         outside
  <2>3. Opened'
    BY <1>1, NoCommand DEF RestoreCheck, Opened, Proceed, Leave, data, server, outside,
         Beside, Rows, RowState
  <2>4. DrawnFirst'
    BY <1>1, Shapes DEF RestoreCheck, DrawnFirst, Proceed, Leave, data, server, outside,
         Rows, RowState, Born
  <2>5. Requests' /\ OnDisk' /\ BackupCovers'
    BY <1>1 DEF RestoreCheck, Requests, Proceed, Leave, data, server, outside, OnDisk,
         Content, BackupCovers
  <2>6. InBackup' /\ InRestore' /\ InReconcile'
    BY <1>1, Positions DEF RestoreCheck, InBackup, Proceed, Leave, data, server, outside,
         InRestore, InReconcile
  <2>. QED BY <2>1, <2>2, <2>3, <2>4, <2>5, <2>6
<1>2. CASE RestoreRemove
  <2>1. TypeOK' /\ AtWork' /\ InBackup' /\ InRestore' /\ InReconcile'
    BY <1>2, Positions DEF RestoreRemove, TypeOK, Proceed, server, Rows, RowState, Command,
         Archive, AtWork, InBackup, InRestore, InReconcile
  <2>2. Opened'
    BY <1>2, Positions, Stopped DEF RestoreRemove, Opened, Proceed, server,
         Beside, Rows, RowState
  <2>3. DrawnFirst'
    BY <1>2, AdministrationAssumption DEF RestoreRemove, DrawnFirst, Proceed, server, Rows,
         RowState, Born
  <2>4. Requests'
    BY <1>2, Positions, Shapes, Stopped DEF RestoreRemove, Requests, Proceed, server
  <2>5. OnDisk' /\ BackupCovers'
    BY <1>2 DEF RestoreRemove, OnDisk, Proceed, server, Content, BackupCovers
  <2>. QED BY <2>1, <2>2, <2>3, <2>4, <2>5
<1>3. ASSUME NEW f \in File, RestoreEmpty(f) PROVE IInv'
  <2>1. /\ TypeOK' /\ AtWork' /\ Opened' /\ DrawnFirst'
        /\ InBackup' /\ InReconcile' /\ BackupCovers'
    BY <1>3 DEF RestoreEmpty, TypeOK, server, admin, outside, Rows, RowState, Command,
         Archive, AtWork, Opened, Beside, DrawnFirst, Born, InBackup, InReconcile,
         BackupCovers
  <2>2. Requests'
    BY <1>3, Positions, Shapes, Stopped DEF RestoreEmpty, Requests, server, admin, outside
  <2>3. OnDisk'
    BY <1>3, Positions DEF RestoreEmpty, OnDisk, InRestore, server, admin, outside, Content
  <2>4. InRestore'
    BY <1>3, Positions DEF RestoreEmpty, InRestore, server, admin, outside
  <2>. QED BY <2>1, <2>2, <2>3, <2>4
<1>4. CASE RestoreEmptied
  <2>1. TypeOK' /\ AtWork' /\ InBackup' /\ InRestore' /\ InReconcile'
    BY <1>4, Positions DEF RestoreEmptied, TypeOK, Proceed, data, server, outside, Rows,
         RowState, Command, Archive, AtWork, InBackup, InRestore, InReconcile
  <2>2. Opened' /\ DrawnFirst' /\ Requests' /\ OnDisk' /\ BackupCovers'
    BY <1>4 DEF RestoreEmptied, Opened, Proceed, data, server, outside, Beside, Rows,
         RowState, DrawnFirst, Born, Requests, OnDisk, Content, BackupCovers
  <2>. QED BY <2>1, <2>2
<1>5. CASE RestoreDatabase
  <2>1. TypeOK' /\ DrawnFirst'
    BY <1>5, Positions, AdministrationAssumption DEF RestoreDatabase, TypeOK, AtWork,
         Proceed, server, outside, Rows, RowState, Command, Archive, DrawnFirst, Born
  <2>2. AtWork' /\ InBackup' /\ InReconcile'
    BY <1>5, Positions DEF RestoreDatabase, AtWork, Proceed, server, outside, InBackup,
         InReconcile
  <2>3. Opened'
    BY <1>5, Positions, Stopped DEF RestoreDatabase, Opened, InRestore, Proceed, server,
         outside, Beside, Rows, RowState
  <2>4. Requests'
    BY <1>5, Positions, Shapes, Stopped DEF RestoreDatabase, Requests, Proceed, server,
         outside
  <2>5. OnDisk'
    BY <1>5, Positions DEF RestoreDatabase, OnDisk, InRestore, Proceed, server, outside,
         Content
  <2>6. InRestore'
    BY <1>5, Positions DEF RestoreDatabase, InRestore, AtWork, Proceed, server, outside
  <2>7. BackupCovers'
    BY <1>5 DEF RestoreDatabase, BackupCovers, Proceed, server, outside
  <2>. QED BY <2>1, <2>2, <2>3, <2>4, <2>5, <2>6, <2>7
<1>6. ASSUME NEW f \in File, RestoreCopy(f) PROVE IInv'
  <2>1. /\ TypeOK' /\ AtWork' /\ Opened' /\ DrawnFirst' /\ Requests'
        /\ OnDisk' /\ InReconcile' /\ BackupCovers'
    BY <1>6 DEF RestoreCopy, TypeOK, server, outside, Rows, RowState, Command, Archive,
         AtWork, Opened, Beside, DrawnFirst, Born, Requests, OnDisk, Content, InReconcile,
         BackupCovers
  <2>2. InBackup' /\ InRestore'
    BY <1>6, Positions DEF RestoreCopy, InBackup, server, outside, InRestore
  <2>. QED BY <2>1, <2>2
<1>7. CASE RestoreVerify
  <2>1. archive \in Archive
    BY <1>7, Positions DEF RestoreVerify, TypeOK, AtWork
  <2>2. kept' \subseteq File /\ gaps' \subseteq File
    BY <1>7, <2>1 DEF RestoreVerify, Files, Archive
  <2>3. db' \in Rows /\ wal' = None
    BY <1>7, Shapes DEF RestoreVerify, Open, Content, TypeOK
  <2>4. TypeOK'
    <3>1. /\ command' = None /\ step' \in 0 .. 7 /\ room' = None
          /\ held' \in Rows /\ todo' \subseteq File
      BY <1>7, Shapes DEF RestoreVerify, Leave
    <3>2. copied' \in [objects : SUBSET File, chunks : SUBSET File]
      BY <1>7, Shapes DEF RestoreVerify, Leave
    <3>. QED BY <1>7, <2>2, <2>3, <3>1, <3>2 DEF RestoreVerify, TypeOK, server
  <2>5. AtWork'
    BY <1>7, NoCommand DEF RestoreVerify, AtWork, Open, Content, Leave, Files, server
  <2>6. Opened'
    BY <1>7, Shapes, NoCommand DEF RestoreVerify, Opened, TypeOK, Open, Content, Leave,
         Files, server, Beside, Rows, RowState, Command, Archive
  <2>7. DrawnFirst'
    BY <1>7, Shapes DEF RestoreVerify, DrawnFirst, Open, Content, Leave, Files, server,
         Rows, RowState, Born
  <2>8. Requests'
    BY <1>7, Positions, Shapes, Stopped DEF RestoreVerify, Requests, Open, Content, Leave,
         Files, server
  <2>9. OnDisk'
    BY <1>7, Positions, AdministrationAssumption DEF RestoreVerify, OnDisk, AtWork,
         BackupCovers, InRestore, TypeOK, Open, Content, Leave, Files, server, Rows,
         RowState, Command, Archive
  <2>10. InBackup' /\ InRestore' /\ InReconcile' /\ BackupCovers'
    BY <1>7 DEF RestoreVerify, InBackup, Open, Content, Leave, Files, server, InRestore,
         InReconcile, BackupCovers
  <2>. QED BY <2>4, <2>5, <2>6, <2>7, <2>8, <2>9, <2>10
<1>. QED BY <1>1, <1>2, <1>3, <1>4, <1>5, <1>6, <1>7

LEMMA PurgeKeeps ==
  ASSUME DocumentedUse, IInv, PurgeRows \/ PurgePayload
  PROVE  IInv'
<1>. USE DEF IInv
<1>1. CASE PurgeRows
  <2>1. TypeOK' /\ DrawnFirst'
    BY <1>1, Positions DEF PurgeRows, TypeOK, AtWork, Opened, Ends, server, Rows, RowState,
         Command, Archive, Beside, DrawnFirst, Born
  <2>2. AtWork' /\ InBackup' /\ InRestore' /\ InReconcile'
    BY <1>1, Positions DEF PurgeRows, AtWork, Ends, server, InBackup, InRestore, InReconcile
  <2>3. Opened'
    BY <1>1, Positions DEF PurgeRows, Opened, AtWork, Ends, server, Beside, Rows, RowState
  <2>4. Requests'
    BY <1>1, Positions DEF PurgeRows, Requests, AtWork, DrawnFirst, Opened, Ends, server,
         Rows, RowState, Born, Beside
  <2>5. OnDisk'
    BY <1>1, Positions, AdministrationAssumption DEF PurgeRows, OnDisk, AtWork, Opened,
         Ends, server, Content, Beside, Rows, RowState
  <2>6. BackupCovers'
    BY <1>1 DEF PurgeRows, BackupCovers, Ends, server
  <2>. QED BY <2>1, <2>2, <2>3, <2>4, <2>5, <2>6
<1>2. CASE PurgePayload
  <2>1. TypeOK' /\ DrawnFirst'
    BY <1>2, Shapes DEF PurgePayload, TypeOK, Leave, server, outside, Rows, RowState,
         Command, Archive, DrawnFirst, Born
  <2>2. AtWork' /\ Opened'
    BY <1>2, NoCommand DEF PurgePayload, AtWork, Leave, server, outside, Opened, Beside,
         Rows, RowState
  <2>3. Requests'
    BY <1>2, Positions DEF PurgePayload, Requests, Leave, server, outside
  <2>4. OnDisk'
    BY <1>2, Positions, AdministrationAssumption DEF PurgePayload, OnDisk, Opened, Requests,
         Leave, server, outside, Content, Beside, Rows, RowState
  <2>5. InBackup' /\ InRestore' /\ InReconcile' /\ BackupCovers'
    BY <1>2 DEF PurgePayload, InBackup, Leave, server, outside, InRestore, InReconcile,
         BackupCovers
  <2>. QED BY <2>1, <2>2, <2>3, <2>4, <2>5
<1>. QED BY <1>1, <1>2

LEMMA ReconcileKeeps ==
  ASSUME DocumentedUse, IInv,
         ReconcileReferences \/ Reconciled \/ \E f \in File : Reconcile(f)
  PROVE  IInv'
<1>. USE DEF IInv
<1>1. CASE ReconcileReferences
  <2>1. TypeOK' /\ DrawnFirst'
    BY <1>1, Positions DEF ReconcileReferences, TypeOK, Opened, Proceed, data, server,
         outside, Rows, RowState, Command, Archive, Beside, DrawnFirst, Born
  <2>2. AtWork' /\ InBackup' /\ InRestore'
    BY <1>1, Positions DEF ReconcileReferences, AtWork, Proceed, data, server, outside,
         InBackup, InRestore
  <2>3. Opened' /\ Requests' /\ OnDisk' /\ InReconcile' /\ BackupCovers'
    BY <1>1 DEF ReconcileReferences, Opened, Proceed, data, server, outside, Beside, Rows,
         RowState, Requests, OnDisk, Content, InReconcile, BackupCovers
  <2>. QED BY <2>1, <2>2, <2>3
<1>2. ASSUME NEW f \in File, Reconcile(f) PROVE IInv'
  <2>1. /\ TypeOK' /\ AtWork' /\ Opened' /\ DrawnFirst'
        /\ InBackup' /\ InReconcile' /\ BackupCovers'
    BY <1>2 DEF Reconcile, TypeOK, Sessions, Files, server, admin, outside, Rows, RowState,
         Command, Archive, AtWork, Opened, Beside, DrawnFirst, Born, InBackup, InReconcile,
         BackupCovers
  <2>2. Requests'
    BY <1>2, Positions, Shapes, Stopped DEF Reconcile, Requests, Sessions, Files, server,
         admin, outside
  <2>3. OnDisk'
    BY <1>2, Positions, AdministrationAssumption DEF Reconcile, OnDisk, InReconcile, Opened,
         Sessions, Files, server, admin, outside, Content, Beside, Rows, RowState
  <2>4. InRestore'
    BY <1>2, Positions DEF Reconcile, InRestore, Sessions, Files, server, admin, outside
  <2>. QED BY <2>1, <2>2, <2>3, <2>4
<1>3. CASE Reconciled
  <2>1. TypeOK' /\ DrawnFirst'
    BY <1>3, Shapes DEF Reconciled, TypeOK, Sessions, Files, Leave, data, server, outside,
         Rows, RowState, Command, Archive, DrawnFirst, Born
  <2>2. AtWork' /\ Opened'
    BY <1>3, NoCommand DEF Reconciled, AtWork, Sessions, Files, Leave, data, server,
         outside, Opened, Beside, Rows, RowState
  <2>3. Requests' /\ OnDisk' /\ InBackup' /\ InRestore' /\ InReconcile' /\ BackupCovers'
    BY <1>3 DEF Reconciled, Requests, Sessions, Files, Leave, data, server, outside, OnDisk,
         Content, InBackup, InRestore, InReconcile, BackupCovers
  <2>. QED BY <2>1, <2>2, <2>3
<1>. QED BY <1>1, <1>2, <1>3

LEMMA FailKeeps ==
  ASSUME DocumentedUse, IInv, Fail
  PROVE  IInv'
<1>. USE DEF IInv
<1>1. TypeOK'
  BY Shapes, Useless, AdministrationAssumption DEF Fail, TypeOK, Fault, Leave, data, server,
       Rows, RowState, Command, Archive
<1>2. AtWork'
  BY NoCommand, Shapes, Useless DEF Fail, AtWork, Fault, Leave, data, server
<1>3. Opened'
  BY NoCommand DEF Fail, Opened, Fault, Leave, data, server, Beside, Rows, RowState
<1>4. DrawnFirst' /\ BackupCovers'
  BY Shapes, Useless DEF Fail, DrawnFirst, Fault, Leave, data, server, Rows, RowState, Born,
       BackupCovers
<1>5. Requests' /\ OnDisk' /\ InBackup' /\ InRestore' /\ InReconcile'
  BY DEF Fail, Requests, Fault, Leave, data, server, OnDisk, Content, InBackup, InRestore,
       InReconcile
<1>. QED BY <1>1, <1>2, <1>3, <1>4, <1>5

-----------------------------------------------------------------------------
LEMMA InitInvariant == Init => IInv
<1> SUFFICES ASSUME Init PROVE IInv
  OBVIOUS
<1>1. TypeOK
  <2>1. db \in Rows /\ held \in Rows /\ archive \in Archive \cup {None}
    BY Shapes, Useless DEF Init
  <2>2. doing \in [File -> {"nothing", "put", "record", "assemble", "commit", "tidy"}]
    BY Shapes DEF Init
  <2>3. copied \in [objects : SUBSET File, chunks : SUBSET File]
    BY Shapes DEF Init
  <2>4. commands \in 0 .. MaxCommands /\ faults \in 0 .. MaxFaults
    BY AdministrationAssumption DEF Init
  <2>5. up \in BOOLEAN /\ replaced \in BOOLEAN /\ step = 0
    BY DEF Init
  <2>6. /\ wal = None /\ command = None /\ room = None /\ objects = {} /\ chunks = {}
        /\ removing = {} /\ todo = {} /\ drawn = {} /\ kept = {} /\ ended = {} /\ gaps = {}
    BY DEF Init
  <2>. QED BY <2>1, <2>2, <2>3, <2>4, <2>5, <2>6 DEF TypeOK
<1>2. AtWork /\ Opened
  BY Shapes, Useless, NoCommand DEF Init, AtWork, Opened
<1>3. DrawnFirst /\ Requests /\ OnDisk
  BY Shapes, Useless, AdministrationAssumption DEF Init, DrawnFirst, Born, Requests,
       OnDisk, Content
<1>4. InBackup /\ InRestore /\ InReconcile /\ BackupCovers
  BY Shapes, Useless, NoCommand DEF Init, InBackup, InRestore, InReconcile, BackupCovers
<1>. QED BY <1>1, <1>2, <1>3, <1>4 DEF IInv

LEMMA StutterKeeps ==
  ASSUME IInv, UNCHANGED vars
  PROVE  IInv'
BY DEF vars, data, server, admin, outside, IInv, TypeOK, AtWork, Opened, DrawnFirst, Born,
    Requests, OnDisk, Content, InBackup, InRestore, InReconcile, BackupCovers

LEMMA Invariance == DocumentedUse /\ IInv /\ [Next]_vars => IInv'
<1> SUFFICES ASSUME DocumentedUse, IInv, [Next]_vars PROVE IInv'
  OBVIOUS
<1>. QED
  BY ServerKeeps, ServiceKeeps, BeginKeeps, BackupKeeps, RestoreKeeps, PurgeKeeps,
     ReconcileKeeps, FailKeeps, StutterKeeps
  DEF Next, Advance, CommandStep

LEMMA Invariant == ASSUME DocumentedUse PROVE Spec => []IInv
BY InitInvariant, Invariance, PTL DEF Spec

(* Every state of the model has the type it says, in particular the        *)
(* database that a restore or a crash replaces.                            *)
THEOREM TypeCorrect == ASSUME DocumentedUse PROVE Spec => []TypeOK
BY Invariant, PTL DEF IInv

(* A backup that ran beside the service is no worse than one of a service  *)
(* that stood still: its order, database first, makes up for whatever the  *)
(* requests do to the files meanwhile.                                     *)
THEOREM ArchivesAreComplete == ASSUME DocumentedUse PROVE Spec => []BackupCovers
BY Invariant, PTL DEF IInv

(* What users were told is stored survives every command that goes on or   *)
(* breaks off beside the server, and every crash; a restore takes it away  *)
(* only where there is an archive to go back to.                           *)
THEOREM KeptFilesAreAtHand == ASSUME DocumentedUse PROVE Spec => []DataAtHand
<1>1. ASSUME IInv PROVE DataAtHand
  <2>1. CASE replaced
    BY <1>1, <2>1 DEF IInv, AtWork, DataAtHand
  <2>2. CASE ~replaced
    <3>1. Content \in Rows
      BY <1>1, <2>2, Shapes DEF IInv, TypeOK, Opened, Content
    <3>2. \A f \in kept : Content[f] = "file" /\ f \in objects
      BY <1>1, <2>2 DEF IInv, TypeOK, OnDisk
    <3>. QED BY <2>2, <3>1, <3>2, AdministrationAssumption DEF DataAtHand
  <2>. QED BY <2>1, <2>2
<1>. QED BY <1>1, Invariant, PTL

LEMMA OnlyVerifyEnds ==
  ASSUME Next, replaced, ~replaced'
  PROVE  RestoreVerify
<1>1. \A f \in File : ~ServerStep(f) /\ ~BeginPurge(f)
  BY DEF ServerStep, BeginUpload, Accept, WriteChunk, RecordChunk, Assemble, CommitUpload,
     Tidy, Delete, RemovePayload, BeginPurge, Begin, outside
<1>2. ~Cleanup /\ ~StartService /\ ~StopService /\ ~ServiceCrash
  BY DEF Cleanup, StartService, StopService, ServiceCrash, outside
<1>3. ~BeginBackup /\ ~BeginRestore /\ ~BeginReconcile /\ ~Fail
  BY DEF BeginBackup, BeginRestore, BeginReconcile, Begin, Fail
<1>4. \A f \in File : ~CommandStep(f)
  BY DEF CommandStep, BackupVisit, RestoreEmpty, RestoreCopy, Reconcile, outside
<1>5. ~BackupSnapshot /\ ~BackupVisited /\ ~BackupFinish
  BY DEF BackupSnapshot, BackupVisited, BackupFinish, outside
<1>6. ~RestoreCheck /\ ~RestoreRemove /\ ~RestoreEmptied /\ ~RestoreDatabase
  BY DEF RestoreCheck, RestoreRemove, RestoreEmptied, RestoreDatabase, outside
<1>7. ~PurgeRows /\ ~PurgePayload /\ ~ReconcileReferences /\ ~Reconciled
  BY DEF PurgeRows, PurgePayload, ReconcileReferences, Reconciled, outside
<1>. QED BY <1>1, <1>2, <1>3, <1>4, <1>5, <1>6, <1>7 DEF Next, Advance

(* A restore that says it is done has left the archive on the disk, whole, *)
(* and nothing of what was there, however often it had been broken off.    *)
THEOREM RestoresAreExact == ASSUME DocumentedUse PROVE Spec => RestoredAsArchived
<1>. DEFINE A == replaced /\ ~replaced' =>
                  /\ db' = archive.rows /\ wal' = None
                  /\ objects' = archive.objects /\ chunks' = archive.chunks
<1>1. ASSUME IInv, [Next]_vars PROVE [A]_vars
  <2>1. SUFFICES ASSUME Next, replaced, ~replaced'
                 PROVE  /\ db' = archive.rows /\ wal' = None
                        /\ objects' = archive.objects /\ chunks' = archive.chunks
    BY <1>1
  <2>2. RestoreVerify /\ todo = {}
    BY <2>1, OnlyVerifyEnds DEF RestoreVerify
  <2>3. command = "restore" /\ step = 7
    BY <1>1, <2>2, Positions DEF RestoreVerify
  <2>4. /\ db = archive.rows /\ wal = None /\ archive \in Archive
        /\ objects = archive.objects /\ chunks = archive.chunks
    BY <1>1, <2>2, <2>3 DEF IInv, TypeOK, AtWork, InRestore
  <2>5. db \in Rows
    BY <2>4 DEF Archive
  <2>. QED BY <2>2, <2>4, <2>5, AdministrationAssumption DEF RestoreVerify, Open, Content
<1>. QED BY <1>1, Invariant, PTL DEF Spec, RestoredAsArchived
=============================================================================
