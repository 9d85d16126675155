------------------------------ MODULE RoomStore ------------------------------
(***************************************************************************)
(* The database of clipboard-exchange as its transactions see it: rooms,   *)
(* text items, entries (a group of one optional text and some files),      *)
(* upload sessions and files.  Every action is one transaction of          *)
(* internal/store; a transaction that is refused changes nothing and is    *)
(* not an action.                                                          *)
(*                                                                         *)
(* An entry comes into being in one of two ways.  A current client         *)
(* declares it (createEntry), uploads its files and commits it; until then *)
(* readers must not see any of it.  A legacy client just adds items and    *)
(* files, which readers see at once, and the row of such an entry is       *)
(* inserted by PinEntry, if ever.                                          *)
(*                                                                         *)
(* Chunks, payloads on disk and locks are the subject of UploadLifecycle.  *)
(***************************************************************************)
EXTENDS Naturals, FiniteSets, FiniteSetsExt

CONSTANTS
  Room,
  Id,            \* entry and item ids, chosen by clients
  File,          \* upload ids, drawn by the server, never drawn twice; an id
                 \* stands for the id of the file the upload becomes, too
  Size,          \* file sizes
  Expected,      \* numbers of files an entry may be declared with
  MaxRooms, MaxItems, MaxRoomBytes, MaxActive,   \* the server's limits
  None

(* A legacy client names no entry: the file id serves as its entry id.     *)
EntryId == Id \cup File
Index == {i \in 0 .. 999 : \E n \in Expected : i <= n}

(* grouped is history: the row of the entry existed when the upload began. *)
FileRow == [room : Room, entry : EntryId, index : Index, size : Size, grouped : BOOLEAN]

(* declared and fresh are history: the row comes from CreateEntry, and     *)
(* nothing bore its id before.                                             *)
EntryRow == [expected : Nat, published : BOOLEAN, expires : BOOLEAN, due : BOOLEAN,
             declared : BOOLEAN, fresh : BOOLEAN]

ASSUME StoreAssumption ==
  /\ Size \subseteq Nat /\ Expected \subseteq Nat
  /\ {MaxRooms, MaxItems, MaxRoomBytes, MaxActive} \subseteq Nat
  /\ None \notin Room \cup FileRow \cup EntryRow
  /\ Id \cap File = {} /\ IsFiniteSet(File)

VARIABLES
  rooms,     \* rows of rooms
  items,     \* rows of items: the room an item id is in, a global key
  entries,   \* rows of entries, keyed by room and id
  uploads,   \* rows of uploads
  files,     \* rows of files
  drawn,     \* upload ids already used
  trimmed    \* history: the published entries a file was deleted from

vars == <<rooms, items, entries, uploads, files, drawn, trimmed>>

RowsOK ==
  /\ rooms \subseteq Room
  /\ items \in [Id -> Room \cup {None}]
  /\ entries \in [Room -> [EntryId -> EntryRow \cup {None}]]
  /\ uploads \in [File -> FileRow \cup {None}]
  /\ files \in [File -> FileRow \cup {None}]
  /\ drawn \subseteq File
  /\ trimmed \subseteq Room \X EntryId

(* The foreign keys: rows go with their room.                              *)
KeysOK ==
  /\ \A i \in Id : items[i] # None => items[i] \in rooms
  /\ \A r \in Room, e \in EntryId : entries[r][e] # None => r \in rooms
  /\ \A f \in File : files[f] # None => files[f].room \in rooms
  /\ \A u \in File : uploads[u] # None => uploads[u].room \in rooms

TypeOK == RowsOK /\ KeysOK

Init ==
  /\ rooms = {}
  /\ items = [i \in Id |-> None]
  /\ entries = [r \in Room |-> [e \in EntryId |-> None]]
  /\ uploads = [u \in File |-> None] /\ files = [f \in File |-> None]
  /\ drawn = {} /\ trimmed = {}

-----------------------------------------------------------------------------
(* Queries                                                                 *)

In(rows, r) == {f \in File : rows[f] # None /\ rows[f].room = r}
Of(rows, r, e) == {f \in In(rows, r) : rows[f].entry = e}
Active == {u \in File : uploads[u] # None}

ItemsIn(r) == {i \in Id : items[i] = r}
HasItem(r, e) == e \in ItemsIn(r)

(* The records createEntry counts: entries, items and groups of files.     *)
Records(r) ==
  {e \in EntryId : entries[r][e] # None} \cup ItemsIn(r) \cup {files[f].entry : f \in In(files, r)}

Bytes(rows, r) ==
  LET size(f) == rows[f].size IN MapThenSumSet(size, In(rows, r))

(* What the listing queries show of an entry and of its files.             *)
Visible(r, e) ==
  entries[r][e] # None => entries[r][e].published /\ ~entries[r][e].due

-----------------------------------------------------------------------------
(* Transactions                                                            *)

CreateRoom(r) ==
  /\ r \notin rooms
  /\ Cardinality(rooms) < MaxRooms
  /\ rooms' = rooms \cup {r}
  /\ UNCHANGED <<items, entries, uploads, files, drawn, trimmed>>

(* A draft: its row is not published.                                      *)
CreateEntry(r, e, n, text, ttl) ==
  /\ r \in rooms
  /\ text \/ n > 0
  /\ Cardinality(Records(r)) < MaxItems
  /\ entries[r][e] = None
  /\ text => items[e] = None
  /\ entries' = [entries EXCEPT ![r][e] =
       [expected |-> n, published |-> FALSE, expires |-> ttl, due |-> FALSE, declared |-> TRUE,
        fresh |-> ~HasItem(r, e) /\ Of(files, r, e) = {} /\ Of(uploads, r, e) = {}]]
  /\ items' = IF text THEN [items EXCEPT ![e] = r] ELSE items
  /\ trimmed' = trimmed \ {<<r, e>>}
  /\ UNCHANGED <<rooms, uploads, files, drawn>>

(* Slip: only the files are counted, not the sessions still open.          *)
CommitEntrySlip(r, e) ==
  LET row == entries[r][e] IN
  /\ row # None /\ ~row.published
  /\ Cardinality(Of(files, r, e)) = row.expected
  /\ entries' = [entries EXCEPT ![r][e].published = TRUE]
  /\ UNCHANGED <<rooms, items, uploads, files, drawn, trimmed>>

(* Publishes a draft, all files of which have arrived.                     *)
CommitEntry(r, e) ==
  LET row == entries[r][e] IN
  /\ row # None /\ ~row.published
  /\ Cardinality(Of(files, r, e)) = row.expected
  /\ Of(uploads, r, e) = {}
  /\ entries' = [entries EXCEPT ![r][e].published = TRUE]
  /\ UNCHANGED <<rooms, items, uploads, files, drawn, trimmed>>

(* Slip: the row of an entry that has one is overwritten as a whole.       *)
PinEntrySlip(r, e) ==
  /\ HasItem(r, e) \/ Of(files, r, e) # {}
  /\ entries' = [entries EXCEPT ![r][e] =
       IF @ # None THEN [@ EXCEPT !.published = TRUE]
       ELSE [expected |-> Cardinality(Of(files, r, e)), published |-> TRUE, expires |-> FALSE,
             due |-> FALSE, declared |-> FALSE, fresh |-> FALSE]]
  /\ UNCHANGED <<rooms, items, uploads, files, drawn, trimmed>>

(* A legacy entry gets its row, published from the start.  The pin of an    *)
(* entry that has one changes the order of the list only, nothing here.    *)
PinEntry(r, e) ==
  /\ HasItem(r, e) \/ Of(files, r, e) # {}
  /\ entries[r][e] = None
  /\ entries' = [entries EXCEPT ![r][e] =
       [expected |-> Cardinality(Of(files, r, e)), published |-> TRUE, expires |-> FALSE,
        due |-> FALSE, declared |-> FALSE, fresh |-> FALSE]]
  /\ UNCHANGED <<rooms, items, uploads, files, drawn, trimmed>>

(* Legacy clients: only items are counted here.                            *)
AddItem(r, i) ==
  /\ r \in rooms
  /\ Cardinality(ItemsIn(r)) < MaxItems
  /\ items[i] = None
  /\ items' = [items EXCEPT ![i] = r]
  /\ UNCHANGED <<rooms, entries, uploads, files, drawn, trimmed>>

DeleteItem(r, i) ==
  /\ HasItem(r, i)
  /\ items' = [items EXCEPT ![i] = None]
  /\ UNCHANGED <<rooms, entries, uploads, files, drawn, trimmed>>

(* Slip: only open sessions are searched for the index.                    *)
AdmitsTwiceSlip(r, e, i) ==
  entries[r][e] # None =>
    /\ ~entries[r][e].published /\ i < entries[r][e].expected
    /\ \A u \in Of(uploads, r, e) : uploads[u].index # i

(* What the row of an entry demands of a new upload; nothing without one.  *)
Admits(r, e, i) ==
  entries[r][e] # None =>
    /\ ~entries[r][e].published /\ i < entries[r][e].expected
    /\ \A f \in Of(files, r, e) : files[f].index # i
    /\ \A u \in Of(uploads, r, e) : uploads[u].index # i

(* Slip: the sizes reserved by open sessions are left out.                 *)
FitsSlip(r, s) == s + Bytes(files, r) <= MaxRoomBytes

(* The quota of the room, open sessions included.                          *)
Fits(r, s) == s + Bytes(files, r) + Bytes(uploads, r) <= MaxRoomBytes

CreateUpload(u, r, e, i, s) ==
  /\ u \notin drawn /\ e \in Id \cup {u}
  /\ r \in rooms
  /\ Admits(r, e, i)
  /\ Cardinality(Active) < MaxActive
  /\ Fits(r, s)
  /\ drawn' = drawn \cup {u}
  /\ uploads' = [uploads EXCEPT ![u] =
       [room |-> r, entry |-> e, index |-> i, size |-> s, grouped |-> entries[r][e] # None]]
  /\ UNCHANGED <<rooms, items, entries, files, trimmed>>

(* All chunks are there, see UploadLifecycle: the session becomes a file.  *)
CompleteUpload(u) ==
  /\ uploads[u] # None
  /\ files' = [files EXCEPT ![u] = uploads[u]]
  /\ uploads' = [uploads EXCEPT ![u] = None]
  /\ UNCHANGED <<rooms, items, entries, drawn, trimmed>>

(* AbortUpload, and DeleteExpiredUploads one session at a time.            *)
AbortUpload(u) ==
  /\ uploads[u] # None
  /\ uploads' = [uploads EXCEPT ![u] = None]
  /\ UNCHANGED <<rooms, items, entries, files, drawn, trimmed>>

DeleteFile(f) ==
  /\ files[f] # None
  /\ files' = [files EXCEPT ![f] = None]
  /\ LET r == files[f].room  e == files[f].entry IN
     trimmed' = trimmed \cup IF entries[r][e] # None /\ entries[r][e].published THEN {<<r, e>>} ELSE {}
  /\ UNCHANGED <<rooms, items, entries, uploads, drawn>>

Without(rows, S) == [f \in File |-> IF f \in S THEN None ELSE rows[f]]

(* Slip: sessions of the entry are left to their deadline.                 *)
DeleteEntrySlip(r, e) ==
  /\ entries[r][e] # None \/ HasItem(r, e) \/ Of(files, r, e) # {} \/ Of(uploads, r, e) # {}
  /\ items' = [i \in Id |-> IF i = e /\ items[i] = r THEN None ELSE items[i]]
  /\ files' = Without(files, Of(files, r, e))
  /\ entries' = [entries EXCEPT ![r][e] = None]
  /\ UNCHANGED <<rooms, uploads, drawn, trimmed>>

(* On request, after a download-once transfer, or, for an entry that is    *)
(* due, by DeleteExpiredEntries.                                           *)
DeleteEntry(r, e) ==
  /\ entries[r][e] # None \/ HasItem(r, e) \/ Of(files, r, e) # {} \/ Of(uploads, r, e) # {}
  /\ items' = [i \in Id |-> IF i = e /\ items[i] = r THEN None ELSE items[i]]
  /\ files' = Without(files, Of(files, r, e))
  /\ uploads' = Without(uploads, Of(uploads, r, e))
  /\ entries' = [entries EXCEPT ![r][e] = None]
  /\ UNCHANGED <<rooms, drawn, trimmed>>

EmptyRoom(r) ==
  /\ items' = [i \in Id |-> IF items[i] = r THEN None ELSE items[i]]
  /\ files' = Without(files, In(files, r))
  /\ uploads' = Without(uploads, In(uploads, r))
  /\ entries' = [entries EXCEPT ![r] = [e \in EntryId |-> None]]
  /\ UNCHANGED <<drawn, trimmed>>

ClearRoom(r) == r \in rooms /\ EmptyRoom(r) /\ UNCHANGED rooms

(* Slip: foreign keys are not enforced, nothing cascades.                  *)
DropRoomSlip(r) ==
  /\ r \in rooms /\ rooms' = rooms \ {r}
  /\ UNCHANGED <<items, entries, uploads, files, drawn, trimmed>>

(* DeleteExpiredRooms, and the second half of DeleteRoom: everything in    *)
(* the room goes by ON DELETE CASCADE.                                     *)
DropRoom(r) == r \in rooms /\ EmptyRoom(r) /\ rooms' = rooms \ {r}

(* The deadline of an entry passes.                                        *)
Expire(r, e) ==
  /\ entries[r][e] # None /\ entries[r][e].expires /\ ~entries[r][e].due
  /\ entries' = [entries EXCEPT ![r][e].due = TRUE]
  /\ UNCHANGED <<rooms, items, uploads, files, drawn, trimmed>>

EntryStep(r) ==
  \/ \E e \in Id, n \in Expected, text \in BOOLEAN, ttl \in BOOLEAN : CreateEntry(r, e, n, text, ttl)
  \/ \E e \in EntryId : CommitEntry(r, e) \/ PinEntry(r, e) \/ DeleteEntry(r, e) \/ Expire(r, e)

ItemStep(r) == \E i \in Id : AddItem(r, i) \/ DeleteItem(r, i)

FileStep(u) ==
  \/ \E r \in Room, e \in EntryId, i \in Index, s \in Size : CreateUpload(u, r, e, i, s)
  \/ CompleteUpload(u) \/ AbortUpload(u) \/ DeleteFile(u)

Next ==
  \/ \E r \in Room : CreateRoom(r) \/ ClearRoom(r) \/ DropRoom(r) \/ EntryStep(r) \/ ItemStep(r)
  \/ \E u \in File : FileStep(u)

Spec == Init /\ [][Next]_vars

-----------------------------------------------------------------------------
(* Properties                                                              *)

Committed(r, e) == entries[r][e] # None /\ entries[r][e].declared /\ entries[r][e].published

(* Files in the room and sessions still open never exceed its quota        *)
(* together, so that a completion never has to check it again.             *)
QuotaKept == \A r \in Room : Bytes(files, r) + Bytes(uploads, r) <= MaxRoomBytes

(* A file uploaded into a draft is seen by readers only as part of the     *)
(* committed entry: not before the commit, and not after the draft was     *)
(* deleted, cleared away or expired while the upload was under way.        *)
DraftNeverLeaks ==
  \A f \in File :
    LET row == files[f] IN
    row # None /\ row.grouped /\ Visible(row.room, row.entry) => Committed(row.room, row.entry)

(* No session is open for a committed entry: what readers see of it is     *)
(* all there will ever be.                                                 *)
CommittedIsClosed == \A r \in Room, e \in EntryId : Committed(r, e) => Of(uploads, r, e) = {}

(* A committed entry of a new id holds exactly the files it was declared   *)
(* with, one at each index, unless one of them was deleted since.          *)
CommittedIsWhole ==
  \A r \in Room, e \in EntryId :
    Committed(r, e) /\ entries[r][e].fresh /\ <<r, e>> \notin trimmed =>
      LET n == entries[r][e].expected IN
      /\ Cardinality(Of(files, r, e)) = n
      /\ {files[f].index : f \in Of(files, r, e)} = {i \in Index : i < n}

(* A committed entry never gains a file.                                   *)
CommittedOnlyShrinks ==
  [][\A r \in Room, e \in EntryId :
       Committed(r, e) /\ Committed(r, e)' => Of(files, r, e)' \subseteq Of(files, r, e)]_vars
=============================================================================
