--------------------------- MODULE RoomStoreProofs ---------------------------
(* Proofs about RoomStore and about RoomSnapshot, which reads it: for any  *)
(* rooms, ids, sizes and limits.                                           *)
EXTENDS RoomSnapshot, FiniteSetTheorems, WellFoundedInduction, TLAPS

USE StoreAssumption

(* A row that was created for a draft belongs to a declared entry, which   *)
(* is still there.                                                         *)
Belongs(rows) ==
  \A f \in File :
    rows[f] # None /\ rows[f].grouped =>
      LET row == entries[rows[f].room][rows[f].entry] IN row # None /\ row.declared

(* DraftNeverLeaks is not inductive: it says nothing of the session a file *)
(* comes from, nor of the entry that a file outlives, nor that an open     *)
(* entry is always a declared one.                                         *)
LegacyIsPublished ==
  \A r \in Room, e \in EntryId :
    entries[r][e] # None => entries[r][e].declared \/ entries[r][e].published

IInv ==
  /\ TypeOK
  /\ Belongs(uploads) /\ Belongs(files)
  /\ LegacyIsPublished
  /\ CommittedIsClosed

Entries == [Room -> [EntryId -> EntryRow \cup {None}]]

-----------------------------------------------------------------------------
(* A change of one row of entries.                                         *)
LEMMA PutEntry ==
  ASSUME entries \in Entries, NEW r \in Room, NEW e \in EntryId, NEW row \in EntryRow \cup {None},
         entries' = [entries EXCEPT ![r][e] = row]
  PROVE  /\ entries' \in Entries
         /\ \A q \in Room, d \in EntryId :
              entries'[q][d] = IF q = r /\ d = e THEN row ELSE entries[q][d]
<1>1. entries[r] \in [EntryId -> EntryRow \cup {None}]
  BY DEF Entries
<1>2. [entries[r] EXCEPT ![e] = row] \in [EntryId -> EntryRow \cup {None}]
  BY <1>1
<1>3. entries' = [entries EXCEPT ![r] = [entries[r] EXCEPT ![e] = row]]
  BY DEF Entries
<1>4. entries' \in Entries
  BY <1>2, <1>3 DEF Entries
<1> QED BY <1>1, <1>3, <1>4 DEF Entries

(* No row is taken for a missing one.                                      *)
LEMMA RowNotNone == None \notin EntryRow /\ None \notin FileRow /\ None \notin Room
OBVIOUS

(* A file id is drawn from a finite set: files can be counted.             *)
LEMMA CountIsNat == ASSUME NEW rows, NEW r, NEW e PROVE Cardinality(Of(rows, r, e)) \in Nat
<1>1. Of(rows, r, e) \subseteq File
  BY DEF Of, In
<1> QED BY <1>1, FS_Subset, FS_CardinalityType

-----------------------------------------------------------------------------
(* Initially every table is empty.                                         *)
LEMMA InitTypeOK == Init => TypeOK
BY DEF Init, TypeOK, RowsOK, KeysOK

(* Rooms come empty and take all their rows with them.                     *)
LEMMA RoomTypeOK ==
  ASSUME TypeOK, NEW r \in Room, CreateRoom(r) \/ ClearRoom(r) \/ DropRoom(r)
  PROVE  TypeOK'
<1>1. CASE CreateRoom(r)
  BY <1>1 DEF TypeOK, RowsOK, KeysOK, CreateRoom
<1>2. CASE EmptyRoom(r) /\ rooms' \in {rooms, rooms \ {r}}
  <2>1. RowsOK'
    BY <1>2 DEF TypeOK, RowsOK, EmptyRoom, Without, In
  <2>2. KeysOK'
    BY <1>2, RowNotNone DEF TypeOK, RowsOK, KeysOK, EmptyRoom, Without, In
  <2> QED BY <2>1, <2>2 DEF TypeOK
<1> QED BY <1>1, <1>2 DEF ClearRoom, DropRoom

(* Steps of an entry of a room: one row changes, or goes with its files.   *)
LEMMA EntryTypeOK ==
  ASSUME TypeOK, NEW r \in Room, EntryStep(r)
  PROVE  TypeOK'
<1> USE RowNotNone DEF TypeOK, RowsOK
<1>1. ASSUME NEW e \in Id, NEW n \in Expected, NEW text \in BOOLEAN, NEW ttl \in BOOLEAN,
             CreateEntry(r, e, n, text, ttl)
      PROVE  TypeOK'
  <2> DEFINE row == [expected |-> n, published |-> FALSE, expires |-> ttl, due |-> FALSE, declared |-> TRUE,
        fresh |-> ~HasItem(r, e) /\ Of(files, r, e) = {} /\ Of(uploads, r, e) = {}]
  <2>1. row \in EntryRow /\ e \in EntryId
    BY DEF EntryRow, EntryId
  <2>2. entries' = [entries EXCEPT ![r][e] = row]
    BY <1>1 DEF CreateEntry
  <2> HIDE DEF row
  <2>3. /\ entries' \in Entries
        /\ \A q \in Room, d \in EntryId : entries'[q][d] = IF q = r /\ d = e THEN row ELSE entries[q][d]
    BY <2>1, <2>2, PutEntry DEF Entries
  <2>4. RowsOK'
    <3>1. items' \in [Id -> Room \cup {None}]
      BY <1>1 DEF CreateEntry
    <3> QED BY <1>1, <2>1, <2>3, <3>1 DEF CreateEntry, Entries
  <2>5. KeysOK'
    BY <1>1, <2>3 DEF CreateEntry, KeysOK
  <2> QED BY <2>4, <2>5
<1>2. ASSUME NEW e \in EntryId, CommitEntry(r, e) PROVE TypeOK'
  <2> DEFINE row == [entries[r][e] EXCEPT !.published = TRUE]
  <2>1. row \in EntryRow /\ entries[r][e] # None
    <3>1. entries[r][e] \in EntryRow /\ entries[r][e] # None
      BY <1>2 DEF CommitEntry
    <3> QED BY <3>1 DEF EntryRow
  <2>2. entries' = [entries EXCEPT ![r][e] = row]
    BY <1>2 DEF CommitEntry
  <2> HIDE DEF row
  <2>3. /\ entries' \in Entries
        /\ \A q \in Room, d \in EntryId : entries'[q][d] = IF q = r /\ d = e THEN row ELSE entries[q][d]
    BY <2>1, <2>2, PutEntry DEF Entries
  <2> QED BY <1>2, <2>1, <2>3 DEF CommitEntry, KeysOK, Entries
<1>3. ASSUME NEW e \in EntryId, PinEntry(r, e) PROVE TypeOK'
  <2> DEFINE row == [expected |-> Cardinality(Of(files, r, e)), published |-> TRUE, expires |-> FALSE,
                     due |-> FALSE, declared |-> FALSE, fresh |-> FALSE]
  <2>1. row \in EntryRow
    BY CountIsNat DEF EntryRow
  <2>2. entries' = [entries EXCEPT ![r][e] = row]
    BY <1>3 DEF PinEntry
  <2> HIDE DEF row
  <2>3. /\ entries' \in Entries
        /\ \A q \in Room, d \in EntryId : entries'[q][d] = IF q = r /\ d = e THEN row ELSE entries[q][d]
    BY <2>1, <2>2, PutEntry DEF Entries
  <2>4. r \in rooms
    BY <1>3 DEF PinEntry, HasItem, ItemsIn, Of, In, KeysOK
  <2> QED BY <1>3, <2>1, <2>3, <2>4 DEF PinEntry, KeysOK, Entries
<1>4. ASSUME NEW e \in EntryId, DeleteEntry(r, e) PROVE TypeOK'
  <2>1. entries' = [entries EXCEPT ![r][e] = None]
    BY <1>4 DEF DeleteEntry
  <2>2. /\ entries' \in Entries
        /\ \A q \in Room, d \in EntryId : entries'[q][d] = IF q = r /\ d = e THEN None ELSE entries[q][d]
    BY <2>1, PutEntry DEF Entries
  <2>3. RowsOK'
    <3>1. items' \in [Id -> Room \cup {None}]
      BY <1>4 DEF DeleteEntry
    <3>2. files' \in [File -> FileRow \cup {None}] /\ uploads' \in [File -> FileRow \cup {None}]
      BY <1>4 DEF DeleteEntry, Without
    <3> QED BY <1>4, <2>2, <3>1, <3>2 DEF DeleteEntry, Entries
  <2>4. KeysOK'
    BY <1>4, <2>2 DEF DeleteEntry, Without, KeysOK
  <2> QED BY <2>3, <2>4
<1>5. ASSUME NEW e \in EntryId, Expire(r, e) PROVE TypeOK'
  <2> DEFINE row == [entries[r][e] EXCEPT !.due = TRUE]
  <2>1. row \in EntryRow /\ entries[r][e] # None
    <3>1. entries[r][e] \in EntryRow /\ entries[r][e] # None
      BY <1>5 DEF Expire
    <3> QED BY <3>1 DEF EntryRow
  <2>2. entries' = [entries EXCEPT ![r][e] = row]
    BY <1>5 DEF Expire
  <2> HIDE DEF row
  <2>3. /\ entries' \in Entries
        /\ \A q \in Room, d \in EntryId : entries'[q][d] = IF q = r /\ d = e THEN row ELSE entries[q][d]
    BY <2>1, <2>2, PutEntry DEF Entries
  <2> QED BY <1>5, <2>1, <2>3 DEF Expire, KeysOK, Entries
<1> QED BY <1>1, <1>2, <1>3, <1>4, <1>5 DEF EntryStep

(* Text items of legacy clients.                                           *)
LEMMA ItemTypeOK ==
  ASSUME TypeOK, NEW r \in Room, ItemStep(r)
  PROVE  TypeOK'
BY RowNotNone DEF TypeOK, RowsOK, KeysOK, ItemStep, AddItem, DeleteItem, HasItem, ItemsIn

(* Steps of a session and of the file it becomes.                          *)
LEMMA FileTypeOK ==
  ASSUME TypeOK, NEW u \in File, FileStep(u)
  PROVE  TypeOK'
<1> USE RowNotNone DEF TypeOK, RowsOK, KeysOK
<1>1. ASSUME NEW r \in Room, NEW e \in EntryId, NEW i \in Index, NEW s \in Size, CreateUpload(u, r, e, i, s)
      PROVE  TypeOK'
  BY <1>1 DEF CreateUpload, FileRow
<1>2. CASE CompleteUpload(u)
  BY <1>2 DEF CompleteUpload
<1>3. CASE AbortUpload(u)
  BY <1>3 DEF AbortUpload
<1>4. CASE DeleteFile(u)
  <2>1. files[u].room \in Room /\ files[u].entry \in EntryId
    BY <1>4 DEF DeleteFile, FileRow
  <2> QED BY <1>4, <2>1 DEF DeleteFile
<1> QED BY <1>1, <1>2, <1>3, <1>4 DEF FileStep

(* TypeOK is inductive by itself.                                          *)
LEMMA NextTypeOK == TypeOK /\ [Next]_vars => TypeOK'
<1> SUFFICES ASSUME TypeOK, [Next]_vars PROVE TypeOK'
  OBVIOUS
<1>1. CASE Next
  BY <1>1, RoomTypeOK, EntryTypeOK, ItemTypeOK, FileTypeOK DEF Next
<1>2. CASE UNCHANGED vars
  BY <1>2 DEF vars, TypeOK, RowsOK, KeysOK
<1> QED BY <1>1, <1>2

-----------------------------------------------------------------------------
(* What the steps do to the parts of the invariant: sessions and files     *)
(* only go, with their entry ...                                           *)
Fewer == \A f \in File :
  /\ files'[f] \in {files[f], None}
  /\ uploads'[f] \in {uploads[f], None}

(* ... and the rows of entries that stay keep what the invariant needs.    *)
Kept == \A r \in Room, e \in EntryId :
  entries[r][e] # None /\ (Of(files', r, e) # {} \/ Of(uploads', r, e) # {}) =>
    entries'[r][e] # None /\ (entries[r][e].declared => entries'[r][e].declared)

(* Rows of drafts still belong to their entry after such a step.           *)
LEMMA FewerKept ==
  ASSUME TypeOK, Belongs(uploads), Belongs(files), Fewer, Kept
  PROVE  Belongs(uploads)' /\ Belongs(files)'
<1>1. ASSUME NEW f \in File, files'[f] # None, files'[f].grouped
      PROVE  LET row == entries'[files'[f].room][files'[f].entry] IN row # None /\ row.declared
  <2>1. files[f] \in FileRow /\ files'[f] = files[f]
    BY <1>1 DEF Fewer, TypeOK, RowsOK
  <2>2. f \in Of(files', files[f].room, files[f].entry)
    BY <1>1, <2>1 DEF Of, In
  <2>3. files[f].room \in Room /\ files[f].entry \in EntryId
    BY <2>1 DEF FileRow
  <2>4. LET row == entries[files[f].room][files[f].entry] IN row # None /\ row.declared
    BY <1>1, <2>1, RowNotNone DEF Belongs
  <2> QED BY <2>1, <2>2, <2>3, <2>4 DEF Kept
<1>2. ASSUME NEW f \in File, uploads'[f] # None, uploads'[f].grouped
      PROVE  LET row == entries'[uploads'[f].room][uploads'[f].entry] IN row # None /\ row.declared
  <2>1. uploads[f] \in FileRow /\ uploads'[f] = uploads[f]
    BY <1>2 DEF Fewer, TypeOK, RowsOK
  <2>2. f \in Of(uploads', uploads[f].room, uploads[f].entry)
    BY <1>2, <2>1 DEF Of, In
  <2>3. uploads[f].room \in Room /\ uploads[f].entry \in EntryId
    BY <2>1 DEF FileRow
  <2>4. LET row == entries[uploads[f].room][uploads[f].entry] IN row # None /\ row.declared
    BY <1>2, <2>1, RowNotNone DEF Belongs
  <2> QED BY <2>1, <2>2, <2>3, <2>4 DEF Kept
<1> QED BY <1>1, <1>2 DEF Belongs

(* A step that opens no session and commits nothing keeps committed        *)
(* entries closed.                                                         *)
LEMMA StaysClosed ==
  ASSUME TypeOK, CommittedIsClosed, \A f \in File : uploads'[f] \in {uploads[f], None},
         \A r \in Room, e \in EntryId : Committed(r, e)' => Committed(r, e) \/ Of(uploads, r, e) = {}
  PROVE  CommittedIsClosed'
<1> SUFFICES ASSUME NEW r \in Room, NEW e \in EntryId, Committed(r, e)' PROVE Of(uploads', r, e) = {}
  BY DEF CommittedIsClosed, Of, In
<1>1. Of(uploads, r, e) = {}
  BY DEF CommittedIsClosed
<1> QED BY <1>1 DEF Of, In

(* A room is created empty, and emptied as a whole.                        *)
LEMMA RoomKeeps ==
  ASSUME IInv, NEW r \in Room, CreateRoom(r) \/ ClearRoom(r) \/ DropRoom(r)
  PROVE  IInv'
<1>1. TypeOK'
  BY RoomTypeOK DEF IInv
<1>2. CASE CreateRoom(r)
  BY <1>1, <1>2 DEF IInv, CreateRoom, Belongs, LegacyIsPublished, CommittedIsClosed, Committed, Of, In
<1>3. CASE EmptyRoom(r)
  <2>1. /\ \A q \in Room \ {r} : entries'[q] = entries[q]
        /\ \A e \in EntryId : entries'[r][e] = None
    BY <1>3 DEF EmptyRoom, IInv, TypeOK, RowsOK
  <2>2. Fewer
    BY <1>3 DEF EmptyRoom, Without, Fewer
  <2>3. \A e \in EntryId : Of(files', r, e) = {} /\ Of(uploads', r, e) = {}
    BY <1>3 DEF EmptyRoom, Without, Of, In
  <2>4. Kept
    BY <2>1, <2>3 DEF Kept
  <2>5. \A q \in Room, e \in EntryId : Committed(q, e)' => Committed(q, e)
    BY <2>1 DEF Committed
  <2>6. CommittedIsClosed'
    BY <2>2, <2>5, StaysClosed DEF IInv, Fewer
  <2>7. LegacyIsPublished'
    BY <2>1 DEF IInv, LegacyIsPublished
  <2> QED BY <1>1, <2>2, <2>4, <2>6, <2>7, FewerKept DEF IInv
<1> QED BY <1>2, <1>3 DEF ClearRoom, DropRoom

(* Items take no part in the invariant.                                    *)
LEMMA ItemKeeps ==
  ASSUME IInv, NEW r \in Room, ItemStep(r)
  PROVE  IInv'
<1>1. UNCHANGED <<entries, uploads, files>>
  BY DEF ItemStep, AddItem, DeleteItem
<1>2. TypeOK'
  BY ItemTypeOK DEF IInv
<1> QED BY <1>1, <1>2 DEF IInv, Belongs, LegacyIsPublished, CommittedIsClosed, Committed, Of, In

(* A step that puts one row of entries in place of another and takes files *)
(* and sessions away only from an entry whose row it deletes.              *)
LEMMA PutKeeps ==
  ASSUME IInv, TypeOK', Fewer, NEW r \in Room, NEW e \in EntryId, NEW row,
         \A q \in Room, d \in EntryId : entries'[q][d] = IF q = r /\ d = e THEN row ELSE entries[q][d],
         entries[r][e] # None =>
           \/ row # None /\ (entries[r][e].declared => row.declared)
           \/ Of(files', r, e) = {} /\ Of(uploads', r, e) = {},
         row # None => row.declared \/ row.published,
         row # None /\ row.declared /\ row.published => Committed(r, e) \/ Of(uploads, r, e) = {}
  PROVE  IInv'
<1>1. Kept
  BY DEF Kept
<1>2. \A q \in Room, d \in EntryId : Committed(q, d)' => Committed(q, d) \/ Of(uploads, q, d) = {}
  BY DEF Committed
<1>3. CommittedIsClosed'
  BY <1>2, StaysClosed DEF IInv, Fewer
<1>4. LegacyIsPublished'
  BY DEF IInv, LegacyIsPublished
<1> QED BY <1>1, <1>3, <1>4, FewerKept DEF IInv

(* Each step of an entry is one such change.                               *)
LEMMA EntryKeeps ==
  ASSUME IInv, NEW r \in Room, EntryStep(r)
  PROVE  IInv'
<1>1. TypeOK'
  BY EntryTypeOK DEF IInv
<1>2. entries \in Entries
  BY DEF IInv, TypeOK, RowsOK, Entries
<1>3. ASSUME NEW e \in Id, NEW n \in Expected, NEW text \in BOOLEAN, NEW ttl \in BOOLEAN,
             CreateEntry(r, e, n, text, ttl)
      PROVE  IInv'
  <2> DEFINE row == [expected |-> n, published |-> FALSE, expires |-> ttl, due |-> FALSE, declared |-> TRUE,
        fresh |-> ~HasItem(r, e) /\ Of(files, r, e) = {} /\ Of(uploads, r, e) = {}]
  <2>1. row \in EntryRow /\ e \in EntryId
    BY DEF EntryRow, EntryId
  <2>2. entries' = [entries EXCEPT ![r][e] = row] /\ entries[r][e] = None /\ Fewer
    BY <1>3 DEF CreateEntry, Fewer
  <2>3. row.declared /\ ~row.published
    OBVIOUS
  <2> HIDE DEF row
  <2>4. \A q \in Room, d \in EntryId : entries'[q][d] = IF q = r /\ d = e THEN row ELSE entries[q][d]
    BY <1>2, <2>1, <2>2, PutEntry DEF Entries
  <2> QED BY <1>1, <2>1, <2>2, <2>3, <2>4, PutKeeps
<1>4. ASSUME NEW e \in EntryId, CommitEntry(r, e) PROVE IInv'
  <2> DEFINE row == [entries[r][e] EXCEPT !.published = TRUE]
  <2>1. entries[r][e] \in EntryRow
    BY <1>2, <1>4 DEF CommitEntry, Entries
  <2>2. row \in EntryRow /\ row.declared = entries[r][e].declared /\ row.published
    BY <2>1 DEF EntryRow
  <2>3. entries' = [entries EXCEPT ![r][e] = row] /\ Of(uploads, r, e) = {} /\ Fewer
    BY <1>4 DEF CommitEntry, Fewer
  <2> HIDE DEF row
  <2>4. \A q \in Room, d \in EntryId : entries'[q][d] = IF q = r /\ d = e THEN row ELSE entries[q][d]
    BY <1>2, <2>2, <2>3, PutEntry DEF Entries
  <2>5. row # None
    BY <2>2, RowNotNone
  <2> QED BY <1>1, <1>4, <2>2, <2>3, <2>4, <2>5, PutKeeps
<1>5. ASSUME NEW e \in EntryId, PinEntry(r, e) PROVE IInv'
  <2> DEFINE row == [expected |-> Cardinality(Of(files, r, e)), published |-> TRUE, expires |-> FALSE,
                     due |-> FALSE, declared |-> FALSE, fresh |-> FALSE]
  <2>1. row \in EntryRow
    BY CountIsNat DEF EntryRow
  <2>2. entries' = [entries EXCEPT ![r][e] = row] /\ entries[r][e] = None /\ Fewer
    BY <1>5 DEF PinEntry, Fewer
  <2>3. ~row.declared /\ row.published
    OBVIOUS
  <2> HIDE DEF row
  <2>4. \A q \in Room, d \in EntryId : entries'[q][d] = IF q = r /\ d = e THEN row ELSE entries[q][d]
    BY <1>2, <2>1, <2>2, PutEntry DEF Entries
  <2> QED BY <1>1, <2>1, <2>2, <2>3, <2>4, PutKeeps
<1>6. ASSUME NEW e \in EntryId, DeleteEntry(r, e) PROVE IInv'
  <2>1. entries' = [entries EXCEPT ![r][e] = None] /\ Fewer
    BY <1>6 DEF DeleteEntry, Fewer, Without
  <2>2. Of(files', r, e) = {} /\ Of(uploads', r, e) = {}
    BY <1>6 DEF DeleteEntry, Without, Of, In
  <2>3. \A q \in Room, d \in EntryId : entries'[q][d] = IF q = r /\ d = e THEN None ELSE entries[q][d]
    BY <1>2, <2>1, PutEntry DEF Entries
  <2> QED BY <1>1, <2>1, <2>2, <2>3, PutKeeps
<1>7. ASSUME NEW e \in EntryId, Expire(r, e) PROVE IInv'
  <2> DEFINE row == [entries[r][e] EXCEPT !.due = TRUE]
  <2>1. entries[r][e] \in EntryRow
    BY <1>2, <1>7 DEF Expire, Entries
  <2>2. /\ row \in EntryRow /\ row.declared = entries[r][e].declared
        /\ row.published = entries[r][e].published
    BY <2>1 DEF EntryRow
  <2>3. entries' = [entries EXCEPT ![r][e] = row] /\ entries[r][e] # None /\ Fewer
    BY <1>7 DEF Expire, Fewer
  <2> HIDE DEF row
  <2>4. row.declared /\ row.published => Committed(r, e)
    BY <2>2, <2>3 DEF Committed
  <2>5. \A q \in Room, d \in EntryId : entries'[q][d] = IF q = r /\ d = e THEN row ELSE entries[q][d]
    BY <1>2, <2>2, <2>3, PutEntry DEF Entries
  <2>6. row # None /\ (row.declared \/ row.published)
    BY <2>2, <2>3, RowNotNone DEF IInv, LegacyIsPublished
  <2>7. Fewer /\ (entries[r][e].declared => row.declared)
    BY <2>2, <2>3
  <2> QED BY <1>1, <2>4, <2>5, <2>6, <2>7, PutKeeps
<1> QED BY <1>3, <1>4, <1>5, <1>6, <1>7 DEF EntryStep

(* A session is opened for a draft or a legacy entry only.                 *)
LEMMA FileKeeps ==
  ASSUME IInv, NEW u \in File, FileStep(u)
  PROVE  IInv'
<1>1. TypeOK'
  BY FileTypeOK DEF IInv
<1>2. ASSUME NEW r \in Room, NEW e \in EntryId, NEW i \in Index, NEW s \in Size, CreateUpload(u, r, e, i, s)
      PROVE  IInv'
  <2> DEFINE row == [room |-> r, entry |-> e, index |-> i, size |-> s, grouped |-> entries[r][e] # None]
  <2>1. UNCHANGED <<entries, files>> /\ ~Committed(r, e)
    BY <1>2 DEF CreateUpload, Admits, Committed
  <2>2. \A f \in File : uploads'[f] = IF f = u THEN row ELSE uploads[f]
    BY <1>2 DEF CreateUpload, IInv, TypeOK, RowsOK
  <2>3. CommittedIsClosed'
    BY <2>1, <2>2 DEF IInv, CommittedIsClosed, Committed, Of, In
  <2>4. row.grouped => entries[r][e] # None /\ entries[r][e].declared
    BY <1>2 DEF CreateUpload, Admits, IInv, LegacyIsPublished
  <2>5. row.room = r /\ row.entry = e
    OBVIOUS
  <2> HIDE DEF row
  <2>6. Belongs(uploads)' /\ Belongs(files)'
    BY <2>1, <2>2, <2>4, <2>5 DEF IInv, Belongs
  <2>7. LegacyIsPublished'
    BY <2>1 DEF IInv, LegacyIsPublished
  <2> QED BY <1>1, <2>3, <2>6, <2>7 DEF IInv
<1>3. CASE CompleteUpload(u)
  <2>1. Belongs(files)' /\ Belongs(uploads)'
    BY <1>3 DEF CompleteUpload, IInv, TypeOK, RowsOK, Belongs
  <2>2. CommittedIsClosed'
    BY <1>3 DEF CompleteUpload, IInv, TypeOK, RowsOK, CommittedIsClosed, Committed, Of, In
  <2>3. LegacyIsPublished'
    BY <1>3 DEF CompleteUpload, IInv, LegacyIsPublished
  <2> QED BY <1>1, <2>1, <2>2, <2>3 DEF IInv
<1>4. CASE AbortUpload(u) \/ DeleteFile(u)
  <2>1. Fewer /\ UNCHANGED entries
    BY <1>4 DEF AbortUpload, DeleteFile, Fewer, IInv, TypeOK, RowsOK
  <2>2. CommittedIsClosed'
    BY <2>1, StaysClosed DEF IInv, Fewer, Committed
  <2> QED BY <1>1, <2>1, <2>2, FewerKept DEF IInv, Kept, LegacyIsPublished
<1> QED BY <1>2, <1>3, <1>4 DEF FileStep

(* The empty database satisfies the invariant.                             *)
LEMMA InitInv == Init => IInv
<1> SUFFICES ASSUME Init PROVE IInv
  OBVIOUS
<1>1. TypeOK
  BY InitTypeOK
<1> QED BY <1>1 DEF Init, IInv, Belongs, LegacyIsPublished, CommittedIsClosed, Committed, Of, In

(* Every step preserves the invariant.                                     *)
LEMMA NextInv == IInv /\ [Next]_vars => IInv'
<1> SUFFICES ASSUME IInv, [Next]_vars PROVE IInv'
  OBVIOUS
<1>1. CASE Next
  BY <1>1, RoomKeeps, EntryKeeps, ItemKeeps, FileKeeps DEF Next
<1>2. CASE UNCHANGED vars
  <2>1. TypeOK'
    BY <1>2, NextTypeOK DEF IInv
  <2> QED BY <1>2, <2>1 DEF vars, IInv, Belongs, LegacyIsPublished, CommittedIsClosed, Committed, Of, In
<1> QED BY <1>1, <1>2

(* The inductive invariant holds in every reachable state.                 *)
LEMMA Invariance == Spec => []IInv
<1> QED BY InitInv, NextInv, PTL DEF Spec

-----------------------------------------------------------------------------
(* Theorems                                                                *)

(* Every row has its type and belongs to a room that exists.               *)
THEOREM TypeCorrect == Spec => []TypeOK
<1>1. IInv => TypeOK
  BY DEF IInv
<1> QED BY Invariance, <1>1, PTL

(* No reader ever sees a file uploaded into a draft other than as part of  *)
(* the committed entry.                                                    *)
THEOREM DraftsNeverLeak == Spec => []DraftNeverLeaks
<1>1. ASSUME IInv, NEW f \in File, files[f] # None, files[f].grouped, Visible(files[f].room, files[f].entry)
      PROVE  Committed(files[f].room, files[f].entry)
  BY <1>1 DEF IInv, Belongs, Visible, Committed
<1>2. IInv => DraftNeverLeaks
  BY <1>1 DEF DraftNeverLeaks
<1> QED BY Invariance, <1>2, PTL

(* No session is open for a committed entry.                               *)
THEOREM CommittedEntriesClosed == Spec => []CommittedIsClosed
<1>1. IInv => CommittedIsClosed
  BY DEF IInv
<1> QED BY Invariance, <1>1, PTL

(* A file appears only by the completion of its own session.               *)
LEMMA OnlyCompletionsAdd ==
  ASSUME TypeOK, Next, NEW f \in File, files'[f] # files[f], files'[f] # None
  PROVE  CompleteUpload(f)
<1> USE DEF TypeOK, RowsOK
<1>1. ASSUME NEW r \in Room, CreateRoom(r) \/ ClearRoom(r) \/ DropRoom(r) \/ ItemStep(r) PROVE FALSE
  BY <1>1 DEF CreateRoom, ClearRoom, DropRoom, EmptyRoom, Without, ItemStep, AddItem, DeleteItem
<1>2. ASSUME NEW r \in Room, EntryStep(r) PROVE FALSE
  BY <1>2 DEF EntryStep, CreateEntry, CommitEntry, PinEntry, DeleteEntry, Expire, Without
<1>3. ASSUME NEW u \in File, FileStep(u) PROVE CompleteUpload(f)
  BY <1>3 DEF FileStep, CreateUpload, CompleteUpload, AbortUpload, DeleteFile
<1> QED BY <1>1, <1>2, <1>3 DEF Next

(* The session such a completion needs cannot be open for a committed      *)
(* entry.                                                                  *)
LEMMA NothingJoins ==
  ASSUME IInv, [Next]_vars, NEW r \in Room, NEW e \in EntryId, Committed(r, e)
  PROVE  Of(files', r, e) \subseteq Of(files, r, e)
<1> SUFFICES ASSUME NEW f \in Of(files', r, e) PROVE f \in Of(files, r, e)
  OBVIOUS
<1>1. f \in File /\ files'[f] # None /\ files'[f].room = r /\ files'[f].entry = e
  BY DEF Of, In
<1>2. CASE files'[f] = files[f]
  BY <1>1, <1>2 DEF Of, In
<1>3. CASE files'[f] # files[f]
  <2>1. CompleteUpload(f)
    BY <1>1, <1>3, OnlyCompletionsAdd DEF IInv, vars
  <2>2. uploads[f] # None /\ files'[f] = uploads[f]
    BY <1>1, <2>1 DEF CompleteUpload, IInv, TypeOK, RowsOK
  <2>3. f \in Of(uploads, r, e)
    BY <1>1, <2>2 DEF Of, In
  <2> QED BY <2>3 DEF IInv, CommittedIsClosed
<1> QED BY <1>2, <1>3

(* A committed entry never gains a file: only a completion adds one, and   *)
(* the session it completes would have been open for a committed entry.    *)
THEOREM CommittedEntriesOnlyShrink == Spec => CommittedOnlyShrinks
<1>1. IInv /\ [Next]_vars =>
        [\A r \in Room, e \in EntryId :
           Committed(r, e) /\ Committed(r, e)' => Of(files, r, e)' \subseteq Of(files, r, e)]_vars
  BY NothingJoins DEF Of, In
<1> QED BY Invariance, <1>1, PTL DEF Spec, CommittedOnlyShrinks

-----------------------------------------------------------------------------
(* Committed entries are whole                                             *)

(* The row of an upload, which the file it becomes takes over.             *)
Slot(f) == IF uploads[f] # None THEN uploads[f] ELSE files[f]

Places(r, e) == {f \in File : Slot(f) # None /\ Slot(f).room = r /\ Slot(f).entry = e}

IsFresh(r, e) == entries[r][e] # None /\ entries[r][e].fresh

(* CommittedIsWhole is not inductive either: it says nothing of drafts.    *)
(* An id serves once, so that no completion overwrites a file; ...         *)
DrawnOnce ==
  \A f \in File :
    /\ uploads[f] # None => f \in drawn /\ files[f] = None
    /\ files[f] # None => f \in drawn

(* ... what is or will be a file of an entry has an index of its own       *)
(* there, below the number of files declared; ...                          *)
Placed ==
  \A r \in Room, e \in EntryId : IsFresh(r, e) =>
    /\ entries[r][e].declared
    /\ \A f \in Places(r, e) : Slot(f).index < entries[r][e].expected
    /\ \A f, g \in Places(r, e) : Slot(f).index = Slot(g).index => f = g

(* ... and the number that the commit has found does not change.           *)
Counted ==
  \A r \in Room, e \in EntryId :
    Committed(r, e) /\ entries[r][e].fresh /\ <<r, e>> \notin trimmed =>
      Cardinality(Of(files, r, e)) = entries[r][e].expected

WholeInv == IInv /\ DrawnOnce /\ Placed /\ Counted

(* A step that opens no session and creates no row of a new entry.         *)
LEMMA PlacedStays ==
  ASSUME Placed,
         \A f \in File : Slot(f)' \in {Slot(f), None},
         \A r \in Room, e \in EntryId : IsFresh(r, e)' =>
           /\ IsFresh(r, e)
           /\ entries'[r][e].declared = entries[r][e].declared
           /\ entries'[r][e].expected = entries[r][e].expected
  PROVE  Placed'
<1> SUFFICES ASSUME NEW r \in Room, NEW e \in EntryId, IsFresh(r, e)'
             PROVE  /\ entries'[r][e].declared
                    /\ \A f \in Places(r, e)' : Slot(f)'.index < entries'[r][e].expected
                    /\ \A f, g \in Places(r, e)' : Slot(f)'.index = Slot(g)'.index => f = g
  BY DEF Placed
<1>1. \A f \in Places(r, e)' : f \in Places(r, e) /\ Slot(f)' = Slot(f)
  BY DEF Places
<1> QED BY <1>1 DEF Placed

(* A step that leaves the files of committed entries alone.                *)
LEMMA CountedStays ==
  ASSUME Counted,
         \A r \in Room, e \in EntryId :
           Committed(r, e)' /\ entries'[r][e].fresh /\ <<r, e>> \notin trimmed' =>
             /\ Of(files', r, e) = Of(files, r, e)
             /\ entries'[r][e].expected = entries[r][e].expected
             /\ \/ Committed(r, e) /\ entries[r][e].fresh /\ <<r, e>> \notin trimmed
                \/ Cardinality(Of(files, r, e)) = entries[r][e].expected
  PROVE  Counted'
<1> SUFFICES ASSUME NEW r \in Room, NEW e \in EntryId,
                    Committed(r, e)', entries'[r][e].fresh, <<r, e>> \notin trimmed'
             PROVE  Cardinality(Of(files', r, e)) = entries'[r][e].expected
  BY DEF Counted, Of, In
<1>1. /\ Of(files', r, e) = Of(files, r, e)
      /\ entries'[r][e].expected = entries[r][e].expected
  OBVIOUS
<1>2. Cardinality(Of(files, r, e)) = entries[r][e].expected
  BY DEF Counted
<1> QED BY <1>1, <1>2

(* Rooms come empty and are emptied as a whole.                            *)
LEMMA RoomWhole ==
  ASSUME WholeInv, NEW r \in Room, CreateRoom(r) \/ ClearRoom(r) \/ DropRoom(r)
  PROVE  DrawnOnce' /\ Placed' /\ Counted'
<1>1. CASE CreateRoom(r)
  BY <1>1 DEF CreateRoom, WholeInv, DrawnOnce, Placed, Places, Slot, IsFresh, Counted, Committed, Of, In
<1>2. CASE EmptyRoom(r)
  <2>1. /\ \A q \in Room \ {r} : entries'[q] = entries[q]
        /\ \A e \in EntryId : entries'[r][e] = None
    BY <1>2 DEF EmptyRoom, WholeInv, IInv, TypeOK, RowsOK
  <2>2. \A f \in File :
          /\ files'[f] = IF files[f] # None /\ files[f].room = r THEN None ELSE files[f]
          /\ uploads'[f] = IF uploads[f] # None /\ uploads[f].room = r THEN None ELSE uploads[f]
    BY <1>2 DEF EmptyRoom, Without, In
  <2>3. DrawnOnce'
    BY <1>2, <2>2 DEF EmptyRoom, WholeInv, DrawnOnce
  <2>4. \A f \in File : Slot(f)' \in {Slot(f), None}
    BY <2>2 DEF WholeInv, DrawnOnce, Slot
  <2>5. Placed'
    BY <2>1, <2>4, PlacedStays DEF WholeInv, IsFresh
  <2>6. \A q \in Room \ {r}, e \in EntryId : Of(files', q, e) = Of(files, q, e)
    BY <2>2 DEF Of, In
  <2>7. UNCHANGED trimmed
    BY <1>2 DEF EmptyRoom
  <2>8. Counted'
    BY <2>1, <2>6, <2>7, CountedStays DEF WholeInv, Committed
  <2> QED BY <2>3, <2>5, <2>8
<1> QED BY <1>1, <1>2 DEF ClearRoom, DropRoom

(* Items take no part in it.                                               *)
LEMMA ItemWhole ==
  ASSUME WholeInv, NEW r \in Room, ItemStep(r)
  PROVE  DrawnOnce' /\ Placed' /\ Counted'
<1>1. UNCHANGED <<entries, uploads, files, drawn, trimmed>>
  BY DEF ItemStep, AddItem, DeleteItem
<1> QED BY <1>1 DEF WholeInv, DrawnOnce, Placed, Places, Slot, IsFresh, Counted, Committed, Of, In

(* A new draft of a new id has no files yet; its commit counts them.       *)
LEMMA EntryWhole ==
  ASSUME WholeInv, NEW r \in Room, EntryStep(r)
  PROVE  DrawnOnce' /\ Placed' /\ Counted'
<1>1. entries \in Entries
  BY DEF WholeInv, IInv, TypeOK, RowsOK, Entries
<1>2. ASSUME NEW e \in Id, NEW n \in Expected, NEW text \in BOOLEAN, NEW ttl \in BOOLEAN,
             CreateEntry(r, e, n, text, ttl)
      PROVE  DrawnOnce' /\ Placed' /\ Counted'
  <2> DEFINE row == [expected |-> n, published |-> FALSE, expires |-> ttl, due |-> FALSE, declared |-> TRUE,
        fresh |-> ~HasItem(r, e) /\ Of(files, r, e) = {} /\ Of(uploads, r, e) = {}]
  <2>1. row \in EntryRow /\ e \in EntryId
    BY DEF EntryRow, EntryId
  <2>2. entries' = [entries EXCEPT ![r][e] = row] /\ UNCHANGED <<files, uploads, drawn>>
    BY <1>2 DEF CreateEntry
  <2>3. /\ row.declared /\ ~row.published
        /\ row.fresh => Of(files, r, e) = {} /\ Of(uploads, r, e) = {}
    OBVIOUS
  <2> HIDE DEF row
  <2>4. \A q \in Room, d \in EntryId : entries'[q][d] = IF q = r /\ d = e THEN row ELSE entries[q][d]
    BY <1>1, <2>1, <2>2, PutEntry DEF Entries
  <2>5. DrawnOnce'
    BY <2>2 DEF WholeInv, DrawnOnce
  <2>6. Placed'
    <3>1. \A f \in File : Slot(f)' = Slot(f)
      BY <2>2 DEF Slot
    <3>2. \A q \in Room, d \in EntryId : Places(q, d)' = Places(q, d)
      BY <3>1 DEF Places
    <3>3. row.fresh => Places(r, e) = {}
      BY <2>3 DEF Places, Slot, Of, In
    <3> SUFFICES ASSUME NEW q \in Room, NEW d \in EntryId, IsFresh(q, d)'
                 PROVE  /\ entries'[q][d].declared
                        /\ \A f \in Places(q, d) : Slot(f)'.index < entries'[q][d].expected
                        /\ \A f, g \in Places(q, d) : Slot(f)'.index = Slot(g)'.index => f = g
      BY <3>2 DEF Placed
    <3>4. CASE q = r /\ d = e
      BY <2>3, <2>4, <3>3, <3>4 DEF IsFresh
    <3>5. CASE ~(q = r /\ d = e)
      <4>1. IsFresh(q, d) /\ entries'[q][d] = entries[q][d]
        BY <2>4, <3>5 DEF IsFresh
      <4>2. \A f \in Places(q, d) : Slot(f)' = Slot(f)
        BY <3>1 DEF Places
      <4> QED BY <4>1, <4>2 DEF WholeInv, Placed
    <3> QED BY <3>4, <3>5
  <2>7. Counted'
    <3>1. \A q \in Room, d \in EntryId : q # r \/ d # e => (<<q, d>> \in trimmed' <=> <<q, d>> \in trimmed)
      BY <1>2 DEF CreateEntry
    <3> QED BY <2>2, <2>3, <2>4, <3>1, CountedStays DEF WholeInv, Committed
  <2> QED BY <2>5, <2>6, <2>7
<1>3. ASSUME NEW e \in EntryId, CommitEntry(r, e) PROVE DrawnOnce' /\ Placed' /\ Counted'
  <2> DEFINE row == [entries[r][e] EXCEPT !.published = TRUE]
  <2>1. entries[r][e] \in EntryRow /\ entries[r][e] # None
    BY <1>1, <1>3 DEF CommitEntry, Entries
  <2>2. /\ row \in EntryRow /\ row.declared = entries[r][e].declared
        /\ row.expected = entries[r][e].expected /\ row.fresh = entries[r][e].fresh
    BY <2>1 DEF EntryRow
  <2>3. entries' = [entries EXCEPT ![r][e] = row] /\ UNCHANGED <<files, uploads, drawn, trimmed>>
    BY <1>3 DEF CommitEntry
  <2> HIDE DEF row
  <2>4. \A q \in Room, d \in EntryId : entries'[q][d] = IF q = r /\ d = e THEN row ELSE entries[q][d]
    BY <1>1, <2>2, <2>3, PutEntry DEF Entries
  <2>5. DrawnOnce'
    BY <2>3 DEF WholeInv, DrawnOnce
  <2>6. Placed'
    BY <2>1, <2>2, <2>3, <2>4, PlacedStays DEF WholeInv, IsFresh, Slot
  <2>7. Cardinality(Of(files, r, e)) = entries[r][e].expected
    BY <1>3 DEF CommitEntry
  <2>8. Counted'
    BY <2>2, <2>3, <2>4, <2>7, CountedStays DEF WholeInv, Committed
  <2> QED BY <2>5, <2>6, <2>8
<1>4. ASSUME NEW e \in EntryId, PinEntry(r, e) PROVE DrawnOnce' /\ Placed' /\ Counted'
  <2> DEFINE row == [expected |-> Cardinality(Of(files, r, e)), published |-> TRUE, expires |-> FALSE,
                     due |-> FALSE, declared |-> FALSE, fresh |-> FALSE]
  <2>1. row \in EntryRow
    BY CountIsNat DEF EntryRow
  <2>2. entries' = [entries EXCEPT ![r][e] = row] /\ UNCHANGED <<files, uploads, drawn, trimmed>>
    BY <1>4 DEF PinEntry
  <2>3. ~row.declared /\ ~row.fresh
    OBVIOUS
  <2> HIDE DEF row
  <2>4. \A q \in Room, d \in EntryId : entries'[q][d] = IF q = r /\ d = e THEN row ELSE entries[q][d]
    BY <1>1, <2>1, <2>2, PutEntry DEF Entries
  <2>5. DrawnOnce'
    BY <2>2 DEF WholeInv, DrawnOnce
  <2>6. Placed'
    BY <2>2, <2>3, <2>4, PlacedStays DEF WholeInv, IsFresh, Slot
  <2>7. Counted'
    BY <2>2, <2>3, <2>4, CountedStays DEF WholeInv, Committed
  <2> QED BY <2>5, <2>6, <2>7
<1>5. ASSUME NEW e \in EntryId, DeleteEntry(r, e) PROVE DrawnOnce' /\ Placed' /\ Counted'
  <2>1. entries' = [entries EXCEPT ![r][e] = None] /\ UNCHANGED <<drawn, trimmed>>
    BY <1>5 DEF DeleteEntry
  <2>2. \A f \in File :
          /\ files'[f] = IF f \in Of(files, r, e) THEN None ELSE files[f]
          /\ uploads'[f] = IF f \in Of(uploads, r, e) THEN None ELSE uploads[f]
    BY <1>5 DEF DeleteEntry, Without
  <2>3. \A q \in Room, d \in EntryId : entries'[q][d] = IF q = r /\ d = e THEN None ELSE entries[q][d]
    BY <1>1, <2>1, PutEntry DEF Entries
  <2>4. DrawnOnce'
    BY <2>1, <2>2 DEF WholeInv, DrawnOnce
  <2>5. \A f \in File : Slot(f)' \in {Slot(f), None}
    BY <2>2 DEF WholeInv, DrawnOnce, Slot
  <2>6. Placed'
    BY <2>3, <2>5, PlacedStays DEF WholeInv, IsFresh
  <2>7. \A q \in Room, d \in EntryId : q # r \/ d # e => Of(files', q, d) = Of(files, q, d)
    BY <2>2 DEF Of, In
  <2>8. Counted'
    BY <2>1, <2>3, <2>7, CountedStays DEF WholeInv, Committed
  <2> QED BY <2>4, <2>6, <2>8
<1>6. ASSUME NEW e \in EntryId, Expire(r, e) PROVE DrawnOnce' /\ Placed' /\ Counted'
  <2> DEFINE row == [entries[r][e] EXCEPT !.due = TRUE]
  <2>1. entries[r][e] \in EntryRow /\ entries[r][e] # None
    BY <1>1, <1>6 DEF Expire, Entries
  <2>2. /\ row \in EntryRow /\ row.declared = entries[r][e].declared
        /\ row.published = entries[r][e].published
        /\ row.expected = entries[r][e].expected /\ row.fresh = entries[r][e].fresh
    BY <2>1 DEF EntryRow
  <2>3. entries' = [entries EXCEPT ![r][e] = row] /\ UNCHANGED <<files, uploads, drawn, trimmed>>
    BY <1>6 DEF Expire
  <2> HIDE DEF row
  <2>4. \A q \in Room, d \in EntryId : entries'[q][d] = IF q = r /\ d = e THEN row ELSE entries[q][d]
    BY <1>1, <2>2, <2>3, PutEntry DEF Entries
  <2>5. DrawnOnce'
    BY <2>3 DEF WholeInv, DrawnOnce
  <2>6. Placed'
    BY <2>1, <2>2, <2>3, <2>4, PlacedStays DEF WholeInv, IsFresh, Slot
  <2>7. Counted'
    BY <2>1, <2>2, <2>3, <2>4, CountedStays DEF WholeInv, Committed
  <2> QED BY <2>5, <2>6, <2>7
<1> QED BY <1>2, <1>3, <1>4, <1>5, <1>6 DEF EntryStep

(* A session takes an index that is free and hands it on to its file.      *)
LEMMA FileWhole ==
  ASSUME WholeInv, NEW u \in File, FileStep(u)
  PROVE  DrawnOnce' /\ Placed' /\ Counted'
<1>1. ASSUME NEW r \in Room, NEW e \in EntryId, NEW i \in Index, NEW s \in Size, CreateUpload(u, r, e, i, s)
      PROVE  DrawnOnce' /\ Placed' /\ Counted'
  <2> DEFINE row == [room |-> r, entry |-> e, index |-> i, size |-> s, grouped |-> entries[r][e] # None]
  <2>1. row \in FileRow
    BY DEF FileRow
  <2>2. UNCHANGED <<entries, files, trimmed>> /\ drawn' = drawn \cup {u} /\ Admits(r, e, i)
    BY <1>1 DEF CreateUpload
  <2>3. \A f \in File : uploads'[f] = IF f = u THEN row ELSE uploads[f]
    BY <1>1 DEF CreateUpload, WholeInv, IInv, TypeOK, RowsOK
  <2>4. files[u] = None /\ uploads[u] = None
    BY <1>1 DEF CreateUpload, WholeInv, DrawnOnce
  <2>5. row.room = r /\ row.entry = e /\ row.index = i
    OBVIOUS
  <2> HIDE DEF row
  <2>6. DrawnOnce'
    BY <2>2, <2>3, <2>4 DEF WholeInv, DrawnOnce
  <2>7. \A f \in File : Slot(f)' = IF f = u THEN row ELSE Slot(f)
    BY <2>1, <2>2, <2>3, RowNotNone DEF Slot
  <2>8. \A q \in Room, d \in EntryId : Places(q, d)' = IF q = r /\ d = e THEN Places(q, d) \cup {u} ELSE Places(q, d)
    BY <2>1, <2>4, <2>5, <2>7, RowNotNone DEF Places, Slot
  <2>9. \A f \in Places(r, e) : IsFresh(r, e) => Slot(f).index # i
    BY <2>2 DEF Places, Slot, Admits, IsFresh, Of, In
  <2>10. IsFresh(r, e) => i < entries[r][e].expected
    BY <2>2 DEF Admits, IsFresh
  <2>11. u \notin Places(r, e)
    BY <2>4 DEF Places, Slot
  <2>12. Placed'
    <3> SUFFICES ASSUME NEW q \in Room, NEW d \in EntryId, IsFresh(q, d)'
                 PROVE  /\ entries'[q][d].declared
                        /\ \A f \in Places(q, d)' : Slot(f)'.index < entries'[q][d].expected
                        /\ \A f, g \in Places(q, d)' : Slot(f)'.index = Slot(g)'.index => f = g
      BY DEF Placed
    <3>1. IsFresh(q, d) /\ entries'[q][d] = entries[q][d]
      BY <2>2 DEF IsFresh
    <3>2. CASE q = r /\ d = e
      <4>1. Places(r, e)' = Places(r, e) \cup {u} /\ Places(r, e) \subseteq File
        BY <2>8 DEF Places
      <4>2. \A f \in Places(r, e) : Slot(f)' = Slot(f) /\ Slot(f)'.index # i
        BY <2>7, <2>9, <2>11, <3>1, <3>2, <4>1
      <4>3. Slot(u)'.index = i
        BY <2>5, <2>7
      <4> QED BY <2>10, <3>1, <3>2, <4>1, <4>2, <4>3 DEF WholeInv, Placed
    <3>3. CASE ~(q = r /\ d = e)
      <4>1. Places(q, d)' = Places(q, d)
        BY <2>8, <3>3
      <4>2. \A f \in Places(q, d) : Slot(f)' = Slot(f)
        BY <2>4, <2>7 DEF Places, Slot
      <4> QED BY <3>1, <4>1, <4>2 DEF WholeInv, Placed
    <3> QED BY <3>2, <3>3
  <2>13. Counted'
    BY <2>2, CountedStays DEF WholeInv, Committed
  <2> QED BY <2>6, <2>12, <2>13
<1>2. CASE CompleteUpload(u)
  <2>1. /\ UNCHANGED <<entries, drawn, trimmed>> /\ uploads[u] # None
        /\ \A f \in File : files'[f] = IF f = u THEN uploads[u] ELSE files[f]
        /\ \A f \in File : uploads'[f] = IF f = u THEN None ELSE uploads[f]
    BY <1>2 DEF CompleteUpload, WholeInv, IInv, TypeOK, RowsOK
  <2>2. DrawnOnce'
    BY <2>1 DEF WholeInv, DrawnOnce
  <2>3. \A f \in File : Slot(f)' = Slot(f)
    BY <2>1 DEF Slot
  <2>4. Placed'
    BY <2>1, <2>3, PlacedStays DEF WholeInv, IsFresh
  <2>5. ASSUME NEW r \in Room, NEW e \in EntryId, Committed(r, e)
        PROVE  Of(files', r, e) = Of(files, r, e)
    <3>1. u \notin Of(uploads, r, e)
      BY <2>5 DEF WholeInv, IInv, CommittedIsClosed
    <3>2. uploads[u].room # r \/ uploads[u].entry # e
      BY <2>1, <3>1 DEF Of, In
    <3>3. files[u] = None
      BY <2>1 DEF WholeInv, DrawnOnce
    <3> QED BY <2>1, <3>2, <3>3 DEF Of, In
  <2>6. Counted'
    BY <2>1, <2>5, CountedStays DEF WholeInv, Committed
  <2> QED BY <2>2, <2>4, <2>6
<1>3. CASE AbortUpload(u)
  <2>1. /\ UNCHANGED <<entries, files, drawn, trimmed>> /\ uploads[u] # None
        /\ \A f \in File : uploads'[f] = IF f = u THEN None ELSE uploads[f]
    BY <1>3 DEF AbortUpload, WholeInv, IInv, TypeOK, RowsOK
  <2>2. DrawnOnce'
    BY <2>1 DEF WholeInv, DrawnOnce
  <2>3. \A f \in File : Slot(f)' \in {Slot(f), None}
    BY <2>1 DEF WholeInv, DrawnOnce, Slot
  <2>4. Placed'
    BY <2>1, <2>3, PlacedStays DEF WholeInv, IsFresh
  <2>5. Counted'
    BY <2>1, CountedStays DEF WholeInv, Committed
  <2> QED BY <2>2, <2>4, <2>5
<1>4. CASE DeleteFile(u)
  <2> DEFINE q == files[u].room
             d == files[u].entry
  <2>1. /\ UNCHANGED <<entries, uploads, drawn>> /\ files[u] # None
        /\ \A f \in File : files'[f] = IF f = u THEN None ELSE files[f]
        /\ trimmed' = trimmed \cup IF entries[q][d] # None /\ entries[q][d].published THEN {<<q, d>>} ELSE {}
    BY <1>4 DEF DeleteFile, WholeInv, IInv, TypeOK, RowsOK
  <2>2. DrawnOnce'
    BY <2>1 DEF WholeInv, DrawnOnce
  <2>3. \A f \in File : Slot(f)' \in {Slot(f), None}
    BY <2>1 DEF Slot
  <2>4. Placed'
    BY <2>1, <2>3, PlacedStays DEF WholeInv, IsFresh
  <2>5. ASSUME NEW r \in Room, NEW e \in EntryId, Committed(r, e), <<r, e>> \notin trimmed'
        PROVE  Of(files', r, e) = Of(files, r, e) /\ <<r, e>> \notin trimmed
    <3>1. ~(r = q /\ e = d)
      BY <2>1, <2>5 DEF Committed
    <3> QED BY <2>1, <2>5, <3>1 DEF Of, In
  <2>6. Counted'
    BY <2>1, <2>5, CountedStays DEF WholeInv, Committed
  <2> QED BY <2>2, <2>4, <2>6
<1> QED BY <1>1, <1>2, <1>3, <1>4 DEF FileStep

(* The empty database satisfies it.                                        *)
LEMMA InitWhole == Init => WholeInv
<1> SUFFICES ASSUME Init PROVE WholeInv
  OBVIOUS
<1> QED BY InitInv DEF Init, WholeInv, DrawnOnce, Placed, IsFresh, Counted, Committed

(* Every step preserves it.                                                *)
LEMMA NextWhole == WholeInv /\ [Next]_vars => WholeInv'
<1> SUFFICES ASSUME WholeInv, [Next]_vars PROVE WholeInv'
  OBVIOUS
<1>1. IInv'
  BY NextInv DEF WholeInv
<1>2. CASE Next
  BY <1>1, <1>2, RoomWhole, EntryWhole, ItemWhole, FileWhole DEF Next, WholeInv
<1>3. CASE UNCHANGED vars
  BY <1>1, <1>3 DEF vars, WholeInv, DrawnOnce, Placed, Places, Slot, IsFresh, Counted, Committed, Of, In
<1> QED BY <1>2, <1>3

(* As many files as there are indexes below n, with an index of their own  *)
(* each: then each index is that of a file.                                *)
LEMMA AllIndexes ==
  ASSUME NEW S, IsFiniteSet(S), NEW n \in Nat, Cardinality(S) = n,
         NEW row, \A f \in S : row[f].index \in Index /\ row[f].index < n,
         \A f, g \in S : row[f].index = row[g].index => f = g
  PROVE  {row[f].index : f \in S} = {i \in Index : i < n}
<1> DEFINE T == {i \in Index : i < n}
           m == [f \in S |-> row[f].index]
<1>1. T \subseteq 0 .. n - 1
  BY DEF Index
<1>2. IsFiniteSet(T) /\ Cardinality(T) <= n /\ Cardinality(T) \in Nat
  <2>1. IsFiniteSet(0 .. n - 1) /\ Cardinality(0 .. n - 1) = n
    <3> HIDE DEF T, m
    <3>1. 0 \in Int /\ n - 1 \in Int /\ (IF 0 > n - 1 THEN 0 ELSE n - 1 - 0 + 1) = n
      OBVIOUS
    <3> QED BY <3>1, FS_Interval
  <2> QED BY <1>1, <2>1, FS_Subset, FS_CardinalityType
<1>3. m \in Injection(S, T)
  <2>1. m \in [S -> T]
    OBVIOUS
  <2>2. IsInjective(m)
    BY DEF IsInjective
  <2> HIDE DEF m
  <2> QED BY <2>1, <2>2 DEF Injection
<1> HIDE DEF T
<1>4. Cardinality(S) <= Cardinality(T)
  BY <1>2, <1>3, FS_Injection
<1>5. Cardinality(S) = Cardinality(T)
  BY <1>2, <1>4
<1>6. m \in Surjection(S, T)
  BY <1>2, <1>3, <1>5, FS_Injection
<1>7. \A i \in T : \E f \in S : row[f].index = i
  BY <1>6 DEF Surjection
<1> QED BY <1>7 DEF T

(* A committed entry holds a file at each of the indexes it was declared   *)
(* with, until a file of it is deleted.                                    *)
THEOREM CommittedEntriesWhole == Spec => []CommittedIsWhole
<1>1. ASSUME WholeInv, NEW r \in Room, NEW e \in EntryId,
             Committed(r, e), entries[r][e].fresh, <<r, e>> \notin trimmed
      PROVE  /\ Cardinality(Of(files, r, e)) = entries[r][e].expected
             /\ {files[f].index : f \in Of(files, r, e)} = {i \in Index : i < entries[r][e].expected}
  <2> DEFINE n == entries[r][e].expected
             S == Of(files, r, e)
  <2>1. Cardinality(S) = n
    BY <1>1 DEF WholeInv, Counted
  <2>2. n \in Nat
    BY <2>1, CountIsNat
  <2>3. IsFiniteSet(S)
    BY FS_Subset DEF Of, In
  <2>4. \A f \in S : f \in Places(r, e) /\ Slot(f) = files[f]
    BY <1>1 DEF WholeInv, DrawnOnce, Places, Slot, Of, In
  <2>5. \A f \in S : files[f].index \in Index
    <3>1. \A f \in S : files[f] \in FileRow
      BY <1>1 DEF WholeInv, IInv, TypeOK, RowsOK, Of, In
    <3> QED BY <3>1 DEF FileRow
  <2>6. /\ \A f \in S : files[f].index < n
        /\ \A f, g \in S : files[f].index = files[g].index => f = g
    BY <1>1, <2>4 DEF WholeInv, Placed, IsFresh, Committed
  <2> HIDE DEF S, n
  <2>7. {files[f].index : f \in S} = {i \in Index : i < n}
    BY <2>1, <2>2, <2>3, <2>5, <2>6, AllIndexes
  <2> QED BY <2>1, <2>7 DEF S, n
<1>2. WholeInv => CommittedIsWhole
  BY <1>1 DEF CommittedIsWhole
<1> QED BY InitWhole, NextWhole, <1>2, PTL DEF Spec

-----------------------------------------------------------------------------
(* Readers                                                                 *)

Seen(e) == e \in seenItems \/ SeenOf(e) # {}

(* The files seen are old ones of the room, which nothing can bring back.  *)
Listed ==
  /\ seenFiles # {} => step \in {"entries", "answered"}
  /\ \A f \in seenFiles :
       /\ f \in File /\ f \in drawn /\ uploads[f] = None
       /\ files[f] # None => files[f].room = Shown

(* A new entry of which something was seen was committed then already.     *)
(* What comes after it in the answer shows it, too, or finds it due.       *)
Covers(e) ==
  LET row == entries[Shown][e] IN
  /\ row.published
  /\ step \in {"entries", "answered"} => row.due \/ Of(files, Shown, e) \subseteq seenFiles
  /\ step = "answered" => row.due \/ e \in seenEntries

(* A text that was seen stays: no later row of its id is one of a new      *)
(* entry.                                                                  *)
Covered(e) ==
  Seen(e) /\ e \notin touched =>
    /\ e \in seenItems => items[e] = Shown
    /\ IsFresh(Shown, e) => Covers(e)

ReaderInv == WholeInv /\ SnapshotOK /\ Listed /\ \A e \in Id : Covered(e)

(* A transaction never puts anything back for the reader.                  *)
LEMMA TransactionRows ==
  ASSUME WholeInv, Next, NEW f \in File, f \in drawn, uploads[f] = None
  PROVE  f \in drawn' /\ uploads'[f] = None /\ files'[f] \in {files[f], None}
<1> USE DEF WholeInv, IInv, TypeOK, RowsOK
<1>1. ASSUME NEW r \in Room, CreateRoom(r) \/ ClearRoom(r) \/ DropRoom(r) \/ ItemStep(r)
      PROVE  f \in drawn' /\ uploads'[f] = None /\ files'[f] \in {files[f], None}
  BY <1>1 DEF CreateRoom, ClearRoom, DropRoom, EmptyRoom, Without, ItemStep, AddItem, DeleteItem
<1>2. ASSUME NEW r \in Room, EntryStep(r)
      PROVE  f \in drawn' /\ uploads'[f] = None /\ files'[f] \in {files[f], None}
  BY <1>2 DEF EntryStep, CreateEntry, CommitEntry, PinEntry, DeleteEntry, Expire, Without
<1>3. ASSUME NEW u \in File, FileStep(u)
      PROVE  f \in drawn' /\ uploads'[f] = None /\ files'[f] \in {files[f], None}
  BY <1>3 DEF FileStep, CreateUpload, CompleteUpload, AbortUpload, DeleteFile
<1> QED BY <1>1, <1>2, <1>3 DEF Next

(* A row of a new entry appears where nothing bore its id; one that is     *)
(* there keeps what it is, and what was published or due stays so.         *)
LEMMA TransactionEntries ==
  ASSUME WholeInv, Next, NEW r \in Room, NEW e \in EntryId, IsFresh(r, e)'
  PROVE  \/ IsFresh(r, e) /\ (entries[r][e].published => entries'[r][e].published)
                          /\ (entries[r][e].due => entries'[r][e].due)
         \/ entries[r][e] = None /\ ~HasItem(r, e) /\ Of(files, r, e) = {}
<1> USE DEF IsFresh
<1>1. entries \in Entries
  BY DEF WholeInv, IInv, TypeOK, RowsOK, Entries
<1>2. CASE entries'[r][e] = entries[r][e]
  BY <1>2
<1>3. ASSUME NEW q \in Room, CreateRoom(q) \/ ClearRoom(q) \/ DropRoom(q) \/ ItemStep(q)
      PROVE  entries'[r][e] = entries[r][e]
  <2>1. entries'[r][e] \in {entries[r][e], None}
    BY <1>1, <1>3 DEF Entries, CreateRoom, ClearRoom, DropRoom, EmptyRoom, ItemStep, AddItem, DeleteItem
  <2> QED BY <2>1
<1>4. ASSUME NEW u \in File, FileStep(u) PROVE entries'[r][e] = entries[r][e]
  BY <1>4 DEF FileStep, CreateUpload, CompleteUpload, AbortUpload, DeleteFile
<1>5. ASSUME NEW q \in Room, NEW d \in Id, NEW n \in Expected, NEW text \in BOOLEAN, NEW ttl \in BOOLEAN,
             CreateEntry(q, d, n, text, ttl), entries'[r][e] # entries[r][e]
      PROVE  entries[r][e] = None /\ ~HasItem(r, e) /\ Of(files, r, e) = {}
  <2> DEFINE row == [expected |-> n, published |-> FALSE, expires |-> ttl, due |-> FALSE, declared |-> TRUE,
        fresh |-> ~HasItem(q, d) /\ Of(files, q, d) = {} /\ Of(uploads, q, d) = {}]
  <2>1. row \in EntryRow /\ d \in EntryId
    BY DEF EntryRow, EntryId
  <2>2. entries' = [entries EXCEPT ![q][d] = row] /\ entries[q][d] = None
    BY <1>5 DEF CreateEntry
  <2>3. row.fresh => ~HasItem(q, d) /\ Of(files, q, d) = {}
    OBVIOUS
  <2> HIDE DEF row
  <2>4. \A p \in Room, c \in EntryId : entries'[p][c] = IF p = q /\ c = d THEN row ELSE entries[p][c]
    BY <1>1, <2>1, <2>2, PutEntry DEF Entries
  <2> QED BY <1>5, <2>2, <2>3, <2>4
<1>6. ASSUME NEW q \in Room, NEW d \in EntryId, CommitEntry(q, d), entries'[r][e] # entries[r][e]
      PROVE  IsFresh(r, e) /\ entries'[r][e].published /\ entries'[r][e].due = entries[r][e].due
  <2> DEFINE row == [entries[q][d] EXCEPT !.published = TRUE]
  <2>1. entries[q][d] \in EntryRow /\ entries[q][d] # None
    BY <1>1, <1>6 DEF CommitEntry, Entries
  <2>2. row \in EntryRow /\ row.fresh = entries[q][d].fresh /\ row.published /\ row.due = entries[q][d].due
    BY <2>1 DEF EntryRow
  <2>3. entries' = [entries EXCEPT ![q][d] = row]
    BY <1>6 DEF CommitEntry
  <2> HIDE DEF row
  <2>4. \A p \in Room, c \in EntryId : entries'[p][c] = IF p = q /\ c = d THEN row ELSE entries[p][c]
    BY <1>1, <2>2, <2>3, PutEntry DEF Entries
  <2> QED BY <1>6, <2>1, <2>2, <2>4
<1>7. ASSUME NEW q \in Room, NEW d \in EntryId, PinEntry(q, d) PROVE entries'[r][e] = entries[r][e]
  <2> DEFINE row == [expected |-> Cardinality(Of(files, q, d)), published |-> TRUE, expires |-> FALSE,
                     due |-> FALSE, declared |-> FALSE, fresh |-> FALSE]
  <2>1. row \in EntryRow
    BY CountIsNat DEF EntryRow
  <2>2. entries' = [entries EXCEPT ![q][d] = row]
    BY <1>7 DEF PinEntry
  <2>3. ~row.fresh
    OBVIOUS
  <2> HIDE DEF row
  <2>4. \A p \in Room, c \in EntryId : entries'[p][c] = IF p = q /\ c = d THEN row ELSE entries[p][c]
    BY <1>1, <2>1, <2>2, PutEntry DEF Entries
  <2> QED BY <2>3, <2>4
<1>8. ASSUME NEW q \in Room, NEW d \in EntryId, DeleteEntry(q, d) PROVE entries'[r][e] = entries[r][e]
  <2>1. entries' = [entries EXCEPT ![q][d] = None]
    BY <1>8 DEF DeleteEntry
  <2>2. \A p \in Room, c \in EntryId : entries'[p][c] = IF p = q /\ c = d THEN None ELSE entries[p][c]
    BY <1>1, <2>1, PutEntry DEF Entries
  <2> QED BY <2>2
<1>9. ASSUME NEW q \in Room, NEW d \in EntryId, Expire(q, d), entries'[r][e] # entries[r][e]
      PROVE  IsFresh(r, e) /\ entries'[r][e].published = entries[r][e].published /\ entries'[r][e].due
  <2> DEFINE row == [entries[q][d] EXCEPT !.due = TRUE]
  <2>1. entries[q][d] \in EntryRow /\ entries[q][d] # None
    BY <1>1, <1>9 DEF Expire, Entries
  <2>2. row \in EntryRow /\ row.fresh = entries[q][d].fresh /\ row.due /\ row.published = entries[q][d].published
    BY <2>1 DEF EntryRow
  <2>3. entries' = [entries EXCEPT ![q][d] = row]
    BY <1>9 DEF Expire
  <2> HIDE DEF row
  <2>4. \A p \in Room, c \in EntryId : entries'[p][c] = IF p = q /\ c = d THEN row ELSE entries[p][c]
    BY <1>1, <2>2, <2>3, PutEntry DEF Entries
  <2> QED BY <1>9, <2>1, <2>2, <2>4
<1>10. ASSUME NEW q \in Room, EntryStep(q), entries'[r][e] # entries[r][e]
       PROVE  \/ IsFresh(r, e) /\ (entries[r][e].published => entries'[r][e].published)
                               /\ (entries[r][e].due => entries'[r][e].due)
              \/ entries[r][e] = None /\ ~HasItem(r, e) /\ Of(files, r, e) = {}
  BY <1>5, <1>6, <1>7, <1>8, <1>9, <1>10 DEF EntryStep
<1> QED BY <1>2, <1>3, <1>4, <1>10 DEF Next

(* What was seen of an entry before a transaction and not touched by it.   *)
LEMMA TransactionReads ==
  ASSUME ReaderInv, Transaction
  PROVE  ReaderInv'
<1>1. WholeInv' /\ Next /\ UNCHANGED <<step, seenItems, seenFiles, seenEntries>>
  BY NextWhole DEF ReaderInv, Transaction
<1>2. SnapshotOK'
  BY <1>1 DEF ReaderInv, SnapshotOK, Transaction, WholeInv, IInv
<1>3. \A f \in seenFiles : f \in drawn' /\ uploads'[f] = None /\ files'[f] \in {files[f], None}
  BY <1>1, TransactionRows DEF ReaderInv, Listed
<1>4. Listed'
  BY <1>1, <1>3 DEF ReaderInv, Listed
<1>5. ASSUME NEW e \in Id, Seen(e)', e \notin touched'
      PROVE  /\ e \in seenItems' => items'[e] = Shown
             /\ IsFresh(Shown, e)' => Covers(e)'
  <2>1. e \in EntryId /\ Shown \in Room
    BY ShownAssumption DEF EntryId
  <2>2. SeenOf(e)' \subseteq SeenOf(e)
    BY <1>1, <1>3 DEF SeenOf
  <2>3. Seen(e)
    BY <1>1, <1>5, <2>2 DEF Seen
  <2>4. step # "idle"
    BY <2>3 DEF Seen, SeenOf, ReaderInv, Listed, SnapshotOK
  <2>5. e \notin touched /\ ~Loses(e)
    BY <1>5, <2>1, <2>4 DEF Transaction
  <2>6. /\ e \in seenItems => items[e] = Shown
        /\ IsFresh(Shown, e) => Covers(e)
    BY <2>3, <2>5 DEF ReaderInv, Covered
  <2>7. e \in seenItems => items'[e] = Shown
    BY <2>5, <2>6 DEF Loses
  <2>8. ASSUME IsFresh(Shown, e)' PROVE Covers(e)'
    <3>1. ~(~HasItem(Shown, e) /\ Of(files, Shown, e) = {})
      <4>1. CASE e \in seenItems
        BY <2>6, <4>1 DEF HasItem, ItemsIn
      <4>2. CASE SeenOf(e) # {}
        BY <4>2 DEF SeenOf, ReaderInv, Listed, Of, In
      <4> QED BY <2>3, <4>1, <4>2 DEF Seen
    <3>2. /\ IsFresh(Shown, e)
          /\ entries[Shown][e].published => entries'[Shown][e].published
          /\ entries[Shown][e].due => entries'[Shown][e].due
      BY <1>1, <2>1, <2>8, <3>1, TransactionEntries DEF ReaderInv
    <3>3. Covers(e)
      BY <2>6, <3>2
    <3>4. Committed(Shown, e)
      BY <2>1, <3>2, <3>3 DEF Committed, Covers, IsFresh, ReaderInv, WholeInv, Placed
    <3>5. Of(files', Shown, e) \subseteq Of(files, Shown, e)
      BY <1>1, <2>1, <3>4, NothingJoins DEF ReaderInv, WholeInv
    <3>6. Of(files, Shown, e)' = Of(files', Shown, e)
      BY DEF Of, In
    <3> QED BY <1>1, <3>2, <3>3, <3>5, <3>6 DEF Covers
  <2> QED BY <1>1, <2>7, <2>8
<1>6. \A e \in Id : Covered(e)'
  BY <1>5 DEF Covered
<1> QED BY <1>1, <1>2, <1>4, <1>6 DEF ReaderInv

(* What a query shows of an entry is in order with what was shown before.  *)
LEMMA QueryReads ==
  ASSUME ReaderInv, Query
  PROVE  ReaderInv'
<1>1. UNCHANGED vars
  BY DEF Query, GetRoom, ListItems, ListFiles, ListEntries, NotFound
<1>2. WholeInv'
  BY <1>1, NextWhole DEF ReaderInv
<1>3. UNCHANGED <<rooms, items, entries, uploads, files, drawn, trimmed>>
  BY <1>1 DEF vars
<1>4. \A e : IsFresh(Shown, e)' <=> IsFresh(Shown, e)
  BY <1>3 DEF IsFresh
<1>5. \A e \in Id : e \in EntryId
  BY DEF EntryId
<1>6. SnapshotOK'
  <2>1. TypeOK'
    BY <1>2 DEF WholeInv, IInv
  <2> QED BY <2>1, <1>3, <1>5
          DEF ReaderInv, SnapshotOK, Query, GetRoom, ListItems, ListFiles, ListEntries, NotFound, ItemsIn, In
<1>7. CASE GetRoom \/ NotFound
  <2>1. seenItems' = {} /\ seenFiles' = {}
    BY <1>7 DEF GetRoom, NotFound
  <2> QED BY <1>2, <1>6, <2>1 DEF ReaderInv, Listed, Covered, Seen, SeenOf
<1>8. CASE ListItems
  <2>1. /\ step' = "files" /\ seenItems' = {i \in ItemsIn(Shown) : Visible(Shown, i)}
        /\ seenFiles' = seenFiles
    BY <1>8 DEF ListItems
  <2>2. seenFiles = {}
    BY <1>8 DEF ListItems, ReaderInv, Listed
  <2>3. Listed'
    BY <2>1, <2>2 DEF Listed
  <2>4. ASSUME NEW e \in Id, Seen(e)' PROVE items'[e] = Shown /\ (IsFresh(Shown, e)' => Covers(e)')
    <3>1. e \in seenItems'
      BY <2>1, <2>2, <2>4 DEF Seen, SeenOf
    <3>2. items[e] = Shown /\ Visible(Shown, e)
      BY <2>1, <3>1 DEF ItemsIn
    <3> QED BY <1>3, <2>1, <3>2 DEF Visible, IsFresh, Covers
  <2> QED BY <1>2, <1>6, <2>3, <2>4 DEF ReaderInv, Covered
<1>9. CASE ListFiles
  <2>1. /\ step = "files" /\ step' = "entries"
        /\ seenFiles' = {f \in In(files, Shown) : Visible(Shown, files[f].entry)}
        /\ UNCHANGED <<seenItems, touched>>
    BY <1>9 DEF ListFiles
  <2>2. Listed'
    <3>1. \A f \in seenFiles' : f \in File /\ files[f] # None /\ files[f].room = Shown
      BY <2>1 DEF In
    <3> QED BY <1>3, <2>1, <3>1 DEF Listed, ReaderInv, WholeInv, DrawnOnce
  <2>3. ASSUME NEW e \in Id, Seen(e)', e \notin touched'
        PROVE  /\ e \in seenItems' => items'[e] = Shown
               /\ IsFresh(Shown, e)' => Covers(e)'
    <3>1. CASE e \in seenItems
      <4>1. items[e] = Shown /\ (IsFresh(Shown, e) => entries[Shown][e].published)
        BY <2>1, <2>3, <3>1 DEF ReaderInv, Covered, Covers, Seen
      <4>2. ~entries[Shown][e].due /\ IsFresh(Shown, e) => Visible(Shown, e)
        BY <4>1 DEF Visible
      <4>3. Visible(Shown, e) => Of(files, Shown, e) \subseteq seenFiles'
        BY <2>1 DEF Of
      <4> QED BY <1>3, <1>4, <2>1, <4>1, <4>2, <4>3 DEF Covers, Of, In
    <3>2. CASE e \notin seenItems
      <4>1. PICK f \in seenFiles' : files[f].entry = e
        BY <1>3, <2>1, <2>3, <3>2 DEF Seen, SeenOf
      <4>2. Visible(Shown, e)
        BY <2>1, <4>1
      <4>3. Of(files, Shown, e) \subseteq seenFiles'
        BY <2>1, <4>2 DEF Of
      <4> QED BY <1>3, <1>4, <2>1, <3>2, <4>2, <4>3 DEF Covers, Visible, IsFresh, Of, In
    <3> QED BY <3>1, <3>2
  <2> QED BY <1>2, <1>6, <2>2, <2>3 DEF ReaderInv, Covered
<1>10. CASE ListEntries
  <2>1. /\ step = "entries" /\ step' = "answered"
        /\ seenEntries' = {e \in EntryId : entries[Shown][e] # None /\ Visible(Shown, e)}
        /\ UNCHANGED <<seenItems, seenFiles, touched>>
    BY <1>10 DEF ListEntries
  <2>2. Listed'
    BY <1>3, <2>1 DEF ReaderInv, Listed
  <2>3. ASSUME NEW e \in Id, Seen(e)', e \notin touched'
        PROVE  /\ e \in seenItems' => items'[e] = Shown
               /\ IsFresh(Shown, e)' => Covers(e)'
    <3>1. Seen(e) /\ e \notin touched
      BY <1>3, <2>1, <2>3 DEF Seen, SeenOf
    <3>2. /\ e \in seenItems => items[e] = Shown
          /\ IsFresh(Shown, e) => Covers(e)
      BY <3>1 DEF ReaderInv, Covered
    <3>3. ASSUME IsFresh(Shown, e) PROVE entries[Shown][e].due \/ e \in seenEntries'
      BY <1>5, <2>1, <3>2, <3>3 DEF Covers, Visible, IsFresh
    <3> QED BY <1>3, <1>4, <2>1, <3>2, <3>3 DEF Covers, Of, In
  <2> QED BY <1>2, <1>6, <2>2, <2>3 DEF ReaderInv, Covered
<1> QED BY <1>7, <1>8, <1>9, <1>10 DEF Query

LEMMA ReaderInvariance == SnapshotSpec => []ReaderInv
<1>1. SnapshotInit => ReaderInv
  <2> SUFFICES ASSUME SnapshotInit PROVE ReaderInv
    OBVIOUS
  <2>1. WholeInv /\ TypeOK
    BY InitWhole DEF SnapshotInit, WholeInv, IInv
  <2> QED BY <2>1 DEF SnapshotInit, ReaderInv, SnapshotOK, Listed, Covered, Seen, SeenOf
<1>2. ReaderInv /\ [SnapshotNext]_allVars => ReaderInv'
  <2> SUFFICES ASSUME ReaderInv, [SnapshotNext]_allVars PROVE ReaderInv'
    OBVIOUS
  <2>1. CASE SnapshotNext
    BY <2>1, TransactionReads, QueryReads DEF SnapshotNext
  <2>2. CASE UNCHANGED allVars
    <3>1. UNCHANGED vars /\ UNCHANGED <<rooms, items, entries, uploads, files, drawn, trimmed>>
      BY <2>2 DEF allVars, vars
    <3>2. WholeInv' /\ TypeOK'
      BY <3>1, NextWhole DEF ReaderInv, WholeInv, IInv
    <3>3. UNCHANGED <<step, seenItems, seenFiles, seenEntries, touched>>
      BY <2>2 DEF allVars, reader
    <3>4. SnapshotOK' /\ Listed'
      BY <3>1, <3>2, <3>3 DEF ReaderInv, SnapshotOK, Listed
    <3>5. \A e \in Id : Covered(e)'
      BY <3>1, <3>3 DEF ReaderInv, Covered, Covers, Seen, SeenOf, IsFresh, Of, In
    <3> QED BY <3>2, <3>4, <3>5 DEF ReaderInv
  <2> QED BY <2>1, <2>2
<1> QED BY <1>1, <1>2, PTL DEF SnapshotSpec

(* An answer put together from queries between which others write shows a  *)
(* committed entry, if by a text or a file at all, with all of its files   *)
(* and its row.                                                            *)
THEOREM SnapshotsShownInOrder == SnapshotSpec => []ShownInOrder
<1>1. ASSUME ReaderInv, step = "answered", NEW e \in Id, Undisturbed(e), Seen(e)
      PROVE  SeenWhole(e) /\ e \in seenEntries
  <2>1. e \in EntryId /\ Shown \in Room
    BY ShownAssumption DEF EntryId
  <2>2. IsFresh(Shown, e) /\ Committed(Shown, e) /\ <<Shown, e>> \notin trimmed /\ ~entries[Shown][e].due
    BY <1>1 DEF Undisturbed, IsFresh, Committed
  <2>3. Covers(e)
    BY <1>1, <2>2 DEF ReaderInv, Covered, Undisturbed
  <2>4. SeenOf(e) = Of(files, Shown, e)
    BY <1>1, <2>2, <2>3 DEF Covers, SeenOf, ReaderInv, Listed, Of, In
  <2>5. Cardinality(Of(files, Shown, e)) = entries[Shown][e].expected
    BY <1>1, <2>1, <2>2 DEF ReaderInv, WholeInv, Counted, IsFresh
  <2> QED BY <1>1, <2>2, <2>3, <2>4, <2>5 DEF Covers, SeenWhole
<1>2. ReaderInv => ShownInOrder
  BY <1>1 DEF ShownInOrder, Seen
<1> QED BY ReaderInvariance, <1>2, PTL

-----------------------------------------------------------------------------
(* The quota                                                               *)

(* Induction over a finite set, as the provers take it: of the subsets for *)
(* which a statement fails there would be a smallest one.                  *)
LEMMA Smallest ==
  ASSUME NEW S, IsFiniteSet(S), NEW T, T \subseteq SUBSET S, T # {}
  PROVE  \E s \in T : \A t \in T : t \subseteq s => t = s
<1>1. IsWellFoundedOn(StrictSubsetOrdering(S), SUBSET S)
  BY FS_StrictSubsetOrderingWellFounded, FS_FiniteSubsetsOfFinite
<1>2. PICK s \in T : \A t \in T : <<t, s>> \notin StrictSubsetOrdering(S)
  BY <1>1, WFMin
<1> QED BY <1>2 DEF StrictSubsetOrdering

(* What MapThenSumSet computes: the sizes of a set of rows, added up in an *)
(* order that CHOOSE makes.                                                *)
Step(rows, g, s) ==
  IF s = {} THEN 0 ELSE LET x == CHOOSE x \in s : TRUE IN rows[x].size + g[s \ {x}]

IsSums(rows, S, g) == g = [s \in SUBSET S |-> Step(rows, g, s)]

Sums(rows, S) == CHOOSE g : IsSums(rows, S, g)

Total(rows, S) == Sums(rows, S)[S]

First(s) == CHOOSE x \in s : TRUE

(* Bytes is such a sum.                                                    *)
LEMMA BytesIsTotal == ASSUME NEW rows, NEW r PROVE Bytes(rows, r) = Total(rows, In(rows, r))
BY DEF Bytes, MapThenSumSet, MapThenFoldSet, Total, Sums, IsSums, Step

(* The equation, for a function that satisfies it.                         *)
LEMMA SumsUnfold ==
  ASSUME NEW rows, NEW S, NEW g, IsSums(rows, S, g), NEW s \in SUBSET S
  PROVE  /\ s = {} => g[s] = 0
         /\ s # {} => First(s) \in s /\ g[s] = rows[First(s)].size + g[s \ {First(s)}]
<1>1. g[s] = Step(rows, g, s)
  BY DEF IsSums
<1> QED BY <1>1 DEF Step, First

(* There is at most one such function, and it does not depend on the set it *)
(* is defined for; ...                                                     *)
LEMMA SumsAgree ==
  ASSUME NEW rows, NEW S, IsFiniteSet(S), NEW g, IsSums(rows, S, g),
         NEW T \in SUBSET S, NEW h, IsSums(rows, T, h)
  PROVE  g[T] = h[T]
<1> DEFINE Bad == {s \in SUBSET T : g[s] # h[s]}
<1>1. SUFFICES ASSUME Bad # {} PROVE FALSE
  OBVIOUS
<1>2. PICK s \in Bad : \A t \in Bad : t \subseteq s => t = s
  <2>1. Bad \subseteq SUBSET S
    OBVIOUS
  <2> HIDE DEF Bad
  <2> QED BY <1>1, <2>1, Smallest
<1>3. s \in SUBSET T /\ s \in SUBSET S /\ g[s] # h[s]
  OBVIOUS
<1>4. s # {}
  BY <1>3, SumsUnfold
<1>5. /\ First(s) \in s
      /\ g[s] = rows[First(s)].size + g[s \ {First(s)}]
      /\ h[s] = rows[First(s)].size + h[s \ {First(s)}]
  BY <1>3, <1>4, SumsUnfold
<1>6. g[s \ {First(s)}] = h[s \ {First(s)}]
  BY <1>2, <1>3, <1>5
<1> QED BY <1>3, <1>5, <1>6

(* ... and there is one: were T the smallest set without, the functions for *)
(* its parts would make one up for T.                                      *)
LEMMA SumsExist ==
  ASSUME NEW rows, NEW S, IsFiniteSet(S)
  PROVE  IsSums(rows, S, Sums(rows, S))
<1> DEFINE Bad == {T \in SUBSET S : ~ \E g : IsSums(rows, T, g)}
<1>1. SUFFICES ASSUME Bad # {} PROVE FALSE
  BY DEF Sums
<1>2. PICK T \in Bad : \A t \in Bad : t \subseteq T => t = T
  <2> HIDE DEF Bad
  <2>1. Bad \subseteq SUBSET S
    BY DEF Bad
  <2> QED BY <1>1, <2>1, Smallest
<1>3. \A s \in SUBSET T : s # T => IsSums(rows, s, Sums(rows, s))
  BY <1>2 DEF Sums
<1> DEFINE x == First(T)
           g == [s \in SUBSET T |->
                   IF s # T THEN Total(rows, s)
                   ELSE IF T = {} THEN 0 ELSE rows[x].size + Total(rows, T \ {x})]
<1>4. ASSUME NEW s \in SUBSET T PROVE g[s] = Step(rows, g, s)
  <2>1. s # {} => First(s) \in s
    BY DEF First
  <2>2. CASE s = {}
    <3>1. s # T => Total(rows, s) = 0
      BY <1>3, <2>2, SumsUnfold DEF Total
    <3> QED BY <2>2, <3>1 DEF Step
  <2>3. CASE s # {}
    <3>1. s \ {First(s)} \in SUBSET T /\ s \ {First(s)} # T
      BY <2>1, <2>3
    <3>2. g[s \ {First(s)}] = Total(rows, s \ {First(s)})
      BY <3>1
    <3>3. g[s] = rows[First(s)].size + Total(rows, s \ {First(s)})
      <4>1. CASE s = T
        BY <2>3, <4>1
      <4>2. CASE s # T
        <5>1. IsSums(rows, s, Sums(rows, s)) /\ IsSums(rows, s \ {First(s)}, Sums(rows, s \ {First(s)}))
          BY <1>3, <3>1, <4>2
        <5>2. Sums(rows, s)[s] = rows[First(s)].size + Sums(rows, s)[s \ {First(s)}]
          BY <2>3, <5>1, SumsUnfold
        <5>3. IsFiniteSet(s)
          BY <1>2, FS_Subset
        <5>4. Sums(rows, s)[s \ {First(s)}] = Sums(rows, s \ {First(s)})[s \ {First(s)}]
          BY <5>1, <5>3, SumsAgree
        <5> QED BY <4>2, <5>2, <5>4 DEF Total
      <4> QED BY <4>1, <4>2
    <3> QED BY <2>3, <3>2, <3>3 DEF Step, First
  <2> QED BY <2>2, <2>3
<1>5. IsSums(rows, T, g)
  BY <1>4 DEF IsSums
<1> QED BY <1>2, <1>5

(* So the sum satisfies its equation.                                      *)
LEMMA TotalUnfold ==
  ASSUME NEW rows, NEW S, IsFiniteSet(S)
  PROVE  /\ S = {} => Total(rows, S) = 0
         /\ S # {} => First(S) \in S /\ Total(rows, S) = rows[First(S)].size + Total(rows, S \ {First(S)})
<1>1. IsSums(rows, S, Sums(rows, S))
  BY SumsExist
<1>2. IsSums(rows, S \ {First(S)}, Sums(rows, S \ {First(S)}))
  BY FS_Subset, SumsExist
<1>3. Sums(rows, S)[S \ {First(S)}] = Sums(rows, S \ {First(S)})[S \ {First(S)}]
  BY <1>1, <1>2, SumsAgree
<1> QED BY <1>1, <1>3, SumsUnfold DEF Total

(* The sizes of a set of rows are natural numbers.                         *)
Sized(rows, S) == \A f \in S : rows[f].size \in Nat

(* Then so is their sum, ...                                               *)
LEMMA TotalNat ==
  ASSUME NEW rows, NEW S, IsFiniteSet(S), Sized(rows, S)
  PROVE  Total(rows, S) \in Nat
<1> DEFINE Bad == {T \in SUBSET S : Total(rows, T) \notin Nat}
<1>1. SUFFICES ASSUME Bad # {} PROVE FALSE
  OBVIOUS
<1>2. PICK T \in Bad : \A t \in Bad : t \subseteq T => t = T
  <2>1. Bad \subseteq SUBSET S
    OBVIOUS
  <2> HIDE DEF Bad
  <2> QED BY <1>1, <2>1, Smallest
<1>3. IsFiniteSet(T)
  BY <1>2, FS_Subset
<1>4. T # {}
  <2>1. T = {} => Total(rows, T) = 0
    BY <1>3, TotalUnfold
  <2> QED BY <1>2, <2>1
<1>5. First(T) \in T /\ Total(rows, T) = rows[First(T)].size + Total(rows, T \ {First(T)})
  BY <1>3, <1>4, TotalUnfold
<1>6. Total(rows, T \ {First(T)}) \in Nat
  BY <1>2, <1>5
<1> QED BY <1>2, <1>5, <1>6 DEF Sized

(* ... which does not depend on the order, ...                             *)
LEMMA TotalRemove ==
  ASSUME NEW rows, NEW S, IsFiniteSet(S), Sized(rows, S), NEW f \in S
  PROVE  Total(rows, S) = rows[f].size + Total(rows, S \ {f})
<1> DEFINE Bad == {T \in SUBSET S : \E x \in T : Total(rows, T) # rows[x].size + Total(rows, T \ {x})}
<1>1. SUFFICES ASSUME Bad # {} PROVE FALSE
  OBVIOUS
<1>2. PICK T \in Bad : \A t \in Bad : t \subseteq T => t = T
  <2>1. Bad \subseteq SUBSET S
    OBVIOUS
  <2> HIDE DEF Bad
  <2> QED BY <1>1, <2>1, Smallest
<1>3. PICK x \in T : Total(rows, T) # rows[x].size + Total(rows, T \ {x})
  OBVIOUS
<1>4. \A U \in SUBSET T : IsFiniteSet(U) /\ Sized(rows, U)
  BY <1>2, FS_Subset DEF Sized
<1> DEFINE y == First(T)
<1>5. y \in T /\ Total(rows, T) = rows[y].size + Total(rows, T \ {y})
  BY <1>3, <1>4, TotalUnfold
<1> HIDE DEF y
<1>6. x # y /\ x \in T \ {y} /\ y \in T \ {x}
  BY <1>3, <1>5
<1>7. Total(rows, T \ {y}) = rows[x].size + Total(rows, (T \ {y}) \ {x})
  <2>1. T \ {y} \in SUBSET S /\ T \ {y} # T
    BY <1>2, <1>5
  <2> QED BY <1>2, <1>6, <2>1
<1>8. Total(rows, T \ {x}) = rows[y].size + Total(rows, (T \ {x}) \ {y})
  <2>1. T \ {x} \in SUBSET S /\ T \ {x} # T
    BY <1>2
  <2> QED BY <1>2, <1>6, <2>1
<1>9. (T \ {x}) \ {y} = (T \ {y}) \ {x}
  OBVIOUS
<1>10. rows[x].size \in Nat /\ rows[y].size \in Nat /\ Total(rows, (T \ {y}) \ {x}) \in Nat
  <2>1. (T \ {y}) \ {x} \in SUBSET T
    OBVIOUS
  <2>2. Total(rows, (T \ {y}) \ {x}) \in Nat
    BY <1>4, <2>1, TotalNat
  <2> QED BY <1>2, <1>3, <1>5, <2>2 DEF Sized
<1> DEFINE rest == Total(rows, (T \ {y}) \ {x})
<1>11. Total(rows, T) = rows[y].size + (rows[x].size + rest)
  BY <1>5, <1>7
<1>12. Total(rows, T \ {x}) = rows[y].size + rest
  BY <1>8, <1>9
<1>13. rows[y].size + (rows[x].size + rest) = rows[x].size + (rows[y].size + rest)
  BY <1>10
<1> HIDE DEF rest
<1> QED BY <1>3, <1>11, <1>12, <1>13

(* ... only on the sizes, ...                                              *)
LEMMA TotalSame ==
  ASSUME NEW rows, NEW others, NEW S, IsFiniteSet(S), \A f \in S : rows[f].size = others[f].size
  PROVE  Total(rows, S) = Total(others, S)
<1> DEFINE Bad == {T \in SUBSET S : Total(rows, T) # Total(others, T)}
<1>1. SUFFICES ASSUME Bad # {} PROVE FALSE
  OBVIOUS
<1>2. PICK T \in Bad : \A t \in Bad : t \subseteq T => t = T
  <2>1. Bad \subseteq SUBSET S
    OBVIOUS
  <2> HIDE DEF Bad
  <2> QED BY <1>1, <2>1, Smallest
<1>3. IsFiniteSet(T)
  BY <1>2, FS_Subset
<1>4. T # {}
  BY <1>2, <1>3, TotalUnfold
<1>5. /\ First(T) \in T
      /\ Total(rows, T) = rows[First(T)].size + Total(rows, T \ {First(T)})
      /\ Total(others, T) = others[First(T)].size + Total(others, T \ {First(T)})
  BY <1>3, <1>4, TotalUnfold
<1>6. Total(rows, T \ {First(T)}) = Total(others, T \ {First(T)})
  BY <1>2, <1>5
<1> QED BY <1>2, <1>5, <1>6

(* ... and is no larger for fewer rows.                                    *)
LEMMA TotalFewer ==
  ASSUME NEW rows, NEW S, IsFiniteSet(S), Sized(rows, S), NEW T \in SUBSET S
  PROVE  Total(rows, T) <= Total(rows, S)
<1> DEFINE Bad == {U \in SUBSET S : T \subseteq U /\ ~(Total(rows, T) <= Total(rows, U))}
<1>1. SUFFICES ASSUME Bad # {} PROVE FALSE
  OBVIOUS
<1>2. PICK U \in Bad : \A t \in Bad : t \subseteq U => t = U
  <2>1. Bad \subseteq SUBSET S
    OBVIOUS
  <2> HIDE DEF Bad
  <2> QED BY <1>1, <2>1, Smallest
<1>3. \A V \in SUBSET U : IsFiniteSet(V) /\ Sized(rows, V) /\ Total(rows, V) \in Nat
  <2> SUFFICES ASSUME NEW V \in SUBSET U PROVE IsFiniteSet(V) /\ Sized(rows, V) /\ Total(rows, V) \in Nat
    OBVIOUS
  <2>1. IsFiniteSet(V) /\ Sized(rows, V)
    BY <1>2, FS_Subset DEF Sized
  <2> QED BY <2>1, TotalNat
<1>4. T # U
  BY <1>2, <1>3
<1>5. PICK x \in U : x \notin T
  BY <1>2, <1>4
<1>6. Total(rows, U) = rows[x].size + Total(rows, U \ {x}) /\ rows[x].size \in Nat
  BY <1>3, TotalRemove DEF Sized
<1>7. Total(rows, T) <= Total(rows, U \ {x})
  BY <1>2, <1>5
<1> QED BY <1>2, <1>3, <1>6, <1>7


(* A table of uploads or of files.                                         *)
RowsAt(rows) == rows \in [File -> FileRow \cup {None}]

(* The rows of a room have sizes.                                          *)
LEMMA RowsSized ==
  ASSUME NEW rows, RowsAt(rows), NEW r
  PROVE  IsFiniteSet(In(rows, r)) /\ Sized(rows, In(rows, r))
<1>1. In(rows, r) \subseteq File
  BY DEF In
<1>2. \A f \in In(rows, r) : rows[f] \in FileRow
  BY DEF In, RowsAt
<1> QED BY <1>1, <1>2, FS_Subset DEF Sized, FileRow

(* The bytes of a room are a natural number, ...                           *)
LEMMA BytesNat ==
  ASSUME NEW rows, RowsAt(rows), NEW r
  PROVE  Bytes(rows, r) \in Nat
BY RowsSized, TotalNat, BytesIsTotal

(* ... no more of them if rows go, ...                                     *)
LEMMA BytesFewer ==
  ASSUME NEW rows, RowsAt(rows), NEW others, \A f \in File : others[f] \in {rows[f], None}, NEW r
  PROVE  Bytes(others, r) <= Bytes(rows, r)
<1>1. IsFiniteSet(In(rows, r)) /\ Sized(rows, In(rows, r))
  BY RowsSized
<1>2. In(others, r) \in SUBSET In(rows, r) /\ \A f \in In(others, r) : rows[f].size = others[f].size
  BY DEF In
<1>3. IsFiniteSet(In(others, r))
  BY <1>1, <1>2, FS_Subset
<1>4. Total(others, In(others, r)) = Total(rows, In(others, r))
  BY <1>2, <1>3, TotalSame
<1> QED BY <1>1, <1>2, <1>4, TotalFewer, BytesIsTotal

(* ... and more by its size if a row comes.                                *)
LEMMA BytesPut ==
  ASSUME NEW rows, RowsAt(rows), NEW u \in File, rows[u] = None, NEW row \in FileRow,
         NEW others, \A f \in File : others[f] = IF f = u THEN row ELSE rows[f], NEW r
  PROVE  Bytes(others, r) = Bytes(rows, r) + IF row.room = r THEN row.size ELSE 0
<1> DEFINE S == In(rows, r)
           T == In(others, r)
<1>1. IsFiniteSet(S) /\ u \notin S /\ Total(rows, S) \in Nat
  BY RowsSized, TotalNat DEF In
<1>2. Total(others, S) = Total(rows, S)
  BY <1>1, TotalSame DEF In
<1>3. CASE row.room # r
  <2>1. S = T
    BY <1>3 DEF In
  <2> QED BY <1>1, <1>2, <1>3, <2>1, BytesIsTotal
<1>4. CASE row.room = r
  <2>1. T = S \cup {u}
    BY <1>4, RowNotNone DEF In
  <2>2. IsFiniteSet(T)
    BY <1>1, <2>1, FS_AddElement
  <2>3. \A f \in T : others[f] \in FileRow
    BY DEF In, RowsAt
  <2>4. Sized(others, T)
    BY <2>3 DEF Sized, FileRow
  <2>5. Total(others, T) = others[u].size + Total(others, T \ {u})
    BY <2>1, <2>2, <2>4, TotalRemove
  <2>6. T \ {u} = S
    BY <1>1, <2>1
  <2>7. others[u] = row /\ row.size \in Nat
    BY DEF FileRow
  <2>8. Bytes(rows, r) = Total(rows, S) /\ Bytes(others, r) = Total(others, T)
    BY BytesIsTotal
  <2>9. Total(others, T) = row.size + Total(rows, S)
    BY <1>2, <2>5, <2>6, <2>7
  <2> HIDE DEF S, T
  <2> QED BY <1>1, <1>4, <2>7, <2>8, <2>9
<1> QED BY <1>3, <1>4

(* Bytes of the next state are those of its rows.                          *)
LEMMA BytesNext ==
  ASSUME NEW r
  PROVE  Bytes(files, r)' = Bytes(files', r) /\ Bytes(uploads, r)' = Bytes(uploads', r)
BY DEF Bytes, In, MapThenSumSet, MapThenFoldSet

(* A step that opens no session and creates no file.                       *)
LEMMA QuotaFewer ==
  ASSUME TypeOK, TypeOK', QuotaKept, Fewer
  PROVE  QuotaKept'
<1> SUFFICES ASSUME NEW r \in Room PROVE Bytes(files', r) + Bytes(uploads', r) <= MaxRoomBytes
  BY BytesNext DEF QuotaKept
<1>1. RowsAt(files) /\ RowsAt(uploads) /\ RowsAt(files') /\ RowsAt(uploads')
  BY DEF TypeOK, RowsOK, RowsAt
<1>2. Bytes(files', r) <= Bytes(files, r) /\ Bytes(uploads', r) <= Bytes(uploads, r)
  BY <1>1, BytesFewer DEF Fewer
<1>3. /\ Bytes(files, r) \in Nat /\ Bytes(uploads, r) \in Nat
      /\ Bytes(files', r) \in Nat /\ Bytes(uploads', r) \in Nat
  BY <1>1, BytesNat
<1> QED BY <1>2, <1>3 DEF QuotaKept

(* A session reserves its size, which becomes that of the file.            *)
LEMMA QuotaFile ==
  ASSUME WholeInv, QuotaKept, NEW u \in File, FileStep(u)
  PROVE  QuotaKept'
<1>1. TypeOK /\ TypeOK'
  BY FileTypeOK DEF WholeInv, IInv
<1>2. RowsAt(files) /\ RowsAt(uploads) /\ RowsAt(files') /\ RowsAt(uploads')
  BY <1>1 DEF TypeOK, RowsOK, RowsAt
<1>3. MaxRoomBytes \in Nat
  OBVIOUS
<1>4. ASSUME NEW r \in Room, NEW e \in EntryId, NEW i \in Index, NEW s \in Size, CreateUpload(u, r, e, i, s)
      PROVE  QuotaKept'
  <2> DEFINE row == [room |-> r, entry |-> e, index |-> i, size |-> s, grouped |-> entries[r][e] # None]
  <2>1. row \in FileRow /\ row.room = r /\ row.size = s /\ s \in Nat
    BY DEF FileRow
  <2>2. \A f \in File : uploads'[f] = IF f = u THEN row ELSE uploads[f]
    BY <1>2, <1>4 DEF CreateUpload, RowsAt
  <2> HIDE DEF row
  <2>3. files' = files /\ uploads[u] = None /\ Fits(r, s)
    BY <1>4 DEF CreateUpload, WholeInv, DrawnOnce
  <2>4. ASSUME NEW q \in Room PROVE Bytes(files', q) + Bytes(uploads', q) <= MaxRoomBytes
    <3>1. Bytes(uploads', q) = Bytes(uploads, q) + IF r = q THEN s ELSE 0
      BY <1>2, <2>1, <2>2, <2>3, BytesPut
    <3>2. Bytes(files, q) \in Nat /\ Bytes(uploads, q) \in Nat
      BY <1>2, BytesNat
    <3>3. Bytes(files, q) + Bytes(uploads, q) <= MaxRoomBytes
      BY DEF QuotaKept
    <3>4. r = q => s + Bytes(files, q) + Bytes(uploads, q) <= MaxRoomBytes
      BY <2>3 DEF Fits
    <3>5. Bytes(files', q) = Bytes(files, q)
      BY <2>3
    <3> QED BY <1>3, <2>1, <3>1, <3>2, <3>3, <3>4, <3>5
  <2> QED BY <2>4, BytesNext DEF QuotaKept
<1>5. CASE CompleteUpload(u)
  <2> DEFINE row == uploads[u]
  <2>1. row \in FileRow /\ files[u] = None /\ uploads'[u] = None
    BY <1>2, <1>5 DEF CompleteUpload, RowsAt, WholeInv, DrawnOnce
  <2>2. /\ \A f \in File : files'[f] = IF f = u THEN row ELSE files[f]
        /\ \A f \in File : uploads[f] = IF f = u THEN row ELSE uploads'[f]
    BY <1>2, <1>5 DEF CompleteUpload, RowsAt
  <2> HIDE DEF row
  <2>3. row.size \in Nat
    BY <2>1 DEF FileRow
  <2>4. ASSUME NEW q \in Room PROVE Bytes(files', q) + Bytes(uploads', q) <= MaxRoomBytes
    <3>1. Bytes(files', q) = Bytes(files, q) + IF row.room = q THEN row.size ELSE 0
      BY <1>2, <2>1, <2>2, BytesPut
    <3>2. Bytes(uploads, q) = Bytes(uploads', q) + IF row.room = q THEN row.size ELSE 0
      BY <1>2, <2>1, <2>2, BytesPut
    <3>3. Bytes(files, q) \in Nat /\ Bytes(uploads', q) \in Nat
      BY <1>2, BytesNat
    <3>4. Bytes(files, q) + Bytes(uploads, q) <= MaxRoomBytes
      BY DEF QuotaKept
    <3> QED BY <1>3, <2>3, <3>1, <3>2, <3>3, <3>4
  <2> QED BY <2>4, BytesNext DEF QuotaKept
<1>6. CASE AbortUpload(u) \/ DeleteFile(u)
  <2>1. Fewer
    BY <1>2, <1>6 DEF AbortUpload, DeleteFile, Fewer, RowsAt
  <2> QED BY <1>1, <2>1, QuotaFewer
<1> QED BY <1>4, <1>5, <1>6 DEF FileStep

(* The room a quota is kept for is never overdrawn: the files of a room    *)
(* and the sessions that may yet become files of it fit together, in every *)
(* order of uploads, completions and deletions.                            *)
THEOREM QuotaIsKept == Spec => []QuotaKept
<1>1. Init => QuotaKept
  <2> SUFFICES ASSUME Init, NEW r \in Room PROVE Bytes(files, r) + Bytes(uploads, r) <= MaxRoomBytes
    BY DEF QuotaKept
  <2>1. In(files, r) = {} /\ In(uploads, r) = {}
    BY DEF Init, In
  <2>2. Bytes(files, r) = 0 /\ Bytes(uploads, r) = 0
    BY <2>1, FS_EmptySet, TotalUnfold, BytesIsTotal
  <2>3. MaxRoomBytes \in Nat
    OBVIOUS
  <2> QED BY <2>2, <2>3
<1>2. WholeInv /\ QuotaKept /\ [Next]_vars => QuotaKept'
  <2> SUFFICES ASSUME WholeInv, QuotaKept, [Next]_vars PROVE QuotaKept'
    OBVIOUS
  <2>1. TypeOK /\ TypeOK'
    BY NextTypeOK DEF WholeInv, IInv
  <2>2. ASSUME NEW r \in Room, CreateRoom(r) \/ ClearRoom(r) \/ DropRoom(r) \/ ItemStep(r) PROVE Fewer
    BY <2>2 DEF CreateRoom, ClearRoom, DropRoom, EmptyRoom, Without, ItemStep, AddItem, DeleteItem, Fewer
  <2>3. ASSUME NEW r \in Room, EntryStep(r) PROVE Fewer
    BY <2>3 DEF EntryStep, CreateEntry, CommitEntry, PinEntry, DeleteEntry, Expire, Without, Fewer
  <2>4. ASSUME NEW u \in File, FileStep(u) PROVE QuotaKept'
    BY <2>4, QuotaFile
  <2>5. CASE UNCHANGED vars
    BY <2>1, <2>5, QuotaFewer DEF vars, Fewer
  <2> QED BY <2>1, <2>2, <2>3, <2>4, <2>5, QuotaFewer DEF Next
<1>3. Spec => [](WholeInv /\ QuotaKept)
  BY InitWhole, NextWhole, <1>1, <1>2, PTL DEF Spec
<1> QED BY <1>3, PTL
=============================================================================
