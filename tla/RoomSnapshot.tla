----------------------------- MODULE RoomSnapshot -----------------------------
(***************************************************************************)
(* What a reader of a room is shown.  getRoom asks the database four times *)
(* and not in one transaction: for the room, for its texts, for its files  *)
(* and for its entries.  Transactions of RoomStore take place in between,  *)
(* so that an answer may show a group in parts.  The client groups what it *)
(* gets by entry id; from the row of the entry it knows, among others,     *)
(* that a file is to be deleted after its download.                        *)
(***************************************************************************)
EXTENDS RoomStore

CONSTANT Shown  \* the room that is read

ASSUME ShownAssumption == Shown \in Room

VARIABLES
  step,        \* the query that comes next, "answered" after the last one
  seenItems, seenFiles, seenEntries,
  touched      \* history: entries that lost something while they were read

reader == <<step, seenItems, seenFiles, seenEntries, touched>>
allVars == <<vars, reader>>

SnapshotOK ==
  /\ TypeOK
  /\ step \in {"idle", "items", "files", "entries", "answered"}
  /\ seenItems \subseteq Id /\ seenFiles \subseteq File
  /\ seenEntries \subseteq EntryId /\ touched \subseteq EntryId
  /\ seenItems # {} => step \in {"files", "entries", "answered"}
  /\ seenEntries # {} => step = "answered"

SnapshotInit ==
  /\ Init
  /\ step = "idle"
  /\ seenItems = {} /\ seenFiles = {} /\ seenEntries = {} /\ touched = {}

-----------------------------------------------------------------------------
(* The four queries of getRoom                                             *)
GetRoom ==
  /\ step \in {"idle", "answered"} /\ Shown \in rooms
  /\ step' = "items"
  /\ seenItems' = {} /\ seenFiles' = {} /\ seenEntries' = {} /\ touched' = {}
  /\ UNCHANGED vars

ListItems ==
  /\ step = "items" /\ Shown \in rooms
  /\ step' = "files"
  /\ seenItems' = {i \in ItemsIn(Shown) : Visible(Shown, i)}
  /\ UNCHANGED <<vars, seenFiles, seenEntries, touched>>

(* Slip: a draft is taken for a legacy entry.                              *)
ListFilesSlip ==
  /\ step = "files" /\ Shown \in rooms
  /\ step' = "entries"
  /\ seenFiles' = In(files, Shown)
  /\ UNCHANGED <<vars, seenItems, seenEntries, touched>>

ListFiles ==
  /\ step = "files" /\ Shown \in rooms
  /\ step' = "entries"
  /\ seenFiles' = {f \in In(files, Shown) : Visible(Shown, files[f].entry)}
  /\ UNCHANGED <<vars, seenItems, seenEntries, touched>>

ListEntries ==
  /\ step = "entries" /\ Shown \in rooms
  /\ step' = "answered"
  /\ seenEntries' = {e \in EntryId : entries[Shown][e] # None /\ Visible(Shown, e)}
  /\ UNCHANGED <<vars, seenItems, seenFiles, touched>>

(* Each query looks for the room first; the request ends with 404.         *)
NotFound ==
  /\ step \in {"items", "files", "entries"} /\ Shown \notin rooms
  /\ step' = "idle"
  /\ seenItems' = {} /\ seenFiles' = {} /\ seenEntries' = {} /\ touched' = {}
  /\ UNCHANGED vars

-----------------------------------------------------------------------------
(* A transaction of the store takes something away from an entry.          *)
Loses(e) ==
  \/ entries[Shown][e] # None /\ entries'[Shown][e] = None
  \/ \E i \in Id : i = e /\ items[i] = Shown /\ items'[i] # Shown
  \/ \E f \in Of(files, Shown, e) : files'[f] = None

Transaction ==
  /\ Next
  /\ touched' = IF step = "idle" THEN {} ELSE touched \cup {e \in EntryId : Loses(e)}
  /\ UNCHANGED <<step, seenItems, seenFiles, seenEntries>>

Query == GetRoom \/ ListItems \/ ListFiles \/ ListEntries \/ NotFound

SnapshotNext == Transaction \/ Query

SnapshotSpec == SnapshotInit /\ [][SnapshotNext]_allVars

-----------------------------------------------------------------------------
(* Properties                                                              *)

(* An entry that was declared, committed and lost nothing meanwhile.       *)
Undisturbed(e) ==
  /\ Committed(Shown, e) /\ ~entries[Shown][e].due
  /\ entries[Shown][e].fresh
  /\ <<Shown, e>> \notin trimmed /\ e \notin touched

SeenOf(e) == {f \in seenFiles : files[f] # None /\ files[f].entry = e}
SeenWhole(e) == Cardinality(SeenOf(e)) = entries[Shown][e].expected

(* Whatever is committed between the queries, a text is shown with all of  *)
(* its files and files are shown with the row of their entry: what hangs   *)
(* on the row, download-once above all, is known wherever a file is.       *)
ShownInOrder ==
  step = "answered" => \A e \in Id : Undisturbed(e) =>
    /\ e \in seenItems => SeenWhole(e) /\ e \in seenEntries
    /\ SeenOf(e) # {} => SeenWhole(e) /\ e \in seenEntries
=============================================================================
