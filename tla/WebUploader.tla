----------------------------- MODULE WebUploader -----------------------------
(***************************************************************************)
(* The uploader of the web page (web/app.js) in front of the database of   *)
(* RoomStore.  To send files the page declares an entry, uploads every     *)
(* file and commits the entry.  A session that was not finished is kept in *)
(* localStorage under the file's name, size and time, and is taken up      *)
(* again when the same file is chosen later, perhaps with other contents.  *)
(* A row of the upload list has buttons to cancel the message and, when it *)
(* failed, to try the file again.                                          *)
(*                                                                         *)
(* A request, its execution and what the page does with the answer are one *)
(* step; a request under way is a row or a cancelled entry that waits for  *)
(* this step.  It may fail before it is executed, and its answer may be    *)
(* lost.  A click between an execution and its answer does what the same   *)
(* click does before the execution, for the DELETE that follows a cancel   *)
(* is a step of its own.  One page, one room, not encrypted; a file is a   *)
(* single chunk, the chunks being the subject of UploadLifecycle.          *)
(***************************************************************************)
EXTENDS Naturals, FiniteSets

CONSTANTS
  Doc,        \* files as localStorage tells them apart
  Version,    \* contents a file may have when it is chosen
  Message,    \* entry ids, drawn by the page
  Upload,     \* upload ids, drawn by the server; the last one is its quota
  None,
  MaxRows,    \* bound: rows in the upload list at a time
  MaxSends,   \* bound: times that files are chosen and sent
  MaxFaults   \* bound: calls and answers lost, reloads, rows that expire

VARIABLES
  entries, uploads, files, drawn,   \* tables of the server, see RoomStore
  payload,    \* per upload: the file it was created for and what the server received of it
  rows,       \* the upload list
  session,    \* localStorage: the unfinished upload of a file
  sending,    \* addItem: what it waits for, for which entry and rows
  deletes,    \* entries the page has asked to delete, not yet executed
  sent,       \* entry ids already drawn
  withdrawn,  \* history: cancelled and deleted entries nobody sends into
  sends, faults

tables == <<entries, uploads, files, drawn, payload>>
page == <<rows, session, sending>>
asked == <<deletes, sent, withdrawn, sends>>
vars == <<tables, page, asked, faults>>

TheRoom == "room"

Store == INSTANCE RoomStore WITH
  Room <- {TheRoom}, Id <- Message, File <- Upload, Size <- {1},
  Expected <- 1 .. MaxRows, MaxRooms <- 1, MaxItems <- Cardinality(Message \cup Upload) + 1,
  MaxRoomBytes <- Cardinality(Upload), MaxActive <- Cardinality(Upload),
  rooms <- {TheRoom}, items <- [i \in Message |-> None], trimmed <- {}

Slot == 1 .. MaxRows
Session == [upload : Upload, entry : Message, index : Store!Index]
Call == {"look", "drop", "create", "put", "complete", "commit"}
Settled == {"done", "stopped"}
Row == [doc : Doc, version : Version,
        at : Call \cup Settled \cup {"ready", "failed"},
        entry : Message \cup {None}, index : Store!Index, held : Session \cup {None},
        group : SUBSET Slot, cancelled : BOOLEAN, retrying : BOOLEAN, shown : BOOLEAN]
Payload == [doc : Doc, version : Version \cup {None}]

(* The server takes no index beyond 999.                                   *)
ASSUME UploaderAssumption ==
  /\ MaxRows \in 0 .. 1000 /\ {MaxSends, MaxFaults} \subseteq Nat
  /\ None \notin Doc \cup Version \cup Message \cup Upload
  /\ None \notin Row \cup Session \cup Payload \cup Store!EntryRow \cup Store!FileRow
  /\ Message \cap Upload = {} /\ IsFiniteSet(Upload)

TypeOK ==
  /\ entries \in [{TheRoom} -> [Message \cup Upload -> Store!EntryRow \cup {None}]]
  /\ {uploads, files} \subseteq [Upload -> Store!FileRow \cup {None}]
  /\ payload \in [Upload -> Payload \cup {None}]
  /\ rows \in [Slot -> Row \cup {None}]
  /\ session \in [Doc -> Session \cup {None}]
  /\ sending \in [at : {"idle", "declare", "upload"}, entry : Message \cup {None},
                  rows : SUBSET Slot]
  /\ drawn \subseteq Upload /\ deletes \subseteq sent /\ withdrawn \subseteq sent
  /\ sent \subseteq Message /\ sends \in 0 .. MaxSends /\ faults \in 0 .. MaxFaults

Idle == [at |-> "idle", entry |-> None, rows |-> {}]

Init ==
  /\ entries = [r \in {TheRoom} |-> [e \in Message \cup Upload |-> None]]
  /\ uploads = [u \in Upload |-> None] /\ files = [u \in Upload |-> None]
  /\ drawn = {} /\ payload = [u \in Upload |-> None]
  /\ rows = [k \in Slot |-> None] /\ session = [d \in Doc |-> None] /\ sending = Idle
  /\ deletes = {} /\ sent = {} /\ withdrawn = {} /\ sends = 0 /\ faults = 0

-----------------------------------------------------------------------------
(* runUpload: a request, and what the page does with its answer            *)

At(k, call) == rows[k] # None /\ rows[k].at = call
Mine(k) == rows[k].held.upload

(* A request or its answer is lost, or the server fails.                   *)
Breaks == faults < MaxFaults /\ faults' = faults + 1
Works == UNCHANGED faults
Fails(refused) == UNCHANGED tables /\ (IF refused THEN Works ELSE Breaks)

Goes(k, row) == rows' = [rows EXCEPT ![k] = row]

(* On to something that does not look at the session loaded before.        *)
Leaves(k, to) == Goes(k, [rows[k] EXCEPT !.at = to, !.held = None])

(* It returns, to addItem or to the retry button, which commits next.      *)
Returns(k, how) == Leaves(k, IF rows[k].retrying THEN "commit" ELSE how)

(* It throws, unless cancelled; the first throw ends addItem's wait.       *)
Throws(k) ==
  /\ IF rows[k].cancelled THEN Returns(k, "stopped") /\ UNCHANGED sending
     ELSE /\ Leaves(k, "failed")
          /\ sending' = IF sending.at = "upload" /\ k \in sending.rows THEN Idle ELSE sending
  /\ UNCHANGED session

(* Slip: a cancelled row goes on.                                          *)
ChunksSlip(k, s, received) ==
  Goes(k, [rows[k] EXCEPT !.held = s, !.entry = s.entry, !.index = s.index,
                          !.at = IF received THEN "complete" ELSE "put"])

(* The loop over the chunks still missing, none of which is begun for a    *)
(* cancelled row.                                                          *)
Chunks(k, s, received) ==
  LET row == [rows[k] EXCEPT !.held = s, !.entry = s.entry, !.index = s.index] IN
  IF received THEN Goes(k, [row EXCEPT !.at = "complete"])
  ELSE IF row.cancelled THEN Returns(k, "stopped")
  ELSE Goes(k, [row EXCEPT !.at = "put"])

Forgets(k) == session' = [session EXCEPT ![rows[k].doc] = None]
Afresh(k) == Leaves(k, "create") /\ Forgets(k)

(* Slip: the chunk that is there is taken for that of the file.            *)
VerifiedSlip(k) == TRUE

(* What the server received of a session is of the file chosen now.        *)
Verified(k) == payload[Mine(k)].version \in {None, rows[k].version}

(* A session that cannot be had, for whatever reason, is given up; a       *)
(* completed upload is not found any more.  So is a session whose chunk is *)
(* not that of the file chosen now.                                        *)
Look(k) ==
  LET u == Mine(k)  found == uploads[u] # None IN
  /\ At(k, "look")
  /\ \/ /\ found /\ Works /\ UNCHANGED <<tables, session>>
        /\ IF Verified(k) THEN Chunks(k, rows[k].held, payload[u].version # None)
           ELSE Goes(k, [rows[k] EXCEPT !.at = "drop"])
     \/ Fails(~found) /\ Afresh(k)
  /\ UNCHANGED <<sending, asked>>

Drop(k) ==
  LET u == Mine(k) IN
  /\ At(k, "drop") /\ Afresh(k)
  /\ \/ Store!AbortUpload(u) /\ UNCHANGED payload /\ Works
     \/ Fails(uploads[u] = None)
  /\ UNCHANGED <<sending, asked>>

Create(k) ==
  LET e == rows[k].entry  i == rows[k].index
      u == CHOOSE x \in Upload \ drawn : TRUE
      s == [upload |-> u, entry |-> e, index |-> i]
      admitted == drawn # Upload /\ Store!Admits(TheRoom, e, i) IN
  /\ At(k, "create")
  /\ \/ /\ admitted /\ Store!CreateUpload(u, TheRoom, e, i, 1)
        /\ payload' = [payload EXCEPT ![u] = [doc |-> rows[k].doc, version |-> None]]
        /\ \/ /\ Works /\ Chunks(k, s, FALSE) /\ UNCHANGED sending
              /\ session' = [session EXCEPT ![rows[k].doc] = s]
           \/ Breaks /\ Throws(k)
     \/ Fails(~admitted) /\ Throws(k)
  /\ UNCHANGED asked

(* A chunk that is there already is confirmed or refused by its digest.    *)
Put(k) ==
  LET u == Mine(k)  taken == uploads[u] # None /\ payload[u].version \in {None, rows[k].version} IN
  /\ At(k, "put")
  /\ \/ /\ taken /\ payload' = [payload EXCEPT ![u].version = rows[k].version]
        /\ UNCHANGED <<entries, uploads, files, drawn>>
        /\ \/ Works /\ Goes(k, [rows[k] EXCEPT !.at = "complete"]) /\ UNCHANGED <<sending, session>>
           \/ Breaks /\ Throws(k)
     \/ Fails(~taken) /\ Throws(k)
  /\ UNCHANGED asked

(* A repeated completion is answered like the first one.                   *)
Complete(k) ==
  LET u == Mine(k)  ready == uploads[u] # None /\ payload[u].version # None IN
  /\ At(k, "complete")
  /\ \/ /\ \/ ready /\ Store!CompleteUpload(u) /\ UNCHANGED payload
           \/ files[u] # None /\ UNCHANGED tables
        /\ \/ Works /\ Returns(k, "done") /\ Forgets(k) /\ UNCHANGED sending
           \/ Breaks /\ Throws(k)
     \/ Fails(~ready /\ files[u] = None) /\ Throws(k)
  /\ UNCHANGED asked

Published(e) == entries[TheRoom][e] # None /\ entries[TheRoom][e].published

Committable(e) ==
  LET row == entries[TheRoom][e] IN
  /\ row # None
  /\ row.published \/ /\ Cardinality(Store!Of(files, TheRoom, e)) = row.expected
                      /\ Store!Of(uploads, TheRoom, e) = {}

(* The commit of a published entry changes nothing and succeeds.           *)
Commit(e) ==
  \/ Published(e) /\ UNCHANGED tables
  \/ Store!CommitEntry(TheRoom, e) /\ UNCHANGED payload

(* After a retry.  A refusal is ignored, another error is shown beside the *)
(* list; the row is through either way.                                    *)
CommitAgain(k) ==
  /\ At(k, "commit") /\ Leaves(k, "done")
  /\ \/ Commit(rows[k].entry) /\ (Works \/ Breaks)
     \/ Fails(~Committable(rows[k].entry))
  /\ UNCHANGED <<sending, session, asked>>

-----------------------------------------------------------------------------
(* addItem                                                                 *)

(* The rows of a message that is through disappear by and by.              *)
Through(k) ==
  /\ rows[k] # None /\ k \notin sending.rows
  /\ rows[k].at \in Settled /\ \A j \in rows[k].group : rows[j].at \in Settled

Left == [k \in Slot |-> IF Through(k) THEN None ELSE rows[k]]
Free == {k \in Slot : Left[k] = None}

Chosen(d, v) ==
  [doc |-> d, version |-> v, at |-> "ready", entry |-> None, index |-> 0, held |-> None,
   group |-> {}, cancelled |-> FALSE, retrying |-> FALSE, shown |-> TRUE]

(* runUpload up to its first request.                                      *)
Begun(row, e, i, g, again) ==
  LET held == session[row.doc] IN
  [row EXCEPT !.at = IF held # None THEN "look" ELSE "create",
     !.entry = e, !.index = i, !.held = held, !.group = g, !.cancelled = FALSE, !.retrying = again]

(* The entries that unfinished uploads of these files are for.             *)
Resumed(docs) == {session[d].entry : d \in {x \in docs : session[x] # None}}

DocsOf(choice) == {choice[k].doc : k \in DOMAIN choice}

(* All uploads of the message are begun, in the order of the files.        *)
BeginUploads(choice, e) ==
  LET S == DOMAIN choice IN
  /\ rows' = [k \in Slot |->
       IF k \in S THEN Begun(choice[k], e, Cardinality({j \in S : j < k}), S, FALSE) ELSE Left[k]]
  /\ sending' = [at |-> "upload", entry |-> e, rows |-> S]
  /\ withdrawn' = withdrawn \ (Resumed(DocsOf(choice)) \cup {e})

(* An entry is drawn for the files; they wait until it is declared.        *)
NewMessage(choice) ==
  LET e == CHOOSE x \in Message \ sent : TRUE  S == DOMAIN choice IN
  /\ sent # Message /\ sent' = sent \cup {e}
  /\ sending' = [at |-> "declare", entry |-> e, rows |-> S]
  /\ rows' = [k \in Slot |-> IF k \in S THEN choice[k] ELSE Left[k]]
  /\ UNCHANGED withdrawn

(* Files are chosen and sent.  Those of two unfinished messages are not    *)
(* sent; one message is taken up again; otherwise an entry is declared.    *)
AddItem ==
  /\ sending.at = "idle" /\ sends < MaxSends /\ sends' = sends + 1
  /\ \E S \in (SUBSET Free) \ {{}} : \E choice \in [S -> {Chosen(d, v) : d \in Doc, v \in Version}] :
       LET resumed == Resumed(DocsOf(choice)) IN
       \/ resumed = {} /\ NewMessage(choice)
       \/ \E e \in resumed : resumed = {e} /\ BeginUploads(choice, e) /\ UNCHANGED sent
  /\ UNCHANGED <<tables, session, deletes, faults>>

(* Rows cancelled meanwhile are still among those that are sent.  When the *)
(* entry is not known to be there, the files wait to be sent once more,    *)
(* which is another choice of the same ones.                               *)
Declare ==
  /\ sending.at = "declare"
  /\ \/ /\ Store!CreateEntry(TheRoom, sending.entry, Cardinality(sending.rows), FALSE, TRUE)
        /\ UNCHANGED payload /\ Works
        /\ BeginUploads([k \in sending.rows |-> rows[k]], sending.entry)
     \/ /\ \/ Store!CreateEntry(TheRoom, sending.entry, Cardinality(sending.rows), FALSE, TRUE)
              /\ UNCHANGED payload /\ Breaks
           \/ Fails(FALSE)
        /\ sending' = Idle
        /\ rows' = [k \in Slot |-> IF k \in sending.rows THEN None ELSE rows[k]]
        /\ UNCHANGED withdrawn
  /\ UNCHANGED <<session, deletes, sent, sends>>

(* Promise.all: no upload was rejected.                                    *)
AllUploaded == sending.at = "upload" /\ \A k \in sending.rows : rows[k].at \in Settled

CommitSent ==
  /\ AllUploaded /\ Commit(sending.entry) /\ Works
  /\ sending' = Idle
  /\ UNCHANGED <<rows, session, asked>>

CommitFails ==
  /\ AllUploaded
  /\ \/ Commit(sending.entry) /\ Breaks
     \/ Fails(~Committable(sending.entry))
  /\ sending' = Idle
  /\ UNCHANGED <<rows, session, asked>>

-----------------------------------------------------------------------------
(* Buttons, and the end of the page                                        *)

Retry(k) ==
  /\ At(k, "failed") /\ rows[k].shown
  /\ rows' = [rows EXCEPT ![k] = Begun(rows[k], rows[k].entry, rows[k].index, rows[k].group, TRUE)]
  /\ withdrawn' = withdrawn \ (Resumed({rows[k].doc}) \cup {rows[k].entry})
  /\ UNCHANGED <<tables, session, sending, deletes, sent, sends, faults>>

Started(k) == rows[k].group # {}
Group(k) == IF Started(k) THEN rows[k].group ELSE {k}

(* A PUT under way is aborted; other requests and the loop go on.          *)
CancelledRow(k) ==
  LET row == [rows[k] EXCEPT !.cancelled = TRUE, !.shown = FALSE] IN
  IF row.at = "put"
  THEN [row EXCEPT !.at = IF row.retrying THEN "commit" ELSE "stopped", !.held = None]
  ELSE IF row.at = "failed" THEN [row EXCEPT !.at = "stopped"]
  ELSE row

(* The whole message of the row goes.                                      *)
Cancel(k) ==
  /\ rows[k] # None /\ rows[k].shown
  /\ rows' = [j \in Slot |-> IF j \in Group(k) THEN CancelledRow(j) ELSE rows[j]]
  /\ session' = [d \in Doc |-> IF \E j \in Group(k) : rows[j].doc = d THEN None ELSE session[d]]
  /\ deletes' = IF Started(k) THEN deletes \cup {rows[k].entry} ELSE deletes
  /\ UNCHANGED <<tables, sending, sent, withdrawn, sends, faults>>

SentInto(e) ==
  \E k \in Slot :
    rows[k] # None /\ rows[k].entry = e /\ ~rows[k].cancelled /\ rows[k].at \notin Settled

HasRows(e) ==
  entries[TheRoom][e] # None \/ Store!Of(files, TheRoom, e) \cup Store!Of(uploads, TheRoom, e) # {}

(* The request of a cancel button; nobody is told when it fails.           *)
DeleteEntry(e) ==
  /\ e \in deletes /\ deletes' = deletes \ {e}
  /\ \/ /\ IF HasRows(e) THEN Store!DeleteEntry(TheRoom, e) /\ UNCHANGED payload ELSE UNCHANGED tables
        /\ withdrawn' = IF SentInto(e) THEN withdrawn ELSE withdrawn \cup {e}
        /\ Works
     \/ Fails(FALSE) /\ UNCHANGED withdrawn
  /\ UNCHANGED <<page, sent, sends>>

(* A deadline passes and the cleanup pass comes by.                        *)
Expires ==
  /\ Breaks
  /\ \/ \E u \in Upload : Store!AbortUpload(u)
     \/ \E e \in Message : entries[TheRoom][e] # None /\ Store!DeleteEntry(TheRoom, e)
  /\ UNCHANGED <<payload, page, asked>>

Reload ==
  /\ Breaks /\ rows' = [k \in Slot |-> None] /\ sending' = Idle
  /\ UNCHANGED <<tables, session, asked>>

Request(k) == Look(k) \/ Drop(k) \/ Create(k) \/ Put(k) \/ Complete(k) \/ CommitAgain(k)

Next ==
  \/ \E k \in Slot : Request(k) \/ Retry(k) \/ Cancel(k)
  \/ \E e \in Message : DeleteEntry(e)
  \/ AddItem \/ Declare \/ CommitSent \/ CommitFails
  \/ Expires \/ Reload

Spec == Init /\ [][Next]_vars

-----------------------------------------------------------------------------
(* Properties                                                              *)

(* When addItem is told that its message is committed, the message is      *)
(* there, with every file it uploaded and with the contents chosen now,    *)
(* whatever an earlier attempt left behind.                                *)
SentIsPublished ==
  [][\A e \in Message : CommitSent /\ sending.entry = e =>
       /\ Published(e)'
       /\ \A k \in sending.rows : LET d == rows[k].doc  v == rows[k].version IN
            rows[k].at = "done" =>
              \E u \in Upload :
                files'[u] # None /\ files'[u].entry = e /\ payload'[u] = [doc |-> d, version |-> v]
    ]_vars

(* Once the server has deleted a cancelled message, what is still under    *)
(* way for it shows nothing to anybody, although a file for an entry the   *)
(* server does not know is visible as soon as it is complete.              *)
CancelledStaysHidden ==
  \A e \in withdrawn : Store!Visible(TheRoom, e) => Store!Of(files, TheRoom, e) = {}
=============================================================================
