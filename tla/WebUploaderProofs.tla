--------------------------- MODULE WebUploaderProofs ---------------------------
(***************************************************************************)
(* The page that sends files, for any number of files, messages, uploads,  *)
(* rows of its list, sends and failures: what it reports as sent is there, *)
(* what was cancelled stays away.                                          *)
(*                                                                         *)
(* The invariant follows an upload from the row of the page over the       *)
(* session that is kept for it to the tables.  A row may go on with an     *)
(* unfinished upload of another message; it then leaves a gap in its own   *)
(* (StraysLeaveGaps), and a message with a gap is never committed.         *)
(***************************************************************************)
EXTENDS WebUploader, FiniteSetTheorems, TLAPS

(* The row of an upload in the tables, session or file.                    *)
RowOf(u) == IF files[u] # None THEN files[u] ELSE uploads[u]
Gone(u) == uploads[u] = None /\ files[u] = None

(* The tables know ids that were drawn.                                    *)
TablesKnown ==
  /\ \A u \in Upload : (~Gone(u) \/ payload[u] # None) => u \in drawn
  /\ \A u \in drawn : payload[u] # None
  /\ \A u \in Upload : uploads[u] = None \/ files[u] = None
  /\ \A u \in Upload : ~Gone(u) => RowOf(u).entry \in sent
  /\ \A e \in Message : entries[TheRoom][e] # None => e \in sent

(* No index of a message is used twice, none is beyond its number of files. *)
Placed ==
  \A u \in Upload : ~Gone(u) /\ entries[TheRoom][RowOf(u).entry] # None =>
    /\ RowOf(u).index < entries[TheRoom][RowOf(u).entry].expected
    /\ \A w \in Upload :
         ~Gone(w) /\ RowOf(w).entry = RowOf(u).entry /\ RowOf(w).index = RowOf(u).index => u = w

(* An unfinished upload that the page remembers is one of the same file.   *)
Recalls(s, d) ==
  /\ s.upload \in drawn /\ s.entry \in sent
  /\ payload[s.upload].doc = d
  /\ ~Gone(s.upload) => RowOf(s.upload).entry = s.entry /\ RowOf(s.upload).index = s.index

SessionsKnown ==
  /\ \A d \in Doc : session[d] # None => Recalls(session[d], d)
  /\ \A k \in Slot : rows[k] # None /\ rows[k].held # None => Recalls(rows[k].held, rows[k].doc)

(* A row that sends knows into which message; one that has sent all, sent  *)
(* the contents chosen.                                                    *)
RowsKnown ==
  \A k \in Slot : rows[k] # None =>
    LET row == rows[k] IN
    /\ row.at = "ready" => row.entry = None /\ row.group = {} /\ row.held = None
    /\ row.at # "ready" => row.entry # None
    /\ row.entry # None => row.entry \in sent
    /\ row.at \in {"look", "drop", "put", "complete"} => row.held # None
    /\ row.at \in {"put", "complete"} => row.entry = row.held.entry
    /\ row.at = "put" => ~row.cancelled
    /\ row.at = "complete" /\ ~Gone(row.held.upload) => payload[row.held.upload].version = row.version

(* The rows of a message know each other.                                  *)
Groups ==
  \A k \in Slot : rows[k] # None =>
    /\ rows[k].group # {} => k \in rows[k].group
    /\ \A j \in rows[k].group : rows[j] # None /\ rows[j].group = rows[k].group

(* What is still under way for a withdrawn message is cancelled, or of an  *)
(* upload that went with the message; what is new never has contents.      *)
NothingComes ==
  /\ \A u \in Upload : files[u] # None => files[u].entry \notin withdrawn
  /\ \A u \in Upload : uploads[u] # None /\ uploads[u].entry \in withdrawn => payload[u].version = None
  /\ \A k \in Slot : rows[k] # None =>
       LET row == rows[k] IN
       /\ row.at \notin Settled /\ ~row.cancelled => row.entry \notin withdrawn
       /\ (row.at = "complete" \/ (row.at = "look" /\ ~row.cancelled)) /\ row.held.entry \in withdrawn =>
            Gone(row.held.upload)

(* Nothing is known of a message that is about to be declared.             *)
Unheard(e) ==
  /\ entries[TheRoom][e] = None
  /\ \A u \in Upload : ~Gone(u) => RowOf(u).entry # e
  /\ \A d \in Doc : session[d] # None => session[d].entry # e
  /\ \A k \in Slot : rows[k] # None =>
       rows[k].entry # e /\ (rows[k].held # None => rows[k].held.entry # e)

Sending ==
  /\ sending.at = "idle" => sending.rows = {}
  /\ sending.at # "idle" => sending.entry \in sent
  /\ sending.at = "declare" =>
       Unheard(sending.entry) /\ \A k \in sending.rows : rows[k] # None /\ rows[k].at = "ready"
  /\ sending.at = "upload" => \A k \in sending.rows :
       /\ rows[k] # None /\ ~rows[k].retrying /\ rows[k].entry # None
       /\ rows[k].at \in Settled \cup {"look", "drop", "create", "put", "complete"}

(* A row that is done has its file, or its message is gone for good.       *)
Delivered(k) ==
  \/ entries[TheRoom][rows[k].entry] = None
  \/ \E u \in Upload :
       /\ files[u] # None /\ files[u].entry = rows[k].entry
       /\ payload[u] = [doc |-> rows[k].doc, version |-> rows[k].version]

DoneIsThere ==
  sending.at = "upload" => \A k \in sending.rows : rows[k].at = "done" => Delivered(k)

(* A row that goes, or may go, on with an unfinished upload of another     *)
(* message leaves its place in this one to nobody.                         *)
Place(k) == Cardinality({j \in sending.rows : j < k})

Vacant(e, i) ==
  /\ \A u \in Upload : ~Gone(u) /\ RowOf(u).entry = e => RowOf(u).index # i
  /\ \A d \in Doc : session[d] # None /\ session[d].entry = e => session[d].index # i
  /\ \A j \in Slot : rows[j] # None /\ rows[j].held # None /\ rows[j].held.entry = e =>
       rows[j].held.index # i

Strays(k) ==
  rows[k].entry # sending.entry \/ (rows[k].at = "look" /\ rows[k].held.entry # sending.entry)

StraysLeaveGaps ==
  sending.at = "upload" => \A k \in sending.rows : Strays(k) =>
    LET e == sending.entry IN
    /\ Vacant(e, Place(k))
    /\ \A j \in Slot \ {k} : rows[j] # None /\ rows[j].entry = e => rows[j].index # Place(k)
    /\ entries[TheRoom][e] # None =>
         ~entries[TheRoom][e].published /\ entries[TheRoom][e].expected = Cardinality(sending.rows)

IInv ==
  /\ TypeOK /\ TablesKnown /\ Placed /\ SessionsKnown /\ RowsKnown /\ Groups
  /\ NothingComes /\ Sending /\ DoneIsThere /\ StraysLeaveGaps

-----------------------------------------------------------------------------
(* What the transactions of the server do to the tables.                   *)
LEMMA Creates ==
  ASSUME NEW u \in Upload, NEW e \in Message, NEW i, Store!CreateUpload(u, TheRoom, e, i, 1)
  PROVE  /\ u \notin drawn /\ drawn' = drawn \cup {u}
         /\ uploads' = [uploads EXCEPT ![u] = [room |-> TheRoom, entry |-> e, index |-> i,
                          size |-> 1, grouped |-> entries[TheRoom][e] # None]]
         /\ entries' = entries /\ files' = files
BY DEF Store!CreateUpload

(* An admitted file gets a free index of an entry that is still a draft.   *)
LEMMA Admitted ==
  ASSUME TypeOK, NEW e \in Message, NEW i, Store!Admits(TheRoom, e, i), entries[TheRoom][e] # None
  PROVE  /\ ~entries[TheRoom][e].published /\ i < entries[TheRoom][e].expected
         /\ \A u \in Upload : ~Gone(u) /\ RowOf(u).entry = e => RowOf(u).index # i
BY DEF TypeOK, Store!Admits, Store!Of, Store!In, Store!FileRow, Gone, RowOf, TheRoom

(* A completed session is the same row, as a file.                         *)
LEMMA Completes ==
  ASSUME NEW u \in Upload, Store!CompleteUpload(u)
  PROVE  /\ uploads[u] # None /\ files' = [files EXCEPT ![u] = uploads[u]]
         /\ uploads' = [uploads EXCEPT ![u] = None] /\ entries' = entries /\ drawn' = drawn
BY DEF Store!CompleteUpload

(* An aborted session is gone.                                             *)
LEMMA Aborts ==
  ASSUME NEW u \in Upload, Store!AbortUpload(u)
  PROVE  /\ uploads' = [uploads EXCEPT ![u] = None]
         /\ files' = files /\ entries' = entries /\ drawn' = drawn
BY DEF Store!AbortUpload

(* An entry is deleted with its sessions and files.                        *)
LEMMA Deletes ==
  ASSUME TypeOK, NEW e \in Message, Store!DeleteEntry(TheRoom, e)
  PROVE  /\ entries' = [entries EXCEPT ![TheRoom][e] = None] /\ drawn' = drawn
         /\ files' = [u \in Upload |-> IF files[u] # None /\ files[u].entry = e THEN None ELSE files[u]]
         /\ uploads' = [u \in Upload |->
              IF uploads[u] # None /\ uploads[u].entry = e THEN None ELSE uploads[u]]
BY DEF TypeOK, Store!DeleteEntry, Store!Without, Store!Of, Store!In, Store!FileRow, TheRoom

(* A new entry is a draft with the number of files declared.               *)
LEMMA Declares ==
  ASSUME NEW e \in Message, NEW n, Store!CreateEntry(TheRoom, e, n, FALSE, TRUE)
  PROVE  /\ \E fresh \in BOOLEAN : entries' = [entries EXCEPT ![TheRoom][e] =
              [expected |-> n, published |-> FALSE, expires |-> TRUE, due |-> FALSE,
               declared |-> TRUE, fresh |-> fresh]]
         /\ uploads' = uploads /\ files' = files /\ drawn' = drawn
BY DEF Store!CreateEntry

(* An entry is published when it has as many files as declared.            *)
LEMMA Commits ==
  ASSUME NEW e \in Message, Store!CommitEntry(TheRoom, e)
  PROVE  /\ entries[TheRoom][e] # None /\ ~entries[TheRoom][e].published
         /\ Cardinality(Store!Of(files, TheRoom, e)) = entries[TheRoom][e].expected
         /\ entries' = [entries EXCEPT ![TheRoom][e].published = TRUE]
         /\ uploads' = uploads /\ files' = files /\ drawn' = drawn
<1>. USE DEF Store!CommitEntry
<1>1. entries[TheRoom][e] # None
  OBVIOUS
<1>2. ~entries[TheRoom][e].published
  OBVIOUS
<1>3. Cardinality(Store!Of(files, TheRoom, e)) = entries[TheRoom][e].expected
  BY DEF Store!Cardinality, Cardinality
<1>4. entries' = [entries EXCEPT ![TheRoom][e].published = TRUE]
  OBVIOUS
<1>5. uploads' = uploads /\ files' = files /\ drawn' = drawn
  OBVIOUS
<1>. QED BY <1>1, <1>2, <1>3, <1>4, <1>5

-----------------------------------------------------------------------------
(* The list is finite.                                                     *)
LEMMA Slots == IsFiniteSet(Slot) /\ Slot \subseteq Nat
<1>1. 1 \in Int /\ MaxRows \in Int
  BY UploaderAssumption
<1>2. IsFiniteSet(1 .. MaxRows)
  BY <1>1, FS_Interval
<1>. QED BY <1>2 DEF Slot

(* A gap in a message is not filled by counting: with one index of n left  *)
(* out there are less than n files.                                        *)
LEMMA Positions ==
  ASSUME NEW S \in SUBSET Slot, NEW k \in S
  PROVE  LET pos == Cardinality({j \in S : j < k}) IN
         /\ pos \in Nat /\ pos < Cardinality(S)
         /\ \A l \in S : l # k => Cardinality({j \in S : j < l}) # pos
<1>. DEFINE Before(l) == {j \in S : j < l}
<1>1. IsFiniteSet(S) /\ S \subseteq Nat
  BY Slots, FS_Subset
<1>2. ASSUME NEW l \in S PROVE IsFiniteSet(Before(l)) /\ Cardinality(Before(l)) \in Nat
  BY <1>1, FS_Subset, FS_CardinalityType
<1>3. ASSUME NEW l \in S, NEW m \in S, l < m
      PROVE  Cardinality(Before(l)) < Cardinality(Before(m))
  <2>1. \A j \in S : j < l => j < m
    BY <1>1, <1>3
  <2>2. Before(l) \subseteq Before(m) /\ l \in Before(m)
    BY <1>3, <2>1
  <2>3. l \notin Before(l)
    BY <1>1
  <2>4. Before(l) # Before(m)
    BY <2>2, <2>3
  <2>. HIDE DEF Before
  <2>. QED BY <1>2, <2>2, <2>4, FS_Subset
<1>4. Cardinality(Before(k)) < Cardinality(S)
  <2>1. Before(k) \subseteq S /\ Before(k) # S
    BY <1>1
  <2>. HIDE DEF Before
  <2>. QED BY <1>1, <1>2, <2>1, FS_Subset, FS_CardinalityType
<1>5. ASSUME NEW l \in S, l # k PROVE Cardinality(Before(l)) # Cardinality(Before(k))
  <2>1. l < k \/ k < l
    BY <1>1, <1>5
  <2>. QED BY <1>2, <1>3, <2>1
<1>. QED BY <1>2, <1>4, <1>5

(* Distinct indexes below n that leave one out are less than n.            *)
LEMMA GapsCount ==
  ASSUME NEW n \in Nat, NEW i \in Nat, i < n, NEW T, NEW index \in [T -> Nat],
         \A f \in T : index[f] < n /\ index[f] # i,
         \A f, g \in T : index[f] = index[g] => f = g
  PROVE  Cardinality(T) # n
<1>. DEFINE Others == (0 .. n - 1) \ {i}
<1>1. IsFiniteSet(Others) /\ Cardinality(Others) = n - 1
  <2>1. IsFiniteSet(0 .. n - 1) /\ Cardinality(0 .. n - 1) = n
    <3>1. 0 \in Int /\ n - 1 \in Int
      OBVIOUS
    <3>. QED BY <3>1, FS_Interval
  <2>2. i \in 0 .. n - 1
    OBVIOUS
  <2>. QED BY <2>1, <2>2, FS_RemoveElement
<1>2. index \in Injection(T, Others)
  <2>1. \A f \in T : index[f] \in Others
    OBVIOUS
  <2>2. index \in [T -> Others]
    BY <2>1
  <2>3. \A f, g \in T : index[f] = index[g] => f = g
    OBVIOUS
  <2>. QED BY <2>2, <2>3, Zenon DEF Injection, IsInjective
<1>. HIDE DEF Others
<1>3. IsFiniteSet(T) /\ Cardinality(T) <= Cardinality(Others)
  BY <1>1, <1>2, FS_Injection
<1>. QED BY <1>1, <1>3, FS_CardinalityType

(* The message of a row that strays cannot be committed.                   *)
LEMMA GapsOpen ==
  ASSUME IInv, sending.at = "upload", NEW k \in sending.rows, Strays(k),
         entries[TheRoom][sending.entry] # None
  PROVE  /\ ~entries[TheRoom][sending.entry].published
         /\ Cardinality(Store!Of(files, TheRoom, sending.entry)) # entries[TheRoom][sending.entry].expected
<1>. DEFINE e == sending.entry
            n == Cardinality(sending.rows)
            T == Store!Of(files, TheRoom, e)
            index == [f \in T |-> files[f].index]
<1>1. /\ ~entries[TheRoom][e].published /\ entries[TheRoom][e].expected = n
      /\ Vacant(e, Place(k))
  BY DEF IInv, StraysLeaveGaps
<1>2. Place(k) \in Nat /\ Place(k) < n /\ n \in Nat
  <2>1. sending.rows \in SUBSET Slot
    BY DEF IInv, TypeOK
  <2>2. IsFiniteSet(sending.rows)
    BY <2>1, Slots, FS_Subset
  <2>. QED BY <2>1, <2>2, Positions, FS_CardinalityType DEF Place
<1>3. \A f \in T : f \in Upload /\ files[f] # None /\ files[f].entry = e /\ files[f].index \in Nat
  <2>1. \A f \in T : f \in Upload /\ files[f] # None /\ files[f].entry = e
    BY DEF Store!Of, Store!In
  <2>2. ASSUME NEW f \in Upload, files[f] # None PROVE files[f].index \in Nat
    <3>1. files[f] \in Store!FileRow
      BY <2>2 DEF IInv, TypeOK
    <3>. QED BY <3>1 DEF Store!FileRow, Store!Index
  <2>. QED BY <2>1, <2>2
<1>4. \A f \in T : ~Gone(f) /\ RowOf(f) = files[f]
  BY <1>3 DEF Gone, RowOf
<1>5. \A f \in T : files[f].index < n /\ files[f].index # Place(k)
  BY <1>1, <1>3, <1>4 DEF IInv, Placed, Vacant
<1>6. \A f, g \in T : files[f].index = files[g].index => f = g
  BY <1>3, <1>4 DEF IInv, Placed
<1>. HIDE DEF T, n
<1>7. index \in [T -> Nat] /\ \A f \in T : index[f] = files[f].index
  BY <1>3
<1>. HIDE DEF index
<1>8. Cardinality(T) # n
  BY <1>2, <1>5, <1>6, <1>7, GapsCount
<1>. QED BY <1>1, <1>8 DEF T

-----------------------------------------------------------------------------
(* What one step may do to the tables ...                                  *)
Sends(e, i) ==
  \E j \in Slot : rows[j] # None /\ rows[j].at = "create" /\ rows[j].entry = e /\ rows[j].index = i

TablesMove ==
  /\ drawn \subseteq drawn'
  /\ \A u \in Upload : u \in drawn =>
       /\ payload'[u] # None /\ payload'[u].doc = payload[u].doc
       /\ payload[u].version # None => payload'[u].version = payload[u].version
       /\ ~Gone(u)' =>
            ~Gone(u) /\ RowOf(u)'.entry = RowOf(u).entry /\ RowOf(u)'.index = RowOf(u).index
  /\ \A u \in Upload : u \notin drawn /\ ~Gone(u)' =>
       /\ Sends(RowOf(u)'.entry, RowOf(u)'.index)
       /\ files'[u] = None /\ payload'[u].version = None
  /\ \A u \in Upload : files[u] # None =>
       files'[u] # None \/ entries'[TheRoom][files[u].entry] = None
  /\ \A u \in Upload : files'[u] # None => files[u] # None \/ payload[u].version # None
  /\ \A u \in Upload : u \in drawn /\ uploads'[u] # None /\ payload'[u].version # None =>
       /\ uploads[u] # None
       /\ payload[u].version # None \/ uploads[u].entry \notin withdrawn
  /\ \A e \in Message : entries'[TheRoom][e] # None =>
       /\ entries[TheRoom][e] # None
       /\ entries'[TheRoom][e].expected = entries[TheRoom][e].expected
       /\ entries'[TheRoom][e].published =>
            \/ entries[TheRoom][e].published
            \/ Cardinality(Store!Of(files, TheRoom, e)) = entries[TheRoom][e].expected

(* ... to a row of the list ...                                            *)
RowMoves(j) ==
  LET row == rows[j]  new == rows'[j] IN
  /\ row = None => new = None
  /\ row # None =>
       /\ new # None /\ new.doc = row.doc /\ new.version = row.version
       /\ new.group = row.group /\ new.retrying = row.retrying
       /\ row.cancelled => new.cancelled
       /\ row.at \in Settled \cup {"ready"} => new.at = row.at
       /\ new.at \in {"ready", "look"} => new.at = row.at /\ new.held = row.held
       /\ new.at \in {"failed", "commit"} =>
            new.at = row.at \/ row.retrying \/ sending'.at # "upload" \/ j \notin sending'.rows
       /\ \/ new.entry = row.entry /\ new.index = row.index
          \/ /\ row.at = "look" /\ new.at # "look" /\ ~Gone(row.held.upload)
             /\ new.entry = row.held.entry /\ new.index = row.held.index
       /\ \/ new.held \in {None, row.held}
          \/ /\ row.at = "create" /\ new.held # None
             /\ new.held.entry = row.entry /\ new.held.index = row.index
             /\ Recalls(rows[j].held, rows[j].doc)'
       /\ new.at \in {"drop", "put", "complete"} => new.held # None
       /\ new.at \in {"put", "complete"} => new.entry = new.held.entry
       /\ new.at = "put" => ~new.cancelled
       /\ new.at = "complete" =>
            /\ ~Gone(rows[j].held.upload)' => payload'[new.held.upload].version = new.version
            /\ \/ row.at = "complete" /\ new.held = row.held
               \/ new.held.entry \notin withdrawn
       /\ new.at = "done" => row.at \in {"done", "commit"} \/ Delivered(j)'

(* ... and to what localStorage holds.                                     *)
SessionsMove ==
  \A d \in Doc :
    \/ session'[d] \in {None, session[d]}
    \/ /\ session'[d] # None /\ Recalls(session[d], d)'
       /\ Sends(session'[d].entry, session'[d].index)

PageMoves ==
  /\ TablesMove /\ SessionsMove /\ \A j \in Slot : RowMoves(j)
  /\ sending' \in {sending, Idle} /\ sent' = sent

(* Rows of the tables are of known uploads and messages.                   *)
LEMMA Known ==
  ASSUME IInv
  PROVE  /\ \A u \in Upload : ~Gone(u) => u \in drawn /\ RowOf(u).entry \in Message
         /\ \A u \in Upload : files[u] # None => ~Gone(u) /\ RowOf(u) = files[u]
         /\ \A u \in Upload : uploads[u] # None => ~Gone(u) /\ RowOf(u) = uploads[u]
         /\ \A u \in Upload : ~Gone(u) => files[u] # None \/ uploads[u] # None
BY DEF IInv, TypeOK, TablesKnown, Gone, RowOf


(* A kept session stays one of the same file: uploads do not change hands. *)
LEMMA RecallsKeep ==
  ASSUME IInv, TablesMove, sent' = sent, NEW s \in Session, NEW d, Recalls(s, d)
  PROVE  Recalls(s, d)'
<1>1. s.upload \in Upload
  BY DEF Session
<1>2. s.upload \in drawn /\ s.entry \in sent /\ payload[s.upload].doc = d
  BY DEF Recalls
<1>3. s.upload \in drawn' /\ s.entry \in sent' /\ payload'[s.upload].doc = d
  BY <1>1, <1>2 DEF TablesMove
<1>4. ~Gone(s.upload)' => RowOf(s.upload)'.entry = s.entry /\ RowOf(s.upload)'.index = s.index
  BY <1>1, <1>2 DEF TablesMove, Recalls
<1>. QED BY <1>3, <1>4 DEF Recalls

(* So do all of them.                                                      *)
LEMMA SessionsKeep ==
  ASSUME IInv, TypeOK', PageMoves
  PROVE  SessionsKnown'
<1>1. ASSUME NEW d \in Doc, session'[d] # None PROVE Recalls(session[d], d)'
  <2>1. CASE session'[d] = session[d]
    <3>1. session[d] \in Session /\ Recalls(session[d], d)
      BY <1>1, <2>1 DEF IInv, SessionsKnown, TypeOK
    <3>2. PICK t \in Session : t = session[d]
      BY <3>1
    <3>3. Recalls(t, d)
      BY <3>1, <3>2
    <3>4. Recalls(t, d)'
      BY <3>3, RecallsKeep DEF PageMoves
    <3>. QED BY <2>1, <3>2, <3>4 DEF Recalls
  <2>. QED BY <1>1, <2>1 DEF PageMoves, SessionsMove
<1>2. ASSUME NEW k \in Slot, rows'[k] # None, rows'[k].held # None
      PROVE  Recalls(rows[k].held, rows[k].doc)'
  <2>1. rows[k] # None /\ rows'[k].doc = rows[k].doc
    BY <1>2 DEF PageMoves, RowMoves
  <2>2. CASE rows'[k].held = rows[k].held
    <3>1. rows[k].held \in Session /\ Recalls(rows[k].held, rows[k].doc)
      BY <1>2, <2>1, <2>2 DEF IInv, SessionsKnown, TypeOK, Row
    <3>2. PICK t \in Session : t = rows[k].held
      BY <3>1
    <3>3. PICK d : d = rows[k].doc
      OBVIOUS
    <3>4. Recalls(t, d)'
      BY <3>1, <3>2, <3>3, RecallsKeep DEF PageMoves
    <3>. QED BY <2>1, <2>2, <3>2, <3>3, <3>4 DEF Recalls
  <2>. QED BY <1>2, <2>1, <2>2 DEF PageMoves, RowMoves
<1>. QED BY <1>1, <1>2 DEF SessionsKnown

(* Every row moves as RowMoves says, so that RowsKnown is kept.            *)
LEMMA RowsKeep ==
  ASSUME IInv, TypeOK', PageMoves
  PROVE  RowsKnown' /\ Groups'
<1>1. ASSUME NEW k \in Slot, rows'[k] # None
      PROVE  LET row == rows'[k] IN
             /\ row.at = "ready" => row.entry = None /\ row.group = {} /\ row.held = None
             /\ row.at # "ready" => row.entry # None
             /\ row.entry # None => row.entry \in sent'
             /\ row.at = "look" => row.held # None
  <2>1. rows[k] # None /\ RowMoves(k)
    BY <1>1 DEF PageMoves, RowMoves
  <2>2. rows[k].at = "look" =>
          rows[k].held # None /\ rows[k].held.entry \in sent /\ rows[k].held.entry # None
    BY <2>1, UploaderAssumption DEF IInv, RowsKnown, SessionsKnown, Recalls, TypeOK
  <2>3. /\ rows[k].at = "ready" => rows[k].entry = None /\ rows[k].group = {} /\ rows[k].held = None
        /\ rows[k].at # "ready" => rows[k].entry # None
        /\ rows[k].entry # None => rows[k].entry \in sent
    BY <2>1 DEF IInv, RowsKnown
  <2>4. sent' = sent
    BY DEF PageMoves
  <2>. QED BY <1>1, <2>1, <2>2, <2>3, <2>4 DEF RowMoves
<1>2. ASSUME NEW k \in Slot, rows'[k] # None
      PROVE  LET row == rows'[k] IN
             /\ row.at \in {"drop", "put", "complete"} => row.held # None
             /\ row.at \in {"put", "complete"} => row.entry = row.held.entry
             /\ row.at = "put" => ~row.cancelled
             /\ row.at = "complete" /\ ~Gone(rows[k].held.upload)' =>
                  payload'[row.held.upload].version = row.version
  BY <1>2 DEF PageMoves, RowMoves
<1>3. ASSUME NEW k \in Slot, rows'[k] # None
      PROVE  /\ rows'[k].group # {} => k \in rows'[k].group
             /\ \A j \in rows'[k].group : rows'[j] # None /\ rows'[j].group = rows'[k].group
  <2>1. /\ rows[k] # None /\ rows'[k].group = rows[k].group /\ rows[k].group \subseteq Slot
    BY <1>3 DEF PageMoves, RowMoves, IInv, TypeOK, Row
  <2>2. \A j \in Slot : rows[j] # None => rows'[j] # None /\ rows'[j].group = rows[j].group
    BY DEF PageMoves, RowMoves
  <2>. QED BY <2>1, <2>2 DEF IInv, Groups
<1>4. RowsKnown'
  <2>1. ASSUME NEW k \in Slot, rows'[k] # None
        PROVE  LET row == rows'[k] IN
               /\ row.at \in {"look", "drop", "put", "complete"} => row.held # None
               /\ row.at = "complete" /\ ~Gone(rows[k].held.upload)' =>
                    payload'[row.held.upload].version = row.version
    BY <1>1, <1>2, <2>1
  <2>. QED BY <1>1, <1>2, <2>1 DEF RowsKnown, Gone
<1>5. Groups'
  BY <1>3 DEF Groups
<1>. QED BY <1>4, <1>5

(* A message that no row sends into yet stays unheard of.                  *)
LEMMA UnheardStays ==
  ASSUME IInv, PageMoves, NEW e \in Message, Unheard(e)
  PROVE  Unheard(e)'
<1>1. ~ \E i : Sends(e, i)
  BY DEF Unheard, Sends
<1>2. entries'[TheRoom][e] = None
  BY DEF Unheard, PageMoves, TablesMove
<1>3. ASSUME NEW u \in Upload, ~Gone(u)' PROVE RowOf(u)'.entry # e
  BY <1>1, <1>3 DEF Unheard, PageMoves, TablesMove
<1>4. ASSUME NEW d \in Doc, session'[d] # None PROVE session'[d].entry # e
  BY <1>1, <1>4 DEF Unheard, PageMoves, SessionsMove
<1>5. ASSUME NEW k \in Slot, rows'[k] # None
      PROVE  rows'[k].entry # e /\ (rows'[k].held # None => rows'[k].held.entry # e)
  <2>1. rows[k] # None /\ RowMoves(k)
    BY <1>5 DEF PageMoves, RowMoves
  <2>2. /\ rows[k].entry # e
        /\ rows[k].at = "look" => rows[k].held # None
        /\ rows[k].held # None => rows[k].held.entry # e
    BY <2>1 DEF Unheard, IInv, RowsKnown
  <2>. QED BY <1>5, <2>1, <2>2 DEF RowMoves
<1>. QED BY <1>2, <1>3, <1>4, <1>5 DEF Unheard

(* What is done stays delivered until its message is gone.                 *)
LEMMA SendingKeeps ==
  ASSUME IInv, TypeOK', PageMoves
  PROVE  Sending' /\ DoneIsThere'
<1>1. CASE sending' = Idle
  BY <1>1 DEF Idle, Sending, DoneIsThere
<1>2. CASE sending' = sending
  <2>1. /\ sending.at = "idle" => sending.rows = {}
        /\ sending.at # "idle" => sending.entry \in sent
        /\ sent \subseteq Message /\ sending.rows \subseteq Slot /\ sent' = sent
    BY DEF IInv, Sending, TypeOK, PageMoves
  <2>2. ASSUME sending.at = "declare" PROVE Unheard(sending.entry)'
    <3>1. PICK e \in Message : e = sending.entry
      BY <2>1, <2>2
    <3>2. Unheard(e)
      BY <2>2, <3>1 DEF IInv, Sending
    <3>3. Unheard(e)'
      BY <3>2, UnheardStays
    <3>. QED BY <1>2, <3>1, <3>3 DEF Unheard
  <2>3. ASSUME sending.at = "declare", NEW k \in sending.rows
        PROVE  rows'[k] # None /\ rows'[k].at = "ready"
    BY <2>1, <2>3 DEF IInv, Sending, PageMoves, RowMoves
  <2>4. ASSUME sending.at = "upload", NEW k \in sending.rows
        PROVE  /\ rows'[k] # None /\ ~rows'[k].retrying /\ rows'[k].entry # None
               /\ rows'[k].at \in Settled \cup {"look", "drop", "create", "put", "complete"}
               /\ rows'[k].at = "done" => rows[k].at = "done" \/ Delivered(k)'
    <3>1. /\ k \in Slot /\ rows[k] # None /\ ~rows[k].retrying
          /\ rows[k].at \in Settled \cup {"look", "drop", "create", "put", "complete"}
      BY <2>1, <2>4 DEF IInv, Sending
    <3>2. RowMoves(k) /\ sending'.at = "upload" /\ k \in sending'.rows
      BY <1>2, <2>4, <3>1 DEF PageMoves
    <3>3. rows'[k] # None /\ rows'[k].retrying = rows[k].retrying
      BY <3>1, <3>2 DEF RowMoves
    <3>4. rows'[k] \in Row
      BY <3>1, <3>3 DEF TypeOK
    <3>5. rows'[k].at \notin {"failed", "commit", "ready"}
      BY <3>1, <3>2 DEF RowMoves, Settled
    <3>6. rows'[k].at \in Settled \cup {"look", "drop", "create", "put", "complete"}
      BY <3>4, <3>5 DEF Row, Call
    <3>7. rows'[k].at # "ready" => rows'[k].entry # None
      BY <3>1, <3>3, RowsKeep DEF RowsKnown
    <3>8. rows'[k].at = "done" => rows[k].at = "done" \/ Delivered(k)'
      BY <3>1, <3>2 DEF RowMoves, Settled
    <3>. QED BY <3>1, <3>3, <3>5, <3>6, <3>7, <3>8
  <2>5. ASSUME sending.at = "upload", NEW k \in sending.rows, rows[k].at = "done"
        PROVE  Delivered(k)'
    <3>1. k \in Slot /\ rows[k] # None /\ rows[k].entry \in Message /\ Delivered(k)
      BY <2>1, <2>5 DEF IInv, Sending, DoneIsThere, TypeOK, Row
    <3>2. /\ rows'[k].entry = rows[k].entry /\ rows'[k].doc = rows[k].doc
          /\ rows'[k].version = rows[k].version
      BY <2>5, <3>1 DEF PageMoves, RowMoves
    <3>3. CASE entries[TheRoom][rows[k].entry] = None
      BY <3>1, <3>2, <3>3 DEF PageMoves, TablesMove, Delivered
    <3>4. CASE entries[TheRoom][rows[k].entry] # None
      <4>1. PICK u \in Upload :
              /\ files[u] # None /\ files[u].entry = rows[k].entry
              /\ payload[u] = [doc |-> rows[k].doc, version |-> rows[k].version]
        BY <3>1, <3>4 DEF Delivered
      <4>2. rows[k].version # None
        BY <3>1, UploaderAssumption DEF IInv, TypeOK, Row
      <4>3. u \in drawn /\ RowOf(u) = files[u]
        BY <4>1, Known
      <4>4. payload'[u] # None /\ payload'[u].doc = rows[k].doc /\ payload'[u].version = rows[k].version
        BY <4>1, <4>2, <4>3 DEF PageMoves, TablesMove
      <4>5. payload'[u] = [doc |-> rows[k].doc, version |-> rows[k].version]
        <5>1. payload'[u] \in Payload
          BY <4>4 DEF TypeOK
        <5>. QED BY <4>4, <5>1 DEF Payload
      <4>6. CASE files'[u] # None
        <5>1. ~Gone(u)' /\ RowOf(u)' = files'[u]
          BY <4>6 DEF Gone, RowOf
        <5>2. files'[u].entry = rows[k].entry
          BY <4>1, <4>3, <5>1 DEF PageMoves, TablesMove
        <5>. QED BY <3>2, <4>5, <4>6, <5>2 DEF Delivered
      <4>7. CASE files'[u] = None
        BY <3>2, <4>1, <4>7 DEF PageMoves, TablesMove, Delivered
      <4>. QED BY <4>6, <4>7
    <3>. QED BY <3>3, <3>4
  <2>6. Sending'
    BY <1>2, <2>1, <2>2, <2>3, <2>4 DEF Sending
  <2>7. DoneIsThere'
    BY <1>2, <2>4, <2>5 DEF DoneIsThere
  <2>. QED BY <2>6, <2>7
<1>. QED BY <1>1, <1>2 DEF PageMoves

(* The place of a row that strays stays vacant: who could take it is a row *)
(* of the message, which has another place.                                *)
LEMMA StraysKeep ==
  ASSUME IInv, TypeOK', PageMoves
  PROVE  StraysLeaveGaps'
<1>1. CASE sending' = Idle
  BY <1>1 DEF Idle, StraysLeaveGaps
<1>2. ASSUME sending' = sending, sending.at = "upload", NEW k \in sending.rows, Strays(k)'
      PROVE  LET e == sending.entry IN
             /\ Vacant(e, Place(k))'
             /\ \A j \in Slot \ {k} : rows'[j] # None /\ rows'[j].entry = e => rows'[j].index # Place(k)'
             /\ entries'[TheRoom][e] # None =>
                  ~entries'[TheRoom][e].published /\ entries'[TheRoom][e].expected = Cardinality(sending'.rows)
  <2>. DEFINE e == sending.entry  i == Place(k)
  <2>1. /\ k \in Slot /\ rows[k] # None /\ e \in Message
        /\ rows[k].at = "look" => rows[k].held # None
    BY <1>2 DEF IInv, Sending, RowsKnown, TypeOK
  <2>2. Strays(k)
    BY <1>2, <2>1 DEF Strays, PageMoves, RowMoves
  <2>3. /\ Vacant(e, i) /\ Place(k)' = i
        /\ \A j \in Slot \ {k} : rows[j] # None /\ rows[j].entry = e => rows[j].index # i
        /\ entries[TheRoom][e] # None =>
             ~entries[TheRoom][e].published /\ entries[TheRoom][e].expected = Cardinality(sending.rows)
    BY <1>2, <2>2 DEF IInv, StraysLeaveGaps, Place
  <2>4. rows[k].at = "create" => rows[k].entry # e
    BY <2>2 DEF Strays
  <2>5. ~Sends(e, i)
    BY <2>3, <2>4 DEF Sends
  <2>6. ASSUME NEW u \in Upload, ~Gone(u)', RowOf(u)'.entry = e PROVE RowOf(u)'.index # i
    <3>1. CASE u \in drawn
      BY <2>3, <2>6, <3>1 DEF Vacant, PageMoves, TablesMove
    <3>2. CASE u \notin drawn
      BY <2>5, <2>6, <3>2 DEF PageMoves, TablesMove
    <3>. QED BY <3>1, <3>2
  <2>7. ASSUME NEW d \in Doc, session'[d] # None, session'[d].entry = e PROVE session'[d].index # i
    BY <2>3, <2>5, <2>7 DEF Vacant, PageMoves, SessionsMove
  <2>8. ASSUME NEW j \in Slot, rows'[j] # None, rows'[j].held # None, rows'[j].held.entry = e
        PROVE  rows'[j].held.index # i
    <3>1. rows[j] # None /\ RowMoves(j)
      BY <2>8 DEF PageMoves, RowMoves
    <3>2. CASE rows'[j].held = rows[j].held
      BY <2>3, <2>8, <3>1, <3>2 DEF Vacant
    <3>3. CASE /\ rows[j].at = "create" /\ rows'[j].held.entry = rows[j].entry
               /\ rows'[j].held.index = rows[j].index
      BY <2>5, <2>8, <3>1, <3>3 DEF Sends
    <3>. QED BY <2>8, <3>1, <3>2, <3>3 DEF RowMoves
  <2>9. ASSUME NEW j \in Slot, j # k, rows'[j] # None, rows'[j].entry = e PROVE rows'[j].index # i
    <3>1. rows[j] # None /\ RowMoves(j)
      BY <2>9 DEF PageMoves, RowMoves
    <3>2. rows[j].at = "look" => rows[j].held # None
      BY <3>1 DEF IInv, RowsKnown
    <3>. QED BY <2>3, <2>9, <3>1, <3>2 DEF Vacant, RowMoves
  <2>10. entries'[TheRoom][e] # None =>
           ~entries'[TheRoom][e].published /\ entries'[TheRoom][e].expected = Cardinality(sending'.rows)
    <3>1. entries[TheRoom][e] # None =>
            /\ ~entries[TheRoom][e].published
            /\ Cardinality(Store!Of(files, TheRoom, e)) # entries[TheRoom][e].expected
      BY <1>2, <2>2, GapsOpen
    <3>. QED BY <1>2, <2>1, <2>3, <3>1 DEF PageMoves, TablesMove
  <2>11. Vacant(e, i)'
    BY <1>2, <2>3, <2>6, <2>7, <2>8 DEF Vacant
  <2>. QED BY <2>3, <2>9, <2>10, <2>11 DEF Vacant
<1>. QED BY <1>1, <1>2 DEF PageMoves, StraysLeaveGaps

(* Nothing is under way for a message.                                     *)
Clear(e) == ~SentInto(e) /\ \A u \in Upload : ~Gone(u) => RowOf(u).entry # e

(* A message that is withdrawn has been cleared from page and tables.      *)
LEMMA NothingStillComes ==
  ASSUME IInv, TypeOK', TablesKnown', PageMoves,
         \A e \in withdrawn' : e \in withdrawn \/ Clear(e)'
  PROVE  NothingComes'
<1>1. ASSUME NEW u \in Upload, ~Gone(u)', RowOf(u)'.entry \in withdrawn'
      PROVE  RowOf(u)'.entry \in withdrawn
  BY <1>1 DEF Clear
<1>2. ASSUME NEW u \in Upload, files'[u] # None PROVE files'[u].entry \notin withdrawn'
  <2>1. ~Gone(u)' /\ RowOf(u)' = files'[u]
    BY <1>2 DEF Gone, RowOf
  <2>2. u \in drawn /\ (files[u] # None \/ payload[u].version # None)
    BY <1>2, <2>1 DEF PageMoves, TablesMove
  <2>3. ~Gone(u) /\ files'[u].entry = RowOf(u).entry
    BY <2>1, <2>2 DEF PageMoves, TablesMove
  <2>4. RowOf(u).entry \notin withdrawn
    BY <2>2, <2>3, Known DEF IInv, NothingComes
  <2>. QED BY <1>1, <2>1, <2>3, <2>4
<1>3. ASSUME NEW u \in Upload, uploads'[u] # None, uploads'[u].entry \in withdrawn'
      PROVE  payload'[u].version = None
  <2>1. ~Gone(u)' /\ RowOf(u)' = uploads'[u]
    BY <1>3 DEF Gone, RowOf, TablesKnown
  <2>2. CASE u \notin drawn
    BY <2>1, <2>2 DEF PageMoves, TablesMove
  <2>3. CASE u \in drawn
    <3>1. RowOf(u)'.entry = RowOf(u).entry /\ RowOf(u)'.entry \in withdrawn
      BY <1>1, <1>3, <2>1, <2>3 DEF PageMoves, TablesMove
    <3>2. SUFFICES ASSUME payload'[u].version # None PROVE FALSE
      OBVIOUS
    <3>3. uploads[u] # None /\ (payload[u].version # None \/ uploads[u].entry \notin withdrawn)
      BY <1>3, <2>3, <3>2 DEF PageMoves, TablesMove
    <3>. QED BY <3>1, <3>3, Known DEF IInv, NothingComes
  <2>. QED BY <2>2, <2>3
<1>4. ASSUME NEW k \in Slot, rows'[k] # None, rows'[k].at \notin Settled, ~rows'[k].cancelled
      PROVE  rows'[k].entry \notin withdrawn'
  <2>1. rows[k] # None /\ RowMoves(k) /\ rows'[k].entry \in Message \cup {None}
    BY <1>4 DEF PageMoves, RowMoves, TypeOK, Row
  <2>2. rows[k].at \notin Settled /\ ~rows[k].cancelled
    BY <1>4, <2>1 DEF RowMoves, Settled
  <2>3. rows[k].entry \notin withdrawn
    BY <2>1, <2>2 DEF IInv, NothingComes
  <2>4. rows[k].at = "look" /\ ~Gone(rows[k].held.upload) => rows[k].held.entry \notin withdrawn
    BY <2>1, <2>2 DEF IInv, NothingComes
  <2>5. rows'[k].entry \notin withdrawn
    BY <2>1, <2>3, <2>4 DEF RowMoves
  <2>6. SUFFICES ASSUME NEW e \in withdrawn', rows'[k].entry = e PROVE FALSE
    OBVIOUS
  <2>. QED BY <1>4, <2>5, <2>6 DEF Clear, SentInto
<1>5. ASSUME NEW k \in Slot, rows'[k] # None,
             rows'[k].at = "complete" \/ (rows'[k].at = "look" /\ ~rows'[k].cancelled),
             rows'[k].held.entry \in withdrawn'
      PROVE  Gone(rows[k].held.upload)'
  <2>1. rows[k] # None /\ RowMoves(k) /\ rows'[k].held # None
    BY <1>5, RowsKeep DEF PageMoves, RowMoves, RowsKnown
  <2>2. rows'[k].held \in Session /\ Recalls(rows[k].held, rows[k].doc)'
    BY <1>5, <2>1, SessionsKeep DEF TypeOK, Row, SessionsKnown
  <2>3. PICK u \in Upload : u = rows'[k].held.upload
    BY <2>2 DEF Session
  <2>4. PICK e \in Message : e = rows'[k].held.entry
    BY <2>2 DEF Session
  <2>5. SUFFICES ASSUME ~Gone(u)' PROVE FALSE
    BY <2>3 DEF Gone
  <2>6. RowOf(u)'.entry = e
    BY <2>2, <2>3, <2>4, <2>5 DEF Recalls, Gone, RowOf
  <2>7. e \in withdrawn
    BY <1>1, <1>5, <2>4, <2>5, <2>6
  <2>8. /\ rows'[k].held = rows[k].held
        /\ rows[k].at = "complete" \/ (rows[k].at = "look" /\ ~rows[k].cancelled)
    BY <1>5, <2>1, <2>4, <2>7 DEF RowMoves
  <2>9. Gone(u) /\ u \in drawn
    BY <2>1, <2>3, <2>4, <2>7, <2>8 DEF IInv, NothingComes, SessionsKnown, Recalls
  <2>. QED BY <2>5, <2>9 DEF PageMoves, TablesMove
<1>. QED BY <1>2, <1>3, <1>4, <1>5 DEF NothingComes

-----------------------------------------------------------------------------
(* The transactions move the tables so.                                    *)
TablesTyped ==
  /\ entries \in [{TheRoom} -> [Message \cup Upload -> Store!EntryRow \cup {None}]]
  /\ {uploads, files} \subseteq [Upload -> Store!FileRow \cup {None}]
  /\ payload \in [Upload -> Payload \cup {None}]
  /\ drawn \subseteq Upload

TablesGo ==
  TablesTyped' /\ TablesMove /\ Placed' /\ (sent \subseteq sent' => TablesKnown')

(* A step that draws no id keeps what the tables know.                     *)
LEMMA TablesKeep ==
  ASSUME IInv, TablesTyped', TablesMove, drawn' = drawn,
         \A u \in Upload : u \notin drawn => Gone(u)' /\ payload'[u] = None,
         \A u \in Upload : uploads'[u] = None \/ files'[u] = None
  PROVE  TablesGo
<1>1. ASSUME NEW u \in Upload, ~Gone(u)'
      PROVE  /\ u \in drawn /\ ~Gone(u) /\ RowOf(u)'.entry \in sent /\ RowOf(u)'.entry \in Message
             /\ RowOf(u)'.entry = RowOf(u).entry /\ RowOf(u)'.index = RowOf(u).index
  <2>1. u \in drawn
    BY <1>1
  <2>2. ~Gone(u) /\ RowOf(u)'.entry = RowOf(u).entry /\ RowOf(u)'.index = RowOf(u).index
    BY <1>1, <2>1 DEF TablesMove
  <2>. QED BY <2>1, <2>2 DEF IInv, TablesKnown, TypeOK
<1>2. ASSUME NEW e \in Message, entries'[TheRoom][e] # None
      PROVE  /\ entries[TheRoom][e] # None /\ e \in sent
             /\ entries'[TheRoom][e].expected = entries[TheRoom][e].expected
  BY <1>2 DEF TablesMove, IInv, TablesKnown
<1>3. Placed'
  <2>1. ASSUME NEW u \in Upload, ~Gone(u)', entries'[TheRoom][RowOf(u)'.entry] # None
        PROVE  /\ RowOf(u)'.index < entries'[TheRoom][RowOf(u)'.entry].expected
               /\ \A w \in Upload :
                    ~Gone(w)' /\ RowOf(w)'.entry = RowOf(u)'.entry /\ RowOf(w)'.index = RowOf(u)'.index => u = w
    <3>1. PICK e \in Message : e = RowOf(u)'.entry
      BY <1>1, <2>1
    <3>2. /\ ~Gone(u) /\ RowOf(u).entry = e /\ RowOf(u).index = RowOf(u)'.index
          /\ entries[TheRoom][e] # None
          /\ entries'[TheRoom][e].expected = entries[TheRoom][e].expected
      BY <1>1, <1>2, <2>1, <3>1
    <3>3. /\ RowOf(u).index < entries[TheRoom][e].expected
          /\ \A w \in Upload :
               ~Gone(w) /\ RowOf(w).entry = e /\ RowOf(w).index = RowOf(u).index => u = w
      BY <3>2 DEF IInv, Placed
    <3>. QED BY <1>1, <3>1, <3>2, <3>3
  <2>. QED BY <2>1 DEF Placed, Gone, RowOf
<1>4. ASSUME sent \subseteq sent' PROVE TablesKnown'
  <2>1. \A u \in Upload : (~Gone(u)' \/ payload'[u] # None) => u \in drawn'
    OBVIOUS
  <2>2. \A u \in drawn' : payload'[u] # None
    BY DEF TablesMove, TablesTyped
  <2>3. \A u \in Upload : ~Gone(u)' => RowOf(u)'.entry \in sent'
    BY <1>1, <1>4
  <2>4. \A e \in Message : entries'[TheRoom][e] # None => e \in sent'
    BY <1>2, <1>4
  <2>. QED BY <2>1, <2>2, <2>3, <2>4 DEF TablesKnown, Gone, RowOf
<1>. QED BY <1>3, <1>4 DEF TablesGo

(* Nothing happens to the tables.                                          *)
LEMMA TablesStay ==
  ASSUME IInv, UNCHANGED tables
  PROVE  TablesGo
<1>1. TablesTyped'
  BY DEF TablesTyped, IInv, TypeOK, tables
<1>2. TablesMove
  BY DEF TablesMove, IInv, TablesKnown, NothingComes, tables, Gone, RowOf
<1>. QED BY <1>1, <1>2, TablesKeep DEF tables, IInv, TablesKnown, Gone

(* A session is aborted.                                                   *)
LEMMA AbortMoves ==
  ASSUME IInv, NEW u \in Upload, Store!AbortUpload(u), payload' = payload
  PROVE  TablesGo
<1>1. /\ uploads' = [uploads EXCEPT ![u] = None]
      /\ files' = files /\ entries' = entries /\ drawn' = drawn
  BY Aborts
<1>2. uploads \in [Upload -> Store!FileRow \cup {None}]
  BY DEF IInv, TypeOK
<1>3. \A w \in Upload : uploads'[w] \in {uploads[w], None}
  BY <1>1, <1>2
<1>4. TablesTyped'
  BY <1>1, <1>2 DEF TablesTyped, IInv, TypeOK
<1>5. TablesMove
  BY <1>1, <1>3 DEF TablesMove, IInv, TablesKnown, NothingComes, Gone, RowOf
<1>. QED BY <1>1, <1>3, <1>4, <1>5, TablesKeep DEF IInv, TablesKnown, Gone

(* A message is deleted.                                                   *)
LEMMA DeleteMoves ==
  ASSUME IInv, NEW e \in Message, Store!DeleteEntry(TheRoom, e), payload' = payload
  PROVE  TablesGo /\ \A u \in Upload : ~Gone(u)' => RowOf(u)'.entry # e
<1>1. /\ entries' = [entries EXCEPT ![TheRoom][e] = None] /\ drawn' = drawn
      /\ files' = [u \in Upload |-> IF files[u] # None /\ files[u].entry = e THEN None ELSE files[u]]
      /\ uploads' = [u \in Upload |->
           IF uploads[u] # None /\ uploads[u].entry = e THEN None ELSE uploads[u]]
  BY Deletes DEF IInv
<1>2. /\ {uploads, files} \subseteq [Upload -> Store!FileRow \cup {None}]
      /\ entries \in [{TheRoom} -> [Message \cup Upload -> Store!EntryRow \cup {None}]]
  BY DEF IInv, TypeOK
<1>3. \A w \in Upload :
        /\ uploads'[w] \in {uploads[w], None} /\ files'[w] \in {files[w], None}
        /\ files[w] # None => files'[w] = files[w] \/ files[w].entry = e
        /\ uploads'[w] # None => uploads'[w].entry # e
        /\ files'[w] # None => files'[w].entry # e
  BY <1>1, <1>2
<1>4. /\ entries'[TheRoom][e] = None
      /\ \A x \in Message : entries'[TheRoom][x] # None => entries'[TheRoom][x] = entries[TheRoom][x]
  BY <1>1, <1>2
<1>5. TablesTyped'
  <2>1. entries' \in [{TheRoom} -> [Message \cup Upload -> Store!EntryRow \cup {None}]]
    BY <1>1, <1>2
  <2>2. {uploads', files'} \subseteq [Upload -> Store!FileRow \cup {None}]
    BY <1>1, <1>2
  <2>. QED BY <1>1, <2>1, <2>2 DEF TablesTyped, IInv, TypeOK
<1>6. TablesMove
  BY <1>1, <1>3, <1>4 DEF TablesMove, IInv, TablesKnown, NothingComes, Gone, RowOf
<1>7. TablesGo
  BY <1>1, <1>3, <1>5, <1>6, TablesKeep DEF IInv, TablesKnown, Gone
<1>8. \A u \in Upload : ~Gone(u)' => RowOf(u)'.entry # e
  BY <1>3 DEF Gone, RowOf
<1>. QED BY <1>7, <1>8

(* A message is committed.                                                 *)
LEMMA CommitMoves ==
  ASSUME IInv, NEW e \in Message, Commit(e)
  PROVE  TablesGo
<1>1. CASE UNCHANGED tables
  BY <1>1, TablesStay
<1>2. CASE Store!CommitEntry(TheRoom, e) /\ payload' = payload
  <2>1. /\ entries[TheRoom][e] # None
        /\ Cardinality(Store!Of(files, TheRoom, e)) = entries[TheRoom][e].expected
        /\ entries' = [entries EXCEPT ![TheRoom][e].published = TRUE]
        /\ uploads' = uploads /\ files' = files /\ drawn' = drawn
    BY <1>2, Commits
  <2>2. entries \in [{TheRoom} -> [Message \cup Upload -> Store!EntryRow \cup {None}]]
    BY DEF IInv, TypeOK
  <2>3. PICK row \in Store!EntryRow : row = entries[TheRoom][e]
    BY <2>1, <2>2
  <2>4. [row EXCEPT !.published = TRUE] \in Store!EntryRow
    BY DEF Store!EntryRow
  <2>5. entries' = [entries EXCEPT ![TheRoom] = [@ EXCEPT ![e] = [row EXCEPT !.published = TRUE]]]
    BY <2>1, <2>3
  <2>6. entries' \in [{TheRoom} -> [Message \cup Upload -> Store!EntryRow \cup {None}]]
    BY <2>2, <2>4, <2>5
  <2>7. entries'[TheRoom][e] = [row EXCEPT !.published = TRUE]
    BY <2>2, <2>5
  <2>8. \A x \in Message : x # e => entries'[TheRoom][x] = entries[TheRoom][x]
    BY <2>2, <2>5
  <2>9. entries'[TheRoom][e].expected = entries[TheRoom][e].expected
    BY <2>3, <2>7 DEF Store!EntryRow
  <2>10. TablesTyped'
    BY <1>2, <2>1, <2>6 DEF TablesTyped, IInv, TypeOK
  <2>11. TablesMove
    <3>1. \A x \in Message : entries'[TheRoom][x] # None =>
            /\ entries[TheRoom][x] # None
            /\ entries'[TheRoom][x].expected = entries[TheRoom][x].expected
            /\ entries'[TheRoom][x].published =>
                 \/ entries[TheRoom][x].published
                 \/ Cardinality(Store!Of(files, TheRoom, x)) = entries[TheRoom][x].expected
      BY <2>1, <2>8, <2>9
    <3>2. uploads' = uploads /\ files' = files /\ drawn' = drawn
      BY <2>1
    <3>. QED BY <1>2, <3>1, <3>2 DEF TablesMove, IInv, TablesKnown, NothingComes, Gone, RowOf
  <2>. QED BY <1>2, <2>1, <2>10, <2>11, TablesKeep DEF IInv, TablesKnown, Gone
<1>. QED BY <1>1, <1>2 DEF Commit

(* A session is created, at the place of its row in the message.           *)
LEMMA CreateMoves ==
  ASSUME IInv, NEW k \in Slot, At(k, "create"), NEW u \in Upload,
         Store!Admits(TheRoom, rows[k].entry, rows[k].index),
         Store!CreateUpload(u, TheRoom, rows[k].entry, rows[k].index, 1),
         payload' = [payload EXCEPT ![u] = [doc |-> rows[k].doc, version |-> None]]
  PROVE  /\ TablesGo /\ u \in drawn' /\ payload'[u].doc = rows[k].doc
         /\ RowOf(u)'.entry = rows[k].entry /\ RowOf(u)'.index = rows[k].index
<1>. DEFINE e == rows[k].entry  i == rows[k].index
            row == [room |-> TheRoom, entry |-> e, index |-> i, size |-> 1,
                    grouped |-> entries[TheRoom][e] # None]
            p == [doc |-> rows[k].doc, version |-> None]
<1>1. /\ rows[k] \in Row /\ e \in Message /\ e \in sent
      /\ i \in Store!Index /\ rows[k].doc \in Doc
  <2>1. rows[k] \in Row /\ rows[k] # None /\ rows[k].at = "create"
    BY DEF At, IInv, TypeOK
  <2>2. rows[k].entry # None /\ rows[k].entry \in sent
    BY <2>1 DEF IInv, RowsKnown
  <2>. QED BY <2>1, <2>2 DEF Row
<1>2. /\ u \notin drawn /\ drawn' = drawn \cup {u} /\ uploads' = [uploads EXCEPT ![u] = row]
      /\ entries' = entries /\ files' = files
  BY <1>1, Creates
<1>3. /\ {uploads, files} \subseteq [Upload -> Store!FileRow \cup {None}]
      /\ entries \in [{TheRoom} -> [Message \cup Upload -> Store!EntryRow \cup {None}]]
      /\ payload \in [Upload -> Payload \cup {None}]
  BY DEF IInv, TypeOK
<1>4. row \in Store!FileRow
  BY <1>1 DEF Store!FileRow, Store!EntryId
<1>5. p \in Payload
  BY <1>1 DEF Payload
<1>6. row # None /\ p # None
  BY <1>4, <1>5, UploaderAssumption
<1>7. Gone(u) /\ files[u] = None
  BY <1>2 DEF IInv, TablesKnown, Gone
<1>8. /\ uploads'[u] = row /\ payload'[u] = p /\ files'[u] = None
      /\ \A w \in Upload : w # u => uploads'[w] = uploads[w] /\ payload'[w] = payload[w]
  BY <1>2, <1>3, <1>7
<1>9. /\ ~Gone(u)' /\ RowOf(u)' = row
      /\ \A w \in Upload : w # u => (Gone(w)' <=> Gone(w)) /\ RowOf(w)' = RowOf(w)
  BY <1>2, <1>6, <1>8 DEF Gone, RowOf
<1>10. row.entry = e /\ row.index = i /\ p.doc = rows[k].doc /\ p.version = None
  OBVIOUS
<1>. HIDE DEF row, p
<1>11. TablesTyped'
  <2>1. uploads' \in [Upload -> Store!FileRow \cup {None}]
    BY <1>2, <1>3, <1>4
  <2>2. payload' \in [Upload -> Payload \cup {None}]
    BY <1>3, <1>5, <1>8 DEF p
  <2>. QED BY <1>2, <1>3, <2>1, <2>2 DEF TablesTyped, IInv, TypeOK
<1>12. TablesMove
  <2>1. Sends(e, i)
    BY DEF Sends, At
  <2>2. \A w \in Upload : w \in drawn => w # u
    BY <1>2
  <2>3. \A w \in Upload : w \notin drawn /\ ~Gone(w)' => w = u
    BY <1>9 DEF IInv, TablesKnown
  <2>4. \A w \in drawn : payload[w] # None
    BY DEF IInv, TablesKnown
  <2>5. \A x \in Message : entries'[TheRoom][x] = entries[TheRoom][x]
    BY <1>2
  <2>. QED BY <1>2, <1>8, <1>9, <1>10, <2>1, <2>2, <2>3, <2>4, <2>5 DEF TablesMove
<1>13. Placed'
  <2>1. entries[TheRoom][e] # None =>
          i < entries[TheRoom][e].expected /\ \A w \in Upload : ~Gone(w) /\ RowOf(w).entry = e => RowOf(w).index # i
    BY <1>1, Admitted DEF IInv
  <2>2. ASSUME NEW w \in Upload, ~Gone(w)', entries'[TheRoom][RowOf(w)'.entry] # None
        PROVE  /\ RowOf(w)'.index < entries'[TheRoom][RowOf(w)'.entry].expected
               /\ \A x \in Upload :
                    ~Gone(x)' /\ RowOf(x)'.entry = RowOf(w)'.entry /\ RowOf(x)'.index = RowOf(w)'.index => w = x
    <3>1. CASE w = u
      BY <1>2, <1>9, <1>10, <2>1, <2>2, <3>1
    <3>2. CASE w # u
      BY <1>2, <1>9, <1>10, <2>1, <2>2, <3>2 DEF IInv, Placed
    <3>. QED BY <3>1, <3>2
  <2>. QED BY <2>2 DEF Placed, Gone, RowOf
<1>14. ASSUME sent \subseteq sent' PROVE TablesKnown'
  <2>1. ASSUME NEW w \in Upload, w # u
        PROVE  /\ (~Gone(w)' \/ payload'[w] # None) => w \in drawn'
               /\ w \in drawn' => payload'[w] # None
               /\ uploads'[w] = None \/ files'[w] = None
               /\ ~Gone(w)' => RowOf(w)'.entry \in sent'
    BY <1>2, <1>8, <1>9, <1>14, <2>1 DEF IInv, TablesKnown
  <2>2. /\ u \in drawn' /\ payload'[u] # None /\ (uploads'[u] = None \/ files'[u] = None)
        /\ RowOf(u)'.entry \in sent'
    BY <1>1, <1>2, <1>6, <1>8, <1>9, <1>10, <1>14
  <2>3. \A x \in Message : entries'[TheRoom][x] # None => x \in sent'
    BY <1>2, <1>14 DEF IInv, TablesKnown
  <2>4. drawn' \subseteq Upload
    BY <1>11 DEF TablesTyped
  <2>. QED BY <2>1, <2>2, <2>3, <2>4 DEF TablesKnown, Gone, RowOf
<1>15. /\ u \in drawn' /\ payload'[u].doc = rows[k].doc
       /\ RowOf(u)'.entry = rows[k].entry /\ RowOf(u)'.index = rows[k].index
  BY <1>2, <1>8, <1>9, <1>10
<1>. QED BY <1>11, <1>12, <1>13, <1>14, <1>15 DEF TablesGo

(* The contents arrive.                                                    *)
LEMMA PutMoves ==
  ASSUME IInv, NEW k \in Slot, At(k, "put"), uploads[Mine(k)] # None,
         payload[Mine(k)].version \in {None, rows[k].version},
         payload' = [payload EXCEPT ![Mine(k)].version = rows[k].version],
         UNCHANGED <<entries, uploads, files, drawn>>
  PROVE  TablesGo /\ payload'[Mine(k)].version = rows[k].version
<1>1. /\ rows[k] \in Row /\ rows[k] # None /\ rows[k].held # None /\ ~rows[k].cancelled
      /\ rows[k].held \in Session /\ rows[k].entry = rows[k].held.entry
  BY DEF At, IInv, TypeOK, RowsKnown, Row
<1>2. PICK u \in Upload : u = Mine(k)
  BY <1>1 DEF Mine, Session
<1>3. /\ uploads[u] # None /\ ~Gone(u) /\ u \in drawn /\ RowOf(u) = uploads[u]
      /\ payload[u] \in Payload /\ payload[u] # None
  <2>1. uploads[u] # None
    BY <1>2
  <2>2. ~Gone(u) /\ u \in drawn /\ RowOf(u) = uploads[u]
    BY <2>1, Known
  <2>3. payload[u] # None
    BY <2>2 DEF IInv, TablesKnown
  <2>. QED BY <2>1, <2>2, <2>3 DEF IInv, TypeOK
<1>4. uploads[u].entry \notin withdrawn
  <2>1. Recalls(rows[k].held, rows[k].doc)
    BY <1>1 DEF IInv, SessionsKnown
  <2>2. uploads[u].entry = rows[k].entry
    BY <1>1, <1>2, <1>3, <2>1 DEF Recalls, Mine
  <2>3. rows[k].entry \notin withdrawn
    BY <1>1 DEF IInv, NothingComes, At, Settled
  <2>. QED BY <2>2, <2>3
<1>5. PICK p \in Payload : p = payload[u]
  BY <1>3
<1>6. PICK v \in Version : v = rows[k].version
  BY <1>1 DEF Row
<1>7. [p EXCEPT !.version = v] \in Payload
  BY DEF Payload
<1>8. [p EXCEPT !.version = v].doc = p.doc /\ [p EXCEPT !.version = v].version = v
  BY DEF Payload
<1>9. payload' = [payload EXCEPT ![u] = [p EXCEPT !.version = v]]
  BY <1>2, <1>5, <1>6
<1>10. payload \in [Upload -> Payload \cup {None}]
  BY DEF IInv, TypeOK
<1>11. /\ payload'[u] = [p EXCEPT !.version = v]
       /\ \A w \in Upload : w # u => payload'[w] = payload[w]
  BY <1>9, <1>10
<1>12. /\ payload'[u] # None /\ payload'[u].doc = payload[u].doc /\ payload'[u].version = v
       /\ payload[u].version # None => payload[u].version = v
  <2>1. [p EXCEPT !.version = v] # None
    BY <1>7, UploaderAssumption
  <2>2. payload[u].version # None => payload[u].version = v
    BY <1>2, <1>6
  <2>. QED BY <1>5, <1>8, <1>11, <2>1, <2>2
<1>13. TablesTyped'
  BY <1>7, <1>9, <1>10 DEF TablesTyped, IInv, TypeOK
<1>14. TablesMove
  <2>1. \A w \in Upload : w \in drawn =>
          /\ payload'[w] # None /\ payload'[w].doc = payload[w].doc
          /\ payload[w].version # None => payload'[w].version = payload[w].version
    BY <1>11, <1>12 DEF IInv, TablesKnown
  <2>2. \A w \in Upload : (Gone(w)' <=> Gone(w)) /\ RowOf(w)' = RowOf(w)
    BY DEF Gone, RowOf
  <2>3. \A w \in Upload : w \notin drawn => Gone(w)
    BY DEF IInv, TablesKnown
  <2>4. \A w \in Upload : w \in drawn /\ uploads'[w] # None /\ payload'[w].version # None =>
          /\ uploads[w] # None
          /\ payload[w].version # None \/ uploads[w].entry \notin withdrawn
    BY <1>4, <1>11
  <2>. QED BY <2>1, <2>2, <2>3, <2>4 DEF TablesMove
<1>15. \A w \in Upload : w \notin drawn => Gone(w)' /\ payload'[w] = None
  BY <1>3, <1>11 DEF IInv, TablesKnown, Gone
<1>16. TablesGo
  BY <1>13, <1>14, <1>15, TablesKeep DEF IInv, TablesKnown
<1>. QED BY <1>2, <1>6, <1>12, <1>16

(* A session becomes a file.                                               *)
LEMMA CompleteMoves ==
  ASSUME IInv, NEW u \in Upload, Store!CompleteUpload(u), payload[u].version # None, payload' = payload
  PROVE  TablesGo /\ files'[u] # None
<1>1. /\ uploads[u] # None /\ files' = [files EXCEPT ![u] = uploads[u]]
      /\ uploads' = [uploads EXCEPT ![u] = None] /\ entries' = entries /\ drawn' = drawn
  BY Completes
<1>2. /\ uploads \in [Upload -> Store!FileRow \cup {None}]
      /\ files \in [Upload -> Store!FileRow \cup {None}]
  BY DEF IInv, TypeOK
<1>3. /\ uploads'[u] = None /\ files'[u] = uploads[u]
      /\ \A w \in Upload : w # u => uploads'[w] = uploads[w] /\ files'[w] = files[w]
  BY <1>1, <1>2
<1>4. ~Gone(u) /\ files[u] = None
  BY <1>1 DEF IInv, TablesKnown, Gone
<1>5. \A w \in Upload : (Gone(w)' <=> Gone(w)) /\ RowOf(w)' = RowOf(w)
  BY <1>1, <1>3, <1>4 DEF Gone, RowOf
<1>6. TablesTyped'
  <2>1. uploads' \in [Upload -> Store!FileRow \cup {None}] /\ files' \in [Upload -> Store!FileRow \cup {None}]
    BY <1>1, <1>2
  <2>. QED BY <1>1, <2>1 DEF TablesTyped, IInv, TypeOK
<1>7. TablesMove
  BY <1>1, <1>3, <1>4, <1>5 DEF TablesMove, IInv, TablesKnown
<1>8. TablesGo
  BY <1>1, <1>3, <1>4, <1>5, <1>6, <1>7, TablesKeep DEF IInv, TablesKnown
<1>. QED BY <1>1, <1>3, <1>8

-----------------------------------------------------------------------------
(* A step of the page preserves the invariant when it moves the rows so.   *)
PageTyped ==
  /\ rows \in [Slot -> Row \cup {None}]
  /\ session \in [Doc -> Session \cup {None}]
  /\ sending \in [at : {"idle", "declare", "upload"}, entry : Message \cup {None},
                  rows : SUBSET Slot]
  /\ deletes \subseteq sent /\ withdrawn \subseteq sent
  /\ sent \subseteq Message /\ sends \in 0 .. MaxSends /\ faults \in 0 .. MaxFaults

(* The types of the server and of the page.                                *)
LEMMA TypeParts == TypeOK <=> TablesTyped /\ PageTyped
BY DEF TypeOK, TablesTyped, PageTyped

(* The invariant from what the step does to tables and page.               *)
LEMMA StepKeeps ==
  ASSUME IInv, TablesGo, PageTyped', PageMoves,
         \A e \in withdrawn' : e \in withdrawn \/ Clear(e)'
  PROVE  IInv'
<1>1. TypeOK'
  BY TypeParts DEF TablesGo, TypeOK, TablesTyped, PageTyped
<1>2. TablesKnown' /\ Placed'
  BY DEF TablesGo, PageMoves
<1>3. SessionsKnown' /\ RowsKnown' /\ Groups' /\ Sending' /\ DoneIsThere' /\ StraysLeaveGaps'
  BY <1>1, SessionsKeep, RowsKeep, SendingKeeps, StraysKeep
<1>4. NothingComes'
  BY <1>1, <1>2, NothingStillComes
<1>. QED BY <1>1, <1>2, <1>3, <1>4 DEF IInv

(* A row that the step leaves alone.                                       *)
LEMMA RowStays ==
  ASSUME IInv, TablesMove, NEW j \in Slot, rows'[j] = rows[j]
  PROVE  RowMoves(j)
<1>1. CASE rows[j] = None
  BY <1>1 DEF RowMoves
<1>2. ASSUME rows[j] # None
      PROVE  /\ rows[j].at \in {"drop", "put", "complete"} => rows[j].held # None
             /\ rows[j].at \in {"put", "complete"} => rows[j].entry = rows[j].held.entry
             /\ rows[j].at = "put" => ~rows[j].cancelled
  BY <1>2 DEF IInv, RowsKnown
<1>3. ASSUME rows[j] # None, rows[j].at = "complete", ~Gone(rows[j].held.upload)'
      PROVE  payload'[rows[j].held.upload].version = rows[j].version
  <2>1. /\ rows[j] \in Row /\ rows[j].held \in Session /\ Recalls(rows[j].held, rows[j].doc)
    BY <1>2, <1>3 DEF IInv, TypeOK, Row, SessionsKnown
  <2>2. PICK u \in Upload : u = rows[j].held.upload
    BY <2>1 DEF Session
  <2>3. PICK v \in Version : v = rows[j].version
    BY <2>1 DEF Row
  <2>4. u \in drawn
    BY <2>1, <2>2 DEF Recalls
  <2>5. ~Gone(u)'
    BY <1>3, <2>2 DEF Gone
  <2>6. ~Gone(u)
    BY <2>4, <2>5 DEF TablesMove
  <2>7. payload[u].version = v
    BY <1>3, <2>2, <2>3, <2>6 DEF IInv, RowsKnown
  <2>8. v # None
    BY UploaderAssumption
  <2>. QED BY <2>2, <2>3, <2>4, <2>7, <2>8 DEF TablesMove
<1>4. rows[j] # None /\ rows[j].at = "complete" =>
        (~Gone(rows[j].held.upload)' => payload'[rows[j].held.upload].version = rows[j].version)
  BY <1>3
<1>. QED BY <1>1, <1>2, <1>4 DEF RowMoves, Gone

(* A step of one row keeps the invariant.                                  *)
LEMMA RequestKeeps ==
  ASSUME IInv, NEW k \in Slot, NEW new \in Row, Goes(k, new), RowMoves(k), TablesGo, SessionsMove,
         session' \in [Doc -> Session \cup {None}], sending' \in {sending, Idle},
         UNCHANGED asked, faults' \in 0 .. MaxFaults
  PROVE  IInv'
<1>1. /\ rows \in [Slot -> Row \cup {None}] /\ PageTyped
      /\ rows' = [rows EXCEPT ![k] = new]
  BY TypeParts DEF IInv, PageTyped, Goes
<1>2. \A j \in Slot : j # k => rows'[j] = rows[j]
  BY <1>1
<1>3. \A j \in Slot : RowMoves(j)
  <2>1. ASSUME NEW j \in Slot PROVE RowMoves(j)
    <3>1. CASE j = k
      BY <3>1
    <3>2. CASE j # k
      BY <1>2, <3>2, RowStays DEF TablesGo
    <3>. QED BY <3>1, <3>2
  <2>. QED BY <2>1
<1>4. PageMoves
  BY <1>3 DEF PageMoves, TablesGo, asked
<1>5. PageTyped'
  <2>1. rows' \in [Slot -> Row \cup {None}]
    BY <1>1
  <2>2. sending' \in [at : {"idle", "declare", "upload"}, entry : Message \cup {None}, rows : SUBSET Slot]
    BY <1>1 DEF PageTyped, Idle
  <2>. QED BY <1>1, <2>1, <2>2 DEF PageTyped, asked
<1>. QED BY <1>4, <1>5, StepKeeps DEF asked

(* Requests may fail so many times.                                        *)
LEMMA Faults ==
  ASSUME IInv, Works \/ Breaks
  PROVE  faults' \in 0 .. MaxFaults
BY UploaderAssumption DEF IInv, TypeOK, Works, Breaks

(* What a request leaves behind.                                           *)
LEMMA Leaving ==
  ASSUME IInv, NEW k \in Slot, rows[k] # None, rows[k].at \in Call,
         NEW to \in {"create", "stopped", "done", "failed", "commit"}, Leaves(k, to),
         to \in {"failed", "commit"} =>
           rows[k].retrying \/ sending'.at # "upload" \/ k \notin sending'.rows,
         to = "done" => rows[k].at = "commit" \/ Delivered(k)'
  PROVE  RowMoves(k) /\ \E new \in Row : Goes(k, new)
<1>. DEFINE new == [rows[k] EXCEPT !.at = to, !.held = None]
<1>1. rows[k] \in Row /\ rows \in [Slot -> Row \cup {None}]
  BY DEF IInv, TypeOK
<1>2. /\ new \in Row /\ new.at = to /\ new.held = None
      /\ new.entry = rows[k].entry /\ new.index = rows[k].index
      /\ new.doc = rows[k].doc /\ new.version = rows[k].version /\ new.group = rows[k].group
      /\ new.retrying = rows[k].retrying /\ new.cancelled = rows[k].cancelled
  BY <1>1 DEF Row, Call, Settled
<1>3. Goes(k, new)
  BY DEF Leaves
<1>4. rows'[k] = new /\ new # None
  BY <1>1, <1>2, <1>3, UploaderAssumption DEF Goes
<1>. HIDE DEF new
<1>5. RowMoves(k)
  BY <1>2, <1>4 DEF RowMoves, Call, Settled
<1>. QED BY <1>2, <1>3, <1>5

(* runUpload returns.                                                      *)
LEMMA Returning ==
  ASSUME IInv, NEW k \in Slot, rows[k] # None, rows[k].at \in Call,
         NEW how \in {"stopped", "done"}, Returns(k, how), how = "done" => Delivered(k)'
  PROVE  RowMoves(k) /\ \E new \in Row : Goes(k, new)
<1>1. CASE rows[k].retrying
  BY <1>1, Leaving DEF Returns
<1>2. CASE ~rows[k].retrying
  BY <1>2, Leaving DEF Returns
<1>. QED BY <1>1, <1>2

(* runUpload throws.                                                       *)
LEMMA Throwing ==
  ASSUME IInv, NEW k \in Slot, rows[k] # None, rows[k].at \in Call, Throws(k)
  PROVE  /\ RowMoves(k) /\ \E new \in Row : Goes(k, new)
         /\ sending' \in {sending, Idle} /\ session' = session
<1>1. CASE rows[k].cancelled
  BY <1>1, Returning DEF Throws
<1>2. CASE ~rows[k].cancelled
  <2>1. /\ Leaves(k, "failed") /\ session' = session
        /\ sending' = IF sending.at = "upload" /\ k \in sending.rows THEN Idle ELSE sending
    BY <1>2 DEF Throws
  <2>2. sending'.at # "upload" \/ k \notin sending'.rows
    BY <2>1 DEF Idle
  <2>. QED BY <2>1, <2>2, Leaving
<1>. QED BY <1>1, <1>2

(* A session is forgotten, or not.                                         *)
LEMMA Sessions ==
  ASSUME IInv, NEW d \in Doc,
         session' = session \/ session' = [session EXCEPT ![d] = None]
  PROVE  SessionsMove /\ session' \in [Doc -> Session \cup {None}]
BY DEF IInv, TypeOK, SessionsMove

(* The loop over the chunks begins.                                        *)
LEMMA Chunking ==
  ASSUME IInv, NEW k \in Slot, rows[k] # None, rows[k].at \in {"look", "create"},
         NEW s \in Session, NEW received \in BOOLEAN, Chunks(k, s, received),
         \/ rows[k].at = "look" /\ s = rows[k].held /\ ~Gone(s.upload)
         \/ rows[k].at = "create" /\ s.entry = rows[k].entry /\ s.index = rows[k].index,
         NEW d, d = rows[k].doc, Recalls(s, d)',
         received => payload'[s.upload].version = rows[k].version /\ s.entry \notin withdrawn
  PROVE  RowMoves(k) /\ \E new \in Row : Goes(k, new)
<1>. DEFINE at == IF received THEN "complete" ELSE "put"
            new == [rows[k] EXCEPT !.held = s, !.entry = s.entry, !.index = s.index, !.at = at]
<1>1. rows[k] \in Row /\ rows \in [Slot -> Row \cup {None}]
  BY DEF IInv, TypeOK
<1>2. s.entry \in Message /\ s.index \in Store!Index /\ s # None
  BY UploaderAssumption DEF Session
<1>3. CASE ~received /\ rows[k].cancelled
  <2>1. Returns(k, "stopped")
    BY <1>1, <1>3 DEF Chunks, Row
  <2>2. rows[k].at \in Call
    BY DEF Call
  <2>. QED BY <2>1, <2>2, Returning
<1>4. CASE received \/ ~rows[k].cancelled
  <2>1. Goes(k, new)
    <3>1. CASE received
      BY <1>1, <3>1 DEF Chunks, Row
    <3>2. CASE ~received
      BY <1>1, <1>4, <3>2 DEF Chunks, Row
    <3>. QED BY <3>1, <3>2
  <2>2. /\ new \in Row /\ new.at = at /\ new.held = s /\ new.entry = s.entry /\ new.index = s.index
        /\ new.doc = rows[k].doc /\ new.version = rows[k].version /\ new.group = rows[k].group
        /\ new.retrying = rows[k].retrying /\ new.cancelled = rows[k].cancelled
    <3>1. at \in Call
      BY DEF Call
    <3>. HIDE DEF at
    <3>. QED BY <1>1, <1>2, <3>1 DEF Row
  <2>3. rows'[k] = new /\ new # None
    BY <1>1, <2>1, <2>2, UploaderAssumption DEF Goes
  <2>4. at \in {"put", "complete"} /\ (at = "complete" => received) /\ (at = "put" => ~received)
    OBVIOUS
  <2>. HIDE DEF new, at
  <2>5. Recalls(rows[k].held, rows[k].doc)'
    BY <2>2, <2>3 DEF Recalls
  <2>6. RowMoves(k)
    <3>1. /\ rows'[k].entry = rows'[k].held.entry /\ rows'[k].held # None
          /\ rows'[k].at \in {"put", "complete"}
      BY <1>2, <2>2, <2>3, <2>4
    <3>2. rows'[k].at = "put" => ~rows'[k].cancelled
      BY <1>4, <2>2, <2>3, <2>4
    <3>3. rows'[k].at = "complete" =>
            /\ payload'[rows'[k].held.upload].version = rows'[k].version
            /\ rows'[k].held.entry \notin withdrawn
      BY <2>2, <2>3, <2>4
    <3>4. \/ rows'[k].entry = rows[k].entry /\ rows'[k].index = rows[k].index
          \/ /\ rows[k].at = "look" /\ ~Gone(rows[k].held.upload)
             /\ rows'[k].entry = rows[k].held.entry /\ rows'[k].index = rows[k].held.index
      BY <2>2, <2>3
    <3>5. \/ rows'[k].held = rows[k].held
          \/ /\ rows[k].at = "create" /\ rows'[k].held.entry = rows[k].entry
             /\ rows'[k].held.index = rows[k].index
      BY <2>2, <2>3
    <3>. QED BY <2>2, <2>3, <2>5, <3>1, <3>2, <3>3, <3>4, <3>5 DEF RowMoves, Settled
  <2>. QED BY <2>1, <2>2, <2>6
<1>. QED BY <1>3, <1>4

(* Of a row that waits for the answer about a session.                     *)
LEMMA Holding ==
  ASSUME IInv, NEW k \in Slot, rows[k] # None, rows[k].at \in {"look", "drop", "put", "complete"}
  PROVE  /\ rows[k] \in Row /\ rows[k].held \in Session /\ Mine(k) \in Upload
         /\ Recalls(rows[k].held, rows[k].doc)
         /\ rows[k].doc \in Doc /\ rows[k].version \in Version /\ Mine(k) \in drawn
         /\ uploads[Mine(k)] # None =>
              /\ ~Gone(Mine(k)) /\ uploads[Mine(k)].entry = rows[k].held.entry
              /\ payload[Mine(k)] \in Payload
<1>1. rows[k] \in Row /\ rows[k].held # None
  BY DEF IInv, TypeOK, RowsKnown
<1>2. /\ rows[k].held \in Session /\ Mine(k) \in Upload
      /\ rows[k].doc \in Doc /\ rows[k].version \in Version
  BY <1>1 DEF Row, Session, Mine
<1>3. Recalls(rows[k].held, rows[k].doc)
  BY <1>1 DEF IInv, SessionsKnown
<1>4. Mine(k) \in drawn
  BY <1>3 DEF Recalls, Mine
<1>5. ASSUME uploads[Mine(k)] # None
      PROVE  /\ ~Gone(Mine(k)) /\ uploads[Mine(k)].entry = rows[k].held.entry
             /\ payload[Mine(k)] \in Payload
  <2>1. ~Gone(Mine(k)) /\ RowOf(Mine(k)) = uploads[Mine(k)]
    BY <1>2, <1>5, Known
  <2>2. payload[Mine(k)] # None
    BY <1>4 DEF IInv, TablesKnown
  <2>. QED BY <1>2, <1>3, <2>1, <2>2 DEF Recalls, Mine, IInv, TypeOK
<1>. QED BY <1>1, <1>2, <1>3, <1>4, <1>5

(* Is the session of an earlier try still there, with the same contents?   *)
LEMMA LookKeeps ==
  ASSUME IInv, NEW k \in Slot, Look(k)
  PROVE  IInv'
<1>. DEFINE u == Mine(k)
<1>1. rows[k] # None /\ rows[k].at = "look" /\ rows[k].at \in Call
  BY DEF Look, At, Call
<1>2. /\ rows[k] \in Row /\ rows[k].held \in Session /\ u \in Upload
      /\ Recalls(rows[k].held, rows[k].doc) /\ rows[k].doc \in Doc
      /\ uploads[u] # None =>
           ~Gone(u) /\ uploads[u].entry = rows[k].held.entry /\ payload[u] \in Payload
  BY <1>1, Holding
<1>3. faults' \in 0 .. MaxFaults /\ TablesGo /\ sending' = sending /\ UNCHANGED asked
  BY Faults, TablesStay DEF Look, Fails
<1>4. CASE Afresh(k)
  BY <1>1, <1>2, <1>3, <1>4, Leaving, Sessions, RequestKeeps DEF Afresh, Forgets
<1>5. CASE /\ uploads[u] # None /\ UNCHANGED <<tables, session>>
           /\ Verified(k) /\ Chunks(k, rows[k].held, payload[u].version # None)
  <2>1. PICK s \in Session : s = rows[k].held
    BY <1>2
  <2>2. PICK d \in Doc : d = rows[k].doc
    BY <1>2
  <2>3. Recalls(s, d)'
    BY <1>2, <1>3, <2>1, <2>2, RecallsKeep DEF TablesGo, asked
  <2>4. ~Gone(s.upload) /\ s.upload = u /\ payload' = payload
    BY <1>2, <1>5, <2>1 DEF Mine, tables
  <2>5. RowMoves(k) /\ \E new \in Row : Goes(k, new)
    <3>1. CASE payload[u].version # None
      <4>1. payload'[s.upload].version = rows[k].version
        BY <1>5, <2>4, <3>1 DEF Verified
      <4>2. s.entry \notin withdrawn
        BY <1>2, <1>5, <2>1, <3>1 DEF IInv, NothingComes
      <4>3. Chunks(k, s, TRUE)
        BY <1>5, <2>1, <3>1 DEF Chunks
      <4>. QED BY <1>1, <2>1, <2>2, <2>3, <2>4, <4>1, <4>2, <4>3, Chunking
    <3>2. CASE payload[u].version = None
      <4>1. Chunks(k, s, FALSE)
        BY <1>5, <2>1, <3>2 DEF Chunks
      <4>. QED BY <1>1, <2>1, <2>2, <2>3, <2>4, <4>1, Chunking
    <3>. QED BY <3>1, <3>2
  <2>6. SessionsMove /\ session' \in [Doc -> Session \cup {None}]
    BY <1>2, <1>5, Sessions
  <2>. QED BY <1>3, <2>5, <2>6, RequestKeeps
<1>6. CASE /\ uploads[u] # None /\ UNCHANGED <<tables, session>>
           /\ Goes(k, [rows[k] EXCEPT !.at = "drop"])
  <2>. DEFINE new == [rows[k] EXCEPT !.at = "drop"]
  <2>1. /\ new \in Row /\ new.at = "drop" /\ new.held = rows[k].held
        /\ new.entry = rows[k].entry /\ new.index = rows[k].index
        /\ new.doc = rows[k].doc /\ new.version = rows[k].version /\ new.group = rows[k].group
        /\ new.retrying = rows[k].retrying /\ new.cancelled = rows[k].cancelled
    BY <1>2 DEF Row, Call
  <2>2. rows'[k] = new /\ new # None /\ new.held # None
    BY <1>2, <1>6, <2>1, UploaderAssumption DEF Goes, IInv, TypeOK
  <2>. HIDE DEF new
  <2>3. RowMoves(k)
    BY <1>1, <2>1, <2>2 DEF RowMoves, Settled
  <2>4. SessionsMove /\ session' \in [Doc -> Session \cup {None}]
    BY <1>2, <1>6, Sessions
  <2>. QED BY <1>3, <1>6, <2>1, <2>3, <2>4, RequestKeeps DEF new
<1>. QED BY <1>4, <1>5, <1>6 DEF Look

(* If not, it is given up.                                                 *)
LEMMA DropKeeps ==
  ASSUME IInv, NEW k \in Slot, Drop(k)
  PROVE  IInv'
<1>. DEFINE u == Mine(k)
<1>1. rows[k] # None /\ rows[k].at = "drop" /\ rows[k].at \in Call
  BY DEF Drop, At, Call
<1>2. u \in Upload /\ rows[k].doc \in Doc
  BY <1>1, Holding
<1>3. TablesGo
  <2>1. CASE Store!AbortUpload(u) /\ UNCHANGED payload
    BY <1>2, <2>1, AbortMoves
  <2>2. CASE UNCHANGED tables
    BY <2>2, TablesStay
  <2>. QED BY <2>1, <2>2 DEF Drop, Fails
<1>4. faults' \in 0 .. MaxFaults /\ sending' = sending /\ UNCHANGED asked /\ Afresh(k)
  BY Faults DEF Drop, Fails
<1>. QED BY <1>1, <1>2, <1>3, <1>4, Leaving, Sessions, RequestKeeps DEF Afresh, Forgets

(* A request whose answer does not come, or is an error.                   *)
LEMMA ThrowKeeps ==
  ASSUME IInv, NEW k \in Slot, rows[k] # None, rows[k].at \in Call, Throws(k), TablesGo,
         UNCHANGED asked, faults' \in 0 .. MaxFaults
  PROVE  IInv'
<1>1. /\ RowMoves(k) /\ \E new \in Row : Goes(k, new)
      /\ sending' \in {sending, Idle} /\ session' = session
  BY Throwing
<1>2. SessionsMove /\ session' \in [Doc -> Session \cup {None}]
  BY <1>1 DEF SessionsMove, IInv, TypeOK
<1>. QED BY <1>1, <1>2, RequestKeeps

(* A session is asked for.                                                 *)
LEMMA CreateKeeps ==
  ASSUME IInv, NEW k \in Slot, Create(k)
  PROVE  IInv'
<1>. DEFINE e == rows[k].entry  i == rows[k].index
<1>1. /\ rows[k] # None /\ rows[k].at = "create" /\ rows[k].at \in Call /\ rows[k] \in Row
      /\ At(k, "create")
  BY DEF Create, At, Call, IInv, TypeOK
<1>2. faults' \in 0 .. MaxFaults /\ UNCHANGED asked
  BY Faults DEF Create, Fails
<1>3. CASE Throws(k) /\ UNCHANGED tables
  BY <1>1, <1>2, <1>3, TablesStay, ThrowKeeps
<1>4. ASSUME NEW u \in Upload, Store!Admits(TheRoom, e, i), Store!CreateUpload(u, TheRoom, e, i, 1),
             payload' = [payload EXCEPT ![u] = [doc |-> rows[k].doc, version |-> None]],
             NEW s, s = [upload |-> u, entry |-> e, index |-> i],
             \/ /\ Chunks(k, s, FALSE) /\ UNCHANGED sending
                /\ session' = [session EXCEPT ![rows[k].doc] = s]
             \/ Throws(k)
      PROVE  IInv'
  <2>1. /\ TablesGo /\ u \in drawn' /\ payload'[u].doc = rows[k].doc
        /\ RowOf(u)'.entry = e /\ RowOf(u)'.index = i
    BY <1>1, <1>4, CreateMoves
  <2>2. CASE Throws(k)
    BY <1>1, <1>2, <2>1, <2>2, ThrowKeeps
  <2>3. CASE /\ Chunks(k, s, FALSE) /\ UNCHANGED sending
             /\ session' = [session EXCEPT ![rows[k].doc] = s]
    <3>1. e \in Message /\ e \in sent
      BY <1>1 DEF IInv, RowsKnown, Row
    <3>2. s \in Session /\ s.upload = u /\ s.entry = e /\ s.index = i
      BY <1>1, <1>4, <3>1 DEF Session, Row
    <3>3. PICK d \in Doc : d = rows[k].doc
      BY <1>1 DEF Row
    <3>4. e \in sent'
      BY <1>2, <3>1 DEF asked
    <3>5. Recalls(s, d)'
      BY <2>1, <3>2, <3>3, <3>4 DEF Recalls
    <3>6. RowMoves(k) /\ \E new \in Row : Goes(k, new)
      BY <1>1, <2>3, <3>2, <3>3, <3>5, Chunking
    <3>7. session \in [Doc -> Session \cup {None}]
      BY DEF IInv, TypeOK
    <3>8. /\ session' \in [Doc -> Session \cup {None}] /\ session'[d] = s
          /\ \A x \in Doc : x # d => session'[x] = session[x]
      BY <2>3, <3>2, <3>3, <3>7
    <3>9. SessionsMove
      <4>1. s # None
        BY <3>2, UploaderAssumption
      <4>2. Sends(e, i)
        BY <1>1 DEF Sends
      <4>3. Recalls(session[d], d)'
        BY <3>5, <3>8 DEF Recalls
      <4>. QED BY <3>2, <3>8, <4>1, <4>2, <4>3 DEF SessionsMove
    <3>. QED BY <1>2, <2>1, <2>3, <3>6, <3>8, <3>9, RequestKeeps
  <2>. QED BY <1>4, <2>2, <2>3
<1>5. \/ Throws(k) /\ UNCHANGED tables
      \/ \E u \in Upload :
           /\ Store!Admits(TheRoom, e, i) /\ Store!CreateUpload(u, TheRoom, e, i, 1)
           /\ payload' = [payload EXCEPT ![u] = [doc |-> rows[k].doc, version |-> None]]
           /\ \E s : /\ s = [upload |-> u, entry |-> e, index |-> i]
                     /\ \/ /\ Chunks(k, s, FALSE) /\ UNCHANGED sending
                           /\ session' = [session EXCEPT ![rows[k].doc] = s]
                        \/ Throws(k)
  <2>. DEFINE x == CHOOSE y \in Upload \ drawn : TRUE
  <2>1. drawn \subseteq Upload
    BY DEF IInv, TypeOK
  <2>2. drawn # Upload => x \in Upload
    BY <2>1
  <2>. HIDE DEF x
  <2>3. \/ Throws(k) /\ UNCHANGED tables
        \/ /\ drawn # Upload /\ Store!Admits(TheRoom, e, i) /\ Store!CreateUpload(x, TheRoom, e, i, 1)
           /\ payload' = [payload EXCEPT ![x] = [doc |-> rows[k].doc, version |-> None]]
           /\ \/ /\ Chunks(k, [upload |-> x, entry |-> e, index |-> i], FALSE) /\ UNCHANGED sending
                 /\ session' = [session EXCEPT ![rows[k].doc] = [upload |-> x, entry |-> e, index |-> i]]
              \/ Throws(k)
    BY DEF Create, Fails, x
  <2>. QED BY <2>2, <2>3
<1>. QED BY <1>3, <1>4, <1>5

(* The contents are sent.                                                  *)
LEMMA PutKeeps ==
  ASSUME IInv, NEW k \in Slot, Put(k)
  PROVE  IInv'
<1>. DEFINE u == Mine(k)
<1>1. /\ rows[k] # None /\ rows[k].at = "put" /\ rows[k].at \in Call
      /\ At(k, "put")
  BY DEF Put, At, Call
<1>2. /\ rows[k] \in Row /\ rows[k].held \in Session /\ u \in Upload
      /\ uploads[u] # None => ~Gone(u) /\ uploads[u].entry = rows[k].held.entry
  BY <1>1, Holding
<1>3. faults' \in 0 .. MaxFaults /\ UNCHANGED asked
  BY Faults DEF Put, Fails
<1>4. CASE Throws(k) /\ UNCHANGED tables
  BY <1>1, <1>3, <1>4, TablesStay, ThrowKeeps
<1>5. CASE /\ uploads[u] # None /\ payload[u].version \in {None, rows[k].version}
           /\ payload' = [payload EXCEPT ![u].version = rows[k].version]
           /\ UNCHANGED <<entries, uploads, files, drawn>>
           /\ \/ /\ Goes(k, [rows[k] EXCEPT !.at = "complete"]) /\ UNCHANGED <<sending, session>>
              \/ Throws(k)
  <2>1. TablesGo /\ payload'[u].version = rows[k].version
    BY <1>1, <1>5, PutMoves
  <2>2. CASE Throws(k)
    BY <1>1, <1>3, <2>1, <2>2, ThrowKeeps
  <2>3. CASE Goes(k, [rows[k] EXCEPT !.at = "complete"]) /\ UNCHANGED <<sending, session>>
    <3>. DEFINE new == [rows[k] EXCEPT !.at = "complete"]
    <3>1. /\ new \in Row /\ new.at = "complete" /\ new.held = rows[k].held
          /\ new.entry = rows[k].entry /\ new.index = rows[k].index
          /\ new.doc = rows[k].doc /\ new.version = rows[k].version /\ new.group = rows[k].group
          /\ new.retrying = rows[k].retrying /\ new.cancelled = rows[k].cancelled
      BY <1>2 DEF Row, Call
    <3>2. rows'[k] = new /\ new # None /\ new.held # None
      BY <1>2, <2>3, <3>1, UploaderAssumption DEF Goes, IInv, TypeOK
    <3>. HIDE DEF new
    <3>3. /\ rows[k].entry = rows[k].held.entry /\ rows[k].entry \notin withdrawn
      BY <1>1 DEF IInv, RowsKnown, NothingComes, Settled
    <3>4. payload'[new.held.upload].version = new.version
      BY <2>1, <3>1 DEF Mine
    <3>5. RowMoves(k)
      BY <1>1, <3>1, <3>2, <3>3, <3>4 DEF RowMoves, Settled
    <3>6. SessionsMove /\ session' \in [Doc -> Session \cup {None}]
      BY <2>3 DEF SessionsMove, IInv, TypeOK
    <3>. QED BY <1>3, <2>1, <2>3, <3>1, <3>5, <3>6, RequestKeeps DEF new
  <2>. QED BY <1>5, <2>2, <2>3
<1>. QED BY <1>4, <1>5 DEF Put, Fails

(* The upload is completed.                                                *)
LEMMA CompleteKeeps ==
  ASSUME IInv, NEW k \in Slot, Complete(k)
  PROVE  IInv'
<1>1. rows[k] # None /\ rows[k].at = "complete" /\ rows[k].at \in Call
  BY DEF Complete, At, Call
<1>2. PICK u \in Upload : u = Mine(k)
  BY <1>1, Holding
<1>3. /\ rows[k] \in Row /\ rows[k].held \in Session
      /\ Recalls(rows[k].held, rows[k].doc) /\ rows[k].doc \in Doc /\ rows[k].version \in Version
      /\ u \in drawn
  BY <1>2, <1>1, Holding
<1>4. faults' \in 0 .. MaxFaults /\ UNCHANGED asked
  BY Faults DEF Complete, Fails
<1>5. CASE Throws(k) /\ UNCHANGED tables
  BY <1>1, <1>4, <1>5, TablesStay, ThrowKeeps
<1>6. CASE /\ \/ /\ uploads[u] # None /\ payload[u].version # None
                 /\ Store!CompleteUpload(u) /\ UNCHANGED payload
              \/ files[u] # None /\ UNCHANGED tables
           /\ \/ Returns(k, "done") /\ Forgets(k) /\ UNCHANGED sending
              \/ Throws(k)
  <2>1. TablesGo /\ files'[u] # None /\ ~Gone(u)
    <3>1. CASE /\ uploads[u] # None /\ payload[u].version # None
               /\ Store!CompleteUpload(u) /\ UNCHANGED payload
      BY <1>3, <3>1, CompleteMoves DEF Gone
    <3>2. CASE files[u] # None /\ UNCHANGED tables
      BY <3>2, TablesStay DEF tables, Gone
    <3>. QED BY <1>6, <3>1, <3>2
  <2>2. CASE Throws(k)
    BY <1>1, <1>4, <2>1, <2>2, ThrowKeeps
  <2>3. CASE Returns(k, "done") /\ Forgets(k) /\ UNCHANGED sending
    <3>1. ~Gone(u)' /\ RowOf(u)' = files'[u]
      BY <2>1 DEF Gone, RowOf
    <3>2. files'[u].entry = rows[k].entry
      BY <1>2, <1>1, <1>3, <2>1, <3>1 DEF TablesGo, TablesMove, Recalls, Mine, IInv, RowsKnown
    <3>3. payload[u].doc = rows[k].doc /\ payload[u].version = rows[k].version
      BY <1>2, <1>1, <1>3, <2>1 DEF Recalls, Mine, IInv, RowsKnown
    <3>4. /\ payload'[u] # None /\ payload'[u].doc = rows[k].doc
          /\ payload'[u].version = rows[k].version
      BY <1>3, <2>1, <3>3, UploaderAssumption DEF TablesGo, TablesMove
    <3>5. payload'[u] \in Payload
      BY <1>3, <2>1, <3>4 DEF TablesGo, TablesTyped
    <3>6. payload'[u] = [doc |-> rows[k].doc, version |-> rows[k].version]
      BY <3>4, <3>5 DEF Payload
    <3>7. rows'[k].entry = rows[k].entry /\ rows'[k].doc = rows[k].doc /\ rows'[k].version = rows[k].version
      BY <1>3, <2>3 DEF Returns, Leaves, Goes, Row, IInv, TypeOK
    <3>8. Delivered(k)'
      BY <1>3, <2>1, <3>2, <3>6, <3>7 DEF Delivered
    <3>9. RowMoves(k) /\ \E new \in Row : Goes(k, new)
      BY <1>1, <2>3, <3>8, Returning
    <3>10. SessionsMove /\ session' \in [Doc -> Session \cup {None}]
      BY <1>3, <2>3, Sessions DEF Forgets
    <3>. QED BY <1>4, <2>1, <2>3, <3>9, <3>10, RequestKeeps
  <2>. QED BY <1>6, <2>2, <2>3
<1>. QED BY <1>2, <1>5, <1>6 DEF Complete, Fails

(* After a retry the row commits the message itself.                       *)
LEMMA CommitAgainKeeps ==
  ASSUME IInv, NEW k \in Slot, CommitAgain(k)
  PROVE  IInv'
<1>1. rows[k] # None /\ rows[k].at = "commit" /\ rows[k].at \in Call /\ rows[k].entry \in Message
  BY DEF CommitAgain, At, Call, IInv, TypeOK, RowsKnown, Row
<1>2. TablesGo
  <2>1. CASE Commit(rows[k].entry)
    BY <1>1, <2>1, CommitMoves
  <2>2. CASE UNCHANGED tables
    BY <2>2, TablesStay
  <2>. QED BY <2>1, <2>2 DEF CommitAgain, Fails
<1>3. faults' \in 0 .. MaxFaults /\ UNCHANGED <<sending, session, asked>> /\ Leaves(k, "done")
  BY Faults DEF CommitAgain, Fails
<1>4. RowMoves(k) /\ \E new \in Row : Goes(k, new)
  BY <1>1, <1>3, Leaving
<1>5. SessionsMove /\ session' \in [Doc -> Session \cup {None}]
  BY <1>3 DEF SessionsMove, IInv, TypeOK
<1>. QED BY <1>2, <1>3, <1>4, <1>5, RequestKeeps

(* A button of a row, or of all rows of its message.                       *)
LEMMA CancelKeeps ==
  ASSUME IInv, NEW k \in Slot, Cancel(k)
  PROVE  IInv'
<1>1. /\ rows[k] # None /\ rows \in [Slot -> Row \cup {None}]
      /\ session \in [Doc -> Session \cup {None}]
  BY DEF Cancel, IInv, TypeOK
<1>2. /\ UNCHANGED tables /\ sending' = sending /\ sent' = sent /\ withdrawn' = withdrawn
      /\ sends' = sends /\ faults' = faults
      /\ \A j \in Slot : rows'[j] = IF j \in Group(k) THEN CancelledRow(j) ELSE rows[j]
      /\ rows' = [j \in Slot |-> IF j \in Group(k) THEN CancelledRow(j) ELSE rows[j]]
      /\ session' = [d \in Doc |-> IF \E j \in Group(k) : rows[j].doc = d THEN None ELSE session[d]]
      /\ deletes' = IF Started(k) THEN deletes \cup {rows[k].entry} ELSE deletes
  BY DEF Cancel
<1>3. \A j \in Group(k) : j \in Slot /\ rows[j] # None
  BY <1>1 DEF Group, Started, IInv, Groups, Row
<1>4. TablesGo
  BY <1>2, TablesStay
<1>5. ASSUME NEW j \in Group(k)
      PROVE  /\ CancelledRow(j) \in Row /\ CancelledRow(j) # None
             /\ CancelledRow(j).doc = rows[j].doc /\ CancelledRow(j).version = rows[j].version
             /\ CancelledRow(j).group = rows[j].group /\ CancelledRow(j).retrying = rows[j].retrying
             /\ CancelledRow(j).cancelled
             /\ CancelledRow(j).entry = rows[j].entry /\ CancelledRow(j).index = rows[j].index
             /\ \/ CancelledRow(j).at = rows[j].at /\ CancelledRow(j).held = rows[j].held
                   /\ rows[j].at # "put"
                \/ /\ CancelledRow(j).at = "stopped" /\ rows[j].at \in {"put", "failed"}
                   /\ CancelledRow(j).held \in {None, rows[j].held}
                \/ /\ CancelledRow(j).at = "commit" /\ rows[j].at = "put" /\ rows[j].retrying
                   /\ CancelledRow(j).held = None
  <2>1. rows[j] \in Row
    BY <1>1, <1>3
  <2>. DEFINE row == [rows[j] EXCEPT !.cancelled = TRUE, !.shown = FALSE]
  <2>2. /\ row \in Row /\ row.doc = rows[j].doc /\ row.version = rows[j].version
        /\ row.group = rows[j].group /\ row.retrying = rows[j].retrying /\ row.cancelled
        /\ row.entry = rows[j].entry /\ row.index = rows[j].index
        /\ row.at = rows[j].at /\ row.held = rows[j].held
    BY <2>1 DEF Row
  <2>3. CancelledRow(j) =
          IF row.at = "put"
          THEN [row EXCEPT !.at = IF row.retrying THEN "commit" ELSE "stopped", !.held = None]
          ELSE IF row.at = "failed" THEN [row EXCEPT !.at = "stopped"]
          ELSE row
    BY DEF CancelledRow
  <2>. HIDE DEF row
  <2>4. CASE row.at = "put"
    <3>. DEFINE to == IF row.retrying THEN "commit" ELSE "stopped"
    <3>1. to \in Call \cup Settled /\ (to = "commit" => row.retrying) /\ to \in {"commit", "stopped"}
      BY DEF Call, Settled
    <3>2. CancelledRow(j) = [row EXCEPT !.at = to, !.held = None]
      BY <2>3, <2>4
    <3>. HIDE DEF to
    <3>3. CancelledRow(j) \in Row
      BY <2>2, <3>1, <3>2 DEF Row
    <3>4. /\ CancelledRow(j).at = to /\ CancelledRow(j).held = None
          /\ CancelledRow(j).doc = row.doc /\ CancelledRow(j).version = row.version
          /\ CancelledRow(j).group = row.group /\ CancelledRow(j).retrying = row.retrying
          /\ CancelledRow(j).cancelled = row.cancelled
          /\ CancelledRow(j).entry = row.entry /\ CancelledRow(j).index = row.index
      BY <2>2, <3>2 DEF Row
    <3>5. CancelledRow(j) # None
      BY <3>3, UploaderAssumption
    <3>. QED BY <2>2, <2>4, <3>1, <3>3, <3>4, <3>5
  <2>5. CASE row.at = "failed"
    <3>1. CancelledRow(j) = [row EXCEPT !.at = "stopped"]
      BY <2>3, <2>5
    <3>2. CancelledRow(j) \in Row
      BY <2>2, <3>1 DEF Row, Settled
    <3>. QED BY <2>2, <2>5, <3>1, <3>2, UploaderAssumption DEF Row
  <2>6. CASE row.at # "put" /\ row.at # "failed"
    BY <2>2, <2>3, <2>6, UploaderAssumption
  <2>. QED BY <2>4, <2>5, <2>6
<1>6. ASSUME NEW j \in Slot PROVE RowMoves(j)
  <2>1. CASE j \in Group(k)
    <3>1. rows'[j] = CancelledRow(j) /\ rows[j] # None
      BY <1>2, <1>3, <2>1
    <3>. DEFINE row == CancelledRow(j)
    <3>2. CASE row.at = rows[j].at /\ row.held = rows[j].held /\ rows[j].at # "put"
      <4>1. rows[j].at = "complete" => rows[j].held # None /\ rows[j].entry = rows[j].held.entry
        BY <3>1 DEF IInv, RowsKnown
      <4>2. rows[j].at = "drop" => rows[j].held # None
        BY <3>1 DEF IInv, RowsKnown
      <4>3. rows[j].at = "complete" =>
              (~Gone(rows[j].held.upload) => payload[rows[j].held.upload].version = rows[j].version)
        BY <3>1 DEF IInv, RowsKnown
      <4>4. uploads' = uploads /\ files' = files /\ payload' = payload
        BY <1>2 DEF tables
      <4>5. rows[j].at = "complete" =>
              (~Gone(rows[j].held.upload)' => payload'[row.held.upload].version = row.version)
        BY <1>5, <2>1, <3>1, <3>2, <4>3, <4>4 DEF Gone
      <4>. QED BY <1>5, <2>1, <3>1, <3>2, <4>1, <4>2, <4>5 DEF RowMoves
    <3>3. CASE row.at = "stopped" /\ rows[j].at \in {"put", "failed"} /\ row.held \in {None, rows[j].held}
      BY <1>5, <2>1, <3>1, <3>3 DEF RowMoves, Settled
    <3>4. CASE row.at = "commit" /\ rows[j].at = "put" /\ rows[j].retrying /\ row.held = None
      <4>1. /\ rows[j].at \notin Settled \cup {"ready", "failed", "commit"}
            /\ rows'[j].at = "commit" /\ rows'[j].held = None
        BY <3>1, <3>4 DEF Settled
      <4>2. /\ rows'[j] # None /\ rows'[j].doc = rows[j].doc /\ rows'[j].version = rows[j].version
            /\ rows'[j].group = rows[j].group /\ rows'[j].retrying = rows[j].retrying
            /\ rows'[j].entry = rows[j].entry /\ rows'[j].index = rows[j].index
        BY <1>5, <2>1, <3>1
      <4>3. rows'[j].cancelled
        BY <1>5, <2>1, <3>1
      <4>4. rows'[j].at \in {"failed", "commit"} =>
              \/ rows'[j].at = rows[j].at \/ rows[j].retrying
              \/ sending'.at # "upload" \/ j \notin sending'.rows
        BY <3>4
      <4>. QED BY <3>1, <4>1, <4>2, <4>3, <4>4 DEF RowMoves
    <3>. QED BY <1>5, <2>1, <3>2, <3>3, <3>4
  <2>2. CASE j \notin Group(k)
    BY <1>2, <1>4, <2>2, RowStays DEF TablesGo
  <2>. QED BY <2>1, <2>2
<1>7. SessionsMove /\ session' \in [Doc -> Session \cup {None}]
  BY <1>1, <1>2 DEF SessionsMove
<1>8. PageMoves
  BY <1>2, <1>4, <1>6, <1>7 DEF PageMoves, TablesGo
<1>9. PageTyped'
  <2>1. rows' \in [Slot -> Row \cup {None}]
    BY <1>1, <1>2, <1>5
  <2>2. deletes' \subseteq sent
    <3>1. Started(k) => rows[k].entry \in sent
      BY <1>1 DEF Started, IInv, RowsKnown
    <3>. QED BY <1>2, <3>1 DEF IInv, TypeOK
  <2>. QED BY <1>2, <1>7, <2>1, <2>2 DEF PageTyped, IInv, TypeOK
<1>. QED BY <1>2, <1>4, <1>8, <1>9, StepKeeps

-----------------------------------------------------------------------------
(* What happens to the tables while the list stays as it is.               *)
LEMMA TablesOnlyKeep ==
  ASSUME IInv, TablesGo, UNCHANGED <<rows, session, sent, sends>>, sending' \in {sending, Idle},
         deletes' \subseteq deletes, withdrawn' \subseteq sent, faults' \in 0 .. MaxFaults,
         \A e \in withdrawn' : e \in withdrawn \/ Clear(e)'
  PROVE  IInv'
<1>1. \A j \in Slot : RowMoves(j)
  BY RowStays DEF TablesGo
<1>2. PageMoves
  BY <1>1 DEF PageMoves, TablesGo, SessionsMove
<1>3. PageTyped'
  BY DEF PageTyped, IInv, TypeOK, Idle
<1>. QED BY <1>2, <1>3, StepKeeps

(* The request of a cancel: the message goes, and is withdrawn.            *)
LEMMA DeleteKeeps ==
  ASSUME IInv, NEW e \in Message, DeleteEntry(e)
  PROVE  IInv'
<1>1. /\ UNCHANGED <<rows, session, sent, sends>> /\ sending' = sending
      /\ deletes' \subseteq deletes /\ faults' \in 0 .. MaxFaults /\ e \in sent
  BY Faults DEF DeleteEntry, Fails, page, IInv, TypeOK
<1>2. withdrawn \subseteq sent
  BY DEF IInv, TypeOK
<1>3. CASE UNCHANGED <<tables, withdrawn>>
  BY <1>1, <1>2, <1>3, TablesStay, TablesOnlyKeep
<1>4. CASE /\ IF HasRows(e) THEN Store!DeleteEntry(TheRoom, e) /\ UNCHANGED payload ELSE UNCHANGED tables
           /\ withdrawn' = IF SentInto(e) THEN withdrawn ELSE withdrawn \cup {e}
  <2>1. TablesGo /\ \A u \in Upload : ~Gone(u)' => RowOf(u)'.entry # e
    <3>1. CASE HasRows(e)
      BY <1>4, <3>1, DeleteMoves
    <3>2. CASE ~HasRows(e)
      <4>1. UNCHANGED tables
        BY <1>4, <3>2
      <4>2. ASSUME NEW u \in Upload, ~Gone(u), RowOf(u).entry = e PROVE FALSE
        <5>1. CASE files[u] # None
          <6>1. files[u].entry = e /\ files[u].room = TheRoom
            BY <4>2, <5>1, Known DEF IInv, TypeOK, Store!FileRow
          <6>. QED BY <3>2, <5>1, <6>1 DEF HasRows, Store!Of, Store!In
        <5>2. CASE uploads[u] # None
          <6>1. uploads[u].entry = e /\ uploads[u].room = TheRoom
            BY <4>2, <5>2, Known DEF IInv, TypeOK, Store!FileRow
          <6>. QED BY <3>2, <5>2, <6>1 DEF HasRows, Store!Of, Store!In
        <5>. QED BY <4>2, <5>1, <5>2, Known
      <4>. QED BY <4>1, <4>2, TablesStay DEF tables, Gone, RowOf
    <3>. QED BY <3>1, <3>2
  <2>2. ASSUME NEW x \in withdrawn' PROVE x \in withdrawn \/ Clear(x)'
    <3>1. SUFFICES ASSUME x \notin withdrawn PROVE Clear(x)'
      OBVIOUS
    <3>2. x = e /\ ~SentInto(e)
      BY <1>4, <2>2, <3>1
    <3>3. ~SentInto(e)'
      BY <1>1, <3>2 DEF SentInto
    <3>. QED BY <2>1, <3>2, <3>3 DEF Clear
  <2>. QED BY <1>1, <1>2, <1>4, <2>1, <2>2, TablesOnlyKeep
<1>. QED BY <1>3, <1>4 DEF DeleteEntry, Fails

(* Rows of the tables expire.                                              *)
LEMMA ExpiresKeeps == ASSUME IInv, Expires PROVE IInv'
<1>1. /\ UNCHANGED <<rows, session, sent, sends, deletes, withdrawn>> /\ sending' = sending
      /\ faults' \in 0 .. MaxFaults /\ payload' = payload
  BY Faults DEF Expires, page, asked
<1>2. TablesGo
  BY <1>1, AbortMoves, DeleteMoves DEF Expires
<1>. QED BY <1>1, <1>2, TablesOnlyKeep DEF IInv, TypeOK

(* The page commits what it has sent, or fails to.                         *)
LEMMA CommitKeeps == ASSUME IInv, CommitSent \/ CommitFails PROVE IInv'
<1>1. /\ UNCHANGED <<rows, session, sent, sends, deletes, withdrawn>> /\ sending' = Idle
      /\ faults' \in 0 .. MaxFaults /\ sending.at = "upload"
  BY Faults DEF CommitSent, CommitFails, AllUploaded, Fails, asked
<1>2. PICK e \in Message : e = sending.entry
  BY <1>1 DEF IInv, Sending, TypeOK
<1>3. TablesGo
  <2>1. CASE Commit(e)
    BY <2>1, CommitMoves
  <2>2. CASE UNCHANGED tables
    BY <2>2, TablesStay
  <2>. QED BY <1>2, <2>1, <2>2 DEF CommitSent, CommitFails, Fails
<1>. QED BY <1>1, <1>3, TablesOnlyKeep DEF IInv, TypeOK

-----------------------------------------------------------------------------
(* The rows of S begin anew or go, others stay with their message or go.   *)
LEMMA ListKeeps ==
  ASSUME IInv, TypeOK', UNCHANGED <<uploads, files, drawn, payload, session>>,
         sent \subseteq sent', withdrawn' \subseteq withdrawn, NEW S \in SUBSET Slot,
         \A k \in Slot \ S : rows'[k] # None =>
           rows'[k] = rows[k] /\ \A j \in rows[k].group : j \notin S /\ rows'[j] = rows[j],
         \A k \in S : rows'[k] # None =>
           LET row == rows'[k] IN
           /\ \/ row.at = "ready" /\ row.entry = None /\ row.group = {} /\ row.held = None
              \/ /\ row.at = "create" \/ (row.at = "look" /\ row.held # None)
                 /\ row.entry \in sent' \ withdrawn' /\ row.held = session[row.doc]
                 /\ row.held # None => row.held.entry \notin withdrawn'
           /\ row.group = {} \/ (row.group = S /\ \A j \in S : rows'[j] # None /\ rows'[j].group = S)
  PROVE  SessionsKnown' /\ RowsKnown' /\ Groups' /\ NothingComes'
<1>1. \A u : Gone(u)' <=> Gone(u)
  BY DEF Gone
<1>2. \A u : RowOf(u)' = RowOf(u)
  BY DEF RowOf
<1>3. ASSUME NEW s, NEW d, Recalls(s, d) PROVE Recalls(s, d)'
  BY <1>3 DEF Recalls, Gone, RowOf
<1>4. ASSUME NEW k \in Slot, k \notin S, rows'[k] # None
      PROVE  rows'[k] = rows[k] /\ \A j \in rows[k].group : j \notin S /\ rows'[j] = rows[j]
  BY <1>4
<1>5. ASSUME NEW k \in S, rows'[k] # None
      PROVE  LET row == rows'[k] IN
             /\ row \in Row /\ row.doc \in Doc /\ k \in Slot
             /\ \/ row.at = "ready" /\ row.entry = None /\ row.group = {} /\ row.held = None
                \/ /\ row.at = "create" \/ (row.at = "look" /\ row.held # None)
                   /\ row.entry \in sent' \ withdrawn' /\ row.held = session[row.doc]
                   /\ row.held # None => row.held.entry \notin withdrawn'
             /\ row.group = {} \/ (row.group = S /\ \A j \in S : rows'[j] # None /\ rows'[j].group = S)
  <2>1. rows'[k] \in Row /\ rows'[k].doc \in Doc
    BY <1>5 DEF TypeOK, Row
  <2>. QED BY <1>5, <2>1
<1>6. SessionsKnown'
  <2>1. ASSUME NEW d \in Doc, session'[d] # None PROVE Recalls(session[d], d)'
    <3>1. Recalls(session[d], d)
      BY <2>1 DEF IInv, SessionsKnown
    <3>. QED BY <3>1 DEF Recalls, Gone, RowOf
  <2>2. ASSUME NEW k \in Slot, rows'[k] # None, rows'[k].held # None
        PROVE  Recalls(rows[k].held, rows[k].doc)'
    <3>1. CASE k \in S
      <4>1. rows'[k].held = session[rows'[k].doc] /\ rows'[k].doc \in Doc
        BY <1>5, <2>2, <3>1
      <4>2. PICK d \in Doc : d = rows'[k].doc
        BY <4>1
      <4>3. Recalls(session[d], d)
        BY <2>2, <4>1, <4>2 DEF IInv, SessionsKnown
      <4>. QED BY <4>1, <4>2, <4>3 DEF Recalls, Gone, RowOf
    <3>2. CASE k \notin S
      <4>1. rows'[k] = rows[k]
        BY <1>4, <2>2, <3>2
      <4>2. Recalls(rows[k].held, rows[k].doc)
        BY <2>2, <4>1 DEF IInv, SessionsKnown
      <4>. QED BY <4>1, <4>2 DEF Recalls, Gone, RowOf
    <3>. QED BY <3>1, <3>2
  <2>. QED BY <2>1, <2>2 DEF SessionsKnown
<1>7. RowsKnown'
  <2>1. None \notin sent'
    BY UploaderAssumption DEF TypeOK
  <2>2. ASSUME NEW k \in Slot, rows'[k] # None
        PROVE  LET row == rows'[k] IN
               /\ row.at = "ready" => row.entry = None /\ row.group = {} /\ row.held = None
               /\ row.at # "ready" => row.entry # None
               /\ row.entry # None => row.entry \in sent'
               /\ row.at \in {"look", "drop", "put", "complete"} => row.held # None
               /\ row.at \in {"put", "complete"} => row.entry = row.held.entry
               /\ row.at = "put" => ~row.cancelled
               /\ row.at = "complete" =>
                    (~Gone(rows[k].held.upload)' => payload'[row.held.upload].version = row.version)
    <3>1. CASE k \in S
      BY <1>5, <2>1, <2>2, <3>1
    <3>2. CASE k \notin S
      <4>1. rows'[k] = rows[k] /\ payload' = payload
        BY <1>4, <2>2, <3>2
      <4>2. LET row == rows[k] IN
            /\ row.at = "ready" => row.entry = None /\ row.group = {} /\ row.held = None
            /\ row.at # "ready" => row.entry # None
            /\ row.entry # None => row.entry \in sent
            /\ row.at \in {"look", "drop", "put", "complete"} => row.held # None
            /\ row.at \in {"put", "complete"} => row.entry = row.held.entry
            /\ row.at = "put" => ~row.cancelled
            /\ row.at = "complete" =>
                 (~Gone(row.held.upload) => payload[row.held.upload].version = row.version)
        BY <2>2, <4>1 DEF IInv, RowsKnown
      <4>3. Gone(rows[k].held.upload)' <=> Gone(rows[k].held.upload)
        BY <4>1 DEF Gone
      <4>. QED BY <4>1, <4>2, <4>3
    <3>. QED BY <3>1, <3>2
  <2>. QED BY <2>2 DEF RowsKnown, Gone
<1>8. Groups'
  <2>1. ASSUME NEW k \in Slot, rows'[k] # None
        PROVE  /\ rows'[k].group # {} => k \in rows'[k].group
               /\ \A j \in rows'[k].group : rows'[j] # None /\ rows'[j].group = rows'[k].group
    <3>1. CASE k \in S
      BY <1>5, <2>1, <3>1
    <3>2. CASE k \notin S
      BY <1>4, <2>1, <3>2 DEF IInv, Groups
    <3>. QED BY <3>1, <3>2
  <2>. QED BY <2>1 DEF Groups
<1>9. NothingComes'
  <2>1. \A u \in Upload : files'[u] # None => files'[u].entry \notin withdrawn'
    BY DEF IInv, NothingComes
  <2>2. \A u \in Upload : uploads'[u] # None /\ uploads'[u].entry \in withdrawn' => payload'[u].version = None
    BY DEF IInv, NothingComes
  <2>3. None \notin withdrawn'
    BY UploaderAssumption DEF TypeOK
  <2>4. ASSUME NEW k \in Slot, rows'[k] # None
        PROVE  LET row == rows'[k] IN
               /\ row.at \notin Settled /\ ~row.cancelled => row.entry \notin withdrawn'
               /\ (row.at = "complete" \/ (row.at = "look" /\ ~row.cancelled)) /\ row.held.entry \in withdrawn' =>
                    Gone(rows[k].held.upload)'
    <3>1. CASE k \in S
      BY <1>5, <2>3, <2>4, <3>1
    <3>2. CASE k \notin S
      <4>1. rows'[k] = rows[k]
        BY <1>4, <2>4, <3>2
      <4>2. Gone(rows[k].held.upload)' <=> Gone(rows[k].held.upload)
        BY <4>1 DEF Gone
      <4>. QED BY <2>4, <4>1, <4>2 DEF IInv, NothingComes
    <3>. QED BY <3>1, <3>2
  <2>. QED BY <2>1, <2>2, <2>4 DEF NothingComes, Gone
<1>. QED BY <1>6, <1>7, <1>8, <1>9

(* The page is loaded again: its list is empty, its sessions are kept.     *)
LEMMA ReloadKeeps == ASSUME IInv, Reload PROVE IInv'
<1>1. /\ UNCHANGED <<tables, session, asked>> /\ sending' = Idle
      /\ \A k \in Slot : rows'[k] = None
      /\ faults' \in 0 .. MaxFaults /\ rows' = [k \in Slot |-> None]
  BY Faults DEF Reload
<1>2. TypeOK'
  BY <1>1 DEF IInv, TypeOK, tables, asked, Idle
<1>3. TablesKnown' /\ Placed'
  BY <1>1, TablesStay DEF TablesGo, asked
<1>4. SessionsKnown' /\ RowsKnown' /\ Groups' /\ NothingComes'
  <2>1. Slot \in SUBSET Slot
    OBVIOUS
  <2>. QED BY <1>1, <1>2, <2>1, ListKeeps DEF tables, asked
<1>5. Sending' /\ DoneIsThere' /\ StraysLeaveGaps'
  BY <1>1 DEF Sending, DoneIsThere, StraysLeaveGaps, Idle
<1>. QED BY <1>2, <1>3, <1>4, <1>5 DEF IInv

(* A row that goes because it is through takes its message along.          *)
LEMMA Leftover ==
  ASSUME IInv, NEW S \in SUBSET Slot, sending.rows \subseteq S,
         \A j \in S : rows[j] # None /\ ~Through(j) => rows[j].group = {},
         NEW k \in Slot, k \notin S, Left[k] # None
  PROVE  /\ rows[k] # None /\ Left[k] = rows[k]
         /\ \A j \in rows[k].group : j \in Slot /\ j \notin S /\ Left[j] = rows[j]
<1>1. rows[k] # None /\ Left[k] = rows[k] /\ ~Through(k)
  BY DEF Left
<1>2. rows[k].group # {} => k \in rows[k].group
  BY <1>1 DEF IInv, Groups
<1>3. ASSUME NEW j \in rows[k].group
      PROVE  j \in Slot /\ j \notin S /\ Left[j] = rows[j]
  <2>1. j \in Slot /\ rows[j] # None /\ rows[j].group = rows[k].group /\ k \in rows[j].group
    BY <1>1, <1>2 DEF IInv, Groups, TypeOK, Row
  <2>2. ~Through(j)
    BY <1>1, <1>3, <2>1 DEF Through
  <2>3. j \notin S
    BY <2>1, <2>2
  <2>. QED BY <2>1, <2>2, <2>3 DEF Left
<1>. QED BY <1>1, <1>3

(* A row at the first request of its upload.                               *)
Opened(new, r, e, i, g) ==
  /\ new \in Row /\ new # None
  /\ \/ new.at = "look" /\ session[r.doc] # None
     \/ new.at = "create" /\ session[r.doc] = None
  /\ new.held = session[r.doc] /\ new.entry = e /\ new.index = i /\ new.group = g
  /\ ~new.cancelled /\ new.doc = r.doc /\ new.version = r.version

(* What runUpload finds when it begins.                                    *)
LEMMA Beginning ==
  ASSUME IInv, NEW r \in Row, NEW e \in Message, NEW i \in Store!Index, NEW g \in SUBSET Slot
  PROVE  /\ Opened(Begun(r, e, i, g, TRUE), r, e, i, g)
         /\ Opened(Begun(r, e, i, g, FALSE), r, e, i, g)
         /\ ~Begun(r, e, i, g, FALSE).retrying
<1>. DEFINE at == IF session[r.doc] # None THEN "look" ELSE "create"
            new(again) == [r EXCEPT !.at = at, !.entry = e, !.index = i, !.held = session[r.doc],
                                    !.group = g, !.cancelled = FALSE, !.retrying = again]
<1>1. session[r.doc] \in Session \cup {None} /\ at \in Call
  BY DEF IInv, TypeOK, Row, Call
<1>2. \/ at = "look" /\ session[r.doc] # None
      \/ at = "create" /\ session[r.doc] = None
  OBVIOUS
<1>3. Begun(r, e, i, g, TRUE) = new(TRUE) /\ Begun(r, e, i, g, FALSE) = new(FALSE)
  BY DEF Begun
<1>. HIDE DEF at
<1>4. ASSUME NEW again \in BOOLEAN PROVE Opened(new(again), r, e, i, g)
  <2>1. new(again) \in Row
    BY <1>1 DEF Row
  <2>2. new(again) # None
    BY <2>1, UploaderAssumption
  <2>3. /\ new(again).at = at /\ new(again).held = session[r.doc] /\ new(again).entry = e
        /\ new(again).index = i /\ new(again).group = g
        /\ new(again).doc = r.doc /\ new(again).version = r.version /\ ~new(again).cancelled
    BY DEF Row
  <2>. HIDE DEF new
  <2>. QED BY <1>2, <2>1, <2>2, <2>3 DEF Opened
<1>5. Opened(new(TRUE), r, e, i, g) /\ Opened(new(FALSE), r, e, i, g)
  <2>. HIDE DEF new
  <2>. QED BY <1>4, Zenon
<1>6. ~new(FALSE).retrying
  BY DEF Row
<1>. QED BY <1>3, <1>5, <1>6

(* The user tries again with a row that stopped or failed.                 *)
LEMMA RetryKeeps ==
  ASSUME IInv, NEW k \in Slot, Retry(k)
  PROVE  IInv'
<1>. DEFINE new == Begun(rows[k], rows[k].entry, rows[k].index, rows[k].group, TRUE)
<1>1. /\ rows[k] # None /\ rows[k].at = "failed" /\ rows[k] \in Row
      /\ rows \in [Slot -> Row \cup {None}]
  BY DEF Retry, At, IInv, TypeOK
<1>2. rows[k].entry \in Message /\ rows[k].entry \in sent
  BY <1>1 DEF IInv, RowsKnown, Row
<1>3. /\ new \in Row /\ new # None
      /\ \/ new.at = "look" /\ session[rows[k].doc] # None
         \/ new.at = "create" /\ session[rows[k].doc] = None
      /\ new.held = session[rows[k].doc] /\ new.entry = rows[k].entry /\ new.index = rows[k].index
      /\ new.group = rows[k].group
      /\ ~new.cancelled /\ new.doc = rows[k].doc /\ new.version = rows[k].version
  <2>1. rows[k].index \in Store!Index /\ rows[k].group \in SUBSET Slot
    BY <1>1 DEF Row
  <2>2. Opened(new, rows[k], rows[k].entry, rows[k].index, rows[k].group)
    BY <1>1, <1>2, <2>1, Beginning
  <2>. HIDE DEF new
  <2>. QED BY <2>2 DEF Opened
<1>4. /\ UNCHANGED <<tables, session, sending, deletes, sent, sends, faults>>
      /\ UNCHANGED <<entries, uploads, files, drawn, payload>>
      /\ rows' = [rows EXCEPT ![k] = new]
      /\ withdrawn' = withdrawn \ (Resumed({rows[k].doc}) \cup {rows[k].entry})
  BY DEF Retry, tables
<1>5. /\ rows'[k] = new /\ \A j \in Slot : j # k => rows'[j] = rows[j]
      /\ withdrawn' \subseteq withdrawn /\ rows[k].entry \notin withdrawn'
      /\ session[rows[k].doc] # None => session[rows[k].doc].entry \notin withdrawn'
  BY <1>1, <1>4 DEF Resumed
<1>6. rows[k].doc \in Doc
  BY <1>1 DEF Row
<1>. HIDE DEF new
<1>7. TypeOK'
  BY <1>1, <1>3, <1>4 DEF IInv, TypeOK
<1>8. TablesKnown' /\ Placed'
  BY <1>4, TablesStay DEF TablesGo
<1>9. SessionsKnown'
  <2>1. PICK d \in Doc : d = rows[k].doc
    BY <1>6
  <2>2. \A x \in Doc : session[x] # None => Recalls(session[x], x)
    BY DEF IInv, SessionsKnown
  <2>3. \A j \in Slot : j # k /\ rows[j] # None /\ rows[j].held # None =>
          Recalls(rows[j].held, rows[j].doc)
    BY DEF IInv, SessionsKnown
  <2>. QED BY <1>3, <1>4, <1>5, <2>1, <2>2, <2>3 DEF SessionsKnown, Recalls, Gone, RowOf
<1>10. RowsKnown'
  <2>1. new.entry # None
    BY <1>2, <1>3, UploaderAssumption
  <2>. QED BY <1>2, <1>3, <1>4, <1>5, <2>1 DEF IInv, RowsKnown, Gone
<1>11. Groups'
  <2>1. \A j \in Slot : rows[j] # None => rows'[j] # None /\ rows'[j].group = rows[j].group
    BY <1>3, <1>5
  <2>2. \A j \in Slot : rows'[j] # None => rows[j] # None /\ rows[j].group \subseteq Slot
    BY <1>1, <1>5 DEF IInv, TypeOK, Row
  <2>. QED BY <2>1, <2>2 DEF IInv, Groups
<1>12. NothingComes'
  <2>1. uploads' = uploads /\ files' = files /\ payload' = payload
    BY <1>4
  <2>2. ASSUME NEW j \in Slot, rows'[j] # None
        PROVE  LET row == rows'[j] IN
               /\ row.at \notin Settled /\ ~row.cancelled => row.entry \notin withdrawn'
               /\ (row.at = "complete" \/ (row.at = "look" /\ ~row.cancelled)) /\ row.held.entry \in withdrawn' =>
                    Gone(rows[j].held.upload)'
    <3>1. CASE j = k
      BY <1>3, <1>5, <3>1
    <3>2. CASE j # k
      <4>1. rows'[j] = rows[j]
        BY <1>5, <3>2
      <4>2. Gone(rows[j].held.upload)' <=> Gone(rows[j].held.upload)
        BY <2>1, <4>1 DEF Gone
      <4>. QED BY <1>5, <2>2, <4>1, <4>2 DEF IInv, NothingComes
    <3>. QED BY <3>1, <3>2
  <2>. QED BY <1>5, <2>1, <2>2 DEF IInv, NothingComes, Gone
<1>13. k \notin sending.rows
  BY <1>1 DEF IInv, Sending, TypeOK, Settled
<1>14. \A j \in sending.rows : j \in Slot /\ j # k /\ rows'[j] = rows[j]
  BY <1>5, <1>13 DEF IInv, TypeOK
<1>15. Sending' /\ DoneIsThere'
  <2>1. \A e : Unheard(e) => Unheard(e)'
    BY <1>3, <1>4, <1>5, <1>6, <1>1 DEF Unheard, Gone, RowOf
  <2>2. \A j \in sending.rows : Delivered(j) => Delivered(j)'
    BY <1>4, <1>14 DEF Delivered
  <2>. QED BY <1>4, <1>14, <2>1, <2>2 DEF IInv, Sending, DoneIsThere
<1>16. StraysLeaveGaps'
  <2>1. ASSUME sending'.at = "upload", NEW j \in sending'.rows, Strays(j)'
        PROVE  LET e == sending.entry IN
               /\ Vacant(e, Place(j))'
               /\ \A l \in Slot \ {j} : rows'[l] # None /\ rows'[l].entry = e => rows'[l].index # Place(j)'
               /\ entries'[TheRoom][e] # None =>
                    /\ ~entries'[TheRoom][e].published
                    /\ entries'[TheRoom][e].expected = Cardinality(sending'.rows)
    <3>1. Strays(j) /\ Place(j)' = Place(j) /\ j \in sending.rows /\ j # k
      BY <1>4, <1>14, <2>1 DEF Strays, Place
    <3>2. LET e == sending.entry IN
          /\ Vacant(e, Place(j))
          /\ \A l \in Slot \ {j} : rows[l] # None /\ rows[l].entry = e => rows[l].index # Place(j)
          /\ entries[TheRoom][e] # None =>
               ~entries[TheRoom][e].published /\ entries[TheRoom][e].expected = Cardinality(sending.rows)
      BY <1>4, <2>1, <3>1 DEF IInv, StraysLeaveGaps
    <3>3. Vacant(sending.entry, Place(j))'
      BY <1>3, <1>4, <1>5, <1>6, <3>1, <3>2 DEF Vacant, Gone, RowOf
    <3>. QED BY <1>1, <1>3, <1>4, <1>5, <3>1, <3>2, <3>3
  <2>. QED BY <1>4, <2>1 DEF StraysLeaveGaps
<1>. QED BY <1>7, <1>8, <1>9, <1>10, <1>11, <1>12, <1>15, <1>16 DEF IInv

(* The uploads of a message begin: each of its rows in its own place.      *)
UploadsBegun(S, choice, e) ==
  /\ rows' \in [Slot -> Row \cup {None}]
  /\ sending' = [at |-> "upload", entry |-> e, rows |-> S]
  /\ withdrawn' \subseteq withdrawn /\ e \notin withdrawn'
  /\ \A k \in Slot \ S : rows'[k] = Left[k]
  /\ \A k \in S : LET new == rows'[k] IN
       /\ new \in Row /\ new # None
       /\ \/ new.at = "look" /\ session[choice[k].doc] # None
          \/ new.at = "create" /\ session[choice[k].doc] = None
       /\ new.held = session[choice[k].doc] /\ new.entry = e /\ new.index = Place(k)'
       /\ new.group = S /\ ~new.cancelled /\ ~new.retrying /\ new.doc = choice[k].doc
       /\ new.held # None => new.held.entry \notin withdrawn'

(* All rows of a message begin at places of their own.                     *)
LEMMA AllBegin ==
  ASSUME IInv, NEW S \in SUBSET Slot, NEW choice \in [S -> Row], NEW e \in Message,
         BeginUploads(choice, e)
  PROVE  UploadsBegun(S, choice, e)
<1>1. /\ DOMAIN choice = S
      /\ rows' = [k \in Slot |->
           IF k \in S THEN Begun(choice[k], e, Cardinality({j \in S : j < k}), S, FALSE) ELSE Left[k]]
      /\ sending' = [at |-> "upload", entry |-> e, rows |-> S]
      /\ withdrawn' = withdrawn \ (Resumed(DocsOf(choice)) \cup {e})
  BY DEF BeginUploads
<1>2. ASSUME NEW k \in S
      PROVE  LET new == Begun(choice[k], e, Cardinality({j \in S : j < k}), S, FALSE) IN
             /\ new \in Row /\ new # None
             /\ \/ new.at = "look" /\ session[choice[k].doc] # None
                \/ new.at = "create" /\ session[choice[k].doc] = None
             /\ new.held = session[choice[k].doc] /\ new.entry = e
             /\ new.index = Cardinality({j \in S : j < k})
             /\ new.group = S /\ ~new.cancelled /\ ~new.retrying /\ new.doc = choice[k].doc
  <2>1. Cardinality({j \in S : j < k}) \in Store!Index
    <3>. DEFINE i == Cardinality({j \in S : j < k})  n == Cardinality(S)
    <3>1. i \in Nat /\ i < n
      BY Positions
    <3>2. n \in Nat /\ n <= MaxRows
      <4>1. 1 \in Int /\ MaxRows \in Int /\ MaxRows \in 0 .. 1000
        BY UploaderAssumption
      <4>2. Cardinality(Slot) = MaxRows
        BY <4>1, FS_Interval DEF Slot
      <4>. QED BY <4>2, Slots, FS_Subset, FS_CardinalityType
    <3>. HIDE DEF i, n
    <3>3. MaxRows \in 0 .. 1000
      BY UploaderAssumption
    <3>4. i \in 0 .. 999 /\ n \in 1 .. MaxRows /\ i <= n
      BY <3>1, <3>2, <3>3
    <3>5. i \in Store!Index
      BY <3>4 DEF Store!Index
    <3>. QED BY <3>5 DEF i
  <2>. DEFINE i == Cardinality({j \in S : j < k})
            new == Begun(choice[k], e, i, S, FALSE)
  <2>2. Opened(new, choice[k], e, i, S) /\ ~new.retrying
    BY <2>1, Beginning
  <2>. HIDE DEF new, i
  <2>3. /\ new \in Row /\ new # None
        /\ \/ new.at = "look" /\ session[choice[k].doc] # None
           \/ new.at = "create" /\ session[choice[k].doc] = None
        /\ new.held = session[choice[k].doc] /\ new.entry = e /\ new.index = i
        /\ new.group = S /\ ~new.cancelled /\ ~new.retrying /\ new.doc = choice[k].doc
    BY <2>2 DEF Opened
  <2>. QED BY <2>3 DEF new, i
<1>3. \A k \in S : k \in Slot /\ Place(k)' = Cardinality({j \in S : j < k})
  BY <1>1 DEF Place
<1>4. ASSUME NEW k \in S PROVE session[choice[k].doc] # None => session[choice[k].doc].entry \notin withdrawn'
  BY <1>1 DEF Resumed, DocsOf
<1>5. \A k \in Slot : Left[k] \in Row \cup {None}
  BY DEF Left, IInv, TypeOK
<1>6. \A k \in Slot : rows'[k] =
        IF k \in S THEN Begun(choice[k], e, Cardinality({j \in S : j < k}), S, FALSE) ELSE Left[k]
  BY <1>1
<1>7. rows' \in [Slot -> Row \cup {None}]
  BY <1>1, <1>2, <1>5
<1>8. ASSUME NEW k \in S
      PROVE  LET new == rows'[k] IN
             /\ new \in Row /\ new # None
             /\ \/ new.at = "look" /\ session[choice[k].doc] # None
                \/ new.at = "create" /\ session[choice[k].doc] = None
             /\ new.held = session[choice[k].doc] /\ new.entry = e /\ new.index = Place(k)'
             /\ new.group = S /\ ~new.cancelled /\ ~new.retrying /\ new.doc = choice[k].doc
             /\ new.held # None => new.held.entry \notin withdrawn'
  <2>. DEFINE new == Begun(choice[k], e, Cardinality({j \in S : j < k}), S, FALSE)
  <2>1. rows'[k] = new
    BY <1>3, <1>6
  <2>2. /\ new \in Row /\ new # None
        /\ \/ new.at = "look" /\ session[choice[k].doc] # None
           \/ new.at = "create" /\ session[choice[k].doc] = None
        /\ new.held = session[choice[k].doc] /\ new.entry = e
        /\ new.index = Cardinality({j \in S : j < k})
        /\ new.group = S /\ ~new.cancelled /\ ~new.retrying /\ new.doc = choice[k].doc
    BY <1>2
  <2>3. Place(k)' = Cardinality({j \in S : j < k})
    BY <1>3
  <2>. HIDE DEF new
  <2>. QED BY <1>4, <2>1, <2>2, <2>3
<1>9. withdrawn' \subseteq withdrawn /\ e \notin withdrawn'
  BY <1>1
<1>10. \A k \in Slot \ S : rows'[k] = Left[k]
  BY <1>6
<1>. QED BY <1>1, <1>7, <1>8, <1>9, <1>10 DEF UploadsBegun

(* Files are sent, as a new message or for the unfinished one.             *)
LEMMA AddItemKeeps ==
  ASSUME IInv, AddItem
  PROVE  IInv'
<1>1. /\ sending.at = "idle" /\ sending.rows = {} /\ sends' \in 0 .. MaxSends
      /\ UNCHANGED <<tables, session, deletes, faults>>
      /\ UNCHANGED <<uploads, files, drawn, payload, session>> /\ UNCHANGED entries
  <2>1. sends \in 0 .. MaxSends /\ MaxSends \in Nat
    BY UploaderAssumption DEF IInv, TypeOK
  <2>2. sends' \in 0 .. MaxSends
    BY <2>1 DEF AddItem
  <2>. QED BY <2>2 DEF AddItem, IInv, Sending, tables
<1>2. PICK S, choice :
        /\ S \in (SUBSET Free) \ {{}}
        /\ choice \in [S -> {Chosen(d, v) : d \in Doc, v \in Version}]
        /\ \/ NewMessage(choice)
           \/ \E e : /\ Resumed(DocsOf(choice)) = {e}
                     /\ BeginUploads(choice, e) /\ UNCHANGED sent
  BY DEF AddItem
<1>3. /\ S \in SUBSET Slot /\ S # {} /\ \A j \in S : rows[j] # None => Through(j)
  <2>1. S \in (SUBSET Free) \ {{}}
    BY <1>2
  <2>. QED BY <2>1 DEF Free, Left
<1>4. \A d \in Doc, v \in Version : LET c == Chosen(d, v) IN
        /\ c \in Row /\ c # None /\ c.at = "ready" /\ c.entry = None /\ c.held = None
        /\ c.group = {} /\ c.doc = d
  <2>1. 0 \in Store!Index
    <3>1. PICK k \in S : TRUE
      BY <1>3
    <3>2. k \in 1 .. MaxRows /\ MaxRows \in 0 .. 1000
      BY <1>3, <3>1, UploaderAssumption DEF Slot
    <3>. QED BY <3>2 DEF Store!Index
  <2>2. \A d \in Doc, v \in Version : Chosen(d, v) \in Row
    BY <2>1 DEF Chosen, Row
  <2>. QED BY <2>2, UploaderAssumption DEF Chosen
<1>5. choice \in [S -> Row] /\ \A k \in S :
        /\ choice[k] # None /\ choice[k].at = "ready" /\ choice[k].entry = None
        /\ choice[k].held = None /\ choice[k].group = {} /\ choice[k].doc \in Doc
  BY <1>2, <1>4
<1>6. ASSUME NEW k \in Slot, k \notin S, Left[k] # None
      PROVE  /\ rows[k] # None /\ Left[k] = rows[k]
             /\ \A j \in rows[k].group : j \in Slot /\ j \notin S /\ Left[j] = rows[j]
  BY <1>1, <1>3, <1>6, Leftover
<1>7. \A k \in Slot : Left[k] \in Row \cup {None}
  BY DEF Left, IInv, TypeOK
<1>8. CASE NewMessage(choice)
  <2>1. PICK e \in Message \ sent :
          sending' = [at |-> "declare", entry |-> e, rows |-> S] /\ sent' = sent \cup {e}
    <3>1. \E x \in Message \ sent : TRUE
      BY <1>8 DEF NewMessage, IInv, TypeOK
    <3>. DEFINE e == CHOOSE x \in Message \ sent : TRUE
    <3>2. e \in Message \ sent
      BY <3>1
    <3>. HIDE DEF e
    <3>3. DOMAIN choice = S
      BY <1>2
    <3>4. sending' = [at |-> "declare", entry |-> e, rows |-> S] /\ sent' = sent \cup {e}
      BY <1>8, <3>3 DEF NewMessage, e
    <3>. QED BY <3>2, <3>4
  <2>2. /\ \A k \in Slot : rows'[k] = IF k \in S THEN choice[k] ELSE Left[k]
        /\ rows' = [k \in Slot |-> IF k \in S THEN choice[k] ELSE Left[k]]
        /\ withdrawn' = withdrawn
    BY <1>2, <1>8 DEF NewMessage
  <2>3. TypeOK'
    <3>1. rows' \in [Slot -> Row \cup {None}]
      BY <1>5, <1>7, <2>2
    <3>2. /\ sending' \in [at : {"idle", "declare", "upload"}, entry : Message \cup {None}, rows : SUBSET Slot]
          /\ sent' \subseteq Message
      BY <1>3, <2>1 DEF IInv, TypeOK
    <3>. QED BY <1>1, <2>1, <2>2, <3>1, <3>2 DEF IInv, TypeOK
  <2>4. TablesKnown' /\ Placed'
    BY <1>1, <2>1, TablesStay DEF TablesGo
  <2>5. SessionsKnown' /\ RowsKnown' /\ Groups' /\ NothingComes'
    <3>1. \A k \in Slot \ S : rows'[k] # None =>
            rows'[k] = rows[k] /\ \A j \in rows[k].group : j \notin S /\ rows'[j] = rows[j]
      BY <1>6, <2>2
    <3>2. \A k \in S : rows'[k] # None =>
            /\ rows'[k].at = "ready" /\ rows'[k].entry = None
            /\ rows'[k].group = {} /\ rows'[k].held = None
      BY <1>3, <1>5, <2>2
    <3>. QED BY <1>1, <1>3, <2>1, <2>2, <2>3, <3>1, <3>2, ListKeeps
  <2>6. Unheard(e)'
    <3>1. entries'[TheRoom][e] = None
      BY <1>1 DEF IInv, TablesKnown
    <3>2. \A u \in Upload : ~Gone(u)' => RowOf(u)'.entry # e
      BY <1>1 DEF IInv, TablesKnown, Gone, RowOf
    <3>3. \A d \in Doc : session'[d] # None => session'[d].entry # e
      BY <1>1 DEF IInv, SessionsKnown, Recalls
    <3>4. ASSUME NEW k \in Slot, rows'[k] # None
          PROVE  rows'[k].entry # e /\ (rows'[k].held # None => rows'[k].held.entry # e)
      <4>1. CASE k \in S
        BY <1>5, <2>2, <4>1, UploaderAssumption
      <4>2. CASE k \notin S
        <5>1. rows'[k] = rows[k] /\ rows[k] # None
          BY <1>6, <2>2, <3>4, <4>2
        <5>2. rows[k].entry # None => rows[k].entry \in sent
          BY <5>1 DEF IInv, RowsKnown
        <5>3. rows[k].held # None => rows[k].held.entry \in sent
          BY <5>1 DEF IInv, SessionsKnown, Recalls
        <5>. QED BY <5>1, <5>2, <5>3, UploaderAssumption
      <4>. QED BY <4>1, <4>2
    <3>. QED BY <3>1, <3>2, <3>3, <3>4 DEF Unheard
  <2>7. Sending' /\ DoneIsThere' /\ StraysLeaveGaps'
    <3>1. sending'.at = "declare" /\ sending'.entry = e /\ sending'.rows = S /\ e \in sent'
      BY <2>1
    <3>2. Unheard(sending.entry)'
      BY <2>6, <3>1 DEF Unheard
    <3>3. \A k \in S : rows'[k] # None /\ rows'[k].at = "ready"
      BY <1>3, <1>5, <2>2
    <3>. QED BY <3>1, <3>2, <3>3 DEF Sending, DoneIsThere, StraysLeaveGaps
  <2>. QED BY <2>3, <2>4, <2>5, <2>7 DEF IInv
<1>9. ASSUME NEW e, Resumed(DocsOf(choice)) = {e}, BeginUploads(choice, e), UNCHANGED sent
      PROVE  IInv'
  <2>1. /\ e \in Message /\ e \in sent
        /\ \A k \in S : session[choice[k].doc] # None => session[choice[k].doc].entry = e
    <3>1. DOMAIN choice = S /\ \A d : d \in DocsOf(choice) <=> \E k \in S : d = choice[k].doc
      BY <1>2 DEF DocsOf
    <3>2. \A x : x \in Resumed(DocsOf(choice)) <=>
            \E d \in DocsOf(choice) : session[d] # None /\ x = session[d].entry
      BY DEF Resumed
    <3>3. \A k \in S : session[choice[k].doc] # None => session[choice[k].doc].entry = e
      BY <1>9, <3>1, <3>2
    <3>4. \E d \in Doc : session[d] # None /\ session[d].entry = e
      BY <1>5, <1>9, <3>1, <3>2
    <3>5. e \in sent
      BY <3>4 DEF IInv, SessionsKnown, Recalls
    <3>. QED BY <3>3, <3>5 DEF IInv, TypeOK
  <2>2. UploadsBegun(S, choice, e)
    BY <1>3, <1>5, <1>9, <2>1, AllBegin
  <2>3. /\ rows' \in [Slot -> Row \cup {None}]
        /\ sending' = [at |-> "upload", entry |-> e, rows |-> S]
        /\ withdrawn' \subseteq withdrawn /\ e \notin withdrawn'
        /\ \A k \in Slot \ S : rows'[k] = Left[k]
    BY <2>2 DEF UploadsBegun
  <2>4. \A k \in S : LET new == rows'[k] IN
          /\ new \in Row /\ new # None
          /\ \/ new.at = "look" /\ session[choice[k].doc] # None
             \/ new.at = "create" /\ session[choice[k].doc] = None
          /\ new.held = session[choice[k].doc] /\ new.entry = e
          /\ new.group = S /\ ~new.retrying /\ new.doc = choice[k].doc
          /\ new.held # None => new.held.entry \notin withdrawn'
    BY <2>2 DEF UploadsBegun
  <2>5. TypeOK'
    <3>1. sending' \in [at : {"idle", "declare", "upload"}, entry : Message \cup {None}, rows : SUBSET Slot]
      BY <1>3, <2>1, <2>3
    <3>. QED BY <1>1, <1>9, <2>3, <3>1 DEF IInv, TypeOK
  <2>6. TablesKnown' /\ Placed'
    BY <1>1, <1>9, TablesStay DEF TablesGo
  <2>7. SessionsKnown' /\ RowsKnown' /\ Groups' /\ NothingComes'
    <3>1. \A k \in Slot \ S : rows'[k] # None =>
            rows'[k] = rows[k] /\ \A j \in rows[k].group : j \notin S /\ rows'[j] = rows[j]
      BY <1>6, <2>3
    <3>2. \A k \in S :
            /\ rows'[k].at = "create" \/ (rows'[k].at = "look" /\ rows'[k].held # None)
            /\ rows'[k].entry \in sent' \ withdrawn' /\ rows'[k].held = session[rows'[k].doc]
            /\ rows'[k].held # None => rows'[k].held.entry \notin withdrawn'
            /\ rows'[k].group = S /\ \A j \in S : rows'[j] # None /\ rows'[j].group = S
      BY <1>9, <2>1, <2>3, <2>4
    <3>3. sent \subseteq sent'
      BY <1>9
    <3>. QED BY <1>1, <1>3, <2>3, <2>5, <3>1, <3>2, <3>3, ListKeeps
  <2>8. Sending' /\ DoneIsThere' /\ StraysLeaveGaps'
    <3>1. sending'.at = "upload" /\ sending'.entry = e /\ sending'.rows = S /\ e \in sent'
      BY <1>9, <2>1, <2>3
    <3>2. \A k \in S :
            /\ rows'[k] # None /\ ~rows'[k].retrying /\ rows'[k].entry = e
            /\ rows'[k].at \in {"look", "create"}
            /\ rows'[k].held # None => rows'[k].held.entry = e
            /\ rows'[k].at = "look" => rows'[k].held # None
      BY <2>1, <2>4
    <3>3. e # None
      BY <2>1, UploaderAssumption
    <3>4. Sending' /\ DoneIsThere'
      BY <3>1, <3>2, <3>3 DEF Sending, DoneIsThere
    <3>5. StraysLeaveGaps'
      BY <3>1, <3>2 DEF StraysLeaveGaps, Strays
    <3>. QED BY <3>4, <3>5
  <2>. QED BY <2>5, <2>6, <2>7, <2>8 DEF IInv
<1>. QED BY <1>2, <1>8, <1>9

(* A new draft: nothing is under way for it yet.                           *)
LEMMA DraftKept ==
  ASSUME IInv, NEW e \in Message, e \in sent, Unheard(e), NEW n \in Nat,
         Store!CreateEntry(TheRoom, e, n, FALSE, TRUE), payload' = payload, sent' = sent
  PROVE  /\ TablesTyped' /\ TablesKnown' /\ Placed'
         /\ UNCHANGED <<uploads, files, drawn, payload>>
         /\ ~entries'[TheRoom][e].published /\ entries'[TheRoom][e].expected = n
<1>1. PICK fresh \in BOOLEAN : entries' = [entries EXCEPT ![TheRoom][e] =
        [expected |-> n, published |-> FALSE, expires |-> TRUE, due |-> FALSE,
         declared |-> TRUE, fresh |-> fresh]]
  BY Declares
<1>2. UNCHANGED <<uploads, files, drawn, payload>>
  BY Declares
<1>. DEFINE row == [expected |-> n, published |-> FALSE, expires |-> TRUE, due |-> FALSE,
                    declared |-> TRUE, fresh |-> fresh]
<1>3. row \in Store!EntryRow
  BY DEF Store!EntryRow
<1>4. entries \in [{TheRoom} -> [Message \cup Upload -> Store!EntryRow \cup {None}]]
  BY DEF IInv, TypeOK
<1>5. row.published = FALSE /\ row.expected = n
  OBVIOUS
<1>6. entries' = [entries EXCEPT ![TheRoom] = [@ EXCEPT ![e] = row]]
  BY <1>1
<1>. HIDE DEF row
<1>7. /\ entries' \in [{TheRoom} -> [Message \cup Upload -> Store!EntryRow \cup {None}]]
      /\ entries'[TheRoom][e] = row
      /\ \A x \in Message : x # e => entries'[TheRoom][x] = entries[TheRoom][x]
  BY <1>3, <1>4, <1>6
<1>8. TablesTyped'
  BY <1>2, <1>7 DEF TablesTyped, IInv, TypeOK
<1>9. TablesKnown'
  BY <1>2, <1>7 DEF IInv, TablesKnown, Gone, RowOf
<1>10. Placed'
  <2>1. \A u \in Upload : ~Gone(u) => RowOf(u).entry \in Message /\ RowOf(u).entry # e
    BY Known DEF Unheard
  <2>. QED BY <1>2, <1>7, <2>1 DEF IInv, Placed, Gone, RowOf
<1>. QED BY <1>2, <1>5, <1>7, <1>8, <1>9, <1>10

(* The message of the files is declared, or is not.                        *)
LEMMA DeclareKeeps ==
  ASSUME IInv, Declare
  PROVE  IInv'
<1>. DEFINE S == sending.rows
<1>1. /\ sending.at = "declare" /\ S \in SUBSET Slot
      /\ UNCHANGED <<session, deletes, sent, sends>> /\ faults' \in 0 .. MaxFaults
  BY Faults DEF Declare, Fails, IInv, TypeOK
<1>2. PICK e \in Message : e = sending.entry /\ e \in sent
  BY <1>1 DEF IInv, Sending, TypeOK
<1>3. Unheard(e) /\ \A k \in S : rows[k] # None /\ rows[k].at = "ready" /\ rows[k].group = {}
  <2>1. Unheard(e) /\ \A k \in S : k \in Slot /\ rows[k] # None /\ rows[k].at = "ready"
    BY <1>1, <1>2 DEF IInv, Sending
  <2>. QED BY <2>1 DEF IInv, RowsKnown
<1>4. Cardinality(S) \in Nat
  BY <1>1, Slots, FS_Subset, FS_CardinalityType
<1>5. CASE Store!CreateEntry(TheRoom, e, Cardinality(S), FALSE, TRUE) /\ payload' = payload
           /\ BeginUploads([k \in S |-> rows[k]], e)
  <2>. DEFINE choice == [k \in S |-> rows[k]]
  <2>1. choice \in [S -> Row] /\ \A k \in S : choice[k] = rows[k] /\ choice[k].doc \in Doc
    BY <1>1, <1>3 DEF IInv, TypeOK, Row
  <2>2. BeginUploads(choice, e)
    BY <1>5
  <2>. HIDE DEF choice
  <2>3. /\ TablesTyped' /\ TablesKnown' /\ Placed'
        /\ UNCHANGED <<uploads, files, drawn, payload>>
        /\ ~entries'[TheRoom][e].published /\ entries'[TheRoom][e].expected = Cardinality(S)
    BY <1>1, <1>2, <1>3, <1>4, <1>5, DraftKept
  <2>4. UploadsBegun(S, choice, e)
    BY <1>1, <2>1, <2>2, AllBegin
  <2>5. /\ rows' \in [Slot -> Row \cup {None}]
        /\ sending' = [at |-> "upload", entry |-> e, rows |-> S]
        /\ withdrawn' \subseteq withdrawn /\ e \notin withdrawn'
        /\ \A k \in Slot \ S : rows'[k] = Left[k]
    BY <2>4 DEF UploadsBegun
  <2>6. \A k \in S : LET new == rows'[k] IN
          /\ new \in Row /\ new # None
          /\ \/ new.at = "look" /\ session[choice[k].doc] # None
             \/ new.at = "create" /\ session[choice[k].doc] = None
          /\ new.held = session[choice[k].doc] /\ new.entry = e /\ new.index = Place(k)'
          /\ new.group = S /\ ~new.retrying /\ new.doc = choice[k].doc
          /\ new.held # None => new.held.entry \notin withdrawn'
    BY <2>4 DEF UploadsBegun
  <2>7. TypeOK'
    <3>1. sending' \in [at : {"idle", "declare", "upload"}, entry : Message \cup {None}, rows : SUBSET Slot]
      BY <1>1, <2>5
    <3>2. PageTyped'
      BY <1>1, <2>5, <3>1 DEF PageTyped, IInv, TypeOK
    <3>. QED BY <2>3, <3>2 DEF TypeOK, TablesTyped, PageTyped
  <2>8. ASSUME NEW k \in Slot, k \notin S, rows'[k] # None
        PROVE  /\ rows'[k] = rows[k]
               /\ \A j \in rows[k].group : j \notin S /\ rows'[j] = rows[j]
    BY <1>1, <1>3, <2>5, <2>8, Leftover
  <2>9. SessionsKnown' /\ RowsKnown' /\ Groups' /\ NothingComes'
    <3>1. \A k \in S :
            /\ rows'[k].at = "create" \/ (rows'[k].at = "look" /\ rows'[k].held # None)
            /\ rows'[k].entry \in sent' \ withdrawn' /\ rows'[k].held = session[rows'[k].doc]
            /\ rows'[k].held # None => rows'[k].held.entry \notin withdrawn'
            /\ rows'[k].group = S /\ \A j \in S : rows'[j] # None /\ rows'[j].group = S
      BY <1>1, <1>2, <2>5, <2>6
    <3>. QED BY <1>1, <2>3, <2>5, <2>7, <2>8, <3>1, ListKeeps
  <2>10. \A k \in S :
          /\ rows'[k] # None /\ ~rows'[k].retrying /\ rows'[k].entry = e /\ rows'[k].index = Place(k)'
          /\ rows'[k].at \in {"look", "create"}
          /\ rows'[k].held # None => rows'[k].held.entry # e
    BY <1>3, <2>1, <2>6 DEF Unheard
  <2>11. sending'.at = "upload" /\ sending'.entry = e /\ sending'.rows = S /\ e \in sent' /\ e # None
    BY <1>1, <1>2, <2>5, UploaderAssumption
  <2>12. Sending' /\ DoneIsThere'
    BY <2>10, <2>11 DEF Sending, DoneIsThere
  <2>13. StraysLeaveGaps'
    <3>1. ASSUME NEW j \in Slot, j \notin S, rows'[j] # None
          PROVE  rows'[j].entry # e /\ (rows'[j].held # None => rows'[j].held.entry # e)
      BY <1>3, <2>8, <3>1 DEF Unheard
    <3>2. \A u \in Upload : ~Gone(u)' => RowOf(u)'.entry # e
      BY <1>3, <2>3 DEF Unheard, Gone, RowOf
    <3>3. \A d \in Doc : session'[d] # None => session'[d].entry # e
      BY <1>1, <1>3 DEF Unheard
    <3>4. ASSUME NEW k \in S
          PROVE  /\ Vacant(sending.entry, Place(k))'
                 /\ \A j \in Slot \ {k} : rows'[j] # None /\ rows'[j].entry = e => rows'[j].index # Place(k)'
      <4>1. Vacant(sending.entry, Place(k))'
        BY <2>10, <2>11, <3>1, <3>2, <3>3 DEF Vacant
      <4>2. ASSUME NEW j \in S, j # k PROVE Place(j)' # Place(k)'
        BY <1>1, <2>11, <4>2, Positions DEF Place
      <4>. QED BY <2>10, <3>1, <4>1, <4>2
    <3>. QED BY <2>3, <2>11, <3>4 DEF StraysLeaveGaps
  <2>. QED BY <2>3, <2>7, <2>9, <2>12, <2>13 DEF IInv
<1>6. CASE /\ \/ /\ Store!CreateEntry(TheRoom, e, Cardinality(S), FALSE, TRUE)
                 /\ payload' = payload
              \/ UNCHANGED tables
           /\ sending' = Idle
           /\ rows' = [k \in Slot |-> IF k \in S THEN None ELSE rows[k]]
           /\ UNCHANGED withdrawn
  <2>1. TablesTyped' /\ TablesKnown' /\ Placed' /\ UNCHANGED <<uploads, files, drawn, payload>>
    <3>1. CASE Store!CreateEntry(TheRoom, e, Cardinality(S), FALSE, TRUE) /\ payload' = payload
      BY <1>1, <1>2, <1>3, <1>4, <3>1, DraftKept
    <3>2. CASE UNCHANGED tables
      BY <1>1, <3>2, TablesStay DEF TablesGo, tables
    <3>. QED BY <1>6, <3>1, <3>2
  <2>2. \A k \in Slot : rows'[k] = IF k \in S THEN None ELSE rows[k]
    BY <1>6
  <2>3. TypeOK'
    <3>1. rows' \in [Slot -> Row \cup {None}]
      BY <1>6 DEF IInv, TypeOK
    <3>2. PageTyped'
      BY <1>1, <1>6, <3>1 DEF PageTyped, IInv, TypeOK, Idle
    <3>. QED BY <2>1, <3>2 DEF TypeOK, TablesTyped, PageTyped
  <2>4. ASSUME NEW k \in Slot, k \notin S, rows'[k] # None
        PROVE  /\ rows'[k] = rows[k]
               /\ \A j \in rows[k].group : j \notin S /\ rows'[j] = rows[j]
    <3>1. rows'[k] = rows[k] /\ rows[k] # None
      BY <2>2, <2>4
    <3>2. rows[k].group \subseteq Slot
      BY <3>1 DEF IInv, TypeOK, Row
    <3>3. \A j \in rows[k].group : j \notin S
      BY <1>3, <3>1 DEF IInv, Groups
    <3>. QED BY <2>2, <3>1, <3>2, <3>3
  <2>5. SessionsKnown' /\ RowsKnown' /\ Groups' /\ NothingComes'
    <3>1. \A k \in S : rows'[k] = None
      BY <1>1, <2>2
    <3>. QED BY <1>1, <1>6, <2>1, <2>3, <2>4, <3>1, ListKeeps
  <2>6. Sending' /\ DoneIsThere' /\ StraysLeaveGaps'
    BY <1>6 DEF Sending, DoneIsThere, StraysLeaveGaps, Idle
  <2>. QED BY <2>1, <2>3, <2>5, <2>6 DEF IInv
<1>. QED BY <1>2, <1>5, <1>6 DEF Declare, Fails

-----------------------------------------------------------------------------
(* An empty room, an empty list.                                           *)
LEMMA Initially == Init => IInv
<1>. SUFFICES ASSUME Init PROVE IInv
  OBVIOUS
<1>. USE DEF Init
<1>1. TypeOK
  BY UploaderAssumption DEF TypeOK, Idle
<1>2. TablesKnown /\ Placed
  BY DEF TablesKnown, Placed, Gone
<1>3. SessionsKnown /\ RowsKnown /\ Groups
  BY DEF SessionsKnown, RowsKnown, Groups
<1>4. NothingComes /\ Sending /\ DoneIsThere /\ StraysLeaveGaps
  BY DEF NothingComes, Sending, DoneIsThere, StraysLeaveGaps, Idle
<1>. QED BY <1>1, <1>2, <1>3, <1>4 DEF IInv

(* A step that changes nothing.                                            *)
LEMMA Stutters == ASSUME IInv, UNCHANGED vars PROVE IInv'
<1>1. TablesGo
  BY TablesStay DEF vars
<1>2. /\ UNCHANGED <<rows, session, sending, sent, sends, deletes, withdrawn>>
      /\ faults' \in 0 .. MaxFaults
  BY DEF vars, page, asked, IInv, TypeOK
<1>. QED BY <1>1, <1>2, TablesOnlyKeep DEF IInv, TypeOK

(* Every step keeps the invariant.                                         *)
LEMMA NextKeeps ==
  ASSUME IInv, [Next]_vars
  PROVE  IInv'
<1>1. ASSUME NEW k \in Slot, Request(k) PROVE IInv'
  BY <1>1, LookKeeps, DropKeeps, CreateKeeps, PutKeeps, CompleteKeeps, CommitAgainKeeps DEF Request
<1>2. ASSUME NEW k \in Slot, Retry(k) \/ Cancel(k) PROVE IInv'
  BY <1>2, RetryKeeps, CancelKeeps
<1>3. ASSUME NEW e \in Message, DeleteEntry(e) PROVE IInv'
  BY <1>3, DeleteKeeps
<1>4. CASE AddItem
  BY <1>4, AddItemKeeps
<1>5. CASE Declare
  BY <1>5, DeclareKeeps
<1>6. CASE CommitSent \/ CommitFails
  BY <1>6, CommitKeeps
<1>7. CASE Expires
  BY <1>7, ExpiresKeeps
<1>8. CASE Reload
  BY <1>8, ReloadKeeps
<1>9. CASE UNCHANGED vars
  BY <1>9, Stutters
<1>. QED BY <1>1, <1>2, <1>3, <1>4, <1>5, <1>6, <1>7, <1>8, <1>9 DEF Next

(* The invariant holds in every behaviour.                                 *)
THEOREM Invariance == Spec => []IInv
<1>1. Init => IInv
  BY Initially
<1>2. IInv /\ [Next]_vars => IInv'
  BY NextKeeps
<1>. QED BY <1>1, <1>2, PTL DEF Spec

(* Rows of the list, sessions in localStorage and the tables of the server *)
(* stay within their types.                                                *)
THEOREM TypeCorrect == Spec => []TypeOK
<1>1. IInv => TypeOK
  BY DEF IInv
<1>. QED BY <1>1, Invariance, PTL

(* Once the server has deleted a cancelled message, nothing that is still  *)
(* under way for it ever becomes a visible file.                           *)
THEOREM CancelledStayHidden == Spec => []CancelledStaysHidden
<1>1. IInv => CancelledStaysHidden
  BY DEF IInv, NothingComes, CancelledStaysHidden, Store!Of, Store!In
<1>. QED BY <1>1, Invariance, PTL

(* When the page is told that its message is committed, every file of it   *)
(* that the page counts as sent is there, with the contents chosen now.    *)
THEOREM SentArePublished == Spec => SentIsPublished
<1>. DEFINE Told(e) ==
       CommitSent /\ sending.entry = e =>
         /\ Published(e)'
         /\ \A k \in sending.rows : LET d == rows[k].doc  v == rows[k].version IN
              rows[k].at = "done" =>
                \E u \in Upload :
                  files'[u] # None /\ files'[u].entry = e /\ payload'[u] = [doc |-> d, version |-> v]
<1>1. ASSUME IInv, NEW e \in Message PROVE Told(e)
  <2>1. SUFFICES ASSUME CommitSent, sending.entry = e
                 PROVE  /\ Published(e)'
                        /\ \A k \in sending.rows : rows[k].at = "done" =>
                             \E u \in Upload :
                               /\ files'[u] # None /\ files'[u].entry = e
                               /\ payload'[u] = [doc |-> rows[k].doc, version |-> rows[k].version]
    OBVIOUS
  <2>2. sending.at = "upload" /\ Commit(e)
    BY <1>1, <2>1 DEF CommitSent, AllUploaded
  <2>3. /\ entries[TheRoom][e] # None /\ files' = files /\ payload' = payload /\ Published(e)'
        /\ \/ entries[TheRoom][e].published
           \/ Cardinality(Store!Of(files, TheRoom, e)) = entries[TheRoom][e].expected
    <3>1. CASE Published(e) /\ UNCHANGED tables
      BY <3>1 DEF Published, tables
    <3>2. CASE Store!CommitEntry(TheRoom, e) /\ UNCHANGED payload
      <4>1. /\ entries[TheRoom][e] # None /\ files' = files
            /\ Cardinality(Store!Of(files, TheRoom, e)) = entries[TheRoom][e].expected
            /\ entries' = [entries EXCEPT ![TheRoom][e].published = TRUE]
        BY <3>2, Commits
      <4>2. entries \in [{TheRoom} -> [Message \cup Upload -> Store!EntryRow \cup {None}]]
        BY <1>1 DEF IInv, TypeOK
      <4>3. PICK row \in Store!EntryRow : row = entries[TheRoom][e]
        BY <4>1, <4>2
      <4>4. [row EXCEPT !.published = TRUE] \in Store!EntryRow
        BY DEF Store!EntryRow
      <4>5. [row EXCEPT !.published = TRUE].published
        BY DEF Store!EntryRow
      <4>6. entries'[TheRoom][e] = [row EXCEPT !.published = TRUE]
        BY <4>1, <4>2, <4>3
      <4>7. \A x \in Store!EntryRow : x # None
        BY UploaderAssumption
      <4>8. [row EXCEPT !.published = TRUE] # None
        BY <4>4, <4>7, Zenon
      <4>9. Published(e)'
        BY <4>5, <4>6, <4>8 DEF Published
      <4>. QED BY <3>2, <4>1, <4>9
    <3>. QED BY <2>2, <3>1, <3>2 DEF Commit
  <2>4. ASSUME NEW k \in sending.rows, rows[k].at = "done"
        PROVE  \E u \in Upload :
                 /\ files'[u] # None /\ files'[u].entry = e
                 /\ payload'[u] = [doc |-> rows[k].doc, version |-> rows[k].version]
    <3>1. ~Strays(k)
      BY <1>1, <2>1, <2>2, <2>3, GapsOpen
    <3>2. rows[k].entry = e
      BY <2>1, <3>1 DEF Strays
    <3>3. Delivered(k)
      BY <1>1, <2>2, <2>4 DEF IInv, DoneIsThere
    <3>. QED BY <2>3, <3>2, <3>3 DEF Delivered
  <2>. QED BY <2>3, <2>4
<1>2. IInv /\ [Next]_vars => [\A e \in Message : Told(e)]_vars
  BY <1>1
<1>. QED BY <1>2, Invariance, PTL DEF Spec, SentIsPublished

-----------------------------------------------------------------------------
(* What the page asks for is what the store does: one transaction on a     *)
(* message, or on an upload, or none, although contents may arrive.        *)
OnMessage(e) ==
  \/ \E n \in 1 .. MaxRows : Store!CreateEntry(TheRoom, e, n, FALSE, TRUE)
  \/ Store!CommitEntry(TheRoom, e) \/ Store!DeleteEntry(TheRoom, e)

OnUpload(u) ==
  \/ \E e \in Message, i \in Store!Index : Store!CreateUpload(u, TheRoom, e, i, 1)
  \/ Store!CompleteUpload(u) \/ Store!AbortUpload(u)

Transaction ==
  \/ UNCHANGED <<entries, uploads, files, drawn>>
  \/ \E e \in Message : OnMessage(e)
  \/ \E u \in Upload : OnUpload(u)

(* To leave the tables alone is to execute none.                           *)
LEMMA NoTransaction ==
  ASSUME UNCHANGED <<entries, uploads, files, drawn>> PROVE Transaction
BY DEF Transaction

(* A message is declared, committed or deleted by one.                     *)
LEMMA EntryTransaction ==
  ASSUME NEW e \in Message,
         \/ \E n \in 1 .. MaxRows : Store!CreateEntry(TheRoom, e, n, FALSE, TRUE)
         \/ Store!CommitEntry(TheRoom, e) \/ Store!DeleteEntry(TheRoom, e)
  PROVE  Transaction
BY DEF Transaction, OnMessage

(* An upload is opened, completed or given up by one.                      *)
LEMMA FileTransaction ==
  ASSUME NEW u \in Upload,
         \/ \E e \in Message, i \in Store!Index : Store!CreateUpload(u, TheRoom, e, i, 1)
         \/ Store!CompleteUpload(u) \/ Store!AbortUpload(u)
  PROVE  Transaction
BY DEF Transaction, OnUpload

(* The commit of a message, or of one that is committed already.           *)
LEMMA CommitExecutes ==
  ASSUME NEW e \in Message, Commit(e) \/ UNCHANGED tables PROVE Transaction
BY EntryTransaction, NoTransaction DEF Commit, tables

(* A row has one request under way.                                        *)
LEMMA RequestExecutes ==
  ASSUME IInv, NEW k \in Slot, Request(k)
  PROVE  Transaction
<1>1. rows[k] # None /\ rows[k] \in Row
  BY DEF Request, Look, Drop, Create, Put, Complete, CommitAgain, At, IInv, TypeOK
<1>2. rows[k].at \in {"look", "drop", "put", "complete"} => Mine(k) \in Upload
  BY <1>1, Holding
<1>3. rows[k].at # "ready" => rows[k].entry \in Message
  BY <1>1 DEF IInv, RowsKnown, Row
<1>4. CASE Look(k)
  BY <1>4, NoTransaction DEF Look, Fails, tables
<1>5. CASE Drop(k)
  BY <1>2, <1>5, FileTransaction, NoTransaction DEF Drop, At, Fails, tables
<1>6. CASE Create(k)
  <2>. DEFINE e == rows[k].entry  i == rows[k].index  u == CHOOSE x \in Upload \ drawn : TRUE
  <2>1. e \in Message /\ i \in Store!Index
    BY <1>1, <1>3, <1>6 DEF Create, At, Row
  <2>2. CASE drawn # Upload /\ Store!CreateUpload(u, TheRoom, e, i, 1)
    <3>1. u \in Upload
      BY <2>2 DEF IInv, TypeOK
    <3>. HIDE DEF u, e, i
    <3>. QED BY <2>1, <2>2, <3>1, FileTransaction
  <2>3. CASE UNCHANGED tables
    BY <2>3, NoTransaction DEF tables
  <2>. QED BY <1>6, <2>2, <2>3 DEF Create, Fails
<1>7. CASE Put(k)
  BY <1>7, NoTransaction DEF Put, Fails, tables
<1>8. CASE Complete(k)
  <2>1. Mine(k) \in Upload
    BY <1>2, <1>8 DEF Complete, At
  <2>2. Store!CompleteUpload(Mine(k)) \/ UNCHANGED tables
    BY <1>8 DEF Complete, Fails
  <2>. QED BY <2>1, <2>2, FileTransaction, NoTransaction DEF tables
<1>9. CASE CommitAgain(k)
  BY <1>1, <1>3, <1>9, CommitExecutes DEF CommitAgain, At, Fails
<1>. QED BY <1>4, <1>5, <1>6, <1>7, <1>8, <1>9 DEF Request

(* A message is declared with all of its files.                            *)
LEMMA DeclareExecutes == ASSUME IInv, Declare PROVE Transaction
<1>. DEFINE n == Cardinality(sending.rows)
<1>1. /\ sending.at = "declare" /\ sending.entry \in Message
      /\ sending.rows \in SUBSET Slot
  BY DEF Declare, IInv, TypeOK, Sending
<1>2. n \in 0 .. MaxRows
  <2>1. IsFiniteSet(Slot) /\ Cardinality(Slot) = MaxRows
    <3>1. 1 \in Int /\ MaxRows \in Nat
      BY UploaderAssumption
    <3>. QED BY <3>1, FS_Interval DEF Slot
  <2>. QED BY <1>1, <2>1, FS_Subset, FS_CardinalityType
<1>3. CASE Store!CreateEntry(TheRoom, sending.entry, n, FALSE, TRUE)
  <2>1. n > 0
    BY <1>3 DEF Store!CreateEntry
  <2>2. n \in 1 .. MaxRows
    BY <1>2, <2>1
  <2>. HIDE DEF n
  <2>. QED BY <1>1, <1>3, <2>2, EntryTransaction
<1>4. CASE UNCHANGED tables
  BY <1>4, NoTransaction DEF tables
<1>. QED BY <1>3, <1>4 DEF Declare, Fails

(* Whatever the page and the passing of time do, the tables change by one  *)
(* transaction of the store at most.                                       *)
LEMMA Executes == ASSUME IInv, [Next]_vars PROVE Transaction
<1>1. ASSUME NEW k \in Slot, Request(k) PROVE Transaction
  BY <1>1, RequestExecutes
<1>2. ASSUME NEW k \in Slot, Retry(k) \/ Cancel(k) PROVE Transaction
  BY <1>2, NoTransaction DEF Retry, Cancel, tables
<1>3. ASSUME NEW e \in Message, DeleteEntry(e) PROVE Transaction
  BY <1>3, EntryTransaction, NoTransaction DEF DeleteEntry, Fails, tables
<1>4. CASE AddItem
  BY <1>4, NoTransaction DEF AddItem, tables
<1>5. CASE CommitSent \/ CommitFails
  <2>1. sending.entry \in Message
    BY <1>5 DEF CommitSent, CommitFails, AllUploaded, IInv, Sending, TypeOK
  <2>. QED BY <1>5, <2>1, CommitExecutes DEF CommitSent, CommitFails, Fails
<1>6. CASE Expires
  BY <1>6, EntryTransaction, FileTransaction DEF Expires
<1>7. CASE Reload
  BY <1>7, NoTransaction DEF Reload, tables
<1>8. CASE UNCHANGED vars
  BY <1>8, NoTransaction DEF vars, tables
<1>. QED BY <1>1, <1>2, <1>3, <1>4, <1>5, <1>6, <1>7, <1>8, DeclareExecutes DEF Next

(* The page works on the tables of RoomStore by its transactions only, and *)
(* by one at a time.                                                       *)
THEOREM StoreIsUsed == Spec => [][Store!Next]_(Store!vars)
<1>1. ASSUME NEW e \in Message, OnMessage(e) PROVE Store!Next
  <2>1. Store!EntryStep(TheRoom)
    BY <1>1 DEF OnMessage, Store!EntryStep, Store!EntryId
  <2>. QED BY <2>1 DEF Store!Next
<1>2. ASSUME NEW u \in Upload, OnUpload(u) PROVE Store!Next
  <2>1. Store!FileStep(u)
    BY <1>2 DEF OnUpload, Store!FileStep, Store!EntryId
  <2>. QED BY <2>1 DEF Store!Next
<1>3. UNCHANGED <<entries, uploads, files, drawn>> => UNCHANGED Store!vars
  BY DEF Store!vars
<1>4. Transaction => [Store!Next]_(Store!vars)
  BY <1>1, <1>2, <1>3 DEF Transaction
<1>5. IInv /\ [Next]_vars => [Store!Next]_(Store!vars)
  BY <1>4, Executes
<1>. QED BY <1>5, Invariance, PTL DEF Spec

(* What RoomStoreProofs shows of any client, for the messages of this one: *)
(* there are no entries but those it declared, an upload into a draft goes *)
(* with the draft, and a published message is closed and has all its files.*)
Messages ==
  /\ \A x \in Message \cup Upload : entries[TheRoom][x] # None =>
       x \in Message /\ entries[TheRoom][x].declared
  /\ \A u \in Upload : ~Gone(u) /\ RowOf(u).grouped => entries[TheRoom][RowOf(u).entry] # None
  /\ \A e \in Message : Published(e) =>
       /\ \A u \in Upload : uploads[u] # None => uploads[u].entry # e
       /\ Cardinality(Store!Of(files, TheRoom, e)) = entries[TheRoom][e].expected

(* Every row is of the one room.                                           *)
LEMMA RowsOf ==
  ASSUME NEW r \in [Upload -> Store!FileRow \cup {None}], NEW e
  PROVE  Store!Of(r, TheRoom, e) = {u \in Upload : r[u] # None /\ r[u].entry = e}
<1>1. ASSUME NEW u \in Upload, r[u] # None PROVE r[u].room = TheRoom
  <2>1. r[u] \in Store!FileRow
    BY <1>1
  <2>. QED BY <2>1 DEF Store!FileRow
<1>. QED BY <1>1 DEF Store!Of, Store!In

(* A transaction keeps what is so of the message e, if it leaves the files *)
(* of a published one alone.                                               *)
LEMMA MessageStays ==
  ASSUME IInv, IInv', Messages, NEW e \in Message, Published(e),
         entries'[TheRoom][e] = entries[TheRoom][e],
         \A u \in Upload : /\ files'[u] # files[u] =>
                                /\ files[u] # None => files[u].entry # e
                                /\ files'[u] # None => files'[u].entry # e
                           /\ uploads'[u] # None => uploads'[u].entry # e
  PROVE  /\ \A u \in Upload : uploads'[u] # None => uploads'[u].entry # e
         /\ Cardinality(Store!Of(files', TheRoom, e)) = entries'[TheRoom][e].expected
<1>1. files \in [Upload -> Store!FileRow \cup {None}] /\ files' \in [Upload -> Store!FileRow \cup {None}]
  BY DEF IInv, TypeOK
<1>2. \A u \in Upload : files'[u] # None /\ files'[u].entry = e <=> files[u] # None /\ files[u].entry = e
  OBVIOUS
<1>3. Store!Of(files', TheRoom, e) = {u \in Upload : files'[u] # None /\ files'[u].entry = e}
  BY <1>1, RowsOf
<1>4. Store!Of(files, TheRoom, e) = {u \in Upload : files[u] # None /\ files[u].entry = e}
  BY <1>1, RowsOf
<1>5. Store!Of(files', TheRoom, e) = Store!Of(files, TheRoom, e)
  BY <1>2, <1>3, <1>4
<1>. QED BY <1>5 DEF Messages

(* The tables, as the following lemmas need them.                          *)
LEMMA TablesAre ==
  ASSUME IInv
  PROVE  /\ entries \in [{TheRoom} -> [Message \cup Upload -> Store!EntryRow \cup {None}]]
         /\ uploads \in [Upload -> Store!FileRow \cup {None}]
         /\ files \in [Upload -> Store!FileRow \cup {None}]
         /\ \A u \in Upload : uploads[u] = None \/ files[u] = None
         /\ \A u \in Upload : ~Gone(u) => u \in drawn /\ RowOf(u).entry \in Message
BY Known DEF IInv, TypeOK, TablesKnown

(* A message is declared.                                                  *)
LEMMA DeclareMessages ==
  ASSUME IInv, Messages, NEW e \in Message, NEW n \in 1 .. MaxRows,
         Store!CreateEntry(TheRoom, e, n, FALSE, TRUE)
  PROVE  Messages'
<1>1. PICK fresh \in BOOLEAN : entries' = [entries EXCEPT ![TheRoom][e] =
        [expected |-> n, published |-> FALSE, expires |-> TRUE, due |-> FALSE,
         declared |-> TRUE, fresh |-> fresh]]
  BY Declares
<1>2. UNCHANGED <<uploads, files>> /\ entries[TheRoom][e] = None
  BY Declares DEF Store!CreateEntry
<1>. DEFINE row == [expected |-> n, published |-> FALSE, expires |-> TRUE, due |-> FALSE,
                    declared |-> TRUE, fresh |-> fresh]
<1>3. row \in Store!EntryRow
  BY DEF Store!EntryRow
<1>4. ~row.published /\ row.declared /\ row # None
  <2>1. ~row.published /\ row.declared
    OBVIOUS
  <2>. HIDE DEF row
  <2>2. row # None
    BY <1>3, UploaderAssumption
  <2>. QED BY <2>1, <2>2
<1>5. entries' = [entries EXCEPT ![TheRoom] = [@ EXCEPT ![e] = row]]
  BY <1>1
<1>. HIDE DEF row
<1>6. /\ entries'[TheRoom][e] = row
      /\ \A x \in Message \cup Upload : x # e => entries'[TheRoom][x] = entries[TheRoom][x]
  BY <1>5, TablesAre
<1>7. \A x \in Message \cup Upload : entries'[TheRoom][x] # None =>
        x \in Message /\ entries'[TheRoom][x].declared
  BY <1>4, <1>6 DEF Messages
<1>8. \A u \in Upload : ~Gone(u)' /\ RowOf(u)'.grouped => entries'[TheRoom][RowOf(u)'.entry] # None
  BY <1>2, <1>4, <1>6, TablesAre DEF Messages, Gone, RowOf
<1>9. ASSUME NEW x \in Message, Published(x)'
      PROVE  /\ \A u \in Upload : uploads'[u] # None => uploads'[u].entry # x
             /\ Cardinality(Store!Of(files', TheRoom, x)) = entries'[TheRoom][x].expected
  <2>1. x # e /\ Published(x)
    BY <1>4, <1>6, <1>9 DEF Published
  <2>2. entries'[TheRoom][x] = entries[TheRoom][x]
    BY <1>6, <2>1
  <2>. QED BY <1>2, <2>1, <2>2 DEF Messages
<1>. QED BY <1>7, <1>8, <1>9 DEF Messages

(* A message is published.                                                 *)
LEMMA CommitMessages ==
  ASSUME IInv, IInv', Messages, NEW e \in Message, Store!CommitEntry(TheRoom, e)
  PROVE  Messages'
<1>1. /\ entries[TheRoom][e] # None
      /\ Cardinality(Store!Of(files, TheRoom, e)) = entries[TheRoom][e].expected
      /\ entries' = [entries EXCEPT ![TheRoom][e].published = TRUE]
      /\ uploads' = uploads /\ files' = files
  BY Commits
<1>2. \A u \in Upload : uploads[u] # None => uploads[u].entry # e
  <2>1. Store!Of(uploads, TheRoom, e) = {}
    BY DEF Store!CommitEntry
  <2>2. uploads \in [Upload -> Store!FileRow \cup {None}]
    BY TablesAre
  <2>3. Store!Of(uploads, TheRoom, e) = {u \in Upload : uploads[u] # None /\ uploads[u].entry = e}
    BY <2>2, RowsOf
  <2>. QED BY <2>1, <2>3
<1>3. PICK row \in Store!EntryRow : row = entries[TheRoom][e]
  BY <1>1, TablesAre
<1>4. entries' = [entries EXCEPT ![TheRoom] = [@ EXCEPT ![e] = [row EXCEPT !.published = TRUE]]]
  BY <1>1, <1>3
<1>5. /\ entries'[TheRoom][e] = [row EXCEPT !.published = TRUE]
      /\ \A x \in Message \cup Upload : x # e => entries'[TheRoom][x] = entries[TheRoom][x]
  BY <1>4, TablesAre
<1>6. [row EXCEPT !.published = TRUE].expected = row.expected
  BY DEF Store!EntryRow
<1>7. [row EXCEPT !.published = TRUE].declared = row.declared
  BY DEF Store!EntryRow
<1>8. row.declared
  BY <1>1, <1>3 DEF Messages
<1>9. \A x \in Message \cup Upload : entries'[TheRoom][x] # None =>
        x \in Message /\ entries'[TheRoom][x].declared
  BY <1>5, <1>7, <1>8 DEF Messages
<1>10. [row EXCEPT !.published = TRUE] # None
  <2>1. [row EXCEPT !.published = TRUE] \in Store!EntryRow
    BY DEF Store!EntryRow
  <2>2. \A x \in Store!EntryRow : x # None
    BY UploaderAssumption
  <2>. QED BY <2>1, <2>2, Zenon
<1>11. \A u \in Upload : ~Gone(u)' /\ RowOf(u)'.grouped => entries'[TheRoom][RowOf(u)'.entry] # None
  BY <1>1, <1>5, <1>10, TablesAre DEF Messages, Gone, RowOf
<1>12. ASSUME NEW x \in Message, Published(x)'
       PROVE  /\ \A u \in Upload : uploads'[u] # None => uploads'[u].entry # x
              /\ Cardinality(Store!Of(files', TheRoom, x)) = entries'[TheRoom][x].expected
  <2>1. CASE x = e
    BY <1>1, <1>2, <1>3, <1>5, <1>6, <2>1
  <2>2. CASE x # e
    <3>1. entries'[TheRoom][x] = entries[TheRoom][x]
      BY <1>5, <2>2
    <3>2. Published(x)
      BY <1>12, <3>1 DEF Published
    <3>. QED BY <1>1, <3>1, <3>2 DEF Messages
  <2>. QED BY <2>1, <2>2
<1>. QED BY <1>9, <1>11, <1>12 DEF Messages

(* A message goes.                                                         *)
LEMMA DeleteMessages ==
  ASSUME IInv, IInv', Messages, NEW e \in Message, Store!DeleteEntry(TheRoom, e)
  PROVE  Messages'
<1>1. /\ entries' = [entries EXCEPT ![TheRoom][e] = None]
      /\ files' = [u \in Upload |-> IF files[u] # None /\ files[u].entry = e THEN None ELSE files[u]]
      /\ uploads' = [u \in Upload |->
           IF uploads[u] # None /\ uploads[u].entry = e THEN None ELSE uploads[u]]
  BY Deletes DEF IInv
<1>2. /\ entries'[TheRoom][e] = None
      /\ \A x \in Message \cup Upload : x # e => entries'[TheRoom][x] = entries[TheRoom][x]
  BY <1>1, TablesAre
<1>3. \A u \in Upload :
        /\ uploads'[u] # None => uploads'[u] = uploads[u] /\ uploads[u].entry # e
        /\ files'[u] # None => files'[u] = files[u] /\ files[u].entry # e
        /\ files'[u] # files[u] => files[u].entry = e /\ files'[u] = None
  BY <1>1
<1>4. \A x \in Message \cup Upload : entries'[TheRoom][x] # None =>
        x \in Message /\ entries'[TheRoom][x].declared
  BY <1>2 DEF Messages
<1>5. \A u \in Upload : ~Gone(u)' /\ RowOf(u)'.grouped => entries'[TheRoom][RowOf(u)'.entry] # None
  <2>1. ASSUME NEW u \in Upload, ~Gone(u)'
        PROVE  ~Gone(u) /\ RowOf(u)' = RowOf(u) /\ RowOf(u).entry # e
    BY <1>3, <2>1, TablesAre DEF Gone, RowOf
  <2>. QED BY <1>2, <2>1, TablesAre DEF Messages
<1>6. ASSUME NEW x \in Message, Published(x)'
      PROVE  /\ \A u \in Upload : uploads'[u] # None => uploads'[u].entry # x
             /\ Cardinality(Store!Of(files', TheRoom, x)) = entries'[TheRoom][x].expected
  <2>1. x # e
    BY <1>2, <1>6 DEF Published
  <2>2. entries'[TheRoom][x] = entries[TheRoom][x]
    BY <1>2, <2>1
  <2>3. Published(x)
    BY <1>6, <2>2 DEF Published
  <2>. QED BY <1>3, <2>1, <2>2, <2>3, MessageStays DEF Messages
<1>. QED BY <1>4, <1>5, <1>6 DEF Messages

(* A session is opened, for a draft only, or for an entry that nobody      *)
(* knows.                                                                  *)
LEMMA CreateMessages ==
  ASSUME IInv, IInv', Messages, NEW u \in Upload, NEW e \in Message, NEW i \in Store!Index,
         Store!CreateUpload(u, TheRoom, e, i, 1)
  PROVE  Messages'
<1>. DEFINE row == [room |-> TheRoom, entry |-> e, index |-> i, size |-> 1,
                    grouped |-> entries[TheRoom][e] # None]
<1>1. u \notin drawn /\ uploads' = [uploads EXCEPT ![u] = row] /\ entries' = entries /\ files' = files
  BY Creates
<1>2. row.entry = e /\ (row.grouped <=> entries[TheRoom][e] # None)
  OBVIOUS
<1>. HIDE DEF row
<1>3. uploads'[u] = row /\ \A w \in Upload : w # u => uploads'[w] = uploads[w]
  BY <1>1, TablesAre
<1>4. files[u] = None
  BY <1>1, TablesAre DEF Gone
<1>5. \A w \in Upload : ~Gone(w)' /\ RowOf(w)'.grouped => entries'[TheRoom][RowOf(w)'.entry] # None
  <2>1. ASSUME NEW w \in Upload, w # u PROVE (Gone(w)' <=> Gone(w)) /\ RowOf(w)' = RowOf(w)
    BY <1>1, <1>3, <2>1 DEF Gone, RowOf
  <2>2. RowOf(u)' = row
    BY <1>1, <1>3, <1>4 DEF RowOf
  <2>. QED BY <1>1, <1>2, <2>1, <2>2 DEF Messages
<1>6. ~Published(e)
  BY Admitted DEF Published, Store!CreateUpload, IInv
<1>7. ASSUME NEW x \in Message, Published(x)'
      PROVE  /\ \A w \in Upload : uploads'[w] # None => uploads'[w].entry # x
             /\ Cardinality(Store!Of(files', TheRoom, x)) = entries'[TheRoom][x].expected
  <2>1. Published(x) /\ x # e
    BY <1>1, <1>6, <1>7 DEF Published
  <2>. QED BY <1>1, <1>2, <1>3, <2>1 DEF Messages
<1>. QED BY <1>1, <1>5, <1>7 DEF Messages

(* A session becomes a file, of a draft, or is given up.                   *)
LEMMA EndMessages ==
  ASSUME IInv, IInv', Messages, NEW u \in Upload, Store!CompleteUpload(u) \/ Store!AbortUpload(u)
  PROVE  Messages'
<1>1. entries' = entries /\ uploads[u] # None /\ uploads' = [uploads EXCEPT ![u] = None]
  BY Completes, Aborts DEF Store!AbortUpload
<1>2. files' = [files EXCEPT ![u] = uploads[u]] \/ files' = files
  BY Completes, Aborts
<1>3. /\ uploads'[u] = None /\ files'[u] \in {None, uploads[u]} /\ files[u] = None
      /\ \A w \in Upload : w # u => uploads'[w] = uploads[w] /\ files'[w] = files[w]
  BY <1>1, <1>2, TablesAre
<1>4. \A w \in Upload : ~Gone(w)' => ~Gone(w) /\ RowOf(w)' = RowOf(w)
  BY <1>3 DEF Gone, RowOf
<1>5. ASSUME NEW x \in Message, Published(x)'
      PROVE  /\ \A w \in Upload : uploads'[w] # None => uploads'[w].entry # x
             /\ Cardinality(Store!Of(files', TheRoom, x)) = entries'[TheRoom][x].expected
  <2>1. Published(x) /\ uploads[u].entry # x
    BY <1>1, <1>5 DEF Published, Messages
  <2>. QED BY <1>1, <1>3, <2>1, MessageStays DEF Messages
<1>. QED BY <1>1, <1>4, <1>5 DEF Messages

(* Whatever transaction the page executes, the messages stay as described. *)
LEMMA MessagesKept ==
  ASSUME IInv, IInv', Messages, Transaction
  PROVE  Messages'
<1>1. CASE UNCHANGED <<entries, uploads, files, drawn>>
  BY <1>1 DEF Messages, Gone, RowOf, Published, Store!Of, Store!In
<1>2. ASSUME NEW e \in Message, OnMessage(e) PROVE Messages'
  BY <1>2, DeclareMessages, CommitMessages, DeleteMessages DEF OnMessage
<1>3. ASSUME NEW u \in Upload, OnUpload(u) PROVE Messages'
  BY <1>3, CreateMessages, EndMessages DEF OnUpload
<1>. QED BY <1>1, <1>2, <1>3 DEF Transaction

(* Files of a message have indexes of their own below n; n of them have    *)
(* all.                                                                    *)
LEMMA AllPlaces ==
  ASSUME NEW n \in Nat, NEW T, Cardinality(T) = n, IsFiniteSet(T), NEW index \in [T -> Store!Index],
         \A f \in T : index[f] < n,
         \A f, g \in T : index[f] = index[g] => f = g
  PROVE  {index[f] : f \in T} = {i \in Store!Index : i < n}
<1>. DEFINE Places == {i \in Store!Index : i < n}
<1>1. IsFiniteSet(Places) /\ Cardinality(Places) <= n /\ Cardinality(Places) \in Nat
  <2>1. IsFiniteSet(0 .. n - 1) /\ Cardinality(0 .. n - 1) = n
    <3>1. 0 \in Int /\ n - 1 \in Int
      OBVIOUS
    <3>. QED BY <3>1, FS_Interval
  <2>2. Places \subseteq 0 .. n - 1
    BY DEF Store!Index
  <2>. QED BY <2>1, <2>2, FS_Subset, FS_CardinalityType
<1>2. index \in Injection(T, Places)
  <2>1. index \in [T -> Places]
    OBVIOUS
  <2>2. \A f, g \in T : index[f] = index[g] => f = g
    OBVIOUS
  <2>. QED BY <2>1, <2>2, Zenon DEF Injection, IsInjective
<1>. HIDE DEF Places
<1>3. Cardinality(T) <= Cardinality(Places)
  BY <1>1, <1>2, FS_Injection
<1>4. Cardinality(T) = Cardinality(Places)
  BY <1>1, <1>3
<1>5. index \in Surjection(T, Places)
  BY <1>1, <1>2, <1>4, FS_Injection
<1>. QED BY <1>2, <1>5 DEF Surjection, Injection, Places

(* Once it is published, a message is there for readers with a file at     *)
(* each of its places and takes no more; before that they see none of it.  *)
THEOREM MessagesAreWhole ==
  Spec => [](Store!DraftNeverLeaks /\ Store!CommittedIsClosed /\ Store!CommittedIsWhole)
<1>1. Init => Messages
  BY DEF Init, Messages, Gone, Published
<1>2. IInv /\ Messages => Store!DraftNeverLeaks
  <2>1. SUFFICES ASSUME IInv, Messages, NEW f \in Upload, files[f] # None, files[f].grouped,
                        Store!Visible(files[f].room, files[f].entry)
                 PROVE  Store!Committed(files[f].room, files[f].entry)
    BY DEF Store!DraftNeverLeaks
  <2>2. files[f].room = TheRoom /\ files[f].entry \in Message \cup Upload
    <3>1. files[f] \in Store!FileRow
      BY <2>1, TablesAre
    <3>. QED BY <3>1 DEF Store!FileRow, Store!EntryId
  <2>3. ~Gone(f) /\ RowOf(f) = files[f]
    BY <2>1 DEF Gone, RowOf
  <2>. QED BY <2>1, <2>2, <2>3 DEF Messages, Store!Visible, Store!Committed
<1>3. ASSUME IInv, Messages, NEW e \in Message \cup Upload, Store!Committed(TheRoom, e)
      PROVE  e \in Message /\ Published(e)
  BY <1>3 DEF Messages, Published, Store!Committed
<1>4. IInv /\ Messages => Store!CommittedIsClosed
  <2>1. SUFFICES ASSUME IInv, Messages, NEW e \in Message \cup Upload, Store!Committed(TheRoom, e)
                 PROVE  Store!Of(uploads, TheRoom, e) = {}
    BY DEF Store!CommittedIsClosed, Store!EntryId
  <2>2. uploads \in [Upload -> Store!FileRow \cup {None}]
    BY <2>1, TablesAre
  <2>3. Store!Of(uploads, TheRoom, e) = {u \in Upload : uploads[u] # None /\ uploads[u].entry = e}
    BY <2>2, RowsOf
  <2>. QED BY <1>3, <2>1, <2>3 DEF Messages
<1>5. IInv /\ Messages => Store!CommittedIsWhole
  <2>1. SUFFICES ASSUME IInv, Messages, NEW e \in Message, Published(e)
                 PROVE  LET n == entries[TheRoom][e].expected  T == Store!Of(files, TheRoom, e) IN
                        Cardinality(T) = n /\ {files[f].index : f \in T} = {i \in Store!Index : i < n}
    BY <1>3 DEF Store!CommittedIsWhole, Store!EntryId, Store!Cardinality, Cardinality
  <2>. DEFINE n == entries[TheRoom][e].expected
              T == Store!Of(files, TheRoom, e)
              index == [f \in T |-> files[f].index]
  <2>2. Cardinality(T) = n
    BY <2>1 DEF Messages
  <2>3. T = {f \in Upload : files[f] # None /\ files[f].entry = e}
    <3>1. files \in [Upload -> Store!FileRow \cup {None}]
      BY <2>1, TablesAre
    <3>. QED BY <3>1, RowsOf
  <2>4. IsFiniteSet(T)
    BY <2>3, FS_Subset, UploaderAssumption
  <2>5. n \in Nat
    BY <2>2, <2>4, FS_CardinalityType
  <2>6. \A f \in T : files[f].index \in Store!Index /\ files[f].index < n
    <3>1. ASSUME NEW f \in T PROVE files[f] \in Store!FileRow /\ ~Gone(f) /\ RowOf(f) = files[f] /\ files[f].entry = e
      BY <2>1, <2>3, TablesAre DEF Gone, RowOf
    <3>2. \A f \in T : files[f].index < n
      BY <2>1, <2>3, <3>1 DEF IInv, Placed, Published
    <3>. QED BY <3>1, <3>2 DEF Store!FileRow
  <2>7. \A f, g \in T : files[f].index = files[g].index => f = g
    BY <2>1, <2>3 DEF IInv, Placed, Published, Gone, RowOf
  <2>. HIDE DEF n, T
  <2>8. index \in [T -> Store!Index] /\ \A f \in T : index[f] = files[f].index
    BY <2>6
  <2>9. {files[f].index : f \in T} = {index[f] : f \in T}
    BY <2>8
  <2>. HIDE DEF index
  <2>10. {index[f] : f \in T} = {i \in Store!Index : i < n}
    BY <2>2, <2>4, <2>5, <2>6, <2>7, <2>8, AllPlaces
  <2>. QED BY <2>2, <2>9, <2>10 DEF n, T
<1>6. IInv /\ IInv' /\ Messages /\ [Next]_vars => Messages'
  BY Executes, MessagesKept
<1>. QED BY <1>1, <1>2, <1>4, <1>5, <1>6, Invariance, PTL DEF Spec
=============================================================================
