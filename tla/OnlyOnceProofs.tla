---------------------------- MODULE OnlyOnceProofs ----------------------------
(***************************************************************************)
(* What may be had only once: a file that is deleted after its download    *)
(* (DownloadOnce), a link for a single use (ShortLinks).  The two share    *)
(* nothing but this module.                                                *)
(***************************************************************************)
EXTENDS DownloadOnce, ShortLinks, FiniteSetTheorems, TLAPS

(* Files that are deleted after their download.                             *)
USE DownloadAssumption

(* A file is in one row at most, and a stored file has its object.         *)
RowsSound ==
  /\ \A e, d \in Entry : entries[e] \in File /\ entries[e] = entries[d] => e = d
  /\ \A e \in Entry : entries[e] # None => e \in drawn
  /\ \A e \in Entry : entries[e] \in File => entries[e] \in drawn /\ entries[e] \in disk
  /\ \A f \in removing : f \in drawn /\ ~Stored(f)

(* A transfer whose bytes are all sent counts, and its entry has had no    *)
(* other file since, unless its id was drawn again.                        *)
TransfersSound ==
  \A t \in Reader : transfers[t] # None =>
    LET x == transfers[t] IN
    /\ x.kind \in Download /\ x.sent = Blocks => x.file \in delivered
    /\ x.pc \in {"find", "delete"} => x.file \in delivered
    /\ x.entry \in drawn /\ x.file \in drawn
    /\ \A f \in File : entries[x.entry] = f => f = x.file \/ f \in reused

IInv == TypeOK /\ RowsSound /\ TransfersSound /\ SpentWhole

LEMMA InitIInv == Init => IInv
<1> SUFFICES ASSUME Init PROVE IInv
  OBVIOUS
<1>1. TypeOK
  BY DEF Init, TypeOK
<1>2. RowsSound /\ TransfersSound /\ SpentWhole
  BY DEF Init, RowsSound, TransfersSound, SpentWhole, Stored
<1>3. QED
  BY <1>1, <1>2 DEF IInv

(* A finished transfer of a download has sent every block.                 *)
LEMMA DownloadsHaveBodies == \A kind \in Download : Length(kind) = Blocks
BY DEF Download, Length

(* The rows of an entry are dropped, by its owner or by a reader.          *)
LEMMA DropKeepsRows ==
  ASSUME TypeOK, RowsSound, NEW e \in Entry, NEW row \in {None, Empty}, Drop(e, row),
         row = None \/ entries[e] # None,
         UNCHANGED <<disk, drawn>>
  PROVE  /\ RowsSound'
         /\ entries' \in [Entry -> File \cup {None, Empty}] /\ removing' \subseteq File
         /\ \A d \in Entry : entries'[d] \in File => entries'[d] = entries[d]
<1>1. entries' \in [Entry -> File \cup {None, Empty}] /\ removing' \subseteq File
  BY DEF Drop, TypeOK
<1>2. entries'[e] = row /\ row \notin File /\ \A d \in Entry \ {e} : entries'[d] = entries[d]
  BY DEF Drop, TypeOK
<1>3. \A f \in removing' : f \in drawn /\ ~Stored(f)'
  <2> SUFFICES ASSUME NEW f \in removing' PROVE f \in drawn /\ ~Stored(f)'
    OBVIOUS
  <2>1. CASE f \in removing
    BY <2>1, <1>2, <1>1 DEF RowsSound, Stored
  <2>2. CASE f = entries[e] /\ f \in File
    BY <2>2, <1>2 DEF RowsSound, Stored
  <2>3. QED
    BY <2>1, <2>2 DEF Drop
<1>4. QED
  BY <1>1, <1>2, <1>3 DEF RowsSound

(* Steps of a transfer that leave the rows and the objects alone.          *)
LEMMA TransferStep ==
  ASSUME IInv, NEW t \in Reader, transfers[t] # None, NEW x \in Transfer \cup {None},
         transfers' = [transfers EXCEPT ![t] = x],
         delivered \subseteq delivered', delivered' \subseteq File,
         spared' \subseteq File, faults' \in 0 .. MaxFaults,
         UNCHANGED <<entries, disk, removing, drawn, reused, spent>>,
         x # None =>
           /\ x.kind \in Download /\ x.sent = Blocks => x.file \in delivered'
           /\ x.pc \in {"find", "delete"} => x.file \in delivered'
           /\ x.file = transfers[t].file
           /\ x.entry = transfers[t].entry \/ entries[x.entry] = x.file
  PROVE  IInv'
<1>1. TypeOK'
  BY DEF IInv, TypeOK
<1>2. RowsSound'
  BY DEF IInv, RowsSound, Stored
<1>3. TransfersSound'
  <2> SUFFICES ASSUME NEW u \in Reader, transfers'[u] # None
               PROVE  /\ transfers'[u].kind \in Download /\ transfers'[u].sent = Blocks
                           => transfers'[u].file \in delivered'
                      /\ transfers'[u].pc \in {"find", "delete"} => transfers'[u].file \in delivered'
                      /\ transfers'[u].entry \in drawn' /\ transfers'[u].file \in drawn'
                      /\ \A f \in File : entries'[transfers'[u].entry] = f => f = transfers'[u].file \/ f \in reused'
    BY Zenon DEF TransfersSound
  <2>1. CASE u # t
    <3>1. transfers'[u] = transfers[u]
      BY <2>1 DEF IInv, TypeOK
    <3>2. QED
      BY <3>1 DEF IInv, TransfersSound
  <2>2. CASE u = t
    <3>1. transfers'[u] = x /\ x \in Transfer
      BY <2>2 DEF IInv, TypeOK
    <3>2. /\ transfers[t].entry \in drawn /\ transfers[t].file \in drawn
          /\ \A f \in File : entries[transfers[t].entry] = f => f = transfers[t].file \/ f \in reused
      BY DEF IInv, TransfersSound
    <3>3. x.entry \in Entry /\ x.file \in File
      BY <3>1 DEF Transfer
    <3>4. x.entry \in drawn
      BY <3>1, <3>2, <3>3 DEF IInv, RowsSound
    <3>5. QED
      BY <3>1, <3>2, <3>3, <3>4
  <2>3. QED
    BY <2>1, <2>2
<1>4. SpentWhole'
  BY DEF IInv, SpentWhole
<1>5. QED
  BY <1>1, <1>2, <1>3, <1>4 DEF IInv

LEMMA Inductive == IInv /\ [Next]_vars => IInv'
<1> SUFFICES ASSUME IInv, [Next]_vars PROVE IInv'
  OBVIOUS
<1> USE DEF IInv
<1>1. ASSUME NEW e \in Entry, NEW f \in File, Publish(e, f) PROVE IInv'
  <2>1. TypeOK'
    BY <1>1 DEF Publish, TypeOK
  <2>2. entries'[e] = f /\ \A d \in Entry \ {e} : entries'[d] = entries[d]
    BY <1>1 DEF Publish, TypeOK
  <2>3. \A d \in Entry : entries[d] # f
    BY <1>1 DEF Publish, RowsSound
  <2>4. RowsSound'
    <3>1. \A g \in removing' : g \in drawn' /\ ~Stored(g)'
      BY <1>1, <2>2 DEF Publish, RowsSound, Stored
    <3>2. \A d, b \in Entry : entries'[d] \in File /\ entries'[d] = entries'[b] => d = b
      BY <2>2, <2>3 DEF RowsSound
    <3>3. QED
      BY <1>1, <2>2, <3>1, <3>2 DEF Publish, RowsSound
  <2>5. TransfersSound'
    <3> SUFFICES ASSUME NEW t \in Reader, transfers[t] # None
                 PROVE  \A g \in File : entries'[transfers[t].entry] = g => g = transfers[t].file \/ g \in reused'
      BY <1>1 DEF Publish, TransfersSound
    <3>1. transfers[t].entry \in drawn /\ transfers[t].entry \in Entry
      BY DEF TransfersSound, TypeOK, Transfer
    <3>2. reused \subseteq reused' /\ (transfers[t].entry = e => f \in reused')
      BY <1>1, <3>1 DEF Publish
    <3>3. QED
      BY <2>2, <3>1, <3>2 DEF TransfersSound
  <2>6. SpentWhole'
    BY <1>1 DEF Publish, SpentWhole
  <2>7. QED
    BY <2>1, <2>4, <2>5, <2>6
<1>2. ASSUME NEW e \in Entry, DeleteEntry(e) \/ DeleteFile(e) PROVE IInv'
  <2>1. PICK row \in {None, Empty} :
          /\ Drop(e, row) /\ entries[e] # None
          /\ UNCHANGED <<disk, transfers, drawn, reused, delivered, spent, spared, faults>>
    BY <1>2 DEF DeleteEntry, DeleteFile
  <2>2. /\ RowsSound'
        /\ entries' \in [Entry -> File \cup {None, Empty}] /\ removing' \subseteq File
        /\ \A d \in Entry : entries'[d] \in File => entries'[d] = entries[d]
    BY <2>1, DropKeepsRows
  <2>3. TypeOK'
    BY <2>1, <2>2 DEF TypeOK
  <2>4. TransfersSound'
    BY <2>1, <2>2 DEF TransfersSound, TypeOK, Transfer
  <2>5. SpentWhole'
    BY <2>1 DEF SpentWhole
  <2>6. QED
    BY <2>2, <2>3, <2>4, <2>5
<1>3. ASSUME NEW f \in File, RemoveObject(f) PROVE IInv'
  <2>1. TypeOK'
    BY <1>3 DEF RemoveObject, TypeOK
  <2>2. RowsSound'
    BY <1>3 DEF RemoveObject, RowsSound, Stored
  <2>3. TransfersSound' /\ SpentWhole'
    BY <1>3 DEF RemoveObject, TransfersSound, SpentWhole
  <2>4. QED
    BY <2>1, <2>2, <2>3
<1>4. ASSUME NEW t \in Reader, Lookup(t) PROVE IInv'
  <2>1. PICK e \in Entry, kind \in Kind :
          /\ entries[e] \in File
          /\ transfers' = [transfers EXCEPT ![t] =
               [pc |-> "open", kind |-> kind, entry |-> e, file |-> entries[e], sent |-> 0]]
    BY <1>4 DEF Lookup, KindsOf
  <2>2. UNCHANGED <<entries, disk, removing, drawn, reused, delivered, spent, spared, faults>>
    BY <1>4 DEF Lookup
  <2>3. [pc |-> "open", kind |-> kind, entry |-> e, file |-> entries[e], sent |-> 0] \in Transfer
    BY <2>1 DEF Transfer
  <2>4. TypeOK'
    BY <2>1, <2>2, <2>3 DEF TypeOK
  <2>5. RowsSound' /\ SpentWhole'
    BY <2>2 DEF RowsSound, Stored, SpentWhole
  <2>6. TransfersSound'
    BY <2>1, <2>2, <2>3 DEF TransfersSound, TypeOK, RowsSound
  <2>7. QED
    BY <2>4, <2>5, <2>6
<1>5. ASSUME NEW t \in Reader, LookupAgain(t) \/ OpenObject(t) \/ Finish(t) PROVE IInv'
  <2>1. transfers[t] # None /\ transfers[t] \in Transfer
    BY <1>5 DEF LookupAgain, OpenObject, Finish, At, TypeOK
  <2>2. UNCHANGED <<entries, disk, removing, drawn, reused, delivered, spent, spared, faults>>
    BY <1>5 DEF LookupAgain, OpenObject, Finish
  <2>3. CASE Done(t)
    BY <2>1, <2>2, <2>3, TransferStep, Zenon DEF Done, TypeOK
  <2>4. CASE \E pc \in {"open", "send"} : Goto(t, pc)
    <3>1. PICK pc \in {"open", "send"} : transfers' = [transfers EXCEPT ![t].pc = pc]
      BY <2>4 DEF Goto
    <3> DEFINE x == [transfers[t] EXCEPT !.pc = pc]
    <3>2. /\ x \in Transfer /\ x.kind = transfers[t].kind /\ x.sent = transfers[t].sent
          /\ x.entry = transfers[t].entry /\ x.file = transfers[t].file /\ x.pc = pc
      BY <2>1 DEF Transfer
    <3>3. transfers' = [transfers EXCEPT ![t] = x]
      BY <3>1, <2>1 DEF TypeOK
    <3>4. x.kind \in Download /\ x.sent = Blocks => x.file \in delivered
      BY <3>2, <2>1 DEF TransfersSound
    <3> HIDE DEF x
    <3>5. QED
      BY <2>1, <2>2, <3>2, <3>3, <3>4, TransferStep DEF TypeOK
  <2>5. CASE Finish(t) /\ transfers[t].kind \in Download
    <3> DEFINE x == [transfers[t] EXCEPT !.pc = "find"]
    <3>1. transfers[t].sent = Blocks
      BY <2>5, DownloadsHaveBodies DEF Finish
    <3>2. /\ x \in Transfer /\ x.kind = transfers[t].kind /\ x.sent = transfers[t].sent
          /\ x.entry = transfers[t].entry /\ x.file = transfers[t].file /\ x.pc = "find"
      BY <2>1 DEF Transfer
    <3>3. transfers' = [transfers EXCEPT ![t] = x]
      BY <2>5, <2>1 DEF TypeOK, Finish, Goto
    <3>4. x.file \in delivered
      BY <3>1, <3>2, <2>1, <2>5 DEF TransfersSound
    <3> HIDE DEF x
    <3>5. QED
      BY <2>1, <2>2, <3>2, <3>3, <3>4, TransferStep DEF TypeOK
  <2>6. QED
    BY <1>5, <2>3, <2>4, <2>5 DEF LookupAgain, OpenObject, Finish
<1>6. ASSUME NEW t \in Reader, Send(t) PROVE IInv'
  <2> DEFINE y == transfers[t]
             pc == IF y.kind \in Stream /\ y.sent + 1 < Blocks THEN "again" ELSE "send"
             x == [y EXCEPT !.sent = @ + 1, !.pc = pc]
  <2>1. y # None /\ y \in Transfer /\ y.sent < Length(y.kind) /\ Length(y.kind) <= Blocks
    BY <1>6 DEF Send, At, TypeOK, Length
  <2>2. pc \in {"again", "send"}
    OBVIOUS
  <2>3. /\ transfers' = [transfers EXCEPT ![t] = x]
        /\ delivered' = IF y.kind \in Download /\ y.sent + 1 = Blocks
                        THEN delivered \cup {y.file} ELSE delivered
        /\ UNCHANGED <<entries, disk, removing, drawn, reused, spent, spared, faults>>
    BY <1>6 DEF Send
  <2> HIDE DEF pc
  <2>4. /\ x \in Transfer /\ x.kind = y.kind /\ x.sent = y.sent + 1
        /\ x.entry = y.entry /\ x.file = y.file /\ x.pc \in {"again", "send"}
    <3>1. y.sent + 1 \in 0 .. Blocks
      BY <2>1 DEF Transfer, Length
    <3> HIDE DEF y
    <3>2. QED
      BY <2>1, <2>2, <3>1 DEF Transfer
  <2>5. y.file \in File
    BY <2>1 DEF Transfer
  <2>6. delivered \subseteq delivered' /\ delivered' \subseteq File
    BY <2>3, <2>5 DEF TypeOK
  <2>7. x.kind \in Download /\ x.sent = Blocks => x.file \in delivered'
    BY <2>3, <2>4
  <2>8. spared' \subseteq File /\ faults' \in 0 .. MaxFaults
    BY <2>3 DEF TypeOK
  <2> HIDE DEF x, y
  <2>9. transfers[t] # None /\ y = transfers[t]
    BY <2>1 DEF y
  <2>10. QED
    BY <2>3, <2>4, <2>6, <2>7, <2>8, <2>9, TransferStep
<1>7. ASSUME NEW t \in Reader, Cut(t) \/ Fail(t) PROVE IInv'
  <2>1. transfers[t] # None /\ transfers[t] \in Transfer
    BY <1>7 DEF Cut, Fail, At, TypeOK
  <2>2. transfers' = [transfers EXCEPT ![t] = None] /\ Spare(t)
    BY <1>7 DEF Cut, Fail, Done
  <2>3. UNCHANGED <<entries, disk, removing, drawn, reused, delivered, spent>>
    BY <1>7 DEF Cut, Fail
  <2>4. faults' \in 0 .. MaxFaults
    BY <1>7 DEF Cut, Fail, TypeOK
  <2>5. spared' \subseteq File
    BY <2>1, <2>2 DEF Spare, TypeOK, Transfer
  <2>6. delivered' = delivered /\ delivered \subseteq File
    BY <2>3 DEF TypeOK
  <2>7. QED
    BY <2>1, <2>2, <2>3, <2>4, <2>5, <2>6, TransferStep
<1>8. ASSUME NEW t \in Reader, FindEntry(t) PROVE IInv'
  <2> DEFINE y == transfers[t]
  <2>1. y # None /\ y \in Transfer /\ y.pc = "find"
    BY <1>8 DEF FindEntry, At, TypeOK
  <2>2. UNCHANGED <<entries, disk, removing, drawn, reused, delivered, spent, spared, faults>>
    BY <1>8 DEF FindEntry
  <2>3. y.file \in delivered
    BY <2>1 DEF TransfersSound
  <2>4. CASE Done(t)
    BY <2>1, <2>2, <2>4, TransferStep, Zenon DEF Done, TypeOK
  <2>5. ASSUME NEW e \in Entry, transfers' = [transfers EXCEPT ![t] = [y EXCEPT !.pc = "delete", !.entry = e]],
               e = y.entry \/ entries[e] = y.file
        PROVE  IInv'
    <3> DEFINE x == [y EXCEPT !.pc = "delete", !.entry = e]
    <3>1. x \in Transfer /\ x.file = y.file /\ x.entry = e /\ x.pc = "delete"
      BY <2>1 DEF Transfer
    <3>2. transfers' = [transfers EXCEPT ![t] = x]
      BY <2>5
    <3> HIDE DEF x
    <3>3. QED
      BY <2>1, <2>2, <2>3, <2>5, <3>1, <3>2, TransferStep DEF TypeOK
  <2>6. CASE Goto(t, "delete")
    <3>1. transfers' = [transfers EXCEPT ![t] = [y EXCEPT !.pc = "delete", !.entry = y.entry]]
      BY <2>6, <2>1 DEF Goto, Transfer, TypeOK
    <3>2. y.entry \in Entry
      BY <2>1 DEF Transfer
    <3>3. QED
      BY <3>1, <3>2, <2>5
  <2>7. CASE /\ Stored(y.file)
             /\ transfers' = [transfers EXCEPT ![t] =
                  [y EXCEPT !.pc = "delete", !.entry = CHOOSE e \in Entry : entries[e] = y.file]]
    <3> DEFINE c == CHOOSE e \in Entry : entries[e] = y.file
    <3>1. c \in Entry /\ entries[c] = y.file
      BY <2>7 DEF Stored
    <3>2. transfers' = [transfers EXCEPT ![t] = [y EXCEPT !.pc = "delete", !.entry = c]]
      BY <2>7
    <3> HIDE DEF c
    <3>3. QED
      BY <3>1, <3>2, <2>5
  <2>8. QED
    BY <1>8, <2>4, <2>6, <2>7 DEF FindEntry
<1>9. ASSUME NEW t \in Reader, Consume(t) PROVE IInv'
  <2> DEFINE y == transfers[t]
  <2>1. y # None /\ y \in Transfer /\ y.pc = "delete" /\ y.entry \in Entry
    BY <1>9 DEF Consume, At, TypeOK, Transfer
  <2>2. /\ Drop(y.entry, None) /\ Done(t)
        /\ spent' = spent \cup ({entries[y.entry]} \cap File)
        /\ UNCHANGED <<disk, drawn, reused, delivered, spared, faults>>
    BY <1>9 DEF Consume
  <2>3. y.file \in delivered
    BY <2>1 DEF TransfersSound
  <2>4. /\ RowsSound'
        /\ entries' \in [Entry -> File \cup {None, Empty}] /\ removing' \subseteq File
        /\ \A d \in Entry : entries'[d] \in File => entries'[d] = entries[d]
    BY <2>1, <2>2, DropKeepsRows
  <2>5. /\ transfers' \in [Reader -> Transfer \cup {None}]
        /\ \A u \in Reader : transfers'[u] # None => transfers'[u] = transfers[u]
    BY <2>2 DEF Done, TypeOK
  <2>6. TypeOK'
    BY <2>2, <2>4, <2>5 DEF TypeOK
  <2>7. TransfersSound'
    BY <2>2, <2>4, <2>5 DEF TransfersSound, TypeOK, Transfer
  <2>8. SpentWhole'
    BY <2>1, <2>2, <2>3 DEF SpentWhole, TransfersSound
  <2>9. QED
    BY <2>4, <2>6, <2>7, <2>8
<1>10. ASSUME Crash PROVE IInv'
  <2>1. TypeOK'
    BY <1>10 DEF Crash, TypeOK
  <2>2. RowsSound' /\ TransfersSound' /\ SpentWhole'
    BY <1>10 DEF Crash, RowsSound, TransfersSound, SpentWhole, Stored
  <2>3. QED
    BY <2>1, <2>2
<1>11. ASSUME UNCHANGED vars PROVE IInv'
  BY <1>11 DEF vars, TypeOK, RowsSound, TransfersSound, SpentWhole, Stored
<1>12. QED
  BY <1>1, <1>2, <1>3, <1>4, <1>5, <1>6, <1>7, <1>8, <1>9, <1>10, <1>11 DEF Next, Progress

LEMMA Invariance == Spec => []IInv
BY InitIInv, Inductive, PTL DEF Spec

(* Every variable keeps its type: only files are removed, and no transfer  *)
(* sends more than its file.                                               *)
THEOREM TypeCorrect == Spec => []TypeOK
<1>1. IInv => TypeOK
  BY DEF IInv
<1>2. QED
  BY <1>1, Invariance, PTL

(* Only what was downloaded whole is deleted because of a download, or     *)
(* what took the id of an earlier entry, for any number of readers and     *)
(* entries.                                                                *)
THEOREM WholeDownloadsSpend == Spec => []SpentWhole
<1>1. IInv => SpentWhole
  BY DEF IInv
<1>2. QED
  BY <1>1, Invariance, PTL

(* A file that is still in its room is never reported missing.             *)
THEOREM MissingWereDeleted == Spec => []MissingIsDeleted
<1>1. IInv => MissingIsDeleted
  BY DEF IInv, MissingIsDeleted, RowsSound, Stored, At, TypeOK, Transfer
<1>2. QED
  BY <1>1, Invariance, PTL

-----------------------------------------------------------------------------
(* Short links, for any number of codes, links, requests and clients.      *)
USE ShortLinksAssumption

(* The empty table.                                                        *)
LEMMA LinkInitInv == LinkInit => LinkInv /\ ActiveLimited
<1> SUFFICES ASSUME LinkInit PROVE LinkInv /\ ActiveLimited
  OBVIOUS
<1>1. LinkInv
  BY DEF LinkInit, LinkInv, LinkTypeOK, RowsKnow, Underway, DueExpired, SingleUse
<1>2. Active = {}
  BY DEF LinkInit, Active, Usable
<1>3. Cardinality(Active) = 0
  BY <1>2, FS_EmptySet
<1> QED BY <1>1, <1>3 DEF ActiveLimited

(* Replacing one row of the table.                                         *)
LEMMA PutRow ==
  ASSUME rows \in [Code -> Row \cup {Nothing}], NEW c \in Code, NEW row \in Row \cup {Nothing},
         rows' = [rows EXCEPT ![c] = row]
  PROVE  /\ rows' \in [Code -> Row \cup {Nothing}]
         /\ rows'[c] = row
         /\ \A d \in Code : d # c => rows'[d] = rows[d]
OBVIOUS

(* A creator that begins, gives up or draws another code.                  *)
LEMMA CreatorInv ==
  ASSUME LinkInv, NEW r \in Creator, BeginCreate(r) \/ RefuseCreate(r) \/ Conflict(r)
  PROVE  LinkInv'
<1>1. CASE BeginCreate(r)
  <2>1. PICK l \in Link \ used :
          /\ creating' = [creating EXCEPT ![r] = [link |-> l, left |-> MaxAttempts]]
          /\ used' = used \cup {l}
    BY <1>1 DEF BeginCreate
  <2>2. [link |-> l, left |-> MaxAttempts] \in Request
    BY DEF Request
  <2>3. LinkTypeOK'
    BY <1>1, <2>1, <2>2 DEF LinkInv, LinkTypeOK, BeginCreate
  <2>4. RowsKnow' /\ DueExpired' /\ SingleUse'
    BY <1>1, <2>1 DEF LinkInv, RowsKnow, DueExpired, SingleUse, BeginCreate
  <2>5. \A q \in Creator : creating'[q] = IF q = r THEN [link |-> l, left |-> MaxAttempts] ELSE creating[q]
    BY <2>1 DEF LinkInv, LinkTypeOK
  <2>6. Underway'
    BY <1>1, <2>1, <2>2, <2>5 DEF LinkInv, LinkTypeOK, RowsKnow, Underway, BeginCreate
  <2> QED BY <2>3, <2>4, <2>6 DEF LinkInv
<1>2. CASE RefuseCreate(r) \/ (Conflict(r) /\ Answer(r))
  BY <1>2 DEF LinkInv, LinkTypeOK, RowsKnow, Underway, DueExpired, SingleUse, RefuseCreate,
              Conflict, Answer
<1>3. CASE Conflict(r) /\ creating[r].left > 1
  <2>1. creating[r] \in Request
    BY <1>3 DEF LinkInv, LinkTypeOK, Conflict
  <2> DEFINE next == [creating[r] EXCEPT !.left = @ - 1]
  <2>2. next \in Request /\ next.link = creating[r].link
    BY <1>3, <2>1 DEF Request
  <2>3. creating' = [creating EXCEPT ![r] = next]
    BY <1>3 DEF Conflict
  <2>4. \A q \in Creator : creating'[q] = IF q = r THEN next ELSE creating[q]
    BY <2>3 DEF LinkInv, LinkTypeOK
  <2> HIDE DEF next
  <2>5. LinkTypeOK' /\ RowsKnow' /\ DueExpired' /\ SingleUse'
    BY <1>3, <2>2, <2>3 DEF LinkInv, LinkTypeOK, RowsKnow, DueExpired, SingleUse, Conflict
  <2>6. Underway'
    BY <1>3, <2>2, <2>4 DEF LinkInv, LinkTypeOK, Underway, Conflict
  <2> QED BY <2>5, <2>6 DEF LinkInv
<1> QED BY <1>1, <1>2, <1>3 DEF Conflict

(* A new row for a link that had none.                                     *)
LEMMA InsertInv ==
  ASSUME LinkInv, NEW r \in Creator, Insert(r)
  PROVE  LinkInv'
<1> DEFINE row == [link |-> creating[r].link, uses |-> 0, due |-> FALSE]
<1>1. PICK c \in Code : rows[c] = Nothing /\ rows' = [rows EXCEPT ![c] = row]
  BY DEF Insert
<1>2. creating[r] \in Request
  BY DEF LinkInv, LinkTypeOK, Insert
<1>3. row \in Row /\ row.link = creating[r].link /\ row.uses = 0 /\ ~row.due
  BY <1>2 DEF Row, Request
<1>4. creating' = [creating EXCEPT ![r] = Nothing]
  BY DEF Insert, Answer
<1> HIDE DEF row
<1>5. /\ rows' \in [Code -> Row \cup {Nothing}]
      /\ rows'[c] = row
      /\ \A d \in Code : d # c => rows'[d] = rows[d]
  BY <1>1, <1>3, PutRow DEF LinkInv, LinkTypeOK
<1>6. LinkTypeOK'
  BY <1>4, <1>5 DEF LinkInv, LinkTypeOK, Insert
<1>7. RowsKnow'
  BY <1>3, <1>5 DEF LinkInv, LinkTypeOK, RowsKnow, Underway, Insert
<1>8. \A q \in Creator : creating'[q] = IF q = r THEN Nothing ELSE creating[q]
  BY <1>4 DEF LinkInv, LinkTypeOK
<1>9. Underway'
  BY <1>3, <1>5, <1>8 DEF LinkInv, LinkTypeOK, Underway, Insert
<1>10. DueExpired'
  BY <1>3, <1>5 DEF LinkInv, DueExpired, Insert
<1> QED BY <1>6, <1>7, <1>9, <1>10 DEF LinkInv, SingleUse, Insert

(* A redemption: the row counts it as the grant does.                      *)
LEMMA RedeemInv ==
  ASSUME LinkInv, NEW p \in Client, Redeem(p)
  PROVE  LinkInv'
<1> DEFINE c == fetched[p].code  l == rows[c].link
           row == [rows[c] EXCEPT !.uses = @ + 1]
<1>1. c \in Code /\ rows[c] # Nothing
  BY DEF LinkInv, LinkTypeOK, Redeem, Usable
<1>2. rows[c] \in Row /\ l \in Link /\ rows[c].uses \in Nat
  BY <1>1 DEF LinkInv, LinkTypeOK, Row
<1>3. row \in Row /\ row.link = l /\ row.uses = rows[c].uses + 1 /\ row.due = rows[c].due
  BY <1>2 DEF Row
<1>4. rows' = [rows EXCEPT ![c] = row] /\ granted' = [granted EXCEPT ![l] = @ + 1]
  BY DEF Redeem, Spend
<1>5. l \in Single => rows[c].uses = 0
  BY DEF Redeem, Usable
<1>6. UNCHANGED <<creating, fetched, used, expired>>
  BY DEF Redeem, Spend
<1> HIDE DEF c, l, row
<1>7. /\ rows' \in [Code -> Row \cup {Nothing}]
      /\ rows'[c] = row
      /\ \A d \in Code : d # c => rows'[d] = rows[d]
  BY <1>1, <1>3, <1>4, PutRow DEF LinkInv, LinkTypeOK
<1>8. /\ granted' \in [Link -> Nat]
      /\ granted'[l] = granted[l] + 1
      /\ \A k \in Link : k # l => granted'[k] = granted[k]
  BY <1>2, <1>4 DEF LinkInv, LinkTypeOK
<1>9. l \in used /\ granted[l] = rows[c].uses
  BY <1>1 DEF LinkInv, RowsKnow, l
<1>10. LinkTypeOK'
  BY <1>6, <1>7, <1>8 DEF LinkInv, LinkTypeOK
<1>11. \A d \in Code : rows[d] # Nothing /\ rows[d].link = l => d = c
  BY <1>1 DEF LinkInv, RowsKnow, l
<1>12. \A d \in Code : rows[d] # Nothing => rows[d].link \in Link
  BY DEF LinkInv, LinkTypeOK, Row
<1>13. RowsKnow'
  <2>1. \A d \in Code : rows'[d] # Nothing =>
          rows'[d].link \in used' /\ granted'[rows'[d].link] = rows'[d].uses
    BY <1>3, <1>6, <1>7, <1>8, <1>9, <1>11, <1>12 DEF LinkInv, RowsKnow
  <2>2. \A d \in Code : rows'[d] # Nothing => rows[d] # Nothing /\ rows'[d].link = rows[d].link
    BY <1>1, <1>3, <1>7 DEF l
  <2> QED BY <2>1, <2>2 DEF LinkInv, RowsKnow
<1>14. \A r \in Creator : creating[r] # Nothing => creating[r].link # l
  BY <1>1 DEF LinkInv, Underway, l
<1>15. Underway'
  <2>1. \A r \in Creator : creating[r] # Nothing => creating[r].link \in Link
    BY DEF LinkInv, LinkTypeOK, Request
  <2>2. \A d \in Code : rows'[d] # Nothing => rows[d] # Nothing /\ rows'[d].link = rows[d].link
    BY <1>1, <1>3, <1>7 DEF l
  <2> QED BY <1>6, <1>8, <1>9, <1>14, <2>1, <2>2 DEF LinkInv, Underway
<1>16. SingleUse'
  BY <1>5, <1>8, <1>9 DEF LinkInv, SingleUse
<1>17. DueExpired'
  BY <1>1, <1>3, <1>6, <1>7 DEF LinkInv, DueExpired, l
<1> QED BY <1>10, <1>13, <1>15, <1>16, <1>17 DEF LinkInv

(* Deadlines and the sweep take rows away or mark them.                    *)
LEMMA TimeInv ==
  ASSUME LinkInv, Sweep \/ \E c \in Code : Expire(c)
  PROVE  LinkInv'
<1>1. CASE Sweep
  BY <1>1 DEF LinkInv, LinkTypeOK, RowsKnow, Underway, DueExpired, SingleUse, Sweep
<1>2. ASSUME NEW c \in Code, Expire(c)
      PROVE  LinkInv'
  <2> DEFINE row == [rows[c] EXCEPT !.due = TRUE]
  <2>1. rows[c] \in Row
    BY <1>2 DEF LinkInv, LinkTypeOK, Expire
  <2>2. row \in Row /\ row.link = rows[c].link /\ row.uses = rows[c].uses
    BY <2>1 DEF Row
  <2>3. rows' = [rows EXCEPT ![c] = row] /\ rows[c] # Nothing
    BY <1>2 DEF Expire
  <2> HIDE DEF row
  <2>4. /\ rows' \in [Code -> Row \cup {Nothing}]
        /\ rows'[c] = row
        /\ \A d \in Code : d # c => rows'[d] = rows[d]
    BY <2>2, <2>3, PutRow DEF LinkInv, LinkTypeOK
  <2>5. \A d \in Code : rows'[d] # Nothing =>
          rows[d] # Nothing /\ rows'[d].link = rows[d].link /\ rows'[d].uses = rows[d].uses
    BY <2>2, <2>3, <2>4
  <2>6. expired' = expired \cup {rows[c].link} /\ rows[c].link \in Link
    BY <1>2, <2>1 DEF Expire, Row
  <2>7. DueExpired'
    BY <2>2, <2>3, <2>4, <2>6 DEF LinkInv, DueExpired
  <2> QED BY <1>2, <2>4, <2>5, <2>6, <2>7 DEF LinkInv, LinkTypeOK, RowsKnow, Underway, SingleUse, Expire
<1> QED BY <1>1, <1>2

(* Every step preserves the invariant.                                     *)
LEMMA LinkNextInv == LinkInv /\ [LinkNext]_linkVars => LinkInv'
<1> SUFFICES ASSUME LinkInv, [LinkNext]_linkVars PROVE LinkInv'
  OBVIOUS
<1>1. ASSUME NEW p \in Client, Fetch(p)
      PROVE  LinkInv'
  <2>1. PICK c \in Code : /\ Usable(c)
                          /\ fetched' = [fetched EXCEPT ![p] = [code |-> c, link |-> rows[c].link]]
    BY <1>1 DEF Fetch
  <2>2. rows[c].link \in Link
    BY <2>1 DEF LinkInv, LinkTypeOK, Usable, Row
  <2>3. fetched' \in [Client -> [code : Code, link : Link] \cup {Nothing}]
    BY <2>1, <2>2 DEF LinkInv, LinkTypeOK
  <2> QED BY <1>1, <2>3 DEF LinkInv, LinkTypeOK, RowsKnow, Underway, DueExpired, SingleUse, Fetch
<1>2. CASE UNCHANGED linkVars
  BY <1>2 DEF LinkInv, LinkTypeOK, RowsKnow, Underway, DueExpired, SingleUse, linkVars
<1> QED BY <1>1, <1>2, CreatorInv, InsertInv, RedeemInv, TimeInv DEF LinkNext

(* The usable rows can be counted, and a step adds one at most.            *)
LEMMA ActiveStep == LinkInv /\ ActiveLimited /\ [LinkNext]_linkVars => ActiveLimited'
<1> SUFFICES ASSUME LinkInv, ActiveLimited, [LinkNext]_linkVars PROVE ActiveLimited'
  OBVIOUS
<1>1. IsFiniteSet(Active) /\ Cardinality(Active) \in Nat
  <2>1. Active \subseteq Code
    BY DEF Active
  <2> QED BY <2>1, FS_Subset, FS_CardinalityType
<1>2. CASE Active' \subseteq Active
  <2>1. Cardinality(Active') <= Cardinality(Active) /\ Cardinality(Active') \in Nat
    BY <1>1, <1>2, FS_Subset, FS_CardinalityType
  <2> QED BY <1>1, <2>1 DEF ActiveLimited
<1>3. ASSUME NEW r \in Creator, Insert(r)
      PROVE  ActiveLimited'
  <2>1. PICK c \in Code : \A d \in Code : d # c => rows'[d] = rows[d]
    BY <1>3 DEF Insert, LinkInv, LinkTypeOK
  <2>2. Active' \subseteq Active \cup {c}
    BY <2>1 DEF Active, Usable
  <2>3. IsFiniteSet(Active \cup {c}) /\ Cardinality(Active \cup {c}) <= Cardinality(Active) + 1
    <3>1. Cardinality(Active \cup {c}) = IF c \in Active THEN Cardinality(Active) ELSE Cardinality(Active) + 1
      BY <1>1, FS_AddElement
    <3>2. IsFiniteSet(Active \cup {c})
      BY <1>1, FS_AddElement
    <3> QED BY <1>1, <3>1, <3>2
  <2>4. Cardinality(Active') <= Cardinality(Active \cup {c}) /\ Cardinality(Active') \in Nat
    BY <2>2, <2>3, FS_Subset, FS_CardinalityType
  <2>5. Cardinality(Active) < MaxLinks
    BY <1>3 DEF Insert
  <2>6. Cardinality(Active \cup {c}) \in Nat
    BY <2>3, FS_CardinalityType
  <2> QED BY <1>1, <2>3, <2>4, <2>5, <2>6 DEF ActiveLimited
<1>4. ASSUME NEW p \in Client, Redeem(p)
      PROVE  Active' \subseteq Active
  <2> DEFINE c == fetched[p].code
  <2>1. c \in Code /\ c \in Active
    BY <1>4 DEF LinkInv, LinkTypeOK, Redeem, Active, Usable
  <2>2. \A d \in Code : d # c => rows'[d] = rows[d]
    BY <1>4 DEF Redeem, Spend, LinkInv, LinkTypeOK
  <2> HIDE DEF c
  <2> QED BY <2>1, <2>2 DEF Active, Usable
<1>5. ASSUME NEW c \in Code, Expire(c)
      PROVE  Active' \subseteq Active
  <2>1. c \in Active \/ rows[c].link \in Single
    BY <1>5 DEF Expire, Active, Usable
  <2>2. \A d \in Code : d # c => rows'[d] = rows[d]
    BY <1>5 DEF Expire, LinkInv, LinkTypeOK
  <2>3. rows'[c].due
    BY <1>5 DEF Expire, LinkInv, LinkTypeOK, Row
  <2> QED BY <2>2, <2>3 DEF Active, Usable
<1>6. CASE Sweep
  BY <1>2, <1>6 DEF Sweep, Active, Usable
<1>7. CASE UNCHANGED rows
  BY <1>2, <1>7 DEF Active, Usable
<1>8. ASSUME NEW r \in Creator, BeginCreate(r) \/ RefuseCreate(r) \/ Conflict(r)
      PROVE  UNCHANGED rows
  BY <1>8 DEF BeginCreate, RefuseCreate, Conflict
<1>9. ASSUME NEW p \in Client, Fetch(p)
      PROVE  UNCHANGED rows
  BY <1>9 DEF Fetch
<1> QED BY <1>2, <1>3, <1>4, <1>5, <1>6, <1>7, <1>8, <1>9 DEF LinkNext, linkVars

(* Rows, requests and counters keep their types.                           *)
THEOREM LinkTypeCorrect == LinkSpec => []LinkTypeOK
<1>1. LinkInv => LinkTypeOK
  BY DEF LinkInv
<1> QED BY <1>1, LinkInitInv, LinkNextInv, PTL DEF LinkSpec

(* A single-use link is granted once at most, however many readers hold    *)
(* its token and repeat their redemptions.                                 *)
THEOREM UsedOnce == LinkSpec => []SingleUse
<1>1. LinkInv => SingleUse
  BY DEF LinkInv
<1> QED BY <1>1, LinkInitInv, LinkNextInv, PTL DEF LinkSpec

(* Creators in any number, each drawing several codes, never exceed the    *)
(* limit together.                                                         *)
THEOREM LimitHolds == LinkSpec => []ActiveLimited
BY LinkInitInv, LinkNextInv, ActiveStep, PTL DEF LinkSpec

(* A link that one client may redeem stays so, whatever the others do.     *)
LEMMA RedeemableStep ==
  ASSUME LinkInv, RedeemableUntilUsed, [LinkNext]_linkVars
  PROVE  RedeemableUntilUsed'
<1> SUFFICES ASSUME NEW p \in Client, fetched'[p] # Nothing
             PROVE  UsedOrRedeemable(p)'
  BY DEF RedeemableUntilUsed
<1> DEFINE c == fetched[p].code  l == fetched[p].link
<1>1. fetched[p] # Nothing => /\ c \in Code /\ l \in Link
                              /\ l \in expired \/ (l \in Single /\ granted[l] # 0) \/ (Usable(c) /\ rows[c].link = l)
  BY DEF LinkInv, LinkTypeOK, RedeemableUntilUsed, UsedOrRedeemable
<1>2. ASSUME NEW q \in Client, Fetch(q)
      PROVE  UsedOrRedeemable(p)'
  <2>1. PICK d \in Code : /\ Usable(d)
                          /\ fetched' = [fetched EXCEPT ![q] = [code |-> d, link |-> rows[d].link]]
    BY <1>2 DEF Fetch
  <2>2. UNCHANGED <<rows, granted, expired>>
    BY <1>2 DEF Fetch
  <2>3. CASE p = q
    <3>1. fetched'[p] = [code |-> d, link |-> rows[d].link]
      BY <2>1, <2>3 DEF LinkInv, LinkTypeOK
    <3> QED BY <2>1, <2>2, <3>1 DEF Usable, UsedOrRedeemable
  <2>4. CASE p # q
    <3>1. fetched'[p] = fetched[p]
      BY <2>1, <2>4 DEF LinkInv, LinkTypeOK
    <3> QED BY <1>1, <2>2, <3>1 DEF Usable, UsedOrRedeemable
  <2> QED BY <2>3, <2>4
<1>3. ASSUME fetched' = fetched, expired \subseteq expired',
             \A k \in Link : granted[k] # 0 => granted'[k] # 0,
             Usable(c) => \/ rows'[c] = rows[c]
                          \/ rows[c].link \in expired'
                          \/ rows'[c].link = rows[c].link /\ Usable(c)'
                          \/ rows[c].link \in Single /\ granted'[rows[c].link] # 0
      PROVE  UsedOrRedeemable(p)'
  BY <1>1, <1>3 DEF Usable, UsedOrRedeemable
<1>4. ASSUME NEW r \in Creator, Insert(r)
      PROVE  Usable(c) => rows'[c] = rows[c]
  BY <1>4 DEF Insert, LinkInv, LinkTypeOK, Usable
<1>5. ASSUME NEW q \in Client, Redeem(q)
      PROVE  /\ \A k \in Link : granted[k] # 0 => granted'[k] # 0
             /\ Usable(c) => \/ rows'[c] = rows[c]
                             \/ rows'[c].link = rows[c].link /\ Usable(c)'
                             \/ rows[c].link \in Single /\ granted'[rows[c].link] # 0
  <2> DEFINE d == fetched[q].code  k == rows[d].link
  <2>1. d \in Code /\ rows[d] \in Row /\ rows[d] # Nothing /\ ~rows[d].due /\ k = fetched[q].link /\ k \in Link
    BY <1>5 DEF Redeem, LinkInv, LinkTypeOK, Usable, Row
  <2>2. /\ rows' = [rows EXCEPT ![d].uses = @ + 1]
        /\ granted' = [granted EXCEPT ![k] = @ + 1]
    BY <1>5, <2>1 DEF Redeem, Spend
  <2>3. /\ rows'[d].link = k /\ ~rows'[d].due /\ rows'[d] \in Row
        /\ \A b \in Code : b # d => rows'[b] = rows[b]
    <3>1. [rows[d] EXCEPT !.uses = @ + 1] \in Row
      BY <2>1 DEF Row
    <3> QED BY <2>1, <2>2, <3>1 DEF LinkInv, LinkTypeOK, Row
  <2>4. granted'[k] # 0 /\ \A m \in Link : granted[m] # 0 => granted'[m] # 0
    BY <2>1, <2>2 DEF LinkInv, LinkTypeOK
  <2>5. rows'[d] # Nothing /\ rows'[d].link = rows[d].link /\ fetched' = fetched
    BY <1>5, <2>3 DEF Redeem, Spend
  <2> HIDE DEF d, k
  <2>6. ASSUME c = d, k \notin Single PROVE rows'[c].link = rows[c].link /\ Usable(c)'
    BY <2>3, <2>5, <2>6 DEF Usable, k
  <2>7. CASE c = d
    BY <2>4, <2>6, <2>7 DEF k
  <2>8. CASE c # d
    <3>1. c \in Code
      BY <1>1, <1>5 DEF Redeem, Spend
    <3>2. rows'[c] = rows[c]
      BY <2>3, <2>8, <3>1
    <3> QED BY <2>4, <3>2
  <2> QED BY <2>4, <2>7, <2>8
<1>6. ASSUME NEW d \in Code, Expire(d)
      PROVE  expired \subseteq expired' /\ (Usable(c) => rows'[c] = rows[c] \/ rows[c].link \in expired')
  <2>1. rows' = [rows EXCEPT ![d].due = TRUE] /\ expired' = expired \cup {rows[d].link}
    BY <1>6 DEF Expire
  <2>2. c # d => rows'[c] = rows[c] \/ c \notin Code
    BY <2>1 DEF LinkInv, LinkTypeOK
  <2>3. fetched[p] # Nothing
    BY <1>6 DEF Expire
  <2> QED BY <1>1, <2>1, <2>2, <2>3
<1>7. ASSUME Sweep PROVE Usable(c) => rows'[c] = rows[c]
  <2>1. fetched[p] # Nothing
    BY <1>7 DEF Sweep
  <2> QED BY <1>1, <1>7, <2>1 DEF Sweep, Usable
<1>8. ASSUME NEW r \in Creator, BeginCreate(r) \/ RefuseCreate(r) \/ Conflict(r)
      PROVE  UNCHANGED <<rows, fetched, granted, expired>>
  BY <1>8 DEF BeginCreate, RefuseCreate, Conflict
<1>9. CASE \E r \in Creator : BeginCreate(r) \/ RefuseCreate(r) \/ Conflict(r)
  BY <1>3, <1>8, <1>9
<1>10. CASE \E r \in Creator : Insert(r)
  BY <1>3, <1>4, <1>10 DEF Insert
<1>11. CASE \E q \in Client : Redeem(q)
  BY <1>3, <1>5, <1>11 DEF Redeem, Spend
<1>12. CASE \E d \in Code : Expire(d)
  BY <1>3, <1>6, <1>12 DEF Expire
<1>13. CASE Sweep
  BY <1>3, <1>7, <1>13 DEF Sweep
<1>14. CASE UNCHANGED linkVars
  BY <1>3, <1>14 DEF linkVars
<1> QED BY <1>2, <1>9, <1>10, <1>11, <1>12, <1>13, <1>14 DEF LinkNext

(* What a client has decrypted it may redeem until the link expires or its *)
(* use has been granted, for any number of clients that hold earlier links *)
(* of the same codes.                                                      *)
THEOREM KeptForReaders == LinkSpec => []RedeemableUntilUsed
<1>1. LinkInit => RedeemableUntilUsed
  BY DEF LinkInit, RedeemableUntilUsed
<1> QED BY <1>1, LinkInitInv, LinkNextInv, RedeemableStep, PTL DEF LinkSpec
=============================================================================
