---------------------------- MODULE RoomPageProofs ----------------------------
(***************************************************************************)
(* What a page of a room relies on: that it may go on writing while the    *)
(* write capability is rotated (WriteCapability), and that it hears of     *)
(* every change (RoomFeed).  The two share nothing but this module.        *)
(***************************************************************************)
EXTENDS WriteCapability, RoomFeed, TLAPS

(* The write capability, for any number of tokens, pages and requests.     *)
USE CapabilityAssumption

Rotating(r) == requests[r] # None /\ requests[r].kind = "rotate"

(* Nobody but its request knows a token that was drawn for a rotation, and *)
(* none takes part in a former rotation; it is in force once the rotation  *)
(* took place.                                                             *)
Secret ==
  \A r \in Request : Rotating(r) =>
    LET n == requests[r].next IN
    /\ n \in drawn
    /\ \A p \in Page : token[p] # n /\ vault[p] # n
    /\ \A q \in Request : requests[q] # None => requests[q].token # n
    /\ \A q \in Request : q # r /\ Rotating(q) => requests[q].next # n
    /\ \A x \in replaced : x[1] # n
    /\ IF requests[r].pc = "done" THEN current = n ELSE current # n

Drawn ==
  /\ current \in drawn
  /\ \A p \in Page : token[p] \in drawn \cup {None} /\ vault[p] \in drawn \cup {None}
  /\ \A r \in Request : requests[r] # None => requests[r].token \in drawn
  /\ \A x \in replaced : x[1] \in drawn

IInv == TypeOK /\ Drawn /\ Secret /\ Succession /\ WriterRemains

LEMMA InitIInv == Init => IInv
<1> SUFFICES ASSUME Init PROVE IInv
  OBVIOUS
<1>1. TypeOK /\ Drawn /\ Succession /\ WriterRemains
  BY DEF Init, TypeOK, Drawn, Succession, WriterRemains
<1>2. Secret
  BY DEF Init, Secret, Rotating
<1>3. QED
  BY <1>1, <1>2 DEF IInv

(* A request ends, or an answer is lost: what is not known stays unknown.  *)
LEMMA EndKeeps ==
  ASSUME IInv, NEW r \in Request, requests[r] # None, Refuse(r),
         UNCHANGED <<current, token, vault, drawn, replaced>>, lost' \in BOOLEAN
  PROVE  TypeOK' /\ Drawn' /\ Secret' /\ Succession'
<1>1. requests'[r] = None /\ \A q \in Request : q # r => requests'[q] = requests[q]
  BY DEF IInv, TypeOK, Refuse
<1>2. TypeOK'
  BY DEF IInv, TypeOK, Refuse
<1>3. Drawn' /\ Secret' /\ Succession'
  BY <1>1 DEF IInv, Drawn, Secret, Rotating, Succession
<1>4. QED
  BY <1>2, <1>3

(* A request goes on without a change of anything else.                    *)
LEMMA GoOnKeeps ==
  ASSUME IInv, NEW r \in Request, requests[r] # None, NEW pc \in {"authorized", "done"}, Goto(r, pc),
         pc = "done" => requests[r].kind = "change",
         requests[r].pc # "done",
         UNCHANGED <<current, token, vault, drawn, replaced, lost>>
  PROVE  IInv'
<1>1. /\ requests'[r] = [requests[r] EXCEPT !.pc = pc]
      /\ \A q \in Request : q # r => requests'[q] = requests[q]
  BY DEF IInv, TypeOK, Goto
<1>2. requests[r] \in Pending
  BY DEF IInv, TypeOK
<1>3. /\ requests'[r] \in Pending /\ requests'[r] # None
      /\ requests'[r].kind = requests[r].kind /\ requests'[r].token = requests[r].token
      /\ requests'[r].next = requests[r].next /\ requests'[r].pc = pc
  BY <1>1, <1>2 DEF Pending
<1>4. TypeOK'
  BY <1>1, <1>2, <1>3 DEF IInv, TypeOK, Goto
<1>5. \A q \in Request :
        /\ requests'[q] # None => requests[q] # None /\ requests'[q].token = requests[q].token
        /\ Rotating(q)' => /\ Rotating(q) /\ requests'[q].next = requests[q].next
                           /\ (requests'[q].pc = "done") = (requests[q].pc = "done")
  BY <1>1, <1>3 DEF Rotating
<1>6. Drawn' /\ Secret' /\ Succession'
  BY <1>5 DEF IInv, Drawn, Secret, Succession
<1>7. WriterRemains'
  BY <1>1, <1>3 DEF IInv, WriterRemains, At
<1>8. QED
  BY <1>4, <1>6, <1>7 DEF IInv

LEMMA Inductive == IInv /\ [Next]_vars => IInv'
<1> SUFFICES ASSUME IInv, [Next]_vars PROVE IInv'
  OBVIOUS
<1>1. ASSUME NEW r \in Request, NEW p \in Page, BeginChange(r, p) PROVE IInv'
  <2>1. /\ requests'[r] = [page |-> p, kind |-> "change", token |-> token[p], next |-> None, pc |-> "sent"]
        /\ \A q \in Request : q # r => requests'[q] = requests[q]
        /\ requests[r] = None /\ token[p] \in Token
        /\ UNCHANGED <<current, token, vault, drawn, replaced, lost>>
    BY <1>1 DEF BeginChange, IInv, TypeOK
  <2>2. TypeOK'
    BY <1>1, <2>1 DEF BeginChange, IInv, TypeOK, Pending
  <2>3. Drawn' /\ Succession'
    BY <2>1 DEF IInv, Drawn, Succession
  <2>4. Secret'
    BY <2>1 DEF IInv, Secret, Rotating
  <2>5. WriterRemains'
    BY <2>1 DEF IInv, WriterRemains, At
  <2>6. QED
    BY <2>2, <2>3, <2>4, <2>5 DEF IInv
<1>2. ASSUME NEW r \in Request, NEW p \in Page, BeginRotate(r, p) PROVE IInv'
  <2>1. PICK n \in Token \ drawn :
          /\ drawn' = drawn \cup {n}
          /\ requests' = [requests EXCEPT ![r] =
               [page |-> p, kind |-> "rotate", token |-> token[p], next |-> n, pc |-> "sent"]]
    BY <1>2 DEF BeginRotate
  <2>2. /\ requests'[r] = [page |-> p, kind |-> "rotate", token |-> token[p], next |-> n, pc |-> "sent"]
        /\ \A q \in Request : q # r => requests'[q] = requests[q]
        /\ requests[r] = None /\ token[p] \in Token
        /\ UNCHANGED <<current, token, vault, replaced, lost>>
    BY <1>2, <2>1 DEF BeginRotate, IInv, TypeOK
  <2>3. [page |-> p, kind |-> "rotate", token |-> token[p], next |-> n, pc |-> "sent"] \in Pending
    BY <2>2 DEF Pending
  <2>4. TypeOK'
    BY <2>1, <2>2, <2>3 DEF IInv, TypeOK
  <2>5. Drawn' /\ Succession'
    BY <2>1, <2>2 DEF IInv, Drawn, Succession
  <2>6. ASSUME NEW s \in Request, Rotating(s)'
        PROVE  LET m == requests'[s].next IN
               /\ m \in drawn'
               /\ \A o \in Page : token'[o] # m /\ vault'[o] # m
               /\ \A q \in Request : requests'[q] # None => requests'[q].token # m
               /\ \A q \in Request : q # s /\ Rotating(q)' => requests'[q].next # m
               /\ \A x \in replaced' : x[1] # m
               /\ IF requests'[s].pc = "done" THEN current' = m ELSE current' # m
    <3>1. n # None
      OBVIOUS
    <3>2. CASE s = r
      <4>1. \A q \in Request : q # s /\ Rotating(q)' => requests'[q].next # n
        BY <3>2, <2>2 DEF IInv, Secret, Rotating
      <4>2. \A q \in Request : requests'[q] # None => requests'[q].token # n
        BY <2>2, <3>1 DEF IInv, Drawn
      <4>3. QED
        BY <3>1, <3>2, <4>1, <4>2, <2>1, <2>2 DEF IInv, Drawn
    <3>3. CASE s # r
      <4>1. requests'[s] = requests[s] /\ Rotating(s)
        BY <3>3, <2>2, <2>6 DEF Rotating
      <4>2. requests[s].next \in drawn /\ requests[s].next # n
        BY <4>1, <2>1 DEF IInv, Secret
      <4>3. \A q \in Request : requests'[q] # None => requests'[q].token # requests[s].next
        BY <4>1, <2>2 DEF IInv, Secret
      <4>4. QED
        BY <4>1, <4>2, <4>3, <2>1, <2>2, <3>3 DEF IInv, Secret, Rotating
    <3>4. QED
      BY <3>2, <3>3
  <2>7. Secret'
    BY <2>6, Zenon DEF Secret
  <2>8. WriterRemains'
    BY <2>2 DEF IInv, WriterRemains, At
  <2>9. QED
    BY <2>4, <2>5, <2>7, <2>8 DEF IInv
<1>3. ASSUME NEW r \in Request, Receive(r) PROVE IInv'
  <2>1. /\ requests'[r] = None /\ \A q \in Request : q # r => requests'[q] = requests[q]
        /\ requests[r] # None /\ requests[r] \in Pending /\ requests[r].pc = "done"
        /\ UNCHANGED <<current, vault, drawn, replaced, lost>>
    BY <1>3 DEF Receive, Refuse, At, IInv, TypeOK
  <2>2. CASE requests[r].kind = "change"
    <3>1. token' = token /\ Refuse(r)
      BY <2>2, <1>3 DEF Receive
    <3>2. TypeOK' /\ Drawn' /\ Secret' /\ Succession'
      BY <2>1, <3>1, EndKeeps DEF IInv, TypeOK
    <3>3. WriterRemains'
      BY <2>1, <2>2, <3>1 DEF IInv, WriterRemains, At
    <3>4. QED
      BY <3>2, <3>3 DEF IInv
  <2>3. CASE requests[r].kind = "rotate"
    <3> DEFINE n == requests[r].next
               o == requests[r].page
    <3>1. Rotating(r) /\ n \in drawn /\ n \in Token /\ o \in Page
      BY <2>1, <2>3 DEF Rotating, IInv, Secret, TypeOK, Pending
    <3>2. /\ token' = [token EXCEPT ![o] = n]
          /\ token'[o] = n /\ \A p \in Page : p # o => token'[p] = token[p]
      BY <1>3, <2>3, <3>1 DEF Receive, IInv, TypeOK
    <3>3. current = n
      BY <2>1, <3>1 DEF IInv, Secret
    <3>4. TypeOK'
      BY <1>3, <3>1, <3>2 DEF Receive, Refuse, IInv, TypeOK
    <3>5. Drawn' /\ Succession'
      BY <2>1, <3>1, <3>2 DEF IInv, Drawn, Succession
    <3>6. Secret'
      <4> SUFFICES ASSUME NEW s \in Request, Rotating(s)'
                   PROVE  /\ s # r /\ Rotating(s) /\ requests'[s] = requests[s]
                          /\ requests[s].next # n
        BY <2>1, <3>2 DEF IInv, Secret, Rotating
      <4>1. s # r /\ Rotating(s) /\ requests'[s] = requests[s]
        BY <2>1 DEF Rotating
      <4>2. QED
        BY <4>1, <3>1 DEF IInv, Secret
    <3>7. WriterRemains'
      BY <2>1, <3>1, <3>2, <3>3 DEF WriterRemains
    <3>8. QED
      BY <3>4, <3>5, <3>6, <3>7 DEF IInv
  <2>4. QED
    BY <2>1, <2>2, <2>3 DEF Pending
<1>4. ASSUME NEW r \in Request, Lose(r) PROVE IInv'
  <2>1. requests[r] # None /\ requests[r] \in Pending /\ Refuse(r)
        /\ UNCHANGED <<current, token, vault, drawn, replaced>>
    BY <1>4 DEF Lose, At, IInv, TypeOK
  <2>2. lost' \in BOOLEAN
    BY <1>4, Zenon DEF Lose, IInv, TypeOK
  <2>3. TypeOK' /\ Drawn' /\ Secret' /\ Succession'
    BY <2>1, <2>2, EndKeeps
  <2>4. WriterRemains'
    <3>1. \A q \in Request : q # r => requests'[q] = requests[q]
      BY <2>1 DEF Refuse, IInv, TypeOK
    <3>2. CASE lost'
      BY <3>2 DEF WriterRemains
    <3>3. CASE ~lost'
      <4>1. ~lost /\ ~(At(r, "done") /\ requests[r].kind = "rotate")
        BY <3>3, <1>4, Zenon DEF Lose
      <4>2. QED
        BY <4>1, <3>1, <2>1 DEF IInv, WriterRemains, At
    <3>4. QED
      BY <3>2, <3>3
  <2>5. QED
    BY <2>3, <2>4 DEF IInv
<1>5. ASSUME NEW p \in Page, NEW q \in Page, Share(p, q) PROVE IInv'
  <2>1. /\ token'[q] = token[p] /\ \A o \in Page : o # q => token'[o] = token[o]
        /\ token[p] \in Token /\ token[q] = None
        /\ UNCHANGED <<current, requests, vault, drawn, replaced, lost>>
    BY <1>5 DEF Share, IInv, TypeOK
  <2>2. TypeOK'
    BY <1>5, <2>1 DEF Share, IInv, TypeOK
  <2>3. Drawn' /\ Secret' /\ Succession'
    BY <2>1 DEF IInv, Drawn, Secret, Rotating, Succession
  <2>4. WriterRemains'
    BY <2>1 DEF IInv, WriterRemains, At, TypeOK
  <2>5. QED
    BY <2>2, <2>3, <2>4 DEF IInv
<1>6. ASSUME NEW p \in Page, Remember(p) PROVE IInv'
  <2>1. /\ vault'[p] = token[p] /\ \A o \in Page : o # p => vault'[o] = vault[o]
        /\ token[p] \in Token
        /\ UNCHANGED <<current, requests, token, drawn, replaced, lost>>
    BY <1>6 DEF Remember, IInv, TypeOK
  <2>2. TypeOK'
    BY <1>6, <2>1 DEF Remember, IInv, TypeOK
  <2>3. Drawn' /\ Secret' /\ Succession'
    BY <2>1 DEF IInv, Drawn, Secret, Rotating, Succession
  <2>4. WriterRemains'
    BY <2>1 DEF IInv, WriterRemains, At
  <2>5. QED
    BY <2>2, <2>3, <2>4 DEF IInv
<1>7. ASSUME NEW p \in Page, Close(p) PROVE IInv'
  <2>1. /\ token'[p] = None /\ \A o \in Page : o # p => token'[o] = token[o]
        /\ UNCHANGED <<current, requests, vault, drawn, replaced>>
    BY <1>7 DEF Close, IInv, TypeOK
  <2>2. lost' \in BOOLEAN /\ (~lost' => ~lost /\ token[p] # current)
    BY <1>7, Zenon DEF Close, IInv, TypeOK
  <2>3. TypeOK'
    BY <1>7, <2>1, <2>2 DEF Close, IInv, TypeOK
  <2>4. Drawn' /\ Succession'
    BY <2>1 DEF IInv, Drawn, Succession
  <2>5. Secret'
    BY <2>1 DEF IInv, Secret, Rotating, TypeOK, Drawn
  <2>6. WriterRemains'
    BY <2>1, <2>2 DEF IInv, WriterRemains, At
  <2>7. QED
    BY <2>3, <2>4, <2>5, <2>6 DEF IInv
<1>8. ASSUME NEW p \in Page, Reopen(p) PROVE IInv'
  <2>1. /\ token'[p] = vault[p] /\ \A o \in Page : o # p => token'[o] = token[o]
        /\ vault[p] \in Token /\ token[p] = None
        /\ UNCHANGED <<current, requests, vault, drawn, replaced, lost>>
    BY <1>8 DEF Reopen, IInv, TypeOK
  <2>2. TypeOK'
    BY <1>8, <2>1 DEF Reopen, IInv, TypeOK
  <2>3. Drawn' /\ Secret' /\ Succession'
    BY <2>1 DEF IInv, Drawn, Secret, Rotating, Succession
  <2>4. WriterRemains'
    BY <2>1 DEF IInv, WriterRemains, At, TypeOK
  <2>5. QED
    BY <2>2, <2>3, <2>4 DEF IInv
<1>9. ASSUME NEW r \in Request, Authorize(r) PROVE IInv'
  <2>1. requests[r] # None /\ requests[r].pc = "sent"
        /\ UNCHANGED <<current, token, vault, drawn, replaced, lost>>
    BY <1>9 DEF Authorize, At
  <2>2. CASE Goto(r, "authorized")
    BY <2>1, <2>2, GoOnKeeps
  <2>3. CASE Refuse(r)
    <3>1. TypeOK' /\ Drawn' /\ Secret' /\ Succession'
      BY <2>1, <2>3, EndKeeps DEF IInv, TypeOK
    <3>2. WriterRemains'
      BY <2>1, <2>3 DEF Refuse, IInv, TypeOK, WriterRemains, At
    <3>3. QED
      BY <3>1, <3>2 DEF IInv
  <2>4. QED
    BY <1>9, <2>2, <2>3 DEF Authorize
<1>10. ASSUME NEW r \in Request, Change(r) PROVE IInv'
  BY <1>10, GoOnKeeps DEF Change, At
<1>11. ASSUME NEW r \in Request, Rotate(r) PROVE IInv'
  <2>1. /\ requests[r] # None /\ requests[r].pc = "authorized" /\ requests[r].kind = "rotate"
        /\ requests[r] \in Pending
        /\ UNCHANGED <<token, vault, drawn, lost>>
    BY <1>11 DEF Rotate, At, IInv, TypeOK
  <2>2. CASE current # requests[r].token
    <3>1. Refuse(r) /\ UNCHANGED <<current, replaced>>
      BY <2>2, <1>11 DEF Rotate
    <3>2. TypeOK' /\ Drawn' /\ Secret' /\ Succession'
      BY <2>1, <3>1, EndKeeps DEF IInv, TypeOK
    <3>3. WriterRemains'
      BY <2>1, <3>1 DEF Refuse, IInv, TypeOK, WriterRemains, At
    <3>4. QED
      BY <3>2, <3>3 DEF IInv
  <2>3. CASE current = requests[r].token
    <3> DEFINE n == requests[r].next
    <3>1. /\ current' = n /\ replaced' = replaced \cup {<<requests[r].token, n>>}
          /\ requests' = [requests EXCEPT ![r].pc = "done"]
      BY <2>3, <1>11 DEF Rotate, Goto
    <3>2. /\ Rotating(r) /\ n \in drawn /\ n \in Token /\ n # current /\ requests[r].token \in Token
          /\ \A x \in replaced : x[1] # n /\ x[1] # current
      BY <2>1 DEF Rotating, IInv, Secret, TypeOK, Succession, Pending
    <3>3. /\ requests'[r] \in Pending /\ requests'[r] # None /\ requests'[r].kind = "rotate"
          /\ requests'[r].next = n /\ requests'[r].pc = "done" /\ requests'[r].token = requests[r].token
          /\ \A q \in Request : q # r => requests'[q] = requests[q]
      BY <2>1, <3>1 DEF IInv, TypeOK, Pending
    <3>4. TypeOK'
      BY <2>1, <3>1, <3>2, <3>3 DEF IInv, TypeOK
    <3>5. Succession'
      <4>1. \A x \in replaced' : x[1] # current'
        BY <3>1, <3>2, <2>3
      <4>2. \A x, y \in replaced' : x[1] = y[1] => x = y
        BY <3>1, <3>2, <2>3 DEF IInv, Succession
      <4>3. QED
        BY <4>1, <4>2 DEF Succession
    <3>6. Drawn'
      BY <2>1, <3>1, <3>2, <3>3 DEF IInv, Drawn
    <3>7. ASSUME NEW s \in Request, Rotating(s)'
          PROVE  LET m == requests'[s].next IN
                 /\ m \in drawn'
                 /\ \A o \in Page : token'[o] # m /\ vault'[o] # m
                 /\ \A q \in Request : requests'[q] # None => requests'[q].token # m
                 /\ \A q \in Request : q # s /\ Rotating(q)' => requests'[q].next # m
                 /\ \A x \in replaced' : x[1] # m
                 /\ IF requests'[s].pc = "done" THEN current' = m ELSE current' # m
      <4> DEFINE m == requests'[s].next
      <4>1. Rotating(s) /\ m = requests[s].next /\ (s # r => requests'[s].pc = requests[s].pc)
        BY <3>2, <3>3, <3>7 DEF Rotating
      <4>2. /\ m \in drawn /\ \A o \in Page : token[o] # m /\ vault[o] # m
            /\ \A q \in Request : requests[q] # None => requests[q].token # m
            /\ \A q \in Request : q # s /\ Rotating(q) => requests[q].next # m
            /\ \A x \in replaced : x[1] # m
            /\ IF requests[s].pc = "done" THEN current = m ELSE current # m
        BY <4>1, Zenon DEF IInv, Secret
      <4> HIDE DEF m
      <4>3. \A q \in Request : requests'[q] # None => requests'[q].token # m
        BY <4>2, <3>3, <2>1
      <4>4. \A q \in Request : q # s /\ Rotating(q)' => requests'[q].next # m
        BY <4>2, <3>3, <3>2 DEF Rotating
      <4>5. \A x \in replaced' : x[1] # m
        BY <4>2, <3>1, <2>1
      <4>6. IF requests'[s].pc = "done" THEN current' = m ELSE current' # m
        <5>1. CASE s = r
          BY <5>1, <4>1, <3>3, <3>1
        <5>2. CASE s # r
          <6>1. requests[s].pc # "done"
            BY <4>2, <2>1, <2>3
          <6>2. m # n
            BY <5>2, <4>2, <3>2
          <6>3. QED
            BY <6>1, <6>2, <4>1, <5>2, <3>1
        <5>3. QED
          BY <5>1, <5>2
      <4>7. QED
        BY <4>2, <4>3, <4>4, <4>5, <4>6, <2>1 DEF m
    <3>8. Secret'
      BY <3>7, Zenon DEF Secret
    <3>9. WriterRemains'
      BY <3>1, <3>3 DEF WriterRemains, At
    <3>10. QED
      BY <3>4, <3>5, <3>6, <3>8, <3>9 DEF IInv
  <2>4. QED
    BY <2>2, <2>3
<1>12. ASSUME UNCHANGED vars PROVE IInv'
  BY <1>12 DEF vars, IInv, TypeOK, Drawn, Secret, Rotating, Succession, WriterRemains, At
<1>13. QED
  BY <1>1, <1>2, <1>3, <1>4, <1>5, <1>6, <1>7, <1>8, <1>9, <1>10, <1>11, <1>12 DEF Next

LEMMA Invariance == Spec => []IInv
BY InitIInv, Inductive, PTL DEF Spec

(* Every variable keeps its type: the room always has a valid token.       *)
THEOREM TypeCorrect == Spec => []TypeOK
<1>1. IInv => TypeOK
  BY DEF IInv
<1>2. QED
  BY <1>1, Invariance, PTL

(* For any number of pages and concurrent rotations, each token is         *)
(* replaced once at most, by a request authorized with it.                 *)
THEOREM OneSuccessor == Spec => []Succession
<1>1. IInv => Succession
  BY DEF IInv
<1>2. QED
  BY <1>1, Invariance, PTL

(* The right to write a room is never lost but with an answer or a page.   *)
THEOREM SomebodyCanWrite == Spec => []WriterRemains
<1>1. IInv => WriterRemains
  BY DEF IInv
<1>2. QED
  BY <1>1, Invariance, PTL

-----------------------------------------------------------------------------
(* The events, for any number of pages, changes, overlapping questions and *)
(* failures.                                                               *)
USE FeedAssumption DEF Version, Link, Question, server, client

(* The invariant is inductive with the types alone: while broadcasts are   *)
(* owed it promises nothing, and the last of them fills every channel.     *)
FeedInv == FeedTypeOK /\ NoLostWakeup

(* The empty hub.                                                          *)
LEMMA FeedInitInv == FeedInit => FeedInv
BY DEF FeedInit, FeedInv, FeedTypeOK, NoLostWakeup

(* A step of the server.                                                   *)
LEMMA ServerInv ==
  ASSUME FeedInv, Commit \/ Broadcast \/ Restart \/ \E c \in Client : Subscribe(c) \/ Send(c)
  PROVE  FeedInv'
<1>1. CASE Commit
  BY <1>1 DEF FeedInv, FeedTypeOK, NoLostWakeup, Commit
<1>2. CASE Broadcast
  <2>1. chan' \in [Client -> BOOLEAN]
    BY <1>2, Zenon DEF FeedInv, FeedTypeOK, Broadcast
  <2>2. \A c \in Client : chan'[c] <=> chan[c] \/ link[c] = "subscribed"
    BY <1>2, Zenon DEF Broadcast
  <2> QED BY <1>2, <2>1, <2>2 DEF FeedInv, FeedTypeOK, NoLostWakeup, Broadcast
<1>3. CASE Restart
  <2>1. question' \in [Client -> [Slot -> Question]]
    BY <1>3 DEF FeedInv, FeedTypeOK, Restart
  <2> QED BY <1>3, <2>1 DEF FeedInv, FeedTypeOK, NoLostWakeup, Restart, Fault
<1>4. ASSUME NEW c \in Client, Subscribe(c)
      PROVE  FeedInv'
  BY <1>4 DEF FeedInv, FeedTypeOK, NoLostWakeup, Subscribe
<1>5. ASSUME NEW c \in Client, Send(c)
      PROVE  FeedInv'
  BY <1>5 DEF FeedInv, FeedTypeOK, NoLostWakeup, Send
<1> QED BY <1>1, <1>2, <1>3, <1>4, <1>5

(* Setting one question of one page.                                       *)
LEMMA SetQuestion ==
  ASSUME question \in [Client -> [Slot -> Question]],
         NEW c \in Client, NEW s \in Slot, NEW q \in Question
  PROVE  [question EXCEPT ![c][s] = q] \in [Client -> [Slot -> Question]]
<1>1. [question[c] EXCEPT ![s] = q] \in [Slot -> Question]
  BY Zenon
<1>2. [question EXCEPT ![c] = [question[c] EXCEPT ![s] = q]] \in [Client -> [Slot -> Question]]
  BY <1>1, Zenon
<1> QED BY <1>2, Zenon

(* Asking records the version it was asked at.                             *)
LEMMA AskEffect ==
  ASSUME FeedTypeOK, NEW c \in Client, Ask(c)
  PROVE  /\ question' \in [Client -> [Slot -> Question]]
         /\ asked' = [asked EXCEPT ![c] = version]
<1>1. PICK s \in Slot : /\ question' = [question EXCEPT ![c][s] = Asked]
                        /\ asked' = [asked EXCEPT ![c] = version]
  BY Zenon DEF Ask
<1>2. Asked \in Question /\ question \in [Client -> [Slot -> Question]]
  BY DEF FeedTypeOK
<1>3. question' \in [Client -> [Slot -> Question]]
  BY <1>1, <1>2, SetQuestion, Zenon
<1> QED BY <1>1, <1>3

(* A step of a page.                                                       *)
LEMMA PageInv ==
  ASSUME FeedInv, NEW c \in Client, PageStep(c) \/ RefreshAfterOwnChange(c)
  PROVE  FeedInv'
<1>1. CASE Boot(c) \/ RefreshAfterOwnChange(c)
  <2>1. Ask(c) /\ UNCHANGED <<server, timer, shown, faults>>
    BY <1>1, Zenon DEF Boot, RefreshAfterOwnChange
  <2>2. /\ question' \in [Client -> [Slot -> Question]]
        /\ asked' = [asked EXCEPT ![c] = version]
    BY <2>1, AskEffect DEF FeedInv
  <2>3. FeedTypeOK'
    BY <2>1, <2>2 DEF FeedInv, FeedTypeOK
  <2>4. NoLostWakeup'
    BY <2>1, <2>2 DEF FeedInv, FeedTypeOK, NoLostWakeup
  <2> QED BY <2>3, <2>4 DEF FeedInv
<1>2. CASE RefreshTimer(c)
  <2>1. /\ timer' = [timer EXCEPT ![c] = FALSE]
        /\ Ask(c) /\ UNCHANGED <<server, shown, faults>>
    BY <1>2, Zenon DEF RefreshTimer
  <2>2. /\ question' \in [Client -> [Slot -> Question]]
        /\ asked' = [asked EXCEPT ![c] = version]
    BY <2>1, AskEffect DEF FeedInv
  <2>3. FeedTypeOK'
    BY <2>1, <2>2 DEF FeedInv, FeedTypeOK
  <2>4. NoLostWakeup'
    BY <2>1, <2>2 DEF FeedInv, FeedTypeOK, NoLostWakeup
  <2> QED BY <2>3, <2>4 DEF FeedInv
<1>3. CASE Connect(c)
  BY <1>3 DEF FeedInv, FeedTypeOK, NoLostWakeup, Connect
<1>4. CASE ReceiveEvent(c)
  BY <1>4 DEF FeedInv, FeedTypeOK, NoLostWakeup, ReceiveEvent
<1>5. ASSUME NEW s \in Slot, Answer(c, s)
      PROVE  FeedInv'
  BY <1>5, SetQuestion DEF FeedInv, FeedTypeOK, NoLostWakeup, Answer
<1>6. ASSUME NEW s \in Slot, Apply(c, s)
      PROVE  FeedInv'
  BY <1>6, SetQuestion DEF FeedInv, FeedTypeOK, NoLostWakeup, Apply
<1> QED BY <1>1, <1>2, <1>3, <1>4, <1>5, <1>6 DEF PageStep

(* A failure.                                                              *)
LEMMA FaultInv ==
  ASSUME FeedInv, NEW c \in Client, Disconnect(c) \/ \E s \in Slot : RefreshFails(c, s)
  PROVE  FeedInv'
<1>1. CASE Disconnect(c)
  BY <1>1 DEF FeedInv, FeedTypeOK, NoLostWakeup, Disconnect, Fault
<1>2. ASSUME NEW s \in Slot, RefreshFails(c, s)
      PROVE  FeedInv'
  BY <1>2, SetQuestion DEF FeedInv, FeedTypeOK, NoLostWakeup, RefreshFails, Fault
<1> QED BY <1>1, <1>2

(* Every step preserves it.                                                *)
LEMMA FeedNextInv == FeedInv /\ [FeedNext]_feedVars => FeedInv'
<1> SUFFICES ASSUME FeedInv, [FeedNext]_feedVars PROVE FeedInv'
  OBVIOUS
<1>1. CASE UNCHANGED feedVars
  BY <1>1 DEF FeedInv, FeedTypeOK, NoLostWakeup, feedVars
<1>2. CASE FeedNext
  BY <1>2, ServerInv, PageInv, FaultInv DEF FeedNext
<1> QED BY <1>1, <1>2

(* Every variable keeps its type, and only subscriptions hold messages.    *)
THEOREM FeedTypeCorrect == FeedSpec => []FeedTypeOK
<1>1. FeedInv => FeedTypeOK
  BY DEF FeedInv
<1> QED BY <1>1, FeedInitInv, FeedNextInv, PTL DEF FeedSpec

(* However broadcasts coalesce and questions overlap, a subscribed page    *)
(* has asked for the latest version or is going to.                        *)
THEOREM WakeupsKept == FeedSpec => []NoLostWakeup
<1>1. FeedInv => NoLostWakeup
  BY DEF FeedInv
<1> QED BY <1>1, FeedInitInv, FeedNextInv, PTL DEF FeedSpec
==============================================================================
