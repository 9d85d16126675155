--------------------------- MODULE WriteCapability ---------------------------
(***************************************************************************)
(* The write capability of a room with separate rights.  The server keeps  *)
(* the hash of one token.  A handler that changes the room checks the      *)
(* token first and executes the change in a later transaction; the change  *)
(* may be the rotation of the token itself, which a page asks for with a   *)
(* token it has drawn.  Pages hold the token of their link, share it, and  *)
(* may keep a copy of it on their device for the next time.                *)
(*                                                                         *)
(* Upload sessions have tokens of their own, see UploadLifecycle.          *)
(***************************************************************************)
EXTENDS Naturals

CONSTANTS
  Token,   \* write tokens; random, so that none is drawn twice
  First,   \* the one the room was created with
  Page,    \* pages that show the room, each on a device of its own
  Creator, \* the page that created the room
  Request, \* bound: requests under way
  None

Pending == [page : Page, kind : {"change", "rotate"}, token : Token, next : Token \cup {None},
            pc : {"sent", "authorized", "done"}]

ASSUME CapabilityAssumption ==
  /\ First \in Token /\ Creator \in Page
  /\ None \notin Token \cup Pending

VARIABLES
  current,  \* rooms.write_hash
  requests,
  token,    \* state.writeToken of each page, None for a read-only one
  vault,    \* what its device remembers
  (* history *)
  drawn,    \* tokens there have been
  replaced, \* rotations: the token before and after
  lost      \* an answer to a rotation got lost, or a page with the token was closed

vars == <<current, requests, token, vault, drawn, replaced, lost>>

TypeOK ==
  /\ current \in Token
  /\ requests \in [Request -> Pending \cup {None}]
  /\ token \in [Page -> Token \cup {None}] /\ vault \in [Page -> Token \cup {None}]
  /\ drawn \subseteq Token /\ replaced \subseteq Token \X Token /\ lost \in BOOLEAN

Init ==
  /\ current = First
  /\ requests = [r \in Request |-> None]
  /\ token = [p \in Page |-> IF p = Creator THEN First ELSE None]
  /\ vault = [p \in Page |-> None]
  /\ drawn = {First} /\ replaced = {} /\ lost = FALSE

At(r, pc) == requests[r] # None /\ requests[r].pc = pc
Goto(r, pc) == requests' = [requests EXCEPT ![r].pc = pc]
Refuse(r) == requests' = [requests EXCEPT ![r] = None]

-----------------------------------------------------------------------------
(* Pages                                                                   *)
BeginChange(r, p) ==
  /\ requests[r] = None /\ token[p] # None
  /\ requests' = [requests EXCEPT ![r] =
       [page |-> p, kind |-> "change", token |-> token[p], next |-> None, pc |-> "sent"]]
  /\ UNCHANGED <<current, token, vault, drawn, replaced, lost>>

BeginRotate(r, p) ==
  /\ requests[r] = None /\ token[p] # None
  /\ \E n \in Token \ drawn :
       /\ drawn' = drawn \cup {n}
       /\ requests' = [requests EXCEPT ![r] =
            [page |-> p, kind |-> "rotate", token |-> token[p], next |-> n, pc |-> "sent"]]
  /\ UNCHANGED <<current, token, vault, replaced, lost>>

(* Slip: the page goes on with the token it has.                           *)
ReceiveSlip(r) ==
  /\ At(r, "done")
  /\ Refuse(r)
  /\ UNCHANGED <<current, token, vault, drawn, replaced, lost>>

(* The page takes its new token when it is told of the success.            *)
Receive(r) ==
  /\ At(r, "done")
  /\ token' = IF requests[r].kind = "rotate"
              THEN [token EXCEPT ![requests[r].page] = requests[r].next] ELSE token
  /\ Refuse(r)
  /\ UNCHANGED <<current, vault, drawn, replaced, lost>>

(* The request does not arrive, or its answer does not.                    *)
Lose(r) ==
  /\ At(r, "sent") \/ At(r, "done")
  /\ lost' = (lost \/ (At(r, "done") /\ requests[r].kind = "rotate"))
  /\ Refuse(r)
  /\ UNCHANGED <<current, token, vault, drawn, replaced>>

(* A read-write link is opened by somebody else.                           *)
Share(p, q) ==
  /\ token[p] # None /\ token[q] = None
  /\ token' = [token EXCEPT ![q] = token[p]]
  /\ UNCHANGED <<current, requests, vault, drawn, replaced, lost>>

Remember(p) ==
  /\ token[p] # None
  /\ vault' = [vault EXCEPT ![p] = token[p]]
  /\ UNCHANGED <<current, requests, token, drawn, replaced, lost>>

Close(p) ==
  /\ token[p] # None
  /\ \A r \in Request : requests[r] # None => requests[r].page # p
  /\ token' = [token EXCEPT ![p] = None]
  /\ lost' = (lost \/ token[p] = current)
  /\ UNCHANGED <<current, requests, vault, drawn, replaced>>

(* From the list of recent rooms: the link there has no token.             *)
Reopen(p) ==
  /\ token[p] = None /\ vault[p] # None
  /\ token' = [token EXCEPT ![p] = vault[p]]
  /\ UNCHANGED <<current, requests, vault, drawn, replaced, lost>>

-----------------------------------------------------------------------------
(* The server                                                              *)

(* authorizeMutationHash: everything before the change itself.             *)
Authorize(r) ==
  /\ At(r, "sent")
  /\ IF requests[r].token = current THEN Goto(r, "authorized") ELSE Refuse(r)
  /\ UNCHANGED <<current, token, vault, drawn, replaced, lost>>

(* One of the transactions of RoomStore.                                   *)
Change(r) ==
  /\ At(r, "authorized") /\ requests[r].kind = "change"
  /\ Goto(r, "done")
  /\ UNCHANGED <<current, token, vault, drawn, replaced, lost>>

(* Slip: the new token is not validated.                                   *)
RotateAnySlip(r) ==
  /\ At(r, "authorized") /\ requests[r].kind = "rotate"
  /\ current = requests[r].token
  /\ current' \in {requests[r].next, None}
  /\ replaced' = replaced \cup {<<requests[r].token, requests[r].next>>}
  /\ Goto(r, "done")
  /\ UNCHANGED <<token, vault, drawn, lost>>

(* Slip: the check of authorizeMutation is relied upon.                    *)
RotateSlip(r) ==
  /\ At(r, "authorized") /\ requests[r].kind = "rotate"
  /\ current' = requests[r].next
  /\ replaced' = replaced \cup {<<requests[r].token, requests[r].next>>}
  /\ Goto(r, "done")
  /\ UNCHANGED <<token, vault, drawn, lost>>

(* RotateWriteHash compares with the token that was authorized before.     *)
Rotate(r) ==
  /\ At(r, "authorized") /\ requests[r].kind = "rotate"
  /\ IF current = requests[r].token
     THEN /\ current' = requests[r].next
          /\ replaced' = replaced \cup {<<requests[r].token, requests[r].next>>}
          /\ Goto(r, "done")
     ELSE Refuse(r) /\ UNCHANGED <<current, replaced>>
  /\ UNCHANGED <<token, vault, drawn, lost>>

Next ==
  \/ \E r \in Request :
       \/ \E p \in Page : BeginChange(r, p) \/ BeginRotate(r, p)
       \/ Receive(r) \/ Lose(r) \/ Authorize(r) \/ Change(r) \/ Rotate(r)
  \/ \E p, q \in Page : Share(p, q)
  \/ \E p \in Page : Remember(p) \/ Close(p) \/ Reopen(p)

Spec == Init /\ [][Next]_vars

-----------------------------------------------------------------------------
(* Properties                                                              *)

(* Of several rotations authorized with one token only one takes place,    *)
(* and nobody who was refused or revoked sets the token afterwards.        *)
Succession ==
  /\ \A x, y \in replaced : x[1] = y[1] => x = y
  /\ \A x \in replaced : x[1] # current

(* As long as no answer is lost and no page closed, somebody can write:    *)
(* the token in force is known to a page or on its way to one.             *)
WriterRemains ==
  \/ lost
  \/ \E p \in Page : token[p] = current
  \/ \E r \in Request : At(r, "done") /\ requests[r].kind = "rotate" /\ requests[r].next = current
=============================================================================
