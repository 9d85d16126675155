------------------------------ MODULE ShortLinks ------------------------------
(***************************************************************************)
(* Short links: a code of four to six characters under which the server    *)
(* keeps an envelope it cannot read.  Anyone may fetch the envelope of a   *)
(* code, which uses nothing up; a client that could decrypt it redeems the *)
(* link with the token found inside, which uses up one use.  A code may    *)
(* be drawn again once its row has been swept, so that a client may redeem *)
(* a code that stands for another link than the one it fetched.            *)
(*                                                                         *)
(* A link stands for its envelope and for the token in it: both are        *)
(* random.  Every transaction runs alone, on the only connection.          *)
(***************************************************************************)
EXTENDS Naturals, FiniteSets

CONSTANTS
  Code, Link,
  Single,      \* the links created with maxUses = 1; the others have no limit
  Creator,     \* concurrent createShortLink requests
  Client,      \* clients that fetch and redeem
  Nothing,
  MaxLinks,    \* --max-short-links
  MaxAttempts, \* codes drawn for one link before giving up, 16 in the code
  MaxUses      \* bound: redemptions of a link without a limit

Row == [link : Link, uses : Nat, due : BOOLEAN]
Request == [link : Link, left : 1 .. MaxAttempts]

ASSUME ShortLinksAssumption ==
  /\ IsFiniteSet(Code) /\ Single \subseteq Link
  /\ MaxLinks \in Nat /\ MaxAttempts \in Nat \ {0} /\ MaxUses \in Nat \ {0}
  /\ Nothing \notin Row \cup Request \cup Link

VARIABLES
  rows,     \* the table short_links, keyed by code
  creating, \* what a creator still has to insert, and the attempts it has left
  fetched,  \* what a client decrypted: the code it asked for and the link
  (* history *)
  used,     \* links ever drawn
  granted,  \* redemptions granted to clients that had decrypted the link
  expired   \* links whose deadline has passed

linkVars == <<rows, creating, fetched, used, granted, expired>>

LinkTypeOK ==
  /\ rows \in [Code -> Row \cup {Nothing}]
  /\ creating \in [Creator -> Request \cup {Nothing}]
  /\ fetched \in [Client -> [code : Code, link : Link] \cup {Nothing}]
  /\ used \subseteq Link /\ expired \subseteq Link
  /\ granted \in [Link -> Nat]

LinkInit ==
  /\ rows = [c \in Code |-> Nothing]
  /\ creating = [r \in Creator |-> Nothing]
  /\ fetched = [p \in Client |-> Nothing]
  /\ used = {} /\ granted = [l \in Link |-> 0] /\ expired = {}

(* What every query asks of a row: not expired, not used up.               *)
Usable(c) == rows[c] # Nothing /\ ~rows[c].due /\ (rows[c].link \in Single => rows[c].uses = 0)
Active == {c \in Code : Usable(c)}

-----------------------------------------------------------------------------
BeginCreate(r) ==
  /\ creating[r] = Nothing
  /\ \E l \in Link \ used :
       /\ creating' = [creating EXCEPT ![r] = [link |-> l, left |-> MaxAttempts]]
       /\ used' = used \cup {l}
  /\ UNCHANGED <<rows, fetched, granted, expired>>

Answer(r) == creating' = [creating EXCEPT ![r] = Nothing]

RefuseCreate(r) ==
  /\ creating[r] # Nothing
  /\ Cardinality(Active) >= MaxLinks
  /\ Answer(r)
  /\ UNCHANGED <<rows, fetched, used, granted, expired>>

(* Slip: the limit is left to the first attempt.                           *)
InsertSlip(r) ==
  /\ creating[r] # Nothing
  /\ creating[r].left = MaxAttempts => Cardinality(Active) < MaxLinks
  /\ \E c \in Code :
       /\ rows[c] = Nothing
       /\ rows' = [rows EXCEPT ![c] = [link |-> creating[r].link, uses |-> 0, due |-> FALSE]]
  /\ Answer(r)
  /\ UNCHANGED <<fetched, used, granted, expired>>

Insert(r) ==
  /\ creating[r] # Nothing
  /\ Cardinality(Active) < MaxLinks
  /\ \E c \in Code :
       /\ rows[c] = Nothing
       /\ rows' = [rows EXCEPT ![c] = [link |-> creating[r].link, uses |-> 0, due |-> FALSE]]
  /\ Answer(r)
  /\ UNCHANGED <<fetched, used, granted, expired>>

(* Slip: it draws codes for ever.                                          *)
ConflictSlip(r) ==
  /\ creating[r] # Nothing
  /\ Cardinality(Active) < MaxLinks
  /\ \E c \in Code : rows[c] # Nothing
  /\ creating' = [creating EXCEPT ![r].left = @ - 1]
  /\ UNCHANGED <<rows, fetched, used, granted, expired>>

(* The code drawn belongs to another row, be it expired or used up.        *)
Conflict(r) ==
  /\ creating[r] # Nothing
  /\ Cardinality(Active) < MaxLinks
  /\ \E c \in Code : rows[c] # Nothing
  /\ IF creating[r].left > 1
     THEN creating' = [creating EXCEPT ![r].left = @ - 1]
     ELSE Answer(r)
  /\ UNCHANGED <<rows, fetched, used, granted, expired>>

(* For any other code the server makes up an envelope nobody can decrypt.  *)
Fetch(p) ==
  /\ \E c \in Code :
       /\ Usable(c)
       /\ fetched' = [fetched EXCEPT ![p] = [code |-> c, link |-> rows[c].link]]
  /\ UNCHANGED <<rows, creating, used, granted, expired>>

(* A use of the row, granted for the link that the client decrypted.       *)
Spend(p, c) ==
  /\ rows' = [rows EXCEPT ![c].uses = @ + 1]
  /\ granted' = [granted EXCEPT ![fetched[p].link] = @ + 1]
  /\ UNCHANGED <<creating, fetched, used, expired>>

(* Slip: a use that is spent already is not looked at.                     *)
RedeemSlip(p) ==
  /\ fetched[p] # Nothing
  /\ LET c == fetched[p].code IN
     /\ rows[c] # Nothing /\ ~rows[c].due /\ rows[c].uses < MaxUses
     /\ rows[c].link = fetched[p].link
     /\ Spend(p, c)

(* Slip: the token is left to the client that decrypted the envelope.      *)
RedeemTokenSlip(p) ==
  /\ fetched[p] # Nothing
  /\ LET c == fetched[p].code IN
     /\ Usable(c) /\ rows[c].uses < MaxUses
     /\ Spend(p, c)

(* The token has to be that of the row.  The client may do so again, for   *)
(* instance when it did not get the answer.                                *)
Redeem(p) ==
  /\ fetched[p] # Nothing
  /\ LET c == fetched[p].code IN
     /\ Usable(c) /\ rows[c].uses < MaxUses
     /\ rows[c].link = fetched[p].link
     /\ Spend(p, c)

Expire(c) ==
  /\ rows[c] # Nothing /\ ~rows[c].due
  /\ rows' = [rows EXCEPT ![c].due = TRUE]
  /\ expired' = expired \cup {rows[c].link}
  /\ UNCHANGED <<creating, fetched, used, granted>>

(* DeleteExpiredShortLinks, called by the cleanup pass.                    *)
Sweep ==
  /\ \E c \in Code : rows[c] # Nothing /\ rows[c].due
  /\ rows' = [c \in Code |-> IF rows[c] # Nothing /\ rows[c].due THEN Nothing ELSE rows[c]]
  /\ UNCHANGED <<creating, fetched, used, granted, expired>>

LinkNext ==
  \/ \E r \in Creator : BeginCreate(r) \/ RefuseCreate(r) \/ Insert(r) \/ Conflict(r)
  \/ \E p \in Client : Fetch(p) \/ Redeem(p)
  \/ \E c \in Code : Expire(c)
  \/ Sweep

LinkSpec == LinkInit /\ [][LinkNext]_linkVars

-----------------------------------------------------------------------------
(* Properties                                                              *)

(* A single-use link is granted once at most, whoever fetched it and       *)
(* however often its redemption is repeated, and a row never forgets a     *)
(* use.                                                                    *)
SingleUse == \A l \in Single : granted[l] <= 1

(* Never more links are active than the server's limit, although every     *)
(* creator draws codes for as long as it takes and others come in between. *)
ActiveLimited == Cardinality(Active) <= MaxLinks

UsedOrRedeemable(p) ==
  LET c == fetched[p].code  l == fetched[p].link IN
  \/ l \in expired
  \/ l \in Single /\ granted[l] # 0
  \/ Usable(c) /\ rows[c].link = l

(* What a client has decrypted it may redeem under the code it asked for,  *)
(* until the link expires or its only use has been granted to somebody who *)
(* had decrypted it, too: no other link takes its row, the sweep leaves it *)
(* alone, and no client that still holds an earlier link of the same code  *)
(* spends a use of this one.                                               *)
RedeemableUntilUsed == \A p \in Client : fetched[p] # Nothing => UsedOrRedeemable(p)

-----------------------------------------------------------------------------
(* The inductive invariant: a link is with one creator or in one row, its  *)
(* row knows all of its uses, and what is due has expired.                 *)
RowsKnow ==
  /\ \A c \in Code : rows[c] # Nothing =>
       rows[c].link \in used /\ granted[rows[c].link] = rows[c].uses
  /\ \A c, d \in Code : rows[c] # Nothing /\ rows[d] # Nothing /\ rows[c].link = rows[d].link => c = d

Underway ==
  /\ \A r \in Creator : creating[r] # Nothing =>
       /\ creating[r].link \in used /\ granted[creating[r].link] = 0
       /\ \A c \in Code : rows[c] # Nothing => rows[c].link # creating[r].link
  /\ \A r, q \in Creator :
       creating[r] # Nothing /\ creating[q] # Nothing /\ creating[r].link = creating[q].link => r = q
  /\ \A l \in Link \ used : granted[l] = 0

DueExpired == \A c \in Code : rows[c] # Nothing /\ rows[c].due => rows[c].link \in expired

LinkInv == LinkTypeOK /\ RowsKnow /\ Underway /\ DueExpired /\ SingleUse
=============================================================================
