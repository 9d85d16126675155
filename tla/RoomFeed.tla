------------------------------- MODULE RoomFeed -------------------------------
(***************************************************************************)
(* How a change of a room reaches the web clients that show it.  A handler *)
(* commits to the database and broadcasts afterwards, in a step of its     *)
(* own.  The hub gives each subscriber a channel of capacity one, in which *)
(* several broadcasts coalesce; the events handler turns what it finds     *)
(* there into a "refresh" message, the client waits 60 ms for more of      *)
(* them and asks for the whole room again.  Several of its questions may   *)
(* be under way at once, and their answers may overtake one another.       *)
(*                                                                         *)
(* A version stands for the state of the room, see RoomStore; an answer is *)
(* one version here, see RoomSnapshot for what an answer really reads.     *)
(***************************************************************************)
EXTENDS Naturals

CONSTANTS
  Client,     \* pages that show the room
  Slot,       \* bound: questions a page has under way at once
  Nothing, Asked,
  MaxVersion, \* bound: changes of the room
  MaxFaults   \* bound: connections lost, questions failed, server restarts

Version == 0 .. MaxVersion
Link == {"off", "accepted", "subscribed"}
Question == {Nothing, Asked} \cup Version

ASSUME FeedAssumption ==
  /\ MaxVersion \in Nat /\ MaxFaults \in Nat
  /\ Nothing \notin Version /\ Asked \notin Version \cup {Nothing}

VARIABLES
  version,  \* the state of the room
  owed,     \* handlers between their commit and their broadcast
  link,     \* the events connection of a client, seen by its handler
  chan,     \* something is in the channel of the subscription
  wire,     \* "refresh" messages on their way to the client
  timer,    \* the client's refreshTimer is set
  question, \* the client's requests for the room: asked, or the answer
  shown,    \* what the client shows, Nothing before its first answer
  (* history *)
  base,     \* the version at which the client subscribed
  asked,    \* the version when the client asked last
  faults

feedVars == <<version, owed, link, chan, wire, timer, question, shown, base, asked, faults>>

FeedTypeOK ==
  /\ version \in Version /\ owed \in Nat /\ faults \in Nat
  /\ link \in [Client -> Link]
  /\ chan \in [Client -> BOOLEAN] /\ timer \in [Client -> BOOLEAN]
  /\ wire \in [Client -> Nat]
  /\ question \in [Client -> [Slot -> Question]]
  /\ shown \in [Client -> Version \cup {Nothing}]
  /\ base \in [Client -> Version] /\ asked \in [Client -> Version]
  /\ \A c \in Client : chan[c] \/ wire[c] > 0 => link[c] = "subscribed"

FeedInit ==
  /\ version = 0 /\ owed = 0 /\ faults = 0
  /\ link = [c \in Client |-> "off"]
  /\ chan = [c \in Client |-> FALSE] /\ timer = [c \in Client |-> FALSE]
  /\ wire = [c \in Client |-> 0]
  /\ question = [c \in Client |-> [s \in Slot |-> Nothing]]
  /\ shown = [c \in Client |-> Nothing]
  /\ base = [c \in Client |-> 0] /\ asked = [c \in Client |-> 0]

client == <<timer, question, shown, asked>>
server == <<version, owed, chan, wire, link, base>>

-----------------------------------------------------------------------------
(* The server                                                              *)

Commit ==
  /\ version < MaxVersion
  /\ version' = version + 1 /\ owed' = owed + 1
  /\ UNCHANGED <<link, chan, wire, base, client, faults>>

(* Slip: a channel that still holds a broadcast is emptied by the next.    *)
BroadcastSlip ==
  /\ owed > 0
  /\ owed' = owed - 1
  /\ chan' = [c \in Client |-> ~chan[c] /\ link[c] = "subscribed"]
  /\ UNCHANGED <<version, link, wire, base, client, faults>>

(* A full channel is left as it is: one message says it all.               *)
Broadcast ==
  /\ owed > 0
  /\ owed' = owed - 1
  /\ chan' = [c \in Client |-> chan[c] \/ link[c] = "subscribed"]
  /\ UNCHANGED <<version, link, wire, base, client, faults>>

Subscribe(c) ==
  /\ link[c] = "accepted"
  /\ link' = [link EXCEPT ![c] = "subscribed"]
  /\ base' = [base EXCEPT ![c] = version]
  /\ UNCHANGED <<version, owed, chan, wire, client, faults>>

Send(c) ==
  /\ chan[c]
  /\ chan' = [chan EXCEPT ![c] = FALSE]
  /\ wire' = [wire EXCEPT ![c] = @ + 1]
  /\ UNCHANGED <<version, owed, link, base, client, faults>>

-----------------------------------------------------------------------------
(* The page                                                                *)

Ask(c) ==
  \E s \in Slot :
    /\ question[c][s] = Nothing
    /\ question' = [question EXCEPT ![c][s] = Asked]
    /\ asked' = [asked EXCEPT ![c] = version]

(* The page asks once before it connects.                                  *)
Boot(c) ==
  /\ shown[c] = Nothing /\ \A s \in Slot : question[c][s] = Nothing
  /\ Ask(c)
  /\ UNCHANGED <<server, timer, shown, faults>>

(* It asks again after every change of its own.                            *)
RefreshAfterOwnChange(c) ==
  /\ shown[c] # Nothing
  /\ Ask(c)
  /\ UNCHANGED <<server, timer, shown, faults>>

Answer(c, s) ==
  /\ question[c][s] = Asked
  /\ question' = [question EXCEPT ![c][s] = version]
  /\ UNCHANGED <<server, timer, shown, asked, faults>>

Apply(c, s) ==
  /\ question[c][s] \in Version
  /\ shown' = [shown EXCEPT ![c] = question[c][s]]
  /\ question' = [question EXCEPT ![c][s] = Nothing]
  /\ UNCHANGED <<server, timer, asked, faults>>

(* First after boot, later 1.5 to 3 s after a connection was lost.  The    *)
(* server's greeting "ready" is ignored.                                   *)
Connect(c) ==
  /\ link[c] = "off" /\ shown[c] # Nothing
  /\ link' = [link EXCEPT ![c] = "accepted"]
  /\ UNCHANGED <<version, owed, chan, wire, base, client, faults>>

ReceiveEvent(c) ==
  /\ wire[c] > 0
  /\ wire' = [wire EXCEPT ![c] = @ - 1]
  /\ timer' = [timer EXCEPT ![c] = TRUE]
  /\ UNCHANGED <<version, owed, link, chan, base, question, shown, asked, faults>>

(* Slip: a timer that fires while a question is under way is dropped.      *)
RefreshTimerSlip(c) ==
  /\ timer[c]
  /\ timer' = [timer EXCEPT ![c] = FALSE]
  /\ IF \A s \in Slot : question[c][s] = Nothing THEN Ask(c) ELSE UNCHANGED <<question, asked>>
  /\ UNCHANGED <<server, shown, faults>>

RefreshTimer(c) ==
  /\ timer[c]
  /\ timer' = [timer EXCEPT ![c] = FALSE]
  /\ Ask(c)
  /\ UNCHANGED <<server, shown, faults>>

-----------------------------------------------------------------------------
(* Failures                                                                *)

Fault == faults < MaxFaults /\ faults' = faults + 1

(* Slip: the handler returns without unsubscribing.                        *)
DisconnectSlip(c) ==
  /\ link[c] # "off"
  /\ Fault
  /\ link' = [link EXCEPT ![c] = "off"]
  /\ wire' = [wire EXCEPT ![c] = 0]
  /\ UNCHANGED <<version, owed, base, chan, client>>

(* The handler unsubscribes; messages on their way are lost.               *)
Disconnect(c) ==
  /\ link[c] # "off"
  /\ Fault
  /\ link' = [link EXCEPT ![c] = "off"]
  /\ chan' = [chan EXCEPT ![c] = FALSE] /\ wire' = [wire EXCEPT ![c] = 0]
  /\ UNCHANGED <<version, owed, base, client>>

(* The page shows an error and does not try again by itself, except that   *)
(* a page that never got an answer is reloaded.                            *)
RefreshFails(c, s) ==
  /\ question[c][s] # Nothing
  /\ Fault
  /\ question' = [question EXCEPT ![c][s] = Nothing]
  /\ UNCHANGED <<server, timer, shown, asked>>

(* Handlers that have committed and not broadcast yet never will.          *)
Restart ==
  /\ Fault
  /\ owed' = 0
  /\ link' = [c \in Client |-> "off"]
  /\ chan' = [c \in Client |-> FALSE] /\ wire' = [c \in Client |-> 0]
  /\ question' = [c \in Client |-> [s \in Slot |->
       IF question[c][s] = Asked THEN Nothing ELSE question[c][s]]]
  /\ UNCHANGED <<version, base, timer, shown, asked>>

-----------------------------------------------------------------------------
PageStep(c) ==
  \/ Boot(c) \/ Connect(c) \/ ReceiveEvent(c) \/ RefreshTimer(c)
  \/ \E s \in Slot : Answer(c, s) \/ Apply(c, s)

FeedNext ==
  \/ Commit \/ Broadcast
  \/ \E c \in Client :
       \/ Subscribe(c) \/ Send(c) \/ PageStep(c) \/ RefreshAfterOwnChange(c)
       \/ Disconnect(c) \/ \E s \in Slot : RefreshFails(c, s)
  \/ Restart

FeedSpec == FeedInit /\ [][FeedNext]_feedVars

(* Handlers, timers and the network make progress; changes, the user's     *)
(* own changes and failures need not happen.                               *)
FeedFairness ==
  /\ WF_feedVars(Broadcast)
  /\ \A c \in Client :
       /\ WF_feedVars(Subscribe(c)) /\ WF_feedVars(Send(c))
       /\ WF_feedVars(Boot(c)) /\ WF_feedVars(Connect(c)) /\ WF_feedVars(ReceiveEvent(c))
       /\ WF_feedVars(RefreshTimer(c))
       /\ \A s \in Slot : WF_feedVars(Answer(c, s)) /\ WF_feedVars(Apply(c, s))

FeedFairSpec == FeedSpec /\ FeedFairness

-----------------------------------------------------------------------------
(* Properties                                                              *)

(* No wake-up is lost: once the handlers have broadcast what they          *)
(* committed, a subscribed page has asked for the latest version, or will  *)
(* be made to by the channel, a message on its way or its timer.           *)
NoLostWakeup ==
  \A c \in Client :
    link[c] = "subscribed" /\ owed = 0 /\ base[c] < version =>
      chan[c] \/ wire[c] > 0 \/ timer[c] \/ asked[c] = version

(* Whatever is committed while a page is subscribed, the page asks for it  *)
(* in the end, unless its connection breaks first.                         *)
ChangesAreAskedFor ==
  \A c \in Client, v \in Version :
    link[c] = "subscribed" /\ base[c] < v /\ v <= version
      ~> asked[c] >= v \/ link[c] # "subscribed"

(* "Rooms are updated in real time": a page that stays open ends up        *)
(* showing the room as it is.                                              *)
PagesCatchUp == \A c \in Client : <>[](shown[c] = version)
=============================================================================
