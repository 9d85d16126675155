----------------------------- MODULE DesktopSync -----------------------------
(***************************************************************************)
(* The native Windows client.  Its window thread handles one message at a  *)
(* time; threads of their own fetch the room, send a text and fetch it     *)
(* then, or wait for one event of the room, and post what they have to the *)
(* window when they end.  The user may choose another room at any time,    *)
(* which makes a new generation: what older threads post is ignored.       *)
(* One refresh is under way at once, an event that arrives meanwhile is    *)
(* dropped, and a poll makes up for what is lost.  The last snapshot is    *)
(* kept in a file of which there is one for all rooms.                     *)
(***************************************************************************)
EXTENDS Naturals, Sequences

CONSTANTS
  Room,
  MaxThreads,       \* bound: threads of either kind at once
  Free, Nothing,
  First,            \* the room of the settings file
  Left,             \* what an earlier session may have left in the history
                    \* file: a room, or Nothing
  MaxEvents         \* bound: texts sent and rooms changed by others, settings
                    \* saved, requests failed and connections lost

Thread == 1 .. MaxThreads
Generation == 1 .. MaxEvents + 1
Version == 0 .. MaxEvents
Snapshot == [room : Room, version : Version]
Task ==
  [step : {"send", "fetch", "end", "post"}, send : BOOLEAN,
   generation : Generation, room : Room, ok : BOOLEAN, version : Version \cup {Nothing}]
EventTask ==
  [step : {"connect", "listen", "told"}, generation : Generation, room : Room]
NetworkMessage ==
  [of : {"network"}, ok : BOOLEAN, generation : Generation,
   snapshot : [room : Room, version : Version \cup {Nothing}]]
EventMessage ==
  [of : {"event"}, generation : Generation,
   result : {"Refresh", "Disconnected", "Unsupported"}]

ASSUME DesktopAssumption ==
  /\ Free \notin Task \cup EventTask
  /\ Nothing \notin Snapshot \cup Version
  /\ First \in Room /\ Left \subseteq Room \cup {Nothing} /\ MaxEvents \in Nat /\ MaxThreads \in Nat \ {0}

VARIABLES
  version,          \* of every room, at the server
  room,             \* g_settings.roomUrl
  generation, eventGeneration, refreshActive, realtimeUnsupported,
  history,          \* the snapshot shown
  recent,           \* g_lastSnapshotTick is less than 30 s ago
  cache,            \* the history file
  worker, listener, \* the threads
  posted,           \* messages posted to the window
  webSockets,       \* winhttp.dll has them; they do not come and go
  events

globals == <<room, generation, eventGeneration, refreshActive, realtimeUnsupported>>
shown == <<history, recent>>
threads == <<worker, listener>>
counters == <<webSockets, events>>
vars == <<version, globals, shown, cache, threads, posted, counters>>

TypeOK ==
  /\ version \in [Room -> Version]
  /\ room \in Room /\ generation \in Generation
  /\ eventGeneration \in Generation \cup {0}
  /\ refreshActive \in BOOLEAN /\ realtimeUnsupported \in BOOLEAN
  /\ history \in Snapshot \cup {Nothing} /\ recent \in BOOLEAN
  /\ cache \in Snapshot \cup {Nothing}
  /\ worker \in [Thread -> Task \cup {Free}]
  /\ listener \in [Thread -> EventTask \cup {Free}]
  /\ posted \in Seq(NetworkMessage \cup EventMessage)
  /\ webSockets \in BOOLEAN /\ events \in 0 .. MaxEvents

-----------------------------------------------------------------------------
(* What the window thread starts. *)

(* LoadHistoryCache: the file of another room is no history. *)
LoadHistoryCache(r) == IF cache # Nothing /\ cache.room = r THEN cache ELSE Nothing

NewTask(send, g, r) ==
  [step |-> IF send THEN "send" ELSE "fetch", send |-> send, generation |-> g,
   room |-> r, ok |-> TRUE, version |-> Nothing]

NewEventTask(g, r) == [step |-> "connect", generation |-> g, room |-> r]

(* Threads are alike: a new one takes the first place that is free. *)
IsFirstFree(threads0, t) == threads0[t] = Free /\ \A u \in 1 .. t - 1 : threads0[u] # Free

StartThread(task) ==
  \E w \in Thread : IsFirstFree(worker, w) /\ worker' = [worker EXCEPT ![w] = task]

(* StartNetworkTask(false): nothing while a refresh is under way, whatever *)
(* room it is for.                                                         *)
StartRefresh(g, r) ==
  /\ refreshActive' = TRUE
  /\ IF refreshActive THEN UNCHANGED worker ELSE StartThread(NewTask(FALSE, g, r))

(* StartEventTask, when eventGeneration is held. *)
StartEventTask(held, unsupported, g, r) ==
  IF unsupported \/ held # 0
  THEN eventGeneration' = held /\ UNCHANGED listener
  ELSE /\ eventGeneration' = g
       /\ \E l \in Thread :
            /\ IsFirstFree(listener, l)
            /\ listener' = [listener EXCEPT ![l] = NewEventTask(g, r)]

(* wWinMain, with what an earlier session has left in the file. *)
Init ==
  /\ version = [r \in Room |-> 0] /\ room = First
  /\ generation = 1 /\ eventGeneration = 1 /\ refreshActive = TRUE
  /\ realtimeUnsupported = FALSE
  /\ \E l \in Left : cache = IF l = Nothing THEN Nothing ELSE [room |-> l, version |-> 0]
  /\ history = LoadHistoryCache(room) /\ recent = FALSE
  /\ worker = [w \in Thread |-> IF w = 1 THEN NewTask(FALSE, 1, room) ELSE Free]
  /\ listener = [l \in Thread |-> IF l = 1 THEN NewEventTask(1, room) ELSE Free]
  /\ posted = <<>>
  /\ webSockets \in BOOLEAN /\ events = 0

Event == events < MaxEvents /\ events' = events + 1

(* SaveFromWindow, with the same room or with another. *)
SaveFromWindow(r) ==
  /\ Event
  /\ room' = r /\ generation' = generation + 1
  /\ realtimeUnsupported' = FALSE
  /\ history' = LoadHistoryCache(r)
  /\ StartRefresh(generation + 1, r)
  /\ StartEventTask(0, FALSE, generation + 1, r)
  /\ UNCHANGED <<version, recent, cache, posted, webSockets>>

(* A hotkey: the clipboard or the selection is sent. *)
HandleHotkey ==
  /\ Event
  /\ StartThread(NewTask(TRUE, generation, room))
  /\ UNCHANGED <<version, globals, shown, cache, listener, posted, webSockets>>

(* Slip: realtime needs no poll. *)
RefreshTimerSlip ==
  /\ posted = <<>>
  /\ StartEventTask(eventGeneration, realtimeUnsupported, generation, room)
  /\ IF realtimeUnsupported
     THEN StartRefresh(generation, room)
     ELSE UNCHANGED <<worker, refreshActive>>
  /\ UNCHANGED <<version, room, generation, realtimeUnsupported, shown, cache,
                 posted, counters>>

(* The timer of two seconds, which Windows serves when nothing is posted.  *)
RefreshTimer ==
  /\ posted = <<>>
  /\ StartEventTask(eventGeneration, realtimeUnsupported, generation, room)
  /\ IF realtimeUnsupported \/ ~recent
     THEN StartRefresh(generation, room)
     ELSE UNCHANGED <<worker, refreshActive>>
  /\ UNCHANGED <<version, room, generation, realtimeUnsupported, shown, cache,
                 posted, counters>>

ThirtySeconds ==
  /\ recent /\ recent' = FALSE
  /\ UNCHANGED <<version, globals, history, cache, threads, posted, counters>>

(* Slip: the result of an older generation counts as well. *)
NetworkArrivesSlip ==
  /\ posted # <<>> /\ Head(posted).of = "network"
  /\ posted' = Tail(posted)
  /\ IF Head(posted).ok
     THEN history' = Head(posted).snapshot /\ recent' = TRUE
     ELSE UNCHANGED shown
  /\ UNCHANGED <<version, globals, cache, threads, counters>>

(* kNetworkMessage *)
NetworkArrives ==
  /\ posted # <<>> /\ Head(posted).of = "network"
  /\ posted' = Tail(posted)
  /\ IF Head(posted).generation = generation /\ Head(posted).ok
     THEN history' = Head(posted).snapshot /\ recent' = TRUE
     ELSE UNCHANGED shown
  /\ UNCHANGED <<version, globals, cache, threads, counters>>

(* Slip: the end of any listener makes room for a new one. *)
EventArrivesSlip ==
  /\ posted # <<>> /\ Head(posted).of = "event"
  /\ posted' = Tail(posted)
  /\ eventGeneration' = 0
  /\ realtimeUnsupported' = (realtimeUnsupported \/ Head(posted).result = "Unsupported")
  /\ IF Head(posted).generation = generation /\ Head(posted).result = "Refresh"
     THEN StartRefresh(generation, room) ELSE UNCHANGED <<refreshActive, worker>>
  /\ UNCHANGED <<version, room, generation, shown, cache, listener, counters>>

(* kRoomEventMessage *)
EventArrives ==
  /\ posted # <<>> /\ Head(posted).of = "event"
  /\ posted' = Tail(posted)
  /\ IF Head(posted).generation # generation
     THEN UNCHANGED <<eventGeneration, realtimeUnsupported, refreshActive, worker>>
     ELSE /\ eventGeneration' = IF eventGeneration = generation THEN 0 ELSE eventGeneration
          /\ realtimeUnsupported' =
               (realtimeUnsupported \/ Head(posted).result = "Unsupported")
          /\ IF Head(posted).result = "Refresh"
             THEN StartRefresh(generation, room) ELSE UNCHANGED <<refreshActive, worker>>
  /\ UNCHANGED <<version, room, generation, shown, cache, listener, counters>>

-----------------------------------------------------------------------------
(* NetworkWorker. *)

(* Slip: the error is not noticed. *)
FailSlip(w) == worker' = [worker EXCEPT ![w].step = "end"]

Fail(w) == worker' = [worker EXCEPT ![w].step = "end", ![w].ok = FALSE]

(* A change of a room is told to the listeners that are connected to it.   *)
Commit(r) ==
  /\ version' = [version EXCEPT ![r] = @ + 1]
  /\ listener' = [l \in Thread |->
       IF listener[l] # Free /\ listener[l].room = r /\ listener[l].step = "listen"
       THEN [listener[l] EXCEPT !.step = "told"] ELSE listener[l]]

SendRoomText(w) ==
  /\ worker[w] # Free /\ worker[w].step = "send"
  /\ Commit(worker[w].room)
  /\ worker' = [worker EXCEPT ![w].step = "fetch"]
  /\ UNCHANGED <<globals, shown, cache, posted, counters>>

SendFails(w) ==
  /\ worker[w] # Free /\ worker[w].step = "send"
  /\ Event /\ Fail(w)
  /\ UNCHANGED <<version, globals, shown, cache, listener, posted, webSockets>>

SendAnswerLost(w) ==
  /\ worker[w] # Free /\ worker[w].step = "send"
  /\ Event /\ Commit(worker[w].room) /\ Fail(w)
  /\ UNCHANGED <<globals, shown, cache, posted, webSockets>>

FetchRoom(w) ==
  /\ worker[w] # Free /\ worker[w].step = "fetch"
  /\ worker' = [worker EXCEPT ![w].step = "end", ![w].version = version[worker[w].room]]
  /\ UNCHANGED <<version, globals, shown, cache, listener, posted, counters>>

FetchFails(w) ==
  /\ worker[w] # Free /\ worker[w].step = "fetch"
  /\ Event /\ Fail(w)
  /\ UNCHANGED <<version, globals, shown, cache, listener, posted, webSockets>>

(* The file is replaced as a whole, or not at all if that fails. *)
SaveHistoryCache(w) ==
  cache' \in {cache, [room |-> worker[w].room, version |-> worker[w].version]}

(* Slip: the flag is reset after a success only. *)
ReleaseSlip(w) ==
  /\ worker[w] # Free /\ worker[w].step = "end"
  /\ IF worker[w].ok THEN SaveHistoryCache(w) ELSE UNCHANGED cache
  /\ refreshActive' = (refreshActive /\ (worker[w].send \/ ~worker[w].ok))
  /\ worker' = [worker EXCEPT ![w].step = "post"]
  /\ UNCHANGED <<version, room, generation, eventGeneration, realtimeUnsupported,
                 shown, listener, posted, counters>>

Release(w) ==
  /\ worker[w] # Free /\ worker[w].step = "end"
  /\ IF worker[w].ok THEN SaveHistoryCache(w) ELSE UNCHANGED cache
  /\ refreshActive' = (refreshActive /\ worker[w].send)
  /\ worker' = [worker EXCEPT ![w].step = "post"]
  /\ UNCHANGED <<version, room, generation, eventGeneration, realtimeUnsupported,
                 shown, listener, posted, counters>>

PostResult(w) ==
  /\ worker[w] # Free /\ worker[w].step = "post"
  /\ posted' = Append(posted,
       [of |-> "network", ok |-> worker[w].ok,
        generation |-> worker[w].generation,
        snapshot |-> [room |-> worker[w].room, version |-> worker[w].version]])
  /\ worker' = [worker EXCEPT ![w] = Free]
  /\ UNCHANGED <<version, globals, shown, cache, listener, counters>>

-----------------------------------------------------------------------------
(* EventWorker: one connection, at most one event. *)

PostEvent(l, result) ==
  /\ posted' = Append(posted,
       [of |-> "event", generation |-> listener[l].generation, result |-> result])
  /\ listener' = [listener EXCEPT ![l] = Free]
  /\ UNCHANGED <<version, globals, shown, cache, worker, webSockets>>

Connect(l) ==
  /\ listener[l] # Free /\ listener[l].step = "connect" /\ webSockets
  /\ listener' = [listener EXCEPT ![l].step = "listen"]
  /\ UNCHANGED <<version, globals, shown, cache, worker, posted, counters>>

NoWebSockets(l) ==
  /\ listener[l] # Free /\ listener[l].step = "connect" /\ ~webSockets
  /\ PostEvent(l, "Unsupported") /\ UNCHANGED events

RefreshEvent(l) ==
  /\ listener[l] # Free /\ listener[l].step = "told"
  /\ PostEvent(l, "Refresh") /\ UNCHANGED events

Disconnected(l) ==
  /\ listener[l] # Free /\ webSockets
  /\ Event /\ PostEvent(l, "Disconnected")

-----------------------------------------------------------------------------
(* The other clients. *)

OthersChange(r) ==
  /\ Event
  /\ Commit(r)
  /\ UNCHANGED <<globals, shown, cache, worker, posted, webSockets>>

NetworkWorker(w) ==
  \/ SendRoomText(w) \/ SendFails(w) \/ SendAnswerLost(w)
  \/ FetchRoom(w) \/ FetchFails(w) \/ Release(w) \/ PostResult(w)
EventWorker(l) == Connect(l) \/ NoWebSockets(l) \/ RefreshEvent(l) \/ Disconnected(l)

Next ==
  \/ \E r \in Room : SaveFromWindow(r) \/ OthersChange(r)
  \/ HandleHotkey \/ RefreshTimer \/ ThirtySeconds
  \/ NetworkArrives \/ EventArrives
  \/ \E w \in Thread : NetworkWorker(w)
  \/ \E l \in Thread : EventWorker(l)

Spec == Init /\ [][Next]_vars

(* Threads run, requests have timeouts, the window handles its messages    *)
(* and its timer, time passes.  Users need not do anything.                *)
Fairness ==
  /\ \A w \in Thread : WF_vars(NetworkWorker(w))
  /\ \A l \in Thread : WF_vars(Connect(l) \/ NoWebSockets(l) \/ RefreshEvent(l))
  /\ WF_vars(NetworkArrives \/ EventArrives)
  /\ WF_vars(RefreshTimer) /\ WF_vars(ThirtySeconds)

FairSpec == Spec /\ Fairness

-----------------------------------------------------------------------------
(* Properties.                                                             *)

(* Whatever older threads bring or leave in the file, the window shows     *)
(* messages of the room that is set, and only those are inserted.          *)
ShownIsOfRoom == history # Nothing => history.room = room

Unreleased(w) == worker[w] # Free /\ ~worker[w].send /\ worker[w].step # "post"

(* The flag of the refresh is set exactly while one thread will reset it:  *)
(* no two refreshes at once, and no flag that stays and stops them all.    *)
RefreshAccounted ==
  /\ refreshActive <=> \E w \in Thread : Unreleased(w)
  /\ \A v, w \in Thread : Unreleased(v) /\ Unreleased(w) => v = w

Waiting(l) == listener[l] # Free /\ listener[l].generation = generation
Reported(i) == posted[i].of = "event" /\ posted[i].generation = generation

(* The room is listened to by one thread at most, and eventGeneration says *)
(* that there is one or that what it has heard is not handled yet.         *)
OneListener ==
  /\ eventGeneration \in {0, generation}
  /\ eventGeneration = generation <=>
       (\E l \in Thread : Waiting(l)) \/ (\E i \in DOMAIN posted : Reported(i))
  /\ \A k, l \in Thread : Waiting(k) /\ Waiting(l) => k = l
  /\ \A i, j \in DOMAIN posted : Reported(i) /\ Reported(j) => i = j
  /\ \A l \in Thread, i \in DOMAIN posted : ~(Waiting(l) /\ Reported(i))

(* desktop/windows/README.md: "realtime with automatic reconnect and       *)
(* safety polling".  Once the room rests the window comes to show it,      *)
(* although events are dropped during a refresh and between connections,   *)
(* and answers may be applied in the wrong order.                          *)
CatchesUp == <>[](history = [room |-> room, version |-> version[room]])
=============================================================================
