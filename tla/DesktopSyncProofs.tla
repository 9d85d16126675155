-------------------------- MODULE DesktopSyncProofs --------------------------
(***************************************************************************)
(* What holds of the Windows client for any set of rooms, any number of    *)
(* threads and any bound, proved with TLAPS: the window shows the room     *)
(* that is set, refreshes exclude each other and are never locked out, and *)
(* one thread listens.                                                     *)
(***************************************************************************)
EXTENDS DesktopSync, FiniteSetTheorems, SequenceTheorems, TLAPS

(* What is under way is of this generation or of an older one, and what is *)
(* of this one is of the room that is set; a success has a version.        *)
WorkersKnown ==
  \A w \in Thread : worker[w] # Free =>
    /\ worker[w].generation <= generation
    /\ worker[w].generation = generation => worker[w].room = room
    /\ worker[w].step \in {"end", "post"} /\ worker[w].ok => worker[w].version \in Version

ListenersKnown ==
  \A l \in Thread : listener[l] # Free => listener[l].generation <= generation

MessagesKnown ==
  \A i \in DOMAIN posted :
    /\ posted[i].generation <= generation
    /\ posted[i].of = "network" =>
         /\ posted[i].generation = generation => posted[i].snapshot.room = room
         /\ posted[i].ok => posted[i].snapshot.version \in Version

Sending(r) == {w \in Thread : worker[w] # Free /\ worker[w].step = "send" /\ worker[w].room = r}

(* Each generation, and each version of a room that there is or that is    *)
(* on its way, has cost an event.                                          *)
Paid ==
  /\ generation <= events + 1
  /\ \A r \in Room : version[r] + Cardinality(Sending(r)) <= events

IInv ==
  /\ TypeOK /\ WorkersKnown /\ ListenersKnown /\ MessagesKnown /\ Paid
  /\ ShownIsOfRoom /\ RefreshAccounted /\ OneListener

-----------------------------------------------------------------------------
(* The messages posted to the window.                                      *)

Message == NetworkMessage \cup EventMessage

(* The window takes the first message, the others move up.                 *)
LEMMA Taken ==
  ASSUME TypeOK, posted # <<>>, posted' = Tail(posted)
  PROVE  /\ posted' \in Seq(Message) /\ Head(posted) = posted[1] /\ 1 \in DOMAIN posted
         /\ posted[1] \in Message
         /\ \A i \in DOMAIN posted' : i + 1 \in DOMAIN posted /\ posted'[i] = posted[i + 1]
         /\ \A i \in DOMAIN posted : i # 1 => i - 1 \in DOMAIN posted' /\ posted'[i - 1] = posted[i]
         /\ DOMAIN posted \subseteq Nat \ {0} /\ DOMAIN posted' \subseteq Nat \ {0}
<1>1. posted \in Seq(Message)
  BY DEF TypeOK, Message
<1>2. Len(posted) \in Nat \ {0} /\ DOMAIN posted = 1 .. Len(posted)
  BY <1>1, EmptySeq, LenProperties
<1>3. /\ Tail(posted) \in Seq(Message) /\ Len(Tail(posted)) = Len(posted) - 1
      /\ \A i \in 1 .. Len(Tail(posted)) : Tail(posted)[i] = posted[i + 1]
  BY <1>1, HeadTailProperties
<1>4. DOMAIN Tail(posted) = 1 .. Len(posted) - 1
  BY <1>3, LenProperties
<1>5. Head(posted) = posted[1] /\ posted[1] \in Message
  BY <1>1, <1>2, ElementOfSeq
<1>. QED BY <1>1, <1>2, <1>3, <1>4, <1>5

(* A thread posts a message behind them.                                   *)
LEMMA Posted ==
  ASSUME TypeOK, NEW m \in Message, posted' = Append(posted, m)
  PROVE  /\ posted' \in Seq(Message)
         /\ \E n \in Nat \ {0} :
              /\ n \notin DOMAIN posted /\ DOMAIN posted' = DOMAIN posted \cup {n}
              /\ posted'[n] = m /\ \A i \in DOMAIN posted : posted'[i] = posted[i]
<1>1. posted \in Seq(Message)
  BY DEF TypeOK, Message
<1>2. Len(posted) \in Nat /\ DOMAIN posted = 1 .. Len(posted)
  BY <1>1, LenProperties
<1>3. /\ posted' \in Seq(Message) /\ Len(posted') = Len(posted) + 1
      /\ \A i \in 1 .. Len(posted) : posted'[i] = posted[i]
      /\ posted'[Len(posted) + 1] = m
  BY <1>1, AppendProperties
<1>4. DOMAIN posted' = 1 .. Len(posted) + 1
  BY <1>3, LenProperties
<1>. QED BY <1>2, <1>3, <1>4

-----------------------------------------------------------------------------
(* The threads.                                                            *)

LEMMA RefreshStarted ==
  ASSUME TypeOK, RefreshAccounted, NEW g \in Generation, NEW r \in Room, StartRefresh(g, r)
  PROVE  /\ worker' \in [Thread -> Task \cup {Free}] /\ refreshActive' = TRUE
         /\ \A w \in Thread : worker'[w] = worker[w] \/ worker'[w] = NewTask(FALSE, g, r)
         /\ RefreshAccounted'
<1>1. NewTask(FALSE, g, r) \in Task
  BY DEF NewTask, Task
<1>2. CASE refreshActive
  BY <1>2 DEF StartRefresh, TypeOK, RefreshAccounted, Unreleased
<1>3. CASE ~refreshActive
  <2>1. PICK w \in Thread : worker[w] = Free /\ worker' = [worker EXCEPT ![w] = NewTask(FALSE, g, r)]
    BY <1>3 DEF StartRefresh, StartThread, IsFirstFree
  <2>2. NewTask(FALSE, g, r) # Free
    BY <1>1, DesktopAssumption
  <2>3. Unreleased(w)' /\ \A v \in Thread : v # w => ~Unreleased(v)'
    BY <1>3, <2>1, <2>2 DEF TypeOK, RefreshAccounted, Unreleased, NewTask
  <2>. QED BY <1>1, <1>3, <2>1, <2>3 DEF StartRefresh, TypeOK, RefreshAccounted
<1>. QED BY <1>2, <1>3 DEF TypeOK

LEMMA ListenerStarted ==
  ASSUME TypeOK, NEW h \in Generation \cup {0}, NEW u \in BOOLEAN, NEW g \in Generation, NEW r \in Room,
         StartEventTask(h, u, g, r)
  PROVE  /\ listener' \in [Thread -> EventTask \cup {Free}] /\ eventGeneration' \in Generation \cup {0}
         /\ \/ (u \/ h # 0) /\ eventGeneration' = h /\ listener' = listener
            \/ /\ ~u /\ h = 0 /\ eventGeneration' = g
               /\ \E l \in Thread :
                    /\ listener[l] = Free /\ listener'[l] # Free /\ listener'[l].generation = g
                    /\ \A k \in Thread : k # l => listener'[k] = listener[k]
<1>1. CASE u \/ h # 0
  BY <1>1 DEF StartEventTask, TypeOK
<1>2. CASE ~(u \/ h # 0)
  <2>1. PICK l \in Thread : listener[l] = Free /\ listener' = [listener EXCEPT ![l] = NewEventTask(g, r)]
    BY <1>2 DEF StartEventTask, IsFirstFree
  <2>2. NewEventTask(g, r) \in EventTask /\ NewEventTask(g, r).generation = g
    BY DEF NewEventTask, EventTask
  <2>3. NewEventTask(g, r) # Free
    BY <2>2, DesktopAssumption
  <2>. QED BY <1>2, <2>1, <2>2, <2>3 DEF StartEventTask, TypeOK
<1>. QED BY <1>1, <1>2

(* What a commit tells the listeners is nothing they are known by.         *)
LEMMA Told ==
  ASSUME TypeOK, NEW r \in Room, Commit(r)
  PROVE  /\ listener' \in [Thread -> EventTask \cup {Free}]
         /\ \A l \in Thread : /\ listener'[l] = Free <=> listener[l] = Free
                              /\ listener[l] # Free => listener'[l].generation = listener[l].generation
<1>. DEFINE L(l) == IF listener[l] # Free /\ listener[l].room = r /\ listener[l].step = "listen"
                    THEN [listener[l] EXCEPT !.step = "told"] ELSE listener[l]
<1>1. ASSUME NEW l \in Thread
      PROVE  /\ L(l) \in EventTask \cup {Free} /\ (L(l) = Free <=> listener[l] = Free)
             /\ listener[l] # Free => L(l).generation = listener[l].generation
  <2>1. CASE listener[l] = Free
    BY <2>1
  <2>2. CASE listener[l] # Free
    <3>1. listener[l] \in EventTask
      BY <2>2 DEF TypeOK
    <3>2. L(l) \in EventTask /\ L(l).generation = listener[l].generation
      BY <3>1 DEF EventTask
    <3>. QED BY <2>2, <3>2, DesktopAssumption
  <2>. QED BY <2>1, <2>2
<1>2. listener' = [l \in Thread |-> L(l)]
  BY DEF Commit
<1>. HIDE DEF L
<1>. QED BY <1>1, <1>2

-----------------------------------------------------------------------------
(* The budget of events.                                                   *)

LEMMA SendingFinite ==
  ASSUME NEW r
  PROVE  /\ IsFiniteSet(Sending(r)) /\ Cardinality(Sending(r)) \in Nat
         /\ IsFiniteSet(Sending(r)') /\ Cardinality(Sending(r)') \in Nat
<1>1. IsFiniteSet(Thread)
  BY DesktopAssumption, FS_Interval DEF Thread
<1>2. Sending(r) \in SUBSET Thread /\ Sending(r)' \in SUBSET Thread
  BY DEF Sending
<1>. QED BY <1>1, <1>2, FS_Subset, FS_CardinalityType

LEMMA NotMoreSending ==
  ASSUME NEW r, Sending(r)' \subseteq Sending(r)
  PROVE  Cardinality(Sending(r)') <= Cardinality(Sending(r))
BY SendingFinite, FS_Subset

LEMMA OneMoreSending ==
  ASSUME NEW r, NEW w, Sending(r)' \subseteq Sending(r) \cup {w}
  PROVE  Cardinality(Sending(r)') <= Cardinality(Sending(r)) + 1
<1>1. /\ IsFiniteSet(Sending(r) \cup {w})
      /\ Cardinality(Sending(r) \cup {w}) <= Cardinality(Sending(r)) + 1
  <2>1. /\ IsFiniteSet(Sending(r) \cup {w})
        /\ Cardinality(Sending(r) \cup {w})
             = IF w \in Sending(r) THEN Cardinality(Sending(r)) ELSE Cardinality(Sending(r)) + 1
    BY SendingFinite, FS_AddElement
  <2>. QED BY <2>1, SendingFinite
<1>2. Cardinality(Sending(r)') <= Cardinality(Sending(r) \cup {w}) 
  BY <1>1, FS_Subset
<1>3. Cardinality(Sending(r) \cup {w}) \in Nat
  BY <1>1, FS_CardinalityType
<1>. QED BY <1>1, <1>2, <1>3, SendingFinite

LEMMA OneLessSending ==
  ASSUME NEW r, NEW w \in Sending(r), Sending(r)' \subseteq Sending(r) \ {w}
  PROVE  Cardinality(Sending(r)') + 1 <= Cardinality(Sending(r))
<1>1. /\ IsFiniteSet(Sending(r) \ {w})
      /\ Cardinality(Sending(r) \ {w}) = Cardinality(Sending(r)) - 1
  BY SendingFinite, FS_RemoveElement
<1>2. Cardinality(Sending(r)') <= Cardinality(Sending(r) \ {w})
  BY <1>1, FS_Subset
<1>. QED BY <1>1, <1>2, SendingFinite

(* A room that does not change, and nobody new who would change it.        *)
LEMMA PaidBefore ==
  ASSUME TypeOK, Paid, generation' = generation, version' = version, events' \in Nat, events <= events',
         \A r \in Room : Sending(r)' \subseteq Sending(r)
  PROVE  Paid'
<1>1. ASSUME NEW r \in Room PROVE version'[r] + Cardinality(Sending(r)') <= events'
  <2>1. version[r] \in Nat /\ events \in Nat
    BY DEF TypeOK, Version
  <2>2. version[r] + Cardinality(Sending(r)) <= events
    BY DEF Paid
  <2>3. Cardinality(Sending(r)') <= Cardinality(Sending(r))
    BY NotMoreSending
  <2>. QED BY <2>1, <2>2, <2>3, SendingFinite
<1>2. generation \in Nat /\ events \in Nat /\ generation <= events + 1
  BY DesktopAssumption DEF TypeOK, Generation, Paid
<1>3. ASSUME NEW g \in Nat, NEW m \in Nat, NEW n \in Nat, g <= m + 1, m <= n
      PROVE  g <= n + 1
  BY <1>3
<1>4. generation' <= events' + 1
  BY <1>2, <1>3
<1>. QED BY <1>1, <1>4 DEF Paid

-----------------------------------------------------------------------------
(* The steps of the threads of the network.                                *)

(* All but the last leave a thread with the task it was given.             *)
LEMMA Advanced ==
  ASSUME TypeOK, NEW w \in Thread,
         \/ SendRoomText(w) \/ SendFails(w) \/ SendAnswerLost(w)
         \/ FetchRoom(w) \/ FetchFails(w) \/ Release(w)
  PROVE  /\ worker[w] \in Task /\ worker[w] # Free
         /\ worker' \in [Thread -> Task \cup {Free}] /\ worker'[w] \in Task /\ worker'[w] # Free
         /\ \A v \in Thread : v # w => worker'[v] = worker[v]
         /\ worker'[w].send = worker[w].send /\ worker'[w].room = worker[w].room
         /\ worker'[w].generation = worker[w].generation
         /\ worker'[w].step \in {"fetch", "end", "post"}
         /\ ~Release(w) => worker[w].step # "post" /\ worker'[w].step # "post"
<1>1. worker[w] \in Task /\ worker[w] # Free
  BY DEF TypeOK, SendRoomText, SendFails, SendAnswerLost, FetchRoom, FetchFails, Release
<1>2. version[worker[w].room] \in Version
  BY <1>1 DEF Task, TypeOK
<1>3. \E x \in Task :
        /\ worker' = [worker EXCEPT ![w] = x]
        /\ x.send = worker[w].send /\ x.room = worker[w].room
        /\ x.generation = worker[w].generation /\ x.step \in {"fetch", "end", "post"}
  <2>1. CASE SendRoomText(w)
    <3>. [worker[w] EXCEPT !.step = "fetch"] \in Task
      BY <1>1, <1>2 DEF Task
    <3>. WITNESS [worker[w] EXCEPT !.step = "fetch"] \in Task
    <3>. QED BY <1>1, <2>1 DEF SendRoomText, Task
  <2>2. CASE SendFails(w) \/ SendAnswerLost(w) \/ FetchFails(w)
    <3>. [worker[w] EXCEPT !.step = "end", !.ok = FALSE] \in Task
      BY <1>1, <1>2 DEF Task
    <3>. WITNESS [worker[w] EXCEPT !.step = "end", !.ok = FALSE] \in Task
    <3>. QED BY <1>1, <2>2 DEF SendFails, SendAnswerLost, FetchFails, Fail, Task
  <2>3. CASE FetchRoom(w)
    <3>. [worker[w] EXCEPT !.step = "end", !.version = version[worker[w].room]] \in Task
      BY <1>1, <1>2 DEF Task
    <3>. WITNESS [worker[w] EXCEPT !.step = "end", !.version = version[worker[w].room]] \in Task
    <3>. QED BY <1>1, <1>2, <2>3 DEF FetchRoom, Task
  <2>4. CASE Release(w)
    <3>. [worker[w] EXCEPT !.step = "post"] \in Task
      BY <1>1, <1>2 DEF Task
    <3>. WITNESS [worker[w] EXCEPT !.step = "post"] \in Task
    <3>. QED BY <1>1, <2>4 DEF Release, Task
  <2>. QED BY <2>1, <2>2, <2>3, <2>4
<1>4. ~Release(w) => worker[w].step # "post" /\ worker'[w].step # "post"
  BY <1>1 DEF SendRoomText, SendFails, SendAnswerLost, FetchRoom, FetchFails, Fail, TypeOK, Task
<1>. QED BY <1>1, <1>3, <1>4, DesktopAssumption DEF TypeOK

(* Nobody but this thread sends less, and this one no more.                *)
LEMMA SentOnce ==
  ASSUME TypeOK, NEW w \in Thread,
         \/ SendRoomText(w) \/ SendFails(w) \/ SendAnswerLost(w)
         \/ FetchRoom(w) \/ FetchFails(w) \/ Release(w),
         NEW r
  PROVE  Sending(r)' \subseteq Sending(r) \ {w}
BY Advanced DEF Sending

LEMMA WorkersKnownStill ==
  ASSUME TypeOK, WorkersKnown, NEW w \in Thread,
         \/ SendRoomText(w) \/ SendFails(w) \/ SendAnswerLost(w)
         \/ FetchRoom(w) \/ FetchFails(w) \/ Release(w)
  PROVE  WorkersKnown'
<1>1. generation' = generation /\ room' = room
  BY DEF SendRoomText, SendFails, SendAnswerLost, FetchRoom, FetchFails, Release, globals
<1>2. worker'[w].step \in {"end", "post"} /\ worker'[w].ok => worker'[w].version \in Version
  <2>1. CASE SendRoomText(w)
    BY <2>1, Advanced DEF SendRoomText, TypeOK, Task
  <2>2. CASE SendFails(w) \/ SendAnswerLost(w) \/ FetchFails(w)
    BY <2>2, Advanced DEF SendFails, SendAnswerLost, FetchFails, Fail, TypeOK, Task
  <2>3. CASE FetchRoom(w)
    <3>1. version[worker[w].room] \in Version
      BY Advanced DEF TypeOK, Task
    <3>2. worker'[w] = [worker[w] EXCEPT !.step = "end", !.version = version[worker[w].room]]
      BY <2>3 DEF FetchRoom, TypeOK
    <3>. QED BY <3>1, <3>2, Advanced DEF Task
  <2>4. CASE Release(w)
    BY <2>4, Advanced DEF Release, TypeOK, Task, WorkersKnown
  <2>. QED BY <2>1, <2>2, <2>3, <2>4
<1>. QED BY <1>1, <1>2, Advanced DEF WorkersKnown

(* A room that a thread changes was paid for with the text; with that of   *)
(* others, or when the answer is lost, an event is.                        *)
LEMMA Committed ==
  ASSUME TypeOK, Paid, generation' = generation, NEW r \in Room, Commit(r),
         events' \in 0 .. MaxEvents, events <= events',
         \A q \in Room : Sending(q)' \subseteq Sending(q),
         events' = events + 1 \/ \E w \in Sending(r) : Sending(r)' \subseteq Sending(r) \ {w}
  PROVE  Paid' /\ version' \in [Room -> Version]
<1>1. version' = [version EXCEPT ![r] = @ + 1] /\ events' \in Nat /\ events \in Nat
  BY DEF Commit, TypeOK
<1>2. ASSUME NEW q \in Room
      PROVE  version'[q] \in Nat /\ version'[q] + Cardinality(Sending(q)') <= events'
  <2>1. version[q] \in Nat /\ version[q] + Cardinality(Sending(q)) <= events
    BY DEF TypeOK, Version, Paid
  <2>2. Cardinality(Sending(q)') <= Cardinality(Sending(q))
    BY NotMoreSending
  <2>3. CASE q # r
    BY <1>1, <2>1, <2>2, <2>3, SendingFinite DEF TypeOK
  <2>4. CASE q = r /\ events' = events + 1
    BY <1>1, <2>1, <2>2, <2>4, SendingFinite DEF TypeOK
  <2>5. CASE q = r /\ \E w \in Sending(r) : Sending(r)' \subseteq Sending(r) \ {w}
    <3>1. Cardinality(Sending(q)') + 1 <= Cardinality(Sending(q))
      BY <2>5, OneLessSending
    <3>2. version'[q] = version[q] + 1
      BY <1>1, <2>5 DEF TypeOK
    <3>. QED BY <1>1, <2>1, <3>1, <3>2, SendingFinite
  <2>. QED BY <2>3, <2>4, <2>5
<1>3. generation' <= events' + 1
  BY <1>1, DesktopAssumption DEF Paid, TypeOK, Generation
<1>4. \A q \in Room : version'[q] \in Version
  BY <1>1, <1>2, SendingFinite, DesktopAssumption DEF Version
<1>. QED BY <1>1, <1>2, <1>3, <1>4 DEF Paid, TypeOK

LEMMA NetworkWorkerKeeps ==
  ASSUME IInv, NEW w \in Thread, NetworkWorker(w)
  PROVE  IInv'
<1>. USE DEF IInv
<1>1. CASE SendRoomText(w) \/ SendAnswerLost(w)
  <2>1. /\ Commit(worker[w].room) /\ worker[w].room \in Room
        /\ worker[w] # Free /\ worker[w].step = "send"
    BY <1>1, Advanced DEF SendRoomText, SendAnswerLost, Task
  <2>2. events' \in 0 .. MaxEvents /\ events <= events' /\ generation' = generation
    BY <1>1, DesktopAssumption DEF SendRoomText, SendAnswerLost, Event, TypeOK, globals, counters
  <2>3. Paid' /\ version' \in [Room -> Version]
    <3>1. w \in Sending(worker[w].room)
      BY <2>1 DEF Sending
    <3>2. \A q : Sending(q)' \subseteq Sending(q) \ {w}
      BY <1>1, SentOnce
    <3>. QED BY <2>1, <2>2, <3>1, <3>2, Committed
  <2>4. /\ listener' \in [Thread -> EventTask \cup {Free}]
        /\ \A l \in Thread :
             /\ listener'[l] = Free <=> listener[l] = Free
             /\ listener[l] # Free => listener'[l].generation = listener[l].generation
    BY <2>1, Told
  <2>5. worker' \in [Thread -> Task \cup {Free}]
    BY <1>1, Advanced
  <2>6. TypeOK'
    BY <1>1, <2>2, <2>3, <2>4, <2>5
    DEF SendRoomText, SendAnswerLost, TypeOK, globals, shown, counters
  <2>7. WorkersKnown'
    BY <1>1, WorkersKnownStill
  <2>8. ListenersKnown' /\ OneListener'
    BY <1>1, <2>4 DEF SendRoomText, SendAnswerLost, ListenersKnown, OneListener, Waiting, Reported,
       globals
  <2>9. MessagesKnown' /\ ShownIsOfRoom'
    BY <1>1 DEF SendRoomText, SendAnswerLost, MessagesKnown, ShownIsOfRoom, globals, shown
  <2>10. RefreshAccounted'
    <3>1. ~Release(w) /\ refreshActive' = refreshActive
      BY <1>1 DEF SendRoomText, SendAnswerLost, Release, globals
    <3>. QED BY <1>1, <3>1, Advanced DEF RefreshAccounted, Unreleased
  <2>. QED BY <2>3, <2>6, <2>7, <2>8, <2>9, <2>10
<1>2. CASE SendFails(w) \/ FetchRoom(w) \/ FetchFails(w) \/ Release(w)
  <2>1. /\ version' = version /\ generation' = generation /\ room' = room
        /\ events' \in 0 .. MaxEvents /\ events <= events'
    BY <1>2, DesktopAssumption DEF SendFails, FetchRoom, FetchFails, Release, Event, TypeOK, globals,
       counters
  <2>2. Paid'
    BY <1>2, <2>1, SentOnce, PaidBefore DEF TypeOK
  <2>3. /\ listener' = listener /\ posted' = posted /\ eventGeneration' = eventGeneration
        /\ history' = history
    BY <1>2 DEF SendFails, FetchRoom, FetchFails, Release, globals, shown
  <2>4. worker' \in [Thread -> Task \cup {Free}]
    BY <1>2, Advanced
  <2>5. cache' \in Snapshot \cup {Nothing}
    BY <1>2, Advanced DEF SendFails, FetchRoom, FetchFails, Release, SaveHistoryCache, TypeOK, Task,
       Snapshot, WorkersKnown
  <2>6. refreshActive' \in BOOLEAN
    BY <1>2, Advanced DEF SendFails, FetchRoom, FetchFails, Release, TypeOK, globals
  <2>7. TypeOK'
    BY <1>2, <2>1, <2>3, <2>4, <2>5, <2>6
    DEF SendFails, FetchRoom, FetchFails, Release, TypeOK, globals, shown, counters
  <2>8. WorkersKnown'
    BY <1>2, WorkersKnownStill
  <2>9. ListenersKnown' /\ OneListener' /\ MessagesKnown' /\ ShownIsOfRoom'
    BY <2>1, <2>3 DEF ListenersKnown, OneListener, Waiting, Reported, MessagesKnown, ShownIsOfRoom
  <2>10. RefreshAccounted'
    <3>1. CASE ~Release(w)
      <4>1. refreshActive' = refreshActive
        BY <1>2, <3>1 DEF SendFails, FetchRoom, FetchFails, globals
      <4>. QED BY <1>2, <3>1, <4>1, Advanced DEF RefreshAccounted, Unreleased
    <3>2. CASE Release(w)
      BY <3>2, Advanced DEF Release, TypeOK, Task, RefreshAccounted, Unreleased
    <3>. QED BY <3>1, <3>2
  <2>. QED BY <2>2, <2>7, <2>8, <2>9, <2>10
<1>3. CASE PostResult(w)
  <2>. DEFINE m == [of |-> "network", ok |-> worker[w].ok,
                    generation |-> worker[w].generation,
                    snapshot |-> [room |-> worker[w].room, version |-> worker[w].version]]
  <2>1. worker[w] \in Task /\ worker[w] # Free
    BY <1>3 DEF PostResult, TypeOK
  <2>2. m \in Message /\ m.of = "network"
    BY <2>1 DEF Task, Message, NetworkMessage
  <2>3. /\ posted' \in Seq(Message)
        /\ \E n \in Nat \ {0} :
             /\ n \notin DOMAIN posted /\ DOMAIN posted' = DOMAIN posted \cup {n}
             /\ posted'[n] = m /\ \A i \in DOMAIN posted : posted'[i] = posted[i]
    BY <1>3, <2>2, Posted DEF PostResult
  <2>4. /\ worker' \in [Thread -> Task \cup {Free}]
        /\ \A v \in Thread : worker'[v] # Free => worker[v] # Free /\ worker'[v] = worker[v]
    BY <1>3 DEF PostResult, TypeOK
  <2>5. TypeOK'
    BY <1>3, <2>3, <2>4 DEF PostResult, TypeOK, Message, globals, shown, counters
  <2>6. WorkersKnown' /\ ListenersKnown' /\ ShownIsOfRoom'
    BY <1>3, <2>4 DEF PostResult, WorkersKnown, ListenersKnown, ShownIsOfRoom, globals, shown
  <2>7. MessagesKnown'
    <3>1. /\ m.generation <= generation
          /\ m.generation = generation => m.snapshot.room = room
          /\ m.ok => m.snapshot.version \in Version
      BY <1>3, <2>1 DEF PostResult, WorkersKnown
    <3>. HIDE DEF m
    <3>. QED BY <1>3, <2>2, <2>3, <3>1 DEF PostResult, MessagesKnown, globals
  <2>8. Paid'
    <3>1. \A r : Sending(r)' \subseteq Sending(r)
      BY <2>4 DEF Sending
    <3>. QED BY <1>3, <3>1, PaidBefore DEF PostResult, TypeOK, globals, counters
  <2>9. RefreshAccounted'
    BY <1>3, <2>4, DesktopAssumption DEF PostResult, TypeOK, RefreshAccounted, Unreleased, globals
  <2>10. OneListener'
    <3>. HIDE DEF m
    <3>. QED BY <1>3, <2>2, <2>3 DEF PostResult, OneListener, Waiting, Reported, globals
  <2>. QED BY <2>5, <2>6, <2>7, <2>8, <2>9, <2>10
<1>. QED BY <1>1, <1>2, <1>3 DEF NetworkWorker

-----------------------------------------------------------------------------
(* The steps of the threads that listen, and those of the other clients.   *)

LEMMA EventWorkerKeeps ==
  ASSUME IInv, NEW l \in Thread, EventWorker(l)
  PROVE  IInv'
<1>. USE DEF IInv
<1>1. listener[l] \in EventTask /\ listener[l] # Free
  BY DEF EventWorker, Connect, NoWebSockets, RefreshEvent, Disconnected, TypeOK
<1>2. /\ version' = version /\ generation' = generation /\ room' = room /\ worker' = worker
      /\ refreshActive' = refreshActive /\ history' = history /\ eventGeneration' = eventGeneration
      /\ events' \in 0 .. MaxEvents /\ events <= events'
  BY DesktopAssumption
  DEF EventWorker, Connect, NoWebSockets, RefreshEvent, Disconnected, PostEvent, Event, TypeOK,
      globals, shown, counters
<1>3. Paid'
  <2>1. \A r : Sending(r)' \subseteq Sending(r)
    BY <1>2 DEF Sending
  <2>. QED BY <1>2, <2>1, PaidBefore DEF TypeOK
<1>4. WorkersKnown' /\ ShownIsOfRoom' /\ RefreshAccounted'
  BY <1>2 DEF WorkersKnown, ShownIsOfRoom, RefreshAccounted, Unreleased
<1>5. CASE Connect(l)
  <2>1. [listener[l] EXCEPT !.step = "listen"] \in EventTask
    BY <1>1 DEF EventTask
  <2>2. listener' = [listener EXCEPT ![l] = [listener[l] EXCEPT !.step = "listen"]]
    BY <1>5 DEF Connect
  <2>3. /\ listener' \in [Thread -> EventTask \cup {Free}] /\ listener'[l] # Free
        /\ listener'[l].generation = listener[l].generation
        /\ \A k \in Thread : k # l => listener'[k] = listener[k]
    BY <1>1, <2>1, <2>2, DesktopAssumption DEF TypeOK, EventTask
  <2>4. posted' = posted
    BY <1>5 DEF Connect
  <2>5. TypeOK'
    BY <1>2, <1>5, <2>3, <2>4 DEF Connect, TypeOK, globals, shown, counters
  <2>6. ListenersKnown' /\ MessagesKnown' /\ OneListener'
    BY <1>1, <1>2, <2>3, <2>4 DEF ListenersKnown, MessagesKnown, OneListener, Waiting, Reported
  <2>. QED BY <1>3, <1>4, <2>5, <2>6
<1>6. ASSUME NEW result \in {"Refresh", "Disconnected", "Unsupported"}, PostEvent(l, result),
             webSockets' = webSockets
      PROVE  IInv'
  <2>. DEFINE m == [of |-> "event", generation |-> listener[l].generation, result |-> result]
  <2>1. m \in Message /\ m.of = "event" /\ m.generation = listener[l].generation
    BY <1>1 DEF EventTask, Message, EventMessage
  <2>2. /\ posted' \in Seq(Message)
        /\ \E n \in Nat \ {0} :
             /\ n \notin DOMAIN posted /\ DOMAIN posted' = DOMAIN posted \cup {n}
             /\ posted'[n] = m /\ \A i \in DOMAIN posted : posted'[i] = posted[i]
    BY <1>6, <2>1, Posted DEF PostEvent
  <2>3. /\ listener' \in [Thread -> EventTask \cup {Free}] /\ listener'[l] = Free
        /\ \A k \in Thread : k # l => listener'[k] = listener[k]
    BY <1>6 DEF PostEvent, TypeOK
  <2>. HIDE DEF m
  <2>4. TypeOK'
    BY <1>2, <1>6, <2>2, <2>3 DEF PostEvent, TypeOK, Message, globals, shown
  <2>5. ListenersKnown' /\ MessagesKnown'
    BY <1>1, <1>2, <2>1, <2>2, <2>3 DEF ListenersKnown, MessagesKnown
  <2>6. OneListener'
    BY <1>1, <1>2, <2>1, <2>2, <2>3 DEF OneListener, Waiting, Reported
  <2>. QED BY <1>3, <1>4, <2>4, <2>5, <2>6
<1>7. webSockets' = webSockets \/ Connect(l)
  BY DEF EventWorker, NoWebSockets, RefreshEvent, Disconnected, PostEvent
<1>. QED BY <1>5, <1>6, <1>7 DEF EventWorker, NoWebSockets, RefreshEvent, Disconnected

LEMMA OthersKeep ==
  ASSUME IInv, NEW r \in Room, OthersChange(r)
  PROVE  IInv'
<1>. USE DEF IInv
<1>1. events' = events + 1 /\ events' \in 0 .. MaxEvents /\ events <= events'
  BY DesktopAssumption DEF OthersChange, Event, TypeOK
<1>2. /\ generation' = generation /\ room' = room /\ worker' = worker /\ posted' = posted
      /\ refreshActive' = refreshActive /\ history' = history /\ eventGeneration' = eventGeneration
  BY DEF OthersChange, globals, shown
<1>3. Paid' /\ version' \in [Room -> Version]
  <2>1. \A q : Sending(q)' \subseteq Sending(q)
    BY <1>2 DEF Sending
  <2>. QED BY <1>1, <1>2, <2>1, Committed DEF OthersChange
<1>4. /\ listener' \in [Thread -> EventTask \cup {Free}]
      /\ \A l \in Thread :
           /\ listener'[l] = Free <=> listener[l] = Free
           /\ listener[l] # Free => listener'[l].generation = listener[l].generation
  BY Told DEF OthersChange
<1>5. TypeOK'
  BY <1>1, <1>2, <1>3, <1>4 DEF OthersChange, TypeOK, globals, shown
<1>6. WorkersKnown' /\ MessagesKnown' /\ ShownIsOfRoom' /\ RefreshAccounted'
  BY <1>2 DEF WorkersKnown, MessagesKnown, ShownIsOfRoom, RefreshAccounted, Unreleased
<1>7. ListenersKnown' /\ OneListener'
  BY <1>2, <1>4 DEF ListenersKnown, OneListener, Waiting, Reported
<1>. QED BY <1>3, <1>5, <1>6, <1>7

-----------------------------------------------------------------------------
(* The steps of the window.                                                *)

(* Whether the window starts a refresh or not, of the same generation or   *)
(* of a new one.                                                           *)
LEMMA Refreshed ==
  ASSUME TypeOK, WorkersKnown, RefreshAccounted, generation' \in Generation, room' \in Room,
         \/ generation' = generation /\ room' = room
         \/ generation' = generation + 1,
         \/ StartRefresh(generation', room')
         \/ generation' = generation /\ refreshActive' = refreshActive /\ worker' = worker
  PROVE  /\ worker' \in [Thread -> Task \cup {Free}] /\ refreshActive' \in BOOLEAN
         /\ RefreshAccounted' /\ WorkersKnown'
         /\ \A r : Sending(r)' \subseteq Sending(r)
<1>1. CASE StartRefresh(generation', room')
  <2>1. /\ worker' \in [Thread -> Task \cup {Free}] /\ refreshActive' = TRUE /\ RefreshAccounted'
        /\ \A w \in Thread :
             worker'[w] = worker[w] \/ worker'[w] = NewTask(FALSE, generation', room')
    BY <1>1, RefreshStarted
  <2>2. generation \in Int /\ \A w \in Thread : worker[w] # Free => worker[w].generation \in Int
    BY DesktopAssumption DEF TypeOK, Generation, Task
  <2>3. WorkersKnown'
    BY <2>1, <2>2 DEF WorkersKnown, NewTask
  <2>4. \A r : Sending(r)' \subseteq Sending(r)
    BY <2>1 DEF Sending, NewTask
  <2>. QED BY <2>1, <2>3, <2>4
<1>2. CASE generation' = generation /\ refreshActive' = refreshActive /\ worker' = worker
  <2>1. room' = room
    BY <1>2 DEF TypeOK, Generation
  <2>. QED BY <1>2, <2>1 DEF TypeOK, RefreshAccounted, Unreleased, WorkersKnown, Sending
<1>. QED BY <1>1, <1>2

LEMMA SaveKeeps ==
  ASSUME IInv, NEW r \in Room, SaveFromWindow(r)
  PROVE  IInv'
<1>. USE DEF IInv
<1>1. /\ events \in Nat /\ events' = events + 1 /\ events' \in 0 .. MaxEvents
      /\ generation \in Nat \ {0} /\ generation' = generation + 1 /\ generation <= events + 1
  BY DesktopAssumption DEF SaveFromWindow, Event, TypeOK, Generation, Paid
<1>2. generation' \in Generation /\ generation' <= events' + 1 /\ room' = r
  BY <1>1, DesktopAssumption DEF SaveFromWindow, Generation
<1>3. /\ worker' \in [Thread -> Task \cup {Free}] /\ refreshActive' \in BOOLEAN
      /\ RefreshAccounted' /\ WorkersKnown'
      /\ \A q : Sending(q)' \subseteq Sending(q)
  BY <1>1, <1>2, Refreshed DEF SaveFromWindow
<1>4. /\ listener' \in [Thread -> EventTask \cup {Free}]
      /\ eventGeneration' = generation'
      /\ \E l \in Thread :
           /\ listener[l] = Free /\ listener'[l] # Free /\ listener'[l].generation = generation'
           /\ \A k \in Thread : k # l => listener'[k] = listener[k]
  <2>1. StartEventTask(0, FALSE, generation', r)
    BY <1>1 DEF SaveFromWindow
  <2>2. 0 \in Generation \cup {0} /\ FALSE \in BOOLEAN
    OBVIOUS
  <2>. QED BY <1>2, <2>1, <2>2, ListenerStarted
<1>5. TypeOK'
  <2>1. history' \in Snapshot \cup {Nothing}
    BY DEF SaveFromWindow, LoadHistoryCache, TypeOK
  <2>. QED BY <1>1, <1>2, <1>3, <1>4, <2>1 DEF SaveFromWindow, TypeOK
<1>6. Paid'
  <2>1. ASSUME NEW q \in Room PROVE version'[q] + Cardinality(Sending(q)') <= events'
    <3>1. version[q] \in Nat /\ version[q] + Cardinality(Sending(q)) <= events /\ version' = version
      BY DEF SaveFromWindow, TypeOK, Version, Paid
    <3>2. Cardinality(Sending(q)') <= Cardinality(Sending(q))
      BY <1>3, NotMoreSending
    <3>. QED BY <1>1, <3>1, <3>2, SendingFinite
  <2>. QED BY <1>2, <2>1 DEF Paid
<1>7. posted' = posted /\ \A i \in DOMAIN posted : posted[i].generation < generation'
  <2>1. \A i \in DOMAIN posted : posted[i].generation \in Nat
    BY DEF TypeOK, Generation, NetworkMessage, EventMessage
  <2>. QED BY <1>1, <2>1 DEF SaveFromWindow, MessagesKnown
<1>8. \A l \in Thread : listener[l] # Free => listener[l].generation < generation'
  <2>1. \A l \in Thread : listener[l] # Free => listener[l].generation \in Nat
    BY DEF TypeOK, Generation, EventTask
  <2>. QED BY <1>1, <2>1 DEF ListenersKnown
<1>9. ListenersKnown'
  BY <1>1, <1>4, <1>8 DEF ListenersKnown, TypeOK, EventTask, Generation
<1>10. MessagesKnown'
  BY <1>1, <1>7 DEF MessagesKnown, TypeOK, NetworkMessage, EventMessage, Generation
<1>11. ShownIsOfRoom'
  BY <1>2 DEF SaveFromWindow, LoadHistoryCache, ShownIsOfRoom
<1>12. OneListener'
  BY <1>1, <1>4, <1>7, <1>8 DEF OneListener, Waiting, Reported, TypeOK, EventTask
<1>. QED BY <1>3, <1>5, <1>6, <1>9, <1>10, <1>11, <1>12

LEMMA HotkeyKeeps ==
  ASSUME IInv, HandleHotkey
  PROVE  IInv'
<1>. USE DEF IInv
<1>. DEFINE task == NewTask(TRUE, generation, room)
<1>1. task \in Task /\ task # Free
  <2>1. task \in Task
    BY DEF NewTask, Task, TypeOK
  <2>. QED BY <2>1, DesktopAssumption
<1>2. PICK w \in Thread : worker[w] = Free /\ worker' = [worker EXCEPT ![w] = task]
  BY DEF HandleHotkey, StartThread, IsFirstFree
<1>3. /\ task.send = TRUE /\ task.step = "send" /\ task.generation = generation /\ task.room = room
  BY DEF NewTask
<1>. HIDE DEF task
<1>4. /\ version' = version /\ generation' = generation /\ room' = room /\ posted' = posted
      /\ listener' = listener /\ refreshActive' = refreshActive /\ history' = history
      /\ eventGeneration' = eventGeneration
      /\ events \in Nat /\ events' = events + 1 /\ events' \in 0 .. MaxEvents
  BY DesktopAssumption DEF HandleHotkey, Event, TypeOK, globals, shown
<1>5. /\ worker' \in [Thread -> Task \cup {Free}] /\ worker'[w] = task
      /\ \A v \in Thread : v # w => worker'[v] = worker[v]
  BY <1>1, <1>2 DEF TypeOK
<1>6. TypeOK'
  BY <1>4, <1>5 DEF HandleHotkey, TypeOK, globals, shown
<1>7. Paid'
  <2>1. ASSUME NEW r \in Room PROVE version'[r] + Cardinality(Sending(r)') <= events'
    <3>1. Sending(r)' \subseteq Sending(r) \cup {w}
      BY <1>5 DEF Sending
    <3>2. Cardinality(Sending(r)') <= Cardinality(Sending(r)) + 1
      BY <3>1, OneMoreSending
    <3>3. version[r] \in Nat /\ version[r] + Cardinality(Sending(r)) <= events
      BY DEF TypeOK, Version, Paid
    <3>. QED BY <1>4, <3>2, <3>3, SendingFinite
  <2>2. generation \in Nat /\ generation <= events + 1
    BY DesktopAssumption DEF TypeOK, Generation, Paid
  <2>3. generation' <= events' + 1
    BY <1>4, <2>2
  <2>. QED BY <2>1, <2>3 DEF Paid
<1>8. WorkersKnown'
  BY <1>3, <1>4, <1>5, DesktopAssumption DEF WorkersKnown, TypeOK, Generation
<1>9. ListenersKnown' /\ MessagesKnown' /\ ShownIsOfRoom' /\ OneListener'
  BY <1>4 DEF ListenersKnown, MessagesKnown, ShownIsOfRoom, OneListener, Waiting, Reported
<1>10. RefreshAccounted'
  BY <1>2, <1>3, <1>4, <1>5 DEF RefreshAccounted, Unreleased
<1>. QED BY <1>6, <1>7, <1>8, <1>9, <1>10

LEMMA TimerKeeps ==
  ASSUME IInv, RefreshTimer
  PROVE  IInv'
<1>. USE DEF IInv
<1>1. /\ version' = version /\ generation' = generation /\ room' = room /\ posted' = posted
      /\ history' = history /\ events' = events /\ posted = <<>>
      /\ generation' \in Generation /\ room' \in Room
  BY DEF RefreshTimer, TypeOK, shown, counters
<1>2. /\ worker' \in [Thread -> Task \cup {Free}] /\ refreshActive' \in BOOLEAN
      /\ RefreshAccounted' /\ WorkersKnown'
      /\ \A r : Sending(r)' \subseteq Sending(r)
  BY <1>1, Refreshed DEF RefreshTimer
<1>3. /\ listener' \in [Thread -> EventTask \cup {Free}] /\ eventGeneration' \in Generation \cup {0}
      /\ \/ eventGeneration' = eventGeneration /\ listener' = listener
         \/ /\ eventGeneration = 0 /\ eventGeneration' = generation
            /\ \E l \in Thread :
                 /\ listener[l] = Free /\ listener'[l] # Free
                 /\ listener'[l].generation = generation
                 /\ \A k \in Thread : k # l => listener'[k] = listener[k]
  BY ListenerStarted DEF RefreshTimer, TypeOK
<1>4. TypeOK'
  BY <1>1, <1>2, <1>3 DEF RefreshTimer, TypeOK, shown, counters
<1>5. Paid'
  BY <1>1, <1>2, PaidBefore DEF TypeOK
<1>6. ListenersKnown'
  BY <1>1, <1>3, DesktopAssumption DEF ListenersKnown, TypeOK, Generation
<1>7. MessagesKnown' /\ ShownIsOfRoom'
  BY <1>1 DEF MessagesKnown, ShownIsOfRoom
<1>8. OneListener'
  <2>1. DOMAIN posted = {}
    BY <1>1
  <2>2. generation # 0
    BY DesktopAssumption DEF TypeOK, Generation
  <2>. QED BY <1>1, <1>3, <2>1, <2>2 DEF OneListener, Waiting, Reported
<1>. QED BY <1>2, <1>4, <1>5, <1>6, <1>7, <1>8

LEMMA ThirtySecondsKeep ==
  ASSUME IInv, ThirtySeconds
  PROVE  IInv'
BY DEF IInv, ThirtySeconds, TypeOK, WorkersKnown, ListenersKnown, MessagesKnown, Paid, Sending,
    ShownIsOfRoom, RefreshAccounted, Unreleased, OneListener, Waiting, Reported, globals, threads,
    counters

LEMMA NetworkArrivesKeeps ==
  ASSUME IInv, NetworkArrives
  PROVE  IInv'
<1>. USE DEF IInv
<1>1. /\ posted' \in Seq(Message) /\ Head(posted) = posted[1] /\ 1 \in DOMAIN posted
      /\ posted[1] \in Message
      /\ \A i \in DOMAIN posted' : i + 1 \in DOMAIN posted /\ posted'[i] = posted[i + 1]
      /\ \A i \in DOMAIN posted : i # 1 => i - 1 \in DOMAIN posted' /\ posted'[i - 1] = posted[i]
      /\ DOMAIN posted \subseteq Nat \ {0} /\ DOMAIN posted' \subseteq Nat \ {0}
  BY Taken DEF NetworkArrives
<1>2. /\ version' = version /\ generation' = generation /\ room' = room /\ worker' = worker
      /\ listener' = listener /\ refreshActive' = refreshActive /\ events' = events
      /\ eventGeneration' = eventGeneration
  BY DEF NetworkArrives, globals, threads, counters
<1>3. posted[1].of = "network" /\ posted[1] \in NetworkMessage
  BY <1>1 DEF NetworkArrives, Message, EventMessage
<1>4. /\ history' \in Snapshot \cup {Nothing} /\ recent' \in BOOLEAN
      /\ ShownIsOfRoom'
  <2>1. CASE posted[1].generation = generation /\ posted[1].ok
    <3>1. history' = posted[1].snapshot /\ recent' = TRUE
      BY <1>1, <2>1 DEF NetworkArrives
    <3>2. posted[1].snapshot.room = room /\ posted[1].snapshot.version \in Version
      BY <1>1, <1>3, <2>1 DEF MessagesKnown
    <3>3. posted[1].snapshot \in Snapshot
      BY <1>3, <3>2 DEF NetworkMessage, Snapshot
    <3>. QED BY <1>2, <3>1, <3>2, <3>3 DEF ShownIsOfRoom
  <2>2. CASE ~(posted[1].generation = generation /\ posted[1].ok)
    <3>1. history' = history /\ recent' = recent
      BY <1>1, <2>2 DEF NetworkArrives, shown
    <3>. QED BY <1>2, <3>1 DEF ShownIsOfRoom, TypeOK
  <2>. QED BY <2>1, <2>2
<1>5. TypeOK'
  BY <1>1, <1>2, <1>4 DEF NetworkArrives, TypeOK, Message, globals, counters
<1>6. WorkersKnown' /\ ListenersKnown' /\ Paid' /\ RefreshAccounted'
  BY <1>2 DEF WorkersKnown, ListenersKnown, Paid, Sending, RefreshAccounted, Unreleased
<1>7. MessagesKnown'
  BY <1>1, <1>2 DEF MessagesKnown
<1>8. OneListener'
  <2>1. /\ \A i \in DOMAIN posted' : Reported(i)' <=> Reported(i + 1)
        /\ \A i \in DOMAIN posted : Reported(i) => i # 1
    BY <1>1, <1>2, <1>3 DEF Reported
  <2>2. \A l \in Thread : Waiting(l)' <=> Waiting(l)
    BY <1>2 DEF Waiting
  <2>3. (\E i \in DOMAIN posted' : Reported(i)') <=> \E i \in DOMAIN posted : Reported(i)
    BY <1>1, <2>1
  <2>4. \A i, j \in DOMAIN posted' : Reported(i)' /\ Reported(j)' => i = j
    BY <1>1, <2>1 DEF OneListener
  <2>. QED BY <1>1, <1>2, <2>1, <2>2, <2>3, <2>4 DEF OneListener
<1>. QED BY <1>4, <1>5, <1>6, <1>7, <1>8

LEMMA EventArrivesKeeps ==
  ASSUME IInv, EventArrives
  PROVE  IInv'
<1>. USE DEF IInv
<1>1. /\ posted' \in Seq(Message) /\ Head(posted) = posted[1] /\ 1 \in DOMAIN posted
      /\ posted[1] \in Message
      /\ \A i \in DOMAIN posted' : i + 1 \in DOMAIN posted /\ posted'[i] = posted[i + 1]
      /\ \A i \in DOMAIN posted : i # 1 => i - 1 \in DOMAIN posted' /\ posted'[i - 1] = posted[i]
      /\ DOMAIN posted \subseteq Nat \ {0} /\ DOMAIN posted' \subseteq Nat \ {0}
  BY Taken DEF EventArrives
<1>2. /\ version' = version /\ generation' = generation /\ room' = room /\ history' = history
      /\ listener' = listener /\ events' = events
      /\ generation' \in Generation /\ room' \in Room
  BY DEF EventArrives, TypeOK, shown, counters
<1>3. posted[1].of = "event" /\ posted[1] \in EventMessage
  BY <1>1 DEF EventArrives, Message, NetworkMessage
<1>4. /\ worker' \in [Thread -> Task \cup {Free}] /\ refreshActive' \in BOOLEAN
      /\ RefreshAccounted' /\ WorkersKnown'
      /\ \A r : Sending(r)' \subseteq Sending(r)
  <2>1. \/ StartRefresh(generation', room')
        \/ generation' = generation /\ refreshActive' = refreshActive /\ worker' = worker
    BY <1>2 DEF EventArrives
  <2>. QED BY <1>2, <2>1, Refreshed
<1>5. /\ eventGeneration' \in Generation \cup {0} /\ realtimeUnsupported' \in BOOLEAN
      /\ Reported(1) => eventGeneration' = 0
      /\ ~Reported(1) => eventGeneration' = eventGeneration
  <2>1. CASE Reported(1)
    <3>1. posted[1].generation = generation /\ eventGeneration = generation
      BY <1>1, <2>1 DEF Reported, OneListener
    <3>. QED BY <1>1, <2>1, <3>1 DEF EventArrives, TypeOK
  <2>2. CASE ~Reported(1)
    <3>1. posted[1].generation # generation
      BY <1>3, <2>2 DEF Reported
    <3>. QED BY <1>1, <2>2, <3>1 DEF EventArrives, TypeOK
  <2>. QED BY <2>1, <2>2
<1>6. TypeOK'
  BY <1>1, <1>2, <1>4, <1>5 DEF EventArrives, TypeOK, Message, shown, counters
<1>7. Paid'
  BY <1>2, <1>4, PaidBefore DEF TypeOK
<1>8. ListenersKnown' /\ ShownIsOfRoom'
  BY <1>2 DEF ListenersKnown, ShownIsOfRoom
<1>9. MessagesKnown'
  BY <1>1, <1>2 DEF MessagesKnown
<1>10. OneListener'
  <2>1. /\ \A i \in DOMAIN posted' : Reported(i)' <=> Reported(i + 1)
        /\ \A l \in Thread : Waiting(l)' <=> Waiting(l)
    BY <1>1, <1>2 DEF Reported, Waiting
  <2>2. \A i, j \in DOMAIN posted' : Reported(i)' /\ Reported(j)' => i = j
    BY <1>1, <2>1 DEF OneListener
  <2>3. CASE Reported(1)
    <3>1. (\A l \in Thread : ~Waiting(l)) /\ \A i \in DOMAIN posted : Reported(i) => i = 1
      BY <1>1, <2>3 DEF OneListener
    <3>2. \A i \in DOMAIN posted' : ~Reported(i)'
      BY <1>1, <2>1, <3>1
    <3>3. generation # 0
      BY DesktopAssumption DEF TypeOK, Generation
    <3>. QED BY <1>2, <1>5, <2>1, <2>3, <3>1, <3>2, <3>3 DEF OneListener
  <2>4. CASE ~Reported(1)
    <3>1. (\E i \in DOMAIN posted' : Reported(i)') <=> \E i \in DOMAIN posted : Reported(i)
      BY <1>1, <2>1, <2>4
    <3>. QED BY <1>1, <1>2, <1>5, <2>1, <2>2, <2>4, <3>1 DEF OneListener
  <2>. QED BY <2>3, <2>4
<1>. QED BY <1>4, <1>6, <1>7, <1>8, <1>9, <1>10

-----------------------------------------------------------------------------
LEMMA InitInvariant == Init => IInv
<1> SUFFICES ASSUME Init PROVE IInv
  OBVIOUS
<1>1. /\ version = [r \in Room |-> 0] /\ room = First /\ generation = 1 /\ eventGeneration = 1
      /\ refreshActive = TRUE /\ realtimeUnsupported = FALSE /\ recent = FALSE /\ posted = <<>>
      /\ webSockets \in BOOLEAN /\ events = 0
  BY DEF Init
<1>2. 0 \in Version /\ 1 \in Generation /\ 1 \in Thread
  BY DesktopAssumption DEF Version, Generation, Thread
<1>3. /\ NewTask(FALSE, 1, room) \in Task /\ NewTask(FALSE, 1, room) # Free
      /\ NewEventTask(1, room) \in EventTask /\ NewEventTask(1, room) # Free
  <2>1. NewTask(FALSE, 1, room) \in Task
    BY <1>1, <1>2, DesktopAssumption DEF NewTask, Task
  <2>2. NewEventTask(1, room) \in EventTask
    BY <1>1, <1>2, DesktopAssumption DEF NewEventTask, EventTask
  <2>. QED BY <2>1, <2>2, DesktopAssumption
<1>4. /\ worker \in [Thread -> Task \cup {Free}] /\ worker[1] = NewTask(FALSE, 1, room)
      /\ \A w \in Thread : w # 1 => worker[w] = Free
      /\ listener \in [Thread -> EventTask \cup {Free}] /\ listener[1] = NewEventTask(1, room)
      /\ \A l \in Thread : l # 1 => listener[l] = Free
  BY <1>2, <1>3 DEF Init
<1>5. cache \in Snapshot \cup {Nothing}
  BY <1>2, DesktopAssumption DEF Init, Snapshot
<1>6. history \in Snapshot \cup {Nothing} /\ ShownIsOfRoom
  BY <1>5 DEF Init, LoadHistoryCache, ShownIsOfRoom
<1>7. posted \in Seq(NetworkMessage \cup EventMessage) /\ DOMAIN posted = {}
  BY <1>1
<1>8. TypeOK
  <2>1. version \in [Room -> Version] /\ events \in 0 .. MaxEvents
    BY <1>1, <1>2, DesktopAssumption
  <2>2. refreshActive \in BOOLEAN /\ realtimeUnsupported \in BOOLEAN /\ recent \in BOOLEAN
    BY <1>1
  <2>. QED BY <1>1, <1>2, <1>4, <1>5, <1>6, <1>7, <2>1, <2>2, DesktopAssumption DEF TypeOK
<1>9. Paid
  <2>1. \A r : Sending(r) = {}
    BY <1>4 DEF Sending, NewTask
  <2>2. \A r : Cardinality(Sending(r)) = 0
    BY <2>1, FS_EmptySet
  <2>. QED BY <1>1, <2>2 DEF Paid
<1>10. WorkersKnown /\ ListenersKnown /\ MessagesKnown
  BY <1>1, <1>4, <1>7 DEF WorkersKnown, ListenersKnown, MessagesKnown, NewTask, NewEventTask
<1>11. RefreshAccounted
  BY <1>1, <1>2, <1>3, <1>4 DEF RefreshAccounted, Unreleased, NewTask
<1>12. OneListener
  BY <1>1, <1>2, <1>3, <1>4, <1>7 DEF OneListener, Waiting, Reported, NewEventTask
<1>. QED BY <1>6, <1>8, <1>9, <1>10, <1>11, <1>12 DEF IInv

LEMMA StutterKeeps ==
  ASSUME IInv, UNCHANGED vars
  PROVE  IInv'
BY DEF vars, globals, shown, threads, counters, IInv, TypeOK, WorkersKnown, ListenersKnown,
    MessagesKnown, Paid, Sending, ShownIsOfRoom, RefreshAccounted, Unreleased, OneListener, Waiting,
    Reported

LEMMA Invariance == IInv /\ [Next]_vars => IInv'
<1> SUFFICES ASSUME IInv, [Next]_vars PROVE IInv'
  OBVIOUS
<1>. QED
  BY SaveKeeps, HotkeyKeeps, TimerKeeps, ThirtySecondsKeep, NetworkArrivesKeeps, EventArrivesKeeps,
     NetworkWorkerKeeps, EventWorkerKeeps, OthersKeep, StutterKeeps
  DEF Next

LEMMA Invariant == Spec => []IInv
BY InitInvariant, Invariance, PTL DEF Spec

(* Every state of the client has the type it says: in particular what is   *)
(* shown is a version of a room, never the answer to a request that failed.*)
THEOREM TypeCorrect == Spec => []TypeOK
BY Invariant, PTL DEF IInv

(* Whatever older threads still post and whatever is in the file, the      *)
(* window shows and inserts messages of the room that is set.              *)
THEOREM RoomsDoNotMix == Spec => []ShownIsOfRoom
BY Invariant, PTL DEF IInv

(* refreshActive is set exactly while one thread will reset it: refreshes  *)
(* exclude each other, and none locks out all that come after.             *)
THEOREM RefreshesExclude == Spec => []RefreshAccounted
BY Invariant, PTL DEF IInv

(* The room has one listener at most, and eventGeneration is set exactly   *)
(* while there is one or what it has heard is not handled.                 *)
THEOREM RoomHasOneListener == Spec => []OneListener
BY Invariant, PTL DEF IInv
=============================================================================
