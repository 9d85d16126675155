------------------------------ MODULE Readiness ------------------------------
(***************************************************************************)
(* GET /readyz.  A request gets the last result if it is less than a       *)
(* second old and waits otherwise for the probe that is under way, which   *)
(* it starts if there is none; it waits two seconds at most.  The probe    *)
(* belongs to no request: it reads the database, for a second and a half   *)
(* at most, and writes to the file store, for which it takes the lock that *)
(* every request shares and that a cleanup pass holds alone.               *)
(*                                                                         *)
(* Time goes by in half seconds, and only while everybody waits: what no   *)
(* lock, no deadline and no slow database holds up takes no time.          *)
(***************************************************************************)
EXTENDS Naturals

CONSTANTS
  Request,    \* requests under way at once
  Probe,      \* channels, one for each probe
  NoChannel

Second == 2                   \* ticks
CacheFor == Second            \* a result is given out for a second
AnswerWithin == 2 * Second    \* deadline of a request
PingWithin == 3               \* deadline of the database's answer

ASSUME ReadinessAssumption == NoChannel \notin Probe

VARIABLES
  readinessErr,  \* the last result was a failure
  readinessAt,   \* ticks since then
  readinessDone, \* the channel of the probe under way, or NoChannel
  stage,         \* where the goroutine of a probe is
  failed,        \* what it has seen so far
  pinged,        \* ticks it has waited for the database
  closed,        \* channels that are closed
  request,       \* "idle", "waiting", "ready" or "refused"
  on,            \* the channel a request waits on
  waited,        \* ticks it has waited
  db,            \* "up", "busy" (answers too late) or "down"
  writable,      \* the file store can be written to
  pass,          \* a cleanup pass holds the lifecycle lock
  (* history: ticks since each of them was last as it should be *)
  filesDown, good

readiness == <<readinessErr, readinessAt, readinessDone>>
probes == <<stage, failed, pinged, closed>>
requests == <<request, on, waited>>
world == <<db, writable, pass>>
ages == <<filesDown, good>>
readyVars == <<readiness, probes, requests, world, ages>>

Stage == {"free", "ping", "begin", "check", "publish"}

ReadyTypeOK ==
  /\ readinessErr \in BOOLEAN /\ readinessAt \in 0 .. CacheFor
  /\ readinessDone \in Probe \cup {NoChannel}
  /\ stage \in [Probe -> Stage] /\ failed \in [Probe -> BOOLEAN]
  /\ pinged \in [Probe -> 0 .. PingWithin] /\ closed \subseteq Probe
  /\ request \in [Request -> {"idle", "waiting", "ready", "refused"}]
  /\ on \in [Request -> Probe \cup {NoChannel}]
  /\ waited \in [Request -> 0 .. AnswerWithin]
  /\ \A r \in Request : request[r] = "waiting" <=> on[r] # NoChannel
  /\ db \in {"up", "busy", "down"} /\ writable \in BOOLEAN /\ pass \in BOOLEAN
  /\ filesDown \in 0 .. Second /\ good \in 0 .. Second

ReadyInit ==
  /\ readinessErr = FALSE /\ readinessAt = CacheFor /\ readinessDone = NoChannel
  /\ stage = [p \in Probe |-> "free"] /\ failed = [p \in Probe |-> FALSE]
  /\ pinged = [p \in Probe |-> 0] /\ closed = {}
  /\ request = [r \in Request |-> "idle"] /\ on = [r \in Request |-> NoChannel]
  /\ waited = [r \in Request |-> 0]
  /\ db = "up" /\ writable = TRUE /\ pass = FALSE
  /\ filesDown = 0 /\ good = 0

Outcome(err) == IF err THEN "refused" ELSE "ready"

-----------------------------------------------------------------------------
(* The requests. *)

(* Slip: a failure that stays.                                             *)
FreshSlip == readinessAt < CacheFor \/ readinessErr

Fresh == readinessAt < CacheFor

AskFresh(r) ==
  /\ Fresh
  /\ request' = [request EXCEPT ![r] = Outcome(readinessErr)]
  /\ UNCHANGED <<on, waited, readiness, probes>>

Join(r, p) ==
  /\ request' = [request EXCEPT ![r] = "waiting"]
  /\ on' = [on EXCEPT ![r] = p]
  /\ waited' = [waited EXCEPT ![r] = 0]

(* Slip: nobody looks whether there is a channel to wait on. *)
AskJoinSlip(r) ==
  /\ ~Fresh
  /\ Join(r, readinessDone)
  /\ UNCHANGED <<readiness, probes>>

AskJoin(r) ==
  /\ ~Fresh /\ readinessDone # NoChannel
  /\ Join(r, readinessDone)
  /\ UNCHANGED <<readiness, probes>>

(* A new channel: nobody waits on it any more. *)
Unused(p) == stage[p] = "free" /\ p # readinessDone /\ \A r \in Request : on[r] # p

StartProbe(r, p) ==
  /\ Unused(p)
  /\ Join(r, p)
  /\ readinessDone' = p
  /\ stage' = [stage EXCEPT ![p] = "ping"]
  /\ UNCHANGED <<failed, pinged, closed, readinessErr, readinessAt>>

(* Slip: every question starts a probe of its own. *)
AskStartSlip(r) == ~Fresh /\ \E p \in Probe : StartProbe(r, p)

AskStart(r) == ~Fresh /\ readinessDone = NoChannel /\ \E p \in Probe : StartProbe(r, p)

(* ready, up to its wait: all of it under readinessMu *)
Ask(r) ==
  /\ request[r] = "idle"
  /\ AskFresh(r) \/ AskJoin(r) \/ AskStart(r)
  /\ UNCHANGED <<world, ages>>

Waiters(p) == {r \in Request : on[r] = p}

(* The request lets go of its channel, which ends with its last reference. *)
Drop(r) ==
  /\ on' = [on EXCEPT ![r] = NoChannel]
  /\ waited' = [waited EXCEPT ![r] = 0]
  /\ closed' = {p \in closed : Waiters(p) # {r}}

Answer(r, outcome) ==
  /\ request[r] = "waiting"
  /\ request' = [request EXCEPT ![r] = outcome]
  /\ Drop(r)
  /\ UNCHANGED <<readiness, stage, failed, pinged, world, ages>>

Wake(r) == on[r] \in closed /\ Answer(r, Outcome(readinessErr))

(* Slip: the deadline wakes only who could go on anyway. *)
LateSlip(r) == on[r] \in closed /\ waited[r] = AnswerWithin /\ Answer(r, "refused")

Late(r) == waited[r] = AnswerWithin /\ Answer(r, "refused")

(* The client has its answer, or has gone before. *)
Leave(r) ==
  /\ request[r] # "idle"
  /\ request' = [request EXCEPT ![r] = "idle"]
  /\ Drop(r)
  /\ UNCHANGED <<readiness, stage, failed, pinged, world, ages>>

-----------------------------------------------------------------------------
(* The probe. *)

ProbeGoes(p, from, to, err) ==
  /\ stage[p] = from
  /\ stage' = [stage EXCEPT ![p] = to]
  /\ failed' = [failed EXCEPT ![p] = err]
  /\ pinged' = [pinged EXCEPT ![p] = 0]
  /\ UNCHANGED <<closed, readiness, requests, world, ages>>

PingAnswers(p) == db = "up" /\ ProbeGoes(p, "ping", "begin", FALSE)

PingFails(p) ==
  /\ db = "down" \/ (db = "busy" /\ pinged[p] = PingWithin)
  /\ ProbeGoes(p, "ping", "publish", TRUE)

BeginCheck(p) == ~pass /\ ProbeGoes(p, "begin", "check", FALSE)

Check(p) == ProbeGoes(p, "check", "publish", ~writable)

(* Slip: a failed probe leaves its channel open. *)
PublishSlip(p) ==
  /\ stage[p] = "publish"
  /\ readinessErr' = failed[p] /\ readinessAt' = 0 /\ readinessDone' = NoChannel
  /\ closed' = IF failed[p] \/ Waiters(p) = {} THEN closed ELSE closed \cup {p}
  /\ stage' = [stage EXCEPT ![p] = "free"]
  /\ failed' = [failed EXCEPT ![p] = FALSE]
  /\ UNCHANGED <<pinged, requests, world, ages>>

Publish(p) ==
  /\ stage[p] = "publish"
  /\ readinessErr' = failed[p] /\ readinessAt' = 0 /\ readinessDone' = NoChannel
  /\ closed' = IF Waiters(p) = {} THEN closed ELSE closed \cup {p}
  /\ stage' = [stage EXCEPT ![p] = "free"]
  /\ failed' = [failed EXCEPT ![p] = FALSE]
  /\ UNCHANGED <<pinged, requests, world, ages>>

-----------------------------------------------------------------------------
(* The world: the database, the file system, the cleanup pass, the clock.  *)

Good(d, w, x) == d = "up" /\ w /\ ~x

Change(d, w, x) ==
  /\ db' = d /\ writable' = w /\ pass' = x
  /\ filesDown' = IF w THEN 0 ELSE filesDown
  /\ good' = IF Good(d, w, x) THEN good ELSE 0
  /\ UNCHANGED <<readiness, probes, requests>>

Database == \E d \in {"up", "busy", "down"} \ {db} : Change(d, writable, pass)

FileSystem == Change(db, ~writable, pass)

(* A pass has to wait for the requests, the check of the probe among them. *)
Pass == (\A p \in Probe : stage[p] # "check") /\ Change(db, writable, ~pass)

Blocked(p) ==
  \/ stage[p] = "free"
  \/ stage[p] = "ping" /\ db = "busy" /\ pinged[p] < PingWithin
  \/ stage[p] = "begin" /\ pass

Quiet ==
  /\ \A p \in Probe : Blocked(p)
  /\ \A r \in Request : request[r] = "waiting" =>
       on[r] \notin closed /\ waited[r] < AnswerWithin

Older(n, most) == IF n < most THEN n + 1 ELSE most

Tick ==
  /\ Quiet
  /\ readinessAt' = Older(readinessAt, CacheFor)
  /\ pinged' = [p \in Probe |-> IF stage[p] = "ping" THEN pinged[p] + 1 ELSE pinged[p]]
  /\ waited' = [r \in Request |-> IF request[r] = "waiting" THEN waited[r] + 1 ELSE waited[r]]
  /\ filesDown' = IF writable THEN 0 ELSE Older(filesDown, Second)
  /\ good' = IF Good(db, writable, pass) THEN Older(good, Second) ELSE 0
  /\ UNCHANGED <<readinessErr, readinessDone, stage, failed, closed, request, on, world>>

Handler(r) == Wake(r) \/ Late(r)
Goroutine(p) == PingAnswers(p) \/ PingFails(p) \/ BeginCheck(p) \/ Check(p) \/ Publish(p)

ReadyNext ==
  \/ \E r \in Request : Ask(r) \/ Wake(r) \/ Late(r) \/ Leave(r)
  \/ \E p \in Probe :
       PingAnswers(p) \/ PingFails(p) \/ BeginCheck(p) \/ Check(p) \/ Publish(p)
  \/ Database \/ FileSystem \/ Pass \/ Tick

ReadySpec == ReadyInit /\ [][ReadyNext]_readyVars

(* Goroutines run, and time does not stand still however much happens.     *)
(* Nobody has to ask; a pass, a failure of the disk may last for ever.     *)
ReadyFairness ==
  /\ \A r \in Request : WF_readyVars(Handler(r))
  /\ \A p \in Probe : WF_readyVars(Goroutine(p))
  /\ SF_readyVars(Tick)

ReadyFairSpec == ReadySpec /\ ReadyFairness

-----------------------------------------------------------------------------
(* Properties.                                                             *)

(* However requests overlap there is one probe, which is the one that      *)
(* readinessDone names: slow storage is not asked again and again.         *)
OneProbe == \A p \in Probe : stage[p] # "free" <=> p = readinessDone

(* Nobody waits on a channel that nobody will close.                       *)
NobodyForgotten ==
  \A r \in Request :
    request[r] = "waiting" => on[r] = readinessDone \/ on[r] \in closed

Answered(outcome) ==
  \E r \in Request : request[r] # outcome /\ request'[r] = outcome

(* No answer without a cause, whatever probe, cache or channel it is from. *)
(* "Ready" means that the file store could be written to less than a       *)
(* second ago, "not ready" that there was a reason less than a second ago: *)
(* the server is ready a second after everything works again.              *)
AnsweredForCause ==
  [][/\ Answered("ready") => filesDown < Second
     /\ Answered("refused") => good < Second]_readyVars

(* Every request is answered, even while the probe cannot go on.           *)
EveryAnswer ==
  \A r \in Request : request[r] = "waiting" ~> request[r] # "waiting"
=============================================================================
