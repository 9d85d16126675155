----------------------------- MODULE ServiceProofs -----------------------------
(***************************************************************************)
(* The service as its host sees it: whether it says that it is ready       *)
(* (Readiness), and how it is installed, upgraded and rolled back          *)
(* (Installation).  The two share nothing but this module.                 *)
(***************************************************************************)
EXTENDS Readiness, Installation, TLAPS

(* Readiness, for any number of requests and channels.                     *)
USE DEF Second, CacheFor, AnswerWithin, PingWithin

(* Ages are counted from when the thing was last as it should be.          *)
Ages ==
  /\ ~Good(db, writable, pass) => good = 0
  /\ writable => filesDown = 0

(* What the last probe has found was so when it ended, readinessAt ago.    *)
ResultTrue == IF readinessErr THEN good <= readinessAt ELSE filesDown <= readinessAt

(* What a probe that is about to end has found is so now.                  *)
FindingTrue ==
  \A p \in Probe : stage[p] = "publish" => IF failed[p] THEN good = 0 ELSE filesDown = 0

(* A channel is closed while somebody has yet to wake up, which takes no   *)
(* time.                                                                   *)
ClosedNow ==
  /\ closed # {} => readinessAt = 0
  /\ \A p \in closed : \E r \in Request : on[r] = p

(* Waiting takes time only while something keeps the probe waiting.        *)
WaitedForCause ==
  \A r \in Request : waited[r] > 0 => request[r] = "waiting" /\ good = 0

ReadyInv ==
  /\ ReadyTypeOK /\ OneProbe /\ NobodyForgotten
  /\ Ages /\ ResultTrue /\ FindingTrue /\ ClosedNow /\ WaitedForCause

-----------------------------------------------------------------------------
(* Nothing has been asked.                                                 *)
LEMMA ReadyInitInvariant == ReadyInit => ReadyInv
<1> SUFFICES ASSUME ReadyInit PROVE ReadyInv
  OBVIOUS
<1>1. ReadyTypeOK
  <2>1. readinessErr \in BOOLEAN /\ writable \in BOOLEAN /\ pass \in BOOLEAN
    BY DEF ReadyInit
  <2>2. failed \in [Probe -> BOOLEAN]
    BY DEF ReadyInit
  <2>3. /\ stage \in [Probe -> Stage] /\ pinged \in [Probe -> 0 .. PingWithin]
        /\ request \in [Request -> {"idle", "waiting", "ready", "refused"}]
        /\ on \in [Request -> Probe \cup {NoChannel}] /\ waited \in [Request -> 0 .. AnswerWithin]
    BY DEF ReadyInit, Stage
  <2>4. \A r \in Request : request[r] # "waiting" /\ on[r] = NoChannel
    BY DEF ReadyInit
  <2>. QED BY <2>1, <2>2, <2>3, <2>4 DEF ReadyInit, ReadyTypeOK
<1>2. OneProbe /\ NobodyForgotten
  BY ReadinessAssumption DEF ReadyInit, OneProbe, NobodyForgotten
<1>3. Ages /\ ResultTrue /\ FindingTrue
  BY DEF ReadyInit, Ages, Good, ResultTrue, FindingTrue
<1>4. ClosedNow /\ WaitedForCause
  BY DEF ReadyInit, ClosedNow, WaitedForCause
<1>. QED BY <1>1, <1>2, <1>3, <1>4 DEF ReadyInv

(* A request that comes.                                                   *)
LEMMA AskKeeps ==
  ASSUME ReadyInv, NEW r \in Request, Ask(r)
  PROVE  ReadyInv'
<1>. USE DEF ReadyInv
<1>1. CASE AskFresh(r)
  BY <1>1 DEF AskFresh, Ask, Outcome, ReadyTypeOK, OneProbe, NobodyForgotten, Ages,
       ResultTrue, FindingTrue, ClosedNow, WaitedForCause, world, ages, readiness, probes
<1>2. CASE AskJoin(r)
  <2>1. readinessDone \in Probe
    BY <1>2 DEF AskJoin, ReadyTypeOK
  <2>2. ReadyTypeOK' /\ OneProbe' /\ NobodyForgotten'
    BY <1>2, <2>1, ReadinessAssumption DEF AskJoin, Join, Ask, ReadyTypeOK, OneProbe,
         NobodyForgotten, world, ages, readiness, probes
  <2>3. \A p \in closed : \E q \in Request : on'[q] = p
    BY <1>2, <2>1, ReadinessAssumption DEF AskJoin, Join, Ask, ReadyTypeOK, ClosedNow
  <2>. QED BY <1>2, <2>2, <2>3 DEF AskJoin, Join, Ask, ReadyTypeOK, Ages, ResultTrue,
       FindingTrue, ClosedNow, WaitedForCause, world, ages, readiness, probes
<1>3. ASSUME NEW p \in Probe, AskStart(r), StartProbe(r, p)
      PROVE  ReadyInv'
  BY <1>3, ReadinessAssumption
  DEF AskStart, StartProbe, Unused, Join, Ask, ReadyTypeOK, OneProbe, NobodyForgotten, Ages, ResultTrue,
     FindingTrue, ClosedNow, WaitedForCause, Stage, world, ages
<1>. QED BY <1>1, <1>2, <1>3 DEF Ask, AskStart

(* A request that has its answer, is late or is given up.                  *)
LEMMA DropKeeps ==
  ASSUME ReadyInv, NEW r \in Request, request[r] # "idle", Drop(r),
         NEW s \in {"idle", "ready", "refused"}, request' = [request EXCEPT ![r] = s],
         UNCHANGED <<readiness, stage, failed, pinged, world, ages>>
  PROVE  ReadyInv'
<1>. USE DEF ReadyInv
<1>1. ReadyTypeOK'
  BY ReadinessAssumption DEF Drop, ReadyTypeOK, readiness, world, ages
<1>2. \A q \in Request : q # r => on'[q] = on[q] /\ request'[q] = request[q] /\ waited'[q] = waited[q]
  BY DEF Drop, ReadyTypeOK
<1>3. on'[r] = NoChannel /\ request'[r] = s /\ waited'[r] = 0
  BY DEF Drop, ReadyTypeOK
<1>4. closed' \subseteq closed /\ \A q \in Request : q # r /\ on[q] \in closed => on[q] \in closed'
  BY DEF Drop, Waiters
<1>5. NobodyForgotten'
  BY <1>2, <1>3, <1>4 DEF NobodyForgotten, readiness
<1>6. \A p \in closed' : \E q \in Request : on'[q] = p
  <2>1. TAKE p \in closed'
  <2>2. PICK q \in Request : on[q] = p
    BY <2>1, <1>4 DEF ClosedNow
  <2>3. Waiters(p) # {r}
    BY <2>1 DEF Drop
  <2>4. PICK u \in Request : on[u] = p /\ u # r
    BY <2>2, <2>3 DEF Waiters
  <2>. QED BY <2>4, <1>2
<1>7. ClosedNow'
  BY <1>4, <1>6 DEF ClosedNow, readiness
<1>8. WaitedForCause'
  BY <1>2, <1>3 DEF WaitedForCause, ages
<1>. QED BY <1>1, <1>5, <1>7, <1>8 DEF OneProbe, Ages, ResultTrue, FindingTrue, readiness, world, ages

(* A waiter is woken up, gives up at its deadline, or goes away.           *)
LEMMA HandlerKeeps ==
  ASSUME ReadyInv, NEW r \in Request, Wake(r) \/ Late(r) \/ Leave(r)
  PROVE  ReadyInv'
<1>1. CASE Wake(r)
  BY <1>1, DropKeeps DEF Wake, Answer, Outcome
<1>2. CASE Late(r)
  BY <1>2, DropKeeps DEF Late, Answer
<1>3. CASE Leave(r)
  BY <1>3, DropKeeps DEF Leave
<1>. QED BY <1>1, <1>2, <1>3

(* The goroutine of a probe goes on, knowing what it has found.            *)
LEMMA ProbeGoesKeeps ==
  ASSUME ReadyInv, NEW p \in Probe, NEW from \in Stage \ {"free"}, NEW to \in Stage \ {"free"},
         NEW err \in BOOLEAN, ProbeGoes(p, from, to, err),
         to = "publish" => IF err THEN good = 0 ELSE filesDown = 0
  PROVE  ReadyInv'
<1>. USE DEF ReadyInv
<1>1. /\ stage[p] # "free" /\ stage' = [stage EXCEPT ![p] = to]
      /\ failed' = [failed EXCEPT ![p] = err]
      /\ UNCHANGED <<closed, readiness, requests, world, ages>>
  BY DEF ProbeGoes, Stage
<1>2. failed' \in [Probe -> BOOLEAN]
  BY <1>1 DEF ReadyTypeOK
<1>3. pinged' \in [Probe -> 0 .. PingWithin]
  BY DEF ProbeGoes, ReadyTypeOK
<1>4. ReadyTypeOK'
  BY <1>1, <1>2, <1>3 DEF ReadyTypeOK, readiness, requests, world, ages
<1>5. OneProbe' /\ FindingTrue'
  BY <1>1 DEF OneProbe, FindingTrue, ReadyTypeOK, readiness, ages
<1>. QED BY <1>1, <1>4, <1>5 DEF NobodyForgotten, Ages, ResultTrue, ClosedNow,
     WaitedForCause, readiness, requests, world, ages

(* The stages of a probe before its result is given out.                   *)
LEMMA ProbeKeeps ==
  ASSUME ReadyInv, NEW p \in Probe, PingAnswers(p) \/ PingFails(p) \/ BeginCheck(p) \/ Check(p)
  PROVE  ReadyInv'
<1>1. CASE PingAnswers(p)
  BY <1>1, ProbeGoesKeeps DEF PingAnswers, Stage
<1>2. CASE PingFails(p)
  BY <1>2, ProbeGoesKeeps DEF PingFails, Stage, ReadyInv, Ages, Good
<1>3. CASE BeginCheck(p)
  BY <1>3, ProbeGoesKeeps DEF BeginCheck, Stage
<1>4. CASE Check(p)
  <2>1. (~writable) \in BOOLEAN
    OBVIOUS
  <2>2. IF ~writable THEN good = 0 ELSE filesDown = 0
    BY DEF ReadyInv, Ages, Good
  <2>. QED BY <1>4, <2>1, <2>2, ProbeGoesKeeps DEF Check, Stage
<1>. QED BY <1>1, <1>2, <1>3, <1>4

(* ... and when it gives out its result: it is true now.                   *)
LEMMA PublishKeeps ==
  ASSUME ReadyInv, NEW p \in Probe, Publish(p)
  PROVE  ReadyInv'
<1>. USE DEF ReadyInv
<1>1. p = readinessDone
  BY DEF Publish, OneProbe
<1>2. failed' \in [Probe -> BOOLEAN]
  BY DEF Publish, ReadyTypeOK
<1>3. readinessErr' \in BOOLEAN
  BY DEF Publish, ReadyTypeOK
<1>4. ReadyTypeOK'
  BY <1>2, <1>3 DEF Publish, ReadyTypeOK, Stage, requests, world, ages
<1>5. OneProbe' /\ FindingTrue'
  BY <1>1, ReadinessAssumption DEF Publish, OneProbe, FindingTrue, ReadyTypeOK, ages
<1>6. ResultTrue'
  BY DEF Publish, FindingTrue, ResultTrue, ReadyTypeOK, ages
<1>7. NobodyForgotten' /\ ClosedNow'
  BY <1>1 DEF Publish, NobodyForgotten, ClosedNow, Waiters, requests
<1>. QED BY <1>4, <1>5, <1>6, <1>7 DEF Publish, Ages, WaitedForCause, requests, world, ages

(* The world changes: a bad moment starts the count of good ones again.    *)
LEMMA ChangeKeeps ==
  ASSUME ReadyInv, NEW d \in {"up", "busy", "down"}, NEW w \in BOOLEAN, NEW x \in BOOLEAN, Change(d, w, x)
  PROVE  ReadyInv'
<1>. USE DEF ReadyInv
<1>1. ReadyTypeOK'
  BY DEF Change, ReadyTypeOK, readiness, probes, requests
<1>2. Ages' /\ filesDown' \in {0, filesDown} /\ good' \in {0, good}
  BY DEF Change, Ages, Good
<1>3. ResultTrue' /\ FindingTrue' /\ WaitedForCause'
  BY <1>2 DEF Change, ResultTrue, FindingTrue, WaitedForCause, ReadyTypeOK, readiness, probes, requests
<1>. QED BY <1>1, <1>2, <1>3 DEF Change, OneProbe, NobodyForgotten, ClosedNow, readiness, probes, requests

(* Time passes: who waits then waits for a probe that something holds up.  *)
LEMMA TickKeeps ==
  ASSUME ReadyInv, Tick
  PROVE  ReadyInv'
<1>. USE DEF ReadyInv
<1>1. /\ readinessAt' = Older(readinessAt, CacheFor)
      /\ filesDown' = IF writable THEN 0 ELSE Older(filesDown, Second)
      /\ good' = IF Good(db, writable, pass) THEN Older(good, Second) ELSE 0
      /\ UNCHANGED <<readinessErr, readinessDone, stage, failed, closed, request, on, world>>
  BY DEF Tick
<1>2. closed = {}
  BY ReadinessAssumption DEF Tick, Quiet, ClosedNow, ReadyTypeOK
<1>3. \A p \in Probe : stage[p] # "publish"
  BY DEF Tick, Quiet, Blocked
<1>4. ASSUME NEW r \in Request, request[r] = "waiting" PROVE good' = 0
  <2>1. on[r] = readinessDone /\ readinessDone \in Probe
    BY <1>2, <1>4 DEF NobodyForgotten, ReadyTypeOK
  <2>2. Blocked(readinessDone) /\ stage[readinessDone] # "free"
    BY <2>1 DEF Tick, Quiet, OneProbe
  <2>. QED BY <1>1, <2>2 DEF Blocked, Good
<1>5. pinged' \in [Probe -> 0 .. PingWithin]
  BY DEF Tick, Quiet, Blocked, ReadyTypeOK
<1>6. waited' \in [Request -> 0 .. AnswerWithin]
  BY DEF Tick, Quiet, ReadyTypeOK
<1>7. ReadyTypeOK'
  BY <1>1, <1>5, <1>6 DEF ReadyTypeOK, Older, world
<1>8. Ages' /\ ResultTrue'
  BY <1>1 DEF Ages, ResultTrue, Older, ReadyTypeOK, world
<1>9. WaitedForCause'
  <2>1. ASSUME NEW r \in Request, waited'[r] > 0 PROVE request[r] = "waiting"
    BY <2>1 DEF Tick, WaitedForCause
  <2>. QED BY <1>1, <1>4, <2>1 DEF WaitedForCause
<1>. QED BY <1>1, <1>2, <1>3, <1>7, <1>8, <1>9 DEF OneProbe, NobodyForgotten, FindingTrue, ClosedNow

(* Every step of the readiness probe and of the world around it.           *)
LEMMA ReadyInductive == ReadyInv /\ [ReadyNext]_readyVars => ReadyInv'
<1> SUFFICES ASSUME ReadyInv, [ReadyNext]_readyVars PROVE ReadyInv'
  OBVIOUS
<1>1. CASE Database \/ FileSystem \/ Pass
  BY <1>1, ChangeKeeps DEF Database, FileSystem, Pass, ReadyInv, ReadyTypeOK
<1>2. CASE UNCHANGED readyVars
  BY <1>2 DEF ReadyInv, ReadyTypeOK, OneProbe, NobodyForgotten, Ages, ResultTrue,
       FindingTrue, ClosedNow, WaitedForCause, readyVars, readiness, probes, requests,
       world, ages
<1>. QED BY <1>1, <1>2, AskKeeps, HandlerKeeps, ProbeKeeps, PublishKeeps, TickKeeps DEF ReadyNext

LEMMA ReadyInvariant == ReadySpec => []ReadyInv
BY ReadyInitInvariant, ReadyInductive, PTL DEF ReadySpec

(* Every variable keeps its type: a probe waits for the database no        *)
(* longer than its deadline, a request no longer than its own, and a       *)
(* request waits exactly while it holds a channel.                         *)
THEOREM ReadyTypeCorrect == ReadySpec => []ReadyTypeOK
BY ReadyInvariant, PTL DEF ReadyInv

(* However many requests ask at once there is one probe at a time, and     *)
(* readinessDone is its channel.                                           *)
THEOREM ProbesExclude == ReadySpec => []OneProbe
BY ReadyInvariant, PTL DEF ReadyInv

(* No request waits on a channel that nobody will close: it is that of     *)
(* the probe under way, or closed already.                                 *)
THEOREM WaitersAreKnown == ReadySpec => []NobodyForgotten
BY ReadyInvariant, PTL DEF ReadyInv

(* Whatever cache, channel or deadline an answer comes from, "ready"       *)
(* means that the file store could be written to within the last second,   *)
(* "not ready" that something was wrong within it.                         *)
THEOREM AnswersHaveCause == ReadySpec => AnsweredForCause
<1>. DEFINE A == /\ Answered("ready") => filesDown < Second
                 /\ Answered("refused") => good < Second
<1>1. ASSUME ReadyInv, ReadyNext, NEW r \in Request, NEW s \in {"ready", "refused"},
             request[r] # s, request'[r] = s
      PROVE  IF s = "ready" THEN filesDown < Second ELSE good < Second
  <2>. USE DEF ReadyInv
  <2>1. CASE AskFresh(r)
    BY <1>1, <2>1 DEF AskFresh, Fresh, Outcome, ResultTrue, ReadyTypeOK
  <2>2. CASE Wake(r)
    BY <1>1, <2>2 DEF Wake, Answer, Outcome, ClosedNow, ResultTrue, ReadyTypeOK
  <2>3. CASE Late(r)
    BY <1>1, <2>3 DEF Late, Answer, WaitedForCause, ReadyTypeOK
  <2>4. ASSUME NEW q \in Request, Ask(q) \/ Wake(q) \/ Late(q) \/ Leave(q)
        PROVE  q = r /\ (AskFresh(r) \/ Wake(r) \/ Late(r))
    BY <1>1, <2>4 DEF Ask, AskFresh, AskJoin, AskStart, StartProbe, Join, Wake, Late,
         Answer, Leave, ReadyTypeOK
  <2>5. ~UNCHANGED request
    BY <1>1
  <2>. QED BY <1>1, <2>1, <2>2, <2>3, <2>4, <2>5
       DEF ReadyNext, PingAnswers, PingFails, BeginCheck, Check, ProbeGoes, Publish, Database, FileSystem,
           Pass, Change, Tick, requests
<1>2. ASSUME ReadyInv, [ReadyNext]_readyVars PROVE [A]_readyVars
  BY <1>1, <1>2 DEF Answered
<1>. QED BY <1>2, ReadyInvariant, PTL DEF ReadySpec, AnsweredForCause

-----------------------------------------------------------------------------
(* Installation, for any releases and schemas.                             *)
(* A command is at one of its steps; while there is one, nothing has been  *)
(* rolled back.                                                            *)
AtWork ==
  /\ \/ command = None /\ step = 0
     \/ command = "install" /\ step \in 1 .. 6
     \/ command = "upgrade" /\ step \in 1 .. 6
     \/ command = "rollback" /\ step \in 1 .. 3
     \/ command = "deinstall" /\ step \in 1 .. 8 /\ (~purge => step <= 5)
  /\ command # None => outcome # "rolledBack"

(* The release from before the upgrade is where the rollback looks for it, *)
(* and in its place until the new one is copied, or the rollback has put   *)
(* it back.                                                                *)
Kept ==
  /\ command = "upgrade" =>
       /\ step \in 1 .. 2 => binary = before
       /\ step > 1 => previous = before
  /\ command = "rollback" => IF step = 1 THEN previous = before ELSE binary = before

IInv == TypeOK /\ AtWork /\ Kept /\ RolledBack

-----------------------------------------------------------------------------
(* The steps of a command, and where it stands.                            *)
LEMMA Lengths ==
  /\ Len(Steps("install")) = 6 /\ Len(Steps("upgrade")) = 6 /\ Len(Steps("rollback")) = 3
  /\ purge => Len(Steps("deinstall")) = 8
  /\ ~purge => Len(Steps("deinstall")) = 5
BY DEF Steps, UpgradeSteps, RollbackSteps

(* Where a command stands when it is at a step of that name.               *)
LEMMA Positions ==
  ASSUME IInv
  PROVE  /\ At("upgrade", "previous") => command = "upgrade" /\ step = 1
         /\ At("upgrade", "copy") => command = "upgrade" /\ step = 2
         /\ At("upgrade", "unit") => command = "upgrade" /\ step = 3
         /\ At("upgrade", "config") => command = "upgrade" /\ step = 4
         /\ At("upgrade", "reload") => command = "upgrade" /\ step = 5
         /\ At("upgrade", "restart") => command = "upgrade" /\ step = 6
         /\ At("rollback", "back") => command = "rollback" /\ step = 1
         /\ At("rollback", "reload") => command = "rollback" /\ step = 2
         /\ At("rollback", "restart") => command = "rollback" /\ step = 3
         /\ At("install", "copy") => command = "install"
BY InstallationAssumption DEF At, Steps, UpgradeSteps, RollbackSteps, IInv, AtWork, Command

(* A command ends, with success only at its last step, or goes on.         *)
LEMMA Ends ==
  ASSUME IInv, NEW how \in {"done", "failed", "rolledBack"}, End(how)
  PROVE  /\ AtWork' /\ command' = None /\ before' = before /\ commands' = commands
         /\ with' = None /\ step' = 0 /\ purge' = FALSE
         /\ repair' \in {repair, "done"} /\ outcome' \in {outcome, how}
BY DEF End, IInv, AtWork, TypeOK

LEMMA Goes ==
  ASSUME IInv, command # None, Proceed
  PROVE  /\ AtWork' /\ before' = before /\ commands' = commands
         /\ command' \in {command, None} /\ with' \in {with, None} /\ step' \in 0 .. 8
         /\ purge' \in {purge, FALSE} /\ repair' \in {repair, "done"}
         /\ outcome' \in {outcome, "done", "rolledBack"}
         /\ command' # None => step' = step + 1 /\ outcome' = outcome
         /\ command' = None /\ outcome' = "rolledBack" => command = "rollback" /\ step = 3
<1>1. CASE step = Len(Steps(command))
  <2>1. CASE command = "rollback"
    <3>1. End("rolledBack")
      BY <1>1, <2>1 DEF Proceed
    <3>. QED BY <1>1, <2>1, <3>1, Ends, Lengths
  <2>2. CASE command # "rollback"
    <3>1. End("done")
      BY <1>1, <2>2 DEF Proceed
    <3>2. outcome # "rolledBack"
      BY DEF IInv, AtWork
    <3>. QED BY <3>1, <3>2, Ends
  <2>. QED BY <2>1, <2>2
<1>2. CASE step # Len(Steps(command))
  <2>1. step' = step + 1 /\ UNCHANGED <<command, with, purge, outcome, before, repair, commands>>
    BY <1>2 DEF Proceed
  <2>2. CASE command = "deinstall"
    <3>1. step \in 1 .. 8 /\ (~purge => step <= 5)
      BY <2>2, InstallationAssumption DEF IInv, AtWork, Command
    <3>2. step + 1 \in 1 .. 8 /\ (~purge => step + 1 <= 5)
      <4>1. CASE purge
        <5>1. step # 8
          BY <1>2, <2>2, <4>1, Lengths, Zenon
        <5>. QED BY <3>1, <4>1, <5>1
      <4>2. CASE ~purge
        <5>1. step # 5
          BY <1>2, <2>2, <4>2, Lengths, Zenon
        <5>. QED BY <3>1, <4>2, <5>1
      <4>. QED BY <4>1, <4>2
    <3>3. command' = "deinstall" /\ step' = step + 1 /\ purge' = purge /\ outcome' = outcome
      BY <2>1, <2>2
    <3>4. outcome # "rolledBack"
      BY DEF IInv, AtWork
    <3>5. AtWork'
      BY <3>2, <3>3, <3>4 DEF AtWork
    <3>. QED BY <2>1, <2>2, <3>2, <3>5, InstallationAssumption DEF Command
  <2>3. CASE command \in {"install", "upgrade", "rollback"}
    <3>1. /\ command = "install" => step \in 1 .. 5
          /\ command = "upgrade" => step \in 1 .. 5
          /\ command = "rollback" => step \in 1 .. 2
      <4>1. /\ command = "install" => step # 6
            /\ command = "upgrade" => step # 6
            /\ command = "rollback" => step # 3
        BY <1>2, Lengths, Zenon
      <4>. QED BY <4>1, InstallationAssumption DEF IInv, AtWork, Command
    <3>2. outcome # "rolledBack"
      BY DEF IInv, AtWork
    <3>3. AtWork'
      BY <2>1, <2>3, <3>1, <3>2 DEF AtWork
    <3>. QED BY <2>1, <2>3, <3>1, <3>3, InstallationAssumption DEF Command
  <2>4. command \in Command
    BY DEF IInv, AtWork, Command
  <2>. QED BY <2>1, <2>2, <2>3, <2>4 DEF Command
<1>. QED BY <1>1, <1>2

(* An upgrade turns into its rollback.                                     *)
LEMMA RollsBack ==
  ASSUME IInv, command = "upgrade", RollBack
  PROVE  /\ AtWork' /\ command' = "rollback" /\ step' = 1 /\ outcome' # "rolledBack"
         /\ UNCHANGED <<with, purge, outcome, before, repair, commands>>
BY InstallationAssumption DEF RollBack, IInv, AtWork, Command

-----------------------------------------------------------------------------
(* Steps of the service leave the commands alone.                          *)
LEMMA ServiceKeeps ==
  ASSUME IInv, Launch \/ CreationBreaks \/ Crash \/ \E v \in Version : AdminCommand(v)
  PROVE  IInv'
<1>. USE DEF IInv
<1>1. CASE Launch
  <2>1. schema' \in Schema /\ process' \in {None, binary}
    BY <1>1 DEF Launch, Schema, TypeOK
  <2>. QED BY <1>1, <2>1 DEF Launch, TypeOK, AtWork, Kept, RolledBack, operator
<1>2. CASE CreationBreaks
  <2>1. schema' \in Schema /\ faults' \in 0 .. MaxFaults
    BY <1>2, InstallationAssumption DEF CreationBreaks, Fault, Schema, TypeOK
  <2>. QED BY <1>2, <2>1 DEF CreationBreaks, TypeOK, AtWork, Kept, RolledBack, systemd, operator
<1>3. CASE Crash
  <2>1. faults' \in 0 .. MaxFaults
    BY <1>3, InstallationAssumption DEF Crash, Fault, TypeOK
  <2>. QED BY <1>3, <2>1 DEF Crash, TypeOK, AtWork, Kept, RolledBack, disk, operator
<1>4. ASSUME NEW v \in Version, AdminCommand(v) PROVE IInv'
  <2>1. schema' \in Schema
    BY <1>4 DEF AdminCommand, Schema
  <2>. QED BY <1>4, <2>1 DEF AdminCommand, TypeOK, AtWork, Kept, RolledBack, systemd, operator
<1>. QED BY <1>1, <1>2, <1>3, <1>4

(* A command begins.                                                       *)
LEMMA BeginKeeps ==
  ASSUME IInv, NEW c \in {"install", "upgrade", "deinstall"}, NEW v \in Version \cup {None},
         NEW p \in BOOLEAN, c = "upgrade" => binary \in Version, c # "deinstall" => p = FALSE, Begin(c, v, p),
         repair' \in {"no", "needed"}, commands' \in 0 .. MaxCommands
  PROVE  IInv'
<1>. USE DEF IInv
<1>1. TypeOK'
  BY DEF Begin, TypeOK, Command, disk, systemd
<1>2. AtWork' /\ Kept' /\ RolledBack'
  BY DEF Begin, AtWork, Kept, RolledBack, disk
<1>. QED BY <1>1, <1>2

LEMMA OperatorKeeps ==
  ASSUME IInv, OperatorBegins \/ StartRepair \/ Repair
  PROVE  IInv'
<1>1. CASE OperatorBegins
  <2>1. commands' \in 0 .. MaxCommands /\ repair' \in {"no", "needed"}
    BY <1>1, InstallationAssumption DEF OperatorBegins, IInv, TypeOK
  <2>. QED BY <1>1, <2>1, BeginKeeps DEF OperatorBegins, Installs, Upgrades, Deinstalls, IInv, TypeOK
<1>2. CASE StartRepair
  BY <1>2 DEF StartRepair, IInv, TypeOK, AtWork, Kept, RolledBack, disk, systemd
<1>3. CASE Repair
  <2>1. commands' \in 0 .. MaxCommands /\ repair' \in {"no", "needed"}
    BY <1>3 DEF Repair, IInv, TypeOK
  <2>2. Latest \in Version
    BY InstallationAssumption
  <2>. QED BY <1>3, <2>1, <2>2, BeginKeeps DEF Repair, Installs, Deinstalls
<1>. QED BY <1>1, <1>2, <1>3

-----------------------------------------------------------------------------
(* The steps of a command: the release before is put aside before the new  *)
(* one is copied over it, and the rollback brings it back.                 *)
LEMMA CopyKeeps ==
  ASSUME IInv, Copy
  PROVE  IInv'
<1>. USE DEF IInv
<1>1. command # None
  BY Positions, InstallationAssumption DEF Copy, At, AtWork, Command
<1>2. Proceed /\ UNCHANGED <<unit, config, account, schema, systemd, faults>>
  BY DEF Copy
<1>3. \/ command = "install" /\ binary' = with /\ previous' = previous
      \/ command = "upgrade" /\ step = 2 /\ binary' = with /\ previous' = previous
      \/ command = "upgrade" /\ step = 1 /\ previous' = binary /\ binary' = binary
      \/ command = "rollback" /\ step = 1 /\ binary' = previous /\ previous' = previous
  BY Positions DEF Copy
<1>4. TypeOK'
  BY <1>1, <1>2, <1>3, Goes, InstallationAssumption DEF TypeOK, systemd
<1>5. step \in Nat /\ outcome # "rolledBack"
  BY <1>1 DEF AtWork
<1>6. /\ command' = None \/ (command' = command /\ step' = step + 1 /\ outcome' = outcome)
      /\ command' = None /\ outcome' = "rolledBack" => command = "rollback" /\ step = 3
      /\ before' = before /\ AtWork'
  BY <1>1, <1>2, Goes
<1>7. Kept'
  BY <1>3, <1>5, <1>6, InstallationAssumption DEF Kept, Command
<1>8. RolledBack'
  BY <1>1, <1>3, <1>5, <1>6 DEF RolledBack
<1>. QED BY <1>4, <1>6, <1>7, <1>8

(* Steps that leave the binaries alone.                                    *)
LEMMA StepKeeps ==
  ASSUME IInv, command # None, Proceed, UNCHANGED <<binary, previous, faults>>,
         {unit', config', account', loaded', enabled', wanted'} \subseteq BOOLEAN,
         schema' \in Schema, process' \in {process, None},
         ~At("rollback", "back"), ~At("upgrade", "previous"),
         At("rollback", "restart") => process' = None
  PROVE  IInv'
<1>. USE DEF IInv
<1>1. TypeOK'
  BY Goes, InstallationAssumption DEF TypeOK
<1>2. /\ command = "rollback" => step # 1 /\ (step = 3 => process' = None)
      /\ command = "upgrade" => step # 1
  BY DEF At, Steps, RollbackSteps, UpgradeSteps
<1>3. step \in Nat /\ outcome # "rolledBack"
  BY DEF AtWork
<1>4. /\ command' = None \/ (command' = command /\ step' = step + 1 /\ outcome' = outcome)
      /\ command' = None /\ outcome' = "rolledBack" => command = "rollback" /\ step = 3
      /\ before' = before /\ AtWork'
  BY Goes
<1>5. Kept'
  <2>1. CASE command' = None
    BY <2>1, InstallationAssumption DEF Kept, Command
  <2>2. CASE command' = command /\ step' = step + 1
    <3>1. /\ step' \in 1 .. 2 => step \in 0 .. 1
          /\ step' > 1 => step = 1 \/ step > 1
          /\ step' = 1 => step = 0
          /\ step \in 0 .. 1 => step = 0 \/ step = 1
          /\ step = 0 => command = None
      BY <1>3, <1>4, <2>2, InstallationAssumption DEF AtWork, Command
    <3>. QED BY <1>2, <1>3, <1>4, <2>2, <3>1 DEF Kept
  <2>. QED BY <1>4, <2>1, <2>2
<1>6. RolledBack'
  BY <1>2, <1>3, <1>4 DEF RolledBack, Kept
<1>. QED BY <1>1, <1>4, <1>5, <1>6

(* A command ends without having rolled anything back.                     *)
LEMMA EndKeeps ==
  ASSUME IInv, NEW how \in {"done", "failed"}, command # None, End(how),
         UNCHANGED disk, faults' \in 0 .. MaxFaults,
         loaded' \in BOOLEAN, enabled' \in BOOLEAN, wanted' \in BOOLEAN, process' \in {process, None}
  PROVE  IInv'
<1>. USE DEF IInv, disk
<1>1. /\ AtWork' /\ command' = None /\ before' = before /\ commands' = commands
      /\ with' = None /\ step' = 0 /\ purge' = FALSE
      /\ repair' \in {repair, "done"} /\ outcome' \in {outcome, how}
  BY Ends
<1>2. TypeOK'
  <2>1. /\ {binary', previous', process', with', before'} \subseteq Version \cup {None}
        /\ repair' \in {"no", "needed", "done"} /\ schema' \in Schema
        /\ command' \in Command \cup {None}
        /\ outcome' \in {"none", "done", "failed", "rolledBack"}
    BY <1>1 DEF TypeOK
  <2>2. {unit', config', account', loaded', enabled', wanted', purge'} \subseteq BOOLEAN
    BY <1>1 DEF TypeOK
  <2>3. step' \in 0 .. 8 /\ commands' \in 0 .. MaxCommands
    BY <1>1 DEF TypeOK
  <2>. QED BY <2>1, <2>2, <2>3 DEF TypeOK
<1>3. Kept' /\ RolledBack'
  BY <1>1, InstallationAssumption DEF Kept, RolledBack, AtWork, Command
<1>. QED BY <1>1, <1>2, <1>3

(* An upgrade that has put the old release aside gives way to its          *)
(* rollback.                                                               *)
LEMMA RollBackKeeps ==
  ASSUME IInv, command = "upgrade", step > 2, RollBack,
         UNCHANGED disk, faults' \in 0 .. MaxFaults,
         loaded' \in BOOLEAN, enabled' \in BOOLEAN, wanted' \in BOOLEAN, process' \in {process, None}
  PROVE  IInv'
<1>. USE DEF IInv, disk
<1>1. /\ AtWork' /\ command' = "rollback" /\ step' = 1 /\ outcome' # "rolledBack"
      /\ UNCHANGED <<with, purge, outcome, before, repair, commands>>
  BY RollsBack
<1>2. TypeOK'
  BY <1>1 DEF TypeOK, Command
<1>3. step \in Nat /\ step > 1
  BY InstallationAssumption DEF AtWork, Command
<1>4. Kept' /\ RolledBack'
  BY <1>1, <1>3 DEF Kept, RolledBack
<1>. QED BY <1>1, <1>2, <1>4

(* Steps that write files or tell systemd of them.                         *)
LEMMA WriteKeeps ==
  ASSUME IInv, Write \/ DaemonReload \/ Enable \/ RemoveData
  PROVE  IInv'
<1>. USE DEF IInv
<1>1. CASE Write
  <2>1. command # None /\ ~At("rollback", "back") /\ ~At("rollback", "restart") /\ ~At("upgrade", "previous")
    BY <1>1, Positions, InstallationAssumption DEF Write, At, AtWork, Command
  <2>2. {unit', config', account', loaded', enabled', wanted'} \subseteq BOOLEAN
    BY <1>1 DEF Write, TypeOK, systemd
  <2>. QED BY <1>1, <2>1, <2>2, StepKeeps DEF Write, TypeOK, systemd
<1>2. CASE DaemonReload
  <2>1. /\ command # None /\ ~At("rollback", "back") /\ ~At("rollback", "restart")
        /\ ~At("upgrade", "previous")
    BY <1>2, Positions, InstallationAssumption DEF DaemonReload, At, AtWork, Command,
       Steps, UpgradeSteps, RollbackSteps
  <2>2. {unit', config', account', loaded', enabled', wanted'} \subseteq BOOLEAN
    BY <1>2 DEF DaemonReload, TypeOK, disk
  <2>. QED BY <1>2, <2>1, <2>2, StepKeeps DEF DaemonReload, TypeOK, disk
<1>3. CASE Enable
  <2>1. command # None /\ ~At("rollback", "back") /\ ~At("rollback", "restart") /\ ~At("upgrade", "previous")
    BY <1>3, InstallationAssumption DEF Enable, At, Command
  <2>2. {unit', config', account', loaded', enabled', wanted'} \subseteq BOOLEAN
    BY <1>3 DEF Enable, TypeOK, disk
  <2>. QED BY <1>3, <2>1, <2>2, StepKeeps DEF Enable, TypeOK, disk
<1>4. CASE RemoveData
  <2>1. command # None /\ ~At("rollback", "back") /\ ~At("rollback", "restart") /\ ~At("upgrade", "previous")
    BY <1>4, InstallationAssumption DEF RemoveData, At, Command
  <2>2. {unit', config', account', loaded', enabled', wanted'} \subseteq BOOLEAN
    BY <1>4 DEF RemoveData, TypeOK, systemd
  <2>3. schema' \in Schema
    BY <1>4 DEF RemoveData, Schema
  <2>. QED BY <1>4, <2>1, <2>2, <2>3, StepKeeps DEF RemoveData, TypeOK, systemd
<1>. QED BY <1>1, <1>2, <1>3, <1>4

(* An upgrade that finds no environment file is rolled back.               *)
LEMMA MissingKeeps ==
  ASSUME IInv, ConfigMissing
  PROVE  IInv'
<1>1. command = "upgrade" /\ step > 2
  BY Positions DEF ConfigMissing
<1>. QED BY <1>1, RollBackKeeps DEF ConfigMissing, IInv, TypeOK, systemd

(* The last step of an upgrade and of a rollback: no process of the        *)
(* other release is left.                                                  *)
LEMMA RestartKeeps ==
  ASSUME IInv, Restart
  PROVE  IInv'
<1>1. \/ command = "upgrade" /\ step = 6
      \/ command = "rollback" /\ step = 3
  BY Positions DEF Restart
<1>2. command # None
  BY <1>1, InstallationAssumption DEF Command
<1>3. CASE loaded
  <2>1. /\ wanted' = TRUE /\ process' = None /\ Proceed
        /\ UNCHANGED <<disk, loaded, enabled, faults>>
    BY <1>3 DEF Restart
  <2>2. {unit', config', account', loaded', enabled', wanted'} \subseteq BOOLEAN
    BY <2>1 DEF IInv, TypeOK, disk
  <2>3. ~At("rollback", "back") /\ ~At("upgrade", "previous")
    BY <1>1, Positions
  <2>. QED BY <1>2, <2>1, <2>2, <2>3, StepKeeps DEF IInv, TypeOK, disk
<1>4. CASE ~loaded
  <2>1. /\ loaded' \in BOOLEAN /\ enabled' \in BOOLEAN /\ wanted' \in BOOLEAN
        /\ process' = process /\ faults' \in 0 .. MaxFaults
    BY <1>4 DEF Restart, IInv, TypeOK
  <2>2. UNCHANGED disk
    BY DEF Restart
  <2>3. CASE command = "upgrade"
    BY <1>1, <1>4, <2>1, <2>2, <2>3, RollBackKeeps DEF Restart
  <2>4. CASE command # "upgrade"
    BY <1>2, <1>4, <2>1, <2>2, <2>4, EndKeeps DEF Restart
  <2>. QED BY <2>3, <2>4
<1>. QED BY <1>3, <1>4

(* deinstall begins with the stop, purge or not.                           *)
LEMMA DeinstallSteps ==
  ASSUME IInv, At("deinstall", "stop")
  PROVE  command = "deinstall" /\ step = 1
<1>1. command = "deinstall" /\ step \in 1 .. 8 /\ (~purge => step <= 5)
  BY InstallationAssumption DEF At, IInv, AtWork, Command
<1>2. CASE purge
  BY <1>1, <1>2 DEF At, Steps
<1>3. CASE ~purge
  BY <1>1, <1>3 DEF At, Steps
<1>. QED BY <1>1, <1>2, <1>3

(* deinstall, which may not claim a rollback.                              *)
LEMMA DeinstallKeeps ==
  ASSUME IInv, Stop \/ Remove \/ RemoveUser
  PROVE  IInv'
<1>. USE DEF IInv
<1>1. CASE Stop
  <2>1. command = "deinstall" /\ step = 1 /\ outcome # "rolledBack"
    BY <1>1, DeinstallSteps, InstallationAssumption DEF Stop, AtWork, Command
  <2>2. /\ step' = 2 /\ outcome' \in {outcome, "failed"} /\ faults' \in 0 .. MaxFaults
        /\ enabled' \in BOOLEAN /\ wanted' \in BOOLEAN /\ process' \in {process, None}
        /\ UNCHANGED <<disk, loaded, command, with, purge, before, repair, commands>>
    <3>1. faults' \in 0 .. MaxFaults
      <4>1. faults' = faults \/ (faults < MaxFaults /\ faults' = faults + 1)
        BY <1>1 DEF Stop, Fault
      <4>. QED BY <4>1, InstallationAssumption DEF TypeOK
    <3>2. step' = 2
      BY <1>1, <2>1 DEF Stop
    <3>3. enabled' \in BOOLEAN /\ wanted' \in BOOLEAN
      BY <1>1 DEF Stop, TypeOK
    <3>. QED BY <1>1, <3>1, <3>2, <3>3 DEF Stop
  <2>3. TypeOK'
    BY <2>2 DEF TypeOK, disk
  <2>4. AtWork'
    BY <2>1, <2>2 DEF AtWork
  <2>5. Kept' /\ RolledBack'
    BY <2>1, <2>2 DEF Kept, RolledBack
  <2>. QED BY <2>3, <2>4, <2>5
<1>2. CASE Remove
  <2>1. command = "deinstall" /\ command # None
    BY <1>2, InstallationAssumption DEF Remove, At, Command
  <2>2. /\ Proceed /\ UNCHANGED <<account, schema, systemd, faults>>
        /\ binary' \in {binary, None} /\ previous' \in {previous, None}
        /\ unit' \in {unit, FALSE} /\ config' \in {config, FALSE}
    BY <1>2 DEF Remove
  <2>3. TypeOK'
    BY <2>1, <2>2, Goes DEF TypeOK, systemd
  <2>4. AtWork' /\ command' \in {"deinstall", None} /\ outcome' # "rolledBack"
    BY <2>1, <2>2, Goes DEF AtWork
  <2>. QED BY <2>3, <2>4, InstallationAssumption DEF Kept, RolledBack, Command
<1>3. CASE RemoveUser
  <2>1. command # None
    BY <1>3, InstallationAssumption DEF RemoveUser, At, Command
  <2>2. \E how \in {"done", "failed"} : End(how)
    BY <1>3 DEF RemoveUser
  <2>. QED BY <1>3, <2>1, <2>2, EndKeeps DEF RemoveUser, TypeOK, disk, systemd
<1>. QED BY <1>1, <1>2, <1>3

(* A failing step, a command that is killed, a host that goes down.        *)
LEMMA FaultKeeps ==
  ASSUME IInv, StepFails \/ Killed \/ Reboot
  PROVE  IInv'
<1>. USE DEF IInv
<1>1. faults' \in 0 .. MaxFaults
  <2>1. Fault
    BY DEF StepFails, Killed, Reboot
  <2>2. faults \in 0 .. MaxFaults /\ MaxFaults \in Nat
    BY InstallationAssumption DEF TypeOK
  <2>. QED BY <2>1, <2>2 DEF Fault
<1>2. CASE StepFails
  <2>1. /\ command # None /\ UNCHANGED disk /\ loaded' \in BOOLEAN
        /\ wanted' \in BOOLEAN /\ process' \in {process, None} /\ enabled' \in BOOLEAN
    BY <1>2 DEF StepFails, TypeOK
  <2>2. CASE command = "upgrade" /\ Steps(command)[step] \notin {"previous", "copy"}
    <3>1. step > 2
      BY <2>2, InstallationAssumption DEF Steps, UpgradeSteps, AtWork, Command
    <3>. QED BY <1>1, <1>2, <2>1, <2>2, <3>1, RollBackKeeps DEF StepFails
  <2>3. CASE ~(command = "upgrade" /\ Steps(command)[step] \notin {"previous", "copy"})
    BY <1>1, <1>2, <2>1, <2>3, EndKeeps DEF StepFails
  <2>. QED BY <2>2, <2>3
<1>3. CASE Killed
  BY <1>1, <1>3, EndKeeps DEF Killed, TypeOK, systemd, disk
<1>4. CASE Reboot
  <2>1. /\ UNCHANGED <<disk, enabled>> /\ process' = None /\ enabled' \in BOOLEAN
        /\ loaded' \in BOOLEAN /\ wanted' \in BOOLEAN
    BY <1>4 DEF Reboot, TypeOK
  <2>2. CASE command = None
    <3>1. UNCHANGED operator
      BY <1>4, <2>2 DEF Reboot
    <3>. QED BY <1>1, <2>1, <3>1 DEF TypeOK, AtWork, Kept, RolledBack, disk, operator
  <2>3. CASE command # None
    <3>1. End("failed") /\ process' \in {process, None}
      BY <1>4, <2>3 DEF Reboot
    <3>. QED BY <1>1, <2>1, <2>3, <3>1, EndKeeps
  <2>. QED BY <2>2, <2>3
<1>. QED BY <1>2, <1>3, <1>4

-----------------------------------------------------------------------------
(* A host without an installation.                                         *)
LEMMA InitKeeps == Init => IInv
<1>. SUFFICES ASSUME Init PROVE IInv
  OBVIOUS
<1>. USE DEF Init
<1>1. TypeOK
  <2>1. commands \in 0 .. MaxCommands /\ faults \in 0 .. MaxFaults /\ step \in 0 .. 8
    BY InstallationAssumption
  <2>2. {unit, config, account, loaded, enabled, wanted, purge} \subseteq BOOLEAN
    OBVIOUS
  <2>. QED BY <2>1, <2>2 DEF TypeOK, Schema
<1>2. AtWork /\ Kept /\ RolledBack
  BY InstallationAssumption DEF AtWork, Kept, RolledBack, Command
<1>. QED BY <1>1, <1>2 DEF IInv

(* Every step of the commands, the operator, the service and the host.     *)
LEMMA NextKeeps == IInv /\ [Next]_vars => IInv'
<1>. SUFFICES ASSUME IInv, [Next]_vars PROVE IInv'
  OBVIOUS
<1>1. CASE UNCHANGED vars
  BY <1>1 DEF vars, disk, systemd, operator, IInv, TypeOK, AtWork, Kept, RolledBack
<1>2. CASE Next
  BY <1>2, ServiceKeeps, OperatorKeeps, CopyKeeps, WriteKeeps, MissingKeeps, RestartKeeps,
     DeinstallKeeps, FaultKeeps DEF Next, Advance
<1>. QED BY <1>1, <1>2

(* The releases and the steps of the commands are in agreement             *)
(* throughout.                                                             *)
LEMMA Invariance == Spec => []IInv
BY InitKeeps, NextKeeps, PTL DEF Spec

(* Every variable keeps its type: no command runs past its last step.      *)
THEOREM TypeCorrect == Spec => []TypeOK
<1>1. IInv => TypeOK
  BY DEF IInv
<1>. QED BY <1>1, Invariance, PTL

(* A rollback that reports success has put the release back that the       *)
(* upgrade found, and left no process of another one, whatever failed,     *)
(* was killed or rebooted before.                                          *)
THEOREM RollbacksAreTrue == Spec => []RolledBack
<1>1. IInv => RolledBack
  BY DEF IInv
<1>. QED BY <1>1, Invariance, PTL
==============================================================================
