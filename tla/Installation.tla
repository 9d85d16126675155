----------------------------- MODULE Installation -----------------------------
(***************************************************************************)
(* The life of an installation of clipboard-exchange under systemd: the    *)
(* commands install, upgrade and deinstall (internal/systemd), each of     *)
(* which replaces files and talks to systemd in steps, any of which may    *)
(* fail, and the service, which systemd starts again from whatever binary  *)
(* is in place.  A start migrates the database to the schema of its        *)
(* release, and no release opens a newer schema than its own.              *)
(*                                                                         *)
(* systemd is modelled from what the unit file says to it: the service is  *)
(* of Type=simple, a start counts as a success when the process is forked, *)
(* and Restart=on-failure.                                                 *)
(***************************************************************************)
EXTENDS Naturals, Sequences

CONSTANTS
  Version,       \* releases
  SchemaOf,      \* the schema of each release
  Broken,        \* releases that end right after their start
  Latest,        \* the release an operator falls back on
  None,
  MaxCommands,   \* bound: commands of the operator's own choice
  MaxFaults      \* bound: steps that fail, crashes, reboots

(* A database is made table by table, its version is recorded last; tables *)
(* without a version are refused as those of a release before the first.   *)
Partial == 1

Command == {"install", "upgrade", "rollback", "deinstall"}

Schema == {SchemaOf[v] : v \in Version} \cup {0, Partial}

ASSUME InstallationAssumption ==
  /\ SchemaOf \in [Version -> Nat \ {0, Partial}]
  /\ Broken \subseteq Version /\ None \notin Version /\ None \notin Command
  /\ Latest \in Version \ Broken
  /\ \A v \in Version : SchemaOf[v] <= SchemaOf[Latest]
  /\ MaxCommands \in Nat /\ MaxFaults \in Nat

VARIABLES
  binary,    \* the release at /usr/local/bin/clipboard-exchange
  previous,  \* the one beside it, .previous
  unit,      \* the unit file is there
  config,    \* the environment file is there
  account,   \* the service user and the directories are there
  schema,    \* of the database; 0: there is none
  loaded,    \* systemd has read the unit file
  enabled,   \* the service starts with the host
  wanted,    \* systemd was told to start it and not to stop it
  process,   \* the release that is running
  command, with, step,   \* the command under way, the release it is run from, its next step
  purge,     \* deinstall --purge
  outcome,   \* how the last command ended
  before,    \* history: the release in place when the last upgrade began
  repair,    \* the operator sets things right: deinstalls and installs Latest
  commands, faults

disk == <<binary, previous, unit, config, account, schema>>
systemd == <<loaded, enabled, wanted, process>>
operator == <<command, with, step, purge, outcome, before, repair, commands>>
vars == <<disk, systemd, operator, faults>>

TypeOK ==
  /\ {binary, previous, process, with, before} \subseteq Version \cup {None}
  /\ {unit, config, account, loaded, enabled, wanted, purge} \subseteq BOOLEAN
  /\ repair \in {"no", "needed", "done"}
  /\ schema \in Schema
  /\ command \in Command \cup {None}
  /\ outcome \in {"none", "done", "failed", "rolledBack"}
  /\ step \in 0 .. 8
  /\ commands \in 0 .. MaxCommands /\ faults \in 0 .. MaxFaults

Init ==
  /\ binary = None /\ previous = None /\ unit = FALSE /\ config = FALSE /\ account = FALSE
  /\ schema = 0
  /\ loaded = FALSE /\ enabled = FALSE /\ wanted = FALSE /\ process = None
  /\ command = None /\ with = None /\ step = 0 /\ purge = FALSE
  /\ outcome = "none" /\ before = None /\ repair = "no"
  /\ commands = 0 /\ faults = 0

Fault == faults < MaxFaults /\ faults' = faults + 1

(* Slip: the new binary is in place before the old one is put aside.       *)
UpgradeStepsSlip == <<"copy", "previous", "unit", "config", "reload", "restart">>

UpgradeSteps == <<"previous", "copy", "unit", "config", "reload", "restart">>

(* Slip: the service is not started again.                                 *)
RollbackStepsSlip == <<"back", "reload">>

RollbackSteps == <<"back", "reload", "restart">>

-----------------------------------------------------------------------------
(* The service                                                             *)

(* store.Open refuses a schema it does not know.                           *)
Opens(v) == account /\ schema # Partial /\ schema <= SchemaOf[v]

(* systemd executes the binary in place.  A release that does not open the *)
(* database, or is broken, exits, and systemd tries again in two seconds.  *)
(* Without the environment file the database is another one.               *)
Launch ==
  /\ loaded /\ wanted /\ process = None
  /\ binary # None /\ Opens(binary)
  /\ schema' = IF config THEN SchemaOf[binary] ELSE schema
  /\ process' = IF binary \in Broken THEN None ELSE binary
  /\ UNCHANGED <<binary, previous, unit, config, account, loaded, enabled, wanted, operator, faults>>

(* The first start is killed between two tables.                           *)
CreationBreaks ==
  /\ loaded /\ wanted /\ process = None /\ config
  /\ binary # None /\ Opens(binary) /\ schema = 0 /\ Fault
  /\ schema' = Partial
  /\ UNCHANGED <<binary, previous, unit, config, account, systemd, operator>>

Crash ==
  /\ process # None /\ Fault
  /\ process' = None
  /\ UNCHANGED <<disk, loaded, enabled, wanted, operator>>

(* backup, status and rooms open, and migrate, the database, too.          *)
AdminCommand(v) ==
  /\ repair = "no" /\ Opens(v) /\ schema # 0 /\ schema' = SchemaOf[v]
  /\ UNCHANGED <<binary, previous, unit, config, account, systemd, operator, faults>>

-----------------------------------------------------------------------------
(* Commands and their steps                                                *)

Steps(c) ==
  CASE c = "install" -> <<"account", "copy", "unit", "config", "reload", "enable">>
    [] c = "upgrade" -> UpgradeSteps
    [] c = "rollback" -> RollbackSteps
    [] c = "deinstall" -> <<"stop", "unit", "binary", "previous", "reload">> \o
                          (IF purge THEN <<"config", "data", "user">> ELSE <<>>)

At(c, what) == command = c /\ Steps(c)[step] = what

(* A command ends.  deinstall reports, but does not heed, a failed stop.   *)
End(how) ==
  /\ command' = None /\ with' = None /\ step' = 0 /\ purge' = FALSE
  /\ outcome' = IF outcome = "failed" THEN outcome ELSE how
  /\ repair' = IF repair = "needed" /\ command = "install" /\ how = "done" THEN "done" ELSE repair
  /\ UNCHANGED <<before, commands>>

Proceed ==
  IF step = Len(Steps(command)) THEN End(IF command = "rollback" THEN "rolledBack" ELSE "done")
  ELSE step' = step + 1 /\ UNCHANGED <<command, with, purge, outcome, before, repair, commands>>

(* upgrade gives way to its rollback.                                      *)
RollBack ==
  /\ command' = "rollback" /\ step' = 1
  /\ UNCHANGED <<with, purge, outcome, before, repair, commands>>

Begin(c, v, p) ==
  /\ command = None
  /\ command' = c /\ with' = v /\ step' = 1 /\ purge' = p
  /\ outcome' = "none"
  /\ before' = IF c = "upgrade" THEN binary ELSE before
  /\ UNCHANGED <<disk, systemd, faults>>

(* install refuses where a binary is, upgrade where none is.               *)
Installs(v) == binary = None /\ Begin("install", v, FALSE)
Upgrades(v) == binary # None /\ Begin("upgrade", v, FALSE)
Deinstalls(p) == Begin("deinstall", None, p)

OperatorBegins ==
  /\ repair = "no" /\ UNCHANGED repair
  /\ commands < MaxCommands /\ commands' = commands + 1
  /\ \/ \E v \in Version : Installs(v) \/ Upgrades(v)
     \/ \E p \in BOOLEAN : Deinstalls(p)

StartRepair ==
  /\ repair = "no" /\ command = None
  /\ repair' = "needed"
  /\ UNCHANGED <<disk, systemd, command, with, step, purge, outcome, before, commands, faults>>

(* Only a database that was never finished is thrown away.                 *)
Repair ==
  /\ repair = "needed" \/ (repair = "done" /\ schema = Partial)
  /\ repair' = "needed" /\ UNCHANGED commands
  /\ \/ schema # Partial /\ Installs(Latest)
     \/ schema # Partial /\ binary # None /\ Deinstalls(FALSE)
     \/ schema = Partial /\ Deinstalls(TRUE)

(* Files are written beside their place and renamed.                       *)
Copy ==
  /\ \/ /\ At("install", "copy") \/ At("upgrade", "copy")
        /\ binary' = with /\ UNCHANGED previous
     \/ At("upgrade", "previous") /\ previous' = binary /\ UNCHANGED binary
     \/ At("rollback", "back") /\ binary' = previous /\ UNCHANGED previous
  /\ Proceed
  /\ UNCHANGED <<unit, config, account, schema, systemd, faults>>

(* ensureUserAndDirectories, the unit file, the environment file, of which *)
(* an install keeps one that is there.                                     *)
Write ==
  /\ \/ At("install", "account") /\ account' = TRUE /\ UNCHANGED <<unit, config>>
     \/ /\ At("install", "unit") \/ At("upgrade", "unit")
        /\ unit' = TRUE /\ UNCHANGED <<config, account>>
     \/ At("install", "config") /\ config' = TRUE /\ UNCHANGED <<unit, account>>
     \/ At("upgrade", "config") /\ config /\ UNCHANGED <<unit, config, account>>
  /\ Proceed
  /\ UNCHANGED <<binary, previous, schema, systemd, faults>>

(* An upgrade adds settings to an environment file, it does not make one.  *)
ConfigMissing ==
  /\ At("upgrade", "config") /\ ~config
  /\ RollBack
  /\ UNCHANGED <<disk, systemd, faults>>

DaemonReload ==
  /\ \E c \in {"install", "upgrade", "rollback", "deinstall"} : At(c, "reload")
  /\ loaded' = unit
  /\ Proceed
  /\ UNCHANGED <<disk, enabled, wanted, process, faults>>

(* enable --now: a service that runs is left alone.                        *)
Enable ==
  /\ At("install", "enable")
  /\ enabled' = TRUE /\ wanted' = TRUE
  /\ Proceed
  /\ UNCHANGED <<disk, loaded, process, faults>>

(* restart is done when the process is forked, whatever becomes of it.     *)
Restart ==
  /\ At("upgrade", "restart") \/ At("rollback", "restart")
  /\ IF loaded
       THEN /\ wanted' = TRUE /\ process' = None
            /\ Proceed
       ELSE /\ UNCHANGED <<wanted, process>>
            /\ IF command = "upgrade" THEN RollBack ELSE End("failed")
  /\ UNCHANGED <<disk, loaded, enabled, faults>>

(* Slip: a service that cannot be stopped ends the command.                *)
StopSlip ==
  /\ At("deinstall", "stop")
  /\ IF unit
       THEN /\ enabled' = FALSE /\ wanted' = FALSE /\ process' = None
            /\ Proceed
       ELSE UNCHANGED <<enabled, wanted, process>> /\ End("failed")
  /\ UNCHANGED <<disk, loaded, faults>>

(* disable --now: an error for a unit file that is not there, and no stop. *)
Stop ==
  /\ At("deinstall", "stop")
  /\ \/ /\ unit
        /\ enabled' = FALSE /\ wanted' = FALSE /\ process' = None
        /\ UNCHANGED <<outcome, faults>>
     \/ /\ ~unit
        /\ outcome' = "failed" /\ UNCHANGED <<enabled, wanted, process, faults>>
     \/ /\ unit /\ Fault
        /\ outcome' = "failed" /\ enabled' \in {enabled, FALSE} /\ UNCHANGED <<wanted, process>>
  /\ step' = step + 1
  /\ UNCHANGED <<disk, loaded, command, with, purge, before, repair, commands>>

Remove ==
  /\ \/ At("deinstall", "unit") /\ unit' = FALSE /\ UNCHANGED <<binary, previous, config>>
     \/ At("deinstall", "binary") /\ binary' = None /\ UNCHANGED <<unit, previous, config>>
     \/ At("deinstall", "previous") /\ previous' = None /\ UNCHANGED <<unit, binary, config>>
     \/ At("deinstall", "config") /\ config' = FALSE /\ UNCHANGED <<unit, binary, previous>>
  /\ Proceed
  /\ UNCHANGED <<account, schema, systemd, faults>>

RemoveData ==
  /\ At("deinstall", "data")
  /\ account' = FALSE /\ schema' = 0
  /\ Proceed
  /\ UNCHANGED <<binary, previous, unit, config, systemd, faults>>

(* userdel refuses the user of a process that runs.                        *)
RemoveUser ==
  /\ At("deinstall", "user")
  /\ End(IF process = None THEN "done" ELSE "failed")
  /\ UNCHANGED <<disk, systemd, faults>>

(* A step fails: an upgrade that has put the new binary in place rolls     *)
(* back, everything else returns.                                          *)
StepFails ==
  /\ command # None /\ Fault
  /\ ~At("deinstall", "stop")
  /\ IF command = "upgrade" /\ Steps(command)[step] \notin {"previous", "copy"}
       THEN RollBack ELSE End("failed")
  /\ IF At("upgrade", "restart") \/ At("rollback", "restart")
       THEN \/ UNCHANGED <<wanted, process>>
            \/ wanted' \in BOOLEAN /\ process' = None
       ELSE UNCHANGED <<wanted, process>>
  /\ enabled' \in {enabled} \cup (IF At("install", "enable") THEN {TRUE} ELSE {})
  /\ UNCHANGED <<disk, loaded>>

Killed ==
  /\ command # None /\ Fault
  /\ End("failed")
  /\ UNCHANGED <<disk, systemd>>

(* The host goes down, and a command with it.                              *)
Reboot ==
  /\ Fault
  /\ process' = None /\ loaded' = unit /\ wanted' = (enabled /\ unit)
  /\ IF command = None THEN UNCHANGED operator ELSE End("failed")
  /\ UNCHANGED <<disk, enabled>>

-----------------------------------------------------------------------------
Advance ==
  \/ Copy \/ Write \/ ConfigMissing \/ DaemonReload \/ Enable \/ Restart
  \/ Stop \/ Remove \/ RemoveData \/ RemoveUser

Next ==
  \/ Launch \/ CreationBreaks \/ Crash \/ \E v \in Version : AdminCommand(v)
  \/ OperatorBegins \/ StartRepair \/ Repair
  \/ Advance \/ StepFails \/ Killed \/ Reboot

Spec == Init /\ [][Next]_vars

(* systemd restarts what failed, a command goes on by itself, and the      *)
(* operator who has begun to set things right goes through with it.        *)
FairSpec == Spec /\ WF_vars(Launch) /\ WF_vars(Advance) /\ WF_vars(Repair)

-----------------------------------------------------------------------------
(* Properties                                                              *)

(* After a rollback that reports success the release from before the       *)
(* upgrade is in place and no process of the other one is left.            *)
RolledBack == outcome = "rolledBack" => binary = before /\ process \in {None, before}

(* ... and it serves again, unless it was broken itself, was never fully   *)
(* installed, or the database has been migrated by a newer release that    *)
(* was started or run beside it.                                           *)
RollbackServes ==
  outcome = "rolledBack" ~>
    \/ process = before \/ outcome # "rolledBack"
    \/ before \in Broken \/ ~enabled \/ ~Opens(before)

(* Wherever commands were broken off, deinstall and install end in a       *)
(* service that runs and starts with the host, although the first start    *)
(* may be killed while it makes the database, which nothing but a purge    *)
(* repairs.  (A process that a failed stop has left behind goes on serving *)
(* until it ends.)                                                         *)
OperatorRecovers ==
  repair # "no" ~> repair = "done" /\ binary = Latest /\ enabled /\ process # None
=============================================================================
