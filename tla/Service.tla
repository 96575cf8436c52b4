------------------------------- MODULE Service --------------------------------
(***************************************************************************)
(* "raxd service install | uninstall [--purge --yes] | start | stop" on    *)
(* Linux (internal/service/systemd.go) and macOS (launchd.go), called by   *)
(* internal/cli/service.go, one command at a time.                         *)
(*                                                                         *)
(* A command is a sequence of calls that change the host: files, the       *)
(* service manager, the account "raxd", the data directories.  Each call   *)
(* may fail, the command may be killed between two of them, the host may   *)
(* reboot, and all calls share one context of 30 s, after which those that *)
(* are left fail at once.  Meanwhile the daemon dies, is restarted by the  *)
(* manager, or takes its time to stop.  The directories are the defaults   *)
(* of DefaultConfigForGOOS, which the commands always use.                 *)
(***************************************************************************)
EXTENDS Naturals

CONSTANTS
    Platforms,   \* operating systems to consider
    Faults       \* the failures the environment may produce

ASSUME ServiceAssumption ==
    /\ Platforms \subseteq {"linux", "darwin"}
    /\ Faults \subseteq {"io", "manager", "account", "kill", "reboot"}

VARIABLES
    platform,    \* runtime.GOOS
    unit,        \* the unit file or the plist
    dropIn,      \* the journald drop-in (Linux)
    enabled,     \* the manager starts the service at boot
    loaded,      \* the manager has the service in memory
    daemon,      \* "raxd serve" under the manager
    user,        \* the account "raxd": absent, ours, or somebody's with a login shell
    data,        \* the data directories that exist
    astray,      \* those that are links out of the layout
    pc,          \* next step of the command
    cmd          \* its local state and, at the end, its outcome

files == <<unit, dropIn>>
manager == <<enabled, loaded, daemon>>
given == <<platform, astray>>
vars == <<unit, dropIn, enabled, loaded, daemon, user, data, given, pc, cmd>>

Ops == {"install", "uninstall", "purge", "start", "stop"}
Results == {"none", "ok", "already", "notInstalled", "error", "killed"}
Steps == {"idle", "installStat", "useradd", "render", "createDirs", "writeUnit",
          "writeDropIn", "reload", "enable", "bootstrap", "enableLabel",
          "uninstallStat", "halt", "haltWait", "disable", "forget", "removeUnit",
          "removeDropIn", "reloadLast", "stat", "start", "stop", "stopWait",
          "status", "validate", "verify", "audit", "userdel",
          "state", "config", "log"}

Dirs == IF platform = "linux" THEN {"state", "config"} ELSE {"state", "config", "log"}

TypeOK ==
    /\ platform \in Platforms
    /\ unit \in {"absent", "torn", "written"}
    /\ dropIn \in {"absent", "torn", "written"}
    /\ enabled \in BOOLEAN /\ loaded \in BOOLEAN
    /\ daemon \in {"dead", "running", "stopping", "restarting"}
    /\ user \in {"absent", "system", "login"}
    /\ data \subseteq Dirs /\ astray \subseteq Dirs
    /\ pc \in Steps
    /\ cmd \in [op : Ops, late : BOOLEAN, trouble : BOOLEAN, blind : BOOLEAN,
                present : BOOLEAN, dirs : SUBSET Dirs, had : {"unit", "dropIn", "none"},
                left : SUBSET {"unit", "dropIn"}, at : Steps, result : Results]
    /\ (pc = "idle") = (cmd.result # "none")
    /\ platform = "darwin" => dropIn = "absent"

-------------------------------------------------------------------------------
(* Steps of a command *)

\* What there is of the service; "dropIn" for a drop-in without a unit.
Installed == IF unit # "absent" THEN "unit" ELSE IF dropIn # "absent" THEN "dropIn" ELSE "none"

\* Locals of a command: late, its context has ended; present and dirs, what Purge
\* found and put on record.  Histories: trouble, some call has failed; blind, the
\* account was taken for absent; had, what was installed when it began; left, the
\* files that a failed write tore or a rollback could not remove; at, the step it
\* ended in.
Fresh(o) == [op |-> o, late |-> FALSE, trouble |-> FALSE, blind |-> FALSE,
             present |-> FALSE, dirs |-> {},
             had |-> Installed, left |-> {}, at |-> "idle", result |-> "none"]

Goto(s) == pc' = s /\ UNCHANGED cmd

GotoFailed(s) == pc' = s /\ cmd' = [cmd EXCEPT !.trouble = TRUE]

Return(r) == pc' = "idle" /\ cmd' = [cmd EXCEPT !.result = r, !.at = pc]

ReturnFailed(r) ==
    pc' = "idle" /\ cmd' = [cmd EXCEPT !.result = r, !.at = pc, !.trouble = TRUE]

Fail == ReturnFailed("error")

\* An error, and fs is left behind.
FailLeaving(fs) ==
    /\ pc' = "idle"
    /\ cmd' = [cmd EXCEPT !.result = "error", !.at = pc, !.trouble = TRUE, !.left = fs]

\* RunManager does not reach the manager any more.
CutOff == cmd.late

\* A call of the manager fails; it may have been carried out all the same.
Refused == "manager" \in Faults

Init ==
    /\ platform \in Platforms
    /\ unit = "absent" /\ dropIn = "absent"
    /\ enabled = (platform = "darwin")   \* launchd: not disabled
    /\ loaded = FALSE /\ daemon = "dead"
    /\ user \in {"absent", "system", "login"}
    /\ data = {}
    /\ astray \in SUBSET Dirs
    /\ pc = "idle"
    /\ cmd = [Fresh("stop") EXCEPT !.result = "ok"]

First(o) == CASE o = "install" -> "installStat"
              [] o = "uninstall" -> "uninstallStat"
              [] o = "purge" -> "status"
              [] OTHER -> "stat"

Call(o) ==
    /\ pc = "idle"
    /\ pc' = First(o)
    /\ cmd' = Fresh(o)
    /\ UNCHANGED <<files, manager, user, data, given>>

\* Not root, --purge without --yes, or a configuration that does not load.
CallRefused(o) ==
    /\ pc = "idle"
    /\ cmd' = [Fresh(o) EXCEPT !.result = "error"]
    /\ UNCHANGED <<files, manager, user, data, given, pc>>

-------------------------------------------------------------------------------
(* Install *)

InstallStat ==
    /\ pc = "installStat"
    /\ IF unit # "absent" THEN Return("already")
       ELSE Goto(IF platform = "linux" THEN "useradd" ELSE "render")
    /\ UNCHANGED <<files, manager, user, data, given>>

\* Exit code 9, the account exists, is success whatever the account is.
CreateUser ==
    /\ pc = "useradd"
    /\ \/ /\ ~CutOff
          /\ user' = IF user = "absent" THEN "system" ELSE user
          /\ Goto("render")
       \/ /\ CutOff \/ "account" \in Faults
          /\ Fail /\ UNCHANGED user
    /\ UNCHANGED <<files, manager, data, given>>

\* ValidateTemplateData may refuse the port or the path of the binary.
Render ==
    /\ pc = "render"
    /\ \/ Goto(IF platform = "linux" THEN "writeUnit" ELSE "createDirs")
       \/ Fail
    /\ UNCHANGED <<files, manager, user, data, given>>

\* The chown of each directory is best effort; it has a context of its own without an
\* end (context.Background()) and is taken to return.
CreateDirs ==
    /\ pc = "createDirs"
    /\ \/ data' = Dirs /\ Goto("writeUnit")
       \/ /\ "io" \in Faults
          /\ \E made \in {{}, {"state"}, {"state", "log"}} : data' = data \cup made
          /\ Fail
    /\ UNCHANGED <<files, manager, user, given>>

\* Mutant: the drop-in is written on every platform.
MutDropInEverywhere ==
    /\ pc = "writeUnit" /\ unit' = "written" /\ Goto("writeDropIn")
    /\ UNCHANGED <<dropIn, manager, user, data, given>>

\* os.WriteFile creates the file before it writes; a failure leaves what it has.
WriteUnit ==
    /\ pc = "writeUnit"
    /\ \/ /\ unit' = "written"
          /\ Goto(IF platform = "linux" THEN "writeDropIn" ELSE "bootstrap")
       \/ "io" \in Faults /\ unit' = "absent" /\ Fail
       \/ "io" \in Faults /\ unit' = "torn" /\ FailLeaving({"unit"})
    /\ UNCHANGED <<dropIn, manager, user, data, given>>

\* Mutant: the rollback forgets the unit once there is a drop-in.
MutDropInOnly(both, torn) ==
    /\ unit' = IF both THEN unit ELSE "absent"
    /\ both => dropIn' = "absent"
    /\ FailLeaving(torn)

\* rollback ignores an error of os.Remove: the files in kept stay, and so do those
\* in torn, which it is not told of.
Rollback(both, torn) ==
    \E kept \in SUBSET ({"unit"} \cup IF both THEN {"dropIn"} ELSE {}) :
        /\ kept # {} => "io" \in Faults
        /\ unit' = IF "unit" \in kept THEN unit ELSE "absent"
        /\ both => dropIn' = IF "dropIn" \in kept THEN dropIn ELSE "absent"
        /\ FailLeaving(kept \cup torn)

\* os.MkdirAll or os.WriteFile may fail, the latter with part of the file written.
WriteDropIn ==
    /\ pc = "writeDropIn"
    /\ \/ dropIn' = "written" /\ Goto("reload") /\ UNCHANGED unit
       \/ "io" \in Faults /\ Rollback(FALSE, {}) /\ UNCHANGED dropIn
       \/ "io" \in Faults /\ Rollback(FALSE, {"dropIn"}) /\ dropIn' = "torn"
    /\ UNCHANGED <<manager, user, data, given>>

DaemonReload == loaded' = (unit = "written") /\ UNCHANGED <<enabled, daemon>>

InstallReload ==
    /\ pc = "reload"
    /\ \/ ~CutOff /\ DaemonReload /\ Goto("enable") /\ UNCHANGED files
       \/ CutOff /\ Rollback(TRUE, {}) /\ UNCHANGED manager
       \/ Refused /\ Rollback(TRUE, {}) /\ (DaemonReload \/ UNCHANGED manager)
    /\ UNCHANGED <<user, data, given>>

InstallEnable ==
    /\ pc = "enable"
    /\ \/ ~CutOff /\ enabled' = TRUE /\ Return("ok") /\ UNCHANGED files
       \/ CutOff /\ Rollback(TRUE, {}) /\ UNCHANGED enabled
       \/ Refused /\ Rollback(TRUE, {}) /\ enabled' \in {enabled, TRUE}
    /\ UNCHANGED <<loaded, daemon, user, data, given>>

\* launchd starts the daemon when it loads the plist (RunAtLoad).
Load ==
    /\ loaded' = TRUE
    /\ daemon' = IF user = "absent" \/ daemon = "stopping" THEN daemon ELSE "running"
    /\ UNCHANGED enabled

Bootstrap ==
    /\ pc = "bootstrap"
    /\ \/ ~CutOff /\ Load /\ Goto("enableLabel") /\ UNCHANGED files
       \/ /\ CutOff \/ Refused
          /\ Rollback(FALSE, {}) /\ UNCHANGED dropIn
          /\ UNCHANGED manager \/ (~CutOff /\ Load)
    /\ UNCHANGED <<user, data, given>>

\* An error of launchctl enable is ignored.
EnableLabel ==
    /\ pc = "enableLabel"
    /\ \/ ~CutOff /\ enabled' = TRUE /\ Return("ok")
       \/ CutOff /\ UNCHANGED enabled /\ ReturnFailed("ok")
       \/ Refused /\ enabled' \in {enabled, TRUE} /\ ReturnFailed("ok")
    /\ UNCHANGED <<files, loaded, daemon, user, data, given>>

-------------------------------------------------------------------------------
(* Uninstall *)

\* Mutant: Purge has nothing to do when the service is not installed.
MutNothingToPurge ==
    /\ pc = "uninstallStat"
    /\ IF unit # "absent" THEN Goto("halt")
       ELSE Return(IF cmd.op = "purge" THEN "ok" ELSE "notInstalled")
    /\ UNCHANGED <<files, manager, user, data, given>>

\* Purge goes on where Uninstall returns, also when nothing was installed.
UninstallStat ==
    /\ pc = "uninstallStat"
    /\ IF unit # "absent" THEN Goto("halt")
       ELSE IF cmd.op = "purge" THEN Goto("validate") ELSE Return("notInstalled")
    /\ UNCHANGED <<files, manager, user, data, given>>

\* systemctl stop; launchctl bootout and kill send SIGTERM as well.
Terminated == CASE daemon = "running" -> "stopping"
                [] daemon = "restarting" -> "dead"
                [] OTHER -> daemon

\* systemctl stop waits for the daemon to end.  Uninstall ignores its error.
Halt ==
    /\ pc = "halt" /\ platform = "linux"
    /\ \/ ~CutOff /\ daemon' = Terminated /\ Goto("haltWait")
       \/ CutOff /\ GotoFailed("disable") /\ UNCHANGED daemon
       \/ Refused /\ GotoFailed("disable") /\ daemon' \in {daemon, Terminated}
    /\ UNCHANGED <<files, enabled, loaded, user, data, given>>

\* launchctl bootout unloads the service and signals it, but need not wait.
Bootout ==
    /\ pc = "halt" /\ platform = "darwin"
    /\ \/ ~CutOff /\ daemon' = Terminated /\ loaded' = FALSE /\ Goto("disable")
       \/ (CutOff \/ Refused) /\ GotoFailed("disable") /\ UNCHANGED <<loaded, daemon>>
       \/ Refused /\ daemon' = Terminated /\ loaded' = FALSE /\ GotoFailed("disable")
    /\ UNCHANGED <<files, enabled, user, data, given>>

\* Mutant: systemctl stop --no-block.
MutNoBlock ==
    /\ pc = "haltWait" /\ Goto("disable")
    /\ UNCHANGED <<files, manager, user, data, given>>

HaltWait ==
    /\ pc = "haltWait"
    /\ daemon = "dead" \/ CutOff
    /\ Goto("disable")
    /\ UNCHANGED <<files, manager, user, data, given>>

Disable ==
    /\ pc = "disable"
    /\ LET next == IF platform = "linux" THEN "forget" ELSE "removeUnit"
       IN  \/ ~CutOff /\ enabled' = FALSE /\ Goto(next)
           \/ CutOff /\ UNCHANGED enabled /\ GotoFailed(next)
           \/ Refused /\ enabled' \in {enabled, FALSE} /\ GotoFailed(next)
    /\ UNCHANGED <<files, loaded, daemon, user, data, given>>

\* Uninstall returned nil.
Uninstalled ==
    IF cmd.op = "purge" THEN Goto("validate") ELSE Return("ok")

\* The daemon-reload before the files are removed changes nothing yet.
UninstallReload ==
    /\ pc = "forget"
    /\ \/ ~CutOff /\ DaemonReload /\ Goto("removeUnit")
       \/ (CutOff \/ Refused) /\ UNCHANGED manager /\ GotoFailed("removeUnit")
       \/ Refused /\ DaemonReload /\ GotoFailed("removeUnit")
    /\ UNCHANGED <<files, user, data, given>>

\* The last daemon-reload.
UninstallForget ==
    /\ pc = "reloadLast"
    /\ \/ ~CutOff /\ DaemonReload /\ Uninstalled
       \/ /\ CutOff \/ Refused
          /\ UNCHANGED manager \/ (Refused /\ DaemonReload)
          /\ IF cmd.op = "purge" THEN GotoFailed("validate") ELSE ReturnFailed("ok")
    /\ UNCHANGED <<files, user, data, given>>

RemoveUnit ==
    /\ pc = "removeUnit"
    /\ \/ /\ unit' = "absent"
          /\ IF platform = "linux" THEN Goto("removeDropIn") ELSE Uninstalled
       \/ "io" \in Faults /\ Fail /\ UNCHANGED unit
    /\ UNCHANGED <<dropIn, manager, user, data, given>>

RemoveDropIn ==
    /\ pc = "removeDropIn"
    /\ \/ dropIn' = "absent" /\ Goto("reloadLast")
       \/ "io" \in Faults /\ Fail /\ UNCHANGED dropIn
    /\ UNCHANGED <<unit, manager, user, data, given>>

-------------------------------------------------------------------------------
(* Start and Stop *)

Stat ==
    /\ pc = "stat"
    /\ IF unit = "absent" THEN Return("error") ELSE Goto(cmd.op)
    /\ UNCHANGED <<files, manager, user, data, given>>

\* StateDirectory= and ConfigurationDirectory= of the unit: systemd makes both
\* before it starts the daemon.  The plist has nothing of the kind.
Made == IF platform = "linux" THEN Dirs ELSE data

Start ==
    /\ pc = "start" /\ platform = "linux"
    /\ LET can == unit = "written" /\ user # "absent"
       IN  \/ /\ ~CutOff /\ can /\ daemon # "stopping"
              /\ daemon' = "running" /\ loaded' = TRUE /\ data' = Made
              /\ Return("ok")
           \/ /\ CutOff \/ Refused \/ ~can
              /\ Fail /\ UNCHANGED <<loaded, daemon, data>>
           \/ /\ Refused /\ can /\ daemon # "stopping"
              /\ daemon' = "running" /\ loaded' = TRUE /\ data' = Made
              /\ Fail
    /\ UNCHANGED <<files, enabled, user, given>>

\* launchctl kickstart -k: kills a daemon there is and starts another.
Kickstart ==
    /\ pc = "start" /\ platform = "darwin"
    /\ LET can == loaded /\ user # "absent"
       IN  \/ ~CutOff /\ can /\ daemon' = "running" /\ Return("ok")
           \/ (CutOff \/ Refused \/ ~can) /\ Fail /\ UNCHANGED daemon
           \/ Refused /\ can /\ daemon' = "running" /\ Fail
    /\ UNCHANGED <<files, enabled, loaded, user, data, given>>

\* Stop returned nil: Purge goes on, "raxd service stop" ends.
Stopped == IF cmd.op = "purge" THEN Goto("uninstallStat") ELSE Return("ok")

Stop ==
    /\ pc = "stop" /\ platform = "linux"
    /\ \/ ~CutOff /\ daemon' = Terminated /\ Goto("stopWait")
       \/ CutOff /\ Fail /\ UNCHANGED daemon
       \/ Refused /\ Fail /\ daemon' \in {daemon, Terminated}
    /\ UNCHANGED <<files, enabled, loaded, user, data, given>>

\* launchctl kill returns when the signal is sent, and fails without a process.
Kill ==
    /\ pc = "stop" /\ platform = "darwin"
    /\ LET can == loaded /\ daemon \in {"running", "stopping"}
       IN  \/ ~CutOff /\ can /\ daemon' = "stopping" /\ Stopped
           \/ (CutOff \/ Refused \/ ~can) /\ Fail /\ UNCHANGED daemon
           \/ Refused /\ can /\ daemon' = "stopping" /\ Fail
    /\ UNCHANGED <<files, enabled, loaded, user, data, given>>

\* Mutant: systemctl stop is not bound to the context.
MutUnbounded ==
    /\ pc = "stopWait" /\ daemon = "dead" /\ Stopped
    /\ UNCHANGED <<files, manager, user, data, given>>

\* systemctl stop has not returned yet.
StopWait ==
    /\ pc = "stopWait"
    /\ \/ daemon = "dead" /\ Stopped
       \/ CutOff /\ Fail
    /\ UNCHANGED <<files, manager, user, data, given>>

-------------------------------------------------------------------------------
(* Purge: Status, Stop, Uninstall, checks, record, account, directories *)

\* Status.Active: a daemon that is stopping or waiting to be restarted is not.
SystemdActive == daemon = "running"

\* "state = running" in the output of launchctl print.
LaunchdActive == loaded /\ daemon \in {"running", "stopping"}

\* A manager that does not answer is taken for a service that does not run.
PurgeStatus ==
    /\ pc = "status"
    /\ LET active == IF platform = "linux" THEN SystemdActive ELSE LaunchdActive
       IN  \/ unit = "absent" /\ Goto("uninstallStat")
           \/ /\ unit # "absent" /\ ~CutOff
              /\ Goto(IF active THEN "stop" ELSE "uninstallStat")
           \/ unit # "absent" /\ (CutOff \/ Refused) /\ GotoFailed("uninstallStat")
    /\ UNCHANGED <<files, manager, user, data, given>>

\* validatePurgePath: a directory that is not there passes, a link out of the
\* layout does not.
Validate ==
    /\ pc = "validate"
    /\ IF data \cap astray = {} THEN Goto("verify") ELSE Return("error")
    /\ UNCHANGED <<files, manager, user, data, given>>

\* The account was looked up, or is taken for absent though it may be there.
Found(there) == pc' = "audit" /\ cmd' = [cmd EXCEPT !.present = there]
NotSeen == pc' = "audit" /\ cmd' = [cmd EXCEPT !.present = FALSE, !.trouble = TRUE,
                                              !.blind = (user # "absent")]

\* getent that cannot be run (not there, or the context has ended) means "no such
\* account"; an exit code other than 2 is an error.
VerifyLinux ==
    /\ pc = "verify" /\ platform = "linux"
    /\ \/ ~CutOff /\ user = "login" /\ Return("error")
       \/ ~CutOff /\ user # "login" /\ Found(user = "system")
       \/ ~CutOff /\ "account" \in Faults /\ Fail
       \/ (CutOff \/ "account" \in Faults) /\ NotSeen
    /\ UNCHANGED <<files, manager, user, data, given>>

\* Any failure of dscl -read means "no such account".
VerifyDarwin ==
    /\ pc = "verify" /\ platform = "darwin"
    /\ \/ ~CutOff /\ user = "login" /\ Return("error")
       \/ ~CutOff /\ user # "login" /\ Found(user = "system")
       \/ (CutOff \/ "account" \in Faults) /\ NotSeen
    /\ UNCHANGED <<files, manager, user, data, given>>

\* Mutant: the record is written only if there is an account to delete.
MutRecordIfUser ==
    /\ pc = "audit" /\ pc' = "userdel"
    /\ cmd' = [cmd EXCEPT !.dirs = IF cmd.present THEN data ELSE {}]
    /\ UNCHANGED <<files, manager, user, data, given>>

\* emitPurgeAuditRecord, before anything is deleted.
Audit ==
    /\ pc = "audit"
    /\ pc' = "userdel"
    /\ cmd' = [cmd EXCEPT !.dirs = data]
    /\ UNCHANGED <<files, manager, user, data, given>>

HasProcess == daemon \in {"running", "stopping"}

\* Mutant: userdel --force.
MutForced ==
    /\ pc = "userdel" /\ platform = "linux"
    /\ user' = IF cmd.present THEN "absent" ELSE user
    /\ Goto("state")
    /\ UNCHANGED <<files, manager, data, given>>

\* userdel refuses (8) while the account has processes; it may fail (10) with the
\* account already gone.
Userdel ==
    /\ pc = "userdel" /\ platform = "linux"
    /\ \/ ~cmd.present /\ Goto("state") /\ UNCHANGED user
       \/ cmd.present /\ ~CutOff /\ ~HasProcess /\ user' = "absent" /\ Goto("state")
       \/ cmd.present /\ HasProcess /\ Return("error") /\ UNCHANGED user
       \/ cmd.present /\ (CutOff \/ "account" \in Faults) /\ Fail /\ UNCHANGED user
       \/ /\ cmd.present /\ "account" \in Faults /\ ~HasProcess
          /\ user' = "absent" /\ Fail
    /\ UNCHANGED <<files, manager, data, given>>

DsclDelete ==
    /\ pc = "userdel" /\ platform = "darwin"
    /\ \/ ~cmd.present /\ Goto("state") /\ UNCHANGED user
       \/ cmd.present /\ ~CutOff /\ user' = "absent" /\ Goto("state")
       \/ cmd.present /\ (CutOff \/ "account" \in Faults) /\ Fail /\ UNCHANGED user
    /\ UNCHANGED <<files, manager, data, given>>

\* os.RemoveAll of the state, the configuration and (macOS) the log directory.
RemoveDir ==
    /\ pc \in {"state", "config", "log"}
    /\ \/ /\ data' = data \ {pc}
          /\ CASE pc = "state" -> Goto("config")
               [] pc = "config" /\ platform = "darwin" -> Goto("log")
               [] OTHER -> Return("ok")
       \/ "io" \in Faults /\ Fail /\ UNCHANGED data
    /\ UNCHANGED <<files, manager, user, given>>

-------------------------------------------------------------------------------
(* The context, the daemon, the host *)

Expire ==
    /\ pc # "idle" /\ ~cmd.late
    /\ cmd' = [cmd EXCEPT !.late = TRUE, !.trouble = TRUE]
    /\ UNCHANGED <<files, manager, user, data, given, pc>>

Killed ==
    /\ "kill" \in Faults /\ pc # "idle"
    /\ pc' = "idle"
    /\ cmd' = [cmd EXCEPT !.result = "killed", !.at = pc]
    /\ UNCHANGED <<files, manager, user, data, given>>

\* The daemon ends by itself or because it was told to.  Restart=on-failure and
\* KeepAlive: one that failed is started again, and launchd does so also after a
\* signal it only passed on.  A manager may give up restarting.
DaemonEnds ==
    /\ daemon # "dead"
    /\ \/ daemon' = "dead"
       \/ /\ loaded
          /\ daemon = "running" \/ (daemon = "stopping" /\ platform = "darwin")
          /\ daemon' = "restarting"
    /\ UNCHANGED <<files, enabled, loaded, user, data, given, pc, cmd>>

Restart ==
    /\ daemon = "restarting" /\ loaded /\ user # "absent"
    /\ daemon' = "running"
    /\ data' = Made
    /\ UNCHANGED <<files, enabled, loaded, user, given, pc, cmd>>

Reboot ==
    /\ "reboot" \in Faults
    /\ LET up == enabled /\ unit = "written"
       IN  /\ loaded' = (IF platform = "linux" THEN unit = "written" ELSE up)
           /\ daemon' = IF up /\ user # "absent" THEN "running" ELSE "dead"
           /\ data' = IF up /\ user # "absent" THEN Made ELSE data
    /\ pc' = "idle"
    /\ cmd' = IF pc = "idle" THEN cmd ELSE [cmd EXCEPT !.result = "killed", !.at = pc]
    /\ UNCHANGED <<files, enabled, user, given>>

Step == \/ InstallStat \/ CreateUser \/ Render \/ CreateDirs \/ WriteUnit
        \/ WriteDropIn \/ InstallReload \/ InstallEnable \/ Bootstrap \/ EnableLabel
        \/ UninstallStat \/ Halt \/ HaltWait \/ Bootout \/ Disable \/ UninstallReload
        \/ RemoveUnit \/ RemoveDropIn \/ UninstallForget
        \/ Stat \/ Start \/ Kickstart \/ Stop \/ StopWait \/ Kill
        \/ PurgeStatus \/ Validate \/ VerifyLinux \/ VerifyDarwin \/ Audit
        \/ Userdel \/ DsclDelete \/ RemoveDir

Next == \/ \E o \in Ops : Call(o) \/ CallRefused(o)
        \/ Step \/ Expire \/ Killed
        \/ DaemonEnds \/ Restart \/ Reboot

Spec == Init /\ [][Next]_vars

\* A command goes on and its 30 s pass; nothing is assumed of the daemon.
FairSpec == Spec /\ WF_vars(Step) /\ WF_vars(Expire)

-------------------------------------------------------------------------------
(* Properties *)

Did(o, r) == pc = "idle" /\ cmd.op = o /\ cmd.result = r

\* An install that failed removes what it wrote, so that the next one does not take it
\* for a finished one, whichever of its calls failed: a unit is left only if its own
\* write tore it or the rollback could not remove it, a drop-in also if it was there
\* before without a unit.  (service.go:218 says this of any failure; with a unit left
\* the next install answers "already installed".)
FailedInstallCleansUp ==
    Did("install", "error") /\ cmd.at # "idle" =>
        /\ unit # "absent" => "unit" \in cmd.left
        /\ dropIn # "absent" => "dropIn" \in cmd.left \/ cmd.had = "dropIn"

\* "installed ... autostart enabled" is true of the host: unit and drop-in are
\* whole and, on Linux, the service comes up at the next boot.
InstalledIsComplete ==
    Did("install", "ok") =>
        /\ unit = "written"
        /\ platform = "linux" => dropIn = "written" /\ enabled /\ user # "absent"
        /\ cmd.trouble \/ enabled

\* What Install answers is what it leaves on the host.
InstallOutcome == FailedInstallCleansUp /\ InstalledIsComplete

\* After an uninstall in which no call failed nothing of the service is left:
\* no unit, no drop-in, no autostart, and no daemon that a restart or a reboot
\* could bring back.  (On macOS the old one may still be shutting down.)
UninstalledStaysDown ==
    Did("uninstall", "ok") /\ ~cmd.trouble =>
        /\ unit = "absent" /\ dropIn = "absent"
        /\ ~enabled /\ ~loaded
        /\ daemon = "dead" \/ (platform = "darwin" /\ daemon = "stopping")

\* Linux: no data is deleted under a live daemon, even if stopping it failed or
\* an earlier command left it running without a unit, as long as the account
\* could be looked up: userdel refuses first.
LiveDataKept == platform = "linux" /\ HasProcess => data \subseteq data' \/ cmd.blind

\* An account with a login shell is nobody's to delete, and neither is anything
\* behind a link: Purge refuses before its first deletion.  (Exempt: a lookup
\* that did not see the account, and a link systemd has put back meanwhile for a
\* service that an interrupted uninstall left in its memory.)
StrangersKept ==
    /\ user = "login" => user' = user /\ (data \subseteq data' \/ cmd.blind)
    /\ data \cap astray # {} => \/ data \subseteq data'
                                \/ platform = "linux" /\ loaded

\* Purge deletes neither what is in use nor what is not raxd's.
PurgeSpares == [][LiveDataKept /\ StrangersKept]_vars

\* What Purge deletes it has put on record before: the account, and every
\* directory, unless systemd still has the service, which an interrupted or
\* failed uninstall left behind, and has made the directory anew for it.
RecordedFirst ==
    [][/\ user # "absent" /\ user' = "absent" => cmd.present
       /\ platform = "darwin" \/ ~loaded => data \ data' \subseteq cmd.dirs]_vars

\* "raxd has been fully removed from this host": when Purge ends well and saw the
\* account, then account, data and unit are gone, and so is the drop-in, unless an
\* earlier command had left it without a unit: Uninstall then ends before it, and no
\* Purge removes it any more.
PurgeIsComplete ==
    Did("purge", "ok") /\ ~cmd.blind =>
        /\ user = "absent" /\ data = {}
        /\ unit = "absent"
        /\ dropIn # "absent" => cmd.had = "dropIn"

\* A Purge none of whose calls fails gives up only for a stranger's account, a link, or,
\* on Linux, a live daemon that an earlier command left without its unit, which Purge
\* does not stop.  As long as that daemon lives every Purge ends so; one that finds the
\* unit has stopped the daemon for good before it reaches the account.
PurgeNeverWedged ==
    [][Did("purge", "error")' /\ pc # "idle" /\ ~cmd'.trouble =>
          \/ user = "login" \/ data \cap astray # {}
          \/ platform = "linux" /\ HasProcess /\ cmd.had # "unit"]_vars

\* Every command ends, although the daemon may refuse to stop and the manager not to
\* answer: the context of 30 s covers every call of the manager and of the account
\* tools.  (It does not cover the chown of createDirs, launchd.go:116.)
EveryCommandReturns == pc # "idle" ~> pc = "idle"
===============================================================================
