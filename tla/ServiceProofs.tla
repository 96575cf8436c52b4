----------------------------- MODULE ServiceProofs -----------------------------
(***************************************************************************)
(* Theorems about Service for every choice of platforms and faults.  TLC   *)
(* reaches every state of this component; what the proofs add is why the   *)
(* properties hold: the inductive invariant Inv says, at each step of      *)
(* install, uninstall and purge, what the command has established so far   *)
(* and neither the daemon, the manager, a kill nor a reboot undoes.        *)
(***************************************************************************)
EXTENDS Service, TLAPS

InstallSteps == {"installStat", "useradd", "render", "createDirs", "writeUnit",
                 "writeDropIn", "reload", "enable", "bootstrap", "enableLabel"}
UninstallSteps == {"uninstallStat", "halt", "haltWait", "disable", "forget",
                   "removeUnit", "removeDropIn", "reloadLast"}
RemoveSteps == {"state", "config", "log"}
PurgeSteps == {"status", "validate", "verify", "audit", "userdel"} \cup RemoveSteps

\* Which command and which platform a step belongs to.
StepFits ==
    /\ pc \in InstallSteps => cmd.op = "install"
    /\ pc \in UninstallSteps => cmd.op \in {"uninstall", "purge"}
    /\ pc \in PurgeSteps => cmd.op = "purge"
    /\ pc \in {"stat", "start"} => cmd.op \in {"start", "stop"}
    /\ pc \in {"stop", "stopWait"} => cmd.op \in {"stop", "purge"}
    /\ pc \in {"useradd", "writeDropIn", "reload", "enable", "haltWait", "forget",
               "removeDropIn", "reloadLast"} => platform = "linux"
    /\ pc \in {"createDirs", "bootstrap", "enableLabel", "log"} => platform = "darwin"

\* A command whose context has ended has seen a call fail.
LateIsTrouble == cmd.late => cmd.trouble

\* Install has written what the call it is about to make needs.
Installing ==
    /\ pc \in {"writeDropIn", "reload", "enable", "bootstrap", "enableLabel"} =>
          unit = "written"
    /\ pc \in {"reload", "enable"} => dropIn = "written"
    /\ pc \in InstallSteps \ {"installStat", "useradd"} /\ platform = "linux" =>
          user # "absent"

\* A command knows what was installed when it began until it changes it: Install has
\* no unit and no drop-in of its own yet, Purge is past a drop-in that had a unit.
Begun ==
    /\ cmd.op \in {"install", "purge"}
       /\ pc \in {"installStat", "status", "stop", "stopWait", "uninstallStat"} =>
          cmd.had = Installed
    /\ pc \in {"useradd", "render", "createDirs", "writeUnit"} => unit = "absent"
    /\ pc \in {"useradd", "render", "createDirs", "writeUnit", "writeDropIn", "validate",
               "verify", "audit", "userdel"} \cup RemoveSteps =>
          dropIn = "absent" \/ cmd.had = "dropIn"

\* The daemon has ended or, on macOS, been told to.
Down == daemon = "dead" \/ (platform = "darwin" /\ daemon = "stopping")

\* An uninstall, or that of a purge, in which no call has failed: the daemon is down for
\* good before anything is removed, and on Linux ended before the account is deleted.
Uninstalling ==
    ~cmd.trouble =>
        /\ pc = "haltWait" => daemon \in {"stopping", "dead"}
        /\ pc \in {"disable", "forget", "removeUnit", "removeDropIn", "reloadLast"} => Down
        /\ pc \in {"disable", "removeUnit"} /\ platform = "darwin" => ~loaded
        /\ pc \in {"forget", "removeUnit", "removeDropIn", "reloadLast"} => ~enabled
        /\ pc \in {"validate", "verify", "audit", "userdel"} =>
              cmd.had # "unit" \/ platform = "darwin" \/ daemon = "dead"

\* Uninstall removes the unit before the drop-in, and Purge starts deleting after it.
Removing ==
    /\ pc \in {"removeDropIn", "reloadLast"} \cup (PurgeSteps \ {"status"}) =>
          unit = "absent"
    /\ pc = "reloadLast" => dropIn = "absent"

\* On Linux the account outlives its processes: userdel refuses while there is one.
NoOrphan == platform = "linux" /\ user = "absent" => ~HasProcess

\* Purge: what it has looked up, put on record and deleted stays true.  systemd may
\* make a directory anew, but only for a service it still has in memory.
Purging ==
    /\ pc \in {"audit", "userdel"} =>
          /\ cmd.present => user = "system"
          /\ ~cmd.present => user = "absent" \/ cmd.blind
    /\ pc \in RemoveSteps => user = "absent" \/ cmd.blind
    /\ pc \in {"verify", "audit", "userdel"} \cup RemoveSteps =>
          data \cap astray = {} \/ (platform = "linux" /\ loaded)
    /\ pc \in {"userdel"} \cup RemoveSteps =>
          data \subseteq cmd.dirs \/ (platform = "linux" /\ loaded)
    /\ pc \in {"config", "log"} => "state" \notin data \/ cmd.blind
    /\ pc = "log" => "config" \notin data \/ cmd.blind

Inv == /\ TypeOK /\ StepFits /\ LateIsTrouble /\ Installing /\ Begun /\ Uninstalling
       /\ Removing /\ NoOrphan /\ Purging
       /\ FailedInstallCleansUp /\ InstalledIsComplete /\ UninstalledStaysDown
       /\ PurgeIsComplete

-------------------------------------------------------------------------------
(* The steps of the specification by the command they belong to.           *)

CallStep == \E o \in Ops : Call(o) \/ CallRefused(o)
InstallStep == InstallStat \/ CreateUser \/ Render \/ CreateDirs \/ WriteUnit
               \/ WriteDropIn \/ InstallReload \/ InstallEnable \/ Bootstrap
               \/ EnableLabel
UninstallStep == UninstallStat \/ Halt \/ HaltWait \/ Bootout \/ Disable
                 \/ UninstallReload \/ RemoveUnit \/ RemoveDropIn \/ UninstallForget
ControlStep == Stat \/ Start \/ Kickstart \/ Stop \/ StopWait \/ Kill
PurgeStep == PurgeStatus \/ Validate \/ VerifyLinux \/ VerifyDarwin \/ Audit
             \/ Userdel \/ DsclDelete \/ RemoveDir
WorldStep == Expire \/ Killed \/ DaemonEnds \/ Restart \/ Reboot

\* Every step is one of these.
LEMMA NextSteps ==
    Next => \/ CallStep \/ InstallStep \/ UninstallStep \/ ControlStep \/ PurgeStep
            \/ WorldStep
  BY DEF Next, Step, CallStep, InstallStep, UninstallStep, ControlStep, PurgeStep, WorldStep

\* What cmd may be.
Commands == [op : Ops, late : BOOLEAN, trouble : BOOLEAN, blind : BOOLEAN,
             present : BOOLEAN, dirs : SUBSET Dirs, had : {"unit", "dropIn", "none"},
             left : SUBSET {"unit", "dropIn"}, at : Steps, result : Results]

\* Removing a directory, done or failed, leaves what Purge knows of the host.
LEMMA RemoveDirKeeps ==
    ASSUME cmd \in Commands, RemoveDir
    PROVE  cmd'.blind = cmd.blind /\ cmd'.had = cmd.had
  BY DEF Commands, RemoveDir, Goto, Return, ReturnFailed, Fail

\* What a step writes into cmd keeps its type.
LEMMA CommandEdits ==
    ASSUME cmd \in Commands, pc \in Steps, data \subseteq Dirs
    PROVE  /\ \A o \in Ops : /\ Fresh(o) \in Commands
                             /\ [Fresh(o) EXCEPT !.result = "error"] \in Commands
           /\ [cmd EXCEPT !.trouble = TRUE] \in Commands
           /\ [cmd EXCEPT !.late = TRUE, !.trouble = TRUE] \in Commands
           /\ [cmd EXCEPT !.dirs = data] \in Commands
           /\ \A there \in BOOLEAN : [cmd EXCEPT !.present = there] \in Commands
           /\ \A b \in BOOLEAN : [cmd EXCEPT !.present = FALSE, !.trouble = TRUE,
                                             !.blind = b] \in Commands
           /\ \A r \in Results, a \in Steps :
                /\ [cmd EXCEPT !.result = r, !.at = a] \in Commands
                /\ [cmd EXCEPT !.result = r, !.at = a, !.trouble = TRUE] \in Commands
                /\ \A fs \in SUBSET {"unit", "dropIn"} :
                     [cmd EXCEPT !.result = r, !.at = a, !.trouble = TRUE,
                                 !.left = fs] \in Commands
  <1>1. \A o \in Ops : /\ Fresh(o) \in Commands
                       /\ [Fresh(o) EXCEPT !.result = "error"] \in Commands
    <2>1. Installed \in {"unit", "dropIn", "none"}
      BY DEF Installed
    <2>2. \A o \in Ops : Fresh(o) \in Commands
      BY <2>1 DEF Commands, Fresh, Steps, Results
    <2> QED
      BY <2>2 DEF Commands, Results
  <1> QED
    BY <1>1 DEF Commands

\* An install that ends in an error and leaves fs behind.
LEMMA LeavingCommand ==
    ASSUME cmd \in Commands, pc \in Steps, NEW fs, fs \subseteq {"unit", "dropIn"},
           FailLeaving(fs)
    PROVE  /\ pc' = "idle" /\ cmd' \in Commands
           /\ cmd'.op = cmd.op /\ cmd'.had = cmd.had /\ cmd'.late = cmd.late
           /\ cmd'.at = pc /\ cmd'.result = "error" /\ cmd'.trouble /\ cmd'.left = fs
  <1>1. fs \in SUBSET {"unit", "dropIn"} /\ "error" \in Results
    BY DEF Results
  <1>2. cmd' = [cmd EXCEPT !.result = "error", !.at = pc, !.trouble = TRUE, !.left = fs]
    BY DEF FailLeaving
  <1>3. cmd' \in Commands
    BY <1>1, <1>2 DEF Commands
  <1> QED
    BY <1>2, <1>3 DEF FailLeaving, Commands

\* After a rollback a file is gone, or the command knows that it was left.
LEMMA RolledBack ==
    ASSUME cmd \in Commands, pc \in Steps, NEW both \in BOOLEAN, NEW torn,
           torn \subseteq {"unit", "dropIn"}, Rollback(both, torn)
    PROVE  /\ pc' = "idle" /\ cmd' \in Commands
           /\ cmd'.op = cmd.op /\ cmd'.had = cmd.had /\ cmd'.late = cmd.late
           /\ cmd'.at = pc /\ cmd'.result = "error" /\ cmd'.trouble
           /\ torn \subseteq cmd'.left
           /\ unit' = "absent" \/ (unit' = unit /\ "unit" \in cmd'.left)
           /\ both => dropIn' = "absent" \/ (dropIn' = dropIn /\ "dropIn" \in cmd'.left)
  <1>1. PICK kept \in SUBSET ({"unit"} \cup IF both THEN {"dropIn"} ELSE {}) :
           /\ unit' = IF "unit" \in kept THEN unit ELSE "absent"
           /\ both => dropIn' = IF "dropIn" \in kept THEN dropIn ELSE "absent"
           /\ FailLeaving(kept \cup torn)
    BY DEF Rollback
  <1>2. kept \cup torn \subseteq {"unit", "dropIn"}
    OBVIOUS
  <1>3. /\ pc' = "idle" /\ cmd' \in Commands
        /\ cmd'.op = cmd.op /\ cmd'.had = cmd.had /\ cmd'.late = cmd.late
        /\ cmd'.at = pc /\ cmd'.result = "error" /\ cmd'.trouble
        /\ cmd'.left = kept \cup torn
    BY <1>1, <1>2, LeavingCommand
  <1> QED
    BY <1>1, <1>3

\* A step of Install belongs to the command that was called.
LEMMA InstallKeepsOp ==
    ASSUME TypeOK, InstallStep
    PROVE  cmd'.op = cmd.op
  <1> USE DEF Goto, Return, ReturnFailed, Fail
  <1>1. cmd \in Commands /\ pc \in Steps
    BY DEF TypeOK, Commands
  <1>2. CASE InstallStat \/ CreateUser \/ Render \/ CreateDirs \/ EnableLabel
    BY <1>1, <1>2 DEF InstallStat, CreateUser, Render, CreateDirs, EnableLabel, Commands
  <1>3. CASE WriteUnit
    BY <1>1, <1>3, LeavingCommand DEF WriteUnit, Commands
  <1>4. CASE WriteDropIn
    BY <1>1, <1>4, RolledBack DEF WriteDropIn
  <1>5. CASE InstallReload
    BY <1>1, <1>5, RolledBack DEF InstallReload
  <1>6. CASE InstallEnable
    BY <1>1, <1>6, RolledBack DEF InstallEnable, Commands
  <1>7. CASE Bootstrap
    BY <1>1, <1>7, RolledBack DEF Bootstrap
  <1> QED
    BY <1>2, <1>3, <1>4, <1>5, <1>6, <1>7 DEF InstallStep

-------------------------------------------------------------------------------
(* Type correctness, and which step belongs to which command.              *)

\* The platform and the links are given.
LEMMA GivenStays ==
    ASSUME Next
    PROVE  platform' = platform /\ astray' = astray
  <1> USE DEF given
  <1>0. CASE CallStep
    BY <1>0 DEF CallStep, Call, CallRefused
  <1>1. CASE InstallStep
    BY <1>1 DEF InstallStep, InstallStat, CreateUser, Render, CreateDirs, WriteUnit,
                WriteDropIn, InstallReload, InstallEnable, Bootstrap, EnableLabel
  <1>2. CASE UninstallStep
    BY <1>2 DEF UninstallStep, UninstallStat, Halt, HaltWait, Bootout, Disable,
                UninstallReload, RemoveUnit, RemoveDropIn, UninstallForget
  <1>3. CASE ControlStep
    BY <1>3 DEF ControlStep, Stat, Start, Kickstart, Stop, StopWait, Kill
  <1>4. CASE PurgeStep
    BY <1>4 DEF PurgeStep, PurgeStatus, Validate, VerifyLinux, VerifyDarwin, Audit,
                Userdel, DsclDelete, RemoveDir
  <1>5. CASE WorldStep
    BY <1>5 DEF WorldStep, Expire, Killed, DaemonEnds, Restart, Reboot
  <1> QED
    BY NextSteps, <1>0, <1>1, <1>2, <1>3, <1>4, <1>5

\* The part of the type invariant about the host.
HostTyped ==
    /\ unit \in {"absent", "torn", "written"}
    /\ dropIn \in {"absent", "torn", "written"}
    /\ user \in {"absent", "system", "login"}
    /\ daemon \in {"dead", "running", "stopping", "restarting"}
    /\ enabled \in BOOLEAN /\ loaded \in BOOLEAN

\* What the host is left with after each call has its type.
LEMMA HostStep ==
    ASSUME HostTyped, Next
    PROVE  HostTyped'
  <1> USE DEF HostTyped, Rollback, DaemonReload, Load, Terminated, files, manager
  <1>0. CASE CallStep
    BY <1>0 DEF CallStep, Call, CallRefused
  <1>1. CASE InstallStep
    BY <1>1 DEF InstallStep, InstallStat, CreateUser, Render, CreateDirs, WriteUnit,
                WriteDropIn, InstallReload, InstallEnable, Bootstrap, EnableLabel
  <1>2. CASE UninstallStep
    BY <1>2 DEF UninstallStep, UninstallStat, Halt, HaltWait, Bootout, Disable,
                UninstallReload, RemoveUnit, RemoveDropIn, UninstallForget
  <1>3. CASE ControlStep
    BY <1>3 DEF ControlStep, Stat, Start, Kickstart, Stop, StopWait, Kill
  <1>4. CASE PurgeStep
    BY <1>4 DEF PurgeStep, PurgeStatus, Validate, VerifyLinux, VerifyDarwin, Audit,
                Userdel, DsclDelete, RemoveDir
  <1>5. CASE WorldStep
    BY <1>5 DEF WorldStep, Expire, Killed, DaemonEnds, Restart, Reboot
  <1> QED
    BY NextSteps, <1>0, <1>1, <1>2, <1>3, <1>4, <1>5

\* A directory that a step makes belongs to the platform.
LEMMA DataStep ==
    ASSUME TypeOK, StepFits, Next
    PROVE  data' \subseteq Dirs
  <1> USE DEF TypeOK, Dirs, StepFits, Made
  <1>0. CASE CallStep
    BY <1>0 DEF CallStep, Call, CallRefused
  <1>1. CASE InstallStep
    BY <1>1 DEF InstallStep, InstallStat, CreateUser, Render, CreateDirs, WriteUnit,
                WriteDropIn, InstallReload, InstallEnable, Bootstrap, EnableLabel
  <1>2. CASE UninstallStep
    BY <1>2 DEF UninstallStep, UninstallStat, Halt, HaltWait, Bootout, Disable,
                UninstallReload, RemoveUnit, RemoveDropIn, UninstallForget
  <1>3. CASE ControlStep
    BY <1>3 DEF ControlStep, Stat, Start, Kickstart, Stop, StopWait, Kill
  <1>4. CASE PurgeStep
    BY <1>4 DEF PurgeStep, PurgeStatus, Validate, VerifyLinux, VerifyDarwin, Audit,
                Userdel, DsclDelete, RemoveDir
  <1>5. CASE WorldStep
    BY <1>5 DEF WorldStep, Expire, Killed, DaemonEnds, Restart, Reboot
  <1> QED
    BY NextSteps, <1>0, <1>1, <1>2, <1>3, <1>4, <1>5

\* Each step leaves a command with a state the code has a name for.
LEMMA CommandStep ==
    ASSUME cmd \in Commands, pc \in Steps, data \subseteq Dirs, Next
    PROVE  cmd' \in Commands
  <1> USE CommandEdits DEF Results, Steps, Goto, GotoFailed, Return, ReturnFailed,
              Fail, Uninstalled, Stopped, Found, NotSeen
  <1>0. CASE CallStep
    <2>1. PICK o \in Ops : Call(o) \/ CallRefused(o)
      BY <1>0 DEF CallStep
    <2> QED
      BY <2>1 DEF Call, CallRefused
  <1>1. CASE InstallStep
    <2>1. CASE InstallStat
      BY <2>1 DEF InstallStat
    <2>2. CASE CreateUser
      BY <2>2 DEF CreateUser
    <2>3. CASE Render
      BY <2>3 DEF Render
    <2>4. CASE CreateDirs
      BY <2>4 DEF CreateDirs
    <2>5. CASE WriteUnit
      BY <2>5, LeavingCommand DEF WriteUnit
    <2>6. CASE WriteDropIn
      BY <2>6, RolledBack DEF WriteDropIn
    <2>7. CASE InstallReload
      BY <2>7, RolledBack DEF InstallReload
    <2>8. CASE InstallEnable
      BY <2>8, RolledBack DEF InstallEnable
    <2>9. CASE Bootstrap
      BY <2>9, RolledBack DEF Bootstrap
    <2>10. CASE EnableLabel
      BY <2>10 DEF EnableLabel
    <2> QED
      BY <1>1, <2>1, <2>2, <2>3, <2>4, <2>5, <2>6, <2>7, <2>8, <2>9, <2>10 DEF
         InstallStep
  <1>2. CASE UninstallStep
    BY <1>2 DEF UninstallStep, UninstallStat, Halt, HaltWait, Bootout, Disable,
                UninstallReload, RemoveUnit, RemoveDropIn, UninstallForget
  <1>3. CASE ControlStep
    BY <1>3 DEF ControlStep, Stat, Start, Kickstart, Stop, StopWait, Kill
  <1>4. CASE PurgeStep
    BY <1>4 DEF PurgeStep, PurgeStatus, Validate, VerifyLinux, VerifyDarwin, Audit,
                Userdel, DsclDelete, RemoveDir
  <1>5. CASE WorldStep
    BY <1>5 DEF WorldStep, Expire, Killed, DaemonEnds, Restart, Reboot
  <1> QED
    BY NextSteps, <1>0, <1>1, <1>2, <1>3, <1>4, <1>5

\* A command has a result exactly when it has returned; its context ending is a failure.
LEMMA IdleStep ==
    ASSUME cmd \in Commands, (pc = "idle") = (cmd.result # "none"), StepFits,
           LateIsTrouble, Next
    PROVE  ((pc = "idle") = (cmd.result # "none"))' /\ LateIsTrouble'
  <1> USE DEF Commands, Results, LateIsTrouble, StepFits, Goto, GotoFailed, Return,
              ReturnFailed, Fail, FailLeaving, Rollback, Uninstalled, Stopped, Found, NotSeen
  <1>0. CASE CallStep
    BY <1>0 DEF CallStep, Call, CallRefused, Fresh, First, Ops
  <1>1. CASE InstallStep
    BY <1>1 DEF InstallStep, InstallStat, CreateUser, Render, CreateDirs, WriteUnit,
                WriteDropIn, InstallReload, InstallEnable, Bootstrap, EnableLabel
  <1>2. CASE UninstallStep
    BY <1>2 DEF UninstallStep, UninstallStat, Halt, HaltWait, Bootout, Disable,
                UninstallReload, RemoveUnit, RemoveDropIn, UninstallForget
  <1>3. CASE ControlStep
    BY <1>3 DEF ControlStep, Stat, Start, Kickstart, Stop, StopWait, Kill
  <1>4. CASE PurgeStep
    BY <1>4 DEF PurgeStep, PurgeStatus, Validate, VerifyLinux, VerifyDarwin, Audit,
                Userdel, DsclDelete, RemoveDir
  <1>5. CASE WorldStep
    BY <1>5 DEF WorldStep, Expire, Killed, DaemonEnds, Restart, Reboot
  <1> QED
    BY NextSteps, <1>0, <1>1, <1>2, <1>3, <1>4, <1>5

\* Each step leads to a step of the same command on the same platform.
LEMMA FitsStep ==
    ASSUME TypeOK, StepFits, Next
    PROVE  pc' \in Steps /\ StepFits'
  <1> USE ServiceAssumption DEF TypeOK, StepFits, Steps, InstallSteps, UninstallSteps,
              PurgeSteps, RemoveSteps, Goto, GotoFailed, Return, ReturnFailed, Fail,
              FailLeaving, Rollback, Uninstalled, Stopped, Found, NotSeen, given
  <1>0. CASE CallStep
    BY <1>0 DEF CallStep, Call, CallRefused, Fresh, First, Ops
  <1>1. CASE InstallStep
    BY <1>1 DEF InstallStep, InstallStat, CreateUser, Render, CreateDirs, WriteUnit,
                WriteDropIn, InstallReload, InstallEnable, Bootstrap, EnableLabel
  <1>2. CASE UninstallStep
    BY <1>2 DEF UninstallStep, UninstallStat, Halt, HaltWait, Bootout, Disable,
                UninstallReload, RemoveUnit, RemoveDropIn, UninstallForget
  <1>3. CASE ControlStep
    BY <1>3 DEF ControlStep, Stat, Start, Kickstart, Stop, StopWait, Kill
  <1>4. CASE PurgeStep
    BY <1>4 DEF PurgeStep, PurgeStatus, Validate, VerifyLinux, VerifyDarwin, Audit,
                Userdel, DsclDelete, RemoveDir
  <1>5. CASE WorldStep
    <2>1. CASE Expire
      BY <2>1 DEF Expire
    <2>2. CASE Killed
      BY <2>2 DEF Killed
    <2>3. CASE DaemonEnds
      BY <2>3 DEF DaemonEnds
    <2>4. CASE Restart
      BY <2>4 DEF Restart
    <2>5. CASE Reboot
      BY <2>5 DEF Reboot
    <2> QED
      BY <1>5, <2>1, <2>2, <2>3, <2>4, <2>5 DEF WorldStep
  <1> QED
    BY NextSteps, <1>0, <1>1, <1>2, <1>3, <1>4, <1>5

-------------------------------------------------------------------------------
(* What a command has established stays true: one lemma per part of Inv.   *)

\* Install writes unit and drop-in, and on Linux has the account, before it goes on.
LEMMA InstallingStep ==
    ASSUME TypeOK, StepFits, LateIsTrouble, Installing, Next
    PROVE  Installing'
  <1> USE ServiceAssumption DEF TypeOK, StepFits, Installing, InstallSteps,
              UninstallSteps, PurgeSteps, RemoveSteps, Goto, GotoFailed, Return,
              ReturnFailed, Fail, FailLeaving, Rollback, Uninstalled, Stopped, Found, NotSeen,
              files, given
  <1>0. CASE CallStep
    BY <1>0 DEF CallStep, Call, CallRefused, Fresh, First, Ops
  <1>1. CASE InstallStep
    BY <1>1 DEF InstallStep, InstallStat, CreateUser, Render, CreateDirs, WriteUnit,
                WriteDropIn, InstallReload, InstallEnable, Bootstrap, EnableLabel
  <1>2. CASE UninstallStep
    BY <1>2 DEF UninstallStep, UninstallStat, Halt, HaltWait, Bootout, Disable,
                UninstallReload, RemoveUnit, RemoveDropIn, UninstallForget
  <1>3. CASE ControlStep
    BY <1>3 DEF ControlStep, Stat, Start, Kickstart, Stop, StopWait, Kill
  <1>4. CASE PurgeStep
    BY <1>4 DEF PurgeStep, PurgeStatus, Validate, VerifyLinux, VerifyDarwin, Audit,
                Userdel, DsclDelete, RemoveDir
  <1>5. CASE WorldStep
    BY <1>5 DEF WorldStep, Expire, Killed, DaemonEnds, Restart, Reboot
  <1> QED
    BY NextSteps, <1>0, <1>1, <1>2, <1>3, <1>4, <1>5

\* A failed install leaves only what a write tore or the rollback could not remove.
LEMMA CleansUpStep ==
    ASSUME TypeOK, StepFits, LateIsTrouble, Installing, Begun,
           FailedInstallCleansUp, Next
    PROVE  FailedInstallCleansUp'
  <1> USE ServiceAssumption DEF TypeOK, StepFits, Begun, FailedInstallCleansUp, Did,
              InstallSteps, UninstallSteps, PurgeSteps, RemoveSteps, Goto, GotoFailed,
              Return, ReturnFailed, Fail, Uninstalled, Stopped, Found,
              NotSeen, files
  <1>0. CASE CallStep
    BY <1>0 DEF CallStep, Call, CallRefused, Fresh, First, Ops
  <1>1. CASE InstallStep
    <2>1. CASE InstallStat
      BY <2>1 DEF InstallStat
    <2>2. CASE CreateUser
      BY <2>2 DEF CreateUser
    <2>3. CASE Render
      BY <2>3 DEF Render
    <2>4. CASE CreateDirs
      BY <2>4 DEF CreateDirs
    <2>5. CASE WriteUnit
      <3>1. CASE pc' = "idle" /\ unit' = "torn" /\ FailLeaving({"unit"})
        <4>1. cmd'.left = {"unit"} /\ cmd'.had = cmd.had
          BY <3>1, LeavingCommand DEF Commands
        <4> QED
          BY <2>5, <3>1, <4>1 DEF WriteUnit
      <3>2. CASE pc' # "idle"
        BY <3>2
      <3>3. CASE unit' = "absent" /\ Fail
        BY <2>5, <3>3 DEF WriteUnit
      <3> QED
        BY <2>5, <3>1, <3>2, <3>3 DEF WriteUnit, FailLeaving
    <2>6. CASE WriteDropIn
      BY <2>6, RolledBack DEF WriteDropIn, Commands
    <2>7. CASE InstallReload
      BY <2>7, RolledBack DEF InstallReload, Commands
    <2>8. CASE InstallEnable
      BY <2>8, RolledBack DEF InstallEnable, Commands
    <2>9. CASE Bootstrap
      BY <2>9, RolledBack DEF Bootstrap, Commands
    <2>10. CASE EnableLabel
      BY <2>10 DEF EnableLabel
    <2> QED
      BY <1>1, <2>1, <2>2, <2>3, <2>4, <2>5, <2>6, <2>7, <2>8, <2>9, <2>10 DEF
         InstallStep
  <1>2. CASE UninstallStep
    BY <1>2 DEF UninstallStep, UninstallStat, Halt, HaltWait, Bootout, Disable,
                UninstallReload, RemoveUnit, RemoveDropIn, UninstallForget
  <1>3. CASE ControlStep
    BY <1>3 DEF ControlStep, Stat, Start, Kickstart, Stop, StopWait, Kill
  <1>4. CASE PurgeStep
    BY <1>4 DEF PurgeStep, PurgeStatus, Validate, VerifyLinux, VerifyDarwin, Audit,
                Userdel, DsclDelete, RemoveDir
  <1>5. CASE WorldStep
    BY <1>5 DEF WorldStep, Expire, Killed, DaemonEnds, Restart, Reboot
  <1> QED
    BY NextSteps, <1>0, <1>1, <1>2, <1>3, <1>4, <1>5

\* Install reports success when everything it promises is in place.
LEMMA InstalledStep ==
    ASSUME TypeOK, StepFits, LateIsTrouble, Installing, InstalledIsComplete, Next
    PROVE  InstalledIsComplete'
  <1> USE ServiceAssumption DEF TypeOK, StepFits, Installing, InstalledIsComplete,
              Did, InstallSteps, UninstallSteps, PurgeSteps, RemoveSteps, Goto,
              GotoFailed, Return, ReturnFailed, Fail, FailLeaving, Rollback, Uninstalled, Stopped,
              Found, NotSeen, files, manager, given
  <1>0. CASE CallStep
    BY <1>0 DEF CallStep, Call, CallRefused, Fresh, First, Ops
  <1>1. CASE InstallStep
    BY <1>1 DEF InstallStep, InstallStat, CreateUser, Render, CreateDirs, WriteUnit,
                WriteDropIn, InstallReload, InstallEnable, Bootstrap, EnableLabel
  <1>2. CASE UninstallStep
    BY <1>2 DEF UninstallStep, UninstallStat, Halt, HaltWait, Bootout, Disable,
                UninstallReload, RemoveUnit, RemoveDropIn, UninstallForget
  <1>3. CASE ControlStep
    BY <1>3 DEF ControlStep, Stat, Start, Kickstart, Stop, StopWait, Kill
  <1>4. CASE PurgeStep
    BY <1>4 DEF PurgeStep, PurgeStatus, Validate, VerifyLinux, VerifyDarwin, Audit,
                Userdel, DsclDelete, RemoveDir
  <1>5. CASE WorldStep
    <2>1. CASE Expire
      BY <2>1 DEF Expire
    <2>2. CASE Killed
      BY <2>2 DEF Killed
    <2>3. CASE DaemonEnds
      BY <2>3 DEF DaemonEnds
    <2>4. CASE Restart
      BY <2>4 DEF Restart
    <2>5. CASE Reboot
      BY <2>5 DEF Reboot
    <2> QED
      BY <1>5, <2>1, <2>2, <2>3, <2>4, <2>5 DEF
         WorldStep
  <1> QED
    BY NextSteps, <1>0, <1>1, <1>2, <1>3, <1>4, <1>5

\* Nothing writes a unit or a drop-in that Uninstall has removed.
LEMMA RemovingStep ==
    ASSUME TypeOK, StepFits, LateIsTrouble, Removing, Next
    PROVE  Removing'
  <1> USE ServiceAssumption DEF TypeOK, StepFits, Removing, InstallSteps,
              UninstallSteps, PurgeSteps, RemoveSteps, Goto, GotoFailed, Return,
              ReturnFailed, Fail, FailLeaving, Rollback, Uninstalled, Stopped, Found, NotSeen,
              files
  <1>0. CASE CallStep
    BY <1>0 DEF CallStep, Call, CallRefused, Fresh, First, Ops
  <1>1. CASE InstallStep
    BY <1>1 DEF InstallStep, InstallStat, CreateUser, Render, CreateDirs, WriteUnit,
                WriteDropIn, InstallReload, InstallEnable, Bootstrap, EnableLabel
  <1>2. CASE UninstallStep
    BY <1>2 DEF UninstallStep, UninstallStat, Halt, HaltWait, Bootout, Disable,
                UninstallReload, RemoveUnit, RemoveDropIn, UninstallForget
  <1>3. CASE ControlStep
    BY <1>3 DEF ControlStep, Stat, Start, Kickstart, Stop, StopWait, Kill
  <1>4. CASE PurgeStep
    BY <1>4 DEF PurgeStep, PurgeStatus, Validate, VerifyLinux, VerifyDarwin, Audit,
                Userdel, DsclDelete, RemoveDir
  <1>5. CASE WorldStep
    BY <1>5 DEF WorldStep, Expire, Killed, DaemonEnds, Restart, Reboot
  <1> QED
    BY NextSteps, <1>0, <1>1, <1>2, <1>3, <1>4, <1>5

\* What was installed when a command began stays so until its own first change.
LEMMA BegunStep ==
    ASSUME TypeOK, StepFits, LateIsTrouble, Removing, Begun, Next
    PROVE  Begun'
  <1> USE ServiceAssumption DEF TypeOK, StepFits, Removing, Begun, Installed, InstallSteps,
              UninstallSteps, PurgeSteps, RemoveSteps, Goto, GotoFailed, Return,
              ReturnFailed, Fail, FailLeaving, Rollback, Uninstalled, Stopped, Found, NotSeen,
              files
  <1>0. CASE CallStep
    BY <1>0 DEF CallStep, Call, CallRefused, Fresh, First, Ops
  <1>1. CASE InstallStep
    BY <1>1 DEF InstallStep, InstallStat, CreateUser, Render, CreateDirs, WriteUnit,
                WriteDropIn, InstallReload, InstallEnable, Bootstrap, EnableLabel
  <1>2. CASE UninstallStep
    BY <1>2 DEF UninstallStep, UninstallStat, Halt, HaltWait, Bootout, Disable,
                UninstallReload, RemoveUnit, RemoveDropIn, UninstallForget
  <1>3. CASE ControlStep
    BY <1>3 DEF ControlStep, Stat, Start, Kickstart, Stop, StopWait, Kill
  <1>4. CASE PurgeStep
    BY <1>4 DEF PurgeStep, PurgeStatus, Validate, VerifyLinux, VerifyDarwin, Audit,
                Userdel, DsclDelete, RemoveDir
  <1>5. CASE WorldStep
    BY <1>5 DEF WorldStep, Expire, Killed, DaemonEnds, Restart, Reboot
  <1> QED
    BY NextSteps, <1>0, <1>1, <1>2, <1>3, <1>4, <1>5

\* A daemon that Uninstall has stopped is not restarted behind its back.
LEMMA UninstallingStep ==
    ASSUME TypeOK, StepFits, LateIsTrouble, Begun, Uninstalling, Next
    PROVE  Uninstalling'
  <1> USE ServiceAssumption DEF TypeOK, StepFits, LateIsTrouble, Begun, Installed,
              Uninstalling, Down,
              InstallSteps, UninstallSteps, PurgeSteps, RemoveSteps, Goto, GotoFailed,
              Return, ReturnFailed, Fail, FailLeaving, Rollback, Uninstalled, Stopped, Found,
              NotSeen, CutOff, Terminated, DaemonReload, Load, manager, given
  <1>0. CASE CallStep
    BY <1>0 DEF CallStep, Call, CallRefused, Fresh, First, Ops
  <1>1. CASE InstallStep
    BY <1>1 DEF InstallStep, InstallStat, CreateUser, Render, CreateDirs, WriteUnit,
                WriteDropIn, InstallReload, InstallEnable, Bootstrap, EnableLabel
  <1>2. CASE UninstallStep
    BY <1>2 DEF UninstallStep, UninstallStat, Halt, HaltWait, Bootout, Disable,
                UninstallReload, RemoveUnit, RemoveDropIn, UninstallForget
  <1>3. CASE ControlStep
    BY <1>3 DEF ControlStep, Stat, Start, Kickstart, Stop, StopWait, Kill
  <1>4. CASE PurgeStep
    BY <1>4 DEF PurgeStep, PurgeStatus, Validate, VerifyLinux, VerifyDarwin, Audit,
                Userdel, DsclDelete, RemoveDir
  <1>5. CASE WorldStep
    BY <1>5 DEF WorldStep, Expire, Killed, DaemonEnds, Restart, Reboot
  <1> QED
    BY NextSteps, <1>0, <1>1, <1>2, <1>3, <1>4, <1>5

\* Neither a restart nor a reboot brings back an uninstalled service.
LEMMA DownStep ==
    ASSUME TypeOK, StepFits, LateIsTrouble, Uninstalling, Removing,
           UninstalledStaysDown, Next
    PROVE  UninstalledStaysDown'
  <1> USE ServiceAssumption DEF TypeOK, StepFits, LateIsTrouble, Uninstalling,
              Removing, UninstalledStaysDown, Did, Down, InstallSteps, UninstallSteps,
              PurgeSteps, RemoveSteps, Goto, GotoFailed, Return, ReturnFailed, Fail,
              FailLeaving, Rollback, Uninstalled, Stopped, Found, NotSeen, DaemonReload, files,
              manager, given
  <1>0. CASE CallStep
    BY <1>0 DEF CallStep, Call, CallRefused, Fresh, First, Ops
  <1>1. CASE InstallStep
    BY <1>1 DEF InstallStep, InstallStat, CreateUser, Render, CreateDirs, WriteUnit,
                WriteDropIn, InstallReload, InstallEnable, Bootstrap, EnableLabel
  <1>2. CASE UninstallStep
    BY <1>2 DEF UninstallStep, UninstallStat, Halt, HaltWait, Bootout, Disable,
                UninstallReload, RemoveUnit, RemoveDropIn, UninstallForget
  <1>3. CASE ControlStep
    BY <1>3 DEF ControlStep, Stat, Start, Kickstart, Stop, StopWait, Kill
  <1>4. CASE PurgeStep
    BY <1>4 DEF PurgeStep, PurgeStatus, Validate, VerifyLinux, VerifyDarwin, Audit,
                Userdel, DsclDelete, RemoveDir
  <1>5. CASE WorldStep
    BY <1>5 DEF WorldStep, Expire, Killed, DaemonEnds, Restart, Reboot
  <1> QED
    BY NextSteps, <1>0, <1>1, <1>2, <1>3, <1>4, <1>5

\* On Linux nothing starts a process of an account that is gone.
LEMMA OrphanStep ==
    ASSUME StepFits, NoOrphan, Next
    PROVE  NoOrphan'
  <1> USE DEF NoOrphan, StepFits, InstallSteps, Terminated, HasProcess, DaemonReload,
              Load, manager, given
  <1>0. CASE CallStep
    BY <1>0 DEF CallStep, Call, CallRefused
  <1>1. CASE InstallStep
    BY <1>1 DEF InstallStep, InstallStat, CreateUser, Render, CreateDirs, WriteUnit,
                WriteDropIn, InstallReload, InstallEnable, Bootstrap, EnableLabel
  <1>2. CASE UninstallStep
    BY <1>2 DEF UninstallStep, UninstallStat, Halt, HaltWait, Bootout, Disable,
                UninstallReload, RemoveUnit, RemoveDropIn, UninstallForget
  <1>3. CASE ControlStep
    BY <1>3 DEF ControlStep, Stat, Start, Kickstart, Stop, StopWait, Kill
  <1>4. CASE PurgeStep
    BY <1>4 DEF PurgeStep, PurgeStatus, Validate, VerifyLinux, VerifyDarwin, Audit,
                Userdel, DsclDelete, RemoveDir
  <1>5. CASE WorldStep
    BY <1>5 DEF WorldStep, Expire, Killed, DaemonEnds, Restart, Reboot
  <1> QED
    BY NextSteps, <1>0, <1>1, <1>2, <1>3, <1>4, <1>5

\* Purge's findings hold until it has deleted what they are about.
LEMMA PurgingStep ==
    ASSUME TypeOK, StepFits, LateIsTrouble, Purging, Next
    PROVE  Purging'
  <1> USE ServiceAssumption DEF TypeOK, StepFits, Purging, Dirs, InstallSteps,
              UninstallSteps, PurgeSteps, RemoveSteps, Goto, GotoFailed, Return,
              ReturnFailed, Fail, FailLeaving, Rollback, Uninstalled, Stopped, Found, NotSeen,
              Made, manager, given
  <1>0. CASE CallStep
    BY <1>0 DEF CallStep, Call, CallRefused, Fresh, First, Ops
  <1>1. CASE InstallStep
    BY <1>1 DEF InstallStep, InstallStat, CreateUser, Render, CreateDirs, WriteUnit,
                WriteDropIn, InstallReload, InstallEnable, Bootstrap, EnableLabel
  <1>2. CASE UninstallStep
    BY <1>2 DEF UninstallStep, UninstallStat, Halt, HaltWait, Bootout, Disable,
                UninstallReload, RemoveUnit, RemoveDropIn, UninstallForget
  <1>3. CASE ControlStep
    BY <1>3 DEF ControlStep, Stat, Start, Kickstart, Stop, StopWait, Kill
  <1>4. CASE PurgeStep
    <2>1. CASE PurgeStatus
      BY <2>1 DEF PurgeStatus
    <2>2. CASE Validate
      BY <2>2 DEF Validate
    <2>3. CASE VerifyLinux
      BY <2>3 DEF VerifyLinux
    <2>4. CASE VerifyDarwin
      BY <2>4 DEF VerifyDarwin
    <2>5. CASE Audit
      BY <2>5 DEF Audit
    <2>6. CASE Userdel
      BY <2>6 DEF Userdel
    <2>7. CASE DsclDelete
      BY <2>7 DEF DsclDelete
    <2>8. CASE RemoveDir
      BY <2>8 DEF RemoveDir
    <2> QED
      BY <1>4, <2>1, <2>2, <2>3, <2>4, <2>5, <2>6, <2>7, <2>8 DEF
         PurgeStep
  <1>5. CASE WorldStep
    BY <1>5 DEF WorldStep, Expire, Killed, DaemonEnds, Restart, Reboot
  <1> QED
    BY NextSteps, <1>0, <1>1, <1>2, <1>3, <1>4, <1>5

\* Purge reports success when account, data and unit are gone, and they stay away.
LEMMA PurgedStep ==
    ASSUME TypeOK, StepFits, LateIsTrouble, Purging, Removing, Begun,
           PurgeIsComplete, Next
    PROVE  PurgeIsComplete'
  <1> USE ServiceAssumption DEF TypeOK, StepFits, Purging, Removing, Begun, PurgeIsComplete,
              Did, Dirs, InstallSteps, UninstallSteps, PurgeSteps, RemoveSteps, Goto,
              GotoFailed, Return, ReturnFailed, Fail, FailLeaving, Rollback, Uninstalled, Stopped,
              Found, NotSeen, Made, files, given
  <1>0. CASE CallStep
    BY <1>0 DEF CallStep, Call, CallRefused, Fresh, First, Ops
  <1>1. CASE InstallStep
    <2>1. CASE InstallStat
      <3>1. cmd'.op = "install"
        BY <2>1 DEF InstallStat
      <3> QED
        BY <3>1
    <2>2. CASE CreateUser
      BY <2>2 DEF CreateUser
    <2>3. CASE Render
      BY <2>3 DEF Render
    <2>4. CASE CreateDirs
      BY <2>4 DEF CreateDirs
    <2>5. CASE WriteUnit
      BY <2>5 DEF WriteUnit
    <2>6. CASE WriteDropIn
      BY <2>6 DEF WriteDropIn
    <2>7. CASE InstallReload
      BY <2>7 DEF InstallReload
    <2>8. CASE InstallEnable
      BY <2>8 DEF InstallEnable
    <2>9. CASE Bootstrap
      BY <2>9 DEF Bootstrap
    <2>10. CASE EnableLabel
      BY <2>10 DEF EnableLabel
    <2> QED
      BY <1>1, <2>1, <2>2, <2>3, <2>4, <2>5, <2>6, <2>7, <2>8, <2>9, <2>10 DEF
         InstallStep
  <1>2. CASE UninstallStep
    BY <1>2 DEF UninstallStep, UninstallStat, Halt, HaltWait, Bootout, Disable,
                UninstallReload, RemoveUnit, RemoveDropIn, UninstallForget
  <1>3. CASE ControlStep
    BY <1>3 DEF ControlStep, Stat, Start, Kickstart, Stop, StopWait, Kill
  <1>4. CASE PurgeStep
    <2>1. CASE PurgeStatus
      BY <2>1 DEF PurgeStatus
    <2>2. CASE Validate
      BY <2>2 DEF Validate
    <2>3. CASE VerifyLinux
      BY <2>3 DEF VerifyLinux
    <2>4. CASE VerifyDarwin
      BY <2>4 DEF VerifyDarwin
    <2>5. CASE Audit
      BY <2>5 DEF Audit
    <2>6. CASE Userdel
      BY <2>6 DEF Userdel
    <2>7. CASE DsclDelete
      BY <2>7 DEF DsclDelete
    <2>8. CASE RemoveDir
      <3>1. /\ user = "absent" \/ cmd.blind
            /\ pc \in {"config", "log"} => "state" \notin data \/ cmd.blind
            /\ pc = "log" => "config" \notin data \/ cmd.blind
            /\ unit = "absent" /\ user' = user /\ unit' = unit /\ cmd'.blind = cmd.blind
            /\ dropIn = "absent" \/ cmd.had = "dropIn"
            /\ dropIn' = dropIn /\ cmd'.had = cmd.had
        <4>1. cmd \in Commands
          BY DEF Commands
        <4>2. cmd'.blind = cmd.blind /\ cmd'.had = cmd.had
          BY <2>8, <4>1, RemoveDirKeeps, Zenon
        <4> QED
          BY <2>8, <4>2 DEF RemoveDir
      <3>2. Did("purge", "ok")' =>
              /\ data' = data \ {pc}
              /\ pc = "log" \/ (pc = "config" /\ platform = "linux")
        BY <2>8 DEF RemoveDir
      <3>3. pc = "log" => platform = "darwin"
        OBVIOUS
      <3>4. Did("purge", "ok")' /\ ~cmd.blind => data' = {}
        BY <3>1, <3>2, <3>3
      <3> QED
        BY <3>1, <3>4
    <2> QED
      BY <1>4, <2>1, <2>2, <2>3, <2>4, <2>5, <2>6, <2>7, <2>8 DEF PurgeStep
  <1>5. CASE WorldStep
    BY <1>5 DEF WorldStep, Expire, Killed, DaemonEnds, Restart, Reboot
  <1> QED
    BY NextSteps, <1>0, <1>1, <1>2, <1>3, <1>4, <1>5

-------------------------------------------------------------------------------
(* The invariant and the theorems.                                         *)

\* A host without the service, and no command running, satisfies Inv.
LEMMA InitInv == Init => Inv
  <1> SUFFICES ASSUME Init PROVE Inv
    OBVIOUS
  <1>1. /\ cmd.op = "stop" /\ ~cmd.late /\ cmd.result = "ok" /\ cmd \in Commands
    BY DEF Init, Fresh, Installed, Commands, Ops, Steps, Results
  <1>2. TypeOK
    BY <1>1 DEF Init, TypeOK, Commands, Dirs, Steps
  <1>3. /\ StepFits /\ LateIsTrouble /\ Installing /\ Begun /\ Uninstalling
        /\ Removing /\ NoOrphan /\ Purging
    BY <1>1 DEF Init, StepFits, LateIsTrouble, Installing, Begun, Uninstalling, Removing,
                NoOrphan, Purging, HasProcess, InstallSteps, UninstallSteps, PurgeSteps, RemoveSteps
  <1>4. /\ FailedInstallCleansUp /\ InstalledIsComplete /\ UninstalledStaysDown
        /\ PurgeIsComplete
    BY <1>1 DEF FailedInstallCleansUp, InstalledIsComplete, UninstalledStaysDown,
                PurgeIsComplete, Did
  <1> QED
    BY <1>2, <1>3, <1>4 DEF Inv

\* The parts of the type invariant, put together.
LEMMA TypeStep ==
    ASSUME TypeOK, StepFits, LateIsTrouble, Next
    PROVE  TypeOK'
  <1>1. platform' = platform /\ astray' = astray /\ Dirs' = Dirs
    BY GivenStays DEF Dirs
  <1>2. HostTyped'
    BY HostStep DEF TypeOK, HostTyped
  <1>3. data' \subseteq Dirs
    BY DataStep
  <1>4. cmd' \in Commands
    BY CommandStep DEF TypeOK, Commands
  <1>5. ((pc = "idle") = (cmd.result # "none"))'
    BY IdleStep DEF TypeOK, Commands
  <1>6. pc' \in Steps
    BY FitsStep
  <1>7. platform = "darwin" => dropIn' = "absent"
    <2> SUFFICES ASSUME platform = "darwin" PROVE dropIn' = "absent"
      OBVIOUS
    <2>1. dropIn = "absent" /\ pc \notin {"writeDropIn", "reload", "enable", "removeDropIn"}
      BY DEF TypeOK, StepFits
    <2> USE <2>1 DEF files, Rollback
    <2>2. CASE CallStep
      BY <2>2 DEF CallStep, Call, CallRefused
    <2>3. CASE InstallStep
      BY <2>3 DEF InstallStep, InstallStat, CreateUser, Render, CreateDirs, WriteUnit,
                  WriteDropIn, InstallReload, InstallEnable, Bootstrap, EnableLabel
    <2>4. CASE UninstallStep
      BY <2>4 DEF UninstallStep, UninstallStat, Halt, HaltWait, Bootout, Disable,
                  UninstallReload, RemoveUnit, RemoveDropIn, UninstallForget
    <2>5. CASE ControlStep
      BY <2>5 DEF ControlStep, Stat, Start, Kickstart, Stop, StopWait, Kill
    <2>6. CASE PurgeStep
      BY <2>6 DEF PurgeStep, PurgeStatus, Validate, VerifyLinux, VerifyDarwin, Audit,
                  Userdel, DsclDelete, RemoveDir
    <2>7. CASE WorldStep
      BY <2>7 DEF WorldStep, Expire, Killed, DaemonEnds, Restart, Reboot
    <2> QED
      BY <2>2, <2>3, <2>4, <2>5, <2>6, <2>7, NextSteps
  <1> QED
    BY <1>1, <1>2, <1>3, <1>4, <1>5, <1>6, <1>7 DEF TypeOK, HostTyped, Commands

\* Every step preserves Inv.
LEMMA NextInv == Inv /\ [Next]_vars => Inv'
  <1>1. ASSUME Inv, Next PROVE Inv'
    <2> USE <1>1 DEF Inv
    <2>1. TypeOK' /\ StepFits'
      BY TypeStep, FitsStep
    <2>2. LateIsTrouble'
      BY IdleStep DEF TypeOK, Commands
    <2>3. Installing' /\ FailedInstallCleansUp' /\ InstalledIsComplete'
      BY InstallingStep, CleansUpStep, InstalledStep
    <2>4. Removing' /\ Begun' /\ Uninstalling' /\ UninstalledStaysDown'
      BY RemovingStep, BegunStep, UninstallingStep, DownStep
    <2>5. NoOrphan' /\ Purging' /\ PurgeIsComplete'
      BY OrphanStep, PurgingStep, PurgedStep
    <2> QED
      BY <2>1, <2>2, <2>3, <2>4, <2>5
  <1>2. ASSUME Inv, UNCHANGED vars PROVE Inv'
    <2> USE <1>2 DEF Inv, vars, given
    <2>1. TypeOK' /\ StepFits' /\ LateIsTrouble'
      BY DEF TypeOK, Dirs, StepFits, LateIsTrouble
    <2>2. Installing' /\ Begun' /\ Uninstalling' /\ Removing' /\ NoOrphan' /\ Purging'
      BY DEF Installing, Begun, Installed, Uninstalling, Down, Removing, NoOrphan, HasProcess, Purging
    <2>3. /\ FailedInstallCleansUp' /\ InstalledIsComplete' /\ UninstalledStaysDown'
          /\ PurgeIsComplete'
      BY DEF FailedInstallCleansUp, InstalledIsComplete, UninstalledStaysDown,
             PurgeIsComplete, Did
    <2> QED
      BY <2>1, <2>2, <2>3
  <1> QED
    BY <1>1, <1>2

\* Inv holds whatever fails, dies or reboots between two calls of a command.
THEOREM Invariance == Spec => []Inv
  BY InitInv, NextInv, PTL DEF Spec

\* Type correctness: no interruption leaves command or host in a state without a name.
THEOREM TypeCorrect == Spec => []TypeOK
  BY Invariance, PTL DEF Inv

\* A failed install leaves a unit or a drop-in only if a write of its own tore it, its
\* rollback could not remove it or, for the drop-in, it was there before without a
\* unit; a successful one has unit, drop-in, account and autostart in place.
THEOREM InstallOutcomeHolds == Spec => []InstallOutcome
  <1>1. Inv => InstallOutcome
    BY DEF Inv, InstallOutcome
  <1> QED
    BY <1>1, Invariance, PTL

\* After an uninstall without a failed call no restart and no reboot brings the
\* service back.
THEOREM UninstallLasts == Spec => []UninstalledStaysDown
  BY Invariance, PTL DEF Inv

\* Purge that reports success and saw the account has removed account, data and unit,
\* and the drop-in except one that an earlier command had left without a unit.
THEOREM PurgeAlwaysComplete == Spec => []PurgeIsComplete
  BY Invariance, PTL DEF Inv

\* A purge none of whose calls fails gives up only for a login account, a link, or a live
\* daemon that an earlier command left without its unit: where it finds the unit, the
\* daemon has ended before userdel is called, and stays so.
THEOREM PurgeGivesUpForCause == Spec => PurgeNeverWedged
  <1> DEFINE Cause == \/ user = "login" \/ data \cap astray # {}
                      \/ platform = "linux" /\ HasProcess /\ cmd.had # "unit"
             GaveUp == Did("purge", "error")' /\ pc # "idle" /\ ~cmd'.trouble
  <1>1. ASSUME Inv, Next, GaveUp PROVE Cause
    <2> USE <1>1 DEF Did, Goto, GotoFailed, Return, ReturnFailed, Fail, FailLeaving
    <2>0. TypeOK /\ StepFits
      BY DEF Inv
    <2>1. CASE CallStep
      BY <2>1 DEF CallStep, Call, CallRefused
    <2>2. CASE InstallStep
      <3>1. pc \in InstallSteps
        BY <2>2 DEF InstallStep, InstallStat, CreateUser, Render, CreateDirs, WriteUnit,
              WriteDropIn, InstallReload, InstallEnable, Bootstrap, EnableLabel, InstallSteps
      <3>2. cmd'.op = cmd.op
        BY <2>0, <2>2, InstallKeepsOp
      <3> QED
        BY <2>0, <3>1, <3>2 DEF StepFits
    <2>3. CASE UninstallStep
      BY <2>0, <2>3 DEF UninstallStep, UninstallStat, Halt, HaltWait, Bootout, Disable,
              UninstallReload, RemoveUnit, RemoveDropIn, UninstallForget, Uninstalled, TypeOK
    <2>4. CASE ControlStep
      BY <2>0, <2>4 DEF ControlStep, Stat, Start, Kickstart, Stop, StopWait, Kill, Stopped,
              StepFits, TypeOK
    <2>5. CASE PurgeStep
      <3>1. CASE Userdel
        <4>1. platform = "linux" /\ HasProcess /\ ~cmd.trouble /\ pc = "userdel"
          BY <2>0, <3>1 DEF Userdel, TypeOK
        <4>2. daemon # "dead"
          BY <4>1 DEF HasProcess
        <4> QED
          BY <4>1, <4>2 DEF Inv, Uninstalling
      <3>2. CASE PurgeStatus \/ Validate \/ VerifyLinux \/ VerifyDarwin \/ Audit
        BY <2>0, <3>2 DEF PurgeStatus, Validate, VerifyLinux, VerifyDarwin, Audit, Found,
              NotSeen, TypeOK
      <3>3. CASE DsclDelete \/ RemoveDir
        BY <2>0, <3>3 DEF DsclDelete, RemoveDir, TypeOK
      <3> QED
        BY <2>5, <3>1, <3>2, <3>3 DEF PurgeStep
    <2>6. CASE WorldStep
      BY <2>0, <2>6 DEF WorldStep, Expire, Killed, DaemonEnds, Restart, Reboot, TypeOK
    <2> QED
      BY NextSteps, <2>1, <2>2, <2>3, <2>4, <2>5, <2>6
  <1>2. Inv /\ [Next]_vars =>
          [Did("purge", "error")' /\ pc # "idle" /\ ~cmd'.trouble =>
              \/ user = "login" \/ data \cap astray # {}
              \/ platform = "linux" /\ HasProcess /\ cmd.had # "unit"]_vars
    BY <1>1
  <1> QED
    BY <1>2, Invariance, PTL DEF Spec, PurgeNeverWedged

-------------------------------------------------------------------------------
(* What a purge deletes.                                                   *)

\* Only RemoveDir deletes data, and only a deletion of the account makes it absent.
LEMMA Deletions ==
    ASSUME Inv, Next
    PROVE  /\ ~RemoveDir => data \subseteq data'
           /\ user' = user \/ user = "absent" \/ Userdel \/ DsclDelete
  <1> DEFINE Goal == /\ ~RemoveDir => data \subseteq data'
                     /\ user' = user \/ user = "absent" \/ Userdel \/ DsclDelete
  <1>t. data \subseteq Dirs /\ (pc = "createDirs" => platform = "darwin")
    BY DEF Inv, TypeOK, StepFits
  <1> USE <1>t DEF Made
  <1>0. CASE CallStep
    BY <1>0 DEF CallStep, Call, CallRefused
  <1>1. CASE InstallStep
    BY <1>1 DEF InstallStep, InstallStat, CreateUser, Render, CreateDirs, WriteUnit,
                WriteDropIn, InstallReload, InstallEnable, Bootstrap, EnableLabel
  <1>2. CASE UninstallStep
    BY <1>2 DEF UninstallStep, UninstallStat, Halt, HaltWait, Bootout, Disable,
                UninstallReload, RemoveUnit, RemoveDropIn, UninstallForget
  <1>3. CASE ControlStep
    BY <1>3 DEF ControlStep, Stat, Start, Kickstart, Stop, StopWait, Kill
  <1>4. CASE PurgeStep
    BY <1>4 DEF PurgeStep, PurgeStatus, Validate, VerifyLinux, VerifyDarwin, Audit,
                Userdel, DsclDelete, RemoveDir
  <1>5. CASE WorldStep
    BY <1>5 DEF WorldStep, Expire, Killed, DaemonEnds, Restart, Reboot
  <1> QED
    BY <1>0, <1>1, <1>2, <1>3, <1>4, <1>5, NextSteps

\* Purge deletes neither data under a live daemon nor what is not raxd's: userdel's
\* refusal and the checks before the first deletion protect both, whatever happens
\* between a check and the deletion.
THEOREM PurgeAlwaysSpares == Spec => PurgeSpares
  <1>1. Inv /\ [Next]_vars => [LiveDataKept /\ StrangersKept]_vars
    <2> SUFFICES ASSUME Inv, Next PROVE LiveDataKept /\ StrangersKept
      BY DEF vars
    <2> USE DEF Inv
    <2>1. CASE data \subseteq data' /\ user' = user
      BY <2>1 DEF LiveDataKept, StrangersKept
    <2>2. CASE RemoveDir
      <3>1. /\ user' = user /\ (user = "absent" \/ cmd.blind)
            /\ data \cap astray = {} \/ (platform = "linux" /\ loaded)
        BY <2>2 DEF RemoveDir, Purging, RemoveSteps
      <3>2. platform = "linux" /\ HasProcess => cmd.blind
        BY <3>1 DEF NoOrphan
      <3> QED
        BY <3>1, <3>2 DEF LiveDataKept, StrangersKept
    <2>3. CASE (Userdel \/ DsclDelete) /\ user' # user
      <3>1. user = "system" /\ data' = data
        BY <2>3 DEF Userdel, DsclDelete, Purging
      <3> QED
        BY <3>1 DEF LiveDataKept, StrangersKept
    <2>4. CASE user = "absent" /\ data \subseteq data'
      BY <2>4 DEF LiveDataKept, StrangersKept
    <2> QED
      BY <2>1, <2>2, <2>3, <2>4, Deletions
  <1> QED
    BY <1>1, Invariance, PTL DEF Spec, PurgeSpares

\* Everything Purge deletes is in the record it wrote before the first deletion.
THEOREM AlwaysRecordedFirst == Spec => RecordedFirst
  <1>1. Inv /\ [Next]_vars =>
          [/\ user # "absent" /\ user' = "absent" => cmd.present
           /\ platform = "darwin" \/ ~loaded => data \ data' \subseteq cmd.dirs]_vars
    <2> SUFFICES ASSUME Inv, Next
                 PROVE  /\ user # "absent" /\ user' = "absent" => cmd.present
                        /\ platform = "darwin" \/ ~loaded => data \ data' \subseteq cmd.dirs
      BY DEF vars
    <2>1. user # "absent" /\ user' = "absent" => cmd.present
      BY Deletions DEF Userdel, DsclDelete
    <2>2. CASE RemoveDir
      BY <2>2 DEF RemoveDir, Inv, Purging, RemoveSteps
    <2> QED
      BY <2>1, <2>2, Deletions
  <1> QED
    BY <1>1, Invariance, PTL DEF Spec, RecordedFirst
===============================================================================
