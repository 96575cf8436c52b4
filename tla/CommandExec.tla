----------------------------- MODULE CommandExec ------------------------------
(***************************************************************************)
(* The execute_command tool: execHandler (internal/mcp/exec_tool.go) and   *)
(* cmdexec.Run with its process group, timeout, output limit and reaping   *)
(* of orphans (internal/cmdexec).                                          *)
(*                                                                         *)
(* One call runs one command: a head process that may fork children into   *)
(* its process group and leave them behind.  Three goroutines of the       *)
(* daemon take part: Run itself (pc), os/exec's watcher of the context     *)
(* (watch) and its copier from the output pipe to the CappedWriter.  What  *)
(* os/exec and the kernel do is modelled as Run uses them.                 *)
(*                                                                         *)
(* stdout and stderr are treated alike, so there is one pipe.  Children    *)
(* stay in the group and are forked by the head.  SIGKILL acts at once,    *)
(* and reaping a zombie or draining the pipe takes no time on the scale of *)
(* reapGroupTimeout (200 ms) and waitDelay (5 s).                          *)
(***************************************************************************)
EXTENDS Integers

CONSTANTS
    Head,                \* the process Run starts
    Children,            \* processes the head may fork
    Commands,
    Allowlist,           \* exec.allowlist, {} = any command
    Timeouts,            \* values of timeout_ms in requests
    DefaultTimeoutMs,
    MaxTimeoutMs,
    DeniedAsRoot,        \* the daemon runs as root and exec.deny_root is set
    MaxOutputBytes,      \* exec.max_output_bytes
    PipeSize,            \* capacity of the output pipe
    MaxWrite             \* bytes a process writes at most (bound)

Procs == {Head} \cup Children

Input == [command : Commands, argsOk : BOOLEAN, timeoutMs : Timeouts,
          cwdOk : BOOLEAN, found : BOOLEAN]

ASSUME ExecAssumption ==
    /\ Head \notin Children
    /\ Allowlist \subseteq Commands /\ Commands # {}
    /\ Timeouts \subseteq Int /\ Timeouts # {}
    /\ DefaultTimeoutMs \in Nat \ {0} /\ MaxTimeoutMs \in Nat \ {0}
    /\ DeniedAsRoot \in BOOLEAN
    /\ MaxOutputBytes \in Nat /\ PipeSize \in Nat \ {0} /\ MaxWrite \in Nat

VARIABLES
    pc,          \* next step of the handler and of Run
    in,          \* the request
    expired,     \* the call's context is done: timeout or client gone
    proc,        \* state of each process
    holds,       \* the process has the write end of the pipe open
    left,        \* bytes the process will still write
    status,      \* how the head ended
    watch,       \* the goroutine that waits for the context
    copying,     \* the goroutine that copies the pipe is running
    pipe,        \* bytes in the pipe
    written,     \* history: bytes written into the pipe
    got,         \* history: bytes the CappedWriter received
    buf,         \* bytes it kept
    truncated,   \* CappedWriter.Truncated
    waitErr,     \* the error of cmd.Wait
    due,         \* history: bytes that had been written when the head was reaped
    result,      \* what the audit record says
    exitCode,    \* Result.ExitCode
    timedOut     \* Result.TimedOut

group == <<proc, holds, left, status>>
output == <<pipe, written, got, buf, truncated>>
waited == <<waitErr, due>>
answer == <<result, exitCode, timedOut>>
vars == <<pc, in, expired, proc, holds, left, status, watch, copying, pipe,
          written, got, buf, truncated, waitErr, due, result, exitCode, timedOut>>

Alive == {p \in Procs : proc[p] = "alive"}
Zombies == {p \in Procs : proc[p] = "zombie"}

EffectiveTimeout(i) == IF i.timeoutMs = 0 THEN DefaultTimeoutMs ELSE i.timeoutMs

\* The checks of execHandler, then those of Run before it starts the command.
Verdict(i) ==
    CASE DeniedAsRoot                                      -> "deny"
      [] ~i.argsOk                                         -> "deny"
      [] EffectiveTimeout(i) > MaxTimeoutMs                -> "deny"
      [] Allowlist # {} /\ i.command \notin Allowlist      -> "deny"
      [] ~i.cwdOk                                          -> "badCwd"
      [] ~i.found                                          -> "notFound"
      [] OTHER                                             -> "none"
-------------------------------------------------------------------------------
Init ==
    /\ pc = "idle"
    /\ in \in Input
    /\ expired = FALSE
    /\ proc = [p \in Procs |-> "none"]
    /\ holds = [p \in Procs |-> FALSE]
    /\ left = [p \in Procs |-> 0]
    /\ status = "none"
    /\ watch = "off" /\ copying = FALSE
    /\ pipe = 0 /\ written = 0 /\ got = 0 /\ buf = 0 /\ truncated = FALSE
    /\ waitErr = "nil" /\ due = 0
    /\ result = "none" /\ exitCode = "none" /\ timedOut = FALSE

\* The call arrives.  A timeout that is not positive passes the check and gives
\* a context that is done already.
Receive ==
    /\ pc = "idle"
    /\ IF Verdict(in) = "none"
       THEN pc' = "start" /\ expired' = (EffectiveTimeout(in) <= 0) /\ UNCHANGED result
       ELSE pc' = "done" /\ result' = Verdict(in) /\ UNCHANGED expired
    /\ UNCHANGED <<in, group, watch, copying, output, waited, exitCode, timedOut>>

\* cmd.Start refuses a context that is done; every error of it is reported as
\* "command not found".
Start ==
    /\ pc = "start"
    /\ IF expired
       THEN /\ pc' = "done" /\ result' = "notFound"
            /\ UNCHANGED <<group, watch, copying>>
       ELSE /\ pc' = "wait"
            /\ proc' = [proc EXCEPT ![Head] = "alive"]
            /\ holds' = [holds EXCEPT ![Head] = TRUE]
            /\ \E n \in 0..MaxWrite : left' = [left EXCEPT ![Head] = n]
            /\ watch' = "watching" /\ copying' = TRUE
            /\ UNCHANGED <<status, result>>
    /\ UNCHANGED <<in, expired, output, waited, exitCode, timedOut>>

\* The timeout passes or the client goes away.
Expire ==
    /\ pc \notin {"idle", "done"} /\ ~expired
    /\ expired' = TRUE
    /\ UNCHANGED <<pc, in, group, watch, copying, output, waited, answer>>

\* The processes of the group ----------------------------------------------------

Fork(c) ==
    /\ proc[Head] = "alive" /\ proc[c] = "none"
    /\ proc' = [proc EXCEPT ![c] = "alive"]
    /\ \E h \in BOOLEAN : holds' = [holds EXCEPT ![c] = h]
    /\ \E n \in 0..MaxWrite : left' = [left EXCEPT ![c] = n]
    /\ UNCHANGED <<pc, in, expired, status, watch, copying, output, waited, answer>>

\* A write blocks while the pipe is full.
WriteOut(p) ==
    /\ p \in Alive /\ holds[p] /\ left[p] > 0
    /\ copying /\ pipe < PipeSize
    /\ pipe' = pipe + 1 /\ written' = written + 1
    /\ left' = [left EXCEPT ![p] = @ - 1]
    /\ UNCHANGED <<pc, in, expired, proc, holds, status, watch, copying, got, buf,
                   truncated, waited, answer>>

HeadExit ==
    /\ Head \in Alive /\ left[Head] = 0
    /\ proc' = [proc EXCEPT ![Head] = "zombie"]
    /\ \E s \in {"zero", "nonzero"} : status' = s
    /\ UNCHANGED <<pc, in, expired, holds, left, watch, copying, output, waited, answer>>

ChildExit(c) ==
    /\ c \in Alive
    /\ proc' = [proc EXCEPT ![c] = "zombie"]
    /\ UNCHANGED <<pc, in, expired, holds, left, status, watch, copying, output, waited, answer>>

\* The watcher and the copier ----------------------------------------------------

\* Mutant: only the head is killed, as exec.CommandContext does by itself.
MutKillHead ==
    /\ watch = "watching" /\ expired
    /\ watch' = "cancelled"
    /\ proc' = [proc EXCEPT ![Head] = IF @ = "alive" THEN "zombie" ELSE @]
    /\ status' = IF Head \in Alive THEN "killed" ELSE status
    /\ UNCHANGED <<pc, in, expired, holds, left, copying, output, waited, answer>>

\* cmd.Cancel: killGroup.  It may run after the head has ended.
Cancel ==
    /\ watch = "watching" /\ expired
    /\ watch' = "cancelled"
    /\ proc' = [p \in Procs |-> IF p \in Alive THEN "zombie" ELSE proc[p]]
    /\ status' = IF Head \in Alive THEN "killed" ELSE status
    /\ UNCHANGED <<pc, in, expired, holds, left, copying, output, waited, answer>>

\* waitDelay after Cancel, before Run has come to ask: the pipe is closed.
WatchDelay ==
    /\ watch = "cancelled"
    /\ watch' = "closed" /\ copying' = FALSE
    /\ UNCHANGED <<pc, in, expired, group, output, waited, answer>>

\* Mutant: a full CappedWriter returns an error, and the copier stops for it.
MutStopAtCap ==
    /\ copying /\ pipe > 0
    /\ buf < MaxOutputBytes
    /\ pipe' = pipe - 1 /\ got' = got + 1 /\ buf' = buf + 1
    /\ UNCHANGED <<pc, in, expired, group, watch, copying, written, truncated, waited, answer>>

\* CappedWriter.Write, which drains what it does not keep.
Copy ==
    /\ copying /\ pipe > 0
    /\ \E n \in 1..pipe :
          /\ pipe' = pipe - n /\ got' = got + n
          /\ buf' = IF n > MaxOutputBytes - buf THEN MaxOutputBytes ELSE buf + n
          /\ truncated' = (truncated \/ n > MaxOutputBytes - buf)
    /\ UNCHANGED <<pc, in, expired, group, watch, copying, written, waited, answer>>

\* End of file: the pipe is empty and nobody holds its write end.
CopyEOF ==
    /\ copying /\ pipe = 0
    /\ \A p \in Alive : ~holds[p]
    /\ copying' = FALSE
    /\ UNCHANGED <<pc, in, expired, group, watch, output, waited, answer>>

\* Run ---------------------------------------------------------------------------

\* cmd.Wait: the head is reaped.
WaitHead ==
    /\ pc = "wait" /\ Head \in Zombies
    /\ proc' = [proc EXCEPT ![Head] = "gone"]
    /\ waitErr' = IF status = "zero" THEN "nil" ELSE "exit"
    /\ due' = written
    /\ pc' = "watched"
    /\ UNCHANGED <<in, expired, holds, left, status, watch, copying, output, answer>>

\* cmd.Wait: the watcher is asked for its result.  It has one error if it
\* called Cancel, which counts when the head's own status is no error.
WaitWatch ==
    /\ pc = "watched" /\ watch \in {"watching", "cancelled", "closed"}
    /\ waitErr' = IF waitErr = "nil" /\ watch # "watching" THEN "ctx" ELSE waitErr
    /\ watch' = "sent"
    /\ pc' = "copied"
    /\ UNCHANGED <<in, expired, group, copying, output, due, answer>>

\* Mutant: the copier is not waited for.
MutCopierNotAwaited ==
    /\ pc = "copied"
    /\ pc' = "reap" /\ copying' = FALSE
    /\ UNCHANGED <<in, expired, group, watch, output, waited, answer>>

\* Mutant: WaitDelay is left at zero.
MutNoWaitDelay ==
    /\ pc = "copied" /\ ~copying
    /\ pc' = "reap"
    /\ UNCHANGED <<in, expired, group, watch, copying, output, waited, answer>>

\* cmd.Wait: the copier ends, or waitDelay passes while a child holds the pipe.
\* That is time enough to copy what was in the pipe before, not what the child goes
\* on writing; the group is not killed then.
WaitCopy ==
    /\ pc = "copied"
    /\ \/ ~copying /\ UNCHANGED <<copying, waitErr>>
       \/ /\ copying /\ got >= due
          /\ copying' = FALSE
          /\ waitErr' = IF waitErr = "nil" THEN "delay" ELSE waitErr
    /\ pc' = "reap"
    /\ UNCHANGED <<in, expired, group, watch, output, due, answer>>

\* reapGroupOrphans: zombies are reaped; it gives up on children that stay alive.
Reap ==
    /\ pc = "reap"
    /\ IF Zombies # {}
       THEN \E c \in Zombies : proc' = [proc EXCEPT ![c] = "gone"] /\ UNCHANGED pc
       ELSE pc' = "answer" /\ UNCHANGED proc
    /\ UNCHANGED <<in, expired, holds, left, status, watch, copying, output, waited, answer>>

\* Run's analysis of the error.  The context is read now, not when the head ended.
Answer ==
    /\ pc = "answer"
    /\ pc' = "done" /\ result' = "ran"
    /\ timedOut' = (waitErr # "nil" /\ expired)
    /\ exitCode' = IF timedOut' THEN "minusOne"
                   ELSE IF waitErr = "exit" THEN status ELSE "zero"
    /\ UNCHANGED <<in, expired, group, watch, copying, output, waited>>

Run == Receive \/ Start \/ WaitHead \/ WaitWatch \/ WaitCopy \/ Reap \/ Answer
Watcher == Cancel \/ WatchDelay
Copier == Copy \/ CopyEOF
Group == HeadExit \/ (\E p \in Procs : WriteOut(p)) \/ (\E c \in Children : Fork(c) \/ ChildExit(c))

Next == Run \/ Expire \/ Watcher \/ Copier \/ Group

Spec == Init /\ [][Next]_vars

\* The daemon's goroutines run; the command may do anything.
FairSpec == Spec /\ WF_vars(Run) /\ WF_vars(Cancel) /\ WF_vars(Copier)
-------------------------------------------------------------------------------
TypeOK ==
    /\ pc \in {"idle", "start", "wait", "watched", "copied", "reap", "answer", "done"}
    /\ in \in Input /\ expired \in BOOLEAN
    /\ proc \in [Procs -> {"none", "alive", "zombie", "gone"}]
    /\ holds \in [Procs -> BOOLEAN] /\ left \in [Procs -> 0..MaxWrite]
    /\ status \in {"none", "zero", "nonzero", "killed"}
    /\ watch \in {"off", "watching", "cancelled", "closed", "sent"}
    /\ copying \in BOOLEAN /\ pipe \in 0..PipeSize
    /\ written \in Nat /\ got \in Nat /\ buf \in 0..MaxOutputBytes /\ truncated \in BOOLEAN
    /\ waitErr \in {"nil", "exit", "ctx", "delay"} /\ due \in Nat
    /\ result \in {"none", "deny", "badCwd", "notFound", "ran"}
    /\ exitCode \in {"none", "zero", "nonzero", "minusOne"}
    /\ timedOut \in BOOLEAN

\* SR-53: the CappedWriter keeps the first max_output_bytes bytes, and Truncated
\* says exactly whether there were more.
OutputCapped == /\ buf = IF got > MaxOutputBytes THEN MaxOutputBytes ELSE got
                /\ truncated <=> got > MaxOutputBytes

\* A command that was not timed out is answered with everything written until it
\* ended, also when children keep the pipe open and write on.
OutputComplete == pc = "done" /\ result = "ran" /\ ~timedOut => got >= due

\* The output of an answer is true: cut only at the limit, and complete up to there.
OutputIsTrue == OutputCapped /\ OutputComplete

\* SR-47: a command killed for its timeout is reported as timed out, and no process
\* of its group is alive or a zombie when the call returns.
KilledIsReported ==
    pc = "done" /\ status = "killed" =>
        timedOut /\ \A p \in Procs : proc[p] \in {"none", "gone"}

\* Whatever Wait returned, an answer without timed_out carries the code with which
\* the command itself ended.
ExitCodeIsTrue == pc = "done" /\ result = "ran" /\ ~timedOut => exitCode = status

\* A command that ended by itself is answered as timed out, -1, only after the deadline:
\* with an error of its own; with success if a child kept the pipe open for waitDelay; or
\* with success if the deadline's kill came just after its end and took the whole rest of
\* the group.  In the first two cases nothing need have been killed, although
\* docs/mcp.md:192 says of timed_out that the command was.
OwnEndAsTimeout ==
    pc = "done" /\ timedOut /\ status # "killed" =>
        /\ expired /\ exitCode = "minusOne" /\ status \in {"zero", "nonzero"}
        /\ status = "nonzero" \/ waitErr = "delay" \/ \A p \in Procs : proc[p] \in {"none", "gone"}

\* Each way the deadline can race the command's end: a kill is reported and complete, an
\* exit code is the command's own, and an own end is hidden by timed_out only as above.
EndIsTrue == KilledIsReported /\ ExitCodeIsTrue /\ OwnEndAsTimeout

\* The timeout bounds the call: once it has passed, the call returns, whatever the
\* command and its children do.
EveryCallReturns == WF_vars(Expire) => (pc # "idle" ~> pc = "done")

\* Draining: a command that writes and ends when it can is never stuck in a full
\* pipe, however much more than the limit it writes, even without a timeout.
OutputNeverBlocks ==
    WF_vars(WriteOut(Head)) /\ WF_vars(HeadExit) => (Head \in Alive ~> Head \notin Alive)
===============================================================================
