-------------------------- MODULE CommandExecProofs ---------------------------
(***************************************************************************)
(* Theorems about CommandExec for any set of children, any limits and any  *)
(* amount of output.  The inductive invariant follows the head through     *)
(* its life (Lifecycle), the error of cmd.Wait back to its cause           *)
(* (ErrorsExplained) and the bytes from the processes to the CappedWriter  *)
(* (BytesKept, PipeDrained).                                               *)
(***************************************************************************)
EXTENDS CommandExec, TLAPS

\* Where Run is, the head and the helpers are.
Lifecycle ==
    /\ pc \in {"idle", "start"} \/ (pc = "done" /\ result # "ran") =>
          /\ status = "none" /\ waitErr = "nil" /\ watch = "off" /\ ~copying /\ pipe = 0
          /\ \A p \in Procs : proc[p] = "none"
    /\ pc # "done" => result = "none"
    /\ pc = "wait" => proc[Head] \in {"alive", "zombie"} /\ waitErr = "nil"
    /\ pc \in {"watched", "copied", "reap", "answer"} \/ (pc = "done" /\ result = "ran") =>
          proc[Head] = "gone"
    /\ pc \in {"reap", "answer"} \/ (pc = "done" /\ result = "ran") => ~copying
    /\ pc \in {"copied", "reap", "answer"} \/ (pc = "done" /\ result = "ran") => watch = "sent"
    /\ pc \in {"wait", "watched"} => watch \in {"watching", "cancelled", "closed"}
    /\ status = "none" <=> proc[Head] \in {"none", "alive"}
    /\ watch \in {"cancelled", "closed"} => expired

\* A kill leaves nobody alive, and after the reaping nobody is a zombie.
KillIsComplete ==
    status = "killed" =>
        /\ expired /\ \A p \in Procs : proc[p] # "alive"
        /\ pc \in {"answer", "done"} => \A p \in Procs : proc[p] \in {"none", "gone"}

\* Cancel leaves nobody alive either, also when the head had ended before.
CancelIsComplete ==
    /\ watch \in {"cancelled", "closed"} \/ waitErr = "ctx" => \A p \in Procs : proc[p] # "alive"
    /\ waitErr = "ctx" /\ pc \in {"answer", "done"} => \A p \in Procs : proc[p] \in {"none", "gone"}

\* The error of cmd.Wait is the head's status unless that was zero.
ErrorsExplained ==
    /\ proc[Head] = "gone" => (waitErr = "exit" <=> status # "zero")
    /\ waitErr = "ctx" => expired

\* Every byte written is in the pipe or was received.
BytesKept == written = got + pipe /\ due <= written /\ OutputCapped

\* Only a timeout closes a pipe with bytes in it, and it shows in Wait's error,
\* unless they are bytes that children wrote after the head had ended.
PipeDrained ==
    ~copying /\ pipe # 0 => \/ watch = "closed"
                            \/ watch = "sent" /\ expired /\ waitErr # "nil"
                            \/ proc[Head] = "gone" /\ got >= due

\* The answer tells how the head ended, or that the context is done.
AnswerIsTrue ==
    /\ timedOut => result = "ran"
    /\ pc = "done" /\ result = "ran" =>
        /\ timedOut <=> (waitErr # "nil" /\ expired)
        /\ exitCode = IF timedOut THEN "minusOne" ELSE IF waitErr = "exit" THEN status ELSE "zero"

Inv == /\ TypeOK /\ Lifecycle /\ KillIsComplete /\ CancelIsComplete /\ ErrorsExplained
       /\ BytesKept /\ PipeDrained /\ AnswerIsTrue

-------------------------------------------------------------------------------
\* A call that has not arrived satisfies Inv.
LEMMA InitInv == Init => Inv
<1> SUFFICES ASSUME Init PROVE Inv
  OBVIOUS
<1>1. TypeOK
  <2>1. left \in [Procs -> 0..MaxWrite] /\ pipe \in 0..PipeSize /\ buf \in 0..MaxOutputBytes
    BY ExecAssumption DEF Init
  <2> QED
    BY <2>1 DEF Init, TypeOK
<1>2. /\ Lifecycle /\ KillIsComplete /\ CancelIsComplete /\ ErrorsExplained
      /\ PipeDrained /\ AnswerIsTrue
  BY DEF Init, Lifecycle, KillIsComplete, CancelIsComplete, ErrorsExplained, PipeDrained,
         AnswerIsTrue, Procs
<1>3. BytesKept
  BY ExecAssumption DEF Init, BytesKept, OutputCapped
<1> QED
  BY <1>1, <1>2, <1>3 DEF Inv

\* Every step preserves Inv, one case per action.
LEMMA NextInv == Inv /\ [Next]_vars => Inv'
<1> SUFFICES ASSUME Inv, [Next]_vars PROVE Inv'
  OBVIOUS
<1> USE ExecAssumption DEF Inv, TypeOK, Lifecycle, KillIsComplete, CancelIsComplete,
     ErrorsExplained,
     BytesKept, OutputCapped, PipeDrained, AnswerIsTrue, Procs, Alive, Zombies,
     group, output, waited, answer
<1>1. CASE Receive
  <2>1. Verdict(in) \in {"none", "deny", "badCwd", "notFound"}
    BY DEF Verdict
  <2>2. (EffectiveTimeout(in) <= 0) \in BOOLEAN
    OBVIOUS
  <2>10. TypeOK'
    BY <1>1, <2>1, <2>2 DEF Receive
  <2>11. Lifecycle'
    BY <1>1, <2>1 DEF Receive
  <2>12. KillIsComplete'
    BY <1>1, <2>1 DEF Receive
  <2>17. CancelIsComplete'
    BY <1>1, <2>1 DEF Receive
  <2>13. ErrorsExplained'
    BY <1>1, <2>1 DEF Receive
  <2>14. BytesKept'
    BY <1>1, <2>1 DEF Receive
  <2>15. PipeDrained'
    BY <1>1, <2>1 DEF Receive
  <2>16. AnswerIsTrue'
    BY <1>1, <2>1 DEF Receive
  <2> QED
    BY <2>10, <2>11, <2>12, <2>13, <2>14, <2>15, <2>16, <2>17
<1>2. CASE Start
  <2>10. TypeOK'
    BY <1>2 DEF Start
  <2>11. Lifecycle'
    <3>1. CASE expired
      BY <1>2, <3>1 DEF Start
    <3>2. CASE ~expired
      <4>1. /\ pc' = "wait" /\ watch' = "watching" /\ proc'[Head] = "alive"
            /\ UNCHANGED <<status, result, waitErr, expired>>
        BY <1>2, <3>2 DEF Start
      <4>2. status = "none" /\ waitErr = "nil" /\ result = "none"
        BY <1>2, <3>2 DEF Start
      <4> QED
        BY <4>1, <4>2
    <3> QED
      BY <3>1, <3>2
  <2>12. KillIsComplete'
    BY <1>2 DEF Start
  <2>17. CancelIsComplete'
    BY <1>2 DEF Start
  <2>13. ErrorsExplained'
    BY <1>2 DEF Start
  <2>14. BytesKept'
    BY <1>2 DEF Start
  <2>15. PipeDrained'
    BY <1>2 DEF Start
  <2>16. AnswerIsTrue'
    BY <1>2 DEF Start
  <2> QED
    BY <2>10, <2>11, <2>12, <2>13, <2>14, <2>15, <2>16, <2>17
<1>3. CASE Expire
  BY <1>3 DEF Expire
<1>4. ASSUME NEW c \in Children, Fork(c) PROVE Inv'
  BY <1>4 DEF Fork
<1>5. ASSUME NEW p \in Procs, WriteOut(p) PROVE Inv'
  BY <1>5 DEF WriteOut
<1>6. CASE HeadExit
  BY <1>6 DEF HeadExit
<1>7. ASSUME NEW c \in Children, ChildExit(c) PROVE Inv'
  BY <1>7 DEF ChildExit
<1>8. CASE Cancel
  BY <1>8 DEF Cancel
<1>9. CASE WatchDelay
  BY <1>9 DEF WatchDelay
<1>10. CASE Copy
  <2>10. TypeOK'
    BY <1>10 DEF Copy
  <2>11. Lifecycle'
    BY <1>10 DEF Copy
  <2>12. KillIsComplete'
    BY <1>10 DEF Copy
  <2>17. CancelIsComplete'
    BY <1>10 DEF Copy
  <2>13. ErrorsExplained'
    BY <1>10 DEF Copy
  <2>14. BytesKept'
    <3>1. PICK n \in 1..pipe :
            /\ pipe' = pipe - n /\ got' = got + n
            /\ buf' = IF n > MaxOutputBytes - buf THEN MaxOutputBytes ELSE buf + n
            /\ truncated' = (truncated \/ n > MaxOutputBytes - buf)
      BY <1>10 DEF Copy
    <3>2. written' = got' + pipe' /\ due' <= written'
      BY <1>10, <3>1 DEF Copy
    <3>3. buf' = IF got' > MaxOutputBytes THEN MaxOutputBytes ELSE got'
      BY <3>1
    <3>4. truncated' <=> got' > MaxOutputBytes
      <4>1. n > MaxOutputBytes - buf <=> got + n > MaxOutputBytes
        OBVIOUS
      <4>2. got > MaxOutputBytes => got + n > MaxOutputBytes
        OBVIOUS
      <4> QED
        BY <3>1, <4>1, <4>2
    <3> QED
      BY <3>2, <3>3, <3>4
  <2>15. PipeDrained'
    BY <1>10 DEF Copy
  <2>16. AnswerIsTrue'
    BY <1>10 DEF Copy
  <2> QED
    BY <2>10, <2>11, <2>12, <2>13, <2>14, <2>15, <2>16, <2>17
<1>11. CASE CopyEOF
  <2>10. TypeOK'
    BY <1>11 DEF CopyEOF
  <2>11. Lifecycle'
    BY <1>11 DEF CopyEOF
  <2>12. KillIsComplete'
    BY <1>11 DEF CopyEOF
  <2>17. CancelIsComplete'
    BY <1>11 DEF CopyEOF
  <2>13. ErrorsExplained'
    BY <1>11 DEF CopyEOF
  <2>14. BytesKept'
    BY <1>11 DEF CopyEOF
  <2>15. PipeDrained'
    BY <1>11 DEF CopyEOF
  <2>16. AnswerIsTrue'
    BY <1>11 DEF CopyEOF
  <2> QED
    BY <2>10, <2>11, <2>12, <2>13, <2>14, <2>15, <2>16, <2>17
<1>12. CASE WaitHead
  BY <1>12 DEF WaitHead
<1>13. CASE WaitWatch
  BY <1>13 DEF WaitWatch
<1>14. CASE WaitCopy
  <2>10. TypeOK'
    BY <1>14 DEF WaitCopy
  <2>11. Lifecycle'
    BY <1>14 DEF WaitCopy
  <2>12. KillIsComplete'
    BY <1>14 DEF WaitCopy
  <2>17. CancelIsComplete'
    BY <1>14 DEF WaitCopy
  <2>13. ErrorsExplained'
    BY <1>14 DEF WaitCopy
  <2>14. BytesKept'
    BY <1>14 DEF WaitCopy
  <2>15. PipeDrained'
    BY <1>14 DEF WaitCopy
  <2>16. AnswerIsTrue'
    BY <1>14 DEF WaitCopy
  <2> QED
    BY <2>10, <2>11, <2>12, <2>13, <2>14, <2>15, <2>16, <2>17
<1>15. CASE Reap
  BY <1>15 DEF Reap
<1>16. CASE Answer
  BY <1>16 DEF Answer
<1>17. CASE UNCHANGED vars
  BY <1>17 DEF vars
<1> QED
  BY <1>1, <1>2, <1>3, <1>4, <1>5, <1>6, <1>7, <1>8, <1>9, <1>10, <1>11, <1>12,
     <1>13, <1>14, <1>15, <1>16, <1>17 DEF Next, Run, Watcher, Copier, Group

\* Inv holds in every state of every behaviour.
THEOREM Invariance == Spec => []Inv
  BY InitInv, NextInv, PTL DEF Spec

\* Type correctness of CommandExec.
THEOREM TypeCorrect == Spec => []TypeOK
  BY Invariance, PTL DEF Inv

\* SR-53: the output limit holds for output of any length, in chunks of any size.
THEOREM OutputIsCapped == Spec => []OutputCapped
<1>1. Inv => OutputCapped
  BY DEF Inv, BytesKept
<1> QED
  BY <1>1, Invariance, PTL

\* Without a timeout no byte written until the command ended is lost, whatever its
\* children do.
THEOREM OutputIsComplete == Spec => []OutputComplete
<1>1. Inv => OutputComplete
  BY DEF Inv, TypeOK, Lifecycle, BytesKept, PipeDrained, AnswerIsTrue, OutputComplete
<1> QED
  BY <1>1, Invariance, PTL

\* What an answer holds of the output is capped and, without a timeout, complete.
THEOREM OutputHolds == Spec => []OutputIsTrue
  BY OutputIsCapped, OutputIsComplete, PTL DEF OutputIsTrue

\* SR-47: a killed command is reported, and its whole group is dead and reaped.
THEOREM KillIsReported == Spec => []KilledIsReported
<1>1. Inv => KilledIsReported
  BY DEF Inv, TypeOK, Lifecycle, KillIsComplete, ErrorsExplained, AnswerIsTrue, KilledIsReported
<1> QED
  BY <1>1, Invariance, PTL

\* Without a timeout the exit code is the command's own.
THEOREM ExitCodeIsItsOwn == Spec => []ExitCodeIsTrue
<1>1. Inv => ExitCodeIsTrue
  BY DEF Inv, TypeOK, Lifecycle, ErrorsExplained, AnswerIsTrue, ExitCodeIsTrue
<1> QED
  BY <1>1, Invariance, PTL

\* When a command that ended by itself is answered as timed out.
THEOREM OwnEndIsExplained == Spec => []OwnEndAsTimeout
<1>1. Inv => OwnEndAsTimeout
  BY DEF Inv, TypeOK, Lifecycle, CancelIsComplete, ErrorsExplained, AnswerIsTrue,
         OwnEndAsTimeout
<1> QED
  BY <1>1, Invariance, PTL

\* All three: what the answer says of the command's end, for any children and timing.
THEOREM EndHolds == Spec => []EndIsTrue
  BY KillIsReported, ExitCodeIsItsOwn, OwnEndIsExplained, PTL DEF EndIsTrue
===============================================================================
