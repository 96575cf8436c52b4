---------------------------- MODULE MCCommandExec -----------------------------
(***************************************************************************)
(* Instances of CommandExec for TLC.                                       *)
(***************************************************************************)
EXTENDS CommandExec

\* Not positive, default, within and above the limit.
SomeTimeouts == {-1, 0, 1, 3}
===============================================================================
