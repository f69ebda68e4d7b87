------------------------ MODULE CommandLineProperties ------------------------
(***************************************************************************)
(* What a caller may conclude from an exit code.                           *)
(***************************************************************************)
EXTENDS CommandLine

(***************************************************************************)
(* Exit codes are true although error, close and the write's callback race *)
(* on shared streams: 0 and 1 are given only for a line that was written,  *)
(* 0 for a run that completed (and was stored, in the demo), 1 for one     *)
(* that did not, and no failed write ends the process by an error event    *)
(* nobody listens to.                                                      *)
(***************************************************************************)
ExitCodeIsTrue ==
  /\ ~unhandled
  /\ \A c \in Calls : call[c].exit # None =>
       /\ call[c].exit = 0 => call[c].line = "written" /\ call[c].target = "stdout"
       /\ call[c].exit = 1 => call[c].line = "written" /\ Runs(c)
       /\ Runs(c) /\ call[c].exit < 2 =>
            (call[c].exit = 0 <=>
               \/ call[c].ending = "stored"
               \/ call[c].ending = "completed" /\ call[c].command = "local-model")
=============================================================================
