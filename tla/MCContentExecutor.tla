-------------------------- MODULE MCContentExecutor -------------------------
(***************************************************************************)
(* The module TLC checks the executor with: the constants need no values   *)
(* of their own beside those of the configuration.                         *)
(***************************************************************************)
EXTENDS ContentExecutorProperties
=============================================================================
