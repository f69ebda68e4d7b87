----------------------------- MODULE MCLocalChat -----------------------------
(***************************************************************************)
(* The module TLC checks the local chat adapter with.                      *)
(***************************************************************************)
EXTENDS LocalChatProperties
=============================================================================
