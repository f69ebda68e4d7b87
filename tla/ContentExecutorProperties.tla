---------------------- MODULE ContentExecutorProperties ---------------------
(***************************************************************************)
(* What the executor promises about the content it hands on and about its  *)
(* child processes.                                                        *)
(***************************************************************************)
EXTENDS ContentExecutor

Returned(c) == call[c].at = "returned"

(***************************************************************************)
(* Every call leaves exactly one record when it returns and none before: a *)
(* reading if it was answered, a refusal if not, although calls overlap    *)
(* and the events of one child may all arrive.                             *)
(***************************************************************************)
OneRecordPerCall ==
  \A c \in Calls :
    /\ Cardinality({i \in DOMAIN readings : readings[i].call = c})
         = (IF Returned(c) /\ call[c].ok THEN 1 ELSE 0)
    /\ Cardinality({i \in DOMAIN refusals : refusals[i].call = c})
         = (IF Returned(c) /\ ~call[c].ok THEN 1 ELSE 0)

(***************************************************************************)
(* A reading names the content the grant admitted for its own call, and    *)
(* comes from a child that ended by itself and successfully, with its      *)
(* whole output read.                                                      *)
(***************************************************************************)
ReadingsAreConsented ==
  \A i \in DOMAIN readings :
    LET record == call[readings[i].call]
    IN /\ record.content = readings[i].content
       /\ record.ended = "success" /\ record.child = "closed"
       /\ ~record.overflow

\* No child is left running unsignalled once its call is settled: not after
\* the deadline, an abort, an error or too much output.
NoChildLeftRunning ==
  \A c \in Calls : call[c].child = "alive" => call[c].at = "running" /\ ~call[c].overflow

(***************************************************************************)
(* A child is only ever started on a verified binary, for a call that the  *)
(* host has not aborted, under a grant that is neither revoked nor seen to *)
(* be expired; each launch is one admission of the grant.                  *)
(***************************************************************************)
LaunchesNeedConsent ==
  [][\A c \in Calls : call'[c].child = "alive" /\ call[c].child = None =>
       /\ binary = "pinned"
       /\ ~call[c].aborted
       /\ ~grant.revoked /\ ~grant'.expired
       /\ grant'.admitted = grant.admitted + 1]_vars

\* Every call whose child was started returns, even if the child never ends:
\* the timer settles it, and its continuation runs.
EveryCallReturns ==
  \A c \in Calls : call[c].at # "unused" ~> Returned(c)
=============================================================================
