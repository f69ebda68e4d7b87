------------------------- MODULE WorkflowRefinement -------------------------
(***************************************************************************)
(* The engine implements WorkflowRun.  A gate of the abstract run is a     *)
(* stage and, for reviews, a reviewer; the approvals are the PASS records  *)
(* bound to the candidate and attempt in force.                            *)
(***************************************************************************)
EXTENDS WorkflowProperties

RequiredGates ==
  {<<"staticChecks", None>>, <<"tests", None>>} \union {<<"review", id>> : id \in Reviewers}

Concluded == pc \in {"store", "storing", "reported"}

Open == candidate # None /\ pc # "repair" /\ ~Concluded

Approved == {gate \in RequiredGates : Passed(gate[1], gate[2])}

Verdict == IF Concluded THEN outcome ELSE None

Published == IF pc = "reported" THEN report.outcome ELSE None

Promise == INSTANCE WorkflowRun WITH
  Candidates <- Contents,
  Outcomes <- RunOutcomes,
  Nobody <- None,
  required <- RequiredGates,
  subject <- candidate,
  presented <- seen,
  open <- Open,
  approvals <- Approved,
  verdict <- Verdict,
  published <- Published

(***************************************************************************)
(* Every behaviour of the engine is one the abstract run allows: approvals *)
(* are withdrawn with the candidate they were given to, no candidate is    *)
(* presented twice, COMPLETED needs all approvals of the open candidate,   *)
(* and the caller is told the verdict or a storage failure.                *)
(***************************************************************************)
ImplementsRun == Promise!Spec
=============================================================================
