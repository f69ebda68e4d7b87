------------------------ MODULE CheckedLoopProperties ------------------------
(***************************************************************************)
(* The reference scheduler makes the engine's promise by other means.      *)
(***************************************************************************)
EXTENDS CheckedLoop

CONSTANT Evidence   \* answers the two validators are compared on

ASSUME EvidenceAssumption ==
  \A answer \in Evidence :
    /\ answer.schema \in Gates => answer.reason \in {"empty", "blank", "text"}
    /\ answer.schema \in Gates \ {"authorizeContext"} => answer.findings \in Nat
    /\ answer.schema = "tests" => answer.executed \in Nat /\ answer.passed \in Nat

RequiredGates ==
  {<<"staticChecks", None>>, <<"tests", None>>} \union {<<"review", id>> : id \in Reviewers}

Passed(gate) ==
  \E i \in DOMAIN stages :
    stages[i] = [stage |-> gate[1], status |-> "PASS", attempt |-> attempt,
                 fingerprint |-> candidate, reviewer |-> gate[2]]

Concluded == pc \in {"store", "reported"}

Open == candidate # None /\ pc # "repair" /\ ~Concluded

Approved == {gate \in RequiredGates : Passed(gate)}

Verdict == IF Concluded THEN outcome ELSE None

Published == IF pc = "reported" THEN report.outcome ELSE None

Promise == INSTANCE WorkflowRun WITH
  Candidates <- Contents,
  Outcomes <- RunOutcomes,
  Nobody <- None,
  required <- RequiredGates,
  subject <- candidate,
  presented <- seen,
  open <- Open,
  approvals <- Approved,
  verdict <- Verdict,
  published <- Published

(***************************************************************************)
(* The loop is a second implementation of WorkflowRun, the promise the     *)
(* engine implements: what the benchmark compares are two schedulers with  *)
(* the same obligations, and neither completes a run on stale approvals or *)
(* presents a candidate twice.                                             *)
(***************************************************************************)
LoopImplementsRun == Promise!Spec

\* How the engine's contracts read the same answer at the same point.
EngineAccepts(answer) ==
  CASE pc = "draft" -> DraftAccepted(answer, attempt, setup.author)
    [] pc = "repair" -> RepairAccepted(answer, attempt, candidate, setup.author)
    [] pc \in Gates -> /\ GateAccepted(pc, answer, Binding(attempt, candidate))
                       /\ pc = "review" => answer.reviewer = ReviewerId

(***************************************************************************)
(* The loop's handwritten validators admit exactly the answers the         *)
(* engine's do, including evidence that contradicts its status, empty test *)
(* runs, stale bindings and repairs that keep or lack a candidate.         *)
(***************************************************************************)
JudgesAlike ==
  pc \in Called =>
    \A answer \in {a \in Evidence : a.schema = pc} : Admitted(answer) <=> EngineAccepts(answer)

(***************************************************************************)
(* A report counts as stored only on a PASS receipt for itself, and then   *)
(* keeps the workflow's outcome.  Storage never improves an outcome, a     *)
(* required report that was not stored is not reported as a success, and a *)
(* run the host cancelled is never stored: the loop has no second invoker. *)
(***************************************************************************)
LoopReportIsHonest ==
  pc = "reported" =>
    /\ report.stored =>
         /\ report.receipt.status = "PASS"
         /\ report.receipt.sameReport
         /\ report.outcome = report.workflowOutcome
         /\ report.workflowOutcome # "CANCELLED"
    /\ report.outcome # report.workflowOutcome \/ (setup.requireReportStore /\ ~report.stored) =>
         report.outcome \in {"BLOCKED", "CANCELLED", "TIMED_OUT"}
=============================================================================
