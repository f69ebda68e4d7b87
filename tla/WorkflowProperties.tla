------------------------- MODULE WorkflowProperties -------------------------
(***************************************************************************)
(* What is expected of a run of the workflow engine.                       *)
(***************************************************************************)
EXTENDS WorkflowEngine

Codes == {"REJECTED", "CLOCK_INVALID", "ABORTED", "DEADLINE_EXCEEDED", "RESULT_INVALID",
          "ADAPTER_EXCEPTION", "FAILED", "NO_PROGRESS", "REPORT_STORE_UNAVAILABLE"}
         \union AdapterStatuses \union RepairStatuses

\* null is not a code.
ASSUME CodeAssumption == None \notin Codes

Entries == [stage : RunStages \union {"intake", "completion"},
            status : AdapterStatuses \union RepairStatuses,
            attempt : Nat,
            fingerprint : Contents \union {None},
            reviewer : STRING \union {None}]

Results == [kind : {"none", "cancelled", "timed_out", "error", "result"},
            code : Codes \union {None},
            value : Answers \union {None}]

Invokers == [previous : Nat, deadline : Nat, heedsHost : BOOLEAN]

\* The variables hold the values the code keeps in them.
TypeOK ==
  /\ setup \in Setups
  /\ pc \in RunStages \union {"setup", "completion", "store", "storing", "reported"}
  /\ reviewer \in 1..Len(setup.reviewers) \union {1}
  /\ candidate \in Contents \union {None}
  /\ attempt \in Nat /\ attempt <= setup.repairBudget
  /\ seen \subseteq Contents
  /\ outcome \in RunOutcomes \union {None}
  /\ code \in Codes \union {None}
  /\ stages \in Seq(Entries)
  /\ phase \in {"idle", "scheduled", "running", "settled"}
  /\ result \in Results
  /\ aborted \in BOOLEAN
  /\ invoker \in Invokers
  /\ abandoned \subseteq [stage : RunStages \union {"storing"}, attempt : Nat, reviewer : Nat]
  /\ report \in {None} \union
       [outcome : RunOutcomes, workflowOutcome : RunOutcomes, code : Codes \union {None},
        stored : BOOLEAN, storeCode : Codes \union {None}]

CandidateGates == {"staticChecks", "tests", "review"}

HasPass(history, fingerprint, k, stage, who) ==
  \E i \in DOMAIN history :
    history[i] = [stage |-> stage, status |-> "PASS", attempt |-> k,
                  fingerprint |-> fingerprint, reviewer |-> who]

\* A PASS recorded for the candidate and the attempt now in force.
Passed(stage, who) == HasPass(stages, candidate, attempt, stage, who)

EveryGatePassed ==
  /\ Passed("staticChecks", None)
  /\ Passed("tests", None)
  /\ \A i \in 1..Len(setup.reviewers) : Passed("review", setup.reviewers[i])

(***************************************************************************)
(* A run is COMPLETED only if, after the last repair, static checks, tests *)
(* and every reviewer passed the very candidate of the report, and the     *)
(* context had been authorized.  A pass of an earlier candidate, an        *)
(* earlier attempt or another reviewer does not count.                     *)
(***************************************************************************)
CompletedRunPassedEveryGate ==
  outcome = "COMPLETED" =>
    /\ candidate # None
    /\ EveryGatePassed
    /\ \E i \in DOMAIN stages :
         stages[i].stage = "authorizeContext" /\ stages[i].status = "PASS"

(***************************************************************************)
(* The gates never judge one content twice: two gate records are about the *)
(* same candidate exactly when they belong to the same attempt.  An author *)
(* that cycles between candidates ends in NO_PROGRESS.                     *)
(***************************************************************************)
OneCandidatePerAttempt ==
  \A i, j \in DOMAIN stages :
    stages[i].stage \in CandidateGates /\ stages[j].stage \in CandidateGates =>
      (stages[i].fingerprint = stages[j].fingerprint <=> stages[i].attempt = stages[j].attempt)

\* The history of a run is well formed: an attempt is opened by a repair
\* and by nothing else, and right before it a gate of the attempt before
\* failed.
AttemptsFollowFailures ==
  \A i \in 2..Len(stages) :
    IF stages[i].stage = "repair"
      THEN /\ stages[i].attempt = stages[i - 1].attempt + 1
           /\ stages[i - 1].stage \in CandidateGates
           /\ stages[i - 1].status = "FAIL"
      ELSE stages[i].attempt = stages[i - 1].attempt

GateFailures(history) ==
  {i \in DOMAIN history : history[i].stage \in CandidateGates /\ history[i].status = "FAIL"}

FailedCandidates(history) == {history[i].fingerprint : i \in GateFailures(history)}

\* REPAIR_LIMIT is reported only when the budget is positive and used up:
\* that many candidates beside the first were produced, and every one of
\* them failed a gate.
RepairLimitIsEarned ==
  outcome = "REPAIR_LIMIT" =>
    /\ setup.repairBudget > 0
    /\ Cardinality(FailedCandidates(stages)) = setup.repairBudget + 1

(***************************************************************************)
(* Only failures of a gate are repaired, never stops, refusals or missing  *)
(* results, one attempt for one failure, and the limit is reached by       *)
(* failures alone.                                                         *)
(***************************************************************************)
RepairsAreEarned == AttemptsFollowFailures /\ RepairLimitIsEarned

(***************************************************************************)
(* Whatever the author returns, the candidates of a run stay inside the    *)
(* task's files with the protected ones intact, and the author of a        *)
(* candidate is never one of its reviewers.                                *)
(***************************************************************************)
AdmissibleCandidate ==
  candidate # None => seen \subseteq Admissible /\ candidate \in seen /\ setup.author \notin Reviewers

(***************************************************************************)
(* Adapters of a run never overlap, although a timed-out or cancelled      *)
(* adapter may run on for ever: once a call has been abandoned no other    *)
(* stage is called, except the store.                                      *)
(***************************************************************************)
AdaptersDoNotOverlap ==
  phase \in {"scheduled", "running"} /\ pc # "storing" => abandoned = {}

Advances ==
  \/ phase = "scheduled" /\ phase' = "running"
  \/ phase = "running" /\ phase' = "settled" /\ result'.kind = "result"
  \/ outcome # "COMPLETED" /\ outcome' = "COMPLETED"

(***************************************************************************)
(* An adapter is started, an answer is counted and a run completes only at *)
(* a moment when the host has not cancelled and the clock has just been    *)
(* seen below the deadline; and the accepted samples never go back, not    *)
(* even when a fresh invoker replaces the run's for a terminal report.     *)
(***************************************************************************)
OnlyInTime ==
  [][/\ Advances => ~HostStops(invoker) /\ invoker'.previous < invoker.deadline
     /\ pc # "setup" => invoker'.previous >= invoker.previous]_vars

\* A report counts as stored only on a PASS receipt for its own candidate
\* and then keeps the workflow's outcome.
StoredOnReceipt ==
  report.stored =>
    /\ report.outcome = report.workflowOutcome
    /\ result.value.status = "PASS"
    /\ result.value.binding.fingerprint = candidate

\* Storage can only worsen an outcome, and a required report that was not
\* stored says so in it.
WorsensOnly ==
  /\ report.outcome # report.workflowOutcome => report.outcome \in {"BLOCKED", "CANCELLED", "TIMED_OUT"}
  /\ setup.requireReportStore /\ ~report.stored =>
       report.outcome \in {"BLOCKED", "CANCELLED", "TIMED_OUT"}

\* The host cannot cancel the storage of a required report of a run that
\* was already cancelled or timed out; only the clock or the storage budget
\* can prevent the attempt.
TerminalIgnoresHost ==
  Terminal =>
    /\ report.storeCode # "ABORTED"
    /\ report.outcome = "CANCELLED" => report.workflowOutcome = "CANCELLED"

(***************************************************************************)
(* The report tells what became of the run and of its own storage: it is   *)
(* stored on a receipt, storage never invents a better outcome, and the    *)
(* report of a run that was stopped is stored whatever the host does.      *)
(***************************************************************************)
ReportIsHonest == report # None => StoredOnReceipt /\ WorsensOnly /\ TerminalIgnoresHost

(***************************************************************************)
(* Every run returns a report, even if no adapter ever settles: the timer  *)
(* settles the call, and the budget bounds the repairs.                    *)
(***************************************************************************)
EveryRunReports == <>(pc = "reported")
=============================================================================
