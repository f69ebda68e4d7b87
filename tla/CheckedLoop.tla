----------------------------- MODULE CheckedLoop -----------------------------
(***************************************************************************)
(* The benchmark's reference scheduler (benchmarks/value/checked-loop.mjs):*)
(* runCheckedLoop shares the engine's value objects, but validates answers *)
(* and decides what comes next by code of its own, for edit tasks only.    *)
(*                                                                         *)
(* A step is one adapter call with what the loop makes of it, taken at the *)
(* moment the call settles.  The race inside a call is the engine's, which *)
(* WorkflowEngine takes apart; of it remain the two facts no later call    *)
(* can undo: that the host aborted, and that an accepted clock sample was  *)
(* at or past the deadline.                                                *)
(***************************************************************************)
EXTENDS WorkflowContracts

CONSTANTS
  Setups,   \* the task policies and options runCheckedLoop is called with
  Answers   \* what an adapter's promise can fulfil with

ASSUME SetupAssumption ==
  \A s \in Setups : s.reviewers \in Seq(STRING) /\ s.requiredReviewers \in Nat \ {0}

ASSUME NullAssumption == None \notin RunOutcomes

VARIABLES
  setup, pc, reviewer, candidate, attempt, seen, outcome, code, stages, report,  \* as in the engine
  aborted,  \* the host's signal
  late      \* the last accepted clock sample is at or past the deadline

run == <<setup, reviewer, candidate, attempt, seen, outcome, code, stages>>
vars == <<run, pc, report, aborted, late>>

Reviewers == {setup.reviewers[i] : i \in DOMAIN setup.reviewers}

AdaptersAccepted ==
  /\ Len(setup.reviewers) = setup.requiredReviewers
  /\ Cardinality(Reviewers) = Len(setup.reviewers)
  /\ setup.author \notin Reviewers \union {None}

SetupAccepted ==
  /\ setup.mode = "edit"
  /\ AdaptersAccepted
  /\ setup.requireReportStore => setup.store = "callable"

Report(final, why, stored, storeCode, receipt) ==
  [outcome |-> final, workflowOutcome |-> outcome, code |-> why,
   stored |-> stored, storeCode |-> storeCode, receipt |-> receipt]

emptyReport(why) ==
  [Report("BLOCKED", why, FALSE, None, None) EXCEPT !.workflowOutcome = "BLOCKED"]

Init ==
  /\ setup \in Setups
  /\ pc = "setup"
  /\ reviewer = 1
  /\ candidate = None
  /\ attempt = 0
  /\ seen = {}
  /\ outcome = None
  /\ code = None
  /\ stages = <<>>
  /\ report = None
  /\ aborted \in BOOLEAN
  /\ late = FALSE

Record(stage, status, fingerprint, who) ==
  stages' = Append(stages, [stage |-> stage, status |-> status, attempt |-> attempt,
                            fingerprint |-> fingerprint, reviewer |-> who])

Setup(clockUsable) ==
  /\ pc = "setup"
  /\ IF SetupAccepted /\ clockUsable
       THEN pc' = "authorizeContext" /\ Record("intake", "PASS", None, None) /\ UNCHANGED report
       ELSE /\ pc' = "reported"
            /\ report' = emptyReport(IF setup.mode = "edit" /\ AdaptersAccepted /\ ~clockUsable
                                       THEN "CLOCK_INVALID" ELSE "REJECTED")
            /\ UNCHANGED stages
  /\ UNCHANGED <<setup, reviewer, candidate, attempt, seen, outcome, code, aborted, late>>

(***************************************************************************)
(* How a call or a look at the guard may be stopped.  The signal comes     *)
(* first; an old sample behind the last one is an error; the timer of a    *)
(* call does not depend on the clock, so a call may be late when the clock *)
(* is not.                                                                 *)
(***************************************************************************)
GuardStops ==
  IF aborted THEN {"ABORTED"} ELSE {"DEADLINE_EXCEEDED", "CLOCK_INVALID"}

CallStops ==
  GuardStops \union (IF aborted \/ late THEN {} ELSE {"ADAPTER_EXCEPTION", "RESULT_INVALID"})

InTime == ~aborted /\ ~late

\* Only the guard's own verdict shows that the clock has passed the deadline.
Sampled(why, byGuard) ==
  late' \in IF why # "DEADLINE_EXCEEDED" THEN {late}
            ELSE IF byGuard THEN {TRUE} ELSE {late, TRUE}

StopOutcome(why) ==
  CASE why = "ABORTED" -> "CANCELLED"
    [] why = "DEADLINE_EXCEEDED" -> "TIMED_OUT"
    [] OTHER -> "BLOCKED"

stop(stage, why) ==
  /\ outcome' = StopOutcome(why)
  /\ code' = why
  /\ Record(stage, "UNAVAILABLE", candidate, None)
  /\ pc' = "store"
  /\ UNCHANGED <<setup, reviewer, candidate, attempt, seen, report, aborted>>

(***************************************************************************)
(* The loop's own reading of an answer.                                    *)
(***************************************************************************)
\* Slip: a test run without assertions passes.
CountsAgreeWhenEmpty(answer) ==
  /\ answer.executed >= answer.passed
  /\ CASE answer.status = "PASS" -> answer.executed = answer.passed
       [] answer.status = "FAIL" -> answer.executed # 0 /\ answer.executed # answer.passed
       [] OTHER -> answer.executed = 0 /\ answer.passed = 0

CountsAgree(answer) ==
  /\ answer.executed >= answer.passed
  /\ CASE answer.status = "PASS" -> answer.executed # 0 /\ answer.executed = answer.passed
       [] answer.status = "FAIL" -> answer.executed # 0 /\ answer.executed # answer.passed
       [] OTHER -> answer.executed = 0 /\ answer.passed = 0

checkEnvelope(answer, stage, binding, reviewerId) ==
  /\ answer.schema = stage
  /\ answer.status \in AdapterStatuses
  /\ answer.binding = binding
  /\ answer.reason = "empty" <=> answer.status = "PASS"
  /\ answer.reason # "blank"
  /\ stage # "authorizeContext" => (answer.findings > 0 <=> answer.status = "FAIL")
  /\ stage = "tests" => CountsAgree(answer)
  /\ stage = "review" => answer.reviewer = reviewerId /\ answer.summary = "text"

DraftAdmitted(answer) ==
  /\ answer.schema = "draft"
  /\ CandidateAccepted(answer.candidate, setup.author)
  /\ answer.binding = Binding(attempt, answer.candidate.content)
  /\ answer.note = "text"

RepairAdmitted(answer) ==
  /\ answer.schema = "repair"
  /\ answer.status \in RepairStatuses
  /\ IF answer.status = "REPAIRED" THEN CandidateAccepted(answer.candidate, setup.author)
     ELSE answer.candidate = None
  /\ answer.binding =
       Binding(attempt, IF answer.candidate = None THEN candidate ELSE answer.candidate.content)
  /\ answer.base = candidate
  /\ answer.note = "text"

ReviewerId == setup.reviewers[reviewer]

Admitted(answer) ==
  CASE pc = "draft" -> DraftAdmitted(answer)
    [] pc = "repair" -> RepairAdmitted(answer)
    [] OTHER -> checkEnvelope(answer, pc, Binding(attempt, candidate), ReviewerId)

(***************************************************************************)
(* The calls.                                                              *)
(***************************************************************************)
Called == Gates \union {"draft", "repair"}

Fulfilled(answer) == InTime /\ pc \in Called /\ answer.schema \in {pc, "malformed"}

Stopped(why) ==
  /\ pc \in Called
  /\ why \in CallStops
  /\ Sampled(why, FALSE)
  /\ stop(pc, why)

Refused(answer) ==
  /\ Fulfilled(answer)
  /\ ~Admitted(answer)
  /\ stop(pc, "REJECTED")
  /\ UNCHANGED late

Who == IF pc = "review" THEN ReviewerId ELSE None

Passes(answer) ==
  /\ pc \in Gates /\ Fulfilled(answer) /\ Admitted(answer)
  /\ answer.status = "PASS"
  /\ Record(pc, "PASS", candidate, Who)
  /\ pc' = CASE pc = "authorizeContext" -> "draft"
             [] pc = "staticChecks" -> "tests"
             [] pc = "tests" -> "review"
             [] pc = "review" -> IF reviewer < Len(setup.reviewers) THEN "review" ELSE "completion"
  /\ reviewer' = IF pc = "review" /\ pc' = "review" THEN reviewer + 1 ELSE 1
  /\ UNCHANGED <<setup, candidate, attempt, seen, outcome, code, report, aborted, late>>

\* A failed gate is repaired while the budget lasts; everything else ends the run.
FailsOrBlocks(answer) ==
  LET failed == pc # "authorizeContext" /\ answer.status = "FAIL"
      repairs == failed /\ attempt < setup.repairBudget
  IN /\ pc \in Gates /\ Fulfilled(answer) /\ Admitted(answer)
     /\ answer.status # "PASS"
     /\ Record(pc, answer.status, candidate, Who)
     /\ outcome' = IF ~failed THEN "BLOCKED"
                   ELSE IF ~repairs /\ setup.repairBudget > 0 THEN "REPAIR_LIMIT" ELSE "FAILED"
     /\ code' = answer.status
     /\ attempt' = IF repairs THEN attempt + 1 ELSE attempt
     /\ pc' = IF repairs THEN "repair" ELSE "store"
     /\ UNCHANGED <<setup, reviewer, candidate, seen, report, aborted, late>>

\* The candidate of a draft or a repair enters the checks, with no outcome yet.
Check(answer) ==
  /\ candidate' = answer.candidate.content
  /\ seen' = seen \union {candidate'}
  /\ outcome' = None
  /\ code' = None
  /\ reviewer' = 1
  /\ pc' = "staticChecks"
  /\ UNCHANGED <<setup, attempt, report, aborted, late>>

Drafted(answer) ==
  /\ pc = "draft" /\ Fulfilled(answer) /\ Admitted(answer)
  /\ Record("draft", "PASS", answer.candidate.content, None)
  /\ Check(answer)

\* Slip: a repair that returns to an earlier candidate is checked again.
NoProgressAtBase(answer) ==
  answer.status = "NO_CHANGE" \/ (answer.candidate # None /\ answer.candidate.content = candidate)

NoProgress(answer) ==
  answer.status = "NO_CHANGE" \/ (answer.candidate # None /\ answer.candidate.content \in seen)

Repaired(answer) ==
  /\ pc = "repair" /\ Fulfilled(answer) /\ Admitted(answer)
  /\ Record("repair", answer.status,
            IF answer.candidate = None THEN candidate ELSE answer.candidate.content, None)
  /\ IF NoProgress(answer) \/ answer.candidate = None
       THEN /\ outcome' = IF NoProgress(answer) THEN "NO_PROGRESS"
                          ELSE IF answer.status = "FAIL" THEN "FAILED" ELSE "BLOCKED"
            /\ code' = IF NoProgress(answer) THEN "NO_PROGRESS" ELSE answer.status
            /\ pc' = "store"
            /\ UNCHANGED <<setup, reviewer, candidate, attempt, seen, report, aborted, late>>
       ELSE Check(answer)

\* Every reviewer passed; one more look at the guard decides.
Completes ==
  /\ pc = "completion"
  /\ \/ /\ InTime
        /\ outcome' = "COMPLETED"
        /\ pc' = "store"
        /\ UNCHANGED <<setup, reviewer, candidate, attempt, seen, code, stages, report, aborted, late>>
     \/ \E why \in GuardStops : Sampled(why, TRUE) /\ stop("completion", why)

(***************************************************************************)
(* The report and its storage.  Unlike the engine, the loop stores through *)
(* the invoker of the run, also when the run was cancelled or timed out.   *)
(***************************************************************************)
Finish(final) ==
  /\ pc = "store"
  /\ pc' = "reported"
  /\ report' = final
  /\ UNCHANGED <<run, aborted>>

Unstored(storeCode, receipt) ==
  IF storeCode \in {"ABORTED", "DEADLINE_EXCEEDED"}
    THEN Report(StopOutcome(storeCode), storeCode, FALSE, storeCode, receipt)
  ELSE IF setup.requireReportStore THEN Report("BLOCKED", storeCode, FALSE, storeCode, receipt)
  ELSE Report(outcome, code, FALSE, storeCode, receipt)

NoStore ==
  /\ setup.store # "callable"
  /\ Finish(Report(outcome, code, FALSE,
                   IF setup.store = "invalid" THEN "REPORT_STORE_UNAVAILABLE" ELSE None, None))
  /\ UNCHANGED late

StoreStopped(why) ==
  /\ setup.store = "callable"
  /\ why \in CallStops
  /\ Sampled(why, FALSE)
  /\ Finish(Unstored(why, None))

\* Slip: the receipt need not be about this report.
ReceiptAdmittedAnyReport(answer) ==
  /\ answer.schema = "reportStore"
  /\ answer.status \in AdapterStatuses
  /\ answer.binding = Binding(attempt, candidate)

ReceiptAdmitted(answer) ==
  /\ answer.schema = "reportStore"
  /\ answer.status \in AdapterStatuses
  /\ answer.binding = Binding(attempt, candidate)
  /\ answer.sameReport

StoreAnswers(answer) ==
  /\ setup.store = "callable"
  /\ InTime
  /\ answer.schema \in {"reportStore", "malformed"}
  /\ Finish(IF ~ReceiptAdmitted(answer) THEN Unstored("REJECTED", None)
            ELSE IF answer.status = "PASS" THEN Report(outcome, code, TRUE, None, answer)
            ELSE Unstored(answer.status, answer))
  /\ UNCHANGED late

HostAborts ==
  /\ ~aborted
  /\ aborted' = TRUE
  /\ UNCHANGED <<run, pc, report, late>>

Returned == pc = "reported" /\ UNCHANGED vars

Next ==
  \/ \E usable \in BOOLEAN : Setup(usable)
  \/ \E why \in CallStops : Stopped(why) \/ StoreStopped(why)
  \/ \E answer \in Answers :
       \/ Refused(answer) \/ Passes(answer) \/ FailsOrBlocks(answer)
       \/ Drafted(answer) \/ Repaired(answer) \/ StoreAnswers(answer)
  \/ Completes \/ NoStore \/ HostAborts \/ Returned

Spec == Init /\ [][Next]_vars
=============================================================================
