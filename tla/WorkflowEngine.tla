--------------------------- MODULE WorkflowEngine ---------------------------
(***************************************************************************)
(* One call of runWorkflow (workflow/engine.mjs): the sequential control   *)
(* flow of a run and the invoker that races every adapter call against a   *)
(* timer, the host's abort signal and a clock supplied by the host.        *)
(*                                                                         *)
(* JavaScript runs one piece of synchronous code at a time.  A step of     *)
(* this module is a piece of it: it ends where other code may run, at an   *)
(* await, or where the engine calls back into the host, at a clock sample. *)
(* The samples are arbitrary, since the clock is an option of the caller;  *)
(* an exception, a fraction and a negative number are treated exactly like *)
(* an unsafe integer, so samples above MaxSafe stand for all of them.      *)
(***************************************************************************)
EXTENDS WorkflowContracts

CONSTANTS
  Setups,         \* the task policies and options runWorkflow is called with
  Answers,        \* what an adapter's promise can fulfil with
  Samples,        \* what the clock can return
  TotalDeadline,  \* task.policy.totalDeadlineMs
  StoreTimeout,   \* options.storeTimeoutMs
  MaxSafe         \* Number.MAX_SAFE_INTEGER

ASSUME ClockAssumption ==
  /\ Samples \subseteq Nat
  /\ TotalDeadline \in Nat \ {0}
  /\ StoreTimeout \in Nat \ {0}
  /\ MaxSafe \in Nat

ASSUME SetupAssumption ==
  \A s \in Setups :
    /\ s.mode \in {"edit", "review"}
    /\ s.repairBudget \in Nat
    /\ s.requireReportStore \in BOOLEAN
    /\ s.store \in {"absent", "invalid", "callable"}
    /\ s.reviewers \in Seq(STRING)
    /\ s.requiredReviewers \in Nat \ {0}

\* null is neither a string nor, in particular, one of the outcomes.
ASSUME NullAssumption == None \notin STRING /\ None \notin RunOutcomes

VARIABLES
  setup,      \* the task and options of this run, never changed
  pc,         \* the stage runWorkflow is at
  reviewer,   \* the reviewer of the loop under way, counted from 1
  candidate,  \* the candidate's fingerprint, or None
  attempt,    \* repairAttempts
  seen,       \* fingerprints of every candidate of the run
  outcome,    \* the workflow outcome, None while undecided
  code,       \* the reason that goes with the outcome
  stages,     \* the stage records, oldest first
  phase,      \* of the invocation under way
  result,     \* what that invocation settled with
  aborted,    \* the host's signal
  invoker,    \* its last accepted sample, its deadline, and if it heeds the host
  abandoned,  \* adapter calls dropped while they were still running
  report      \* the report returned to the caller, or None

run == <<setup, reviewer, candidate, attempt, seen, outcome, code, stages>>

vars == <<run, pc, phase, result, aborted, invoker, abandoned, report>>

RunStages == Gates \union {"draft", "repair"}

NoResult == [kind |-> "none", code |-> None, value |-> None]
Proceed == [kind |-> "proceed", code |-> None, value |-> None]
Cancelled == [kind |-> "cancelled", code |-> "ABORTED", value |-> None]
TimedOut == [kind |-> "timed_out", code |-> "DEADLINE_EXCEEDED", value |-> None]
Failure(why) == [kind |-> "error", code |-> why, value |-> None]
Answered(value) == [kind |-> "result", code |-> None, value |-> value]

(***************************************************************************)
(* The clock and the guard.  A guard looks at the host's signal first and  *)
(* consults the clock only if it is not aborted; a sample that goes back   *)
(* is an error and is not remembered.                                      *)
(***************************************************************************)
ClockUsable(now, minimum, budget) ==
  /\ now >= minimum
  /\ now + budget <= MaxSafe

NewInvoker(now, budget, heedsHost) ==
  [previous |-> now, deadline |-> now + budget, heedsHost |-> heedsHost]

HostStops(inv) == aborted /\ inv.heedsHost

InOrder(inv, now) == now >= inv.previous /\ now <= MaxSafe

Sampled(inv, now) ==
  IF ~HostStops(inv) /\ InOrder(inv, now) THEN [inv EXCEPT !.previous = now] ELSE inv

\* Slip: the deadline itself still counts as in time.
GuardOneLate(inv, now) ==
  IF HostStops(inv) THEN Cancelled
  ELSE IF ~InOrder(inv, now) THEN Failure("CLOCK_INVALID")
  ELSE IF now > inv.deadline THEN TimedOut
  ELSE Proceed

Guard(inv, now) ==
  IF HostStops(inv) THEN Cancelled
  ELSE IF ~InOrder(inv, now) THEN Failure("CLOCK_INVALID")
  ELSE IF now >= inv.deadline THEN TimedOut
  ELSE Proceed

(***************************************************************************)
(* Setup.  A refusal returns a BLOCKED report without an identity, before  *)
(* any adapter is called.                                                  *)
(***************************************************************************)
Reviewers == {setup.reviewers[i] : i \in 1..Len(setup.reviewers)}

AdaptersAccepted ==
  /\ Len(setup.reviewers) = setup.requiredReviewers
  /\ Cardinality(Reviewers) = Len(setup.reviewers)
  /\ setup.mode = "edit" => setup.author \notin Reviewers

SetupAccepted ==
  /\ AdaptersAccepted
  /\ setup.mode = "review" =>
       /\ setup.author # None
       /\ CandidateAccepted(setup.offer, setup.author)
       /\ setup.author \notin Reviewers
  /\ setup.requireReportStore => setup.store = "callable"

Report(final, why, stored, storeCode) ==
  [outcome |-> final, workflowOutcome |-> outcome, code |-> why,
   stored |-> stored, storeCode |-> storeCode]

SetupRefusal(why) ==
  [outcome |-> "BLOCKED", workflowOutcome |-> "BLOCKED", code |-> why,
   stored |-> FALSE, storeCode |-> None]

Init ==
  /\ setup \in Setups
  /\ pc = "setup"
  /\ reviewer = 1
  /\ candidate = None
  /\ attempt = 0
  /\ seen = {}
  /\ outcome = None
  /\ code = None
  /\ stages = <<>>
  /\ phase = "idle"
  /\ result = NoResult
  /\ aborted \in BOOLEAN
  /\ invoker = NewInvoker(0, 0, TRUE)
  /\ abandoned = {}
  /\ report = None

(***************************************************************************)
(* Steps inside one stage.                                                 *)
(***************************************************************************)
Goto(stage) ==
  /\ pc' = stage
  /\ phase' = "idle"
  /\ result' = NoResult

Settle(how) ==
  /\ phase' = "settled"
  /\ result' = how

Entry(stage, status, fingerprint, who) ==
  [stage |-> stage, status |-> status, attempt |-> attempt,
   fingerprint |-> fingerprint, reviewer |-> who]

Record(stage, status, fingerprint, who) ==
  stages' = Append(stages, Entry(stage, status, fingerprint, who))

StopOutcome(kind) ==
  CASE kind = "cancelled" -> "CANCELLED"
    [] kind = "timed_out" -> "TIMED_OUT"
    [] OTHER -> "BLOCKED"

\* Whatever stops a stage is recorded as UNAVAILABLE and ends the stages.
Stop(stage, how) ==
  /\ outcome' = StopOutcome(how.kind)
  /\ code' = how.code
  /\ Record(stage, "UNAVAILABLE", candidate, None)
  /\ Goto("store")
  /\ UNCHANGED <<reviewer, candidate, attempt, seen>>

Begin(now) ==
  /\ pc = "setup"
  /\ IF SetupAccepted /\ ClockUsable(now, 0, TotalDeadline)
       THEN /\ invoker' = NewInvoker(now, TotalDeadline, TRUE)
            /\ candidate' = IF setup.mode = "review" THEN setup.offer.content ELSE None
            /\ seen' = IF setup.mode = "review" THEN {setup.offer.content} ELSE {}
            /\ stages' = <<[stage |-> "intake", status |-> "PASS", attempt |-> 0,
                            fingerprint |-> candidate', reviewer |-> None]>>
            /\ Goto("authorizeContext")
            /\ UNCHANGED report
       ELSE /\ report' = SetupRefusal(IF AdaptersAccepted /\ ~ClockUsable(now, 0, TotalDeadline)
                                        THEN "CLOCK_INVALID" ELSE "REJECTED")
            /\ pc' = "reported"
            /\ UNCHANGED <<invoker, candidate, seen, stages, phase, result>>
  /\ UNCHANGED <<setup, reviewer, attempt, outcome, code, aborted, abandoned>>

(***************************************************************************)
(* The invoker.  invoke() samples the guard, arms a timer for what is left *)
(* and listens to the host; the adapter is called from a microtask, after  *)
(* a second look at the guard.                                             *)
(***************************************************************************)
Invoke(now) ==
  /\ pc \in RunStages \union {"storing"}
  /\ phase = "idle"
  /\ invoker' = Sampled(invoker, now)
  /\ LET stopped == Guard(invoker, now)
     IN IF stopped.kind = "proceed"
          THEN phase' = "scheduled" /\ UNCHANGED result
          ELSE Settle(stopped)
  /\ UNCHANGED <<run, pc, aborted, abandoned, report>>

Start(now) ==
  /\ phase = "scheduled"
  /\ invoker' = Sampled(invoker, now)
  /\ LET stopped == Guard(invoker, now)
     IN IF stopped.kind = "proceed"
          THEN phase' = "running" /\ UNCHANGED result
          ELSE Settle(stopped)
  /\ UNCHANGED <<run, pc, aborted, abandoned, report>>

\* The form of answer the adapter of the current stage is asked for.
Schema == IF pc = "storing" THEN "reportStore" ELSE pc

(***************************************************************************)
(* The adapter's promise fulfils.  The guard is looked at before and after *)
(* the answer is copied; an answer cloneFreeze cannot copy is an error.    *)
(***************************************************************************)
Fulfil(answer) ==
  /\ phase = "running"
  /\ answer.schema \in {Schema, "malformed", "uncopyable"}
  /\ \E now, later \in Samples :
       LET arrived == Sampled(invoker, now)
           first == Guard(invoker, now)
           second == Guard(arrived, later)
       IN IF first.kind # "proceed"
            THEN Settle(first) /\ invoker' = arrived
            ELSE /\ invoker' = Sampled(arrived, later)
                 /\ Settle(IF second.kind # "proceed" THEN second
                           ELSE IF answer.schema = "uncopyable" THEN Failure("RESULT_INVALID")
                           ELSE Answered(answer))
  /\ UNCHANGED <<run, pc, aborted, abandoned, report>>

Throw(now) ==
  /\ phase = "running"
  /\ invoker' = Sampled(invoker, now)
  /\ LET stopped == Guard(invoker, now)
     IN Settle(IF stopped.kind = "proceed" THEN Failure("ADAPTER_EXCEPTION") ELSE stopped)
  /\ UNCHANGED <<run, pc, aborted, abandoned, report>>

\* A call is settled while its adapter still runs.
Abandon == abandoned' = abandoned \union {[stage |-> pc, attempt |-> attempt, reviewer |-> reviewer]}

\* Slip: the timer aborts the adapter's signal but does not settle the call.
TimerOnlySignals == phase = "running" /\ UNCHANGED vars

(***************************************************************************)
(* The wall timer.  It is a macrotask, so it cannot fire before the        *)
(* microtask that starts the adapter.  It does not depend on the clock.    *)
(***************************************************************************)
TimerFires ==
  /\ phase = "running"
  /\ Abandon
  /\ Settle(TimedOut)
  /\ UNCHANGED <<run, pc, aborted, invoker, report>>

\* The host aborts; the listener of an unsettled call runs at once.
HostAborts ==
  /\ ~aborted
  /\ aborted' = TRUE
  /\ IF invoker.heedsHost /\ phase \in {"scheduled", "running"}
       THEN /\ Settle(Cancelled)
            /\ IF phase = "running" THEN Abandon ELSE UNCHANGED abandoned
       ELSE UNCHANGED <<phase, result, abandoned>>
  /\ UNCHANGED <<run, pc, invoker, report>>

\* An abandoned adapter fulfils after all: nobody looks at it.
LateAnswer(call) ==
  /\ call \in abandoned
  /\ abandoned' = abandoned \ {call}
  /\ UNCHANGED <<run, pc, phase, result, aborted, invoker, report>>

(***************************************************************************)
(* An abandoned adapter rejects.  Its handler evaluates guard() before     *)
(* finish() sees that the call is settled, so the invoker it belongs to    *)
(* still takes a sample of the clock.                                      *)
(***************************************************************************)
LateThrow(call, now) ==
  /\ call \in abandoned
  /\ abandoned' = abandoned \ {call}
  /\ invoker' = IF invoker.heedsHost \/ call.stage = "storing"
                  THEN Sampled(invoker, now) ELSE invoker
  /\ UNCHANGED <<run, pc, phase, result, aborted, report>>

(***************************************************************************)
(* The continuation of a stage, once its invocation has settled.           *)
(***************************************************************************)
Arrived(stage) == pc = stage /\ phase = "settled"

AnswerAccepted ==
  LET answer == result.value
  IN CASE pc = "draft" -> DraftAccepted(answer, attempt, setup.author)
       [] pc = "repair" -> RepairAccepted(answer, attempt, candidate, setup.author)
       [] OTHER -> /\ GateAccepted(pc, answer, Binding(attempt, candidate))
                   /\ pc = "review" => answer.reviewer = setup.reviewers[reviewer]

Accepted(stage) == Arrived(stage) /\ result.kind = "result" /\ AnswerAccepted

\* Slip: a stopped call is tried again while its adapter may still run.
CallRetried ==
  /\ \E stage \in RunStages : Arrived(stage)
  /\ result.kind # "result"
  /\ Goto(pc)
  /\ UNCHANGED <<run, aborted, invoker, abandoned, report>>

\* The guard stopped the call, or its adapter failed.
CallStopped ==
  /\ \E stage \in RunStages : Arrived(stage)
  /\ result.kind # "result"
  /\ Stop(pc, result)
  /\ UNCHANGED <<setup, aborted, invoker, abandoned, report>>

\* The adapter answered with something the contracts do not admit.
AnswerRejected ==
  /\ \E stage \in RunStages : Arrived(stage)
  /\ result.kind = "result"
  /\ ~AnswerAccepted
  /\ Stop(pc, Failure("REJECTED"))
  /\ UNCHANGED <<setup, aborted, invoker, abandoned, report>>

\* The reviewer id a gate's evidence carries; only reviews have one.
Who(stage) == IF stage = "review" THEN setup.reviewers[reviewer] ELSE None

\* Slip: the last reviewer is left out.
AfterPassOneReviewerShort(stage) ==
  CASE stage = "authorizeContext" -> IF setup.mode = "edit" THEN "draft" ELSE "staticChecks"
    [] stage = "staticChecks" -> "tests"
    [] stage = "tests" -> "review"
    [] stage = "review" -> IF reviewer + 1 < Len(setup.reviewers) THEN "review" ELSE "completion"

\* Slip: tests are skipped once the static checks pass.
AfterPassWithoutTests(stage) ==
  CASE stage = "authorizeContext" -> IF setup.mode = "edit" THEN "draft" ELSE "staticChecks"
    [] stage \in {"staticChecks", "tests"} -> "review"
    [] stage = "review" -> IF reviewer < Len(setup.reviewers) THEN "review" ELSE "completion"

AfterPass(stage) ==
  CASE stage = "authorizeContext" -> IF setup.mode = "edit" THEN "draft" ELSE "staticChecks"
    [] stage = "staticChecks" -> "tests"
    [] stage = "tests" -> "review"
    [] stage = "review" -> IF reviewer < Len(setup.reviewers) THEN "review" ELSE "completion"

GatePasses(stage) ==
  /\ Accepted(stage)
  /\ result.value.status = "PASS"
  /\ Record(stage, "PASS", candidate, Who(stage))
  /\ reviewer' = CASE stage = "tests" -> 1
                   [] stage = "review" /\ reviewer < Len(setup.reviewers) -> reviewer + 1
                   [] OTHER -> reviewer
  /\ Goto(AfterPass(stage))
  /\ UNCHANGED <<setup, candidate, attempt, seen, outcome, code,
                 aborted, invoker, abandoned, report>>

\* Slips: one attempt too many, one too few.
MayRepairOnceMore == setup.mode = "edit" /\ attempt <= setup.repairBudget
MayRepairOnceLess == setup.mode = "edit" /\ attempt + 1 < setup.repairBudget

MayRepair == setup.mode = "edit" /\ attempt < setup.repairBudget

(***************************************************************************)
(* A gate on the candidate fails: the next attempt begins with a repair of *)
(* this candidate, or the run ends.                                        *)
(***************************************************************************)
GateFails(stage) ==
  /\ Accepted(stage)
  /\ stage # "authorizeContext"
  /\ result.value.status = "FAIL"
  /\ Record(stage, "FAIL", candidate, Who(stage))
  /\ code' = "FAILED"
  /\ IF MayRepair
       THEN /\ outcome' = "FAILED"
            /\ attempt' = attempt + 1
            /\ Goto("repair")
       ELSE /\ outcome' = IF setup.mode = "edit" /\ setup.repairBudget > 0
                            THEN "REPAIR_LIMIT" ELSE "FAILED"
            /\ UNCHANGED attempt
            /\ Goto("store")
  /\ UNCHANGED <<setup, reviewer, candidate, seen, aborted, invoker, abandoned, report>>

\* A gate did not run, or the context was refused: there is nothing to repair.
GateBlocks(stage) ==
  /\ Accepted(stage)
  /\ \/ result.value.status \in {"NOT_RUN", "UNAVAILABLE"}
     \/ stage = "authorizeContext" /\ result.value.status = "FAIL"
  /\ Record(stage, result.value.status, candidate, Who(stage))
  /\ outcome' = "BLOCKED"
  /\ code' = IF result.value.status = "FAIL" THEN "FAILED" ELSE result.value.status
  /\ Goto("store")
  /\ UNCHANGED <<setup, reviewer, candidate, attempt, seen,
                 aborted, invoker, abandoned, report>>

Drafted ==
  /\ Accepted("draft")
  /\ candidate' = result.value.candidate.content
  /\ seen' = seen \union {candidate'}
  /\ Record("draft", "PASS", candidate', None)
  /\ Goto("staticChecks")
  /\ UNCHANGED <<setup, reviewer, attempt, outcome, code, aborted, invoker, abandoned, report>>

\* Slip: a repair is compared with its base only.
StalledAtBase(answer) ==
  \/ answer.status = "NO_CHANGE"
  \/ answer.status = "REPAIRED" /\ answer.candidate.content = candidate

(***************************************************************************)
(* The author's answer to a failed gate.  Only a candidate this run has    *)
(* never seen starts the gates again.                                      *)
(***************************************************************************)
Stalled(answer) ==
  \/ answer.status = "NO_CHANGE"
  \/ answer.status = "REPAIRED" /\ answer.candidate.content \in seen

Repaired ==
  LET answer == result.value
  IN /\ Accepted("repair")
     /\ answer.status = "REPAIRED"
     /\ ~Stalled(answer)
     /\ Record("repair", "REPAIRED", answer.candidate.content, None)
     /\ candidate' = answer.candidate.content
     /\ seen' = seen \union {candidate'}
     /\ outcome' = None
     /\ code' = None
     /\ Goto("staticChecks")
     /\ UNCHANGED <<setup, reviewer, attempt, aborted, invoker, abandoned, report>>

NotRepaired ==
  LET answer == result.value
      delivered == IF answer.status = "REPAIRED" THEN answer.candidate.content ELSE candidate
  IN /\ Accepted("repair")
     /\ answer.status = "REPAIRED" => Stalled(answer)
     /\ Record("repair", answer.status, delivered, None)
     /\ outcome' = IF Stalled(answer) THEN "NO_PROGRESS"
                   ELSE IF answer.status = "FAIL" THEN "FAILED" ELSE "BLOCKED"
     /\ code' = IF Stalled(answer) THEN "NO_PROGRESS" ELSE answer.status
     /\ Goto("store")
     /\ UNCHANGED <<setup, reviewer, candidate, attempt, seen,
                    aborted, invoker, abandoned, report>>

\* Every gate passed.  The run still has to be in time to be COMPLETED.
Complete(now) ==
  /\ pc = "completion"
  /\ invoker' = Sampled(invoker, now)
  /\ LET stopped == Guard(invoker, now)
     IN IF stopped.kind = "proceed"
          THEN /\ outcome' = "COMPLETED"
               /\ Goto("store")
               /\ UNCHANGED <<reviewer, candidate, attempt, seen, code, stages>>
          ELSE Stop("completion", stopped)
  /\ UNCHANGED <<setup, aborted, abandoned, report>>

(***************************************************************************)
(* The report and its storage.  A required report of a run that was        *)
(* cancelled or timed out gets a fresh invoker: a budget of its own, no    *)
(* host signal, and a clock that may not go back behind the run's.         *)
(***************************************************************************)
Terminal == setup.requireReportStore /\ outcome \in {"TIMED_OUT", "CANCELLED"}

NoStore ==
  /\ pc = "store"
  /\ setup.store # "callable"
  /\ report' = Report(outcome, code, FALSE,
                      IF setup.store = "invalid" THEN "REPORT_STORE_UNAVAILABLE" ELSE None)
  /\ pc' = "reported"
  /\ UNCHANGED <<run, phase, result, aborted, invoker, abandoned>>

OpenStore(now) ==
  /\ pc = "store"
  /\ setup.store = "callable"
  /\ pc' = "storing"
  /\ IF ~Terminal THEN UNCHANGED <<invoker, phase, result>>
     ELSE IF ClockUsable(now, invoker.previous, StoreTimeout)
       THEN invoker' = NewInvoker(now, StoreTimeout, FALSE) /\ UNCHANGED <<phase, result>>
       ELSE Settle(Failure("CLOCK_INVALID")) /\ UNCHANGED invoker
  /\ UNCHANGED <<run, aborted, abandoned, report>>

\* Slip: any well-formed receipt counts as an acknowledgement.
StoreCodeOfAnyReceipt ==
  IF result.kind # "result" THEN result.code
  ELSE IF ~ReceiptAccepted(result.value, Binding(attempt, candidate)) THEN "REJECTED"
  ELSE None

StoreCode ==
  IF result.kind # "result" THEN result.code
  ELSE IF ~ReceiptAccepted(result.value, Binding(attempt, candidate)) THEN "REJECTED"
  ELSE IF result.value.status # "PASS" THEN result.value.status
  ELSE None

StoreSettles ==
  /\ Arrived("storing")
  /\ report' =
       IF StoreCode = None THEN Report(outcome, code, TRUE, None)
       ELSE IF result.kind \in {"cancelled", "timed_out"}
         THEN Report(StopOutcome(result.kind), StoreCode, FALSE, StoreCode)
       ELSE IF setup.requireReportStore
         THEN Report("BLOCKED", StoreCode, FALSE, StoreCode)
       ELSE Report(outcome, code, FALSE, StoreCode)
  /\ pc' = "reported"
  /\ UNCHANGED <<run, phase, result, aborted, invoker, abandoned>>

\* runWorkflow has returned.
Returned == pc = "reported" /\ UNCHANGED vars

(***************************************************************************)
(* The engine's own steps, which the event loop does not put off for ever, *)
(* and the steps of its environment: adapters and host.                    *)
(***************************************************************************)
EngineStep ==
  \/ \E now \in Samples :
       Begin(now) \/ Invoke(now) \/ Start(now) \/ Complete(now) \/ OpenStore(now)
  \/ \E stage \in Gates : GatePasses(stage) \/ GateFails(stage) \/ GateBlocks(stage)
  \/ CallStopped \/ AnswerRejected \/ Drafted \/ Repaired \/ NotRepaired
  \/ NoStore \/ StoreSettles

AdapterStep ==
  \/ phase = "running" /\ \E answer \in Answers : Fulfil(answer)
  \/ \E now \in Samples : Throw(now)
  \/ \E call \in abandoned : LateAnswer(call) \/ \E now \in Samples : LateThrow(call, now)

Next == EngineStep \/ TimerFires \/ AdapterStep \/ HostAborts \/ Returned

Spec == Init /\ [][Next]_vars

\* Microtasks and due timers run; adapters and the host may never do anything.
Fairness == WF_vars(EngineStep) /\ WF_vars(TimerFires)

FairSpec == Spec /\ Fairness
=============================================================================
