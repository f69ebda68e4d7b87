------------------------------ MODULE WorkflowProofs -------------------------
(***************************************************************************)
(* Proofs about the workflow engine, for every set of setups, answers and  *)
(* clock samples, every repair budget and every panel of reviewers: first  *)
(* what its own variables promise, then that it implements WorkflowRun     *)
(* and what its history of records promises.                               *)
(***************************************************************************)
EXTENDS WorkflowRefinement, FiniteSetTheorems, TLAPS

(***************************************************************************)
(* How the control variables go together.  A run past its setup was        *)
(* accepted; the outcome is undecided while gates run, FAILED while a      *)
(* repair is asked for, and decided before the store is offered anything.  *)
(***************************************************************************)
Working == RunStages \union {"completion"}

Stoppers == {r \in Results : r.kind \in {"cancelled", "timed_out", "error"} /\ r.code \in Codes}

Control ==
  /\ pc \notin {"setup", "reported"} => SetupAccepted
  /\ pc \in {"setup", "completion", "draft"} \union Gates => outcome = None
  /\ pc = "repair" => outcome = "FAILED"
  /\ pc \in {"store", "storing"} => outcome \in RunOutcomes
  /\ phase \in {"scheduled", "running"} => pc \in RunStages \union {"storing"}
  /\ phase = "settled" => result \in Stoppers \/ result.kind = "result"

IInv == TypeOK /\ Control

\* The guard yields a stop of the documented kinds, and sampling keeps the
\* invoker well typed.
LEMMA GuardType ==
  ASSUME NEW inv \in Invokers, NEW now \in Nat
  PROVE  /\ Sampled(inv, now) \in Invokers
         /\ Guard(inv, now).kind # "proceed" => Guard(inv, now) \in Stoppers
         /\ Guard(inv, now).kind # "result"
BY DEF Sampled, Guard, Invokers, Stoppers, Results, Codes, Cancelled, TimedOut, Failure, Proceed,
       AdapterStatuses, RepairStatuses

LEMMA NoResultType == NoResult \in Results
BY DEF NoResult, Results

LEMMA InitIInv == Init => IInv
<1> SUFFICES ASSUME Init PROVE IInv
  OBVIOUS
<1>1. TypeOK
  BY SetupAssumption, NoResultType DEF Init, TypeOK, NewInvoker, Invokers
<1>2. Control
  BY DEF Init, Control, Gates, RunStages
<1> QED BY <1>1, <1>2 DEF IInv

LEMMA StopperType ==
  /\ Stoppers \subseteq Results
  /\ TimedOut \in Stoppers
  /\ Cancelled \in Stoppers
  /\ Failure("REJECTED") \in Stoppers
  /\ Failure("CLOCK_INVALID") \in Stoppers
  /\ Failure("RESULT_INVALID") \in Stoppers
  /\ Failure("ADAPTER_EXCEPTION") \in Stoppers
BY DEF Stoppers, Results, Codes, TimedOut, Cancelled, Failure

(***************************************************************************)
(* The steps of an invocation change nothing of the run itself.            *)
(***************************************************************************)
LEMMA InvocationSteps ==
  ASSUME IInv, NEW now \in Samples, Invoke(now) \/ Start(now) \/ Throw(now)
  PROVE  IInv'
<1> USE DEF IInv
<1>1. now \in Nat /\ invoker \in Invokers
  BY ClockAssumption DEF TypeOK
<1>2. invoker' \in Invokers
  BY <1>1, GuardType DEF Invoke, Start, Throw
<1>3. result' \in Results
  BY <1>1, GuardType, StopperType DEF Invoke, Start, Throw, Settle, TypeOK
<1>4. phase' \in {"idle", "scheduled", "running", "settled"}
  BY DEF Invoke, Start, Throw, Settle
<1>5. TypeOK'
  BY <1>2, <1>3, <1>4 DEF TypeOK, Invoke, Start, Throw, run, Reviewers
<1>6. phase' = "settled" => result' \in Stoppers
  BY <1>1, GuardType, StopperType DEF Invoke, Start, Throw, Settle
<1>7. Control'
  BY <1>6 DEF Control, Invoke, Start, Throw, Settle, run, SetupAccepted, AdaptersAccepted, Reviewers
<1> QED BY <1>5, <1>7

LEMMA AnswerStep ==
  ASSUME IInv, NEW answer \in Answers, Fulfil(answer)
  PROVE  IInv'
<1> USE DEF IInv
<1>1. PICK now \in Samples, later \in Samples :
        LET arrived == Sampled(invoker, now)
            first == Guard(invoker, now)
            second == Guard(arrived, later)
        IN IF first.kind # "proceed"
             THEN Settle(first) /\ invoker' = arrived
             ELSE /\ invoker' = Sampled(arrived, later)
                  /\ Settle(IF second.kind # "proceed" THEN second
                            ELSE IF answer.schema = "uncopyable" THEN Failure("RESULT_INVALID")
                            ELSE Answered(answer))
  BY DEF Fulfil
<1>2. now \in Nat /\ later \in Nat /\ invoker \in Invokers
  BY ClockAssumption DEF TypeOK
<1>3. Answered(answer) \in Results
  BY DEF Answered, Results
<1>4. /\ invoker' \in Invokers
      /\ result' \in Results
      /\ phase' = "settled"
      /\ result' \in Stoppers \/ result'.kind = "result"
  BY <1>1, <1>2, <1>3, GuardType, StopperType DEF Settle, Answered
<1>5. TypeOK'
  BY <1>4 DEF TypeOK, Fulfil, run
<1>6. Control'
  BY <1>4 DEF Control, Fulfil, run, SetupAccepted, AdaptersAccepted, Reviewers
<1> QED BY <1>5, <1>6

LEMMA EnvironmentSteps ==
  ASSUME IInv,
         \/ TimerFires
         \/ HostAborts
         \/ \E call \in abandoned : LateAnswer(call) \/ \E now \in Samples : LateThrow(call, now)
  PROVE  IInv'
<1> USE DEF IInv
<1>1. invoker' \in Invokers
  <2>1. invoker \in Invokers /\ Samples \subseteq Nat
    BY ClockAssumption DEF TypeOK
  <2>2. ASSUME NEW call, NEW now \in Samples, LateThrow(call, now)
        PROVE  invoker' \in Invokers
    BY <2>1, <2>2, GuardType DEF LateThrow
  <2>3. TimerFires \/ HostAborts \/ (\E call \in abandoned : LateAnswer(call)) => invoker' = invoker
    BY DEF TimerFires, HostAborts, LateAnswer
  <2> QED BY <2>1, <2>2, <2>3
<1>2. result' \in Results /\ phase' \in {"idle", "scheduled", "running", "settled"}
  BY StopperType DEF TimerFires, HostAborts, LateAnswer, LateThrow, TypeOK, Settle
<1>3. abandoned' \subseteq [stage : RunStages \union {"storing"}, attempt : Nat, reviewer : Nat]
  <2>1. phase = "running" => [stage |-> pc, attempt |-> attempt, reviewer |-> reviewer]
                               \in [stage : RunStages \union {"storing"}, attempt : Nat, reviewer : Nat]
    BY DEF TypeOK, Control
  <2> QED BY <2>1 DEF TimerFires, HostAborts, LateAnswer, LateThrow, Abandon, TypeOK
<1>4. TypeOK'
  BY <1>1, <1>2, <1>3 DEF TypeOK, TimerFires, HostAborts, LateAnswer, LateThrow, run
<1>5. Control'
  BY StopperType DEF Control, TimerFires, HostAborts, LateAnswer, LateThrow, Settle, run,
         SetupAccepted, AdaptersAccepted, Reviewers
<1> QED BY <1>4, <1>5

(***************************************************************************)
(* Stopping a stage.                                                       *)
(***************************************************************************)
LEMMA StopStep ==
  ASSUME IInv, NEW how \in Stoppers, Stop(pc, how), pc \in Working,
         UNCHANGED <<setup, aborted, abandoned, report>>, invoker' \in Invokers
  PROVE  IInv'
<1> USE DEF IInv
<1>1. StopOutcome(how.kind) \in RunOutcomes /\ how.code \in Codes
  BY DEF StopOutcome, RunOutcomes, Stoppers
<1>2. Entry(pc, "UNAVAILABLE", candidate, None) \in Entries
  BY DEF Entry, Entries, TypeOK, Working, AdapterStatuses, Gates
<1>3. TypeOK'
  BY <1>1, <1>2, NoResultType DEF TypeOK, Stop, Goto, Record
<1>4. Control'
  BY <1>1 DEF Control, Stop, Goto, Working, RunStages, Gates, SetupAccepted, AdaptersAccepted, Reviewers
<1> QED BY <1>3, <1>4

LEMMA StoppedSteps ==
  ASSUME IInv, CallStopped \/ AnswerRejected
  PROVE  IInv'
<1> USE DEF IInv
<1>1. PICK how \in Stoppers : Stop(pc, how)
  <2>1. CASE CallStopped
    BY <2>1 DEF CallStopped, Arrived, Control
  <2>2. CASE AnswerRejected
    BY <2>2, StopperType DEF AnswerRejected
  <2> QED BY <2>1, <2>2
<1>2. pc \in Working /\ UNCHANGED <<setup, aborted, invoker, abandoned, report>>
  BY DEF CallStopped, AnswerRejected, Arrived, Working
<1>3. invoker' \in Invokers
  BY <1>2 DEF TypeOK
<1> QED BY <1>1, <1>2, <1>3, StopStep

(***************************************************************************)
(* Setup and the stage handlers.                                           *)
(***************************************************************************)
LEMMA SetupShape ==
  ASSUME IInv
  PROVE  /\ setup.repairBudget \in Nat
         /\ setup.reviewers \in Seq(STRING)
         /\ SetupAccepted => Len(setup.reviewers) \in Nat \ {0}
BY SetupAssumption DEF IInv, TypeOK, SetupAccepted, AdaptersAccepted

LEMMA OfferShape ==
  ASSUME NEW offer, NEW by, CandidateAccepted(offer, by)
  PROVE  offer.content \in Contents
BY ContentAssumption DEF CandidateAccepted

LEMMA BeginStep ==
  ASSUME IInv, NEW now \in Samples, Begin(now)
  PROVE  IInv'
<1> USE DEF IInv
<1>1. CASE SetupAccepted /\ ClockUsable(now, 0, TotalDeadline)
  <2> DEFINE intake == [stage |-> "intake", status |-> "PASS", attempt |-> 0,
                        fingerprint |-> candidate', reviewer |-> None]
  <2>1. /\ invoker' = NewInvoker(now, TotalDeadline, TRUE)
        /\ candidate' = IF setup.mode = "review" THEN setup.offer.content ELSE None
        /\ seen' = IF setup.mode = "review" THEN {setup.offer.content} ELSE {}
        /\ stages' = <<intake>>
        /\ Goto("authorizeContext")
        /\ UNCHANGED <<setup, reviewer, attempt, outcome, code, aborted, abandoned, report>>
    BY <1>1 DEF Begin
  <2>2. invoker' \in Invokers
    BY <2>1, ClockAssumption DEF NewInvoker, Invokers
  <2>3. candidate' \in Contents \union {None} /\ seen' \subseteq Contents
    BY <1>1, <2>1, OfferShape DEF SetupAccepted
  <2>4. intake \in Entries
    BY <2>3 DEF Entries, AdapterStatuses
  <2>5. stages' \in Seq(Entries)
    BY <2>1, <2>4
  <2>6. TypeOK'
    BY <2>1, <2>2, <2>3, <2>5, NoResultType DEF TypeOK, Goto, RunStages, Gates
  <2>7. Control'
    BY <1>1, <2>1 DEF Begin, Control, Goto, RunStages, Gates, SetupAccepted, AdaptersAccepted, Reviewers
  <2> QED BY <2>6, <2>7
<1>2. CASE ~(SetupAccepted /\ ClockUsable(now, 0, TotalDeadline))
  <2>1. PICK why \in Codes : report' = SetupRefusal(why)
    BY <1>2 DEF Begin, Codes
  <2>2. /\ pc' = "reported"
        /\ UNCHANGED <<invoker, candidate, seen, stages, phase, result,
                       setup, reviewer, attempt, outcome, code, aborted, abandoned>>
    BY <1>2 DEF Begin
  <2>3. report' \in [outcome : RunOutcomes, workflowOutcome : RunOutcomes, code : Codes \union {None},
                     stored : BOOLEAN, storeCode : Codes \union {None}]
    BY <2>1 DEF SetupRefusal, RunOutcomes
  <2>4. TypeOK'
    BY <2>2, <2>3 DEF TypeOK
  <2>5. phase = "idle" \/ phase = "settled"
    BY DEF Begin, Control, TypeOK, RunStages, Gates
  <2>6. Control'
    BY <2>2, <2>5 DEF Control, RunStages, Gates
  <2> QED BY <2>4, <2>6
<1> QED BY <1>1, <1>2

LEMMA WhoType ==
  ASSUME IInv, pc \in RunStages
  PROVE  Who(pc) \in STRING \union {None}
BY SetupShape DEF Who, IInv, TypeOK, Control, RunStages, Gates

LEMMA GatePassesStep ==
  ASSUME IInv, NEW stage \in Gates, GatePasses(stage)
  PROVE  IInv'
<1> USE DEF IInv
<1>1. pc = stage /\ pc \in RunStages /\ SetupAccepted
  BY DEF GatePasses, Accepted, Arrived, RunStages, Gates, Control
<1>2. Entry(stage, "PASS", candidate, Who(stage)) \in Entries
  BY <1>1, WhoType DEF Entry, Entries, TypeOK, AdapterStatuses
<1>3. AfterPass(stage) \in Gates \union {"draft", "completion"}
  BY DEF AfterPass, Gates
<1>4. reviewer' \in 1..Len(setup.reviewers) \union {1}
  BY <1>1, SetupShape DEF GatePasses, TypeOK, Gates
<1>5. TypeOK'
  BY <1>2, <1>3, <1>4, NoResultType DEF TypeOK, GatePasses, Goto, Record, RunStages
<1>6. outcome = None
  BY <1>1 DEF Control
<1>7. Control'
  BY <1>1, <1>3, <1>6 DEF Control, GatePasses, Goto, RunStages, Gates, SetupAccepted, AdaptersAccepted, Reviewers
<1> QED BY <1>5, <1>7

LEMMA GateFailsStep ==
  ASSUME IInv, NEW stage \in Gates, GateFails(stage)
  PROVE  IInv'
<1> USE DEF IInv
<1>1. pc = stage /\ pc \in RunStages /\ SetupAccepted
  BY DEF GateFails, Accepted, Arrived, RunStages, Gates, Control
<1>2. Entry(stage, "FAIL", candidate, Who(stage)) \in Entries
  BY <1>1, WhoType DEF Entry, Entries, TypeOK, AdapterStatuses
<1>3. attempt' \in Nat /\ attempt' <= setup.repairBudget
  BY SetupShape DEF GateFails, MayRepair, TypeOK
<1>4. outcome' \in RunOutcomes /\ code' \in Codes
  BY DEF GateFails, RunOutcomes, Codes
<1>5. TypeOK'
  BY <1>2, <1>3, <1>4, NoResultType DEF TypeOK, GateFails, Goto, Record, RunStages
<1>6. Control'
  BY <1>1, <1>4 DEF Control, GateFails, Goto, RunStages, Gates, SetupAccepted, AdaptersAccepted, Reviewers
<1> QED BY <1>5, <1>6

LEMMA GateBlocksStep ==
  ASSUME IInv, NEW stage \in Gates, GateBlocks(stage)
  PROVE  IInv'
<1> USE DEF IInv
<1>1. pc = stage /\ pc \in RunStages /\ SetupAccepted
  BY DEF GateBlocks, Accepted, Arrived, RunStages, Gates, Control
<1>2. result.value.status \in AdapterStatuses
  BY DEF GateBlocks, AdapterStatuses
<1>3. Entry(stage, result.value.status, candidate, Who(stage)) \in Entries
  BY <1>1, <1>2, WhoType DEF Entry, Entries, TypeOK
<1>4. outcome' \in RunOutcomes /\ code' \in Codes
  BY <1>2 DEF GateBlocks, RunOutcomes, Codes
<1>5. TypeOK'
  BY <1>3, <1>4, NoResultType DEF TypeOK, GateBlocks, Goto, Record, RunStages
<1>6. Control'
  BY <1>1, <1>4 DEF Control, GateBlocks, Goto, RunStages, Gates, SetupAccepted, AdaptersAccepted, Reviewers
<1> QED BY <1>5, <1>6

LEMMA DraftedStep ==
  ASSUME IInv, Drafted
  PROVE  IInv'
<1> USE DEF IInv
<1>1. pc = "draft" /\ SetupAccepted /\ outcome = None
  BY DEF Drafted, Accepted, Arrived, Control
<1>2. candidate' \in Contents
  BY <1>1, OfferShape DEF Drafted, Accepted, AnswerAccepted, DraftAccepted
<1>3. Entry("draft", "PASS", candidate', None) \in Entries
  BY <1>2 DEF Entry, Entries, TypeOK, RunStages, AdapterStatuses
<1>4. TypeOK'
  BY <1>2, <1>3, NoResultType DEF TypeOK, Drafted, Goto, Record, RunStages, Gates
<1>5. Control'
  BY <1>1 DEF Control, Drafted, Goto, RunStages, Gates, SetupAccepted, AdaptersAccepted, Reviewers
<1> QED BY <1>4, <1>5

LEMMA RepairedStep ==
  ASSUME IInv, Repaired
  PROVE  IInv'
<1> USE DEF IInv
<1>1. pc = "repair" /\ SetupAccepted
  BY DEF Repaired, Accepted, Arrived, Control
<1>2. candidate' \in Contents /\ candidate' = result.value.candidate.content
  BY <1>1, OfferShape DEF Repaired, Accepted, AnswerAccepted, RepairAccepted
<1>3. Entry("repair", "REPAIRED", candidate', None) \in Entries
  BY <1>2 DEF Entry, Entries, TypeOK, RunStages, RepairStatuses
<1>4. TypeOK'
  BY <1>2, <1>3, NoResultType DEF TypeOK, Repaired, Goto, Record, RunStages, Gates
<1>5. Control'
  BY <1>1 DEF Control, Repaired, Goto, RunStages, Gates, SetupAccepted, AdaptersAccepted, Reviewers
<1> QED BY <1>4, <1>5

LEMMA NotRepairedStep ==
  ASSUME IInv, NotRepaired
  PROVE  IInv'
<1> USE DEF IInv
<1> DEFINE answer == result.value
           delivered == IF answer.status = "REPAIRED" THEN answer.candidate.content ELSE candidate
<1>1. pc = "repair" /\ SetupAccepted /\ answer.status \in RepairStatuses
  BY DEF NotRepaired, Accepted, Arrived, Control, AnswerAccepted, RepairAccepted
<1>2. delivered \in Contents \union {None}
  BY <1>1, OfferShape DEF NotRepaired, Accepted, AnswerAccepted, RepairAccepted, TypeOK
<1>3. Entry("repair", answer.status, delivered, None) \in Entries
  BY <1>1, <1>2 DEF Entry, Entries, TypeOK, RunStages
<1>4. outcome' \in RunOutcomes /\ code' \in Codes
  BY <1>1 DEF NotRepaired, RunOutcomes, Codes
<1>5. TypeOK'
  BY <1>3, <1>4, NoResultType DEF TypeOK, NotRepaired, Goto, Record
<1>6. Control'
  BY <1>1, <1>4 DEF Control, NotRepaired, Goto, RunStages, Gates, SetupAccepted, AdaptersAccepted, Reviewers
<1> QED BY <1>5, <1>6

LEMMA CompleteStep ==
  ASSUME IInv, NEW now \in Samples, Complete(now)
  PROVE  IInv'
<1>1. invoker' \in Invokers /\ pc \in Working
  BY GuardType, ClockAssumption DEF IInv, TypeOK, Complete, Working
<1>2. CASE Guard(invoker, now).kind = "proceed"
  <2>1. TypeOK'
    BY <1>1, <1>2, NoResultType DEF IInv, TypeOK, Complete, Goto, RunOutcomes
  <2>2. Control'
    BY <1>2 DEF IInv, Control, Complete, Goto, RunStages, Gates, RunOutcomes,
                SetupAccepted, AdaptersAccepted, Reviewers
  <2> QED BY <2>1, <2>2 DEF IInv
<1>3. CASE Guard(invoker, now).kind # "proceed"
  <2>1. Guard(invoker, now) \in Stoppers
    BY <1>3, GuardType, ClockAssumption DEF IInv, TypeOK
  <2>2. Stop(pc, Guard(invoker, now)) /\ UNCHANGED <<setup, aborted, abandoned, report>>
    BY <1>3 DEF Complete
  <2> QED BY <1>1, <2>1, <2>2, StopStep
<1> QED BY <1>2, <1>3

(***************************************************************************)
(* The report and its storage.                                             *)
(***************************************************************************)
LEMMA ReportType ==
  ASSUME IInv, pc \in {"store", "storing"}, NEW final \in RunOutcomes,
         NEW why \in Codes \union {None}, NEW stored \in BOOLEAN, NEW storeCode \in Codes \union {None}
  PROVE  Report(final, why, stored, storeCode) \in
           [outcome : RunOutcomes, workflowOutcome : RunOutcomes, code : Codes \union {None},
            stored : BOOLEAN, storeCode : Codes \union {None}]
BY DEF IInv, Control, Report

LEMMA StoreSteps ==
  ASSUME IInv,
         \/ NoStore
         \/ StoreSettles
         \/ \E now \in Samples : OpenStore(now)
  PROVE  IInv'
<1> USE DEF IInv
<1>1. CASE NoStore
  <2>1. report' \in [outcome : RunOutcomes, workflowOutcome : RunOutcomes, code : Codes \union {None},
                     stored : BOOLEAN, storeCode : Codes \union {None}]
    BY <1>1, ReportType DEF NoStore, Control, TypeOK, Codes
  <2>2. TypeOK'
    BY <1>1, <2>1 DEF TypeOK, NoStore, run
  <2>3. Control'
    BY <1>1 DEF Control, NoStore, run, RunStages, Gates
  <2> QED BY <2>2, <2>3
<1>2. CASE StoreSettles
  <2>1. StoreCode \in Codes \union {None}
    BY <1>2 DEF StoreSettles, StoreCode, TypeOK, Results, ReceiptAccepted, Codes
  <2>2. StopOutcome(result.kind) \in RunOutcomes /\ "BLOCKED" \in RunOutcomes
    BY DEF StopOutcome, RunOutcomes
  <2>3. report' \in [outcome : RunOutcomes, workflowOutcome : RunOutcomes, code : Codes \union {None},
                     stored : BOOLEAN, storeCode : Codes \union {None}]
    BY <1>2, <2>1, <2>2, ReportType DEF StoreSettles, Arrived, Control, TypeOK
  <2>4. TypeOK'
    BY <1>2, <2>3 DEF TypeOK, StoreSettles, run
  <2>5. Control'
    BY <1>2 DEF Control, StoreSettles, Arrived, run, RunStages, Gates
  <2> QED BY <2>4, <2>5
<1>3. ASSUME NEW now \in Samples, OpenStore(now)
      PROVE  IInv'
  <2>1. invoker' \in Invokers
    <3>1. invoker' = invoker \/ invoker' = NewInvoker(now, StoreTimeout, FALSE)
      BY <1>3 DEF OpenStore
    <3>2. NewInvoker(now, StoreTimeout, FALSE) \in Invokers
      BY ClockAssumption DEF NewInvoker, Invokers
    <3> QED BY <3>1, <3>2 DEF TypeOK
  <2>2. result' \in Results /\ phase' \in {"idle", "scheduled", "running", "settled"}
    BY <1>3, StopperType DEF OpenStore, Settle, TypeOK
  <2>3. TypeOK'
    BY <1>3, <2>1, <2>2 DEF TypeOK, OpenStore, run
  <2>4. Control'
    BY <1>3, StopperType DEF Control, OpenStore, Settle, run, RunStages, Gates,
                             SetupAccepted, AdaptersAccepted, Reviewers
  <2> QED BY <2>3, <2>4
<1> QED BY <1>1, <1>2, <1>3

LEMMA StutterStep ==
  ASSUME IInv, UNCHANGED vars
  PROVE  IInv'
BY DEF IInv, TypeOK, Control, vars, run, SetupAccepted, AdaptersAccepted, Reviewers

LEMMA NextIInv == IInv /\ [Next]_vars => IInv'
<1> SUFFICES ASSUME IInv, [Next]_vars PROVE IInv'
  OBVIOUS
<1>1. ASSUME NEW now \in Samples,
             Begin(now) \/ Invoke(now) \/ Start(now) \/ Complete(now) \/ OpenStore(now)
      PROVE  IInv'
  BY <1>1, BeginStep, InvocationSteps, CompleteStep, StoreSteps
<1>2. ASSUME NEW stage \in Gates, GatePasses(stage) \/ GateFails(stage) \/ GateBlocks(stage)
      PROVE  IInv'
  BY <1>2, GatePassesStep, GateFailsStep, GateBlocksStep
<1>3. CASE CallStopped \/ AnswerRejected
  BY <1>3, StoppedSteps
<1>4. CASE Drafted \/ Repaired \/ NotRepaired
  BY <1>4, DraftedStep, RepairedStep, NotRepairedStep
<1>5. CASE NoStore \/ StoreSettles
  BY <1>5, StoreSteps
<1>6. CASE TimerFires \/ HostAborts
  BY <1>6, EnvironmentSteps
<1>7. CASE AdapterStep
  BY <1>7, AnswerStep, InvocationSteps, EnvironmentSteps DEF AdapterStep
<1>8. CASE Returned \/ UNCHANGED vars
  BY <1>8, StutterStep DEF Returned
<1> QED BY <1>1, <1>2, <1>3, <1>4, <1>5, <1>6, <1>7, <1>8 DEF Next, EngineStep

(***************************************************************************)
(* Every variable of a run keeps its type, the attempts stay within the    *)
(* repair budget, and the control variables go together as in Control.     *)
(***************************************************************************)
THEOREM TypeCorrect == Spec => [](TypeOK /\ Control)
<1>1. Init => IInv
  BY InitIInv
<1>2. IInv /\ [Next]_vars => IInv'
  BY NextIInv
<1> QED BY <1>1, <1>2, PTL DEF Spec, IInv

(***************************************************************************)
(* COMPLETED means every gate passed.  What makes it inductive is where    *)
(* the run stands: each stage it has left behind for the candidate and     *)
(* attempt in force has left a PASS record bound to both.                  *)
(***************************************************************************)
Authorized ==
  \E i \in DOMAIN stages : stages[i].stage = "authorizeContext" /\ stages[i].status = "PASS"

ReviewedUpTo(last) == \A i \in 1..last : Passed("review", setup.reviewers[i])

Evidence ==
  /\ setup.mode = "review" /\ pc \notin {"setup", "reported"} => candidate # None
  /\ pc \in {"draft", "repair", "completion"} \union CandidateGates => Authorized
  /\ pc \in {"repair", "completion"} \union CandidateGates => candidate # None
  /\ pc \in {"tests", "review", "completion"} => Passed("staticChecks", None)
  /\ pc \in {"review", "completion"} => Passed("tests", None)
  /\ pc = "review" => ReviewedUpTo(reviewer - 1)
  /\ pc = "completion" => ReviewedUpTo(Len(setup.reviewers))
  /\ CompletedRunPassedEveryGate

\* An undecided run is not a completed one.
LEMMA NullIsNoOutcome == None # "COMPLETED"
BY NullAssumption DEF RunOutcomes

\* A record added to the history removes none of the earlier ones.
LEMMA PassesKept ==
  ASSUME NEW history \in Seq(Entries), NEW entry, NEW fingerprint, NEW k, NEW stage, NEW who,
         HasPass(history, fingerprint, k, stage, who)
  PROVE  HasPass(Append(history, entry), fingerprint, k, stage, who)
<1>1. \A i \in DOMAIN history : i \in DOMAIN Append(history, entry) /\ Append(history, entry)[i] = history[i]
  OBVIOUS
<1> QED BY <1>1 DEF HasPass

LEMMA PassRecorded ==
  ASSUME NEW history \in Seq(Entries), NEW fingerprint, NEW k, NEW stage, NEW who, NEW entry,
         entry = [stage |-> stage, status |-> "PASS", attempt |-> k,
                  fingerprint |-> fingerprint, reviewer |-> who]
  PROVE  HasPass(Append(history, entry), fingerprint, k, stage, who)
<1>1. /\ Len(history) + 1 \in DOMAIN Append(history, entry)
      /\ Append(history, entry)[Len(history) + 1] = entry
  OBVIOUS
<1> QED BY <1>1 DEF HasPass

LEMMA AuthorizedKept ==
  ASSUME stages \in Seq(Entries), NEW entry, stages' = Append(stages, entry), Authorized
  PROVE  Authorized'
<1>1. \A i \in DOMAIN stages : i \in DOMAIN stages' /\ stages'[i] = stages[i]
  OBVIOUS
<1> QED BY <1>1 DEF Authorized

\* Steps that leave the run's own state alone keep the evidence.
LEMMA EvidenceQuiet ==
  ASSUME Evidence, UNCHANGED run, pc' = pc \/ pc' \in {"storing", "reported"},
         pc' = "storing" => pc \in {"store", "storing"}
  PROVE  Evidence'
BY DEF Evidence, run, CandidateGates, Authorized, ReviewedUpTo, Passed,
       CompletedRunPassedEveryGate, EveryGatePassed

\* So do steps that end the run without completing it, or ask for a repair.
LEMMA EvidenceSetback ==
  ASSUME IInv, Evidence, NEW entry, stages' = Append(stages, entry),
         UNCHANGED <<setup, candidate>>, pc \in RunStages \union {"completion"},
         pc' = "store" \/ (pc' = "repair" /\ pc \in CandidateGates),
         outcome' # "COMPLETED"
  PROVE  Evidence'
<1>1. Authorized => Authorized'
  BY AuthorizedKept DEF IInv, TypeOK
<1> QED BY <1>1 DEF Evidence, CandidateGates, CompletedRunPassedEveryGate, RunStages, Gates

LEMMA EvidenceGatePasses ==
  ASSUME IInv, Evidence, NEW stage \in Gates, GatePasses(stage)
  PROVE  Evidence'
<1> DEFINE entry == Entry(stage, "PASS", candidate, Who(stage))
<1>1. /\ stages \in Seq(Entries)
      /\ stages' = Append(stages, entry)
      /\ setup' = setup /\ candidate' = candidate /\ attempt' = attempt /\ outcome' = outcome
      /\ pc = stage
      /\ outcome = None
      /\ reviewer \in 1..Len(setup.reviewers)
      /\ Len(setup.reviewers) \in Nat
  <2>1. /\ stages' = Append(stages, entry)
        /\ setup' = setup /\ candidate' = candidate /\ attempt' = attempt /\ outcome' = outcome
        /\ pc = stage
    BY DEF GatePasses, Accepted, Arrived, Record
  <2>2. outcome = None /\ SetupAccepted
    BY <2>1 DEF IInv, Control, Gates
  <2>3. Len(setup.reviewers) \in Nat \ {0} /\ reviewer \in 1..Len(setup.reviewers)
    BY <2>2, SetupShape DEF IInv, TypeOK
  <2> QED BY <2>1, <2>2, <2>3 DEF IInv, TypeOK
<1>2. \A s, w : HasPass(stages, candidate, attempt, s, w) => HasPass(stages', candidate', attempt', s, w)
  BY <1>1, PassesKept
<1>3. HasPass(stages', candidate', attempt', stage, Who(stage))
  BY <1>1, PassRecorded DEF Entry
<1>4. Authorized => Authorized'
  BY <1>1, AuthorizedKept
<1>5. CompletedRunPassedEveryGate'
  BY <1>1, NullIsNoOutcome DEF CompletedRunPassedEveryGate
<1>6. CASE stage = "authorizeContext"
  <2>1. Authorized'
    <3>1. /\ Len(stages) + 1 \in DOMAIN stages'
          /\ stages'[Len(stages) + 1] = entry
      BY <1>1
    <3> QED BY <1>6, <3>1 DEF Authorized, Entry
  <2>2. pc' = (IF setup.mode = "edit" THEN "draft" ELSE "staticChecks")
    BY <1>6 DEF GatePasses, AfterPass, Goto
  <2>3. setup.mode \in {"edit", "review"}
    BY SetupAssumption DEF IInv, TypeOK
  <2> QED BY <1>1, <1>5, <1>6, <2>1, <2>2, <2>3 DEF Evidence, CandidateGates
<1>7. CASE stage = "staticChecks"
  <2>1. pc' = "tests" /\ Who(stage) = None
    BY <1>7 DEF GatePasses, AfterPass, Goto, Who
  <2> QED BY <1>1, <1>3, <1>4, <1>5, <1>7, <2>1 DEF Evidence, CandidateGates, Passed
<1>8. CASE stage = "tests"
  <2>1. pc' = "review" /\ reviewer' = 1 /\ Who(stage) = None
    BY <1>8 DEF GatePasses, AfterPass, Goto, Who
  <2>2. ReviewedUpTo(reviewer - 1)'
    BY <2>1 DEF ReviewedUpTo
  <2> QED BY <1>1, <1>2, <1>3, <1>4, <1>5, <1>8, <2>1, <2>2 DEF Evidence, CandidateGates, Passed
<1>9. CASE stage = "review"
  <2>1. \A i \in 1..reviewer : HasPass(stages', candidate', attempt', "review", setup'.reviewers[i])
    <3>1. \A i \in 1..(reviewer - 1) : HasPass(stages, candidate, attempt, "review", setup.reviewers[i])
      BY <1>1, <1>9 DEF Evidence, ReviewedUpTo, Passed
    <3>2. HasPass(stages', candidate', attempt', "review", setup.reviewers[reviewer])
      BY <1>3, <1>9 DEF Who
    <3> QED BY <1>1, <1>2, <3>1, <3>2
  <2>2. CASE reviewer < Len(setup.reviewers)
    <3>1. pc' = "review" /\ reviewer' = reviewer + 1
      BY <1>9, <2>2 DEF GatePasses, AfterPass, Goto
    <3>2. ReviewedUpTo(reviewer - 1)'
      BY <1>1, <2>1, <3>1 DEF ReviewedUpTo, Passed
    <3> QED BY <1>1, <1>2, <1>4, <1>5, <1>9, <3>1, <3>2 DEF Evidence, CandidateGates, Passed
  <2>3. CASE ~(reviewer < Len(setup.reviewers))
    <3>1. pc' = "completion" /\ reviewer = Len(setup.reviewers)
      BY <1>1, <1>9, <2>3 DEF GatePasses, AfterPass, Goto
    <3>2. ReviewedUpTo(Len(setup.reviewers))'
      BY <1>1, <2>1, <3>1 DEF ReviewedUpTo, Passed
    <3> QED BY <1>1, <1>2, <1>4, <1>5, <1>9, <3>1, <3>2 DEF Evidence, CandidateGates, Passed
  <2> QED BY <2>2, <2>3
<1> QED BY <1>6, <1>7, <1>8, <1>9 DEF Gates

LEMMA EvidenceBegin ==
  ASSUME IInv, Evidence, NEW now \in Samples, Begin(now)
  PROVE  Evidence'
<1>1. outcome = None /\ outcome' = None /\ setup' = setup
  BY DEF IInv, Control, Begin
<1>2. CompletedRunPassedEveryGate'
  BY <1>1, NullIsNoOutcome DEF CompletedRunPassedEveryGate
<1>3. pc' = "reported" \/ (pc' = "authorizeContext" /\ (setup.mode = "review" => candidate' # None))
  <2>1. SetupAccepted /\ setup.mode = "review" => setup.offer.content # None
    BY OfferShape, ContentAssumption DEF SetupAccepted
  <2> QED BY <2>1 DEF Begin, Goto
<1> QED BY <1>1, <1>2, <1>3 DEF Evidence, CandidateGates

LEMMA EvidenceNewCandidate ==
  ASSUME IInv, Evidence, Drafted \/ Repaired
  PROVE  Evidence'
<1>1. candidate' \in Contents
  <2>1. CASE Drafted
    BY <2>1, OfferShape DEF Drafted, Accepted, Arrived, AnswerAccepted, DraftAccepted
  <2>2. CASE Repaired
    BY <2>2, OfferShape DEF Repaired, Accepted, Arrived, AnswerAccepted, RepairAccepted
  <2> QED BY <2>1, <2>2
<1>2. /\ pc \in {"draft", "repair"}
      /\ pc' = "staticChecks"
      /\ outcome' = None
      /\ setup' = setup
      /\ \E entry : stages' = Append(stages, entry)
  BY DEF Drafted, Repaired, Accepted, Arrived, Goto, Record, IInv, Control
<1>3. Authorized'
  BY <1>2, AuthorizedKept DEF Evidence, IInv, TypeOK
<1> QED BY <1>1, <1>2, <1>3, ContentAssumption, NullIsNoOutcome
        DEF Evidence, CandidateGates, CompletedRunPassedEveryGate

LEMMA EvidenceStops ==
  ASSUME IInv, Evidence, NEW how, Stop(pc, how), pc \in Working, setup' = setup
  PROVE  Evidence'
<1>1. PICK entry : stages' = Append(stages, entry)
  BY DEF Stop, Record
<1>2. outcome' # "COMPLETED" /\ pc' = "store" /\ candidate' = candidate
  BY DEF Stop, StopOutcome, Goto
<1> QED BY <1>1, <1>2, EvidenceSetback DEF Working

LEMMA EvidenceComplete ==
  ASSUME IInv, Evidence, NEW now \in Samples, Complete(now)
  PROVE  Evidence'
<1>1. CASE Guard(invoker, now).kind = "proceed"
  <2>1. /\ pc = "completion" /\ pc' = "store"
        /\ UNCHANGED <<setup, candidate, attempt, stages>>
    BY <1>1 DEF Complete, Goto
  <2>2. Authorized /\ candidate # None /\ EveryGatePassed
    BY <2>1 DEF Evidence, EveryGatePassed, ReviewedUpTo
  <2>3. CompletedRunPassedEveryGate'
    BY <2>1, <2>2 DEF CompletedRunPassedEveryGate, EveryGatePassed, Passed, Authorized
  <2> QED BY <2>1, <2>2, <2>3 DEF Evidence, CandidateGates
<1>2. CASE Guard(invoker, now).kind # "proceed"
  BY <1>2, EvidenceStops DEF Complete, Working
<1> QED BY <1>1, <1>2

LEMMA EvidenceNext ==
  ASSUME IInv, Evidence, [Next]_vars
  PROVE  Evidence'
<1>1. ASSUME NEW now \in Samples, Begin(now) \/ Complete(now)
      PROVE  Evidence'
  BY <1>1, EvidenceBegin, EvidenceComplete
<1>2. ASSUME NEW now \in Samples, Invoke(now) \/ Start(now) \/ OpenStore(now) \/ Throw(now)
      PROVE  Evidence'
  BY <1>2, EvidenceQuiet DEF Invoke, Start, OpenStore, Throw
<1>3. ASSUME NEW stage \in Gates, GateFails(stage) \/ GateBlocks(stage)
      PROVE  Evidence'
  <2>1. /\ pc = stage /\ pc' \in {"store", "repair"} /\ outcome' # "COMPLETED"
        /\ pc' = "repair" => stage # "authorizeContext"
        /\ setup' = setup /\ candidate' = candidate
        /\ \E entry : stages' = Append(stages, entry)
    BY <1>3 DEF GateFails, GateBlocks, Accepted, Arrived, Goto, Record
  <2> QED BY <2>1, EvidenceSetback DEF RunStages, Gates, CandidateGates
<1>4. ASSUME NEW stage \in Gates, GatePasses(stage)
      PROVE  Evidence'
  BY <1>4, EvidenceGatePasses
<1>5. CASE CallStopped \/ AnswerRejected
  BY <1>5, EvidenceStops DEF CallStopped, AnswerRejected, Arrived, Working
<1>6. CASE Drafted \/ Repaired
  BY <1>6, EvidenceNewCandidate
<1>7. CASE NotRepaired
  <2>1. /\ pc = "repair" /\ pc' = "store" /\ outcome' # "COMPLETED"
        /\ setup' = setup /\ candidate' = candidate
        /\ \E entry : stages' = Append(stages, entry)
    BY <1>7 DEF NotRepaired, Accepted, Arrived, Goto, Record
  <2> QED BY <2>1, EvidenceSetback DEF RunStages
<1>8. CASE NoStore \/ StoreSettles \/ TimerFires \/ HostAborts \/ Returned \/ UNCHANGED vars
  BY <1>8, EvidenceQuiet DEF NoStore, StoreSettles, TimerFires, HostAborts, Returned, vars
<1>9. CASE \/ \E answer \in Answers : Fulfil(answer)
           \/ \E call \in abandoned : LateAnswer(call) \/ \E now \in Samples : LateThrow(call, now)
  BY <1>9, EvidenceQuiet DEF Fulfil, LateAnswer, LateThrow
<1> QED BY <1>1, <1>2, <1>3, <1>4, <1>5, <1>6, <1>7, <1>8, <1>9 DEF Next, EngineStep, AdapterStep

(***************************************************************************)
(* A run is COMPLETED only if the context was authorized and static        *)
(* checks, tests and every reviewer passed the final candidate in the      *)
(* final attempt: for any adapters, any clock and any moment of cancelling.*)
(***************************************************************************)
THEOREM CompletedRunsAreGated == Spec => []CompletedRunPassedEveryGate
<1>1. Init => IInv /\ Evidence
  <2>1. Init => Evidence
    BY NullIsNoOutcome DEF Init, Evidence, CandidateGates, CompletedRunPassedEveryGate
  <2> QED BY <2>1, InitIInv
<1>2. IInv /\ Evidence /\ [Next]_vars => (IInv /\ Evidence)'
  BY NextIInv, EvidenceNext
<1>3. IInv /\ Evidence => CompletedRunPassedEveryGate
  BY DEF Evidence
<1> QED BY <1>1, <1>2, <1>3, PTL DEF Spec

(***************************************************************************)
(* What a guard that proceeds has just seen, and what sampling may do to   *)
(* an invoker.                                                             *)
(***************************************************************************)
LEMMA SampledForward ==
  ASSUME NEW inv \in Invokers, NEW now \in Nat
  PROVE  /\ Sampled(inv, now) \in Invokers
         /\ Sampled(inv, now).previous >= inv.previous
         /\ Sampled(inv, now).deadline = inv.deadline
         /\ Sampled(inv, now).heedsHost = inv.heedsHost
BY DEF Sampled, InOrder, Invokers

LEMMA ProceedsInTime ==
  ASSUME NEW inv \in Invokers, NEW now \in Nat, Guard(inv, now).kind = "proceed"
  PROVE  ~HostStops(inv) /\ Sampled(inv, now).previous < inv.deadline
BY DEF Guard, Sampled, InOrder, Invokers, Cancelled, Failure, TimedOut

InTime ==
  /\ Advances => ~HostStops(invoker) /\ invoker'.previous < invoker.deadline
  /\ pc # "setup" => invoker'.previous >= invoker.previous

\* Steps that look at no clock and get no answer.
LEMMA QuietInTime ==
  ASSUME IInv, UNCHANGED invoker, phase' = "running" => phase = "running",
         phase' = "settled" => phase = "settled" \/ result'.kind # "result",
         outcome' # "COMPLETED" \/ outcome' = outcome
  PROVE  InTime
BY DEF InTime, Advances, IInv, TypeOK, Invokers

LEMMA CallInTime ==
  ASSUME IInv, NEW now \in Samples, Invoke(now) \/ Start(now) \/ Throw(now)
  PROVE  InTime
<1>1. now \in Nat /\ invoker \in Invokers /\ invoker' = Sampled(invoker, now) /\ outcome' = outcome
  BY ClockAssumption DEF IInv, TypeOK, Invoke, Start, Throw, run
<1>2. invoker'.previous >= invoker.previous
  BY <1>1, SampledForward
<1>3. phase = "scheduled" /\ phase' = "running" => Guard(invoker, now).kind = "proceed"
  BY DEF Invoke, Start, Throw, Settle
<1>4. ~(phase = "running" /\ phase' = "settled" /\ result'.kind = "result")
  BY <1>1, GuardType DEF Invoke, Start, Throw, Settle, Failure
<1> QED BY <1>1, <1>2, <1>3, <1>4, ProceedsInTime DEF InTime, Advances

LEMMA AnswerInTime ==
  ASSUME IInv, NEW answer \in Answers, Fulfil(answer)
  PROVE  InTime
<1>1. PICK now \in Samples, later \in Samples :
        LET arrived == Sampled(invoker, now)
            first == Guard(invoker, now)
            second == Guard(arrived, later)
        IN IF first.kind # "proceed"
             THEN Settle(first) /\ invoker' = arrived
             ELSE /\ invoker' = Sampled(arrived, later)
                  /\ Settle(IF second.kind # "proceed" THEN second
                            ELSE IF answer.schema = "uncopyable" THEN Failure("RESULT_INVALID")
                            ELSE Answered(answer))
  BY DEF Fulfil
<1>2. PICK arrived \in Invokers : arrived = Sampled(invoker, now)
  BY ClockAssumption, SampledForward DEF IInv, TypeOK
<1>3. /\ now \in Nat /\ later \in Nat /\ invoker \in Invokers
      /\ arrived.previous >= invoker.previous
      /\ arrived.deadline = invoker.deadline /\ arrived.heedsHost = invoker.heedsHost
  BY <1>2, ClockAssumption, SampledForward DEF IInv, TypeOK
<1>4. phase = "running" /\ outcome' = outcome
  BY DEF Fulfil, run
<1>5. CASE Guard(invoker, now).kind # "proceed"
  <2>1. invoker' = arrived /\ result'.kind # "result"
    BY <1>1, <1>2, <1>3, <1>5, GuardType DEF Settle
  <2> QED BY <1>3, <1>4, <2>1 DEF InTime, Advances
<1>6. CASE Guard(invoker, now).kind = "proceed"
  <2>1. invoker' = Sampled(arrived, later)
    BY <1>1, <1>2, <1>6
  <2>2. invoker'.previous >= arrived.previous
    BY <1>3, <2>1, SampledForward
  <2>3. invoker'.previous >= invoker.previous
    <3>1. invoker' \in Invokers
      BY <1>3, <2>1, SampledForward
    <3> QED BY <1>3, <2>2, <3>1 DEF Invokers
  <2>4. Guard(arrived, later).kind # "proceed" => result'.kind # "result"
    BY <1>1, <1>2, <1>3, <1>6, GuardType DEF Settle
  <2>5. Guard(arrived, later).kind = "proceed" =>
          ~HostStops(invoker) /\ invoker'.previous < invoker.deadline
    BY <1>3, <2>1, ProceedsInTime DEF HostStops
  <2> QED BY <1>4, <2>3, <2>4, <2>5 DEF InTime, Advances
<1> QED BY <1>5, <1>6

LEMMA CompleteInTime ==
  ASSUME IInv, NEW now \in Samples, Complete(now)
  PROVE  InTime
<1>1. now \in Nat /\ invoker \in Invokers /\ invoker' = Sampled(invoker, now) /\ phase' = "idle"
  BY ClockAssumption DEF IInv, TypeOK, Complete, Goto, Stop
<1>2. Guard(invoker, now).kind # "proceed" => outcome' # "COMPLETED"
  BY DEF Complete, Stop, StopOutcome
<1> QED BY <1>1, <1>2, SampledForward, ProceedsInTime DEF InTime, Advances

LEMMA OpenStoreInTime ==
  ASSUME IInv, NEW now \in Samples, OpenStore(now)
  PROVE  InTime
<1>1. outcome' = outcome /\ (phase' # "running" \/ phase' = phase)
  BY DEF OpenStore, run, Settle
<1>2. phase' = "settled" /\ phase # "settled" => result'.kind # "result"
  <2>1. CASE phase' = phase
    BY <2>1
  <2>2. CASE phase' # phase
    <3>1. result' = Failure("CLOCK_INVALID")
      BY <2>2 DEF OpenStore, Settle
    <3> QED BY <3>1 DEF Failure
  <2> QED BY <2>1, <2>2
<1>3. invoker'.previous >= invoker.previous
  BY ClockAssumption DEF OpenStore, ClockUsable, NewInvoker, IInv, TypeOK, Invokers
<1> QED BY <1>1, <1>2, <1>3 DEF InTime, Advances, OpenStore, run

LEMMA LateInTime ==
  ASSUME IInv, NEW call \in abandoned, NEW now \in Samples, LateThrow(call, now)
  PROVE  InTime
<1>1. now \in Nat /\ invoker \in Invokers /\ invoker' \in {invoker, Sampled(invoker, now)}
      /\ UNCHANGED <<phase, outcome>>
  BY ClockAssumption DEF IInv, TypeOK, LateThrow, run
<1>2. invoker.previous >= invoker.previous
  BY <1>1 DEF Invokers
<1> QED BY <1>1, <1>2, SampledForward DEF InTime, Advances

LEMMA NextInTime == IInv /\ [Next]_vars => [InTime]_vars
<1> SUFFICES ASSUME IInv, [Next]_vars PROVE InTime \/ UNCHANGED vars
  OBVIOUS
<1>1. ASSUME NEW now \in Samples, Begin(now) PROVE InTime
  BY <1>1 DEF Begin, Goto, InTime, Advances
<1>2. ASSUME NEW now \in Samples,
             Invoke(now) \/ Start(now) \/ Throw(now) \/ Complete(now) \/ OpenStore(now)
      PROVE  InTime
  BY <1>2, CallInTime, CompleteInTime, OpenStoreInTime
<1>3. ASSUME NEW stage \in Gates, GatePasses(stage) \/ GateFails(stage) \/ GateBlocks(stage)
      PROVE  InTime
  <2>1. invoker' = invoker /\ phase' = "idle" /\ (outcome' = outcome \/ outcome' # "COMPLETED")
    BY <1>3 DEF GatePasses, GateFails, GateBlocks, Goto
  <2> QED BY <2>1, QuietInTime
<1>4. CASE CallStopped \/ AnswerRejected
  <2>1. invoker' = invoker /\ phase' = "idle" /\ outcome' # "COMPLETED"
    BY <1>4 DEF CallStopped, AnswerRejected, Stop, StopOutcome, Goto
  <2> QED BY <2>1, QuietInTime
<1>5. CASE Drafted \/ Repaired \/ NotRepaired
  <2>1. invoker' = invoker /\ phase' = "idle" /\ (outcome' = outcome \/ outcome' # "COMPLETED")
    BY <1>5, NullIsNoOutcome DEF Drafted, Repaired, NotRepaired, Goto
  <2> QED BY <2>1, QuietInTime
<1>6. CASE NoStore \/ StoreSettles \/ TimerFires \/ HostAborts
  <2>1. invoker' = invoker /\ outcome' = outcome
        /\ (UNCHANGED <<phase, result>> \/ (phase' = "settled" /\ result' \in {TimedOut, Cancelled}))
    BY <1>6 DEF NoStore, StoreSettles, TimerFires, HostAborts, run, Settle
  <2>2. TimedOut.kind # "result" /\ Cancelled.kind # "result"
    BY DEF TimedOut, Cancelled
  <2> QED BY <2>1, <2>2, QuietInTime
<1>7. CASE \E answer \in Answers : Fulfil(answer)
  BY <1>7, AnswerInTime
<1>8. CASE \E call \in abandoned : LateAnswer(call) \/ \E now \in Samples : LateThrow(call, now)
  <2>1. ASSUME NEW call \in abandoned, LateAnswer(call) PROVE InTime
    <3>1. invoker' = invoker /\ outcome' = outcome /\ UNCHANGED <<phase, result>>
      BY <2>1 DEF LateAnswer, run
    <3> QED BY <3>1, QuietInTime
  <2> QED BY <1>8, <2>1, LateInTime
<1>9. Returned => UNCHANGED vars
  BY DEF Returned
<1> QED BY <1>1, <1>2, <1>3, <1>4, <1>5, <1>6, <1>7, <1>8, <1>9 DEF Next, EngineStep, AdapterStep

(***************************************************************************)
(* Nothing advances late or cancelled: an adapter starts, an answer counts *)
(* and a run completes only just after a sample below the deadline with no *)
(* abort of the host, and accepted samples never go back, whatever the     *)
(* clock of the caller returns.                                            *)
(***************************************************************************)
THEOREM NothingAdvancesLate == Spec => OnlyInTime
<1>1. Init => IInv
  BY InitIInv
<1>2. IInv /\ [Next]_vars => IInv'
  BY NextIInv
<1>3. IInv /\ [Next]_vars => [InTime]_vars
  BY NextInTime
<1> QED BY <1>1, <1>2, <1>3, PTL DEF Spec, OnlyInTime, InTime

(***************************************************************************)
(* An honest report.  What makes it inductive is who may still be heard    *)
(* while a terminal report is being stored: its invoker does not heed the  *)
(* host, so no stop of this storage comes from the host.                   *)
(***************************************************************************)
StoppedByHost == result.kind # "result" /\ (result.kind = "cancelled" \/ result.code = "ABORTED")

Unheard == IF phase = "settled" THEN ~StoppedByHost ELSE ~invoker.heedsHost

Honest ==
  /\ pc # "reported" => report = None
  /\ ReportIsHonest
  /\ pc = "store" => phase = "idle"
  /\ pc = "storing" /\ Terminal => Unheard

LEMMA DeafGuard ==
  ASSUME NEW inv \in Invokers, ~inv.heedsHost, NEW now \in Nat
  PROVE  /\ Guard(inv, now).kind # "cancelled"
         /\ Guard(inv, now).code # "ABORTED"
<1>1. ~HostStops(inv)
  BY DEF HostStops
<1>2. None # "ABORTED"
  BY CodeAssumption DEF Codes
<1> QED BY <1>1, <1>2 DEF Guard, Failure, TimedOut, Proceed

\* A stop that is not the host's.
LEMMA OtherStops ==
  \A how \in {TimedOut, Failure("CLOCK_INVALID"), Failure("RESULT_INVALID"), Failure("ADAPTER_EXCEPTION")} :
    how.kind # "cancelled" /\ how.code # "ABORTED"
BY DEF TimedOut, Failure

\* A step that leaves the run, its report and its last result alone.
LEMMA HonestQuiet ==
  ASSUME Honest, UNCHANGED <<run, pc, report, result>>,
         pc = "storing" /\ Terminal => Unheard', pc = "store" => phase' = phase
  PROVE  Honest'
BY DEF Honest, ReportIsHonest, StoredOnReceipt, WorsensOnly, TerminalIgnoresHost, Terminal, run

\* A step to a stage where there is no report yet.
LEMMA HonestUnreported ==
  ASSUME Honest, pc # "reported", pc' \notin {"storing", "reported"}, phase' = "idle", report' = report
  PROVE  Honest'
BY DEF Honest, ReportIsHonest

LEMMA HonestCalls ==
  ASSUME IInv, Honest, NEW now \in Samples, Invoke(now) \/ Start(now) \/ Throw(now)
  PROVE  Honest'
<1>1. /\ now \in Nat /\ invoker \in Invokers /\ phase # "settled"
      /\ pc \in RunStages \union {"storing"} /\ UNCHANGED <<run, pc, report>>
      /\ invoker' = Sampled(invoker, now)
  BY ClockAssumption DEF IInv, TypeOK, Control, Invoke, Start, Throw
<1>2. report' = None /\ pc' # "reported"
  BY <1>1 DEF Honest, RunStages, Gates
<1>3. ASSUME pc = "storing", Terminal PROVE Unheard'
  <2>1. ~invoker.heedsHost
    BY <1>1, <1>3 DEF Honest, Unheard
  <2>2. ~invoker'.heedsHost
    BY <1>1, <2>1, SampledForward
  <2>3. phase' = "settled" => result' \in {Guard(invoker, now), Failure("ADAPTER_EXCEPTION")}
    BY <1>1 DEF Invoke, Start, Throw, Settle
  <2>4. phase' = "settled" => result'.kind # "cancelled" /\ result'.code # "ABORTED"
    BY <1>1, <2>1, <2>3, DeafGuard, OtherStops
  <2> QED BY <2>2, <2>4 DEF Unheard, StoppedByHost
<1> QED BY <1>1, <1>2, <1>3 DEF Honest, ReportIsHonest, Terminal, run, RunStages, Gates

LEMMA HonestAnswer ==
  ASSUME IInv, Honest, NEW answer \in Answers, Fulfil(answer)
  PROVE  Honest'
<1>1. PICK now \in Samples, later \in Samples :
        LET arrived == Sampled(invoker, now)
            first == Guard(invoker, now)
            second == Guard(arrived, later)
        IN IF first.kind # "proceed"
             THEN Settle(first) /\ invoker' = arrived
             ELSE /\ invoker' = Sampled(arrived, later)
                  /\ Settle(IF second.kind # "proceed" THEN second
                            ELSE IF answer.schema = "uncopyable" THEN Failure("RESULT_INVALID")
                            ELSE Answered(answer))
  BY DEF Fulfil
<1>2. PICK arrived \in Invokers : arrived = Sampled(invoker, now)
  BY ClockAssumption, SampledForward DEF IInv, TypeOK
<1>3. /\ now \in Nat /\ later \in Nat /\ invoker \in Invokers /\ phase = "running" /\ phase' = "settled"
      /\ pc \in RunStages \union {"storing"} /\ UNCHANGED <<run, pc, report>>
      /\ arrived.heedsHost = invoker.heedsHost
  BY <1>1, <1>2, ClockAssumption, SampledForward DEF IInv, TypeOK, Control, Fulfil, Settle
<1>4. report' = None /\ pc' # "reported"
  BY <1>3 DEF Honest, RunStages, Gates
<1>5. result' \in {Guard(invoker, now), Guard(arrived, later), Failure("RESULT_INVALID"), Answered(answer)}
  BY <1>1, <1>2 DEF Settle
<1>6. ASSUME pc = "storing", Terminal PROVE Unheard'
  <2>1. ~invoker.heedsHost
    BY <1>3, <1>6 DEF Honest, Unheard
  <2>2. Answered(answer).kind = "result"
    BY DEF Answered
  <2>3. result'.kind = "result" \/ (result'.kind # "cancelled" /\ result'.code # "ABORTED")
    BY <1>3, <1>5, <2>1, <2>2, DeafGuard, OtherStops
  <2> QED BY <1>3, <2>3 DEF Unheard, StoppedByHost
<1> QED BY <1>3, <1>4, <1>6 DEF Honest, ReportIsHonest, Terminal, run, RunStages, Gates

LEMMA HonestEnvironment ==
  ASSUME IInv, Honest,
         \/ TimerFires
         \/ HostAborts
         \/ \E call \in abandoned : LateAnswer(call) \/ \E now \in Samples : LateThrow(call, now)
  PROVE  Honest'
<1>1. invoker \in Invokers /\ Samples \subseteq Nat
  BY ClockAssumption DEF IInv, TypeOK
<1>2. UNCHANGED <<run, pc, report>>
  BY DEF TimerFires, HostAborts, LateAnswer, LateThrow
<1>3. ASSUME pc = "storing", Terminal PROVE Unheard'
  <2>1. Unheard
    BY <1>3 DEF Honest
  <2>2. CASE TimerFires
    BY <2>2, OtherStops DEF TimerFires, Settle, Unheard, StoppedByHost
  <2>3. CASE HostAborts
    BY <2>1, <2>3 DEF HostAborts, Unheard, StoppedByHost
  <2>4. ASSUME NEW call \in abandoned, LateAnswer(call) PROVE Unheard'
    BY <2>1, <2>4 DEF LateAnswer, Unheard, StoppedByHost
  <2>5. ASSUME NEW call \in abandoned, NEW now \in Samples, LateThrow(call, now) PROVE Unheard'
    <3>1. UNCHANGED <<phase, result>> /\ invoker' \in {invoker, Sampled(invoker, now)}
      BY <2>5 DEF LateThrow
    <3> QED BY <1>1, <2>1, <3>1, SampledForward DEF Unheard, StoppedByHost
  <2> QED BY <2>2, <2>3, <2>4, <2>5
<1>4. CASE result' = result
  <2>1. pc = "store" => phase' = phase
    BY DEF TimerFires, HostAborts, LateAnswer, LateThrow, IInv, Control, RunStages, Gates
  <2> QED BY <1>2, <1>3, <1>4, <2>1, HonestQuiet
<1>5. CASE result' # result
  <2>1. pc \in RunStages \union {"storing"}
    BY <1>5 DEF TimerFires, HostAborts, LateAnswer, LateThrow, IInv, Control
  <2>2. report' = None /\ pc' # "reported"
    BY <1>2, <2>1 DEF Honest, RunStages, Gates
  <2> QED BY <1>2, <1>3, <2>1, <2>2 DEF Honest, ReportIsHonest, Terminal, run, RunStages, Gates
<1> QED BY <1>4, <1>5

LEMMA HonestOpenStore ==
  ASSUME IInv, Honest, NEW now \in Samples, OpenStore(now)
  PROVE  Honest'
<1>1. pc = "store" /\ pc' = "storing" /\ UNCHANGED <<run, report>> /\ report = None
  BY DEF OpenStore, Honest
<1>2. ASSUME Terminal PROVE Unheard'
  <2>1. phase # "running" /\ phase # "scheduled"
    BY <1>1 DEF IInv, Control, RunStages, Gates
  <2>2. CASE invoker' = NewInvoker(now, StoreTimeout, FALSE) /\ UNCHANGED <<phase, result>>
    <3>1. ~invoker'.heedsHost
      BY <2>2 DEF NewInvoker
    <3>2. phase # "settled"
      BY <1>1 DEF Honest, OpenStore
    <3> QED BY <2>2, <3>1, <3>2 DEF Unheard
  <2>3. CASE Settle(Failure("CLOCK_INVALID"))
    BY <2>3, OtherStops DEF Settle, Unheard, StoppedByHost
  <2> QED BY <1>2, <2>2, <2>3 DEF OpenStore
<1> QED BY <1>1, <1>2 DEF Honest, ReportIsHonest, Terminal, run

\* The report of a refused setup, of a run without a store, and of a run
\* whose store has answered or has been stopped.
LEMMA HonestBegin ==
  ASSUME IInv, Honest, NEW now \in Samples, Begin(now)
  PROVE  Honest'
<1>1. CASE pc' = "authorizeContext"
  BY <1>1, HonestUnreported DEF Begin, Goto
<1>2. CASE pc' # "authorizeContext"
  <2>1. PICK why : report' = SetupRefusal(why)
    BY <1>2 DEF Begin, Goto
  <2>2. report'.outcome = "BLOCKED" /\ report'.workflowOutcome = "BLOCKED" /\ report'.stored = FALSE
    BY <2>1 DEF SetupRefusal
  <2>3. outcome' = None /\ pc' = "reported"
    BY <1>2 DEF Begin, Goto, IInv, Control
  <2>4. ~Terminal'
    BY <2>3, NullAssumption DEF Terminal, RunOutcomes
  <2> QED BY <2>2, <2>3, <2>4 DEF Honest, ReportIsHonest, StoredOnReceipt, WorsensOnly, TerminalIgnoresHost
<1> QED BY <1>1, <1>2

LEMMA HonestNoStore ==
  ASSUME IInv, Honest, NoStore
  PROVE  Honest'
<1>1. /\ setup.store # "callable" /\ SetupAccepted /\ UNCHANGED run /\ pc' = "reported"
      /\ \E why : report' = Report(outcome, code, FALSE, why)
  BY DEF NoStore, IInv, Control
<1>2. ~setup.requireReportStore
  BY <1>1 DEF SetupAccepted
<1>3. report'.outcome = outcome /\ report'.workflowOutcome = outcome /\ report'.stored = FALSE
  BY <1>1 DEF Report
<1>4. ~setup'.requireReportStore
  BY <1>1, <1>2 DEF run
<1>5. StoredOnReceipt' /\ WorsensOnly' /\ TerminalIgnoresHost'
  BY <1>3, <1>4 DEF StoredOnReceipt, WorsensOnly, TerminalIgnoresHost, Terminal
<1> QED BY <1>1, <1>5 DEF Honest, ReportIsHonest

\* Only a PASS receipt for this very candidate leaves no code behind.
LEMMA StoreCodeOfReceipt ==
  ASSUME IInv, pc = "storing", phase = "settled"
  PROVE  /\ StoreCode = None => /\ result.kind = "result"
                                /\ result.value.status = "PASS"
                                /\ result.value.binding.fingerprint = candidate
         /\ StoreCode = "ABORTED" => result.kind # "result" /\ result.code = "ABORTED"
<1>1. \A c \in Codes : c # None
  BY CodeAssumption
<1>2. result.kind # "result" => result.code \in Codes
  BY DEF IInv, Control, Stoppers
<1>3. "REJECTED" \in Codes /\ AdapterStatuses \subseteq Codes /\ "ABORTED" \in Codes
      /\ "ABORTED" \notin AdapterStatuses
  BY DEF Codes, AdapterStatuses
<1>4. CASE result.kind # "result"
  BY <1>1, <1>2, <1>4 DEF StoreCode
<1>5. CASE result.kind = "result" /\ ~ReceiptAccepted(result.value, Binding(attempt, candidate))
  BY <1>1, <1>3, <1>5 DEF StoreCode
<1>6. CASE result.kind = "result" /\ ReceiptAccepted(result.value, Binding(attempt, candidate))
  <2>1. result.value.status \in AdapterStatuses /\ result.value.binding.fingerprint = candidate
    BY <1>6 DEF ReceiptAccepted, Binding
  <2>2. StoreCode = IF result.value.status # "PASS" THEN result.value.status ELSE None
    BY <1>6 DEF StoreCode
  <2> QED BY <1>1, <1>3, <1>6, <2>1, <2>2
<1> QED BY <1>4, <1>5, <1>6

LEMMA HonestStoreSettles ==
  ASSUME IInv, Honest, StoreSettles
  PROVE  Honest'
<1>1. pc = "storing" /\ phase = "settled" /\ pc' = "reported" /\ UNCHANGED <<setup, candidate, outcome, result>>
  BY DEF StoreSettles, Arrived, run
<1>2. PICK why : why = StoreCode
  OBVIOUS
<1>3. /\ why = None => result.kind = "result" /\ result.value.status = "PASS"
                       /\ result.value.binding.fingerprint = candidate
      /\ why = "ABORTED" => result.kind # "result" /\ result.code = "ABORTED"
  BY <1>1, <1>2, StoreCodeOfReceipt
<1>4. Terminal => ~StoppedByHost
  BY <1>1 DEF Honest, Unheard
<1>5. Terminal => why # "ABORTED"
  BY <1>3, <1>4 DEF StoppedByHost
<1>6. None # "ABORTED"
  BY CodeAssumption DEF Codes
<1>7. CASE why = None
  <2>1. report' = Report(outcome, code, TRUE, None)
    BY <1>2, <1>7 DEF StoreSettles
  <2>2. report'.outcome = outcome /\ report'.workflowOutcome = outcome /\ report'.stored = TRUE
        /\ report'.storeCode = None
    BY <2>1 DEF Report
  <2>3. StoredOnReceipt' /\ WorsensOnly' /\ TerminalIgnoresHost'
    BY <1>1, <1>3, <1>6, <1>7, <2>2 DEF StoredOnReceipt, WorsensOnly, TerminalIgnoresHost, Terminal
  <2> QED BY <1>1, <2>3 DEF Honest, ReportIsHonest
<1>8. CASE why # None
  <2>1. PICK final : report' = [outcome |-> final, workflowOutcome |-> outcome,
                                code |-> report'.code, stored |-> FALSE, storeCode |-> why]
                     /\ \/ result.kind \in {"cancelled", "timed_out"} /\ final = StopOutcome(result.kind)
                        \/ setup.requireReportStore /\ final = "BLOCKED"
                        \/ ~setup.requireReportStore /\ final = outcome
    BY <1>2, <1>8 DEF StoreSettles, Report
  <2>2. report'.outcome = final /\ report'.workflowOutcome = outcome /\ report'.stored = FALSE
        /\ report'.storeCode = why
    BY <2>1
  <2>3. (final = outcome /\ ~setup.requireReportStore) \/ final \in {"BLOCKED", "CANCELLED", "TIMED_OUT"}
    BY <2>1 DEF StopOutcome
  <2>4. Terminal => final # "CANCELLED" \/ final = outcome
    <3>1. Terminal /\ result.kind = "cancelled" => FALSE
      BY <1>4 DEF StoppedByHost
    <3> QED BY <2>1, <3>1 DEF StopOutcome
  <2>5. StoredOnReceipt' /\ WorsensOnly'
    BY <1>1, <2>2, <2>3 DEF StoredOnReceipt, WorsensOnly
  <2>6. Terminal' <=> Terminal
    BY <1>1 DEF Terminal
  <2>7. TerminalIgnoresHost'
    BY <1>5, <2>2, <2>4, <2>6 DEF TerminalIgnoresHost
  <2> QED BY <1>1, <2>5, <2>7 DEF Honest, ReportIsHonest
<1> QED BY <1>7, <1>8

LEMMA HonestNext ==
  ASSUME IInv, Honest, [Next]_vars
  PROVE  Honest'
<1>1. ASSUME NEW now \in Samples,
             Begin(now) \/ Invoke(now) \/ Start(now) \/ Throw(now) \/ OpenStore(now)
      PROVE  Honest'
  BY <1>1, HonestBegin, HonestCalls, HonestOpenStore
<1>2. ASSUME NEW now \in Samples, Complete(now) PROVE Honest'
  <2>1. pc = "completion" /\ pc' = "store" /\ phase' = "idle" /\ report' = report
    BY <1>2 DEF Complete, Stop, Goto
  <2> QED BY <2>1, HonestUnreported
<1>3. ASSUME NEW stage \in Gates, GatePasses(stage) \/ GateFails(stage) \/ GateBlocks(stage)
      PROVE  Honest'
  <2>1. pc = stage /\ pc' \notin {"storing", "reported"} /\ phase' = "idle" /\ report' = report
    BY <1>3 DEF GatePasses, GateFails, GateBlocks, Accepted, Arrived, AfterPass, Goto, Gates
  <2> QED BY <2>1, HonestUnreported DEF Gates
<1>4. CASE CallStopped \/ AnswerRejected
  <2>1. pc \in RunStages /\ pc' = "store" /\ phase' = "idle" /\ report' = report
    BY <1>4 DEF CallStopped, AnswerRejected, Arrived, Stop, Goto
  <2> QED BY <2>1, HonestUnreported DEF RunStages, Gates
<1>5. CASE Drafted \/ Repaired \/ NotRepaired
  <2>1. pc \in {"draft", "repair"} /\ pc' \in {"staticChecks", "store"} /\ phase' = "idle" /\ report' = report
    BY <1>5 DEF Drafted, Repaired, NotRepaired, Accepted, Arrived, Goto
  <2> QED BY <2>1, HonestUnreported
<1>6. CASE NoStore \/ StoreSettles
  BY <1>6, HonestNoStore, HonestStoreSettles
<1>7. CASE TimerFires \/ HostAborts
  BY <1>7, HonestEnvironment
<1>8. CASE AdapterStep
  BY <1>1, <1>8, HonestAnswer, HonestEnvironment DEF AdapterStep
<1>9. CASE Returned \/ UNCHANGED vars
  BY <1>9, HonestQuiet DEF Returned, vars, Honest, Unheard, StoppedByHost
<1> QED BY <1>1, <1>2, <1>3, <1>4, <1>5, <1>6, <1>7, <1>8, <1>9 DEF Next, EngineStep

(***************************************************************************)
(* The report is honest whatever the store, the clock and the host do: it  *)
(* counts as stored on a PASS receipt for its own candidate, storage never *)
(* improves an outcome, and a run that was stopped stores its required     *)
(* report deaf to the host.                                                *)
(***************************************************************************)
THEOREM ReportsAreHonest == Spec => []ReportIsHonest
<1>1. Init => IInv /\ Honest
  BY InitIInv DEF Init, Honest, ReportIsHonest
<1>2. IInv /\ Honest /\ [Next]_vars => (IInv /\ Honest)'
  BY NextIInv, HonestNext
<1>3. Honest => ReportIsHonest
  BY DEF Honest
<1> QED BY <1>1, <1>2, <1>3, PTL DEF Spec

(***************************************************************************)
(* What the history and the candidates have to do with the attempt: no     *)
(* record is about a later attempt, a repair opens an attempt without      *)
(* records, and an edit run has no candidate before its draft.             *)
(***************************************************************************)
Ungated(history) == \A i \in DOMAIN history : history[i].stage \notin CandidateGates

UpTo(history, k) == \A i \in DOMAIN history : history[i].attempt <= k

Blank == candidate = None /\ seen = {}

Trail ==
  /\ UpTo(stages, attempt)
  /\ pc = "repair" => \A i \in DOMAIN stages : stages[i].attempt < attempt
  /\ pc \in {"setup", "authorizeContext", "draft"} => Ungated(stages)
  /\ pc \in {"setup", "draft"} => Blank
  /\ pc = "authorizeContext" /\ setup.mode = "edit" => Blank
  /\ AdmissibleCandidate

LEMMA HistoryGrows ==
  ASSUME NEW history \in Seq(Entries), NEW entry \in Entries
  PROVE  LET longer == Append(history, entry)
         IN /\ DOMAIN longer = DOMAIN history \union {Len(history) + 1}
            /\ \A i \in DOMAIN history : longer[i] = history[i]
            /\ longer[Len(history) + 1] = entry
OBVIOUS

LEMMA EntryAttempts ==
  ASSUME NEW history \in Seq(Entries)
  PROVE  \A i \in DOMAIN history : history[i].attempt \in Nat
<1>1. \A i \in DOMAIN history : history[i] \in Entries
  OBVIOUS
<1> QED BY <1>1 DEF Entries

\* What a step appends is about the attempt in force, unless it is a gate's
\* it keeps a history without gates, and it adds at most its own pass.
LEMMA RecordKeeps ==
  ASSUME stages \in Seq(Entries), attempt \in Nat, UpTo(stages, attempt),
         NEW entry \in Entries, entry.attempt = attempt, stages' = Append(stages, entry)
  PROVE  /\ UpTo(stages', attempt)
         /\ Ungated(stages) /\ entry.stage \notin CandidateGates => Ungated(stages')
         /\ \A f, k, s, w : HasPass(stages', f, k, s, w) <=>
              \/ HasPass(stages, f, k, s, w)
              \/ entry = [stage |-> s, status |-> "PASS", attempt |-> k, fingerprint |-> f, reviewer |-> w]
<1>1. /\ DOMAIN stages' = DOMAIN stages \union {Len(stages) + 1}
      /\ \A i \in DOMAIN stages : stages'[i] = stages[i]
      /\ stages'[Len(stages) + 1] = entry
  BY HistoryGrows
<1>2. UpTo(stages', attempt)
  BY <1>1 DEF UpTo
<1>3. Ungated(stages) /\ entry.stage \notin CandidateGates => Ungated(stages')
  BY <1>1 DEF Ungated
<1>4. ASSUME NEW f, NEW k, NEW s, NEW w
      PROVE  HasPass(stages', f, k, s, w) <=>
               \/ HasPass(stages, f, k, s, w)
               \/ entry = [stage |-> s, status |-> "PASS", attempt |-> k, fingerprint |-> f, reviewer |-> w]
  <2> DEFINE pass == [stage |-> s, status |-> "PASS", attempt |-> k, fingerprint |-> f, reviewer |-> w]
  <2>1. HasPass(stages', f, k, s, w) <=> \E i \in DOMAIN stages' : stages'[i] = pass
    BY DEF HasPass
  <2>2. HasPass(stages, f, k, s, w) <=> \E i \in DOMAIN stages : stages[i] = pass
    BY DEF HasPass
  <2> HIDE DEF pass
  <2>3. (\E i \in DOMAIN stages' : stages'[i] = pass) <=> (\E i \in DOMAIN stages : stages[i] = pass) \/ entry = pass
    BY <1>1
  <2> QED BY <2>1, <2>2, <2>3 DEF pass
<1> QED BY <1>2, <1>3, <1>4

LEMMA InitTrail == Init => Trail
BY DEF Init, Trail, UpTo, Ungated, Blank, AdmissibleCandidate

(***************************************************************************)
(* The steps, by what they do to the run.                                  *)
(***************************************************************************)
\* Calls, timers and the host leave the run's own state alone.
Elsewhere == UNCHANGED <<run, report>> /\ (pc' = pc \/ (pc = "store" /\ pc' = "storing"))

Publishing ==
  /\ UNCHANGED run /\ pc' = "reported"
  /\ \/ pc = "setup" /\ report'.outcome = "BLOCKED"
     \/ pc \in {"store", "storing"} /\ report'.outcome \in {outcome, "BLOCKED", "CANCELLED", "TIMED_OUT"}

Passing == \E stage \in Gates : GatePasses(stage)

Failing == \E stage \in Gates : GateFails(stage) /\ pc' = "repair"

Exhausted == setup.repairBudget > 0 /\ attempt = setup.repairBudget

\* The run ends without being completed.
Ending(entry) ==
  /\ pc \in Working /\ pc' = "store" /\ outcome' \in RunOutcomes \ {"COMPLETED"}
  /\ entry \in Entries /\ entry.attempt = attempt /\ entry.stage = pc
  /\ entry.status # "PASS" \/ entry.stage \notin CandidateGates
  /\ entry.stage \in CandidateGates => entry.fingerprint = candidate
  /\ outcome' = "REPAIR_LIMIT" => pc \in CandidateGates /\ entry.status = "FAIL" /\ Exhausted
  /\ stages' = Append(stages, entry)
  /\ UNCHANGED <<setup, candidate, attempt, seen>>

Completing ==
  /\ pc = "completion" /\ pc' = "store" /\ outcome' = "COMPLETED"
  /\ UNCHANGED <<setup, candidate, attempt, seen, stages>>

LEMMA StopEnds ==
  ASSUME IInv, NEW how, pc \in Working, Stop(pc, how), UNCHANGED setup
  PROVE  \E entry : Ending(entry)
<1>1. Entry(pc, "UNAVAILABLE", candidate, None) \in Entries
  BY DEF IInv, TypeOK, Entry, Entries, Working, AdapterStatuses, Gates
<1>2. StopOutcome(how.kind) \in RunOutcomes \ {"COMPLETED", "REPAIR_LIMIT"}
  BY DEF StopOutcome, RunOutcomes
<1>3. Ending(Entry(pc, "UNAVAILABLE", candidate, None))
  BY <1>1, <1>2 DEF Stop, Ending, Entry, Record, Goto
<1> QED BY <1>3

LEMMA GateNotes ==
  ASSUME IInv, NEW stage \in Gates, NEW status \in AdapterStatuses,
         Accepted(stage), Record(stage, status, candidate, Who(stage))
  PROVE  LET entry == Entry(stage, status, candidate, Who(stage))
         IN /\ pc = stage /\ stages' = Append(stages, entry)
            /\ entry \in Entries /\ entry.attempt = attempt /\ entry.stage = stage /\ entry.status = status
            /\ entry.fingerprint = candidate
<1>1. pc = stage /\ pc \in RunStages
  BY DEF Accepted, Arrived, RunStages, Gates
<1>2. Entry(stage, status, candidate, Who(stage)) \in Entries
  BY <1>1, WhoType DEF Entry, Entries, IInv, TypeOK
<1> QED BY <1>1, <1>2 DEF Record, Entry

LEMMA BlocksEnd ==
  ASSUME IInv, NEW stage \in Gates, GateBlocks(stage) \/ (GateFails(stage) /\ pc' # "repair")
  PROVE  \E entry : Ending(entry)
<1>1. PICK status \in AdapterStatuses \ {"PASS"} : Accepted(stage) /\ Record(stage, status, candidate, Who(stage))
  BY DEF GateBlocks, GateFails, AdapterStatuses
<1>2. pc' = "store" /\ outcome' \in RunOutcomes \ {"COMPLETED"} /\ UNCHANGED <<setup, candidate, attempt, seen>>
  BY DEF GateBlocks, GateFails, Goto, RunOutcomes
<1>3. outcome' = "REPAIR_LIMIT" => stage \in CandidateGates /\ status = "FAIL" /\ Exhausted
  <2>1. outcome' = "REPAIR_LIMIT" => GateFails(stage) /\ ~MayRepair /\ setup.mode = "edit" /\ setup.repairBudget > 0
    BY DEF GateBlocks, GateFails
  <2>2. GateFails(stage) => stage \in CandidateGates
    BY DEF GateFails, Gates, CandidateGates
  <2>3. GateFails(stage) => stages' = Append(stages, Entry(stage, "FAIL", candidate, Who(stage)))
    BY DEF GateFails, Record
  <2>4. GateFails(stage) => status = "FAIL"
    BY <1>1, <2>3, GateNotes DEF Record, Entry, AdapterStatuses
  <2>5. attempt \in Nat /\ setup.repairBudget \in Nat /\ attempt <= setup.repairBudget
    BY SetupAssumption DEF IInv, TypeOK
  <2> QED BY <2>1, <2>2, <2>4, <2>5 DEF MayRepair, Exhausted
<1>4. Ending(Entry(stage, status, candidate, Who(stage)))
  BY <1>1, <1>2, <1>3, GateNotes DEF Ending, Working, RunStages
<1> QED BY <1>4

LEMMA NotRepairedEnds == ASSUME IInv, NotRepaired PROVE \E entry : Ending(entry)
<1> DEFINE answer == result.value
           delivered == IF answer.status = "REPAIRED" THEN answer.candidate.content ELSE candidate
           entry == Entry("repair", answer.status, delivered, None)
<1>1. pc = "repair" /\ answer.status \in RepairStatuses
  BY DEF NotRepaired, Accepted, Arrived, AnswerAccepted, RepairAccepted
<1>2. delivered \in Contents \union {None}
  BY <1>1, OfferShape DEF NotRepaired, Accepted, AnswerAccepted, RepairAccepted, IInv, TypeOK
<1>3. entry \in Entries /\ entry.attempt = attempt /\ entry.stage = "repair"
  BY <1>1, <1>2 DEF Entry, Entries, IInv, TypeOK, RunStages
<1>4. pc' = "store" /\ outcome' \in RunOutcomes \ {"COMPLETED", "REPAIR_LIMIT"} /\ stages' = Append(stages, entry)
      /\ UNCHANGED <<setup, candidate, attempt, seen>>
  BY DEF NotRepaired, Goto, Record, RunOutcomes
<1> HIDE DEF entry
<1>5. Ending(entry)
  BY <1>1, <1>3, <1>4 DEF Ending, Working, RunStages, CandidateGates
<1> QED BY <1>5

(***************************************************************************)
(* Every step of the engine is one of these.                               *)
(***************************************************************************)
LEMMA StepKinds ==
  ASSUME IInv, [Next]_vars
  PROVE  \/ Elsewhere \/ Publishing
         \/ \E now \in Samples : Begin(now) /\ pc' = "authorizeContext"
         \/ Passing \/ Failing \/ Drafted \/ Repaired \/ Completing
         \/ \E entry : Ending(entry)
<1>1. ASSUME NEW now \in Samples, Begin(now), pc' # "authorizeContext" PROVE Publishing
  <2>1. PICK why : report' = SetupRefusal(why)
    BY <1>1 DEF Begin, Goto
  <2>2. report'.outcome = "BLOCKED"
    BY <2>1 DEF SetupRefusal
  <2>3. pc = "setup" /\ pc' = "reported"
        /\ UNCHANGED <<setup, reviewer, candidate, attempt, seen, outcome, code, stages>>
    BY <1>1 DEF Begin, Goto
  <2> QED BY <2>2, <2>3 DEF Publishing, run
<1>2. ASSUME NEW now \in Samples, Invoke(now) \/ Start(now) \/ OpenStore(now) \/ Throw(now) PROVE Elsewhere
  BY <1>2 DEF Invoke, Start, OpenStore, Throw, Elsewhere, run
<1>3. ASSUME NEW now \in Samples, Complete(now) PROVE Completing \/ \E entry : Ending(entry)
  <2>1. CASE Guard(invoker, now).kind = "proceed"
    BY <1>3, <2>1 DEF Complete, Completing, Goto
  <2>2. CASE Guard(invoker, now).kind # "proceed"
    BY <1>3, <2>2, StopEnds DEF Complete, Working
  <2> QED BY <2>1, <2>2
<1>4. CASE CallStopped \/ AnswerRejected
  BY <1>4, StopEnds DEF CallStopped, AnswerRejected, Arrived, Working
<1>5. CASE TimerFires \/ HostAborts \/ Returned \/ UNCHANGED vars
  BY <1>5 DEF TimerFires, HostAborts, Returned, vars, run, Elsewhere
<1>6. CASE NoStore \/ StoreSettles
  <2>1. report'.outcome \in {outcome, "BLOCKED", "CANCELLED", "TIMED_OUT"}
    BY <1>6 DEF NoStore, StoreSettles, Report, StopOutcome
  <2> QED BY <1>6, <2>1 DEF NoStore, StoreSettles, Arrived, run, Publishing
<1>7. CASE AdapterStep
  BY <1>2, <1>7 DEF AdapterStep, Fulfil, LateAnswer, LateThrow, run, Elsewhere
<1> QED BY <1>1, <1>2, <1>3, <1>4, <1>5, <1>6, <1>7, BlocksEnd, NotRepairedEnds DEF Next, EngineStep, Passing, Failing

LEMMA PanelKept == ASSUME UNCHANGED setup PROVE UNCHANGED <<Reviewers, RequiredGates>>
BY DEF Reviewers, RequiredGates

\* The first record of a run.
LEMMA BeginShape ==
  ASSUME IInv, NEW now \in Samples, Begin(now), pc' = "authorizeContext"
  PROVE  /\ SetupAccepted /\ pc = "setup" /\ UNCHANGED <<setup, attempt, outcome, report>>
         /\ UpTo(stages', attempt) /\ Ungated(stages')
         /\ setup.mode = "edit" => candidate' = None /\ seen' = {}
         /\ setup.mode = "review" => candidate' = setup.offer.content /\ seen' = {candidate'}
<1> DEFINE intake == [stage |-> "intake", status |-> "PASS", attempt |-> 0,
                      fingerprint |-> candidate', reviewer |-> None]
<1>1. SetupAccepted /\ pc = "setup" /\ UNCHANGED <<setup, attempt, outcome, report>> /\ stages' = <<intake>>
      /\ candidate' = (IF setup.mode = "review" THEN setup.offer.content ELSE None)
      /\ seen' = (IF setup.mode = "review" THEN {setup.offer.content} ELSE {})
  BY DEF Begin
<1>2. \A i \in DOMAIN stages' : stages'[i].stage = "intake" /\ stages'[i].attempt = 0
  BY <1>1
<1>3. UpTo(stages', attempt) /\ Ungated(stages')
  BY <1>2 DEF UpTo, Ungated, CandidateGates, IInv, TypeOK
<1> QED BY <1>1, <1>3

LEMMA FailingShape ==
  ASSUME IInv, Trail, Failing
  PROVE  /\ pc \in CandidateGates /\ pc' = "repair" /\ attempt' = attempt + 1
         /\ UNCHANGED <<setup, candidate, seen, report>>
         /\ \A i \in DOMAIN stages' : stages'[i].attempt < attempt'
<1>1. PICK stage \in Gates : GateFails(stage) /\ pc' = "repair"
  BY DEF Failing
<1>2. /\ stage # "authorizeContext" /\ attempt' = attempt + 1
      /\ Accepted(stage) /\ Record(stage, "FAIL", candidate, Who(stage))
      /\ UNCHANGED <<setup, candidate, seen, report>>
  BY <1>1 DEF GateFails, Goto
<1>3. PICK entry \in Entries : entry.attempt = attempt /\ stages' = Append(stages, entry)
  BY <1>2, GateNotes DEF AdapterStatuses
<1>4. UpTo(stages', attempt)
  BY <1>3, RecordKeeps DEF Trail, IInv, TypeOK
<1>5. stages' \in Seq(Entries)
  BY <1>3 DEF IInv, TypeOK
<1>6. \A i \in DOMAIN stages' : stages'[i].attempt \in Nat
  BY <1>5, EntryAttempts
<1>7. \A i \in DOMAIN stages' : stages'[i].attempt < attempt'
  BY <1>2, <1>4, <1>6 DEF UpTo, IInv, TypeOK
<1>8. pc = stage
  BY <1>2 DEF Accepted, Arrived
<1> QED BY <1>1, <1>2, <1>7, <1>8 DEF Gates, CandidateGates

\* A draft or a repair that counts brings a candidate the run has not seen.
LEMMA CandidateShape ==
  ASSUME IInv, Trail, Drafted \/ Repaired
  PROVE  /\ pc \in {"draft", "repair"} /\ pc' = "staticChecks"
         /\ UNCHANGED <<setup, attempt, report>>
         /\ candidate' \in Admissible \ seen /\ seen' = seen \union {candidate'}
         /\ \E entry \in Entries :
              /\ entry.attempt = attempt /\ entry.stage = pc
              /\ stages' = Append(stages, entry)
<1> DEFINE answer == result.value
<1>1. CASE Drafted
  <2>1. pc = "draft" /\ candidate' = answer.candidate.content /\ seen' = seen \union {candidate'}
        /\ UNCHANGED <<setup, attempt, report>> /\ pc' = "staticChecks"
        /\ stages' = Append(stages, Entry("draft", "PASS", candidate', None))
        /\ CandidateAccepted(answer.candidate, setup.author)
    BY <1>1 DEF Drafted, Accepted, Arrived, Goto, Record, AnswerAccepted, DraftAccepted
  <2>2. candidate' \in Admissible /\ seen = {}
    BY <2>1 DEF CandidateAccepted, Trail, Blank
  <2>3. Entry("draft", "PASS", candidate', None) \in Entries
    BY <2>2, ContentAssumption DEF Entry, Entries, IInv, TypeOK, RunStages, AdapterStatuses
  <2>4. Entry("draft", "PASS", candidate', None).attempt = attempt
        /\ Entry("draft", "PASS", candidate', None).stage = "draft"
    BY DEF Entry
  <2> QED BY <2>1, <2>2, <2>3, <2>4
<1>2. CASE Repaired
  <2>1. pc = "repair" /\ candidate' = answer.candidate.content /\ seen' = seen \union {candidate'}
        /\ UNCHANGED <<setup, attempt, report>> /\ pc' = "staticChecks"
        /\ stages' = Append(stages, Entry("repair", "REPAIRED", candidate', None))
        /\ CandidateAccepted(answer.candidate, setup.author)
        /\ answer.candidate.content \notin seen
    BY <1>2 DEF Repaired, Stalled, Accepted, Arrived, Goto, Record, AnswerAccepted, RepairAccepted
  <2>2. candidate' \in Admissible
    BY <2>1 DEF CandidateAccepted
  <2>3. Entry("repair", "REPAIRED", candidate', None) \in Entries
    BY <2>2, ContentAssumption DEF Entry, Entries, IInv, TypeOK, RunStages, RepairStatuses
  <2>4. Entry("repair", "REPAIRED", candidate', None).attempt = attempt
        /\ Entry("repair", "REPAIRED", candidate', None).stage = "repair"
    BY DEF Entry
  <2> QED BY <2>1, <2>2, <2>3, <2>4
<1> QED BY <1>1, <1>2

LEMMA PassingShape ==
  ASSUME IInv, Trail, NEW stage \in Gates, GatePasses(stage)
  PROVE  /\ pc = stage /\ pc' = AfterPass(stage)
         /\ UNCHANGED <<setup, candidate, attempt, seen, outcome, report>>
         /\ UpTo(stages', attempt)
         /\ stage = "authorizeContext" => Ungated(stages')
         /\ \A f, k, s, w : HasPass(stages', f, k, s, w) <=>
              \/ HasPass(stages, f, k, s, w)
              \/ f = candidate /\ k = attempt /\ s = stage /\ w = Who(stage)
<1> DEFINE entry == Entry(stage, "PASS", candidate, Who(stage))
<1>1. Accepted(stage) /\ Record(stage, "PASS", candidate, Who(stage)) /\ pc' = AfterPass(stage)
      /\ UNCHANGED <<setup, candidate, attempt, seen, outcome, report>>
  BY DEF GatePasses, Goto
<1>2. pc = stage /\ stages' = Append(stages, entry) /\ entry \in Entries /\ entry.attempt = attempt
      /\ entry.stage = stage
  BY <1>1, GateNotes DEF AdapterStatuses
<1>3. \A f, k, s, w :
        entry = [stage |-> s, status |-> "PASS", attempt |-> k, fingerprint |-> f, reviewer |-> w] <=>
          f = candidate /\ k = attempt /\ s = stage /\ w = Who(stage)
  BY DEF Entry
<1> HIDE DEF entry
<1>4. UpTo(stages', attempt) /\ (Ungated(stages) /\ stage \notin CandidateGates => Ungated(stages'))
      /\ \A f, k, s, w : HasPass(stages', f, k, s, w) <=>
           \/ HasPass(stages, f, k, s, w)
           \/ entry = [stage |-> s, status |-> "PASS", attempt |-> k, fingerprint |-> f, reviewer |-> w]
  BY <1>2, RecordKeeps DEF Trail, IInv, TypeOK
<1>5. stage = "authorizeContext" => Ungated(stages) /\ stage \notin CandidateGates
  BY <1>2 DEF Trail, CandidateGates
<1> QED BY <1>1, <1>2, <1>3, <1>4, <1>5

LEMMA TrailNext == ASSUME IInv, Evidence, Trail, [Next]_vars PROVE Trail'
<1> USE PanelKept
<1>1. CASE Elsewhere \/ Publishing
  BY <1>1 DEF Elsewhere, Publishing, run, Trail, Blank, AdmissibleCandidate
<1>2. ASSUME NEW now \in Samples, Begin(now), pc' = "authorizeContext" PROVE Trail'
  <2>1. setup.mode \in {"edit", "review"}
    BY SetupAssumption DEF IInv, TypeOK
  <2>2. AdmissibleCandidate'
    BY <1>2, <2>1, BeginShape DEF AdmissibleCandidate, SetupAccepted, CandidateAccepted
  <2> QED BY <1>2, <2>2, BeginShape DEF Trail, Blank
<1>3. ASSUME NEW stage \in Gates, GatePasses(stage) PROVE Trail'
  <2>1. AdmissibleCandidate'
    BY <1>3, PassingShape DEF Trail, AdmissibleCandidate
  <2>2. pc' \in {"draft", "staticChecks", "tests", "review", "completion"}
        /\ (pc' = "draft" => stage = "authorizeContext" /\ setup.mode = "edit")
    BY <1>3, PassingShape DEF AfterPass, Gates
  <2> QED BY <1>3, <2>1, <2>2, PassingShape DEF Trail, Blank
<1>4. CASE Failing
  <2>1. \A i \in DOMAIN stages' : stages'[i].attempt <= attempt'
    <3>1. stages' \in Seq(Entries) /\ attempt' \in Nat
      BY NextIInv DEF IInv, TypeOK
    <3>2. \A i \in DOMAIN stages' : stages'[i].attempt \in Nat
      BY <3>1, EntryAttempts
    <3> QED BY <1>4, <3>1, <3>2, FailingShape
  <2>2. AdmissibleCandidate'
    BY <1>4, FailingShape DEF Trail, AdmissibleCandidate
  <2> QED BY <1>4, <2>1, <2>2, FailingShape DEF Trail, UpTo
<1>5. CASE Drafted \/ Repaired
  <2>1. UpTo(stages', attempt)
    BY <1>5, CandidateShape, RecordKeeps DEF Trail, IInv, TypeOK
  <2>2. SetupAccepted /\ setup.mode \in {"edit", "review"}
    BY <1>5, CandidateShape, SetupAssumption DEF IInv, Control, TypeOK
  <2>3. seen \subseteq Admissible
    <3>1. CASE pc = "draft"
      BY <3>1 DEF Trail, Blank
    <3>2. CASE pc = "repair"
      BY <3>2 DEF Trail, AdmissibleCandidate, Evidence
    <3> QED BY <1>5, <3>1, <3>2, CandidateShape
  <2>4. AdmissibleCandidate'
    BY <1>5, <2>2, <2>3, CandidateShape DEF AdmissibleCandidate, SetupAccepted, AdaptersAccepted
  <2> QED BY <1>5, <2>1, <2>4, CandidateShape DEF Trail
<1>6. CASE Completing
  BY <1>6 DEF Completing, Trail, AdmissibleCandidate
<1>7. ASSUME NEW entry, Ending(entry) PROVE Trail'
  <2>1. UpTo(stages', attempt)
    BY <1>7, RecordKeeps DEF Ending, Trail, IInv, TypeOK
  <2> QED BY <1>7, <2>1 DEF Ending, Trail, AdmissibleCandidate
<1> QED BY <1>1, <1>2, <1>3, <1>4, <1>5, <1>6, <1>7, StepKinds DEF Passing
(***************************************************************************)
(* The refinement.                                                         *)
(***************************************************************************)
AbstractStep == [Promise!Next]_Promise!vars

Stays == UNCHANGED <<RequiredGates, candidate, seen, Open, Approved, Verdict, Published>>

LEMMA StaysIsStep == Stays => AbstractStep
BY DEF Stays, AbstractStep, Promise!vars

LEMMA GateNames == \A gate \in RequiredGates : gate = <<gate[1], gate[2]>> /\ gate[1] \in CandidateGates
BY DEF RequiredGates, CandidateGates

LEMMA OutcomesAreNotNull == \A final \in RunOutcomes : final # None
BY NullAssumption

LEMMA NoEarlyPass ==
  ASSUME NEW history, NEW f, NEW k \in Nat, NEW s \in CandidateGates, NEW w,
         Ungated(history) \/ \A i \in DOMAIN history : history[i].attempt < k
  PROVE  ~HasPass(history, f, k, s, w)
<1> SUFFICES ASSUME NEW i \in DOMAIN history,
                    history[i] = [stage |-> s, status |-> "PASS", attempt |-> k,
                                  fingerprint |-> f, reviewer |-> w]
             PROVE  FALSE
  BY DEF HasPass
<1>1. history[i].stage = s /\ history[i].attempt = k
  OBVIOUS
<1> QED BY <1>1 DEF Ungated

LEMMA NoApprovals ==
  ASSUME UNCHANGED setup, \A gate \in RequiredGates : ~HasPass(stages', candidate', attempt', gate[1], gate[2])
  PROVE  Approved' = {}
BY PanelKept DEF Approved, Passed

\* Without a new pass of a gate the approvals are what they were.
LEMMA SameApprovals ==
  ASSUME UNCHANGED <<setup, candidate, attempt>>,
         \A gate \in RequiredGates :
           HasPass(stages', candidate, attempt, gate[1], gate[2]) <=> Passed(gate[1], gate[2])
  PROVE  UNCHANGED Approved
BY PanelKept DEF Approved, Passed

\* A step to the store concludes the run.
LEMMA ConcludeStep ==
  ASSUME pc \in Working, pc' = "store", outcome' \in RunOutcomes,
         UNCHANGED <<setup, candidate, seen, Approved>>,
         outcome' = "COMPLETED" => Open /\ Approved = RequiredGates
  PROVE  AbstractStep
<1>1. Verdict = None /\ Published = None /\ Verdict' = outcome' /\ Published' = None /\ Open' = FALSE
  BY DEF Verdict, Published, Open, Concluded, Working, RunStages, Gates
<1>2. Promise!Conclude(outcome')
  BY <1>1, PanelKept DEF Promise!Conclude
<1> QED BY <1>2 DEF AbstractStep, Promise!Next

LEMMA EndingMaps == ASSUME IInv, Trail, NEW entry, Ending(entry) PROVE AbstractStep
<1>1. /\ pc \in Working /\ pc' = "store" /\ outcome' \in RunOutcomes \ {"COMPLETED"}
      /\ entry \in Entries /\ entry.attempt = attempt /\ stages' = Append(stages, entry)
      /\ entry.status # "PASS" \/ entry.stage \notin CandidateGates
      /\ UNCHANGED <<setup, candidate, attempt, seen>>
  BY DEF Ending
<1>2. \A f, k, s, w : HasPass(stages', f, k, s, w) <=>
        \/ HasPass(stages, f, k, s, w)
        \/ entry = [stage |-> s, status |-> "PASS", attempt |-> k, fingerprint |-> f, reviewer |-> w]
  BY <1>1, RecordKeeps DEF Trail, IInv, TypeOK
<1>3. \A f, k, w : \A s \in CandidateGates : HasPass(stages', f, k, s, w) <=> HasPass(stages, f, k, s, w)
  BY <1>1, <1>2
<1>4. \A gate \in RequiredGates :
        HasPass(stages', candidate, attempt, gate[1], gate[2]) <=> Passed(gate[1], gate[2])
  BY <1>3, GateNames DEF Passed
<1>5. UNCHANGED Approved
  BY <1>1, <1>4, SameApprovals
<1> QED BY <1>1, <1>5, ConcludeStep

LEMMA CompletingMaps == ASSUME IInv, Evidence, Completing PROVE AbstractStep
<1>1. /\ pc = "completion" /\ pc' = "store" /\ outcome' = "COMPLETED"
      /\ UNCHANGED <<setup, candidate, attempt, seen, stages>>
  BY DEF Completing
<1>2. UNCHANGED Approved
  BY <1>1, SameApprovals DEF Passed
<1>3. \A i \in 1..Len(setup.reviewers) : Passed("review", setup.reviewers[i])
  BY <1>1 DEF Evidence, ReviewedUpTo
<1>4. Passed("staticChecks", None) /\ Passed("tests", None)
  BY <1>1 DEF Evidence
<1>5. \A gate \in RequiredGates : Passed(gate[1], gate[2])
  BY <1>3, <1>4 DEF RequiredGates, Reviewers
<1>6. Approved = RequiredGates
  BY <1>5 DEF Approved
<1>7. Open
  BY <1>1 DEF Evidence, Open, Concluded
<1>8. pc \in Working /\ outcome' \in RunOutcomes
  BY <1>1 DEF Working, RunOutcomes
<1> QED BY <1>1, <1>2, <1>6, <1>7, <1>8, ConcludeStep

LEMMA PublishingMaps == ASSUME IInv, Trail, Publishing PROVE AbstractStep
<1>1. UNCHANGED <<setup, candidate, attempt, seen, stages, outcome>> /\ pc' = "reported"
  BY DEF Publishing, run
<1>2. \/ pc = "setup" /\ report'.outcome = "BLOCKED" /\ candidate = None
      \/ pc \in {"store", "storing"} /\ outcome \in RunOutcomes
         /\ report'.outcome \in {outcome, "BLOCKED", "CANCELLED", "TIMED_OUT"}
  BY DEF Publishing, Trail, Blank, IInv, Control
<1>3. Published = None /\ Published' = report'.outcome
  BY <1>1, <1>2 DEF Published
<1>4. Open = FALSE /\ Open' = FALSE
  BY <1>1, <1>2 DEF Open, Concluded
<1>5. UNCHANGED Approved
  BY <1>1, SameApprovals DEF Passed
<1>6. Verdict = outcome /\ Verdict' = outcome
  <2>1. pc = "setup" => outcome = None
    BY DEF IInv, Control
  <2> QED BY <1>1, <1>2, <2>1 DEF Verdict, Concluded
<1>7. Promise!Publish(report'.outcome)
  BY <1>1, <1>2, <1>3, <1>4, <1>5, <1>6, PanelKept, OutcomesAreNotNull DEF Promise!Publish, IInv, Control
<1>8. report'.outcome \in RunOutcomes
  BY <1>2 DEF RunOutcomes
<1> QED BY <1>7, <1>8 DEF AbstractStep, Promise!Next

LEMMA ElsewhereMaps == ASSUME Elsewhere \/ UNCHANGED vars PROVE AbstractStep
<1>1. UNCHANGED <<setup, candidate, attempt, seen, stages, outcome, report>>
      /\ (pc' = pc \/ (pc = "store" /\ pc' = "storing"))
  BY DEF Elsewhere, run, vars
<1>2. UNCHANGED Approved
  BY <1>1, SameApprovals DEF Passed
<1>3. UNCHANGED <<Open, Verdict, Published>>
  BY <1>1 DEF Open, Verdict, Published, Concluded
<1> QED BY <1>1, <1>2, <1>3, PanelKept, StaysIsStep DEF Stays

\* A candidate enters the run.
LEMMA PresentStep ==
  ASSUME UNCHANGED setup, Verdict = None, Published = None,
         candidate' \in Contents \ seen, seen' = seen \union {candidate'},
         pc' \in {"authorizeContext", "staticChecks"},
         \A gate \in RequiredGates : ~HasPass(stages', candidate', attempt', gate[1], gate[2])
  PROVE  AbstractStep
<1>1. Verdict' = None /\ Published' = None /\ Open' = TRUE
  BY ContentAssumption DEF Verdict, Published, Open, Concluded
<1>2. Approved' = {}
  BY NoApprovals
<1>3. Promise!Present(candidate')
  BY <1>1, <1>2, PanelKept DEF Promise!Present
<1> QED BY <1>3 DEF AbstractStep, Promise!Next

LEMMA BeginMaps ==
  ASSUME IInv, Trail, NEW now \in Samples, Begin(now), pc' = "authorizeContext"
  PROVE  AbstractStep
<1>1. /\ SetupAccepted /\ pc = "setup" /\ UNCHANGED <<setup, attempt, outcome, report>>
      /\ Ungated(stages') /\ candidate = None /\ seen = {} /\ Ungated(stages)
      /\ setup.mode = "edit" => candidate' = None /\ seen' = {}
      /\ setup.mode = "review" => candidate' = setup.offer.content /\ seen' = {candidate'}
  BY BeginShape DEF Trail, Blank
<1>2. \A gate \in RequiredGates : ~HasPass(stages', candidate', attempt', gate[1], gate[2])
  BY <1>1, NoEarlyPass, GateNames DEF IInv, TypeOK
<1>3. Verdict = None /\ Published = None
  BY <1>1 DEF Verdict, Published, Concluded
<1>4. CASE setup.mode = "review"
  <2>1. setup.offer.content \in Contents
    BY <1>1, <1>4, OfferShape DEF SetupAccepted
  <2> QED BY <1>1, <1>2, <1>3, <1>4, <2>1, PresentStep
<1>5. CASE setup.mode = "edit"
  <2>1. Approved' = {}
    BY <1>1, <1>2, NoApprovals
  <2>2. Approved = {}
    <3>1. \A gate \in RequiredGates : ~Passed(gate[1], gate[2])
      BY <1>1, NoEarlyPass, GateNames DEF Passed, IInv, TypeOK
    <3> QED BY <3>1 DEF Approved
  <2>3. Open = FALSE /\ Open' = FALSE /\ Verdict' = None /\ Published' = None
    BY <1>1, <1>5 DEF Open, Verdict, Published, Concluded
  <2> QED BY <1>1, <1>3, <1>5, <2>1, <2>2, <2>3, PanelKept, StaysIsStep DEF Stays
<1> QED BY <1>4, <1>5, SetupAssumption DEF IInv, TypeOK

LEMMA CandidateMaps == ASSUME IInv, Trail, Drafted \/ Repaired PROVE AbstractStep
<1>1. /\ pc \in {"draft", "repair"} /\ pc' = "staticChecks"
      /\ UNCHANGED <<setup, attempt, report>>
      /\ candidate' \in Admissible \ seen /\ seen' = seen \union {candidate'}
  BY CandidateShape
<1>2. PICK entry \in Entries : entry.attempt = attempt /\ entry.stage = pc /\ stages' = Append(stages, entry)
  BY CandidateShape
<1>3. \A f, k, s, w : HasPass(stages', f, k, s, w) <=>
        \/ HasPass(stages, f, k, s, w)
        \/ entry = [stage |-> s, status |-> "PASS", attempt |-> k, fingerprint |-> f, reviewer |-> w]
  BY <1>2, RecordKeeps DEF Trail, IInv, TypeOK
<1>4. Ungated(stages) \/ \A i \in DOMAIN stages : stages[i].attempt < attempt
  BY <1>1 DEF Trail
<1>5. \A f, w : \A s \in CandidateGates : ~HasPass(stages, f, attempt, s, w)
  BY <1>4, NoEarlyPass DEF IInv, TypeOK
<1>6. \A f, k, w : \A s \in CandidateGates :
        entry # [stage |-> s, status |-> "PASS", attempt |-> k, fingerprint |-> f, reviewer |-> w]
  BY <1>1, <1>2 DEF CandidateGates
<1>7. \A gate \in RequiredGates : ~HasPass(stages', candidate', attempt', gate[1], gate[2])
  BY <1>1, <1>3, <1>5, <1>6, GateNames
<1>8. Verdict = None /\ Published = None
  BY <1>1 DEF Verdict, Published, Concluded
<1> QED BY <1>1, <1>7, <1>8, PresentStep, ContentAssumption

LEMMA FailingMaps == ASSUME IInv, Evidence, Trail, Failing PROVE AbstractStep
<1>1. /\ pc \in CandidateGates /\ pc' = "repair" /\ attempt' = attempt + 1
      /\ UNCHANGED <<setup, candidate, seen, report>>
      /\ \A i \in DOMAIN stages' : stages'[i].attempt < attempt'
  BY FailingShape
<1>2. attempt' \in Nat
  BY <1>1 DEF IInv, TypeOK
<1>3. \A gate \in RequiredGates : ~HasPass(stages', candidate', attempt', gate[1], gate[2])
  BY <1>1, <1>2, NoEarlyPass, GateNames
<1>4. Approved' = {}
  BY <1>1, <1>3, NoApprovals
<1>5. Open = TRUE /\ Open' = FALSE
  BY <1>1 DEF Evidence, Open, Concluded, CandidateGates
<1>6. Verdict = None /\ Verdict' = None /\ Published = None /\ Published' = None
  BY <1>1 DEF Verdict, Published, Concluded, CandidateGates
<1>7. Promise!Withdraw
  BY <1>1, <1>4, <1>5, <1>6, PanelKept DEF Promise!Withdraw
<1> QED BY <1>7 DEF AbstractStep, Promise!Next

LEMMA PassingMaps ==
  ASSUME IInv, Evidence, Trail, NEW stage \in Gates, GatePasses(stage)
  PROVE  AbstractStep
<1>1. /\ pc = stage /\ pc' = AfterPass(stage)
      /\ UNCHANGED <<setup, candidate, attempt, seen, outcome, report>>
      /\ \A f, k, s, w : HasPass(stages', f, k, s, w) <=>
           \/ HasPass(stages, f, k, s, w)
           \/ f = candidate /\ k = attempt /\ s = stage /\ w = Who(stage)
  BY PassingShape
<1>2. /\ pc' \in {"draft", "staticChecks", "tests", "review", "completion"}
      /\ pc' = "draft" => stage = "authorizeContext" /\ setup.mode = "edit"
      /\ stage = "authorizeContext" /\ setup.mode = "edit" => pc' = "draft"
  BY <1>1 DEF AfterPass, Gates
<1>3. Verdict = None /\ Verdict' = None /\ Published = None /\ Published' = None
  BY <1>1, <1>2 DEF Verdict, Published, Concluded, Gates
<1>4. \A gate \in RequiredGates :
        HasPass(stages', candidate, attempt, gate[1], gate[2]) <=>
          Passed(gate[1], gate[2]) \/ gate = <<stage, Who(stage)>>
  BY <1>1, GateNames DEF Passed
<1>5. UNCHANGED Open
  <2>1. CASE candidate # None
    <3>1. Open = TRUE /\ Open' = TRUE
      BY <1>1, <1>2, <2>1 DEF Open, Concluded, Gates
    <3> QED BY <3>1
  <2>2. CASE candidate = None
    <3>1. Open = FALSE /\ Open' = FALSE
      BY <1>1, <2>2 DEF Open
    <3> QED BY <3>1
  <2> QED BY <2>1, <2>2
<1>6. CASE stage = "authorizeContext"
  <2>1. \A gate \in RequiredGates : gate # <<stage, Who(stage)>>
    BY <1>6, GateNames DEF CandidateGates
  <2>2. UNCHANGED Approved
    BY <1>1, <1>4, <2>1, SameApprovals
  <2> QED BY <1>1, <1>3, <1>5, <2>2, PanelKept, StaysIsStep DEF Stays
<1>7. CASE stage # "authorizeContext"
  <2>1. PICK gate : gate = <<stage, Who(stage)>>
    OBVIOUS
  <2>2. gate \in RequiredGates
    <3>1. stage = "review" => Who(stage) \in Reviewers
      <4>1. stage = "review" => SetupAccepted
        BY <1>1 DEF IInv, Control
      <4>2. stage = "review" => reviewer \in 1..Len(setup.reviewers)
        BY <4>1, SetupShape DEF IInv, TypeOK
      <4> QED BY <4>2 DEF Who, Reviewers
    <3>2. stage # "review" => Who(stage) = None
      BY DEF Who
    <3> QED BY <1>7, <2>1, <3>1, <3>2 DEF Gates, RequiredGates
  <2>3. Approved' = Approved \union {gate}
    BY <1>1, <1>4, <2>1, <2>2, PanelKept DEF Approved, Passed
  <2>4. Open = TRUE
    BY <1>1, <1>7 DEF Evidence, Open, Concluded, CandidateGates, Gates
  <2>5. CASE gate \in Approved
    BY <1>1, <1>3, <1>5, <2>3, <2>5, PanelKept, StaysIsStep DEF Stays
  <2>6. CASE gate \notin Approved
    <3>1. Promise!Approve(gate)
      BY <1>1, <1>3, <1>5, <2>2, <2>3, <2>4, <2>6, PanelKept DEF Promise!Approve
    <3> QED BY <2>2, <3>1 DEF AbstractStep, Promise!Next
  <2> QED BY <2>5, <2>6
<1> QED BY <1>6, <1>7

LEMMA NextMaps == ASSUME IInv, Evidence, Trail, [Next]_vars PROVE AbstractStep
BY StepKinds, ElsewhereMaps, PublishingMaps, BeginMaps, PassingMaps, FailingMaps, CandidateMaps,
   CompletingMaps, EndingMaps DEF Passing

Strong == IInv /\ Evidence /\ Trail

LEMMA StrongInvariant == Spec => []Strong
<1>1. Init => Strong
  <2>1. Init => Evidence
    BY NullIsNoOutcome DEF Init, Evidence, CandidateGates, CompletedRunPassedEveryGate
  <2> QED BY <2>1, InitIInv, InitTrail DEF Strong
<1>2. Strong /\ [Next]_vars => Strong'
  BY NextIInv, EvidenceNext, TrailNext DEF Strong
<1> QED BY <1>1, <1>2, PTL DEF Spec

(***************************************************************************)
(* The candidates of a run stay inside the task with its protected files   *)
(* intact, and no author reviews its own candidate: whatever the adapters  *)
(* answer.                                                                 *)
(***************************************************************************)
THEOREM CandidatesStayAdmissible == Spec => []AdmissibleCandidate
<1>1. Strong => AdmissibleCandidate
  BY DEF Strong, Trail
<1> QED BY <1>1, StrongInvariant, PTL

(***************************************************************************)
(* The workflow engine keeps the promise of WorkflowRun, for every task,   *)
(* panel, adapters, clock and host: it completes only on all approvals of  *)
(* the candidate presented last, no candidate is presented twice, and the  *)
(* caller is told the verdict or that it could not be stored.              *)
(***************************************************************************)
THEOREM EngineKeepsThePromise == Spec => ImplementsRun
<1>1. Init => Promise!Init
  <2> SUFFICES ASSUME Init PROVE Promise!Init
    OBVIOUS
  <2>1. Open = FALSE /\ Verdict = None /\ Published = None
    BY DEF Init, Open, Verdict, Published, Concluded
  <2>2. Approved = {}
    BY DEF Init, Approved, Passed, HasPass
  <2> QED BY <2>1, <2>2 DEF Init, Promise!Init
<1>2. Strong /\ [Next]_vars => [Promise!Next]_Promise!vars
  BY NextMaps DEF AbstractStep, Strong
<1> QED BY <1>1, <1>2, StrongInvariant, PTL DEF Spec, ImplementsRun, Promise!Spec

(***************************************************************************)
(* One adapter at a time.  What makes it inductive: an adapter that was    *)
(* dropped belongs to a call that settled without a result, and from there *)
(* the run goes to the store and calls no other stage.                     *)
(***************************************************************************)
Solo ==
  /\ pc = "setup" => phase = "idle"
  /\ abandoned # {} =>
       \/ pc \in {"store", "storing", "reported"}
       \/ phase = "settled" /\ result.kind # "result"

\* A continuation that goes on with the stages had a result to go on with.
LEMMA SoloNext == ASSUME IInv, Solo, [Next]_vars PROVE Solo'
<1>1. ASSUME NEW now \in Samples, Begin(now) PROVE Solo'
  BY <1>1 DEF Begin, Solo, Goto, IInv, Control
<1>2. ASSUME NEW now \in Samples, Invoke(now) \/ Start(now) \/ Throw(now) PROVE Solo'
  BY <1>2 DEF Invoke, Start, Throw, Settle, Solo, RunStages, Gates, IInv, Control
<1>3. ASSUME NEW now \in Samples, Complete(now) \/ OpenStore(now) PROVE Solo'
  BY <1>3 DEF Complete, OpenStore, Stop, Goto, Solo
<1>4. ASSUME NEW stage \in Gates, GatePasses(stage) \/ GateFails(stage) \/ GateBlocks(stage) PROVE Solo'
  <2>1. pc = stage /\ result.kind = "result" /\ abandoned' = abandoned /\ phase' = "idle" /\ pc' # "setup"
    BY <1>4 DEF GatePasses, GateFails, GateBlocks, Accepted, Arrived, Goto, AfterPass, Gates
  <2> QED BY <2>1 DEF Solo, Gates
<1>5. CASE CallStopped \/ AnswerRejected \/ NotRepaired
  BY <1>5 DEF CallStopped, AnswerRejected, NotRepaired, Stop, Goto, Solo
<1>6. CASE Drafted \/ Repaired
  <2>1. pc \in {"draft", "repair"} /\ result.kind = "result" /\ abandoned' = abandoned
        /\ phase' = "idle" /\ pc' = "staticChecks"
    BY <1>6 DEF Drafted, Repaired, Accepted, Arrived, Goto
  <2> QED BY <2>1 DEF Solo
<1>7. CASE NoStore \/ StoreSettles \/ Returned \/ UNCHANGED vars
  BY <1>7 DEF NoStore, StoreSettles, Returned, vars, Solo
<1>8. CASE TimerFires \/ HostAborts
  BY <1>8 DEF TimerFires, HostAborts, Settle, Abandon, TimedOut, Cancelled, Solo, run,
              IInv, Control, RunStages, Gates
<1>9. ASSUME NEW answer \in Answers, Fulfil(answer) PROVE Solo'
  <2>1. phase = "running" /\ phase' = "settled" /\ UNCHANGED <<pc, abandoned>>
    BY <1>9 DEF Fulfil, Settle
  <2> QED BY <2>1 DEF Solo, IInv, Control, RunStages, Gates
<1>10. CASE \E call \in abandoned : LateAnswer(call) \/ \E now \in Samples : LateThrow(call, now)
  <2>1. abandoned # {} /\ UNCHANGED <<pc, phase, result>>
    BY <1>10 DEF LateAnswer, LateThrow
  <2> QED BY <2>1 DEF Solo
<1> QED BY <1>1, <1>2, <1>3, <1>4, <1>5, <1>6, <1>7, <1>8, <1>9, <1>10 DEF Next, EngineStep, AdapterStep

(***************************************************************************)
(* Adapters of a run never overlap, whenever timers fire and the host      *)
(* aborts: once a call has been dropped, only the store is called.         *)
(***************************************************************************)
THEOREM AdaptersRunAlone == Spec => []AdaptersDoNotOverlap
<1>1. Init => IInv /\ Solo
  BY InitIInv DEF Init, Solo
<1>2. IInv /\ Solo /\ [Next]_vars => (IInv /\ Solo)'
  BY NextIInv, SoloNext
<1>3. IInv /\ Solo => AdaptersDoNotOverlap
  BY DEF IInv, Control, Solo, AdaptersDoNotOverlap, RunStages, Gates
<1> QED BY <1>1, <1>2, <1>3, PTL DEF Spec

(***************************************************************************)
(* The ledger of a run: which candidate each gate judged, which candidates *)
(* failed, and how the records follow each other.  Distinct is inductive   *)
(* because a candidate enters only if it was never seen, and a record of a *)
(* gate carries the candidate and the attempt in force; Counted because no *)
(* candidate in force has failed yet; Chained because of the last record.  *)
(***************************************************************************)
Judged(history) == {i \in DOMAIN history : history[i].stage \in CandidateGates}

Judging == CandidateGates \union {"completion"}

Distinct ==
  /\ OneCandidatePerAttempt
  /\ \A i \in Judged(stages) : stages[i].fingerprint \in seen
  /\ pc \in Judging => \A i \in Judged(stages) :
       stages[i].fingerprint = candidate <=> stages[i].attempt = attempt

Undecided == Working \union {"setup"}

Counted ==
  /\ pc \in Undecided =>
       /\ \A i \in GateFailures(stages) : stages[i].attempt < attempt
       /\ IsFiniteSet(FailedCandidates(stages))
       /\ Cardinality(FailedCandidates(stages)) = attempt
  /\ RepairLimitIsEarned

Last == stages[Len(stages)]

Chained ==
  /\ AttemptsFollowFailures
  /\ pc \in Working => stages # <<>>
  /\ pc \in Working \ {"repair"} => Last.attempt = attempt
  /\ pc = "repair" =>
       Last.attempt + 1 = attempt /\ Last.stage \in CandidateGates /\ Last.status = "FAIL"

\* The steps, by the record they add: a verdict of a gate on the candidate
\* in force, or a record of another stage.
Judgement(entry, status) ==
  /\ pc \in CandidateGates /\ pc' \in Judging \union {"repair"}
  /\ entry \in Entries /\ entry.attempt = attempt /\ entry.stage = pc
  /\ entry.status = status /\ entry.fingerprint = candidate
  /\ stages' = Append(stages, entry)
  /\ UNCHANGED <<setup, candidate, seen, report>>
  /\ outcome' \in {outcome, "FAILED"}
  /\ status = "FAIL" => pc' = "repair" /\ attempt' = attempt + 1
  /\ status = "PASS" => pc' \in Judging /\ attempt' = attempt

LEMMA PassIsJudgement ==
  ASSUME IInv, Trail, NEW stage \in Gates, GatePasses(stage), stage # "authorizeContext"
  PROVE  \E entry : Judgement(entry, "PASS")
<1>1. Accepted(stage) /\ Record(stage, "PASS", candidate, Who(stage)) /\ pc' = AfterPass(stage)
      /\ UNCHANGED <<setup, candidate, attempt, seen, outcome, report>>
  BY DEF GatePasses, Goto
<1>2. PICK entry \in Entries :
        /\ pc = stage /\ stages' = Append(stages, entry)
        /\ entry.attempt = attempt /\ entry.stage = stage /\ entry.status = "PASS"
        /\ entry.fingerprint = candidate
  BY <1>1, GateNotes DEF AdapterStatuses
<1>3. stage \in CandidateGates /\ pc' \in Judging
  BY <1>1 DEF AfterPass, Gates, CandidateGates, Judging
<1>4. Judgement(entry, "PASS")
  BY <1>1, <1>2, <1>3 DEF Judgement
<1> QED BY <1>4

LEMMA FailIsJudgement ==
  ASSUME IInv, Failing
  PROVE  \E entry : Judgement(entry, "FAIL")
<1>1. PICK stage \in Gates : GateFails(stage) /\ pc' = "repair"
  BY DEF Failing
<1>2. /\ stage # "authorizeContext" /\ attempt' = attempt + 1 /\ outcome' = "FAILED"
      /\ Accepted(stage) /\ Record(stage, "FAIL", candidate, Who(stage))
      /\ UNCHANGED <<setup, candidate, seen, report>>
  BY <1>1 DEF GateFails, Goto
<1>3. PICK entry \in Entries :
        /\ pc = stage /\ stages' = Append(stages, entry)
        /\ entry.attempt = attempt /\ entry.stage = stage /\ entry.status = "FAIL"
        /\ entry.fingerprint = candidate
  BY <1>2, GateNotes DEF AdapterStatuses
<1>4. stage \in CandidateGates
  BY <1>2 DEF Gates, CandidateGates
<1>5. Judgement(entry, "FAIL")
  BY <1>1, <1>2, <1>3, <1>4 DEF Judgement
<1> QED BY <1>5

\* The context's own record.
LEMMA AuthorizingShape ==
  ASSUME IInv, Trail, GatePasses("authorizeContext")
  PROVE  \E entry \in Entries :
           /\ pc = "authorizeContext" /\ pc' \in {"draft", "staticChecks"}
           /\ entry.attempt = attempt /\ entry.stage = pc
           /\ stages' = Append(stages, entry)
           /\ UNCHANGED <<setup, candidate, attempt, seen, outcome, report>>
<1>1. Accepted("authorizeContext") /\ Record("authorizeContext", "PASS", candidate, Who("authorizeContext"))
      /\ pc' = AfterPass("authorizeContext")
      /\ UNCHANGED <<setup, candidate, attempt, seen, outcome, report>>
  BY DEF GatePasses, Goto
<1>2. PICK entry \in Entries :
        /\ pc = "authorizeContext" /\ stages' = Append(stages, entry)
        /\ entry.attempt = attempt /\ entry.stage = "authorizeContext"
  BY <1>1, GateNotes DEF AdapterStatuses, Gates
<1> QED BY <1>1, <1>2 DEF AfterPass

(***************************************************************************)
(* Two records of gates are about one candidate exactly when they are of   *)
(* one attempt.                                                            *)
(***************************************************************************)
LEMMA NewJudgement ==
  ASSUME NEW history \in Seq(Entries), NEW entry \in Entries
  PROVE  Judged(Append(history, entry)) =
           Judged(history) \union (IF entry.stage \in CandidateGates THEN {Len(history) + 1} ELSE {})
BY HistoryGrows DEF Judged

DistinctIn(history) ==
  \A i, j \in Judged(history) :
    history[i].fingerprint = history[j].fingerprint <=> history[i].attempt = history[j].attempt

LEMMA DistinctForms ==
  /\ OneCandidatePerAttempt <=> DistinctIn(stages)
  /\ OneCandidatePerAttempt' <=> DistinctIn(stages')
BY DEF DistinctIn, OneCandidatePerAttempt, Judged

\* Records that are not of a gate do not count, and a new one counts once.
LEMMA DistinctSame ==
  ASSUME NEW old, NEW new, Judged(new) = Judged(old), \A i \in Judged(old) : new[i] = old[i],
         DistinctIn(old)
  PROVE  DistinctIn(new)
BY DEF DistinctIn

LEMMA DistinctOneMore ==
  ASSUME NEW old, NEW new, NEW k, Judged(new) = Judged(old) \union {k},
         \A i \in Judged(old) : new[i] = old[i],
         \A i \in Judged(old) : old[i].fingerprint = new[k].fingerprint <=> old[i].attempt = new[k].attempt,
         DistinctIn(old)
  PROVE  DistinctIn(new)
<1> SUFFICES ASSUME NEW i \in Judged(old) \union {k}, NEW j \in Judged(old) \union {k}
             PROVE  new[i].fingerprint = new[j].fingerprint <=> new[i].attempt = new[j].attempt
  BY DEF DistinctIn
<1>1. CASE i \in Judged(old) /\ j \in Judged(old)
  BY <1>1 DEF DistinctIn
<1>2. CASE i = k \/ j = k
  BY <1>2
<1> QED BY <1>1, <1>2

LEMMA DistinctKept ==
  ASSUME IInv, Distinct, NEW entry \in Entries, stages' = Append(stages, entry),
         entry.stage \notin CandidateGates, seen \subseteq seen'
  PROVE  OneCandidatePerAttempt' /\ \A i \in Judged(stages') : stages'[i].fingerprint \in seen'
<1>1. Judged(stages') = Judged(stages)
  BY NewJudgement DEF IInv, TypeOK
<1>2. \A i \in Judged(stages) : stages'[i] = stages[i]
  BY HistoryGrows DEF IInv, TypeOK, Judged
<1>3. DistinctIn(stages) /\ \A i \in Judged(stages) : stages[i].fingerprint \in seen
  BY DistinctForms DEF Distinct
<1>4. DistinctIn(stages')
  BY <1>1, <1>2, <1>3, DistinctSame
<1>5. \A i \in Judged(stages') : stages'[i].fingerprint \in seen'
  BY <1>1, <1>2, <1>3
<1> QED BY <1>4, <1>5, DistinctForms

LEMMA DistinctJudged ==
  ASSUME IInv, Evidence, Trail, Distinct, NEW entry \in Entries, stages' = Append(stages, entry),
         pc \in CandidateGates, entry.stage = pc, entry.attempt = attempt, entry.fingerprint = candidate,
         UNCHANGED <<candidate, seen>>
  PROVE  /\ OneCandidatePerAttempt'
         /\ \A i \in Judged(stages') :
              /\ stages'[i].fingerprint \in seen'
              /\ stages'[i].fingerprint = candidate' <=> stages'[i].attempt = attempt
<1>1. Judged(stages') = Judged(stages) \union {Len(stages) + 1}
  BY NewJudgement DEF IInv, TypeOK
<1>2. /\ \A i \in Judged(stages) : stages'[i] = stages[i]
      /\ stages'[Len(stages) + 1] = entry
  BY HistoryGrows DEF IInv, TypeOK, Judged
<1>3. candidate \in seen
  BY DEF Evidence, Trail, AdmissibleCandidate, CandidateGates
<1>4. \A i \in Judged(stages) : stages[i].fingerprint = candidate <=> stages[i].attempt = attempt
  BY DEF Distinct, Judging
<1>5. DistinctIn(stages) /\ \A i \in Judged(stages) : stages[i].fingerprint \in seen
  BY DistinctForms DEF Distinct
<1>6. DistinctIn(stages')
  <2>1. PICK k : k = Len(stages) + 1
    OBVIOUS
  <2>2. \A i \in Judged(stages) :
          stages[i].fingerprint = stages'[k].fingerprint <=> stages[i].attempt = stages'[k].attempt
    BY <1>2, <1>4, <2>1
  <2>3. Judged(stages') = Judged(stages) \union {k}
    BY <1>1, <2>1
  <2> QED BY <1>2, <1>5, <2>2, <2>3, DistinctOneMore
<1>7. \A i \in Judged(stages') :
        stages'[i].fingerprint \in seen /\ (stages'[i].fingerprint = candidate <=> stages'[i].attempt = attempt)
  BY <1>1, <1>2, <1>3, <1>4, <1>5
<1> QED BY <1>6, <1>7, DistinctForms

LEMMA DistinctNext == ASSUME IInv, Evidence, Trail, Distinct, [Next]_vars PROVE Distinct'
<1>1. CASE Elsewhere \/ Publishing
  BY <1>1 DEF Elsewhere, Publishing, run, Distinct, OneCandidatePerAttempt, Judging, Judged, CandidateGates
<1>2. ASSUME NEW now \in Samples, Begin(now), pc' = "authorizeContext" PROVE Distinct'
  <2>1. Judged(stages') = {}
    BY <1>2, BeginShape DEF Ungated, Judged
  <2> QED BY <1>2, <2>1, DistinctForms DEF Distinct, DistinctIn, Judging, CandidateGates
<1>3. ASSUME NEW stage \in Gates, GatePasses(stage) PROVE Distinct'
  <2>1. CASE stage = "authorizeContext"
    <3>1. Judged(stages') = {}
      BY <1>3, <2>1, PassingShape DEF Ungated, Judged
    <3> QED BY <3>1, DistinctForms DEF Distinct, DistinctIn
  <2>2. CASE stage # "authorizeContext"
    <3>1. PICK entry : Judgement(entry, "PASS")
      BY <1>3, <2>2, PassIsJudgement
    <3> QED BY <3>1, DistinctJudged DEF Judgement, Distinct
  <2> QED BY <2>1, <2>2
<1>4. CASE Failing
  <2>1. PICK entry : Judgement(entry, "FAIL")
    BY <1>4, FailIsJudgement
  <2> QED BY <2>1, DistinctJudged DEF Judgement, Distinct, Judging, CandidateGates
<1>5. CASE Drafted \/ Repaired
  <2>1. PICK entry \in Entries : entry.attempt = attempt /\ entry.stage = pc /\ stages' = Append(stages, entry)
    BY <1>5, CandidateShape
  <2>2. /\ pc \in {"draft", "repair"} /\ attempt' = attempt
        /\ candidate' \notin seen /\ seen' = seen \union {candidate'}
    BY <1>5, CandidateShape
  <2>3. OneCandidatePerAttempt' /\ \A i \in Judged(stages') : stages'[i].fingerprint \in seen'
    BY <2>1, <2>2, DistinctKept DEF CandidateGates
  <2>4. Judged(stages') = Judged(stages) /\ \A i \in Judged(stages) : stages'[i] = stages[i]
    BY <2>1, <2>2, NewJudgement, HistoryGrows DEF IInv, TypeOK, Judged, CandidateGates
  <2>5. \A i \in Judged(stages) : stages[i].fingerprint # candidate' /\ stages[i].attempt # attempt
    <3>1. \A i \in Judged(stages) : stages[i].attempt \in Nat /\ stages[i].attempt # attempt
      BY <2>2, EntryAttempts DEF Trail, Ungated, Judged, IInv, TypeOK
    <3> QED BY <2>2, <3>1 DEF Distinct
  <2> QED BY <2>2, <2>3, <2>4, <2>5 DEF Distinct
<1>6. CASE Completing
  BY <1>6 DEF Completing, Distinct, OneCandidatePerAttempt, Judging, Judged, CandidateGates
<1>7. ASSUME NEW entry, Ending(entry) PROVE Distinct'
  <2>1. /\ entry \in Entries /\ stages' = Append(stages, entry) /\ entry.stage = pc /\ entry.attempt = attempt
        /\ pc' = "store" /\ UNCHANGED <<candidate, seen>>
        /\ entry.stage \in CandidateGates => entry.fingerprint = candidate
    BY <1>7 DEF Ending
  <2>2. OneCandidatePerAttempt' /\ \A i \in Judged(stages') : stages'[i].fingerprint \in seen'
    BY <2>1, DistinctKept, DistinctJudged
  <2> QED BY <2>1, <2>2 DEF Distinct, Judging, CandidateGates
<1> QED BY <1>1, <1>2, <1>3, <1>4, <1>5, <1>6, <1>7, StepKinds DEF Passing

(***************************************************************************)
(* No content is judged in two attempts, and no attempt judges two: the    *)
(* gates of an attempt are all about the candidate it was opened with.     *)
(***************************************************************************)
THEOREM NoContentIsJudgedTwice == Spec => []OneCandidatePerAttempt
<1>1. Init => Distinct
  BY DEF Init, Distinct, OneCandidatePerAttempt, Judged, Judging, CandidateGates
<1>2. Strong /\ Distinct /\ [Next]_vars => Distinct'
  BY DistinctNext DEF Strong
<1>3. Distinct => OneCandidatePerAttempt
  BY DEF Distinct
<1> QED BY <1>1, <1>2, <1>3, StrongInvariant, PTL DEF Spec

(***************************************************************************)
(* The candidates that failed are as many as the attempts used up: the     *)
(* candidate in force is not one of them until a gate fails it, and then a *)
(* new attempt begins or the run ends.                                     *)
(***************************************************************************)
IsFailure(entry) == entry.stage \in CandidateGates /\ entry.status = "FAIL"

LEMMA FailuresGrow ==
  ASSUME NEW history \in Seq(Entries), NEW entry \in Entries
  PROVE  /\ \A i \in DOMAIN Append(history, entry) :
              i \in GateFailures(Append(history, entry)) <=>
                i \in GateFailures(history) \/ (i = Len(history) + 1 /\ IsFailure(entry))
         /\ ~IsFailure(entry) => FailedCandidates(Append(history, entry)) = FailedCandidates(history)
         /\ IsFailure(entry) => FailedCandidates(Append(history, entry))
                                = FailedCandidates(history) \union {entry.fingerprint}
<1> DEFINE longer == Append(history, entry)
<1>1. /\ DOMAIN longer = DOMAIN history \union {Len(history) + 1}
      /\ \A i \in DOMAIN history : longer[i] = history[i]
      /\ longer[Len(history) + 1] = entry
      /\ Len(history) + 1 \notin DOMAIN history
  BY HistoryGrows
<1> HIDE DEF longer
<1>2. GateFailures(longer) =
        GateFailures(history) \union (IF IsFailure(entry) THEN {Len(history) + 1} ELSE {})
  BY <1>1 DEF GateFailures, IsFailure
<1>3. \A i \in GateFailures(history) : i \in DOMAIN history /\ longer[i] = history[i]
  BY <1>1 DEF GateFailures
<1>4. CASE IsFailure(entry)
  <2>1. GateFailures(longer) = GateFailures(history) \union {Len(history) + 1}
    BY <1>2, <1>4
  <2>2. FailedCandidates(longer) = FailedCandidates(history) \union {entry.fingerprint}
    BY <1>1, <1>3, <2>1 DEF FailedCandidates
  <2> QED BY <1>1, <1>4, <2>1, <2>2 DEF longer
<1>5. CASE ~IsFailure(entry)
  <2>1. GateFailures(longer) = GateFailures(history)
    BY <1>2, <1>5
  <2>2. FailedCandidates(longer) = FailedCandidates(history)
    BY <1>3, <2>1 DEF FailedCandidates
  <2> QED BY <1>1, <1>5, <2>1, <2>2 DEF longer
<1> QED BY <1>4, <1>5

\* A record that is no failure leaves the count alone.
LEMMA CountKept ==
  ASSUME IInv, NEW entry \in Entries, stages' = Append(stages, entry), ~IsFailure(entry),
         \A i \in GateFailures(stages) : stages[i].attempt < attempt
  PROVE  /\ FailedCandidates(stages') = FailedCandidates(stages)
         /\ \A i \in GateFailures(stages') : stages'[i].attempt < attempt
<1>1. stages \in Seq(Entries)
  BY DEF IInv, TypeOK
<1>2. GateFailures(stages') \subseteq DOMAIN stages'
  BY DEF GateFailures
<1>3. \A i \in GateFailures(stages') : i \in GateFailures(stages)
  BY <1>1, <1>2, FailuresGrow
<1>4. \A i \in GateFailures(stages) : stages'[i] = stages[i]
  BY <1>1, HistoryGrows DEF GateFailures
<1> QED BY <1>1, <1>3, <1>4, FailuresGrow

\* A failure of the candidate in force adds one.
LEMMA CountGrows ==
  ASSUME IInv, Distinct, Counted, NEW entry \in Entries, stages' = Append(stages, entry),
         pc \in CandidateGates, IsFailure(entry), entry.fingerprint = candidate
  PROVE  /\ IsFiniteSet(FailedCandidates(stages'))
         /\ Cardinality(FailedCandidates(stages')) = attempt + 1
<1>1. stages \in Seq(Entries) /\ attempt \in Nat
  BY DEF IInv, TypeOK
<1>2. FailedCandidates(stages') = FailedCandidates(stages) \union {candidate}
  BY <1>1, FailuresGrow
<1>3. /\ IsFiniteSet(FailedCandidates(stages)) /\ Cardinality(FailedCandidates(stages)) = attempt
      /\ \A i \in GateFailures(stages) : stages[i].attempt < attempt
  BY DEF Counted, Undecided, Working, RunStages, Gates, CandidateGates
<1>4. \A i \in GateFailures(stages) : stages[i].fingerprint # candidate
  <2>1. \A i \in GateFailures(stages) : i \in Judged(stages) /\ stages[i].attempt \in Nat
    BY <1>1, EntryAttempts DEF GateFailures, Judged
  <2> QED BY <1>1, <1>3, <2>1 DEF Distinct, Judging
<1>5. candidate \notin FailedCandidates(stages)
  BY <1>4 DEF FailedCandidates
<1> QED BY <1>2, <1>3, <1>5, FS_AddElement

\* Nothing has failed before the run begins.
LEMMA NoAttemptYet == ASSUME Trail, Counted, pc = "setup" PROVE attempt = 0
<1>1. GateFailures(stages) = {}
  BY DEF Trail, Ungated, GateFailures
<1>2. FailedCandidates(stages) = {}
  BY <1>1 DEF FailedCandidates
<1> QED BY <1>2, FS_EmptySet DEF Counted, Undecided

LEMMA CountedNext ==
  ASSUME IInv, IInv', Evidence, Trail, Distinct, Counted, [Next]_vars
  PROVE  Counted'
<1>0. stages \in Seq(Entries) /\ attempt \in Nat
  BY DEF IInv, TypeOK
<1>1. CASE Elsewhere \/ Publishing
  <2>1. UNCHANGED <<setup, stages, attempt, outcome>> /\ (pc' \in Undecided => pc \in Undecided)
    BY <1>1 DEF Elsewhere, Publishing, run, Undecided, Working, RunStages, Gates
  <2> QED BY <2>1 DEF Counted, RepairLimitIsEarned
<1>2. ASSUME NEW now \in Samples, Begin(now), pc' = "authorizeContext" PROVE Counted'
  <2>1. GateFailures(stages') = {} /\ attempt' = 0
    <3>1. GateFailures(stages') = {}
      BY <1>2, BeginShape DEF Ungated, GateFailures
    <3> QED BY <1>2, <3>1, BeginShape, NoAttemptYet
  <2>2. FailedCandidates(stages') = {}
    BY <2>1 DEF FailedCandidates
  <2>3. outcome' # "REPAIR_LIMIT"
    BY <1>2, NullAssumption DEF IInv, Control, RunOutcomes, Gates
  <2> QED BY <2>1, <2>2, <2>3, FS_EmptySet DEF Counted, RepairLimitIsEarned
<1>3. ASSUME NEW entry \in Entries, stages' = Append(stages, entry), ~IsFailure(entry),
             pc \in Undecided, UNCHANGED attempt, pc' \in Undecided
      PROVE  Counted'
  <2>1. outcome' # "REPAIR_LIMIT"
    BY <1>3, NullAssumption DEF Undecided, Working, RunStages, IInv, Control, RunOutcomes
  <2> QED BY <1>3, <2>1, CountKept DEF Counted, RepairLimitIsEarned
<1>4. ASSUME NEW stage \in Gates, GatePasses(stage) PROVE Counted'
  <2>1. CASE stage = "authorizeContext"
    BY <1>3, <1>4, <2>1, AuthorizingShape DEF IsFailure, CandidateGates, Undecided, Working, RunStages, Gates
  <2>2. CASE stage # "authorizeContext"
    <3>1. PICK entry : Judgement(entry, "PASS")
      BY <1>4, <2>2, PassIsJudgement
    <3> QED BY <1>3, <3>1 DEF Judgement, IsFailure, Judging, CandidateGates, Undecided, Working, RunStages, Gates
  <2> QED BY <2>1, <2>2
<1>5. CASE Failing
  <2>1. PICK entry : Judgement(entry, "FAIL")
    BY <1>5, FailIsJudgement
  <2>2. IsFiniteSet(FailedCandidates(stages')) /\ Cardinality(FailedCandidates(stages')) = attempt'
    BY <2>1, CountGrows DEF Judgement, IsFailure
  <2>3. \A i \in GateFailures(stages') : stages'[i].attempt < attempt'
    BY <1>5, FailingShape DEF GateFailures
  <2>4. outcome' # "REPAIR_LIMIT"
    BY <2>1, NullAssumption DEF Judgement, Undecided, Working, RunStages, IInv, Control, RunOutcomes, CandidateGates, Gates
  <2> QED BY <2>2, <2>3, <2>4 DEF Counted, RepairLimitIsEarned
<1>6. CASE Drafted \/ Repaired
  <2>1. PICK entry \in Entries : entry.attempt = attempt /\ entry.stage = pc /\ stages' = Append(stages, entry)
    BY <1>6, CandidateShape
  <2>2. pc \in {"draft", "repair"} /\ pc' = "staticChecks" /\ attempt' = attempt
    BY <1>6, CandidateShape
  <2> QED BY <1>3, <2>1, <2>2 DEF IsFailure, CandidateGates, Undecided, Working, RunStages, Gates
<1>7. CASE Completing
  BY <1>7 DEF Completing, Counted, RepairLimitIsEarned, Undecided, Working, RunStages, Gates
<1>8. ASSUME NEW entry, Ending(entry) PROVE Counted'
  <2>1. pc' \notin Undecided
    BY <1>8 DEF Ending, Undecided, Working, RunStages, Gates
  <2>2. ASSUME outcome' = "REPAIR_LIMIT" PROVE RepairLimitIsEarned'
    <3>1. /\ entry \in Entries /\ stages' = Append(stages, entry) /\ pc \in CandidateGates
          /\ IsFailure(entry) /\ entry.fingerprint = candidate
          /\ setup' = setup /\ setup.repairBudget > 0 /\ attempt = setup.repairBudget
      BY <1>8, <2>2 DEF Ending, Exhausted, IsFailure
    <3> QED BY <3>1, CountGrows DEF RepairLimitIsEarned
  <2> QED BY <2>1, <2>2 DEF Counted, RepairLimitIsEarned
<1> QED BY <1>1, <1>2, <1>4, <1>5, <1>6, <1>7, <1>8, StepKinds DEF Passing

(***************************************************************************)
(* The records follow each other: the last one is of the attempt in force, *)
(* or, when a repair is asked for, the failure that opened it.             *)
(***************************************************************************)
Follows(history, i) ==
  IF history[i].stage = "repair"
    THEN /\ history[i].attempt = history[i - 1].attempt + 1
         /\ history[i - 1].stage \in CandidateGates
         /\ history[i - 1].status = "FAIL"
    ELSE history[i].attempt = history[i - 1].attempt

LEMMA ChainForms ==
  /\ AttemptsFollowFailures <=> \A i \in 2..Len(stages) : Follows(stages, i)
  /\ AttemptsFollowFailures' <=> \A i \in 2..Len(stages') : Follows(stages', i)
BY DEF AttemptsFollowFailures, Follows

\* A record of the stage the run is at continues the chain.
LEMMA ChainGrows ==
  ASSUME IInv, Chained, NEW entry \in Entries, stages' = Append(stages, entry),
         pc \in Working, entry.stage = pc, entry.attempt = attempt
  PROVE  AttemptsFollowFailures' /\ stages' # <<>> /\ Last' = entry
<1>1. stages \in Seq(Entries) /\ attempt \in Nat /\ stages # <<>>
  BY DEF IInv, TypeOK, Chained
<1>2. PICK n \in Nat \ {0} : n = Len(stages)
  BY <1>1
<1>3. /\ Len(stages') = n + 1 /\ stages'[n + 1] = entry /\ stages' # <<>>
      /\ \A i \in 1..n : stages'[i] = stages[i]
  BY <1>1, <1>2
<1>4. \A i \in 2..n : Follows(stages', i)
  <2>1. \A i \in 2..n : Follows(stages, i)
    BY <1>2, ChainForms DEF Chained
  <2>2. \A i \in 2..n : i \in 1..n /\ i - 1 \in 1..n
    BY <1>2
  <2> QED BY <1>3, <2>1, <2>2 DEF Follows
<1>5. Follows(stages', n + 1)
  <2>1. stages'[n] = Last /\ (n + 1) - 1 = n
    BY <1>2, <1>3 DEF Last
  <2>2. Last.attempt \in Nat
    BY <1>1, <1>2, EntryAttempts DEF Last
  <2>3. CASE pc = "repair"
    BY <1>1, <1>3, <2>1, <2>2, <2>3 DEF Follows, Chained
  <2>4. CASE pc # "repair"
    BY <1>3, <2>1, <2>4 DEF Follows, Chained
  <2> QED BY <2>3, <2>4
<1>6. \A i \in 2..Len(stages') : i \in 2..n \/ i = n + 1
  BY <1>2, <1>3
<1>7. AttemptsFollowFailures'
  BY <1>4, <1>5, <1>6, ChainForms
<1> QED BY <1>3, <1>7 DEF Last

LEMMA ChainedNext ==
  ASSUME IInv, Evidence, Trail, Counted, Chained, [Next]_vars
  PROVE  Chained'
<1>1. CASE Elsewhere \/ Publishing
  <2>1. UNCHANGED <<stages, attempt>> /\ (pc' = pc \/ pc' \in {"storing", "reported"})
    BY <1>1 DEF Elsewhere, Publishing, run
  <2> QED BY <2>1 DEF Chained, AttemptsFollowFailures, Last, Working, RunStages, Gates
<1>2. ASSUME NEW now \in Samples, Begin(now), pc' = "authorizeContext" PROVE Chained'
  <2>1. PICK intake : intake.attempt = 0 /\ stages' = <<intake>>
    <3>1. stages' = <<[stage |-> "intake", status |-> "PASS", attempt |-> 0,
                       fingerprint |-> candidate', reviewer |-> None]>>
      BY <1>2 DEF Begin
    <3> QED BY <3>1
  <2>2. Last' = intake /\ stages' # <<>> /\ 2..Len(stages') = {}
    BY <2>1 DEF Last
  <2>3. attempt' = 0
    BY <1>2, BeginShape, NoAttemptYet
  <2> QED BY <1>2, <2>1, <2>2, <2>3, ChainForms DEF Chained
<1>3. ASSUME NEW entry \in Entries, stages' = Append(stages, entry), pc \in Working,
             entry.stage = pc, entry.attempt = attempt, pc' # "repair", UNCHANGED attempt
      PROVE  Chained'
  BY <1>3, ChainGrows DEF Chained
<1>4. ASSUME NEW stage \in Gates, GatePasses(stage) PROVE Chained'
  <2>1. CASE stage = "authorizeContext"
    BY <1>3, <1>4, <2>1, AuthorizingShape DEF Working, RunStages, Gates
  <2>2. CASE stage # "authorizeContext"
    <3>1. PICK entry : Judgement(entry, "PASS")
      BY <1>4, <2>2, PassIsJudgement
    <3> QED BY <1>3, <3>1 DEF Judgement, Judging, CandidateGates, Working, RunStages, Gates
  <2> QED BY <2>1, <2>2
<1>5. CASE Failing
  <2>1. PICK entry : Judgement(entry, "FAIL")
    BY <1>5, FailIsJudgement
  <2>2. AttemptsFollowFailures' /\ stages' # <<>> /\ Last' = entry
    BY <2>1, ChainGrows DEF Judgement, CandidateGates, Working, RunStages, Gates
  <2> QED BY <2>1, <2>2 DEF Chained, Judgement
<1>6. CASE Drafted \/ Repaired
  <2>1. PICK entry \in Entries : entry.attempt = attempt /\ entry.stage = pc /\ stages' = Append(stages, entry)
    BY <1>6, CandidateShape
  <2>2. pc \in {"draft", "repair"} /\ pc' = "staticChecks" /\ attempt' = attempt
    BY <1>6, CandidateShape
  <2> QED BY <1>3, <2>1, <2>2 DEF Working, RunStages
<1>7. CASE Completing
  BY <1>7 DEF Completing, Chained, AttemptsFollowFailures, Working, RunStages, Gates
<1>8. ASSUME NEW entry, Ending(entry) PROVE Chained'
  BY <1>3, <1>8 DEF Ending
<1> QED BY <1>1, <1>2, <1>4, <1>5, <1>6, <1>7, <1>8, StepKinds DEF Passing

(***************************************************************************)
(* An attempt is opened by a repair right after a gate of the attempt      *)
(* before failed, and by nothing else; and REPAIR_LIMIT is reported after  *)
(* one failed candidate for the draft and for each repair of the budget.   *)
(***************************************************************************)
THEOREM RepairsFollowFailures == Spec => []RepairsAreEarned
<1>1. Init => Distinct /\ Counted /\ Chained
  <2> SUFFICES ASSUME Init PROVE Distinct /\ Counted /\ Chained
    OBVIOUS
  <2>1. GateFailures(stages) = {} /\ FailedCandidates(stages) = {}
    BY DEF Init, GateFailures, FailedCandidates
  <2>2. outcome # "REPAIR_LIMIT" /\ attempt = 0
    BY NullAssumption DEF Init, RunOutcomes
  <2>3. Counted
    BY <2>1, <2>2, FS_EmptySet DEF Counted, RepairLimitIsEarned
  <2>4. Distinct /\ Chained
    BY DEF Init, Distinct, OneCandidatePerAttempt, Judged, Judging, CandidateGates,
           Chained, AttemptsFollowFailures, Working, RunStages, Gates
  <2> QED BY <2>3, <2>4
<1>2. Strong /\ Strong' /\ Distinct /\ Counted /\ Chained /\ [Next]_vars => (Distinct /\ Counted /\ Chained)'
  BY DistinctNext, CountedNext, ChainedNext DEF Strong
<1>3. Counted /\ Chained => RepairsAreEarned
  BY DEF Counted, Chained, RepairsAreEarned
<1> QED BY <1>1, <1>2, <1>3, StrongInvariant, PTL DEF Spec

(***************************************************************************)
(* A run is finite: every step brings its report nearer, repairs included. *)
(*                                                                         *)
(* A stage is so many stages before the report, repairs apart; its call is *)
(* so many steps before it has settled; and an attempt still to come is    *)
(* worth more than any stage.  What the environment may do on its own, a   *)
(* late settlement for each call dropped and one abort, is added to it.    *)
(***************************************************************************)
Panel == Len(setup.reviewers)

StagesAhead(panel, stage, index) ==
  CASE stage = "reported" -> 0
    [] stage = "storing" -> 1
    [] stage = "store" -> 2
    [] stage = "completion" -> 3
    [] stage = "review" -> panel + 5 - index
    [] stage = "tests" -> panel + 5
    [] stage = "staticChecks" -> panel + 6
    [] stage \in {"draft", "repair"} -> panel + 7
    [] stage = "authorizeContext" -> panel + 8
    [] OTHER -> panel + 9

CallAhead(at) ==
  CASE at = "idle" -> 3
    [] at = "scheduled" -> 2
    [] at = "running" -> 1
    [] OTHER -> 0

Distance(attempts, panel, stagesAhead, callAhead) ==
  4 * (attempts * (panel + 10) + stagesAhead) + callAhead

Remaining ==
  Distance(setup.repairBudget - attempt, Panel, StagesAhead(Panel, pc, reviewer), CallAhead(phase))

Abort == IF aborted THEN 0 ELSE 1

Effort == 2 * Remaining + Cardinality(abandoned) + Abort

LongestRun == 8 * ((setup.repairBudget + 1) * (Panel + 10))

LEMMA Products == \A m, n \in Nat : m * n \in Nat /\ (m + 1) * n = m * n + n
OBVIOUS

LEMMA StagesAheadType ==
  ASSUME NEW panel \in Nat, NEW stage, NEW index \in 1 .. panel + 1
  PROVE  StagesAhead(panel, stage, index) \in 0 .. panel + 9
<1> DEFINE near == {0, 1, 2, 3}
           far == {panel + 5 - index, panel + 5, panel + 6, panel + 7, panel + 8, panel + 9}
<1>1. StagesAhead(panel, stage, index) \in near \union far
  BY Zenon DEF StagesAhead
<1>2. \A n \in near \union far : n \in 0 .. panel + 9
  OBVIOUS
<1> QED BY <1>1, <1>2

LEMMA CallAheadType == ASSUME NEW at PROVE CallAhead(at) \in 0 .. 3
BY DEF CallAhead

LEMMA DistanceType ==
  ASSUME NEW attempts \in Nat, NEW panel \in Nat, NEW s \in Nat, NEW c \in Nat
  PROVE  Distance(attempts, panel, s, c) \in Nat
<1>1. attempts * (panel + 10) \in Nat
  BY Products
<1> DEFINE p == attempts * (panel + 10)
<1>2. p \in Nat => 4 * (p + s) + c \in Nat
  <2> HIDE DEF p
  <2> QED OBVIOUS
<1> QED BY <1>1, <1>2 DEF Distance

LEMMA CallGoesOn ==
  ASSUME NEW attempts \in Nat, NEW panel \in Nat, NEW s \in Nat, NEW c \in Nat, NEW d \in Nat, d < c
  PROVE  Distance(attempts, panel, s, d) < Distance(attempts, panel, s, c)
<1> DEFINE p == attempts * (panel + 10)
<1>1. p \in Nat
  BY Products
<1>2. /\ Distance(attempts, panel, s, d) = 4 * (p + s) + d
      /\ Distance(attempts, panel, s, c) = 4 * (p + s) + c
  BY DEF Distance
<1> HIDE DEF p
<1> QED BY <1>1, <1>2

LEMMA StageGoesOn ==
  ASSUME NEW attempts \in Nat, NEW panel \in Nat, NEW s \in Nat, NEW t \in Nat, t < s,
         NEW c \in 0 .. 3, NEW d \in 0 .. 3
  PROVE  Distance(attempts, panel, t, d) < Distance(attempts, panel, s, c)
<1> DEFINE p == attempts * (panel + 10)
<1>1. p \in Nat
  BY Products
<1>2. /\ Distance(attempts, panel, t, d) = 4 * (p + t) + d
      /\ Distance(attempts, panel, s, c) = 4 * (p + s) + c
  BY DEF Distance
<1> HIDE DEF p
<1> QED BY <1>1, <1>2

LEMMA AttemptGoesOn ==
  ASSUME NEW attempts \in Nat, NEW panel \in Nat, NEW s \in Nat, NEW t \in 0 .. panel + 9,
         NEW c \in 0 .. 3, NEW d \in 0 .. 3
  PROVE  Distance(attempts, panel, t, d) < Distance(attempts + 1, panel, s, c)
<1> DEFINE p == attempts * (panel + 10)
<1>1. p \in Nat /\ (attempts + 1) * (panel + 10) = p + (panel + 10)
  BY Products
<1>2. /\ Distance(attempts, panel, t, d) = 4 * (p + t) + d
      /\ Distance(attempts + 1, panel, s, c) = 4 * ((attempts + 1) * (panel + 10) + s) + c
  BY DEF Distance
<1> HIDE DEF p
<1>3. Distance(attempts + 1, panel, s, c) = 4 * (p + (panel + 10) + s) + c
  BY <1>1, <1>2
<1> QED BY <1>1, <1>2, <1>3

LEMMA SetupNumbers ==
  ASSUME TypeOK
  PROVE  /\ setup.repairBudget \in Nat /\ attempt \in Nat /\ setup.repairBudget - attempt \in Nat
         /\ Panel \in Nat /\ reviewer \in 1 .. Panel + 1
BY SetupAssumption DEF TypeOK, Panel

\* What a step may be, as far as its distance goes.
Comes == 
  \/ /\ UNCHANGED <<pc, reviewer, attempt>> /\ CallAhead(phase') < CallAhead(phase)
  \/ /\ UNCHANGED attempt
     /\ StagesAhead(Panel, pc', reviewer') < StagesAhead(Panel, pc, reviewer)
  \/ attempt' = attempt + 1

LEMMA ComesNearer ==
  ASSUME TypeOK, TypeOK', UNCHANGED setup, Comes
  PROVE  Remaining' < Remaining
<1> DEFINE left == setup.repairBudget - attempt
           ahead == StagesAhead(Panel, pc, reviewer)
           then == StagesAhead(Panel, pc', reviewer')
<1>1. /\ left \in Nat /\ Panel \in Nat /\ Panel' = Panel /\ reviewer \in 1 .. Panel + 1
  BY SetupNumbers DEF Panel
<1>2. reviewer' \in 1 .. Panel + 1 /\ setup.repairBudget - attempt' \in Nat
  BY <1>1, SetupAssumption DEF TypeOK, Panel
<1>3. ahead \in 0 .. Panel + 9 /\ then \in 0 .. Panel + 9
  BY <1>1, <1>2, StagesAheadType
<1>4. CallAhead(phase) \in 0 .. 3 /\ CallAhead(phase') \in 0 .. 3
  BY CallAheadType
<1>5. /\ Remaining = Distance(left, Panel, ahead, CallAhead(phase))
      /\ Remaining' = Distance(setup.repairBudget - attempt', Panel, then, CallAhead(phase'))
  BY <1>1 DEF Remaining
<1>6. CASE UNCHANGED <<pc, reviewer, attempt>> /\ CallAhead(phase') < CallAhead(phase)
  <2>1. left = setup.repairBudget - attempt' /\ then = ahead
    BY <1>6
  <2> HIDE DEF left, ahead, then
  <2> QED BY <1>1, <1>3, <1>4, <1>5, <1>6, <2>1, CallGoesOn
<1>7. CASE UNCHANGED attempt /\ then < ahead
  <2>1. left = setup.repairBudget - attempt'
    BY <1>7
  <2> HIDE DEF left, ahead, then
  <2> QED BY <1>1, <1>3, <1>4, <1>5, <1>7, <2>1, StageGoesOn
<1>8. CASE attempt' = attempt + 1
  <2> DEFINE fewer == setup.repairBudget - attempt'
  <2>1. fewer \in Nat /\ left = fewer + 1
    BY <1>1, <1>2, <1>8, SetupNumbers
  <2> HIDE DEF left, ahead, then, fewer
  <2>2. Remaining' = Distance(fewer, Panel, then, CallAhead(phase'))
    BY <1>5 DEF fewer
  <2> QED BY <1>1, <1>3, <1>4, <1>5, <2>1, <2>2, AttemptGoesOn
<1> QED BY <1>6, <1>7, <1>8 DEF Comes

(***************************************************************************)
(* The steps of the engine come nearer to the report.                      *)
(***************************************************************************)
LEMMA WorkIsAhead ==
  ASSUME NEW panel \in Nat, NEW index \in 1 .. panel + 1, NEW stage \in Working \union {"setup"}
  PROVE  StagesAhead(panel, stage, index) \in Nat /\ 2 < StagesAhead(panel, stage, index)
<1> DEFINE far == {3, panel + 5 - index, panel + 5, panel + 6, panel + 7, panel + 8, panel + 9}
<1>1. stage \notin {"reported", "storing", "store"}
  BY DEF Working, RunStages, Gates
<1>2. StagesAhead(panel, stage, index) \in far
  BY <1>1, Zenon DEF StagesAhead
<1>3. \A n \in far : n \in Nat /\ 2 < n
  OBVIOUS
<1> QED BY <1>2, <1>3

LEMMA CallsComeNearer ==
  ASSUME \/ \E now \in Samples : Invoke(now) \/ Start(now) \/ Throw(now)
         \/ \E answer \in Answers : Fulfil(answer)
         \/ TimerFires
  PROVE  Comes /\ UNCHANGED <<setup, aborted>>
<1>1. /\ UNCHANGED <<setup, aborted, pc, reviewer, attempt>>
      /\ \/ phase = "idle" /\ phase' \in {"scheduled", "settled"}
         \/ phase = "scheduled" /\ phase' \in {"running", "settled"}
         \/ phase = "running" /\ phase' = "settled"
  BY Zenon DEF Invoke, Start, Throw, Fulfil, TimerFires, Settle, run
<1> QED BY <1>1 DEF Comes, CallAhead

LEMMA StopsComeNearer ==
  ASSUME TypeOK, pc \in Working \union {"setup"}, pc' \in {"store", "reported"}, UNCHANGED attempt
  PROVE  Comes
<1>1. StagesAhead(Panel, pc, reviewer) \in Nat /\ 2 < StagesAhead(Panel, pc, reviewer)
  BY SetupNumbers, WorkIsAhead
<1>2. /\ pc' = "store" => StagesAhead(Panel, pc', reviewer') = 2
      /\ pc' = "reported" => StagesAhead(Panel, pc', reviewer') = 0
  BY DEF StagesAhead
<1> QED BY <1>1, <1>2 DEF Comes

LEMMA GatesComeNearer ==
  ASSUME TypeOK, NEW stage \in Gates, GatePasses(stage) \/ GateFails(stage) \/ GateBlocks(stage)
  PROVE  Comes
<1>1. pc = stage /\ pc \in Working
  BY DEF GatePasses, GateFails, GateBlocks, Accepted, Arrived, Working, RunStages
<1>2. CASE GatePasses(stage)
  <2>1. /\ pc' = AfterPass(pc) /\ UNCHANGED attempt
        /\ reviewer' = CASE pc = "tests" -> 1
                         [] pc = "review" /\ reviewer < Panel -> reviewer + 1
                         [] OTHER -> reviewer
    BY <1>1, <1>2 DEF GatePasses, Goto, Panel
  <2>2. Panel \in Nat /\ reviewer \in 1 .. Panel + 1
    BY SetupNumbers
  <2>3. CASE pc = "review"
    BY <2>1, <2>2, <2>3 DEF AfterPass, StagesAhead, Comes, Panel
  <2>4. CASE pc \in {"authorizeContext", "staticChecks"}
    BY <2>1, <2>2, <2>4 DEF AfterPass, StagesAhead, Comes
  <2>5. CASE pc = "tests"
    BY <2>1, <2>2, <2>5 DEF AfterPass, StagesAhead, Comes
  <2> QED BY <1>1, <2>3, <2>4, <2>5 DEF Gates
<1>3. CASE GateFails(stage)
  <2>1. \/ attempt' = attempt + 1
        \/ pc' = "store" /\ UNCHANGED attempt
    BY <1>3 DEF GateFails, Goto
  <2> QED BY <1>1, <2>1, StopsComeNearer DEF Comes
<1>4. CASE GateBlocks(stage)
  BY <1>1, <1>4, StopsComeNearer DEF GateBlocks, Goto
<1> QED BY <1>2, <1>3, <1>4

LEMMA AuthorComesNearer ==
  ASSUME TypeOK, Drafted \/ Repaired \/ NotRepaired
  PROVE  Comes
<1>1. pc \in {"draft", "repair"} /\ pc' \in {"staticChecks", "store"} /\ UNCHANGED attempt
  BY DEF Drafted, Repaired, NotRepaired, Accepted, Arrived, Goto
<1>2. Panel \in Nat
  BY SetupNumbers
<1> QED BY <1>1, <1>2 DEF StagesAhead, Comes

LEMMA EndsComeNearer ==
  ASSUME TypeOK,
         \/ \E now \in Samples : Begin(now) \/ Complete(now) \/ OpenStore(now)
         \/ CallStopped \/ AnswerRejected \/ NoStore \/ StoreSettles
  PROVE  Comes
<1>1. ASSUME NEW now \in Samples, Begin(now) PROVE Comes
  <2>1. pc = "setup" /\ pc' \in {"authorizeContext", "reported"} /\ UNCHANGED attempt
    BY <1>1 DEF Begin, Goto
  <2>2. Panel \in Nat
    BY SetupNumbers
  <2> QED BY <2>1, <2>2 DEF StagesAhead, Comes
<1>2. CASE CallStopped \/ AnswerRejected \/ \E now \in Samples : Complete(now)
  <2>1. pc \in Working /\ pc' = "store" /\ UNCHANGED attempt
    BY <1>2 DEF CallStopped, AnswerRejected, Complete, Stop, Goto, Arrived, Working
  <2> QED BY <2>1, StopsComeNearer
<1>3. CASE NoStore \/ StoreSettles \/ \E now \in Samples : OpenStore(now)
  <2>1. /\ \/ pc = "store" /\ pc' \in {"storing", "reported"}
           \/ pc = "storing" /\ pc' = "reported"
        /\ UNCHANGED attempt
    BY <1>3 DEF NoStore, OpenStore, StoreSettles, Arrived, run
  <2> QED BY <2>1 DEF StagesAhead, Comes
<1> QED BY <1>1, <1>2, <1>3

LEMMA EngineComesNearer ==
  ASSUME TypeOK, EngineStep
  PROVE  Comes /\ UNCHANGED <<setup, aborted, abandoned>>
<1>1. UNCHANGED <<setup, aborted, abandoned>>
  BY DEF EngineStep, Begin, Invoke, Start, Complete, OpenStore, GatePasses, GateFails, GateBlocks,
         CallStopped, AnswerRejected, Drafted, Repaired, NotRepaired, NoStore, StoreSettles, run
<1>2. ASSUME NEW now \in Samples, Invoke(now) \/ Start(now)
      PROVE  Comes
  BY <1>2, CallsComeNearer
<1>3. ASSUME NEW now \in Samples, Begin(now) \/ Invoke(now) \/ Start(now) \/ Complete(now) \/ OpenStore(now)
      PROVE  Comes
  BY <1>2, <1>3, EndsComeNearer
<1>4. ASSUME NEW stage \in Gates, GatePasses(stage) \/ GateFails(stage) \/ GateBlocks(stage)
      PROVE  Comes
  BY <1>4, GatesComeNearer
<1>5. CASE CallStopped \/ AnswerRejected \/ NoStore \/ StoreSettles
  BY <1>1, <1>5, EndsComeNearer
<1>6. CASE Drafted \/ Repaired \/ NotRepaired
  BY <1>1, <1>6, AuthorComesNearer
<1> QED BY <1>1, <1>3, <1>4, <1>5, <1>6 DEF EngineStep

(***************************************************************************)
(* What the environment does is paid for: a call that is dropped settles   *)
(* on the spot and is itself settled, late, at most once.                  *)
(***************************************************************************)
Dwindles ==
  /\ IsFiniteSet(abandoned')
  /\ Effort' \in Nat /\ Effort' < Effort
  /\ UNCHANGED LongestRun

LEMMA EffortType ==
  ASSUME TypeOK, IsFiniteSet(abandoned)
  PROVE  /\ Remaining \in Nat /\ Cardinality(abandoned) \in Nat /\ Abort \in {0, 1}
         /\ Effort \in Nat
<1>1. Remaining \in Nat
  <2>1. /\ Panel \in Nat /\ setup.repairBudget - attempt \in Nat /\ reviewer \in 1 .. Panel + 1
    BY SetupNumbers
  <2>2. StagesAhead(Panel, pc, reviewer) \in Nat /\ CallAhead(phase) \in Nat
    BY <2>1, StagesAheadType, CallAheadType
  <2> QED BY <2>1, <2>2, DistanceType DEF Remaining
<1>2. Cardinality(abandoned) \in Nat /\ Abort \in {0, 1}
  BY FS_CardinalityType DEF Abort
<1> HIDE DEF Remaining, Abort
<1> QED BY <1>1, <1>2 DEF Effort

\* The same of the state after a step.
LEMMA EffortTypeAfter == (TypeOK /\ IsFiniteSet(abandoned))' => (Remaining \in Nat /\ Effort \in Nat)'
<1>1. TypeOK /\ IsFiniteSet(abandoned) => Remaining \in Nat /\ Effort \in Nat
  BY EffortType
<1> QED BY <1>1, PTL

LEMMA EngineDwindles ==
  ASSUME TypeOK, TypeOK', IsFiniteSet(abandoned),
         EngineStep \/ (\E answer \in Answers : Fulfil(answer)) \/ (\E now \in Samples : Throw(now))
  PROVE  Dwindles
<1>1. Comes /\ UNCHANGED <<setup, aborted, abandoned>>
  <2>1. CASE EngineStep
    BY <2>1, EngineComesNearer
  <2>2. CASE \/ \E answer \in Answers : Fulfil(answer)
             \/ \E now \in Samples : Throw(now)
    <3>1. Comes /\ UNCHANGED <<setup, aborted>>
      BY <2>2, CallsComeNearer
    <3>2. UNCHANGED abandoned
      BY <2>2 DEF Fulfil, Throw
    <3> QED BY <3>1, <3>2
  <2> QED BY <2>1, <2>2
<1>2. Remaining' < Remaining
  BY <1>1, ComesNearer
<1>3. /\ Remaining \in Nat /\ Remaining' \in Nat /\ Effort' \in Nat
      /\ Cardinality(abandoned) \in Nat /\ Abort \in {0, 1}
  BY <1>1, EffortType, EffortTypeAfter
<1>4. /\ Effort = 2 * Remaining + Cardinality(abandoned) + Abort
      /\ Effort' = 2 * Remaining' + Cardinality(abandoned) + Abort
  BY <1>1 DEF Effort, Abort
<1>5. Effort' < Effort
  BY <1>2, <1>3, <1>4
<1> QED BY <1>1, <1>3, <1>5 DEF Dwindles, LongestRun, Panel

LEMMA DropsDwindle ==
  ASSUME TypeOK, TypeOK', IsFiniteSet(abandoned), TimerFires \/ HostAborts
  PROVE  Dwindles
<1> DEFINE call == [stage |-> pc, attempt |-> attempt, reviewer |-> reviewer]
<1>1. UNCHANGED setup /\ abandoned' \in {abandoned, abandoned \union {call}}
  BY DEF TimerFires, HostAborts, Abandon, run
<1>2. /\ IsFiniteSet(abandoned')
      /\ Cardinality(abandoned') \in {Cardinality(abandoned), Cardinality(abandoned) + 1}
  BY <1>1, FS_AddElement
<1>3. /\ Remaining \in Nat /\ Remaining' \in Nat /\ Effort' \in Nat
      /\ Cardinality(abandoned) \in Nat /\ Abort \in {0, 1}
  BY <1>2, EffortType, EffortTypeAfter
<1>4. /\ Effort = 2 * Remaining + Cardinality(abandoned) + Abort
      /\ Effort' = 2 * Remaining' + Cardinality(abandoned') + Abort'
  BY DEF Effort
<1>5. CASE TimerFires
  <2>1. Comes /\ Abort' = Abort
    BY <1>5, CallsComeNearer DEF Abort
  <2>2. Remaining' < Remaining
    BY <1>1, <2>1, ComesNearer
  <2>3. Effort' < Effort
    BY <1>2, <1>3, <1>4, <2>1, <2>2
  <2> QED BY <1>1, <1>2, <1>3, <2>3 DEF Dwindles, LongestRun, Panel
<1>6. CASE HostAborts
  <2>1. Abort = 1 /\ Abort' = 0
    BY <1>6 DEF HostAborts, Abort
  <2>2. \/ Remaining' < Remaining
        \/ Remaining' = Remaining /\ Cardinality(abandoned') = Cardinality(abandoned)
    <3>1. UNCHANGED <<setup, pc, reviewer, attempt>>
      BY <1>6 DEF HostAborts, run
    <3>2. CASE phase \in {"scheduled", "running"} /\ phase' = "settled"
      <4>1. Comes
        BY <3>1, <3>2 DEF Comes, CallAhead
      <4> QED BY <3>1, <4>1, ComesNearer
    <3>3. CASE UNCHANGED <<phase, abandoned>>
      BY <3>1, <3>3 DEF Remaining, Panel
    <3> QED BY <1>6, <3>2, <3>3 DEF HostAborts, Settle
  <2>3. Effort' < Effort
    BY <1>2, <1>3, <1>4, <2>1, <2>2
  <2> QED BY <1>1, <1>2, <1>3, <2>3 DEF Dwindles, LongestRun, Panel
<1> QED BY <1>5, <1>6

LEMMA LateStepsDwindle ==
  ASSUME TypeOK, TypeOK', IsFiniteSet(abandoned), NEW call \in abandoned,
         LateAnswer(call) \/ \E now \in Samples : LateThrow(call, now)
  PROVE  Dwindles
<1>1. UNCHANGED <<setup, pc, reviewer, attempt, phase, aborted>> /\ abandoned' = abandoned \ {call}
  BY DEF LateAnswer, LateThrow, run
<1>2. IsFiniteSet(abandoned') /\ Cardinality(abandoned') = Cardinality(abandoned) - 1
  BY <1>1, FS_RemoveElement
<1>3. Remaining \in Nat /\ Effort' \in Nat /\ Cardinality(abandoned) \in Nat /\ Abort \in {0, 1}
  BY <1>2, EffortType, EffortTypeAfter
<1>4. /\ Effort = 2 * Remaining + Cardinality(abandoned) + Abort
      /\ Effort' = 2 * Remaining + Cardinality(abandoned') + Abort
  <2>1. Remaining' = Remaining /\ Abort' = Abort
    BY <1>1 DEF Remaining, Abort, Panel
  <2> QED BY <2>1 DEF Effort
<1>5. Effort' < Effort
  BY <1>2, <1>3, <1>4
<1> QED BY <1>1, <1>2, <1>3, <1>5 DEF Dwindles, LongestRun, Panel

LEMMA FirstEffort == Init => IsFiniteSet(abandoned) /\ Effort <= LongestRun
<1> SUFFICES ASSUME Init PROVE IsFiniteSet(abandoned) /\ Effort <= LongestRun
  OBVIOUS
<1> DEFINE budget == setup.repairBudget
           rounds == budget * (Panel + 10)
<1>1. TypeOK
  BY InitIInv DEF IInv
<1>2. abandoned = {} /\ attempt = 0 /\ pc = "setup" /\ phase = "idle"
  BY DEF Init
<1>3. IsFiniteSet(abandoned) /\ Cardinality(abandoned) = 0
  BY <1>2, FS_EmptySet
<1>4. budget \in Nat /\ Panel \in Nat
  BY <1>1, SetupNumbers
<1>5. rounds \in Nat /\ (budget + 1) * (Panel + 10) = rounds + (Panel + 10)
  BY <1>4, Products
<1>6. Remaining = Distance(budget, Panel, Panel + 9, 3)
  <2>1. StagesAhead(Panel, pc, reviewer) = Panel + 9 /\ CallAhead(phase) = 3
    BY <1>2 DEF StagesAhead, CallAhead
  <2>2. budget - attempt = budget
    BY <1>2, <1>4
  <2> QED BY <2>1, <2>2 DEF Remaining
<1>7. Remaining = 4 * (rounds + (Panel + 9)) + 3
  BY <1>6 DEF Distance
<1>8. LongestRun = 8 * (rounds + (Panel + 10))
  BY <1>5 DEF LongestRun
<1>9. Effort = 2 * Remaining + Abort /\ Abort \in {0, 1} /\ Remaining \in Nat
  BY <1>1, <1>3, EffortType DEF Effort
<1> HIDE DEF rounds
<1> QED BY <1>3, <1>4, <1>5, <1>7, <1>8, <1>9

(***************************************************************************)
(* A run is finite: runWorkflow, its adapters, its timer and its host take *)
(* no more steps together than LongestRun says, whatever the answers, the  *)
(* clock, the repair budget and the panel.  The repair loop cannot turn    *)
(* for ever; that the run also gets to its report takes fair scheduling.   *)
(***************************************************************************)
THEOREM RunsAreFinite == Spec => [](Effort \in 0 .. LongestRun) /\ [][Effort' < Effort]_vars
<1> DEFINE Dwindling == IInv /\ IsFiniteSet(abandoned) /\ Effort <= LongestRun
<1>1. Init => Dwindling
  BY InitIInv, FirstEffort
<1>2. ASSUME Dwindling, Next, IInv'
      PROVE  Dwindles \/ UNCHANGED vars
  <2> USE <1>2 DEF IInv
  <2>1. CASE EngineStep \/ (\E answer \in Answers : Fulfil(answer)) \/ (\E now \in Samples : Throw(now))
    BY <2>1, EngineDwindles
  <2>2. CASE TimerFires \/ HostAborts
    BY <2>2, DropsDwindle
  <2>3. ASSUME NEW call \in abandoned, LateAnswer(call) \/ \E now \in Samples : LateThrow(call, now)
        PROVE  Dwindles
    BY <2>3, LateStepsDwindle
  <2>4. CASE Returned
    BY <2>4 DEF Returned
  <2> QED BY <2>1, <2>2, <2>3, <2>4 DEF Next, AdapterStep
<1>3. Dwindling => Effort \in Nat /\ LongestRun \in Nat
  <2> SUFFICES ASSUME Dwindling PROVE Effort \in Nat /\ LongestRun \in Nat
    OBVIOUS
  <2>1. setup.repairBudget + 1 \in Nat /\ Panel + 10 \in Nat /\ Effort \in Nat
    BY SetupNumbers, EffortType DEF IInv
  <2> QED BY <2>1, Products DEF LongestRun
<1>4. Dwindling /\ [Next]_vars => Dwindling' /\ [Effort' < Effort]_vars
  <2> SUFFICES ASSUME Dwindling, [Next]_vars PROVE Dwindling' /\ [Effort' < Effort]_vars
    OBVIOUS
  <2>1. IInv'
    BY NextIInv
  <2>2. CASE UNCHANGED vars
    BY <2>1, <2>2 DEF vars, run, Effort, Remaining, Abort, LongestRun, Panel
  <2>3. CASE Dwindles
    BY <1>3, <2>1, <2>3 DEF Dwindles
  <2> QED BY <1>2, <2>1, <2>2, <2>3
<1>5. Dwindling => Effort \in 0 .. LongestRun
  BY <1>3
<1> QED BY <1>1, <1>4, <1>5, PTL DEF Spec
=============================================================================
