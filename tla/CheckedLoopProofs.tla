-------------------------- MODULE CheckedLoopProofs --------------------------
(***************************************************************************)
(* Proofs about the reference scheduler, for every set of setups and       *)
(* answers: its report is honest, it implements WorkflowRun, and its       *)
(* validators judge every answer as the engine's do.                       *)
(***************************************************************************)
EXTENDS CheckedLoopProperties, TLAPS

CandidateGates == {"staticChecks", "tests", "review"}

Entries ==
  [stage : Called \union {"intake", "completion"}, status : AdapterStatuses \union RepairStatuses,
   attempt : Nat, fingerprint : Contents \union {None}, reviewer : STRING \union {None}]

Types ==
  /\ setup \in Setups
  /\ pc \in Called \union {"setup", "completion", "store", "reported"}
  /\ candidate \in Contents \union {None}
  /\ attempt \in Nat
  /\ seen \subseteq Contents
  /\ stages \in Seq(Entries)

(***************************************************************************)
(* How the control variables go together.                                  *)
(***************************************************************************)
Control ==
  /\ pc \notin {"setup", "reported"} => SetupAccepted
  /\ pc = "setup" => outcome = None
  /\ pc = "store" => outcome \in RunOutcomes
  /\ pc \in {"setup", "authorizeContext", "draft"} => candidate = None /\ seen = {}
  /\ pc \in CandidateGates \union {"completion", "repair"} => candidate \in Contents
  /\ pc = "store" /\ outcome = "CANCELLED" => aborted
  /\ pc = "review" => reviewer \in DOMAIN setup.reviewers

(***************************************************************************)
(* What the stage records say: no record is about a later attempt, a       *)
(* repair opens an attempt without records, and each gate is reached       *)
(* through passes of the gates before it.                                  *)
(***************************************************************************)
Trail ==
  /\ \A i \in DOMAIN stages : stages[i].attempt <= attempt
  /\ pc = "repair" => \A i \in DOMAIN stages : stages[i].attempt < attempt
  /\ pc \in {"setup", "authorizeContext", "draft"} =>
       \A i \in DOMAIN stages : stages[i].stage \notin CandidateGates
  /\ pc \in {"tests", "review", "completion"} => Passed(<<"staticChecks", None>>)
  /\ pc \in {"review", "completion"} => Passed(<<"tests", None>>)
  /\ pc = "review" =>
       \A j \in DOMAIN setup.reviewers : j < reviewer => Passed(<<"review", setup.reviewers[j]>>)
  /\ pc = "completion" =>
       \A j \in DOMAIN setup.reviewers : Passed(<<"review", setup.reviewers[j]>>)

IInv == Types /\ Control /\ Trail /\ LoopReportIsHonest

LEMMA InitIInv == Init => IInv
<1> SUFFICES ASSUME Init PROVE IInv
  OBVIOUS
<1>1. Types
  BY DEF Init, Types, Called, Gates
<1>2. Control
  BY DEF Init, Control, CandidateGates
<1>3. Trail
  BY DEF Init, Trail
<1>4. LoopReportIsHonest
  BY DEF Init, LoopReportIsHonest
<1> QED BY <1>1, <1>2, <1>3, <1>4 DEF IInv

(***************************************************************************)
(* A record is added behind those there are; it passes its own gate, if it *)
(* says so about the candidate in force, and no other.                     *)
(***************************************************************************)
LEMMA Recorded ==
  ASSUME Types, NEW stage \in Called \union {"intake", "completion"},
         NEW status \in AdapterStatuses \union RepairStatuses,
         NEW fingerprint \in Contents \union {None}, NEW who \in STRING \union {None},
         Record(stage, status, fingerprint, who)
  PROVE  /\ stages' \in Seq(Entries)
         /\ DOMAIN stages' = DOMAIN stages \union {Len(stages) + 1}
         /\ \A i \in DOMAIN stages : stages'[i] = stages[i] /\ i # Len(stages) + 1
         /\ stages'[Len(stages) + 1] =
              [stage |-> stage, status |-> status, attempt |-> attempt,
               fingerprint |-> fingerprint, reviewer |-> who]
<1> DEFINE entry == [stage |-> stage, status |-> status, attempt |-> attempt,
                     fingerprint |-> fingerprint, reviewer |-> who]
<1>1. entry \in Entries /\ stages \in Seq(Entries)
  BY DEF Types, Entries
<1>2. stages' = Append(stages, entry)
  BY DEF Record
<1> HIDE DEF entry
<1>3. stages' \in Seq(Entries) /\ DOMAIN stages' = DOMAIN stages \union {Len(stages) + 1}
      /\ \A i \in DOMAIN stages : stages'[i] = stages[i] /\ i # Len(stages) + 1
  BY <1>1, <1>2
<1>4. stages'[Len(stages) + 1] = entry
  BY <1>1, <1>2
<1> QED BY <1>3, <1>4 DEF entry

LEMMA PassesAfter ==
  ASSUME Types, NEW stage \in Called \union {"intake", "completion"},
         NEW status \in AdapterStatuses \union RepairStatuses,
         NEW fingerprint \in Contents \union {None}, NEW who \in STRING \union {None},
         Record(stage, status, fingerprint, who), UNCHANGED <<attempt, candidate>>,
         NEW gate
  PROVE  Passed(gate)' <=>
           \/ Passed(gate)
           \/ stage = gate[1] /\ status = "PASS" /\ fingerprint = candidate /\ who = gate[2]
<1> DEFINE entry == [stage |-> stage, status |-> status, attempt |-> attempt,
                     fingerprint |-> fingerprint, reviewer |-> who]
           wanted == [stage |-> gate[1], status |-> "PASS", attempt |-> attempt,
                      fingerprint |-> candidate, reviewer |-> gate[2]]
<1>1. /\ DOMAIN stages' = DOMAIN stages \union {Len(stages) + 1}
      /\ \A i \in DOMAIN stages : stages'[i] = stages[i]
      /\ stages'[Len(stages) + 1] = entry
  BY Recorded
<1>2. entry = wanted <=>
        stage = gate[1] /\ status = "PASS" /\ fingerprint = candidate /\ who = gate[2]
  OBVIOUS
<1>3. Passed(gate) <=> \E i \in DOMAIN stages : stages[i] = wanted
  BY DEF Passed
<1>4. Passed(gate)' <=> \E i \in DOMAIN stages' : stages'[i] = wanted
  BY DEF Passed
<1> HIDE DEF entry, wanted
<1>5. (\E i \in DOMAIN stages' : stages'[i] = wanted) <=>
        (\E i \in DOMAIN stages : stages[i] = wanted) \/ entry = wanted
  BY <1>1
<1> QED BY <1>2, <1>3, <1>4, <1>5

\* Nothing is recorded about an attempt to come.
LEMMA AttemptsAfter ==
  ASSUME IInv, NEW stage \in Called \union {"intake", "completion"},
         NEW status \in AdapterStatuses \union RepairStatuses,
         NEW fingerprint \in Contents \union {None}, NEW who \in STRING \union {None},
         Record(stage, status, fingerprint, who)
  PROVE  \A i \in DOMAIN stages' : stages'[i].attempt \in Nat /\ stages'[i].attempt <= attempt
<1>1. /\ stages' \in Seq(Entries)
      /\ DOMAIN stages' = DOMAIN stages \union {Len(stages) + 1}
      /\ \A i \in DOMAIN stages : stages'[i] = stages[i]
      /\ stages'[Len(stages) + 1] =
           [stage |-> stage, status |-> status, attempt |-> attempt,
            fingerprint |-> fingerprint, reviewer |-> who]
  BY Recorded DEF IInv
<1>2. \A i \in DOMAIN stages' : stages'[i] \in Entries
  BY <1>1
<1>3. \A i \in DOMAIN stages' : stages'[i].attempt \in Nat
  BY <1>2 DEF Entries
<1> QED BY <1>1, <1>3 DEF IInv, Trail, Types

LEMMA NoGateRecord ==
  ASSUME Types, NEW stage \in (Called \union {"intake", "completion"}) \ CandidateGates,
         NEW status \in AdapterStatuses \union RepairStatuses,
         NEW fingerprint \in Contents \union {None}, NEW who \in STRING \union {None},
         Record(stage, status, fingerprint, who),
         \A i \in DOMAIN stages : stages[i].stage \notin CandidateGates
  PROVE  \A i \in DOMAIN stages' : stages'[i].stage \notin CandidateGates
<1>1. /\ DOMAIN stages' = DOMAIN stages \union {Len(stages) + 1}
      /\ \A i \in DOMAIN stages : stages'[i] = stages[i]
      /\ stages'[Len(stages) + 1] =
           [stage |-> stage, status |-> status, attempt |-> attempt,
            fingerprint |-> fingerprint, reviewer |-> who]
  BY Recorded
<1>2. stages'[Len(stages) + 1].stage = stage
  BY <1>1
<1> QED BY <1>1, <1>2

LEMMA Statuses ==
  /\ {"PASS", "FAIL", "NOT_RUN", "UNAVAILABLE"} \subseteq AdapterStatuses \union RepairStatuses
  /\ Gates \subseteq Called
BY DEF AdapterStatuses, RepairStatuses, Called

LEMMA WhoType == ASSUME IInv, pc \in Gates PROVE Who \in STRING \union {None}
<1>1. CASE pc = "review"
  <2>1. setup.reviewers \in Seq(STRING) /\ reviewer \in DOMAIN setup.reviewers
    BY <1>1, SetupAssumption DEF IInv, Types, Control
  <2> QED BY <1>1, <2>1 DEF Who, ReviewerId
<1>2. CASE pc # "review"
  BY <1>2 DEF Who
<1> QED BY <1>1, <1>2

(***************************************************************************)
(* Steps that end the run.                                                 *)
(***************************************************************************)
LEMMA StopStep ==
  ASSUME IInv, NEW why, pc \in Called \union {"completion"}, stop(pc, why), why = "ABORTED" => aborted
  PROVE  IInv'
<1> USE Statuses DEF IInv
<1>1. Record(pc, "UNAVAILABLE", candidate, None) /\ pc' = "store" /\ outcome' = StopOutcome(why)
      /\ UNCHANGED <<setup, candidate, attempt, seen, report, aborted>>
  BY DEF stop
<1>2. Types'
  BY <1>1, Recorded DEF Types
<1>3. Control'
  BY <1>1 DEF Control, StopOutcome, RunOutcomes, SetupAccepted, AdaptersAccepted, Reviewers,
              Called, Gates, CandidateGates, Types
<1>4. Trail'
  BY <1>1, AttemptsAfter DEF Trail, Types
<1> QED BY <1>1, <1>2, <1>3, <1>4 DEF LoopReportIsHonest

LEMMA StopSteps ==
  ASSUME IInv, \/ \E why \in CallStops : Stopped(why)
               \/ \E answer \in Answers : Refused(answer)
               \/ \E why \in GuardStops : Sampled(why, TRUE) /\ pc = "completion" /\ stop("completion", why)
  PROVE  IInv'
<1>1. \A why \in CallStops : why = "ABORTED" => aborted
  BY DEF CallStops, GuardStops
<1> QED BY <1>1, StopStep DEF Stopped, Refused, Fulfilled, CallStops

LEMMA SetupStep == ASSUME IInv, NEW usable \in BOOLEAN, Setup(usable) PROVE IInv'
<1> USE Statuses DEF IInv
<1>1. CASE pc' = "authorizeContext"
  <2>1. Record("intake", "PASS", None, None) /\ SetupAccepted /\ pc = "setup"
        /\ UNCHANGED <<setup, candidate, attempt, seen, report, outcome>>
    BY <1>1 DEF Setup
  <2>2. Types'
    BY <1>1, <2>1, Recorded DEF Types, Called, Gates
  <2>3. Control'
    BY <1>1, <2>1 DEF Control, SetupAccepted, AdaptersAccepted, Reviewers, CandidateGates
  <2>4. Trail'
    <3>1. \A i \in DOMAIN stages' : stages'[i].stage \notin CandidateGates
      BY <2>1, NoGateRecord DEF Trail, CandidateGates
    <3>2. \A i \in DOMAIN stages' : stages'[i].attempt <= attempt
      BY <2>1, AttemptsAfter
    <3> QED BY <1>1, <2>1, <3>1, <3>2 DEF Trail
  <2> QED BY <1>1, <2>2, <2>3, <2>4 DEF LoopReportIsHonest
<1>2. CASE pc' # "authorizeContext"
  <2>1. pc' = "reported" /\ UNCHANGED <<setup, candidate, attempt, seen, stages, outcome>>
        /\ \E why : report' = emptyReport(why)
    BY <1>2 DEF Setup
  <2>2. Types'
    BY <2>1 DEF Types
  <2>3. Control' /\ Trail'
    BY <2>1 DEF Control, Trail, CandidateGates
  <2>4. LoopReportIsHonest'
    BY <2>1 DEF LoopReportIsHonest, emptyReport, Report
  <2> QED BY <2>2, <2>3, <2>4
<1> QED BY <1>1, <1>2

(***************************************************************************)
(* The gates.                                                              *)
(***************************************************************************)
LEMMA GateStep ==
  ASSUME IInv, pc \in Gates, pc' \in {"draft", "tests", "review", "completion"},
         pc' = "draft" <=> pc = "authorizeContext",
         UNCHANGED <<setup, candidate, attempt, seen, outcome, report, aborted>>,
         stages' \in Seq(Entries),
         \A i \in DOMAIN stages' : stages'[i].attempt <= attempt,
         pc' = "draft" => \A i \in DOMAIN stages' : stages'[i].stage \notin CandidateGates,
         pc' # "draft" => Passed(<<"staticChecks", None>>)',
         pc' \in {"review", "completion"} => Passed(<<"tests", None>>)',
         NEW panel, panel = setup.reviewers,
         pc' = "review" =>
           /\ reviewer' \in DOMAIN panel
           /\ \A j \in DOMAIN panel : j < reviewer' => Passed(<<"review", panel[j]>>)',
         pc' = "completion" => \A j \in DOMAIN panel : Passed(<<"review", panel[j]>>)'
  PROVE  IInv'
<1> USE DEF IInv
<1>1. Types'
  BY DEF Types, Called, Gates
<1>2. Control'
  BY DEF Control, CandidateGates, Gates, SetupAccepted, AdaptersAccepted, Reviewers
<1>3. panel = setup'.reviewers
  OBVIOUS
<1>4. Trail'
  BY <1>3 DEF Trail
<1> QED BY <1>1, <1>2, <1>4 DEF LoopReportIsHonest

LEMMA PassesStep == ASSUME IInv, NEW answer, Passes(answer) PROVE IInv'
<1> USE Statuses
<1>1. /\ pc \in Gates /\ Record(pc, "PASS", candidate, Who) /\ Who \in STRING \union {None}
      /\ UNCHANGED <<setup, candidate, attempt, seen, outcome, report, aborted>>
      /\ setup.reviewers \in Seq(STRING) /\ Len(setup.reviewers) \in Nat \ {0}
  BY WhoType, SetupAssumption
     DEF Passes, IInv, Types, Control, SetupAccepted, AdaptersAccepted, Gates
<1>2. candidate \in Contents \union {None} /\ Types
  BY DEF IInv, Types
<1>3. \A gate : Passed(gate)' <=> Passed(gate) \/ (pc = gate[1] /\ Who = gate[2])
  BY <1>1, <1>2, PassesAfter
<1>4. stages' \in Seq(Entries) /\ \A i \in DOMAIN stages' : stages'[i].attempt <= attempt
  BY <1>1, <1>2, AttemptsAfter, Recorded
<1>5. PICK panel : panel = setup.reviewers
  OBVIOUS
<1>6. CASE pc = "authorizeContext"
  <2>1. pc' = "draft"
    BY <1>6 DEF Passes
  <2>2. \A i \in DOMAIN stages' : stages'[i].stage \notin CandidateGates
    <3>1. "authorizeContext" \in (Called \union {"intake", "completion"}) \ CandidateGates
      BY DEF Called, Gates, CandidateGates
    <3>2. \A i \in DOMAIN stages : stages[i].stage \notin CandidateGates
      BY <1>6 DEF IInv, Trail
    <3> QED BY <1>1, <1>2, <1>6, <3>1, <3>2, NoGateRecord
  <2> QED BY <1>1, <1>4, <1>5, <1>6, <2>1, <2>2, GateStep
<1>7. CASE pc = "staticChecks"
  <2>1. pc' = "tests" /\ Passed(<<"staticChecks", None>>)'
    BY <1>1, <1>3, <1>7 DEF Passes, Who
  <2> QED BY <1>1, <1>4, <1>5, <1>7, <2>1, GateStep
<1>8. CASE pc = "tests"
  <2>1. pc' = "review" /\ reviewer' = 1
    BY <1>1, <1>8 DEF Passes
  <2>2. Passed(<<"staticChecks", None>>)' /\ Passed(<<"tests", None>>)'
    BY <1>1, <1>3, <1>8 DEF Who, IInv, Trail
  <2>3. 1 \in DOMAIN panel /\ \A j \in DOMAIN panel : ~(j < 1)
    BY <1>1, <1>5
  <2> QED BY <1>1, <1>4, <1>5, <1>8, <2>1, <2>2, <2>3, GateStep
<1>9. CASE pc = "review"
  <2>1. Passed(<<"staticChecks", None>>)' /\ Passed(<<"tests", None>>)'
    BY <1>3, <1>9 DEF IInv, Trail
  <2>2. reviewer \in DOMAIN panel /\ Who = panel[reviewer]
    BY <1>5, <1>9 DEF Who, ReviewerId, IInv, Control
  <2>3. \A j \in DOMAIN panel : j < reviewer => Passed(<<"review", panel[j]>>)
    BY <1>5, <1>9 DEF IInv, Trail
  <2>4. \A j \in DOMAIN panel : j < reviewer \/ j = reviewer => Passed(<<"review", panel[j]>>)'
    BY <1>3, <1>9, <2>2, <2>3
  <2>5. CASE reviewer < Len(panel)
    <3>1. pc' = "review" /\ reviewer' = reviewer + 1
      BY <1>5, <1>9, <2>5 DEF Passes
    <3>2. reviewer' \in DOMAIN panel /\ \A j \in DOMAIN panel : j < reviewer' => j < reviewer \/ j = reviewer
      BY <1>1, <1>5, <2>2, <2>5, <3>1
    <3> QED BY <1>1, <1>4, <1>5, <1>9, <2>1, <2>4, <3>1, <3>2, GateStep
  <2>6. CASE ~(reviewer < Len(panel))
    <3>1. pc' = "completion"
      BY <1>5, <1>9, <2>6 DEF Passes
    <3>2. \A j \in DOMAIN panel : j < reviewer \/ j = reviewer
      BY <1>1, <1>5, <2>2, <2>6
    <3> QED BY <1>1, <1>4, <1>5, <1>9, <2>1, <2>4, <3>1, <3>2, GateStep
  <2> QED BY <2>5, <2>6
<1> QED BY <1>1, <1>6, <1>7, <1>8, <1>9 DEF Gates

LEMMA FailsStep == ASSUME IInv, NEW answer, FailsOrBlocks(answer) PROVE IInv'
<1>1. /\ pc \in Gates /\ answer.status \in AdapterStatuses
      /\ Record(pc, answer.status, candidate, Who) /\ Who \in STRING \union {None}
      /\ UNCHANGED <<setup, reviewer, candidate, seen, report, aborted>>
  BY WhoType DEF FailsOrBlocks, Admitted, checkEnvelope, Gates
<1>2. stages' \in Seq(Entries)
      /\ \A i \in DOMAIN stages' : stages'[i].attempt \in Nat /\ stages'[i].attempt <= attempt
  BY <1>1, Recorded, AttemptsAfter, Statuses DEF IInv, Types
<1>3. CASE pc' = "repair"
  <2>1. attempt' = attempt + 1 /\ pc # "authorizeContext"
    BY <1>3 DEF FailsOrBlocks
  <2>2. Types'
    BY <1>1, <1>2, <1>3, <2>1 DEF IInv, Types, Called
  <2>3. Control'
    BY <1>1, <1>3, <2>1 DEF IInv, Control, CandidateGates, Gates, SetupAccepted, AdaptersAccepted, Reviewers
  <2>4. Trail'
    BY <1>1, <1>2, <1>3, <2>1 DEF IInv, Types, Trail
  <2> QED BY <1>3, <2>2, <2>3, <2>4 DEF IInv, LoopReportIsHonest
<1>4. CASE pc' # "repair"
  <2>1. pc' = "store" /\ attempt' = attempt /\ outcome' \in {"BLOCKED", "REPAIR_LIMIT", "FAILED"}
    BY <1>4 DEF FailsOrBlocks
  <2>2. Types'
    BY <1>1, <1>2, <2>1 DEF IInv, Types
  <2>3. Control'
    BY <1>1, <2>1 DEF IInv, Control, RunOutcomes, CandidateGates, Gates, SetupAccepted, AdaptersAccepted, Reviewers
  <2>4. Trail'
    BY <1>1, <1>2, <2>1 DEF IInv, Trail
  <2> QED BY <2>1, <2>2, <2>3, <2>4 DEF IInv, LoopReportIsHonest
<1> QED BY <1>3, <1>4

(***************************************************************************)
(* Drafts and repairs.                                                     *)
(***************************************************************************)
LEMMA OfferType ==
  ASSUME NEW answer, CandidateAccepted(answer.candidate, setup.author)
  PROVE  answer.candidate.content \in Contents
BY ContentAssumption DEF CandidateAccepted

LEMMA CheckStep ==
  ASSUME IInv, NEW answer, pc \in {"draft", "repair"}, answer.candidate.content \in Contents,
         Check(answer), stages' \in Seq(Entries),
         \A i \in DOMAIN stages' : stages'[i].attempt <= attempt
  PROVE  IInv'
<1> USE DEF IInv, Check
<1>1. Types'
  BY DEF Types, Called, Gates
<1>2. Control'
  BY DEF Control, CandidateGates, SetupAccepted, AdaptersAccepted, Reviewers
<1>3. Trail'
  BY DEF Trail
<1> QED BY <1>1, <1>2, <1>3 DEF LoopReportIsHonest

LEMMA DraftedStep == ASSUME IInv, NEW answer, Drafted(answer) PROVE IInv'
<1>1. pc = "draft" /\ Check(answer) /\ Record("draft", "PASS", answer.candidate.content, None)
      /\ answer.candidate.content \in Contents
  BY OfferType DEF Drafted, Admitted, DraftAdmitted
<1>2. stages' \in Seq(Entries) /\ \A i \in DOMAIN stages' : stages'[i].attempt <= attempt
  BY <1>1, Recorded, AttemptsAfter, Statuses DEF IInv, Called
<1> QED BY <1>1, <1>2, CheckStep

LEMMA RepairedShape ==
  ASSUME IInv, NEW answer, Repaired(answer)
  PROVE  /\ pc = "repair" /\ answer.status \in RepairStatuses
         /\ answer.candidate # None => answer.candidate.content \in Contents
         /\ \E fingerprint \in Contents \union {None} : Record("repair", answer.status, fingerprint, None)
<1>1. pc = "repair" /\ RepairAdmitted(answer)
  BY DEF Repaired, Admitted
<1>2. answer.candidate # None => answer.candidate.content \in Contents
  BY <1>1, OfferType DEF RepairAdmitted
<1> QED BY <1>1, <1>2 DEF RepairAdmitted, Repaired, IInv, Types

LEMMA RepairedStep == ASSUME IInv, NEW answer, Repaired(answer) PROVE IInv'
<1>1. PICK fingerprint \in Contents \union {None} : Record("repair", answer.status, fingerprint, None)
  BY RepairedShape
<1>2. pc = "repair" /\ answer.status \in RepairStatuses
      /\ (answer.candidate # None => answer.candidate.content \in Contents)
  BY RepairedShape
<1>3. stages' \in Seq(Entries) /\ \A i \in DOMAIN stages' : stages'[i].attempt <= attempt
  BY <1>1, <1>2, Recorded, AttemptsAfter, Statuses DEF IInv, Called
<1>4. CASE Check(answer) /\ answer.candidate # None
  BY <1>2, <1>3, <1>4, CheckStep
<1>5. CASE ~(Check(answer) /\ answer.candidate # None)
  <2>1. pc' = "store" /\ outcome' \in {"NO_PROGRESS", "FAILED", "BLOCKED"}
        /\ UNCHANGED <<setup, reviewer, candidate, attempt, seen, report, aborted>>
    BY <1>5 DEF Repaired
  <2>2. Types'
    BY <1>3, <2>1 DEF IInv, Types
  <2>3. Control'
    BY <1>2, <2>1 DEF IInv, Control, RunOutcomes, CandidateGates, SetupAccepted, AdaptersAccepted, Reviewers
  <2>4. Trail'
    BY <1>3, <2>1 DEF IInv, Trail
  <2> QED BY <2>1, <2>2, <2>3, <2>4 DEF IInv, LoopReportIsHonest
<1> QED BY <1>4, <1>5

(***************************************************************************)
(* Completion and the report.                                              *)
(***************************************************************************)
LEMMA CompletesStep == ASSUME IInv, Completes PROVE IInv'
<1>1. CASE pc' = "store" /\ outcome' = "COMPLETED"
           /\ UNCHANGED <<setup, reviewer, candidate, attempt, seen, code, stages, report, aborted, late>>
  <2>1. pc = "completion"
    BY DEF Completes
  <2> QED BY <1>1, <2>1 DEF IInv, Types, Control, Trail, LoopReportIsHonest, RunOutcomes, CandidateGates,
              SetupAccepted, AdaptersAccepted, Reviewers
<1> QED BY <1>1, StopSteps DEF Completes

\* What a report may say of the run and its storage.
Honest(final) ==
  /\ final.stored =>
       /\ final.receipt.status = "PASS"
       /\ final.receipt.sameReport
       /\ final.outcome = final.workflowOutcome
       /\ final.workflowOutcome # "CANCELLED"
  /\ final.outcome # final.workflowOutcome \/ (setup.requireReportStore /\ ~final.stored) =>
       final.outcome \in {"BLOCKED", "CANCELLED", "TIMED_OUT"}

LEMMA FinishStep == ASSUME IInv, NEW final, Finish(final), Honest(final) PROVE IInv'
<1>1. /\ pc = "store" /\ pc' = "reported" /\ report' = final
      /\ UNCHANGED <<setup, reviewer, candidate, attempt, seen, outcome, code, stages, aborted>>
  BY DEF Finish, run
<1>2. Types' /\ Control' /\ Trail'
  BY <1>1 DEF IInv, Types, Control, Trail, CandidateGates
<1>3. LoopReportIsHonest'
  BY <1>1 DEF LoopReportIsHonest, Honest
<1> QED BY <1>2, <1>3 DEF IInv

LEMMA UnstoredHonest == ASSUME NEW storeCode, NEW receipt PROVE Honest(Unstored(storeCode, receipt))
<1>1. StopOutcome("ABORTED") = "CANCELLED" /\ StopOutcome("DEADLINE_EXCEEDED") = "TIMED_OUT"
  BY DEF StopOutcome
<1>2. ASSUME storeCode \in {"ABORTED", "DEADLINE_EXCEEDED"} PROVE Honest(Unstored(storeCode, receipt))
  BY <1>1, <1>2 DEF Unstored, Honest, Report
<1>3. ASSUME storeCode \notin {"ABORTED", "DEADLINE_EXCEEDED"} PROVE Honest(Unstored(storeCode, receipt))
  BY <1>3 DEF Unstored, Honest, Report
<1> QED BY <1>2, <1>3

LEMMA StoreStep ==
  ASSUME IInv, \/ \E why \in CallStops : StoreStopped(why)
               \/ \E answer \in Answers : StoreAnswers(answer)
               \/ NoStore
  PROVE  IInv'
<1>1. ASSUME NEW why \in CallStops, StoreStopped(why) PROVE IInv'
  BY <1>1, UnstoredHonest, FinishStep DEF StoreStopped
<1>2. ASSUME NEW answer \in Answers, StoreAnswers(answer) PROVE IInv'
  <2>1. CASE ReceiptAdmitted(answer) /\ answer.status = "PASS"
    <3>1. Finish(Report(outcome, code, TRUE, None, answer)) /\ pc = "store" /\ ~aborted
      BY <1>2, <2>1 DEF StoreAnswers, InTime, Finish
    <3>2. outcome # "CANCELLED" /\ answer.sameReport
      BY <2>1, <3>1 DEF IInv, Control, ReceiptAdmitted
    <3>3. Honest(Report(outcome, code, TRUE, None, answer))
      BY <2>1, <3>2 DEF Honest, Report
    <3> QED BY <3>1, <3>3, FinishStep
  <2>2. CASE ~(ReceiptAdmitted(answer) /\ answer.status = "PASS")
    <3>1. \E storeCode, receipt : Finish(Unstored(storeCode, receipt))
      BY <1>2, <2>2 DEF StoreAnswers
    <3> QED BY <3>1, UnstoredHonest, FinishStep
  <2> QED BY <2>1, <2>2
<1>3. CASE NoStore
  <2>1. PICK why : Finish(Report(outcome, code, FALSE, why, None))
    BY <1>3 DEF NoStore
  <2>2. ~setup.requireReportStore
    BY <1>3 DEF NoStore, Finish, IInv, Control, SetupAccepted
  <2>3. Honest(Report(outcome, code, FALSE, why, None))
    BY <2>2 DEF Honest, Report
  <2> QED BY <2>1, <2>3, FinishStep
<1> QED BY <1>1, <1>2, <1>3

LEMMA NextIInv == IInv /\ [Next]_vars => IInv'
<1> SUFFICES ASSUME IInv, [Next]_vars PROVE IInv'
  OBVIOUS
<1>1. CASE UNCHANGED <<run, pc, report>> /\ (aborted => aborted')
  BY <1>1 DEF run, IInv, Types, Control, Trail, Passed, LoopReportIsHonest, SetupAccepted, AdaptersAccepted,
              Reviewers
<1>2. CASE HostAborts \/ Returned \/ UNCHANGED vars
  BY <1>1, <1>2 DEF HostAborts, Returned, vars
<1> QED BY <1>2, SetupStep, StopSteps, PassesStep, FailsStep, DraftedStep, RepairedStep, CompletesStep, StoreStep
        DEF Next

LEMMA Invariant == Spec => []IInv
BY InitIInv, NextIInv, PTL DEF Spec

(***************************************************************************)
(* Storage never makes a run look better than it was.                      *)
(***************************************************************************)
THEOREM LoopReportsAreHonest == Spec => []LoopReportIsHonest
<1>1. IInv => LoopReportIsHonest
  BY DEF IInv
<1> QED BY <1>1, Invariant, PTL

(***************************************************************************)
(* The loop implements WorkflowRun.  Nothing a step records changes the    *)
(* approvals but the PASS of a gate, the verdict comes with the step that  *)
(* leads to the store, and the outcome is published with the report.       *)
(***************************************************************************)
AbstractStep == [Promise!Next]_Promise!vars

Stays == UNCHANGED <<RequiredGates, candidate, seen, Open, Approved, Verdict, Published>>

LEMMA SameGates == ASSUME UNCHANGED setup PROVE UNCHANGED RequiredGates
BY DEF RequiredGates, Reviewers

LEMMA SameApprovals ==
  ASSUME UNCHANGED setup, \A gate \in RequiredGates : Passed(gate)' <=> Passed(gate)
  PROVE  UNCHANGED Approved
BY SameGates DEF Approved

LEMMA GateNames == \A gate \in RequiredGates : gate[1] \in CandidateGates
BY DEF RequiredGates, CandidateGates

\* A record that is no PASS of a gate changes no approval.
LEMMA QuietRecord ==
  ASSUME Types, NEW stage \in Called \union {"intake", "completion"},
         NEW status \in AdapterStatuses \union RepairStatuses,
         NEW fingerprint \in Contents \union {None}, NEW who \in STRING \union {None},
         Record(stage, status, fingerprint, who), UNCHANGED <<setup, attempt, candidate>>,
         status # "PASS" \/ stage \notin CandidateGates
  PROVE  UNCHANGED Approved
<1>1. \A gate \in RequiredGates : Passed(gate)' <=> Passed(gate)
  BY PassesAfter, GateNames
<1> QED BY <1>1, SameApprovals

LEMMA StaysIsStep == Stays => AbstractStep
BY DEF Stays, AbstractStep, Promise!vars

LEMMA OutcomesAreNotNull == \A final \in RunOutcomes : final # None
BY NullAssumption

\* A step to the store concludes the run.
LEMMA ConcludeStep ==
  ASSUME IInv, pc \notin {"store", "reported"}, pc' = "store", outcome' \in RunOutcomes,
         UNCHANGED <<setup, candidate, seen, Approved>>,
         outcome' = "COMPLETED" => Open /\ Approved = RequiredGates
  PROVE  AbstractStep
<1>1. Verdict = None /\ Published = None /\ Verdict' = outcome' /\ Published' = None
  BY DEF Verdict, Published, Concluded
<1>2. Open' = FALSE
  BY DEF Open, Concluded
<1>3. Promise!Conclude(outcome')
  BY <1>1, <1>2, SameGates DEF Promise!Conclude
<1> QED BY <1>3 DEF AbstractStep, Promise!Next

\* The candidate of a draft or repair is presented.
LEMMA PresentStep ==
  ASSUME IInv, NEW answer, pc \in {"draft", "repair"}, Check(answer),
         answer.candidate.content \in Contents \ seen,
         \A gate \in RequiredGates : ~Passed(gate)'
  PROVE  AbstractStep
<1>1. UNCHANGED setup /\ UNCHANGED RequiredGates /\ candidate' = answer.candidate.content
      /\ seen' = seen \union {candidate'} /\ pc' = "staticChecks"
  BY SameGates DEF Check
<1>2. Verdict = None /\ Published = None /\ Verdict' = None /\ Published' = None
  BY <1>1 DEF Verdict, Published, Concluded
<1>3. Open' = TRUE
  BY <1>1, ContentAssumption DEF Open, Concluded
<1>4. Approved' = {}
  BY <1>1 DEF Approved
<1>5. Promise!Present(candidate')
  BY <1>1, <1>2, <1>3, <1>4 DEF Promise!Present
<1> QED BY <1>1, <1>5 DEF AbstractStep, Promise!Next

LEMMA PublishStep ==
  ASSUME IInv, pc \in {"setup", "store"}, pc' = "reported", report'.outcome \in RunOutcomes,
         UNCHANGED <<setup, candidate, attempt, seen, stages, outcome>>,
         \/ pc = "store" /\ (\/ report'.outcome = outcome
                             \/ report'.outcome \in {"BLOCKED", "CANCELLED", "TIMED_OUT"})
         \/ pc = "setup" /\ report'.outcome = "BLOCKED"
  PROVE  AbstractStep
<1>1. Published = None /\ Published' = report'.outcome
  BY DEF Published
<1>2. Open = FALSE /\ Open' = FALSE
  BY DEF Open, Concluded, IInv, Control
<1>3. UNCHANGED Approved
  BY SameApprovals DEF Passed
<1>4. UNCHANGED Verdict /\ (pc = "store" => Verdict = outcome /\ outcome # None)
      /\ (pc = "setup" => candidate = None)
  BY OutcomesAreNotNull DEF Verdict, Concluded, IInv, Control
<1>5. Promise!Publish(report'.outcome)
  BY <1>1, <1>2, <1>3, <1>4, SameGates DEF Promise!Publish
<1> QED BY <1>5 DEF AbstractStep, Promise!Next

LEMMA SetupMaps == ASSUME IInv, NEW usable \in BOOLEAN, Setup(usable) PROVE AbstractStep
<1>1. CASE pc' = "authorizeContext"
  <2>1. Record("intake", "PASS", None, None) /\ pc = "setup"
        /\ UNCHANGED <<setup, candidate, attempt, seen, report, outcome>>
    BY <1>1 DEF Setup
  <2>2. UNCHANGED Approved
    BY <2>1, QuietRecord, Statuses DEF IInv, CandidateGates
  <2>3. UNCHANGED <<Open, Verdict, Published>>
    BY <1>1, <2>1 DEF IInv, Control, Open, Verdict, Published, Concluded
  <2> QED BY <2>1, <2>2, <2>3, SameGates, StaysIsStep DEF Stays
<1>2. CASE pc' # "authorizeContext"
  <2>1. pc = "setup" /\ pc' = "reported" /\ UNCHANGED <<setup, candidate, attempt, seen, stages, outcome>>
        /\ report'.outcome = "BLOCKED"
    BY <1>2 DEF Setup, emptyReport, Report
  <2> QED BY <2>1, PublishStep DEF RunOutcomes
<1> QED BY <1>1, <1>2

LEMMA StopMaps ==
  ASSUME IInv, NEW why, pc \in Called \union {"completion"}, stop(pc, why)
  PROVE  AbstractStep
<1>1. Record(pc, "UNAVAILABLE", candidate, None) /\ pc' = "store" /\ outcome' = StopOutcome(why)
      /\ UNCHANGED <<setup, candidate, attempt, seen>>
  BY DEF stop
<1>2. UNCHANGED Approved
  BY <1>1, QuietRecord, Statuses DEF IInv, Types
<1>3. outcome' \in {"CANCELLED", "TIMED_OUT", "BLOCKED"}
  BY <1>1 DEF StopOutcome
<1>4. pc \notin {"store", "reported"}
  BY DEF Called, Gates
<1> QED BY <1>1, <1>2, <1>3, <1>4, ConcludeStep DEF RunOutcomes

LEMMA PassesMaps == ASSUME IInv, NEW answer, Passes(answer) PROVE AbstractStep
<1>1. /\ pc \in Gates /\ Record(pc, "PASS", candidate, Who) /\ Who \in STRING \union {None}
      /\ UNCHANGED <<setup, candidate, attempt, seen, outcome, report, aborted>>
      /\ pc' \in {"draft", "tests", "review", "completion"} /\ (pc' = "draft" <=> pc = "authorizeContext")
  BY WhoType DEF Passes, Gates
<1>2. candidate \in Contents \union {None} /\ Types
  BY DEF IInv, Types
<1>3. UNCHANGED <<RequiredGates, Verdict, Published>>
  BY <1>1, SameGates DEF Verdict, Published, Concluded, Gates
<1>4. CASE pc = "authorizeContext"
  <2>1. UNCHANGED Approved
    BY <1>1, <1>2, <1>4, QuietRecord, Statuses DEF CandidateGates
  <2>2. UNCHANGED Open
    BY <1>1, <1>4 DEF IInv, Control, Open
  <2> QED BY <1>1, <1>3, <2>1, <2>2, StaysIsStep DEF Stays
<1>5. CASE pc # "authorizeContext"
  <2>1. PICK gate : gate = <<pc, Who>>
    OBVIOUS
  <2>2. gate \in RequiredGates
    BY <1>1, <1>5, <2>1 DEF Gates, Who, ReviewerId, RequiredGates, Reviewers, IInv, Control
  <2>3. \A g \in RequiredGates : Passed(g)' <=> Passed(g) \/ g = gate
    <3>1. \A g : Passed(g)' <=> Passed(g) \/ (pc = g[1] /\ Who = g[2])
      BY <1>1, <1>2, PassesAfter, Statuses
    <3>2. \A g \in RequiredGates : g = <<g[1], g[2]>>
      BY DEF RequiredGates
    <3> QED BY <2>1, <3>1, <3>2
  <2>4. Approved' = Approved \union {gate}
    BY <1>3, <2>2, <2>3 DEF Approved
  <2>5. Open = TRUE /\ Open' = TRUE
    BY <1>1, <1>5, ContentAssumption DEF IInv, Control, Open, Concluded, CandidateGates, Gates
  <2>6. CASE gate \in Approved
    BY <1>1, <1>3, <2>4, <2>5, <2>6, StaysIsStep DEF Stays
  <2>7. CASE gate \notin Approved
    <3>1. Promise!Approve(gate)
      BY <1>1, <1>3, <2>2, <2>4, <2>5, <2>7 DEF Promise!Approve
    <3> QED BY <2>2, <3>1 DEF AbstractStep, Promise!Next
  <2> QED BY <2>6, <2>7
<1> QED BY <1>4, <1>5

LEMMA FailsMaps == ASSUME IInv, NEW answer, FailsOrBlocks(answer) PROVE AbstractStep
<1>1. /\ pc \in Gates /\ answer.status \in AdapterStatuses /\ answer.status # "PASS"
      /\ Record(pc, answer.status, candidate, Who) /\ Who \in STRING \union {None}
      /\ UNCHANGED <<setup, candidate, seen, report>>
  BY WhoType DEF FailsOrBlocks, Admitted, checkEnvelope, Gates
<1>2. CASE pc' = "repair"
  <2>1. attempt' = attempt + 1 /\ pc # "authorizeContext"
    BY <1>2 DEF FailsOrBlocks
  <2>2. \A i \in DOMAIN stages' : stages'[i].attempt \in Nat /\ stages'[i].attempt <= attempt
    BY <1>1, AttemptsAfter, Statuses DEF IInv, Types
  <2>3. \A gate : ~Passed(gate)'
    BY <2>1, <2>2 DEF Passed, IInv, Types
  <2>4. Approved' = {}
    BY <2>3 DEF Approved
  <2>5. Open = TRUE /\ Open' = FALSE
    BY <1>1, <1>2, <2>1, ContentAssumption DEF IInv, Control, Open, Concluded, CandidateGates, Gates
  <2>6. UNCHANGED <<Verdict, Published>>
    BY <1>1, <1>2 DEF Verdict, Published, Concluded, Gates
  <2>7. Promise!Withdraw
    BY <1>1, <2>4, <2>5, <2>6, SameGates DEF Promise!Withdraw
  <2> QED BY <2>7 DEF AbstractStep, Promise!Next
<1>3. CASE pc' # "repair"
  <2>1. pc' = "store" /\ attempt' = attempt /\ outcome' \in {"BLOCKED", "REPAIR_LIMIT", "FAILED"}
    BY <1>3 DEF FailsOrBlocks
  <2>2. UNCHANGED Approved
    BY <1>1, <2>1, QuietRecord, Statuses DEF IInv, Types
  <2> QED BY <1>1, <2>1, <2>2, ConcludeStep DEF Gates, RunOutcomes
<1> QED BY <1>2, <1>3

LEMMA DraftedMaps == ASSUME IInv, NEW answer, Drafted(answer) PROVE AbstractStep
<1>1. pc = "draft" /\ Check(answer) /\ Record("draft", "PASS", answer.candidate.content, None)
      /\ answer.candidate.content \in Contents
  BY OfferType DEF Drafted, Admitted, DraftAdmitted
<1>2. \A i \in DOMAIN stages : stages[i].stage \notin CandidateGates
  BY <1>1 DEF IInv, Trail
<1>3. \A i \in DOMAIN stages' : stages'[i].stage \notin CandidateGates
  BY <1>1, <1>2, NoGateRecord, Statuses DEF IInv, Called, CandidateGates
<1>4. \A gate \in RequiredGates : ~Passed(gate)'
  BY <1>3, GateNames DEF Passed
<1> QED BY <1>1, <1>4, PresentStep DEF IInv, Control

LEMMA RepairedMaps == ASSUME IInv, NEW answer, Repaired(answer) PROVE AbstractStep
<1>1. PICK fingerprint \in Contents \union {None} : Record("repair", answer.status, fingerprint, None)
  BY RepairedShape
<1>2. pc = "repair" /\ answer.status \in RepairStatuses
      /\ (answer.candidate # None => answer.candidate.content \in Contents)
  BY RepairedShape
<1>3. CASE Check(answer) /\ answer.candidate # None /\ ~NoProgress(answer)
  <2>1. /\ DOMAIN stages' = DOMAIN stages \union {Len(stages) + 1}
        /\ \A i \in DOMAIN stages : stages'[i] = stages[i]
        /\ stages'[Len(stages) + 1] =
             [stage |-> "repair", status |-> answer.status, attempt |-> attempt,
              fingerprint |-> fingerprint, reviewer |-> None]
    <3>1. Types /\ "repair" \in Called \union {"intake", "completion"} /\ None \in STRING \union {None}
          /\ answer.status \in AdapterStatuses \union RepairStatuses
      BY <1>2 DEF IInv, Called
    <3> QED BY <1>1, <3>1, Recorded
  <2>2. \A i \in DOMAIN stages : stages[i].attempt < attempt
    BY <1>2 DEF IInv, Trail
  <2>3. \A gate \in RequiredGates : ~Passed(gate)'
    <3> SUFFICES ASSUME NEW gate \in RequiredGates, NEW i \in DOMAIN stages',
                        stages'[i] = [stage |-> gate[1], status |-> "PASS", attempt |-> attempt',
                                      fingerprint |-> candidate', reviewer |-> gate[2]]
                 PROVE  FALSE
      BY DEF Passed
    <3>1. attempt' = attempt /\ attempt \in Nat
      BY <1>3 DEF Check, IInv, Types
    <3>2. CASE i \in DOMAIN stages
      BY <2>1, <2>2, <3>1, <3>2
    <3>3. CASE i = Len(stages) + 1
      BY <2>1, <3>3, GateNames DEF CandidateGates
    <3> QED BY <2>1, <3>2, <3>3
  <2>4. answer.candidate.content \in Contents \ seen
    BY <1>2, <1>3 DEF NoProgress
  <2> QED BY <1>2, <1>3, <2>3, <2>4, PresentStep
<1>4. CASE ~(Check(answer) /\ answer.candidate # None /\ ~NoProgress(answer))
  <2>1. pc' = "store" /\ outcome' \in {"NO_PROGRESS", "FAILED", "BLOCKED"}
        /\ UNCHANGED <<setup, candidate, attempt, seen>>
    BY <1>4 DEF Repaired
  <2>2. UNCHANGED Approved
    BY <1>1, <1>2, <2>1, QuietRecord, Statuses DEF IInv, Called, CandidateGates
  <2> QED BY <1>2, <2>1, <2>2, ConcludeStep DEF RunOutcomes
<1> QED BY <1>3, <1>4

LEMMA CompletesMaps == ASSUME IInv, Completes PROVE AbstractStep
<1>1. CASE pc' = "store" /\ outcome' = "COMPLETED"
           /\ UNCHANGED <<setup, reviewer, candidate, attempt, seen, code, stages, report, aborted, late>>
  <2>1. pc = "completion"
    BY DEF Completes
  <2>2. UNCHANGED Approved
    BY <1>1, SameApprovals DEF Passed
  <2>3. \A gate \in RequiredGates : Passed(gate)
    BY <2>1 DEF RequiredGates, Reviewers, IInv, Trail
  <2>4. Open /\ Approved = RequiredGates
    BY <2>1, <2>3, ContentAssumption DEF Open, Concluded, Approved, IInv, Control
  <2> QED BY <1>1, <2>1, <2>2, <2>4, ConcludeStep DEF RunOutcomes
<1>2. CASE \E why \in GuardStops : Sampled(why, TRUE) /\ stop("completion", why)
  <2>1. pc = "completion"
    BY DEF Completes
  <2> QED BY <1>2, <2>1, StopMaps
<1> QED BY <1>1, <1>2 DEF Completes

LEMMA StoreMaps ==
  ASSUME IInv, \/ \E why \in CallStops : StoreStopped(why)
               \/ \E answer \in Answers : StoreAnswers(answer)
               \/ NoStore
  PROVE  AbstractStep
<1>1. PICK final : Finish(final) /\ (final.outcome = outcome \/ final.outcome \in {"BLOCKED", "CANCELLED", "TIMED_OUT"})
  <2>1. \A storeCode, receipt :
          \/ Unstored(storeCode, receipt).outcome = outcome
          \/ Unstored(storeCode, receipt).outcome \in {"BLOCKED", "CANCELLED", "TIMED_OUT"}
    BY DEF Unstored, StopOutcome, Report
  <2>2. \A storeCode, stored, receipt : Report(outcome, code, stored, storeCode, receipt).outcome = outcome
    BY DEF Report
  <2>3. CASE \E why \in CallStops : StoreStopped(why)
    BY <2>1, <2>3 DEF StoreStopped
  <2>4. CASE \E answer \in Answers : StoreAnswers(answer)
    BY <2>1, <2>2, <2>4 DEF StoreAnswers
  <2>5. CASE NoStore
    BY <2>2, <2>5 DEF NoStore
  <2> QED BY <2>3, <2>4, <2>5
<1>2. pc = "store" /\ pc' = "reported" /\ report' = final
      /\ UNCHANGED <<setup, candidate, attempt, seen, stages, outcome>>
  BY <1>1 DEF Finish, run
<1>3. outcome \in RunOutcomes
  BY <1>2 DEF IInv, Control
<1> QED BY <1>1, <1>2, <1>3, PublishStep DEF RunOutcomes

LEMMA StutterMaps ==
  ASSUME UNCHANGED <<run, pc, report>>
  PROVE  AbstractStep
<1>1. UNCHANGED <<setup, candidate, attempt, seen, stages, outcome>>
  BY DEF run
<1>2. UNCHANGED Approved
  BY <1>1, SameApprovals DEF Passed
<1>3. UNCHANGED <<Open, Verdict, Published>>
  BY <1>1 DEF Open, Verdict, Published, Concluded
<1> QED BY <1>1, <1>2, <1>3, SameGates, StaysIsStep DEF Stays

LEMMA NextMaps == IInv /\ [Next]_vars => AbstractStep
<1> SUFFICES ASSUME IInv, [Next]_vars PROVE AbstractStep
  OBVIOUS
<1>1. CASE HostAborts \/ Returned \/ UNCHANGED vars
  BY <1>1, StutterMaps DEF HostAborts, Returned, vars, run
<1>2. ASSUME NEW why, Stopped(why) PROVE AbstractStep
  BY <1>2, StopMaps DEF Stopped
<1>3. ASSUME NEW answer, Refused(answer) PROVE AbstractStep
  BY <1>3, StopMaps DEF Refused, Fulfilled
<1> QED BY <1>1, <1>2, <1>3, SetupMaps, PassesMaps, FailsMaps, DraftedMaps, RepairedMaps, CompletesMaps, StoreMaps
        DEF Next

(***************************************************************************)
(* The checked loop keeps the promise of WorkflowRun, for every policy,    *)
(* panel of reviewers and behaviour of adapters, clock and host: it never  *)
(* completes on approvals of another candidate or attempt, and it never    *)
(* presents a candidate twice.                                             *)
(***************************************************************************)
THEOREM LoopKeepsThePromise == Spec => LoopImplementsRun
<1>1. Init => Promise!Init
  <2> SUFFICES ASSUME Init PROVE Promise!Init
    OBVIOUS
  <2>1. Open = FALSE /\ Verdict = None /\ Published = None
    BY DEF Init, Open, Verdict, Published, Concluded
  <2>2. Approved = {}
    BY DEF Init, Approved, Passed
  <2> QED BY <2>1, <2>2 DEF Init, Promise!Init
<1>2. IInv /\ [Next]_vars => [Promise!Next]_Promise!vars
  BY NextMaps DEF AbstractStep
<1> QED BY <1>1, <1>2, Invariant, PTL DEF Spec, LoopImplementsRun, Promise!Spec

(***************************************************************************)
(* The validators.                                                         *)
(***************************************************************************)
LEMMA CountsAlike ==
  ASSUME NEW answer, answer.status \in AdapterStatuses, answer.executed \in Nat, answer.passed \in Nat
  PROVE  CountsAgree(answer) <=> AssertionsAgree(answer.status, answer.executed, answer.passed)
<1>1. CASE answer.status = "PASS"
  BY <1>1 DEF CountsAgree, AssertionsAgree
<1>2. CASE answer.status = "FAIL"
  BY <1>2 DEF CountsAgree, AssertionsAgree
<1>3. CASE answer.status \in {"NOT_RUN", "UNAVAILABLE"}
  BY <1>3 DEF CountsAgree, AssertionsAgree
<1> QED BY <1>1, <1>2, <1>3 DEF AdapterStatuses

\* The loop's handwritten validators admit exactly what the engine's do.
THEOREM ValidatorsAgree == Spec => []JudgesAlike
<1>1. JudgesAlike
  <2> SUFFICES ASSUME pc \in Called, NEW answer \in Evidence, answer.schema = pc
               PROVE  Admitted(answer) <=> EngineAccepts(answer)
    BY DEF JudgesAlike
  <2>1. CASE pc = "draft"
    <3>1. pc # "repair" /\ pc \notin Gates
      BY <2>1 DEF Gates
    <3>2. Admitted(answer) = DraftAdmitted(answer)
          /\ EngineAccepts(answer) = DraftAccepted(answer, attempt, setup.author)
      BY <2>1, <3>1 DEF Admitted, EngineAccepts
    <3>3. DraftAdmitted(answer) <=> DraftAccepted(answer, attempt, setup.author)
      BY DEF DraftAdmitted, DraftAccepted, IsText
    <3> QED BY <3>2, <3>3
  <2>2. CASE pc = "repair"
    <3>1. RepairAdmitted(answer) <=> RepairAccepted(answer, attempt, candidate, setup.author)
      <4>1. CASE answer.status = "REPAIRED"
        BY <4>1 DEF RepairAdmitted, RepairAccepted, CandidateAccepted, IsText
      <4>2. CASE answer.status # "REPAIRED"
        BY <4>2 DEF RepairAdmitted, RepairAccepted, IsText
      <4> QED BY <4>1, <4>2
    <3>2. pc # "draft" /\ pc \notin Gates
      BY <2>2 DEF Gates
    <3>3. Admitted(answer) = RepairAdmitted(answer)
          /\ EngineAccepts(answer) = RepairAccepted(answer, attempt, candidate, setup.author)
      BY <2>2, <3>2 DEF Admitted, EngineAccepts
    <3> QED BY <3>1, <3>3
  <2>3. CASE pc \in Gates
    <3> DEFINE binding == Binding(attempt, candidate)
    <3>1. /\ answer.reason \in {"empty", "blank", "text"}
          /\ pc # "authorizeContext" => answer.findings \in Nat
          /\ pc = "tests" => answer.executed \in Nat /\ answer.passed \in Nat
      BY <2>3, EvidenceAssumption
    <3>2. ASSUME answer.status \in AdapterStatuses
          PROVE  /\ (answer.reason = "empty" <=> answer.status = "PASS") /\ answer.reason # "blank"
                   <=> IF answer.status = "PASS" THEN answer.reason = "empty" ELSE answer.reason = "text"
                 /\ pc # "authorizeContext" =>
                      ((answer.findings > 0 <=> answer.status = "FAIL")
                         <=> FindingsAgree(answer.status, answer.findings))
                 /\ pc = "tests" =>
                      (CountsAgree(answer) <=> AssertionsAgree(answer.status, answer.executed, answer.passed))
      <4>1. (answer.reason = "empty" <=> answer.status = "PASS") /\ answer.reason # "blank"
              <=> IF answer.status = "PASS" THEN answer.reason = "empty" ELSE answer.reason = "text"
        BY <3>1
      <4>2. pc # "authorizeContext" =>
              ((answer.findings > 0 <=> answer.status = "FAIL")
                 <=> FindingsAgree(answer.status, answer.findings))
        BY <3>1 DEF FindingsAgree
      <4> QED BY <3>1, <3>2, <4>1, <4>2, CountsAlike
    <3>3. checkEnvelope(answer, pc, binding, ReviewerId)
            <=> GateAccepted(pc, answer, binding) /\ (pc = "review" => answer.reviewer = ReviewerId)
      BY <3>2 DEF checkEnvelope, GateAccepted, IsText
    <3>4. pc # "draft" /\ pc # "repair"
      BY <2>3 DEF Gates
    <3>5. Admitted(answer) = checkEnvelope(answer, pc, binding, ReviewerId)
      BY <3>4 DEF Admitted
    <3>6. EngineAccepts(answer) =
            (GateAccepted(pc, answer, binding) /\ (pc = "review" => answer.reviewer = ReviewerId))
      BY <2>3, <3>4 DEF EngineAccepts
    <3> QED BY <3>3, <3>5, <3>6
  <2> QED BY <2>1, <2>2, <2>3 DEF Called
<1> QED BY <1>1, PTL
=============================================================================
