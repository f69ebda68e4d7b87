------------------------- MODULE WorkflowContracts -------------------------
(***************************************************************************)
(* What the workflow engine accepts as data: the statuses an adapter may   *)
(* answer with, the binding its evidence must carry, and the rules that    *)
(* make an answer admissible (workflow/contracts.mjs and the validators of *)
(* workflow/engine.mjs).  Everything here is a pure predicate; a rejected  *)
(* answer is reported under the single code "REJECTED", the particular     *)
(* reason being wording.                                                   *)
(*                                                                         *)
(* A candidate is known by its content.  Its fingerprint is a SHA-256 over *)
(* its normalised files and never over its author, so the content itself   *)
(* stands for the fingerprint (no collisions are assumed to happen).       *)
(***************************************************************************)
EXTENDS Naturals, FiniteSets, Sequences

CONSTANTS
  Contents,     \* the candidate contents an adapter can produce
  Admissible,   \* those inside the task's allowed files, protected ones intact
  RunId,        \* schema version, run id and task fingerprint of this run
  None          \* JavaScript's null

ASSUME ContentAssumption ==
  /\ Admissible \subseteq Contents
  /\ None \notin Contents

AdapterStatuses == {"PASS", "FAIL", "NOT_RUN", "UNAVAILABLE"}

RepairStatuses == {"REPAIRED", "NO_CHANGE", "FAIL", "NOT_RUN", "UNAVAILABLE"}

RunOutcomes == {"COMPLETED", "FAILED", "BLOCKED", "CANCELLED", "TIMED_OUT",
                "REPAIR_LIMIT", "NO_PROGRESS"}

\* Stages whose answer is a verdict on the candidate (or on the context).
Gates == {"authorizeContext", "staticChecks", "tests", "review"}

(***************************************************************************)
(* The identity every piece of evidence has to repeat: this run, the       *)
(* attempt in force and the candidate the adapter was shown.               *)
(***************************************************************************)
Binding(attempt, fingerprint) ==
  [run |-> RunId, attempt |-> attempt, fingerprint |-> fingerprint]

\* Free text is "text" (non-blank), "blank" or "empty".
IsText(value) == value = "text"

\* Slip: a candidate built earlier is trusted without a look at its files.
CandidateTrusted(offer, by) ==
  /\ offer # None
  /\ IF offer.author # None THEN offer.author = by ELSE offer.content \in Admissible

(***************************************************************************)
(* A candidate object offered by `by`: either bare files (author and claim *)
(* are None), or a candidate built earlier that repeats an author and      *)
(* claims a fingerprint, which must both be the real ones.                 *)
(***************************************************************************)
CandidateAccepted(offer, by) ==
  /\ offer # None
  /\ offer.author # None => offer.author = by /\ offer.claim = offer.content
  /\ offer.content \in Admissible

(***************************************************************************)
(* A gate's answer.  Findings are counted; tests also count assertions.    *)
(***************************************************************************)
FindingsAgree(status, findings) ==
  /\ status = "FAIL" => findings > 0
  /\ status # "FAIL" => findings = 0

AssertionsAgree(status, executed, passed) ==
  /\ passed <= executed
  /\ status = "PASS" => executed > 0 /\ passed = executed
  /\ status = "FAIL" => executed > 0 /\ passed < executed
  /\ status \in {"NOT_RUN", "UNAVAILABLE"} => executed = 0 /\ passed = 0

GateAccepted(stage, answer, binding) ==
  /\ answer.schema = stage
  /\ answer.status \in AdapterStatuses
  /\ answer.binding = binding
  /\ IF answer.status = "PASS" THEN answer.reason = "empty" ELSE IsText(answer.reason)
  /\ stage # "authorizeContext" => FindingsAgree(answer.status, answer.findings)
  /\ stage = "tests" => AssertionsAgree(answer.status, answer.executed, answer.passed)
  /\ stage = "review" => IsText(answer.summary)

(***************************************************************************)
(* A draft is bound to the candidate it delivers.  A repair is bound to    *)
(* its new candidate, or to its base when it delivers none, and names the  *)
(* base it started from.                                                   *)
(***************************************************************************)
DraftAccepted(answer, attempt, author) ==
  /\ answer.schema = "draft"
  /\ CandidateAccepted(answer.candidate, author)
  /\ answer.binding = Binding(attempt, answer.candidate.content)
  /\ IsText(answer.note)

RepairAccepted(answer, attempt, base, author) ==
  /\ answer.schema = "repair"
  /\ answer.status \in RepairStatuses
  /\ IF answer.status = "REPAIRED"
       THEN /\ CandidateAccepted(answer.candidate, author)
            /\ answer.binding = Binding(attempt, answer.candidate.content)
       ELSE /\ answer.candidate = None
            /\ answer.binding = Binding(attempt, base)
  /\ answer.base = base
  /\ IsText(answer.note)

(***************************************************************************)
(* A storage receipt repeats the binding, and the outcome and digest of    *)
(* the very report that was offered (sameReport).                          *)
(***************************************************************************)
ReceiptAccepted(answer, binding) ==
  /\ answer.schema = "reportStore"
  /\ answer.status \in AdapterStatuses
  /\ answer.binding = binding
  /\ answer.sameReport
=============================================================================
