----------------------------- MODULE MCContracts -----------------------------
(***************************************************************************)
(* Candidates and answers for model-checking the two schedulers that share *)
(* the contracts: the workflow engine and the checked loop.                *)
(***************************************************************************)
EXTENDS WorkflowContracts

CONSTANTS
  MaxBudget,   \* the largest repair budget, and so the last attempt
  Forms        \* the forms of candidate an author may return

NoOffer == [content |-> None, author |-> None, claim |-> None]

Built(content, author) == [content |-> content, author |-> author, claim |-> content]
Bare(content) == [content |-> content, author |-> None, claim |-> None]
Forged(content) == [content |-> content, author |-> "author", claim |-> None]

Offers ==
     (IF "built" \in Forms THEN {Built(c, "author") : c \in Contents} ELSE {})
  \union (IF "bare" \in Forms THEN {Bare(c) : c \in Contents} ELSE {})
  \union (IF "forged" \in Forms THEN {Forged(c) : c \in Contents} ELSE {})

(***************************************************************************)
(* Answers: for every binding an adapter could repeat, current or stale,   *)
(* each status with fitting evidence, and evidence that contradicts its    *)
(* status.                                                                 *)
(***************************************************************************)
Bindings ==
  {Binding(k, f) : k \in 0..MaxBudget, f \in Contents} \union {Binding(0, None)}

Verdicts(stage) ==
       [schema : {stage}, status : {"PASS"}, binding : Bindings, reason : {"empty"}, findings : {0, 1}]
  \union [schema : {stage}, status : {"FAIL"}, binding : Bindings, reason : {"text"}, findings : {1}]
  \union [schema : {stage}, status : {"NOT_RUN"}, binding : Bindings, reason : {"text"}, findings : {0}]

TestRuns(status, reason, count) ==
  [schema : {"tests"}, status : {status}, binding : Bindings, reason : {reason}, findings : {count},
   executed : {0, 1}, passed : {0, 1}]

Reviews(status, reason, count) ==
  [schema : {"review"}, status : {status}, binding : Bindings, reason : {reason}, findings : {count},
   reviewer : {"r1", "r2"}, summary : {"text"}]

Drafts ==
  [schema : {"draft"}, candidate : Offers, binding : Bindings, note : {"text"}]

Repairs(statuses, offers) ==
  [schema : {"repair"}, status : statuses, candidate : offers, binding : Bindings,
   base : Contents, note : {"text"}]

Receipts ==
  [schema : {"reportStore"}, status : {"PASS", "FAIL"}, binding : Bindings, sameReport : BOOLEAN]

MCAnswers ==
  Verdicts("authorizeContext") \union Verdicts("staticChecks")
    \union TestRuns("PASS", "empty", 0) \union TestRuns("FAIL", "text", 1)
    \union Reviews("PASS", "empty", 0) \union Reviews("FAIL", "text", 1)
    \union Drafts \union Receipts
    \union Repairs({"REPAIRED"}, Offers) \union Repairs({"NO_CHANGE", "FAIL", "UNAVAILABLE"}, {None})
    \union [schema : {"malformed", "uncopyable"}]
=============================================================================
