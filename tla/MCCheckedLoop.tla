---------------------------- MODULE MCCheckedLoop ----------------------------
(***************************************************************************)
(* Values for model-checking the checked loop.                             *)
(***************************************************************************)
EXTENDS CheckedLoopProperties, MCContracts, TLC

MCSetups ==
  [mode : {"edit", "review"}, repairBudget : 0..MaxBudget, requiredReviewers : {2},
   requireReportStore : BOOLEAN, author : {"author", "r1"},
   reviewers : {<<"r1", "r2">>, <<"r1", "r1">>, <<"r2">>},
   store : {"absent", "invalid", "callable"}]

\* Fields in every combination, current or stale.
NearBindings == {Binding(k, f) : k \in {0, 1}, f \in {None} \union Contents}

Judgements(stage, reasons, counts, summaries) ==
  [schema : {stage}, status : AdapterStatuses \union {"MAYBE"}, binding : NearBindings,
   reason : reasons, findings : {0, 1}, executed : counts, passed : counts,
   reviewer : {"r1", "r2"}, summary : summaries]

MCEvidence ==
       Judgements("staticChecks", {"empty", "blank", "text"}, {0}, {"text"})
  \union Judgements("tests", {"empty", "text"}, {0, 1, 2}, {"text"})
  \union Judgements("review", {"empty", "text"}, {0}, {"blank", "text"})
  \union [schema : {"draft"}, candidate : Offers \union {None}, binding : NearBindings, note : {"blank", "text"}]
  \union [schema : {"repair"}, status : RepairStatuses \union {"MAYBE"}, candidate : Offers \union {None},
          binding : NearBindings, base : Contents, note : {"text"}]

Symmetry == Permutations(Admissible)
=============================================================================
