----------------------------- MODULE MCWorkflow -----------------------------
(***************************************************************************)
(* Values for model-checking the workflow engine.                          *)
(***************************************************************************)
EXTENDS WorkflowRefinement, MCContracts, TLC

CONSTANTS
  Modes,       \* the task modes to check
  Stores       \* the report stores a host may configure

SetupsOf(mode, offers, authors, panels) ==
  [mode : {mode}, repairBudget : 0..MaxBudget, requiredReviewers : {2},
   requireReportStore : BOOLEAN, author : authors, reviewers : panels,
   store : Stores, offer : offers]

Panels == {<<"r1", "r2">>}
OddPanels == {<<"r1", "r2">>, <<"r1", "r1">>, <<"r1">>}

EditSetups == IF "edit" \in Modes
  THEN SetupsOf("edit", {NoOffer}, {"author"}, Panels) ELSE {}
ReviewSetups == IF "review" \in Modes
  THEN SetupsOf("review", Offers, {"author"}, Panels) ELSE {}
\* Setups the engine refuses, beside acceptable ones.
OddSetups == IF "odd" \in Modes
  THEN SetupsOf("review", Offers \union {None}, {"author", "r1", None}, OddPanels)
       \union SetupsOf("edit", {NoOffer}, {"author", "r2"}, OddPanels)
  ELSE {}

MCSetups == EditSetups \union ReviewSetups \union OddSetups

Symmetry == Permutations(Admissible)
=============================================================================
