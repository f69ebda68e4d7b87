--------------------------- MODULE MCJournalStore ---------------------------
(***************************************************************************)
(* Symmetry for model-checking the journal store.                          *)
(***************************************************************************)
EXTENDS JournalStoreProperties, TLC

StoreSymmetry == Permutations(Attempts) \union Permutations(Texts)
=============================================================================
