-------------------------- MODULE MCContentConsent --------------------------
(***************************************************************************)
(* Values for model-checking content consent.                              *)
(***************************************************************************)
EXTENDS ContentConsentProperties, TLC

\* Nothing, the limit in two versions, and one byte above it.
MCContents == {<<>>, <<"a", "a">>, <<"b", "b">>, <<"a", "a", "a">>}

ConsentSymmetry == Permutations(Nodes)
=============================================================================
