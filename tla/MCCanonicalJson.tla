--------------------------- MODULE MCCanonicalJson ---------------------------
(***************************************************************************)
(* A small code space: 0 is NUL, 1 a control character, 2 to 5 letters     *)
(* (2, on its own, not in normal form), 6-7 and 8-9 the surrogates, 10 a   *)
(* character behind them, 11 to 14 those that need a pair.                 *)
(***************************************************************************)
EXTENDS CanonicalJsonProperties

Raw(code) == [escaped |-> FALSE, code |-> code]
Escaped(code) == [escaped |-> TRUE, code |-> code]

MCNotNFC == {<<2>>}
MCLargest == <<3, 5>>
MCCharacters == {-1, 0, 3, 5, 6, 10}
MCUnits == {Raw(1), Raw(3), Raw(12)} \union {Escaped(c) : c \in {0, 3, 6, 7, 8, 9, 10}}

MCTokens ==
  {Mark(m) : m \in {"{", "}", "[", "]", ":", ",", "ws"}}
    \union {<<"lit", "true">>, <<"num", <<3, 5>>>>, <<"num", <<3, 6>>>>}
    \union {<<"str", <<Raw(10)>>>>, <<"str", <<Escaped(10)>>>>, <<"str", <<Escaped(6), Escaped(8)>>>>,
            <<"str", <<Raw(2)>>>>, <<"str", <<Escaped(0)>>>>}

\* An object that has all the members it may have, and a comma.
MCOpenings ==
  {<<Mark("{"), <<"str", <<Raw(4)>>>>, Mark(":"), <<"lit", "true">>, Mark(","),
     <<"str", <<Raw(3)>>>>, Mark(":"), <<"lit", "true">>, Mark(",")>>}
=============================================================================
