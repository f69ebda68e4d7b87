-------------------------- MODULE CanonicalScalars --------------------------
(***************************************************************************)
(* The numbers and strings of the canonical JSON codec                     *)
(* (canonical/canonical-json-v1.mjs).  Two escaped UTF-16 surrogates make  *)
(* one scalar.  In the code HighFirst is 0xd800, LowFirst 0xdc00, Width    *)
(* 1 << 10, Astral 0x10000, Space 0x20, and Largest is 9007199254740991.   *)
(***************************************************************************)
EXTENDS Naturals, Sequences, SequencesExt

CONSTANTS
  HighFirst,  \* the first high surrogate
  LowFirst,   \* the first low surrogate
  Width,      \* how many there are of each
  Astral,     \* the first scalar that needs a pair
  Space,      \* scalars below it are written escaped
  Largest     \* the digits of the largest magnitude a number may have

ASSUME ScalarAssumption ==
  /\ HighFirst \in Nat /\ LowFirst \in Nat /\ Astral \in Nat /\ Space \in Nat
  /\ Width \in Nat \ {0}
  /\ HighFirst + Width <= LowFirst
  /\ LowFirst + Width <= Astral
  /\ Space <= HighFirst

ASSUME LargestAssumption ==
  Largest \in Seq(0..9) /\ Largest # <<>> /\ Largest[1] # 0

High == HighFirst..(HighFirst + Width - 1)
Low == LowFirst..(LowFirst + Width - 1)

FromPair(high, low) == Astral + (high - HighFirst) * Width + (low - LowFirst)

\* String.fromCodePoint, as UTF-16 code units.
UnitsOf(scalar) ==
  IF scalar < Astral THEN <<scalar>>
  ELSE <<HighFirst + ((scalar - Astral) \div Width), LowFirst + ((scalar - Astral) % Width)>>

Refuse(i) == [ok |-> FALSE, at |-> i, out |-> <<>>]
Yield(i, out) == [ok |-> TRUE, at |-> i, out |-> out]

(***************************************************************************)
(* Numbers: their source digits, compared by length and then digit by      *)
(* digit.  -1 stands for the minus sign, 10 for a character that is no     *)
(* digit.                                                                  *)
(***************************************************************************)
LexLess(a, b) ==
  \/ IsStrictPrefix(a, b)
  \/ \E i \in DOMAIN a \intersect DOMAIN b :
       a[i] < b[i] /\ \A j \in 1..(i - 1) : a[j] = b[j]

Magnitude(token) == IF token # <<>> /\ token[1] = -1 THEN Tail(token) ELSE token

number(token) ==
  LET digits == Magnitude(token)
  IN /\ digits # <<>> /\ \A i \in DOMAIN digits : digits[i] \in 0..9
     /\ digits[1] = 0 => token = <<0>>
     /\ ~(Len(digits) > Len(Largest) \/ (Len(digits) = Len(Largest) /\ LexLess(Largest, digits)))

(***************************************************************************)
(* Strings: the scalars of their units, from the last one on.  An escaped  *)
(* high surrogate needs an escaped low one behind it.                      *)
(***************************************************************************)
string(units) ==
  LET ending[n \in 0..Len(units)] ==
        LET unit == units[Len(units) - n + 1]
            second == units[Len(units) - n + 2]
            pairs == n > 1 /\ second.escaped /\ second.code \in Low
            then(scalar, s) == [s EXCEPT !.out = <<scalar>> \o @]
        IN IF n = 0 THEN Yield(0, <<>>)
           ELSE CASE ~unit.escaped /\ unit.code < Space -> Refuse(0)
                  [] unit.escaped /\ unit.code \in High ->
                       IF pairs THEN then(FromPair(unit.code, second.code), ending[n - 2]) ELSE Refuse(0)
                  [] unit.escaped /\ unit.code \in Low -> Refuse(0)
                  [] OTHER -> then(unit.code, ending[n - 1])
  IN ending[Len(units)]

\* JSON.stringify of a string.
Spell(scalars) == [i \in DOMAIN scalars |-> [escaped |-> scalars[i] < Space, code |-> scalars[i]]]
Quoted(scalars) == <<"str", Spell(scalars)>>
=============================================================================
