-------------------------- MODULE CanonicalMeaning --------------------------
(***************************************************************************)
(* What numbers and strings mean.  A number is an integer within the       *)
(* limits, written without superfluous zeros; a string is the scalars      *)
(* whose UTF-16 encoding its units spell.                                  *)
(***************************************************************************)
EXTENDS CanonicalScalars, Integers

Evaluate(digits) ==
  LET upTo[n \in 0..Len(digits)] == IF n = 0 THEN 0 ELSE 10 * upTo[n - 1] + digits[n]
  IN upTo[Len(digits)]

Numbers(token) ==
  LET digits == IF token # <<>> /\ token[1] = -1 THEN Tail(token) ELSE token
  IN IF digits # <<>> /\ (\A i \in DOMAIN digits : digits[i] \in 0..9)
        /\ (Len(digits) > 1 => digits[1] # 0) /\ token # <<-1, 0>>
        /\ Evaluate(digits) <= Evaluate(Largest)
       THEN {<<"num", token>>} ELSE {}

Encoded(scalars) == FlattenSeq([i \in DOMAIN scalars |-> UnitsOf(scalars[i])])

\* What the units spell as code units, if they are well formed one by one.
Spelled(units) == FlattenSeq([i \in DOMAIN units |->
  IF units[i].escaped THEN <<units[i].code>> ELSE UnitsOf(units[i].code)])

Surrogates == High \union Low

Strings(units) ==
  LET codes == {units[i].code : i \in DOMAIN units}
      pairs == {FromPair(h, l) : h \in codes \intersect High, l \in codes \intersect Low}
      scalars == (codes \ Surrogates) \union pairs
      candidates == UNION {[1..n -> scalars] : n \in 0..Len(units)}
  IN IF \E i \in DOMAIN units : ~units[i].escaped /\ units[i].code < Space THEN {}
     ELSE {s \in candidates : Encoded(s) = Spelled(units)}
=============================================================================
