----------------------- MODULE CanonicalJsonProperties -----------------------
(***************************************************************************)
(* The codec against a definition of what a text means: an independent,    *)
(* declarative reading of JSON, over every text that can be built token by *)
(* token up to the first refusal, and every number and string built        *)
(* character by character.                                                 *)
(***************************************************************************)
EXTENDS CanonicalJson, CanonicalMeaning, FiniteSets

CONSTANTS
  Tokens,      \* what texts are built from
  Characters,  \* what numbers are built from
  Units,       \* what strings are built from
  Openings,    \* beginnings of longer texts
  MaxTokens, MaxCharacters,
  MaxMore      \* how far an opening is continued

VARIABLE text

\* Every token of a text of well-formed scalars.
Punctuation == {"{", "}", "[", "]", ":", ",", "ws"}
Literals == {"true", "false", "null"}
Scalars == (0..(Astral + Width * Width - 1)) \ Surrogates
TextUnits == {u \in [escaped : BOOLEAN, code : Nat] : IF u.escaped THEN u.code < Astral ELSE u.code \in Scalars}
Token ==
  {Mark(p) : p \in Punctuation} \union ({"lit"} \X Literals)
    \union ({"num"} \X Seq(Int)) \union ({"str"} \X Seq(TextUnits))

ASSUME TextAssumption ==
  /\ Tokens \subseteq Token
  /\ \A opening \in Openings : opening \in Seq(Token)
  /\ Characters \subseteq Int
  /\ Units \subseteq TextUnits

TextInit == text \in Openings \union {<<>>}

Continuable(r) == r.ok \/ r.at > Len(text)

\* A text is continued while the codec has not refused what is there.  Two
\* numbers side by side would be one number.
AddToken ==
  /\ \/ Len(text) < MaxTokens
     \/ \E opening \in Openings : IsPrefix(opening, text) /\ Len(text) < Len(opening) + MaxMore
  /\ Continuable(canonicalizeJSONV1(text))
  /\ \E token \in Tokens :
       /\ text # <<>> => ~(token[1] = "num" /\ Last(text)[1] = "num")
       /\ text' = Append(text, token)

\* A text that is one number or one string is written out further.
AddCharacter ==
  /\ Len(text) <= 1
  /\ \/ \E character \in Characters :
          \/ text = <<>> /\ text' = <<<<"num", <<character>>>>>>
          \/ /\ text # <<>> /\ text[1][1] = "num" /\ Len(text[1][2]) < MaxCharacters
             /\ text' = <<<<"num", Append(text[1][2], character)>>>>
     \/ \E unit \in Units :
          \/ text = <<>> /\ text' = <<<<"str", <<unit>>>>>>
          \/ /\ text # <<>> /\ text[1][1] = "str" /\ Len(text[1][2]) < MaxCharacters
             /\ text' = <<<<"str", Append(text[1][2], unit)>>>>

TextNext == AddToken \/ AddCharacter

TextSpec == TextInit /\ [][TextNext]_text

(***************************************************************************)
(* Meanings, level by level: what a text means from one place up to        *)
(* another.  White space around it does not matter.                        *)
(***************************************************************************)
Positions(t) == 1..(Len(t) + 1)
Spans(t) == Positions(t) \X Positions(t)

Blank(t, i, j) == \A k \in i..(j - 1) : t[k][1] = "ws"

Bare(t, i, j) ==
  {p \in (i..j) \X (i..j) :
     /\ p[1] < p[2] /\ t[p[1]][1] # "ws" /\ t[p[2] - 1][1] # "ws"
     /\ Blank(t, i, p[1]) /\ Blank(t, p[2], j)}

\* What a list of parts can mean that begins at i and ends before j.
Lists(t, parts, i) ==
  LET upTo[j \in (i - 1)..(Len(t) + 1)] ==
        IF j < i THEN {<<>>}
        ELSE UNION {{Append(l, m) : l \in upTo[c], m \in parts[<<c + 1, j>>]}
                      : c \in {i - 1} \union {k \in i..(j - 1) : t[k][1] = ","}}
  IN upTo

Keys(token) ==
  IF token[1] # "str" THEN {}
  ELSE {s \in Strings(token[2]) : s \notin NotNFC /\ \A i \in DOMAIN s : s[i] # 0}

\* A key, a colon and a value.
Members(t, inner) ==
  [span \in Spans(t) |->
     UNION {Keys(t[p[1]]) \X inner[<<p[2] + 1, span[2]>>] :
              p \in {q \in (span[1]..(span[2] - 1)) \X (span[1]..(span[2] - 1)) :
                       /\ q[1] < q[2] /\ t[q[2]][1] = ":"
                       /\ Blank(t, span[1], q[1]) /\ Blank(t, q[1] + 1, q[2])}}]

Simple(token) ==
  CASE token[1] = "num" -> Numbers(token[2])
    [] token[1] = "str" -> {<<"str", s>> : s \in Strings(token[2])}
    [] token[1] = "lit" -> {token}
    [] OTHER -> {}

Distinct(members) == \A i, j \in DOMAIN members : members[i][1] = members[j][1] => i = j

\* What is between the brackets at i and j - 1.
Enclosed(t, inner, i, j) ==
  LET empty == IF Blank(t, i + 1, j - 1) THEN {<<>>} ELSE {}
  IN IF t[i][1] = "[" /\ t[j - 1][1] = "]"
       THEN {<<"array", l>> : l \in empty \union Lists(t, inner, i + 1)[j - 1]}
     ELSE IF t[i][1] = "{" /\ t[j - 1][1] = "}"
       THEN {<<"object", Range(l)>> : l \in empty \union
               {m \in Lists(t, Members(t, inner), i + 1)[j - 1] : Len(m) <= ObjectMembers /\ Distinct(m)}}
     ELSE {}

Levels(t) ==
  LET upTo[room \in 0..Depth] ==
        LET inner == IF room = 0 THEN <<>> ELSE upTo[room - 1]
        IN [span \in Spans(t) |->
              UNION {IF p[2] = p[1] + 1 THEN Simple(t[p[1]])
                     ELSE IF room = 0 THEN {}
                     ELSE Enclosed(t, inner, p[1], p[2]) : p \in Bare(t, span[1], span[2])}]
  IN upTo

Meanings(t) == Levels(t)[Depth][<<1, Len(t) + 1>>]

(***************************************************************************)
(* The one spelling of a meaning: members by key, nothing between tokens.  *)
(***************************************************************************)
Data(nested) ==
  ({"num"} \X Seq(Int)) \union ({"str"} \X Seq(Nat)) \union ({"lit"} \X Literals)
    \union ({"array"} \X Seq(nested)) \union ({"object"} \X SUBSET (Seq(Nat) \X nested))

InKeyOrder(members) ==
  CHOOSE l \in [1..Cardinality(members) -> members] :
    \A i, j \in DOMAIN l : i < j => LexLess(l[i][1], l[j][1])

Spelled1(meaning, inner) ==
  CASE meaning[1] \in {"num", "lit"} -> <<meaning>>
    [] meaning[1] = "str" -> <<Quoted(meaning[2])>>
    [] meaning[1] = "array" -> Array([i \in DOMAIN meaning[2] |-> inner[meaning[2][i]]])
    [] meaning[1] = "object" ->
         LET l == InKeyOrder(meaning[2])
         IN <<Mark("{")>> \o Joined([i \in DOMAIN l |-> Member(l[i][1], inner[l[i][2]])]) \o <<Mark("}")>>

Spellings ==
  LET upTo[room \in 0..Depth] ==
        LET inner == IF room = 0 THEN <<>> ELSE upTo[room - 1]
        IN [m \in Data(DOMAIN inner) |-> Spelled1(m, inner)]
  IN upTo

Spelling(meaning) == Spellings[Depth][meaning]

\* r is what the codec should make of the text t.
Faithful(t, r) ==
  LET meanings == IF Len(t) > Bytes THEN {} ELSE Meanings(t)
  IN /\ r.ok <=> meanings # {}
     /\ r.ok => /\ meanings = Meanings(r.out)
                /\ \A meaning \in meanings : r.out = Spelling(meaning)
                /\ Len(r.out) <= Len(t)
                /\ canonicalizeJSONV1(r.out).out = r.out

(***************************************************************************)
(* The codec accepts a text exactly if it has a meaning within the limits, *)
(* and then yields a spelling that depends on the meaning alone, means the *)
(* same and is canonical itself: two texts have one digest if and only if  *)
(* they mean the same, whatever their spacing, escapes and member order.   *)
(***************************************************************************)
CanonicalIsFaithful == Faithful(text, canonicalizeJSONV1(text))
=============================================================================
