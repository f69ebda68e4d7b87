---------------------------- MODULE CanonicalJson ----------------------------
(***************************************************************************)
(* The canonical JSON codec (canonical/canonical-json-v1.mjs): a recursive *)
(* descent over the text that yields its canonical spelling or refuses it. *)
(*                                                                         *)
(* A text is a sequence of tokens: punctuation, white space, literals,     *)
(* numbers (their characters) and strings (their units, raw or escaped).   *)
(* Every refusal is the same; where it happens is kept, since a refusal at *)
(* the end of a text is one that more text could avert.  The descent is    *)
(* written level by level, without RECURSIVE operators.                    *)
(***************************************************************************)
EXTENDS CanonicalScalars

CONSTANTS
  Bytes, Depth, ObjectMembers,  \* CANONICAL_JSON_LIMITS_V1; a token counts as a byte
  NotNFC                        \* keys that are not in normal form

ASSUME LimitsAssumption == Bytes \in Nat /\ Depth \in Nat /\ ObjectMembers \in Nat

Mark(character) == <<character>>

Kind(text, i) == IF i <= Len(text) THEN text[i][1] ELSE "end"

whitespace(text, i) ==
  CHOOSE j \in i..(Len(text) + 1) : Kind(text, j) # "ws" /\ \A k \in i..(j - 1) : Kind(text, k) = "ws"

Joined(parts) ==
  LET upTo[n \in 0..Len(parts)] ==
        IF n = 0 THEN <<>>
        ELSE IF n = 1 THEN parts[1]
        ELSE upTo[n - 1] \o <<Mark(",")>> \o parts[n]
  IN upTo[Len(parts)]

Array(values) == <<Mark("[")>> \o Joined(values) \o <<Mark("]")>>

\* Slip: members are ordered by UTF-16 code units, as JavaScript compares strings.
InOrderOfUnits(left, right) ==
  LexLess(FlattenSeq([i \in DOMAIN left.key |-> UnitsOf(left.key[i])]),
          FlattenSeq([i \in DOMAIN right.key |-> UnitsOf(right.key[i])]))

\* The bytes of UTF-8 are ordered like the scalars they encode.
InOrder(left, right) == LexLess(left.key, right.key)

Sorted(members) ==
  CHOOSE sorted \in [DOMAIN members -> Range(members)] :
    /\ Range(sorted) = Range(members)
    /\ \A i, j \in DOMAIN members : i < j => InOrder(sorted[i], sorted[j])

Member(key, spelling) == <<Quoted(key), Mark(":")>> \o spelling

Object(members) ==
  LET sorted == Sorted(members)
  IN <<Mark("{")>> \o Joined([i \in DOMAIN sorted |-> Member(sorted[i].key, sorted[i].value)]) \o <<Mark("}")>>

(***************************************************************************)
(* The loops of array and object, round by round.  `inner` is value one    *)
(* level down: what it does at each place.                                 *)
(***************************************************************************)
Goes(at, parts) == [over |-> FALSE, ok |-> FALSE, at |-> at, parts |-> parts]
Fails(at) == [over |-> TRUE, ok |-> FALSE, at |-> at, parts |-> <<>>]
Ends(at, parts) == [over |-> TRUE, ok |-> TRUE, at |-> at, parts |-> parts]

\* A comma, or the end.
Separated(text, i, close, parts) ==
  IF Kind(text, i) = close THEN Ends(i + 1, parts)
  ELSE IF Kind(text, i) = "," THEN Goes(i + 1, parts)
  ELSE Fails(i)

NextElement(text, inner, s) ==
  LET element == inner[s.at]
  IN IF ~element.ok THEN Fails(element.at)
     ELSE Separated(text, whitespace(text, element.at), "]", Append(s.parts, element.out))

KeyAccepted(key, members) ==
  /\ key.ok
  /\ \A i \in DOMAIN key.out : key.out[i] # 0
  /\ key.out \notin NotNFC
  /\ \A i \in DOMAIN members : members[i].key # key.out
  /\ Len(members) < ObjectMembers

NextMember(text, inner, s) ==
  LET i == whitespace(text, s.at)
      key == string(text[i][2])
      colon == whitespace(text, i + 1)
      member == inner[colon + 1]
  IN IF Kind(text, i) # "str" THEN Fails(i)
     ELSE IF ~KeyAccepted(key, s.parts) THEN Fails(i)
     ELSE IF Kind(text, colon) # ":" THEN Fails(colon)
     ELSE IF ~member.ok THEN Fails(member.at)
     ELSE Separated(text, whitespace(text, member.at), "}", Append(s.parts, [key |-> key.out, value |-> member.out]))

\* One round of the loop that a closing bracket ends.
Turn(text, inner, close, s) ==
  IF s.over THEN s
  ELSE IF close = "]" THEN NextElement(text, inner, s)
  ELSE NextMember(text, inner, s)

Loop(text, inner, close, start) ==
  LET round[n \in 0..Len(text)] ==
        IF n = 0 THEN Goes(start, <<>>) ELSE Turn(text, inner, close, round[n - 1])
  IN round[Len(text)]

array(text, inner, start) ==
  LET last == Loop(text, inner, "]", start)
  IN IF last.ok THEN Yield(last.at, Array(last.parts)) ELSE Refuse(last.at)

object(text, inner, start) ==
  LET last == Loop(text, inner, "}", start)
  IN IF last.ok THEN Yield(last.at, Object(last.parts)) ELSE Refuse(last.at)

\* room is how many levels may still be opened: Depth less depth.
value(text, inner, room, start) ==
  LET i == whitespace(text, start)
      kind == Kind(text, i)
      next == whitespace(text, i + 1)
  IN IF kind \in {"{", "["} /\ room = 0 THEN Refuse(i)
     ELSE CASE kind = "{" -> IF Kind(text, next) = "}" THEN Yield(next + 1, Object(<<>>)) ELSE object(text, inner, next)
            [] kind = "[" -> IF Kind(text, next) = "]" THEN Yield(next + 1, Array(<<>>)) ELSE array(text, inner, next)
            [] kind = "str" -> IF string(text[i][2]).ok THEN Yield(i + 1, <<Quoted(string(text[i][2]).out)>>)
                               ELSE Refuse(i)
            [] kind = "num" -> IF number(text[i][2]) THEN Yield(i + 1, <<text[i]>>) ELSE Refuse(i)
            [] kind = "lit" -> Yield(i + 1, <<text[i]>>)
            [] OTHER -> Refuse(i)

Values(text) ==
  LET values[room \in 0..Depth] ==
        LET inner == IF room = 0 THEN <<>> ELSE values[room - 1]
        IN [start \in 1..(Len(text) + 1) |-> value(text, inner, room, start)]
  IN values

\* The text is one value, with nothing behind it, within the limit.
OneValue(text, document, end) ==
  IF Len(text) > Bytes THEN Refuse(1)
  ELSE IF ~document.ok THEN document
  ELSE IF end <= Len(text) \/ Len(document.out) > Bytes THEN Refuse(end)
  ELSE document

canonicalizeJSONV1(text) ==
  LET document == Values(text)[Depth][1]
  IN OneValue(text, document, whitespace(text, document.at))
=============================================================================
