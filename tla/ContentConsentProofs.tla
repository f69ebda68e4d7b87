------------------------ MODULE ContentConsentProofs ------------------------
(***************************************************************************)
(* What a consent grant promises holds for any files, sizes, clock and     *)
(* number of changes other processes make.                                 *)
(***************************************************************************)
EXTENDS ContentConsentProperties, TLAPS

Pieces == Seq(STRING)

Grants == [revoked : BOOLEAN, expired : BOOLEAN, issued : Nat, last : Nat, admitted : Nat]

Files == [kind : {"file", "directory"}, content : Pieces, links : {1, 2}, stamp : Nat]

Versions == [node : Nodes, size : Nat, stamp : Nat]

Calls == [at : {"idle", "stat", "open", "examine", "read", "verify"}, stat : Versions \union {None},
          descriptor : Nodes \union {None}, opened : Versions \union {None}, buffer : Pieces]

Types ==
  /\ grant \in Grants
  /\ node \in [Nodes -> Files]
  /\ place \in Nodes \union {"link", None}
  /\ call \in Calls
  /\ changes \in Nat
  /\ \A n \in Nodes : node[n].stamp <= changes

\* A dead grant has no admission under way.
Liveness == call.at # "idle" => ~grant.revoked /\ ~grant.expired

\* While its file keeps the stamp it was opened with, what has been read is
\* the beginning of that one version.
Reading ==
  call.at \in {"read", "verify"} =>
    /\ call.descriptor \in Nodes
    /\ call.opened \in Versions /\ call.opened = call.stat /\ call.opened.node = call.descriptor
    /\ call.opened.stamp <= node[call.descriptor].stamp
    /\ node[call.descriptor].kind = "file"
    /\ node[call.descriptor].stamp = call.opened.stamp =>
         /\ node[call.descriptor].links = 1
         /\ Len(call.buffer) <= Len(node[call.descriptor].content)
         /\ \A i \in 1..Len(call.buffer) : call.buffer[i] = node[call.descriptor].content[i]

Examined ==
  /\ call.at \in {"open", "examine", "read", "verify"} => call.stat \in Versions /\ call.stat.size > 0
  /\ call.at = "examine" => call.descriptor \in Nodes /\ call.buffer = <<>>
  /\ call.at \in {"idle", "stat", "open"} => call.buffer = <<>>

IInv == Types /\ Liveness /\ Reading /\ Examined

LEMMA IdleType == Idle \in Calls /\ Idle.at = "idle" /\ Idle.buffer = <<>>
BY DEF Idle, Calls, Pieces

LEMMA LongerPrefix ==
  ASSUME NEW whole \in Pieces, NEW part \in Pieces, Len(part) <= Len(whole),
         \A i \in 1..Len(part) : part[i] = whole[i],
         NEW upto \in (Len(part) + 1)..Len(whole),
         NEW longer, longer = part \o SubSeq(whole, Len(part) + 1, upto)
  PROVE  /\ Len(longer) = upto
         /\ \A i \in 1..Len(longer) : longer[i] = whole[i]
BY DEF Pieces

LEMMA GrantSteps ==
  ASSUME NEW g \in Grants, NEW now \in Samples
  PROVE  /\ Observed(g, now) \in Grants
         /\ LiveCode(g, now) = None => /\ ~g.revoked /\ ~g.expired /\ now >= g.last
                                       /\ now < g.issued + Lifetime /\ now \in Nat
                                       /\ Observed(g, now).last = now
                                       /\ ~Observed(g, now).revoked /\ ~Observed(g, now).expired
         /\ g.revoked \/ g.expired => Observed(g, now) = g /\ LiveCode(g, now) # None
         /\ Observed(g, now).admitted = g.admitted
<1>1. now \in Nat /\ Lifetime \in Nat
  BY GrantAssumption
<1>2. Observed(g, now) \in Grants /\ Observed(g, now).admitted = g.admitted
  BY <1>1 DEF Observed, Grants
<1>3. ASSUME LiveCode(g, now) = None
      PROVE  /\ g.revoked = FALSE /\ g.expired = FALSE /\ now >= g.last /\ now <= MaxSafe
             /\ now < g.issued + Lifetime
  BY <1>1, <1>3, GrantAssumption DEF LiveCode, Grants
<1>4. ASSUME LiveCode(g, now) = None
      PROVE  /\ Observed(g, now).last = now
             /\ Observed(g, now).revoked = FALSE /\ Observed(g, now).expired = FALSE
  <2>1. Accepts(g, now)
    BY <1>3, <1>4 DEF Accepts
  <2>2. Observed(g, now) = [g EXCEPT !.last = now]
    BY <1>1, <1>3, <1>4, <2>1 DEF Observed, Grants
  <2> QED BY <1>3, <1>4, <2>2 DEF Grants
<1>5. g.revoked \/ g.expired => Observed(g, now) = g /\ LiveCode(g, now) # None
  BY GrantAssumption DEF Observed, Accepts, LiveCode
<1> QED BY <1>1, <1>2, <1>3, <1>4, <1>5

LEMMA InitIInv == Init => IInv
<1> SUFFICES ASSUME Init PROVE IInv
  OBVIOUS
<1>1. grant \in Grants
  BY GrantAssumption DEF Init, NewGrant, Grants
<1>2. node \in [Nodes -> Files] /\ \A n \in Nodes : node[n].stamp = 0
  <2>1. <<>> \in Pieces /\ Contents \subseteq Pieces
    BY ContentAssumption DEF Pieces
  <2>2. \A kind \in {"file", "directory"} : Empty(kind) \in Files /\ Empty(kind).stamp = 0
    BY <2>1 DEF Empty, Files
  <2>3. \A base \in Files : \A c \in Contents :
          [base EXCEPT !.content = c] \in Files /\ [base EXCEPT !.content = c].stamp = base.stamp
    BY <2>1 DEF Files
  <2>4. \A n \in Nodes : node[n] \in Files /\ node[n].stamp = 0
    <3> SUFFICES ASSUME NEW n \in Nodes PROVE node[n] \in Files /\ node[n].stamp = 0
      OBVIOUS
    <3>1. PICK base : base = Empty("file")
      OBVIOUS
    <3>2. node[n] = Empty("directory") \/ \E c \in Contents : node[n] = [base EXCEPT !.content = c]
      BY <3>1 DEF Init
    <3> QED BY <2>2, <2>3, <3>1, <3>2
  <2> QED BY <2>4 DEF Init
<1>3. Types
  BY <1>1, <1>2, IdleType DEF Types, Init
<1> QED BY <1>3, IdleType DEF IInv, Liveness, Reading, Examined, Init

\* A refusal ends the call; nothing of it is kept.
LEMMA EndStep ==
  ASSUME IInv, call' = Idle, grant' \in Grants, UNCHANGED <<node, place, changes>>
  PROVE  IInv'
BY IdleType DEF IInv, Types, Liveness, Reading, Examined

LEMMA AdmitStep ==
  ASSUME IInv, NEW flaw \in Flaws, NEW now \in Samples, Admit(flaw, now)
  PROVE  IInv'
<1>1. /\ call.at = "idle" /\ grant \in Grants /\ call \in Calls /\ UNCHANGED <<node, place, changes>>
      /\ grant' = Observed(grant, now) /\ grant' \in Grants
  BY GrantSteps DEF Admit, IInv, Types
<1>2. CASE call' = Idle
  BY <1>1, <1>2, EndStep
<1>3. CASE call' # Idle
  <2>1. LiveCode(grant, now) = None /\ call' = [call EXCEPT !.at = "stat"]
    BY <1>3 DEF Admit, Refuse, Answer
  <2>2. ~grant'.revoked /\ ~grant'.expired
    BY <1>1, <2>1, GrantSteps
  <2>3. call' \in Calls /\ call'.at = "stat" /\ call'.buffer = call.buffer
    BY <1>1, <2>1 DEF Calls
  <2> QED BY <1>1, <2>2, <2>3 DEF IInv, Types, Liveness, Reading, Examined
<1> QED BY <1>2, <1>3

LEMMA StatStep == ASSUME IInv, Stat PROVE IInv'
<1>1. /\ call.at = "stat" /\ grant \in Grants /\ call \in Calls /\ UNCHANGED <<grant, node, place, changes>>
  BY DEF Stat, IInv, Types
<1>2. CASE call' = Idle
  BY <1>1, <1>2, EndStep
<1>3. CASE call' # Idle
  <2>1. /\ place # None /\ place # "link" /\ node[place].content # <<>>
        /\ call' = [call EXCEPT !.at = "open", !.stat = Identity(place)]
    BY <1>3 DEF Stat, Refuse, Answer
  <2>2. place \in Nodes
    BY <1>1, <2>1 DEF IInv, Types
  <2>3. node[place] \in Files /\ Len(node[place].content) > 0
    BY <2>1, <2>2 DEF IInv, Types, Files, Pieces
  <2>4. PICK version : version = Identity(place)
    OBVIOUS
  <2>5. version \in Versions /\ version.size > 0
    BY <2>2, <2>3, <2>4 DEF Identity, Versions, Files, Pieces
  <2>6. call' \in Calls /\ call'.at = "open" /\ call'.stat = version /\ call'.buffer = <<>>
    BY <1>1, <2>1, <2>4, <2>5 DEF Calls, IInv, Examined
  <2> QED BY <1>1, <2>5, <2>6 DEF IInv, Types, Liveness, Reading, Examined
<1> QED BY <1>2, <1>3

LEMMA OpenStep == ASSUME IInv, Open PROVE IInv'
<1>1. /\ call.at = "open" /\ grant \in Grants /\ call \in Calls /\ UNCHANGED <<grant, node, place, changes>>
  BY DEF Open, IInv, Types
<1>2. CASE call' = Idle
  BY <1>1, <1>2, EndStep
<1>3. CASE call' # Idle
  <2>1. place \in Nodes /\ call' = [call EXCEPT !.at = "examine", !.descriptor = place]
    BY <1>3 DEF Open, Refuse, Answer
  <2>2. /\ call' \in Calls /\ call'.at = "examine" /\ call'.stat = call.stat /\ call'.buffer = <<>>
        /\ call'.descriptor \in Nodes
    BY <1>1, <2>1 DEF Calls, IInv, Examined
  <2> QED BY <1>1, <2>2 DEF IInv, Types, Liveness, Reading, Examined
<1> QED BY <1>2, <1>3

LEMMA ExamineStep == ASSUME IInv, Examine PROVE IInv'
<1>1. /\ call.at = "examine" /\ grant \in Grants /\ call \in Calls /\ UNCHANGED <<grant, node, place, changes>>
  BY DEF Examine, IInv, Types
<1>2. CASE call' = Idle
  BY <1>1, <1>2, EndStep
<1>3. CASE call' # Idle
  <2>1. PICK n \in Nodes : n = call.descriptor
    BY <1>1 DEF IInv, Examined
  <2>2. PICK version : version = Identity(n)
    OBVIOUS
  <2>3. /\ node[n].kind = "file" /\ ~(node[n].links > 1) /\ call.stat = version
        /\ call' = [call EXCEPT !.at = "read", !.opened = version]
    BY <1>3, <2>1, <2>2 DEF Examine, Refuse, Answer, SameFile
  <2>4. node[n] \in Files
    BY DEF IInv, Types
  <2>5. version \in Versions /\ version.node = n /\ version.stamp = node[n].stamp
    BY <2>2, <2>4 DEF Identity, Versions, Files, Pieces
  <2>6. /\ call' \in Calls /\ call'.at = "read" /\ call'.stat = version /\ call'.buffer = <<>>
        /\ call'.descriptor = n /\ call'.opened = version
    BY <1>1, <2>1, <2>3, <2>5 DEF Calls, IInv, Examined
  <2>7. node[n].links = 1 /\ node[n].stamp \in Nat
    BY <2>3, <2>4 DEF Files
  <2>8. Len(call'.buffer) = 0 /\ Len(node[n].content) >= 0
    BY <2>4, <2>6 DEF Files, Pieces
  <2>9. Reading'
    BY <1>1, <2>3, <2>5, <2>6, <2>7, <2>8 DEF Reading
  <2> QED BY <1>1, <2>3, <2>6, <2>9 DEF IInv, Types, Liveness, Examined
<1> QED BY <1>2, <1>3

LEMMA ReadStep == ASSUME IInv, Read PROVE IInv'
<1>1. /\ call.at = "read" /\ grant \in Grants /\ call \in Calls /\ UNCHANGED <<grant, node, place, changes>>
  BY DEF Read, IInv, Types
<1>2. PICK n \in Nodes : n = call.descriptor
  BY <1>1 DEF IInv, Reading
<1>3. PICK content \in Pieces : content = node[n].content
  BY DEF IInv, Types, Files
<1>4. CASE call' = Idle
  BY <1>1, <1>4, EndStep
<1>5. CASE call' = [call EXCEPT !.at = "verify"]
  <2>1. /\ call' \in Calls /\ call'.at = "verify" /\ call'.stat = call.stat /\ call'.buffer = call.buffer
        /\ call'.descriptor = call.descriptor /\ call'.opened = call.opened
    BY <1>1, <1>5 DEF Calls
  <2> QED BY <1>1, <2>1 DEF IInv, Types, Liveness, Reading, Examined
<1>6. ASSUME NEW upto \in (Len(call.buffer) + 1)..Len(content), NEW next \in {"read", "verify"},
             NEW longer, longer = call.buffer \o SubSeq(content, Len(call.buffer) + 1, upto),
             call' = [call EXCEPT !.buffer = longer, !.at = next]
      PROVE  IInv'
  <2>1. call.buffer \in Pieces /\ longer \in Pieces
    BY <1>1, <1>6 DEF Calls, Pieces
  <2>2. /\ call' \in Calls /\ call'.at = next /\ call'.stat = call.stat /\ call'.buffer = longer
        /\ call'.descriptor = call.descriptor /\ call'.opened = call.opened
    BY <1>1, <1>6, <2>1 DEF Calls
  <2>3. ASSUME Len(call.buffer) <= Len(content), \A i \in 1..Len(call.buffer) : call.buffer[i] = content[i]
        PROVE  Len(longer) <= Len(content) /\ \A i \in 1..Len(longer) : longer[i] = content[i]
    BY <1>6, <2>1, <2>3, LongerPrefix DEF Pieces
  <2>4. Reading'
    BY <1>1, <1>2, <1>3, <2>2, <2>3 DEF IInv, Reading
  <2> QED BY <1>1, <2>2, <2>4 DEF IInv, Types, Liveness, Examined
<1>7. \/ call' = Idle
      \/ call' = [call EXCEPT !.at = "verify"]
      \/ \E upto \in (Len(call.buffer) + 1)..Len(content) : \E next \in {"read", "verify"} :
           call' = [call EXCEPT !.buffer = @ \o SubSeq(content, Len(call.buffer) + 1, upto), !.at = next]
  <2>1. PICK limit : limit = IF Len(content) < MaxBytes + 1 THEN Len(content) ELSE MaxBytes + 1
    OBVIOUS
  <2>2. limit <= Len(content) /\ limit \in Nat /\ Len(call.buffer) \in Nat /\ Len(content) \in Nat
    BY <1>1, <2>1, ContentAssumption DEF Pieces, Calls
  <2>3. CASE \E upto \in (Len(call.buffer) + 1)..limit :
               call' = [call EXCEPT !.buffer = @ \o SubSeq(content, Len(call.buffer) + 1, upto),
                                    !.at = IF upto = MaxBytes + 1 THEN "verify" ELSE "read"]
    <3>1. PICK upto \in (Len(call.buffer) + 1)..limit :
            call' = [call EXCEPT !.buffer = @ \o SubSeq(content, Len(call.buffer) + 1, upto),
                                 !.at = IF upto = MaxBytes + 1 THEN "verify" ELSE "read"]
      BY <2>3
    <3>2. PICK next \in {"read", "verify"} : next = IF upto = MaxBytes + 1 THEN "verify" ELSE "read"
      OBVIOUS
    <3>3. upto \in (Len(call.buffer) + 1)..Len(content)
      BY <2>2
    <3>4. call' = [call EXCEPT !.buffer = @ \o SubSeq(content, Len(call.buffer) + 1, upto), !.at = next]
      BY <3>1, <3>2
    <3> QED BY <3>3, <3>4
  <2>4. \/ call' = Idle
        \/ call' = [call EXCEPT !.at = "verify"]
        \/ \E upto \in (Len(call.buffer) + 1)..limit :
             call' = [call EXCEPT !.buffer = @ \o SubSeq(content, Len(call.buffer) + 1, upto),
                                  !.at = IF upto = MaxBytes + 1 THEN "verify" ELSE "read"]
    BY <1>2, <1>3, <2>1 DEF Read, Refuse, Answer
  <2> QED BY <2>3, <2>4
<1>8. CASE \E upto \in (Len(call.buffer) + 1)..Len(content) : \E next \in {"read", "verify"} :
             call' = [call EXCEPT !.buffer = @ \o SubSeq(content, Len(call.buffer) + 1, upto), !.at = next]
  <2>1. PICK upto \in (Len(call.buffer) + 1)..Len(content), next \in {"read", "verify"} :
          call' = [call EXCEPT !.buffer = @ \o SubSeq(content, Len(call.buffer) + 1, upto), !.at = next]
    BY <1>8
  <2>2. PICK longer : longer = call.buffer \o SubSeq(content, Len(call.buffer) + 1, upto)
    OBVIOUS
  <2>3. call' = [call EXCEPT !.buffer = longer, !.at = next]
    BY <2>1, <2>2
  <2> QED BY <1>6, <2>2, <2>3
<1> QED BY <1>4, <1>5, <1>7, <1>8

LEMMA HolderSteps ==
  ASSUME IInv, Verify \/ Revoke \/ \E now \in Samples : Status(now)
  PROVE  IInv'
<1>1. grant' \in Grants /\ UNCHANGED <<node, place, changes>>
  <2>1. grant \in Grants
    BY DEF IInv, Types
  <2>2. Admitted(grant) \in Grants /\ [grant EXCEPT !.revoked = TRUE] \in Grants
    <3>1. PICK count \in Nat : count = grant.admitted + 1
      BY <2>1 DEF Grants
    <3>2. Admitted(grant) = [grant EXCEPT !.admitted = count]
      BY <3>1 DEF Admitted
    <3> QED BY <2>1, <3>2 DEF Grants
  <2>3. \A now \in Samples : Observed(grant, now) \in Grants
    BY <2>1, GrantSteps
  <2>4. Verify => (UNCHANGED grant \/ grant' = Admitted(grant)) /\ UNCHANGED <<node, place, changes>>
    BY DEF Verify
  <2> QED BY <2>1, <2>2, <2>3, <2>4 DEF Revoke, Status
<1>2. CASE Verify
  <2>1. call' = Idle
    BY <1>2 DEF Verify, Refuse, Answer
  <2> QED BY <1>1, <2>1, EndStep
<1>3. CASE Revoke \/ \E now \in Samples : Status(now)
  <2>1. call.at = "idle" /\ call' = call
    BY <1>3 DEF Revoke, Status
  <2> QED BY <1>1, <2>1 DEF IInv, Types, Liveness, Reading, Examined
<1> QED BY <1>2, <1>3

(***************************************************************************)
(* Other processes: a node they touch gets a stamp above all stamps.       *)
(***************************************************************************)
LEMMA TouchStep ==
  ASSUME IInv, NEW n \in Nodes, NEW file \in Files, file.kind = node[n].kind, changes' = changes + 1,
         file.stamp = changes', node' = [node EXCEPT ![n] = file], UNCHANGED <<grant, place, call>>
  PROVE  IInv'
<1>1. node'[n] = file /\ \A m \in Nodes \ {n} : node'[m] = node[m]
  BY DEF IInv, Types
<1>2. changes \in Nat /\ changes' \in Nat /\ \A m \in Nodes : node[m].stamp \in Nat /\ node[m].stamp <= changes
  BY DEF IInv, Types, Files
<1>3. \A m \in Nodes : node'[m].stamp <= changes' /\ node'[m].stamp >= node[m].stamp
  BY <1>1, <1>2
<1>4. Types'
  BY <1>2, <1>3 DEF IInv, Types
<1>5. ASSUME call.at \in {"read", "verify"}, call.descriptor = n
      PROVE  call.opened.stamp < node'[n].stamp /\ node'[n].kind = "file"
  BY <1>1, <1>2, <1>5 DEF IInv, Reading, Versions
<1>6. Reading'
  <2>1. CASE call.descriptor = n
    BY <1>5, <2>1, <1>2 DEF IInv, Reading, Versions
  <2>2. CASE call.descriptor # n
    BY <1>1, <2>2 DEF IInv, Reading
  <2> QED BY <2>1, <2>2
<1> QED BY <1>4, <1>6 DEF IInv, Liveness, Examined

LEMMA OtherSteps == ASSUME IInv, Replace \/ Rewrite \/ Link PROVE IInv'
<1>1. CASE Replace
  <2>1. /\ changes' = changes + 1 /\ place' \in Nodes \union {"link", None}
        /\ UNCHANGED <<grant, node, call>>
    BY <1>1 DEF Replace, Others
  <2>2. changes \in Nat /\ \A n \in Nodes : node[n].stamp \in Nat /\ node[n].stamp <= changes
    BY DEF IInv, Types, Files
  <2>3. Types'
    BY <2>1, <2>2 DEF IInv, Types
  <2> QED BY <2>1, <2>3 DEF IInv, Liveness, Reading, Examined
<1>2. CASE Rewrite \/ Link
  <2>1. /\ changes' = changes + 1 /\ changes' \in Nat /\ UNCHANGED <<grant, place, call>>
        /\ Contents \subseteq Pieces
    BY <1>2, ContentAssumption DEF Rewrite, Link, Others, IInv, Types, Pieces
  <2>2. PICK n \in Nodes :
          \/ \E c \in Contents : node' = [node EXCEPT ![n].content = c, ![n].stamp = changes']
          \/ node' = [node EXCEPT ![n].links = 2, ![n].stamp = changes']
    BY <1>2 DEF Rewrite, Link
  <2>3. node[n] \in Files
    BY DEF IInv, Types
  <2>4. CASE \E c \in Contents : node' = [node EXCEPT ![n].content = c, ![n].stamp = changes']
    <3>1. PICK c \in Contents : node' = [node EXCEPT ![n].content = c, ![n].stamp = changes']
      BY <2>4
    <3>2. PICK file : file = [node[n] EXCEPT !.content = c, !.stamp = changes']
      OBVIOUS
    <3>3. file \in Files /\ file.kind = node[n].kind /\ file.stamp = changes'
      BY <2>1, <2>3, <3>2 DEF Files
    <3>4. node' = [node EXCEPT ![n] = file]
      BY <3>1, <3>2 DEF IInv, Types
    <3> QED BY <2>1, <3>3, <3>4, TouchStep
  <2>5. CASE node' = [node EXCEPT ![n].links = 2, ![n].stamp = changes']
    <3>1. PICK file : file = [node[n] EXCEPT !.links = 2, !.stamp = changes']
      OBVIOUS
    <3>2. file \in Files /\ file.kind = node[n].kind /\ file.stamp = changes'
      BY <2>1, <2>3, <3>1 DEF Files
    <3>3. node' = [node EXCEPT ![n] = file]
      BY <2>5, <3>1 DEF IInv, Types
    <3> QED BY <2>1, <3>2, <3>3, TouchStep
  <2> QED BY <2>2, <2>4, <2>5
<1> QED BY <1>1, <1>2

LEMMA NextIInv == IInv /\ [Next]_vars => IInv'
<1> SUFFICES ASSUME IInv, [Next]_vars PROVE IInv'
  OBVIOUS
<1>1. CASE UNCHANGED vars
  BY <1>1 DEF vars, IInv, Types, Liveness, Reading, Examined
<1> QED BY <1>1, AdmitStep, StatStep, OpenStep, ExamineStep, ReadStep, HolderSteps, OtherSteps DEF Next

LEMMA Invariant == Spec => []IInv
BY InitIInv, NextIInv, PTL DEF Spec

\* Two sequences of one length that agree everywhere are one.
LEMMA SameSequence ==
  ASSUME NEW a \in Pieces, NEW b \in Pieces, Len(a) = Len(b), \A i \in 1..Len(a) : a[i] = b[i]
  PROVE  a = b
BY DEF Pieces

LEMMA OnlyVerifyAdmits ==
  ASSUME [Next]_vars, reply'.code = "CONTENT_ADMITTED", reply' # reply
  PROVE  /\ call.at = "verify" /\ ~(Len(call.buffer) > MaxBytes)
         /\ SameFile(call.opened, Identity(call.descriptor))
         /\ Len(call.buffer) = call.opened.size /\ reply'.bytes = call.buffer
         /\ UNCHANGED node
<1>1. ASSUME NEW code, Refuse(code), code # "CONTENT_ADMITTED" PROVE FALSE
  BY <1>1 DEF Refuse, Answer
<1>2. ASSUME NEW flaw \in Flaws, NEW now \in Samples, Admit(flaw, now) PROVE FALSE
  <2>1. LiveCode(grant, now) # "CONTENT_ADMITTED" /\ flaw # "CONTENT_ADMITTED"
    BY ContentAssumption DEF LiveCode, Flaws
  <2>2. reply'.code # None
    BY ContentAssumption
  <2> QED BY <1>1, <1>2, <2>1, <2>2 DEF Admit
<1>3. ASSUME Stat \/ Open \/ Examine \/ Read PROVE FALSE
  BY <1>1, <1>3 DEF Stat, Open, Examine, Read
<1>4. ASSUME Revoke \/ Replace \/ Rewrite \/ Link \/ UNCHANGED vars \/ \E now \in Samples : Status(now)
      PROVE  FALSE
  BY <1>4 DEF Revoke, Replace, Rewrite, Link, Others, vars, Status
<1>5. Verify
  BY <1>2, <1>3, <1>4 DEF Next
<1>6. ~Refuse("CONTENT_UNREADABLE") /\ ~Refuse("CONTENT_NOT_UTF8") /\ ~Refuse("CONTENT_BYTE_LIMIT")
      /\ ~Refuse("CONTENT_CHANGED_DURING_READ")
  BY <1>1
<1>7. /\ call.at = "verify" /\ ~(Len(call.buffer) > MaxBytes) /\ UNCHANGED node
      /\ SameFile(call.opened, Identity(call.descriptor))
      /\ Len(call.buffer) = call.opened.size /\ Answer("CONTENT_ADMITTED", call.buffer)
  BY <1>5, <1>6 DEF Verify
<1> QED BY <1>7 DEF Answer

(***************************************************************************)
(* Admitted bytes are one version of one regular file, whole, whatever     *)
(* other processes do between the calls of the file system.                *)
(***************************************************************************)
THEOREM OneVersionIsAdmitted == Spec => AdmitsOneVersion
<1> DEFINE Whole ==
      LET n == call.descriptor
      IN /\ call.stat.node = n
         /\ reply'.bytes = node[n].content
         /\ node[n].kind = "file" /\ node[n].links = 1
         /\ Len(reply'.bytes) \in 1..MaxBytes
<1>1. ASSUME IInv, [Next]_vars, reply'.code = "CONTENT_ADMITTED", reply' # reply PROVE Whole
  <2>1. PICK n \in Nodes : n = call.descriptor
    BY <1>1, OnlyVerifyAdmits DEF IInv, Reading
  <2>2. call.at = "verify" /\ call.opened = Identity(n) /\ Len(call.buffer) = call.opened.size
        /\ reply'.bytes = call.buffer
    BY <1>1, <2>1, OnlyVerifyAdmits DEF SameFile
  <2>3. call.opened.stamp = node[n].stamp /\ call.opened.size = Len(node[n].content)
    BY <2>2 DEF Identity
  <2>4. /\ call.stat.node = n /\ call.opened = call.stat /\ node[n].kind = "file" /\ node[n].links = 1
        /\ \A i \in 1..Len(call.buffer) : call.buffer[i] = node[n].content[i]
        /\ call.stat.size > 0
    BY <1>1, <2>1, <2>2, <2>3 DEF IInv, Reading, Examined
  <2>5. call.buffer \in Pieces /\ node[n].content \in Pieces
    BY <1>1 DEF IInv, Types, Calls, Files
  <2>6. call.buffer = node[n].content
    BY <2>2, <2>3, <2>4, <2>5, SameSequence
  <2>7. Len(call.buffer) \in 1..MaxBytes
    <3>1. Len(call.buffer) > 0 /\ Len(call.buffer) \in Nat
      BY <2>2, <2>4, <2>5 DEF Pieces
    <3>2. ~(Len(call.buffer) > MaxBytes)
      BY <1>1, OnlyVerifyAdmits
    <3> QED BY <3>1, <3>2, ContentAssumption
  <2> QED BY <2>1, <2>2, <2>4, <2>6, <2>7
<1>2. IInv /\ [Next]_vars => [reply'.code = "CONTENT_ADMITTED" /\ reply' # reply => Whole]_vars
  BY <1>1
<1> QED BY <1>2, Invariant, PTL DEF Spec, AdmitsOneVersion

(***************************************************************************)
(* A grant that was revoked or seen to be expired admits nothing any more  *)
(* and stays dead, and an admission begins in time by a clock that does    *)
(* not go back.                                                            *)
(***************************************************************************)
THEOREM DeadGrantsStayDead == Spec => DeadStaysDead
<1> DEFINE Dead ==
      grant.revoked \/ grant.expired =>
        /\ grant'.admitted = grant.admitted
        /\ grant'.revoked \/ grant'.expired
        /\ call' # call => call'.at = "idle"
    InTime ==
      call.at = "idle" /\ call'.at = "stat" =>
        grant'.last \in grant.last..(grant.issued + Lifetime - 1)
<1>1. ASSUME IInv, [Next]_vars, grant.revoked \/ grant.expired
      PROVE  /\ grant'.admitted = grant.admitted
             /\ grant'.revoked \/ grant'.expired
             /\ call' # call => call'.at = "idle"
  <2>1. call.at = "idle" /\ grant \in Grants
    BY <1>1 DEF IInv, Liveness, Types
  <2>2. ASSUME NEW now \in Samples PROVE Observed(grant, now) = grant /\ LiveCode(grant, now) # None
    BY <1>1, <2>1, GrantSteps
  <2>3. ASSUME NEW flaw, NEW now \in Samples, Admit(flaw, now) PROVE grant' = grant /\ call' = Idle
    BY <2>2, <2>3 DEF Admit, Refuse, Answer
  <2>4. CASE Revoke
    <3>1. grant'.revoked = TRUE /\ grant'.admitted = grant.admitted /\ call' = call
      BY <2>1, <2>4 DEF Revoke, Grants
    <3> QED BY <3>1
  <2>5. ASSUME NEW now \in Samples, Status(now) PROVE grant' = grant /\ call' = call
    BY <2>2, <2>5 DEF Status
  <2>6. CASE Replace \/ Rewrite \/ Link \/ UNCHANGED vars
    BY <1>1, <2>6 DEF Replace, Rewrite, Link, Others, vars
  <2>7. ~Stat /\ ~Open /\ ~Examine /\ ~Read /\ ~Verify
    BY <2>1 DEF Stat, Open, Examine, Read, Verify
  <2> QED BY <1>1, <2>3, <2>4, <2>5, <2>6, <2>7, IdleType DEF Next
<1>2. ASSUME IInv, [Next]_vars, call.at = "idle", call'.at = "stat"
      PROVE  grant'.last \in grant.last..(grant.issued + Lifetime - 1)
  <2>1. PICK flaw \in Flaws, now \in Samples : Admit(flaw, now)
    BY <1>2 DEF Next, vars, Stat, Open, Examine, Read, Verify, Revoke, Status, Replace, Rewrite, Link, Others
  <2>2. LiveCode(grant, now) = None /\ grant' = Observed(grant, now) /\ grant \in Grants
    BY <1>2, <2>1, IdleType DEF Admit, Refuse, Answer, IInv, Types
  <2>3. grant'.last = now /\ now >= grant.last /\ now < grant.issued + Lifetime /\ now \in Nat
    BY <2>2, GrantSteps
  <2> QED BY <2>2, <2>3, GrantAssumption DEF Grants
<1> HIDE DEF Dead, InTime
<1>3. IInv /\ [Next]_vars => [Dead /\ InTime]_vars
  BY <1>1, <1>2 DEF Dead, InTime
<1>4. [][Dead /\ InTime]_vars => DeadStaysDead
  BY PTL DEF DeadStaysDead, Dead, InTime
<1> QED BY <1>3, <1>4, Invariant, PTL DEF Spec
=============================================================================
