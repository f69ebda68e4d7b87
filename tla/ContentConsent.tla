--------------------------- MODULE ContentConsent ---------------------------
(***************************************************************************)
(* admitContent (gate/content-consent.mjs): one file is resolved, examined,*)
(* opened, read and examined again, while other processes may replace it,  *)
(* rewrite it or link it elsewhere.                                        *)
(*                                                                         *)
(* The call is synchronous, so the grant's holder does nothing during it;  *)
(* a step is one call of the file system with the code that follows.  The  *)
(* clock does not call the grant back.  Directories above the file are     *)
(* stable, as the code requires: other processes change the file itself.   *)
(* A node stands for device and inode, a stamp for mtime and ctime: every  *)
(* change of a node gives it a new one.  A content is a sequence of        *)
(* pieces, which stand for bytes.                                          *)
(***************************************************************************)
EXTENDS ContentGrant, Sequences

CONSTANTS
  Nodes,        \* files other processes may put at the path
  Contents,     \* what may be written in them
  MaxBytes,     \* maxContentBytes
  MaxChanges,   \* bound on what other processes do
  MaxAdmitted   \* bound on admissions

ASSUME ContentAssumption ==
  /\ None \notin Nodes /\ None # "CONTENT_ADMITTED"
  /\ Contents \subseteq Seq(STRING)
  /\ MaxBytes \in Nat \ {0}
  /\ MaxChanges \in Nat
  /\ MaxAdmitted \in Nat

VARIABLES
  grant,
  node,      \* the files
  place,     \* what the path names: a node, "link", or None
  call,      \* the admission under way
  reply,     \* what the last call answered
  changes

vars == <<grant, node, place, call, reply, changes>>

Idle == [at |-> "idle", stat |-> None, descriptor |-> None, opened |-> None, buffer |-> <<>>]

Empty(kind) == [kind |-> kind, content |-> <<>>, links |-> 1, stamp |-> 0]

Init ==
  /\ \E issued \in {s \in Samples : s <= MaxSafe} : grant = NewGrant(issued)
  /\ node \in [Nodes -> {[Empty("file") EXCEPT !.content = c] : c \in Contents}
                        \union {Empty("directory")}]
  /\ place \in Nodes \union {"link", None}
  /\ call = Idle
  /\ reply = [code |-> None, bytes |-> None]
  /\ changes = 0

\* The fields of stat that identify a version of a file.
Identity(n) == [node |-> n, size |-> Len(node[n].content), stamp |-> node[n].stamp]

\* Slip: only the file is compared, not its version.
SameNode(a, b) == a.node = b.node

SameFile(a, b) == a = b

Answer(code, bytes) == call' = Idle /\ reply' = [code |-> code, bytes |-> bytes]

Refuse(code) == Answer(code, None)

\* What is wrong with an item or with where its path leads, or None.
Flaws == {None, "CONTENT_ITEM_INVALID", "CONTENT_PATH_INVALID", "CONTENT_KIND_REFUSED",
          "CONTENT_PATH_UNRESOLVABLE", "CONTENT_OUT_OF_SCOPE"}

Admit(flaw, now) ==
  LET notLive == LiveCode(grant, now)
  IN /\ call.at = "idle"
     /\ grant.admitted < MaxAdmitted
     /\ grant' = Observed(grant, now)
     /\ IF notLive # None THEN Refuse(notLive)
        ELSE IF flaw # None THEN Refuse(flaw)
        ELSE call' = [call EXCEPT !.at = "stat"] /\ reply' = [code |-> None, bytes |-> None]
     /\ UNCHANGED <<node, place, changes>>

Stat ==
  /\ call.at = "stat"
  /\ IF place = None THEN Refuse("CONTENT_PATH_UNRESOLVABLE")
     ELSE IF place = "link" \/ node[place].kind # "file" THEN Refuse("CONTENT_NOT_REGULAR_FILE")
     ELSE IF node[place].content = <<>> THEN Refuse("CONTENT_EMPTY")
     ELSE IF Len(node[place].content) > MaxBytes THEN Refuse("CONTENT_BYTE_LIMIT")
     ELSE call' = [call EXCEPT !.at = "open", !.stat = Identity(place)] /\ UNCHANGED reply
  /\ UNCHANGED <<grant, node, place, changes>>

\* A symbolic link is not followed; any call from here on may fail.
Open ==
  /\ call.at = "open"
  /\ \/ Refuse("CONTENT_UNREADABLE")
     \/ place = "link" /\ Refuse("CONTENT_CHANGED_DURING_READ")
     \/ /\ place \in Nodes
        /\ call' = [call EXCEPT !.at = "examine", !.descriptor = place]
        /\ UNCHANGED reply
  /\ UNCHANGED <<grant, node, place, changes>>

Examine ==
  LET n == call.descriptor
  IN /\ call.at = "examine"
     /\ \/ Refuse("CONTENT_UNREADABLE")
        \/ IF node[n].kind # "file" THEN Refuse("CONTENT_NOT_REGULAR_FILE")
           ELSE IF node[n].links > 1 THEN Refuse("CONTENT_HARDLINK_REFUSED")
           ELSE IF ~SameFile(call.stat, Identity(n)) THEN Refuse("CONTENT_CHANGED_DURING_READ")
           ELSE call' = [call EXCEPT !.at = "read", !.opened = Identity(n)] /\ UNCHANGED reply
     /\ UNCHANGED <<grant, node, place, changes>>

\* One read: some of what follows, at most up to one byte above the limit.
Read ==
  LET content == node[call.descriptor].content
      count == Len(call.buffer)
      limit == IF Len(content) < MaxBytes + 1 THEN Len(content) ELSE MaxBytes + 1
  IN /\ call.at = "read"
     /\ \/ Refuse("CONTENT_UNREADABLE")
        \/ /\ \E upto \in (count + 1)..limit :
                call' = [call EXCEPT !.buffer = @ \o SubSeq(content, count + 1, upto),
                                     !.at = IF upto = MaxBytes + 1 THEN "verify" ELSE "read"]
           /\ UNCHANGED reply
        \/ /\ count >= Len(content)
           /\ call' = [call EXCEPT !.at = "verify"]
           /\ UNCHANGED reply
     /\ UNCHANGED <<grant, node, place, changes>>

\* The bytes are admitted if they are the whole file as it was opened.
Verify ==
  /\ call.at = "verify"
  /\ \/ Refuse("CONTENT_UNREADABLE") /\ UNCHANGED grant
     \/ Refuse("CONTENT_NOT_UTF8") /\ UNCHANGED grant
     \/ IF Len(call.buffer) > MaxBytes THEN Refuse("CONTENT_BYTE_LIMIT") /\ UNCHANGED grant
        ELSE IF \/ ~SameFile(call.opened, Identity(call.descriptor))
                \/ Len(call.buffer) # call.opened.size
          THEN Refuse("CONTENT_CHANGED_DURING_READ") /\ UNCHANGED grant
        ELSE Answer("CONTENT_ADMITTED", call.buffer) /\ grant' = Admitted(grant)
  /\ UNCHANGED <<node, place, changes>>

Revoke ==
  /\ call.at = "idle"
  /\ grant' = [grant EXCEPT !.revoked = TRUE]
  /\ reply' = [code |-> "CONSENT_REVOKED_BY_HOLDER", bytes |-> None]
  /\ UNCHANGED <<node, place, call, changes>>

Status(now) ==
  /\ call.at = "idle"
  /\ grant' = Observed(grant, now)
  /\ reply' = [code |-> "CONTENT_CONSENT_STATUS", bytes |-> None]
  /\ UNCHANGED <<node, place, call, changes>>

(***************************************************************************)
(* Other processes.                                                        *)
(***************************************************************************)
Others ==
  /\ changes < MaxChanges
  /\ changes' = changes + 1
  /\ UNCHANGED <<grant, call, reply>>

Replace ==
  /\ Others
  /\ place' \in (Nodes \union {"link", None}) \ {place}
  /\ UNCHANGED node

\* Stamps are the numbers of changes, so no version of a node has the stamp
\* of an earlier one.
Rewrite ==
  /\ Others
  /\ \E n \in Nodes, c \in Contents :
       node[n].kind = "file" /\ node' = [node EXCEPT ![n].content = c, ![n].stamp = changes']
  /\ UNCHANGED place

Link ==
  /\ Others
  /\ \E n \in Nodes :
       node[n].kind = "file" /\ node' = [node EXCEPT ![n].links = 2, ![n].stamp = changes']
  /\ UNCHANGED place

Next ==
  \/ \E now \in Samples : Status(now) \/ \E flaw \in Flaws : Admit(flaw, now)
  \/ Stat \/ Open \/ Examine \/ Read \/ Verify \/ Revoke
  \/ Replace \/ Rewrite \/ Link

Spec == Init /\ [][Next]_vars
=============================================================================
