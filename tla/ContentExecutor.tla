--------------------------- MODULE ContentExecutor --------------------------
(***************************************************************************)
(* createAFMContentExecutor (gate/afm-content-executor.mjs): concurrent    *)
(* calls of execute, each of which has one item admitted by the grant,     *)
(* starts one child process on it and reads the child's evidence.          *)
(*                                                                         *)
(* A step is a piece of synchronous code.  Everything from the call of     *)
(* execute to the spawn is one piece, so the grant is judged at the launch *)
(* (ContentConsent models the admission inside it).  The child, the host   *)
(* and the file are the environment.  The binary lies in a stable          *)
(* directory, as the code requires: it does not change during that piece.  *)
(***************************************************************************)
EXTENDS ContentGrant, Sequences, FiniteSets

CONSTANTS
  Calls,      \* calls of execute, each made at most once
  Contents,   \* what the items' files may hold
  Cap         \* MAX_EVIDENCE_BYTES, in chunks

ASSUME ExecutorAssumption ==
  /\ Cap \in Nat \ {0}
  /\ None \notin Contents
  /\ None \notin {"alive", "killed", "ended", "closed", "ABORTED", "CONTEXT_INVALID"}

VARIABLES
  grant,
  binary,     \* what lies at the binary's path
  call,       \* the calls
  readings,   \* accepted evidence, oldest first
  refusals    \* refused calls, oldest first

vars == <<grant, binary, call, readings, refusals>>

\* `settled` is what the child's promise resolved with, `out` the length of
\* what was read from the child, `ended` how the child ended.
Unused == [at |-> "unused", aborted |-> FALSE, content |-> None, child |-> None, ended |-> None,
           out |-> 0, overflow |-> FALSE, settled |-> None, ok |-> None]

Init ==
  /\ \E issued \in {s \in Samples : s <= MaxSafe} : grant = NewGrant(issued)
  /\ binary = "pinned"
  /\ call = [c \in Calls |-> Unused]
  /\ readings = <<>>
  /\ refusals = <<>>

\* What execute and runProbe held only for themselves is gone.
Answer(c, record) ==
  call' = [call EXCEPT ![c] =
             [record EXCEPT !.at = "returned", !.ok = TRUE, !.settled = None, !.out = 0,
                            !.aborted = FALSE]]

Refuse(c, record, cause) ==
  /\ call' = [call EXCEPT ![c] =
       [Unused EXCEPT !.at = "returned", !.ok = FALSE, !.child = record.child]]
  /\ refusals' = Append(refusals, [call |-> c, cause |-> cause])

(***************************************************************************)
(* execute: the checks in their order, the admission and the launch.  The  *)
(* prefix of the grant's codes is left out.                                *)
(***************************************************************************)
\* What is wrong with the request, or None; the third stands for a refused
\* packet as well.
RequestFlaws == {None, "CONTEXT_INVALID", "NO_CONTENT_FOR_REQUEST"}

\* Slip: the launch trusts the check made when the executor was created.
BinaryTrusted == TRUE

BinaryFits == binary = "pinned"

Execute(c, flaw, content, now) ==
  LET notLive == LiveCode(grant, now)
      started == [call[c] EXCEPT !.at = "running", !.content = content, !.child = "alive"]
      failed == [call[c] EXCEPT !.at = "settled", !.content = content, !.settled = "SPAWN_ERROR"]
      early == IF flaw = "CONTEXT_INVALID" THEN flaw
               ELSE IF call[c].aborted THEN "ABORTED"
               ELSE flaw
  IN /\ call[c].at = "unused"
     /\ IF early # None THEN Refuse(c, call[c], early) /\ UNCHANGED grant
        ELSE IF notLive # None THEN Refuse(c, call[c], notLive) /\ grant' = Observed(grant, now)
        ELSE IF content = None
          THEN Refuse(c, call[c], "CONSENT_CONTENT_REFUSED") /\ grant' = Observed(grant, now)
        ELSE /\ grant' = Admitted(Observed(grant, now))
             /\ IF ~BinaryFits THEN Refuse(c, call[c], "BINARY_DIGEST_MISMATCH")
                ELSE /\ call' \in {[call EXCEPT ![c] = started], [call EXCEPT ![c] = failed]}
                     /\ UNCHANGED refusals
     /\ UNCHANGED <<binary, readings>>

(***************************************************************************)
(* runProbe: the first of the child's end, its error, the timer and the    *)
(* host's signal settles the call; all but the first kill the child, which *)
(* is without effect once it has ended.                                    *)
(***************************************************************************)
Killed(record) == IF record.child = "alive" THEN [record EXCEPT !.child = "killed"] ELSE record

Settled(record, code) == [record EXCEPT !.at = "settled", !.settled = code]

Update(c, record) ==
  /\ call' = [call EXCEPT ![c] = record]
  /\ UNCHANGED <<grant, binary, readings, refusals>>

Received(record, chunk) ==
  IF record.out + chunk > Cap THEN Killed([record EXCEPT !.overflow = TRUE])
  ELSE [record EXCEPT !.out = @ + chunk]

Data(c, chunk) ==
  /\ call[c].at = "running"
  /\ call[c].child \in {"alive", "killed", "ended"}
  /\ Update(c, Received(call[c], chunk))

\* How a child ended matters while somebody waits for it.
Ended(record, how) ==
  [record EXCEPT !.child = "ended", !.ended = IF record.at = "running" THEN how ELSE None]

\* A child that was killed too late may still end by itself.
ChildEnds(c, how) ==
  /\ call[c].child \in {"alive", "killed"}
  /\ how = "signal" => call[c].child = "killed"
  /\ Update(c, Ended(call[c], how))

\* The child crashes by a signal of its own.
ChildCrashes(c) ==
  /\ call[c].child = "alive"
  /\ Update(c, Ended(call[c], "signal"))

\* Slip: a truncated output is taken for the child's evidence.
CloseCodeOfExit(record) ==
  IF record.ended = "signal" THEN "CHILD_SIGNALLED"
  ELSE IF record.ended = "failure" THEN "CHILD_EXIT_NONZERO"
  ELSE "OK"

CloseCode(record) ==
  IF record.overflow THEN "EVIDENCE_OVERFLOW"
  ELSE IF record.ended = "signal" THEN "CHILD_SIGNALLED"
  ELSE IF record.ended = "failure" THEN "CHILD_EXIT_NONZERO"
  ELSE "OK"

\* Its output has been read to the end: the close event.
ChildCloses(c) ==
  /\ call[c].child = "ended"
  /\ LET closed == [call[c] EXCEPT !.child = "closed"]
     IN Update(c, IF call[c].at = "running" THEN Settled(closed, CloseCode(call[c])) ELSE closed)

\* The child could not be started, or a signal could not be sent to it.
ChildErrs(c) ==
  /\ call[c].child \in {"alive", "killed"}
  /\ \E record \in {Killed(call[c]), [call[c] EXCEPT !.child = "closed"]} :
       /\ record.child = "closed" => call[c].child = "alive" /\ call[c].out = 0
       /\ Update(c, IF call[c].at = "running" THEN Settled(record, "SPAWN_ERROR") ELSE record)

\* Slip: the deadline settles the call and leaves the child running.
AtDeadlineForgotten(record) == Settled(record, "DEADLINE_EXCEEDED")

\* Slip: the deadline kills the child and waits for its end.
AtDeadlineKillsOnly(record) == Killed(record)

AtDeadline(record) == Settled(Killed(record), "DEADLINE_EXCEEDED")

TimerFires(c) ==
  /\ call[c].at = "running"
  /\ Update(c, AtDeadline(call[c]))

\* The host's signal; its listener is gone once the call is settled, and nobody
\* looks at it again.
HostAborts(c) ==
  /\ ~call[c].aborted /\ call[c].at \in {"unused", "running"}
  /\ LET aborted == [call[c] EXCEPT !.aborted = TRUE]
     IN Update(c, IF call[c].at = "running" THEN Settled(Killed(aborted), "ABORTED") ELSE aborted)

(***************************************************************************)
(* The continuation after runProbe.  What a child reports is its own       *)
(* doing; `fits` stands for everything about it but the content it names.  *)
(***************************************************************************)
Evidence == [content : Contents, fits : BOOLEAN]

EvidenceAccepted(evidence, record) == evidence.fits /\ evidence.content = record.content

\* Slip: a reading is kept before the evidence is judged.
FinishKeepsFirst(c, evidence) ==
  LET accepted == call[c].settled = "OK" /\ call[c].out > 0 /\ EvidenceAccepted(evidence, call[c])
  IN /\ call[c].at = "settled"
     /\ IF accepted THEN Answer(c, call[c]) /\ UNCHANGED refusals
        ELSE Refuse(c, call[c], "EVIDENCE_REFUSED")
     /\ readings' = IF call[c].settled # "OK" THEN readings
                    ELSE Append(readings, [call |-> c, content |-> evidence.content])
     /\ UNCHANGED <<grant, binary>>

Finish(c, evidence) ==
  LET accepted == call[c].settled = "OK" /\ call[c].out > 0 /\ EvidenceAccepted(evidence, call[c])
  IN /\ call[c].at = "settled"
     /\ IF accepted THEN Answer(c, call[c]) /\ UNCHANGED refusals
        ELSE Refuse(c, call[c],
                    IF call[c].settled = "OK" THEN "EVIDENCE_REFUSED" ELSE call[c].settled)
     /\ readings' = IF ~accepted THEN readings
                    ELSE Append(readings, [call |-> c, content |-> evidence.content])
     /\ UNCHANGED <<grant, binary>>

(***************************************************************************)
(* The grant's holder and whoever installs binaries.                       *)
(***************************************************************************)
Revoke ==
  /\ grant' = [grant EXCEPT !.revoked = TRUE]
  /\ UNCHANGED <<binary, call, readings, refusals>>

Install ==
  /\ binary' \in {"pinned", "other"}
  /\ UNCHANGED <<grant, call, readings, refusals>>

Continue(c) == \E evidence \in Evidence : Finish(c, evidence)

CallStep(c) ==
  \/ \E flaw \in RequestFlaws, content \in Contents \union {None}, now \in Samples :
       Execute(c, flaw, content, now)
  \/ \E chunk \in 1..(Cap + 1) : Data(c, chunk)
  \/ \E how \in {"success", "failure", "signal"} : ChildEnds(c, how)
  \/ ChildCrashes(c) \/ ChildCloses(c) \/ ChildErrs(c)
  \/ HostAborts(c)

Next ==
  \/ \E c \in Calls : CallStep(c) \/ TimerFires(c) \/ Continue(c)
  \/ Revoke \/ Install

Spec == Init /\ [][Next]_vars

\* Due timers and microtasks run; a child may never end, nor a host abort.
Fairness == \A c \in Calls : WF_vars(TimerFires(c)) /\ WF_vars(Continue(c))

FairSpec == Spec /\ Fairness
=============================================================================
