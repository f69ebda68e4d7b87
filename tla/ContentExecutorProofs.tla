------------------------ MODULE ContentExecutorProofs -----------------------
(***************************************************************************)
(* What the executor promises about content, evidence and children holds   *)
(* for any number of overlapping calls, any contents, evidence and clock.  *)
(***************************************************************************)
EXTENDS ContentExecutorProperties, FiniteSetTheorems, TLAPS

Grants == [revoked : BOOLEAN, expired : BOOLEAN, issued : Nat, last : Nat, admitted : Nat]

Codes == {"OK", "EVIDENCE_OVERFLOW", "CHILD_SIGNALLED", "CHILD_EXIT_NONZERO",
          "SPAWN_ERROR", "DEADLINE_EXCEEDED", "ABORTED"}

Records ==
  [at : {"unused", "running", "settled", "returned"}, aborted : BOOLEAN,
   content : Contents \union {None}, child : {None, "alive", "killed", "ended", "closed"},
   ended : {None, "success", "failure", "signal"}, out : Nat, overflow : BOOLEAN,
   settled : Codes \union {None}, ok : BOOLEAN \union {None}]

\* A child that ended by itself and successfully, with its whole output read.
Sound(record) == record.ended = "success" /\ record.child = "closed" /\ record.overflow = FALSE

(***************************************************************************)
(* One call: its child lives only while the call runs and has not written  *)
(* too much, a call settled with OK has a sound child, and a returned call *)
(* has said whether it was answered.                                       *)
(***************************************************************************)
Consistent(record) ==
  /\ record \in Records
  /\ record.child = "alive" => record.at = "running" /\ record.overflow = FALSE
  /\ record.at = "unused" => record.child = None /\ record.overflow = FALSE /\ record.out = 0
  /\ record.at = "running" =>
       /\ record.child \in {"alive", "killed", "ended"}
       /\ record.child = "ended" => record.ended \in {"success", "failure", "signal"}
  /\ record.at = "settled" => record.settled \in Codes /\ (record.settled = "OK" => Sound(record))
  /\ record.at = "returned" => record.ok \in BOOLEAN

AnsweredIn(calls, c) == calls[c].at = "returned" /\ calls[c].ok = TRUE
Answered(c) == AnsweredIn(call, c)
Refused(c) == call[c].at = "returned" /\ call[c].ok = FALSE

About(list, c) == {i \in DOMAIN list : list[i].call = c}

Causes == {"CONTEXT_INVALID", "NO_CONTENT_FOR_REQUEST", "CONSENT_CONTENT_REFUSED", "BINARY_DIGEST_MISMATCH",
           "EVIDENCE_REFUSED", "CONSENT_REVOKED", "CONSENT_EXPIRED", "CONSENT_CLOCK_INVALID",
           "CONSENT_CLOCK_REGRESSION"} \union Codes

Readings == [call : Calls, content : Contents]
Refusals == [call : Calls, cause : Causes]

Types ==
  /\ grant \in Grants
  /\ DOMAIN call = Calls /\ call = [c \in Calls |-> call[c]]
  /\ \A c \in Calls : Consistent(call[c])
  /\ readings \in Seq(Readings)
  /\ refusals \in Seq(Refusals)

Ledger ==
  /\ \A i \in DOMAIN readings :
       /\ Answered(readings[i].call)
       /\ Sound(call[readings[i].call])
       /\ call[readings[i].call].content = readings[i].content
  /\ \A c \in Calls :
       /\ IF Answered(c) THEN \E k : About(readings, c) = {k} ELSE About(readings, c) = {}
       /\ IF Refused(c) THEN \E k : About(refusals, c) = {k} ELSE About(refusals, c) = {}

IInv == Types /\ Ledger

(***************************************************************************)
(* A step moves one call, or only the grant or the binary; it answers the  *)
(* call, refuses it, or neither.                                           *)
(***************************************************************************)
Moves(c) ==
  /\ call' = [call EXCEPT ![c] = call'[c]]
  /\ Consistent(call'[c])

Private(c) ==
  /\ Moves(c)
  /\ call'[c].at = "returned" <=> call[c].at = "returned"
  /\ call[c].at = "returned" => call'[c].ok = call[c].ok /\ ~Sound(call[c])
  /\ UNCHANGED <<readings, refusals>>

Refusing(c) ==
  /\ Moves(c)
  /\ call[c].at # "returned" /\ call'[c].at = "returned" /\ call'[c].ok = FALSE
  /\ \E cause \in Causes : refusals' = Append(refusals, [call |-> c, cause |-> cause])
  /\ UNCHANGED readings

Answering(c) ==
  /\ Moves(c)
  /\ call[c].at # "returned" /\ call'[c].at = "returned" /\ call'[c].ok = TRUE
  /\ Sound(call'[c])
  /\ \E content \in Contents :
       /\ readings' = Append(readings, [call |-> c, content |-> content])
       /\ call'[c].content = content
  /\ UNCHANGED refusals

LEMMA Written ==
  ASSUME Types, NEW c \in Calls, NEW record, call' = [call EXCEPT ![c] = record]
  PROVE  /\ call'[c] = record
         /\ call' = [call EXCEPT ![c] = call'[c]]
         /\ \A d \in Calls \ {c} : call'[d] = call[d]
         /\ DOMAIN call' = Calls /\ call' = [d \in Calls |-> call'[d]]
BY DEF Types

LEMMA NewCall == Consistent(Unused) /\ Unused.at = "unused"
<1>1. Unused \in Records
  BY DEF Unused, Records
<1>2. /\ Unused.at = "unused" /\ Unused.child = None /\ Unused.overflow = FALSE /\ Unused.out = 0
      /\ None # "alive"
  BY ExecutorAssumption DEF Unused
<1> QED BY <1>1, <1>2 DEF Consistent

LEMMA InitIInv == Init => IInv
<1> SUFFICES ASSUME Init PROVE IInv
  OBVIOUS
<1>1. grant \in Grants
  BY GrantAssumption DEF Init, NewGrant, Grants
<1>2. Types
  BY <1>1, NewCall DEF Init, Types
<1>3. \A c \in Calls : ~Answered(c) /\ ~Refused(c)
  BY NewCall DEF Init, Answered, AnsweredIn, Refused
<1>4. Ledger
  BY <1>3 DEF Init, Ledger, About
<1> QED BY <1>2, <1>4 DEF IInv

(***************************************************************************)
(* The child's events, the timer and the host, on one call.                *)
(***************************************************************************)
LEMMA UpdateIsPrivate ==
  ASSUME IInv, NEW c \in Calls, NEW record, Update(c, record), Consistent(record),
         record.at = "returned" <=> call[c].at = "returned",
         call[c].at = "returned" => record.ok = call[c].ok /\ call[c].child # "closed"
  PROVE  Private(c)
<1>1. call'[c] = record /\ Moves(c)
  BY Written DEF IInv, Update, Moves
<1> QED BY <1>1 DEF Private, Update, Sound

LEMMA KilledConsistent ==
  ASSUME NEW record, Consistent(record)
  PROVE  /\ Killed(record) \in Records
         /\ Killed(record).child \in {None, "killed", "ended", "closed"}
         /\ Killed(record).child = "killed" \/ Killed(record).child = record.child
         /\ Killed(record).at = record.at /\ Killed(record).ended = record.ended
         /\ Killed(record).overflow = record.overflow /\ Killed(record).out = record.out
         /\ Killed(record).ok = record.ok /\ Killed(record).settled = record.settled
         /\ record.child \notin {"alive"} => Killed(record) = record
BY DEF Killed, Consistent, Records

LEMMA SettledConsistent ==
  ASSUME NEW record \in Records, record.child # "alive", NEW code \in Codes,
         code = "OK" => Sound(record)
  PROVE  /\ Consistent(Settled(record, code))
         /\ Settled(record, code).at = "settled"
<1>1. PICK new : new = Settled(record, code)
  OBVIOUS
<1>2. /\ new \in Records /\ new.at = "settled" /\ new.settled = code /\ new.child = record.child
      /\ new.overflow = record.overflow /\ new.ended = record.ended
  BY <1>1 DEF Settled, Records
<1> QED BY <1>1, <1>2 DEF Consistent, Sound

LEMMA DataStep ==
  ASSUME IInv, NEW c \in Calls, NEW chunk \in 1..(Cap + 1), Data(c, chunk)
  PROVE  Private(c)
<1>1. PICK old : old = call[c]
  OBVIOUS
<1>2. Consistent(old) /\ old.at = "running" /\ Update(c, Received(old, chunk))
  BY <1>1 DEF IInv, Types, Data
<1>3. CASE old.out + chunk > Cap
  <2>1. PICK wide : wide = [old EXCEPT !.overflow = TRUE]
    OBVIOUS
  <2>2. /\ wide \in Records /\ wide.at = "running" /\ wide.child = old.child /\ wide.ended = old.ended
    BY <1>2, <2>1 DEF Consistent, Records
  <2>3. PICK new : new = Killed(wide)
    OBVIOUS
  <2>4. /\ new \in Records /\ new.at = "running" /\ new.ended = old.ended
        /\ new.child = (IF old.child = "alive" THEN "killed" ELSE old.child)
    BY <2>2, <2>3 DEF Killed, Records
  <2>5. Consistent(new)
    BY <1>2, <2>4 DEF Consistent
  <2>6. Update(c, new)
    BY <1>2, <1>3, <2>1, <2>3 DEF Received
  <2> QED BY <1>1, <1>2, <2>4, <2>5, <2>6, UpdateIsPrivate
<1>4. CASE ~(old.out + chunk > Cap)
  <2>1. PICK new : new = [old EXCEPT !.out = @ + chunk]
    OBVIOUS
  <2>2. /\ new \in Records /\ new.at = "running" /\ new.child = old.child /\ new.ended = old.ended
        /\ new.overflow = old.overflow
    BY <1>2, <2>1, ExecutorAssumption DEF Consistent, Records
  <2>3. Consistent(new)
    BY <1>2, <2>2 DEF Consistent
  <2>4. Update(c, new)
    BY <1>2, <1>4, <2>1 DEF Received
  <2> QED BY <1>1, <1>2, <2>2, <2>3, <2>4, UpdateIsPrivate
<1> QED BY <1>3, <1>4

LEMMA EndStep ==
  ASSUME IInv, NEW c \in Calls, NEW how \in {"success", "failure", "signal"},
         call[c].child \in {"alive", "killed"}, Update(c, Ended(call[c], how))
  PROVE  Private(c)
<1>1. PICK old : old = call[c]
  OBVIOUS
<1>2. Consistent(old) /\ old.child \in {"alive", "killed"} /\ Update(c, Ended(old, how))
  BY <1>1 DEF IInv, Types
<1>3. PICK new : new = Ended(old, how)
  OBVIOUS
<1>4. /\ new \in Records /\ new.at = old.at /\ new.child = "ended" /\ new.overflow = old.overflow
      /\ new.ok = old.ok /\ new.settled = old.settled
      /\ new.ended = (IF old.at = "running" THEN how ELSE None)
  BY <1>2, <1>3 DEF Ended, Consistent, Records
<1>5. old.at # "unused" /\ ~(old.at = "settled" /\ old.settled = "OK")
  BY <1>2, ExecutorAssumption DEF Consistent, Sound
<1>6. Consistent(new)
  BY <1>2, <1>4, <1>5 DEF Consistent
<1> QED BY <1>1, <1>2, <1>3, <1>4, <1>6, UpdateIsPrivate

LEMMA CloseStep ==
  ASSUME IInv, NEW c \in Calls, ChildCloses(c)
  PROVE  Private(c)
<1>1. PICK old : old = call[c]
  OBVIOUS
<1>2. PICK closed : closed = [old EXCEPT !.child = "closed"]
  OBVIOUS
<1>3. /\ Consistent(old) /\ old.child = "ended"
      /\ Update(c, IF old.at = "running" THEN Settled(closed, CloseCode(old)) ELSE closed)
  BY <1>1, <1>2 DEF IInv, Types, ChildCloses
<1>4. /\ closed \in Records /\ closed.at = old.at /\ closed.child = "closed" /\ closed.overflow = old.overflow
      /\ closed.ok = old.ok /\ closed.settled = old.settled /\ closed.ended = old.ended
  BY <1>2, <1>3 DEF Consistent, Records
<1>5. CASE old.at = "running"
  <2>1. CloseCode(old) \in Codes
    BY DEF CloseCode, Codes
  <2>2. old.ended \in {"success", "failure", "signal"} /\ old.overflow \in BOOLEAN
    BY <1>3, <1>5 DEF Consistent, Records
  <2>3. CloseCode(old) = "OK" => Sound(closed)
    BY <1>4, <2>2 DEF CloseCode, Sound
  <2>4. PICK new : new = Settled(closed, CloseCode(old))
    OBVIOUS
  <2>5. Consistent(new) /\ new.at = "settled"
    BY <1>4, <2>1, <2>3, <2>4, SettledConsistent
  <2> QED BY <1>1, <1>3, <1>5, <2>4, <2>5, UpdateIsPrivate
<1>6. CASE old.at # "running"
  <2>1. old.at # "unused" /\ ~(old.at = "settled" /\ old.settled = "OK")
    BY <1>3, ExecutorAssumption DEF Consistent, Sound
  <2>2. Consistent(closed)
    BY <1>3, <1>4, <1>6, <2>1 DEF Consistent
  <2> QED BY <1>1, <1>3, <1>4, <1>6, <2>2, UpdateIsPrivate
<1> QED BY <1>5, <1>6

LEMMA ErrorStep ==
  ASSUME IInv, NEW c \in Calls, ChildErrs(c)
  PROVE  Private(c)
<1>1. PICK old : old = call[c]
  OBVIOUS
<1>2. PICK record \in {Killed(old), [old EXCEPT !.child = "closed"]} :
        Update(c, IF old.at = "running" THEN Settled(record, "SPAWN_ERROR") ELSE record)
  BY <1>1 DEF ChildErrs
<1>3. Consistent(old) /\ old.child \in {"alive", "killed"}
  BY <1>1 DEF IInv, Types, ChildErrs
<1>4. /\ record \in Records /\ record.child \in {"killed", "closed"} /\ record.at = old.at
      /\ record.ok = old.ok /\ record.settled = old.settled /\ record.ended = old.ended
      /\ record.overflow = old.overflow
  BY <1>2, <1>3 DEF Killed, Consistent, Records
<1>5. CASE old.at = "running"
  <2>1. PICK new : new = Settled(record, "SPAWN_ERROR")
    OBVIOUS
  <2>2. Consistent(new) /\ new.at = "settled"
    BY <1>4, <2>1, SettledConsistent DEF Codes
  <2> QED BY <1>1, <1>2, <1>5, <2>1, <2>2, UpdateIsPrivate
<1>6. CASE old.at # "running"
  <2>1. old.at # "unused" /\ ~(old.at = "settled" /\ old.settled = "OK")
    BY <1>3, ExecutorAssumption DEF Consistent, Sound
  <2>2. Consistent(record)
    BY <1>3, <1>4, <1>6, <2>1 DEF Consistent
  <2> QED BY <1>1, <1>2, <1>3, <1>4, <1>6, <2>2, UpdateIsPrivate
<1> QED BY <1>5, <1>6

LEMMA StopSteps ==
  ASSUME IInv, NEW c \in Calls, TimerFires(c) \/ HostAborts(c)
  PROVE  Private(c)
<1>1. PICK old : old = call[c]
  OBVIOUS
<1>2. Consistent(old)
  BY <1>1 DEF IInv, Types
<1>3. ASSUME NEW record, NEW code \in Codes \ {"OK"}, Consistent(record), old.at = "running",
             Update(c, Settled(Killed(record), code))
      PROVE  Private(c)
  <2>1. PICK killed : killed = Killed(record)
    OBVIOUS
  <2>2. killed \in Records /\ killed.child # "alive"
    BY <1>3, <2>1, KilledConsistent, ExecutorAssumption
  <2>3. PICK new : new = Settled(killed, code)
    OBVIOUS
  <2>4. Consistent(new) /\ new.at = "settled"
    BY <2>2, <2>3, SettledConsistent
  <2> QED BY <1>1, <1>3, <2>1, <2>3, <2>4, UpdateIsPrivate
<1>4. CASE TimerFires(c)
  BY <1>1, <1>2, <1>3, <1>4 DEF TimerFires, AtDeadline, Codes
<1>5. CASE HostAborts(c)
  <2>1. PICK aborted : aborted = [old EXCEPT !.aborted = TRUE]
    OBVIOUS
  <2>2. /\ aborted \in Records /\ aborted.at = old.at /\ aborted.child = old.child /\ aborted.ended = old.ended
        /\ aborted.overflow = old.overflow /\ aborted.out = old.out /\ aborted.settled = old.settled
        /\ aborted.ok = old.ok
    BY <1>2, <2>1 DEF Consistent, Records
  <2>3. Consistent(aborted)
    BY <1>2, <2>2 DEF Consistent, Sound
  <2>4. /\ old.at \in {"unused", "running"}
        /\ Update(c, IF old.at = "running" THEN Settled(Killed(aborted), "ABORTED") ELSE aborted)
    BY <1>1, <1>5, <2>1 DEF HostAborts
  <2>5. CASE old.at = "running"
    BY <1>3, <2>3, <2>4, <2>5 DEF Codes
  <2>6. CASE old.at = "unused"
    BY <1>1, <2>2, <2>3, <2>4, <2>6, UpdateIsPrivate
  <2> QED BY <2>4, <2>5, <2>6
<1> QED BY <1>4, <1>5

(***************************************************************************)
(* The call of execute and the continuation of a settled call.             *)
(***************************************************************************)
LEMMA GrantSteps ==
  ASSUME NEW g \in Grants, NEW now \in Samples
  PROVE  /\ Observed(g, now) \in Grants
         /\ Observed(g, now).admitted = g.admitted
         /\ Admitted(Observed(g, now)) \in Grants
         /\ Admitted(Observed(g, now)).admitted = g.admitted + 1
         /\ LiveCode(g, now) = None => /\ g.revoked = FALSE
                                       /\ Admitted(Observed(g, now)).expired = FALSE
         /\ LiveCode(g, now) # None => LiveCode(g, now) \in Causes
<1>1. now \in Nat /\ Lifetime \in Nat
  BY GrantAssumption
<1>2. PICK seen : seen = Observed(g, now)
  OBVIOUS
<1>3. seen \in Grants /\ seen.admitted = g.admitted
  BY <1>1, <1>2 DEF Observed, Grants
<1>4. /\ Admitted(seen) \in Grants /\ Admitted(seen).admitted = seen.admitted + 1
      /\ Admitted(seen).expired = seen.expired
  BY <1>3 DEF Admitted, Grants
<1>5. ASSUME LiveCode(g, now) = None PROVE g.revoked = FALSE /\ seen.expired = FALSE
  <2>1. g.revoked = FALSE /\ g.expired = FALSE /\ now >= g.last /\ now <= MaxSafe /\ now < g.issued + Lifetime
    BY <1>1, <1>5, GrantAssumption DEF LiveCode, Grants
  <2>2. seen = [g EXCEPT !.last = now]
    BY <1>1, <1>2, <2>1 DEF Observed, Accepts, Grants
  <2> QED BY <2>1, <2>2 DEF Grants
<1>6. LiveCode(g, now) # None => LiveCode(g, now) \in Causes
  BY DEF LiveCode, Causes
<1> QED BY <1>2, <1>3, <1>4, <1>5, <1>6

LEMMA RefuseStep ==
  ASSUME IInv, NEW c \in Calls, call[c].at \in {"unused", "settled"},
         NEW cause \in Causes, Refuse(c, call[c], cause), UNCHANGED readings
  PROVE  Refusing(c) /\ call'[c].child # "alive"
<1>1. PICK old : old = call[c]
  OBVIOUS
<1>2. PICK new : new = [Unused EXCEPT !.at = "returned", !.ok = FALSE, !.child = old.child]
  OBVIOUS
<1>3. Consistent(old) /\ old.at # "running"
  BY <1>1 DEF IInv, Types
<1>4. old.child # "alive" /\ old.child \in {None, "alive", "killed", "ended", "closed"}
  BY <1>3 DEF Consistent, Records
<1>5. new \in Records /\ new.at = "returned" /\ new.ok = FALSE /\ new.child = old.child
  BY <1>2, <1>4 DEF Unused, Records
<1>6. Consistent(new)
  BY <1>4, <1>5 DEF Consistent
<1>7. call' = [call EXCEPT ![c] = new] /\ refusals' = Append(refusals, [call |-> c, cause |-> cause])
  BY <1>1, <1>2 DEF Refuse
<1>8. call'[c] = new /\ Moves(c)
  BY <1>6, <1>7, Written DEF IInv, Moves
<1> QED BY <1>1, <1>4, <1>5, <1>7, <1>8 DEF Refusing

\* A launch, and what had to hold for it.
Launching(c) ==
  /\ call'[c].at = "running" /\ call'[c].child = "alive"
  /\ binary = "pinned" /\ call[c].aborted = FALSE
  /\ grant.revoked = FALSE /\ grant'.expired = FALSE
  /\ grant'.admitted = grant.admitted + 1

LEMMA ExecuteStep ==
  ASSUME IInv, NEW c \in Calls, NEW flaw \in RequestFlaws, NEW content \in Contents \union {None},
         NEW now \in Samples, Execute(c, flaw, content, now)
  PROVE  /\ grant' \in Grants
         /\ Private(c) \/ Refusing(c)
         /\ call'[c].child # "alive" \/ Launching(c)
<1>1. PICK old : old = call[c]
  OBVIOUS
<1>2. Consistent(old) /\ old.at = "unused" /\ old.aborted \in BOOLEAN /\ grant \in Grants /\ UNCHANGED <<binary, readings>>
  BY <1>1 DEF IInv, Types, Execute, Consistent, Records
<1>3. PICK started : started = [old EXCEPT !.at = "running", !.content = content, !.child = "alive"]
  OBVIOUS
<1>4. PICK failed : failed = [old EXCEPT !.at = "settled", !.content = content, !.settled = "SPAWN_ERROR"]
  OBVIOUS
<1>5. PICK early : early = (IF flaw = "CONTEXT_INVALID" THEN flaw ELSE IF old.aborted THEN "ABORTED" ELSE flaw)
  OBVIOUS
<1>6. early # None => early \in Causes
  BY <1>5 DEF RequestFlaws, Causes, Codes
<1>7. early = None => old.aborted = FALSE
  BY <1>2, <1>5, ExecutorAssumption
<1>8. \/ early # None /\ Refuse(c, old, early) /\ UNCHANGED grant
      \/ early = None /\ LiveCode(grant, now) # None /\ Refuse(c, old, LiveCode(grant, now))
         /\ grant' = Observed(grant, now)
      \/ early = None /\ LiveCode(grant, now) = None /\ content = None
         /\ Refuse(c, old, "CONSENT_CONTENT_REFUSED") /\ grant' = Observed(grant, now)
      \/ early = None /\ LiveCode(grant, now) = None /\ content # None
         /\ grant' = Admitted(Observed(grant, now))
         /\ \/ ~BinaryFits /\ Refuse(c, old, "BINARY_DIGEST_MISMATCH")
            \/ BinaryFits /\ UNCHANGED refusals
               /\ call' \in {[call EXCEPT ![c] = started], [call EXCEPT ![c] = failed]}
  BY <1>1, <1>3, <1>4, <1>5 DEF Execute
<1>9. grant' \in Grants
  BY <1>2, <1>8, GrantSteps
<1>10. ASSUME NEW cause \in Causes, Refuse(c, old, cause) PROVE Refusing(c) /\ call'[c].child # "alive"
  BY <1>1, <1>2, <1>10, RefuseStep
<1>11. CASE \E cause \in Causes : Refuse(c, old, cause)
  BY <1>9, <1>10, <1>11
<1>12. CASE /\ early = None /\ LiveCode(grant, now) = None /\ content # None
            /\ grant' = Admitted(Observed(grant, now)) /\ BinaryFits /\ UNCHANGED refusals
            /\ call' \in {[call EXCEPT ![c] = started], [call EXCEPT ![c] = failed]}
  <2>1. /\ old.child = None /\ old.overflow = FALSE /\ None # "alive"
    BY <1>2, ExecutorAssumption DEF Consistent
  <2>2. /\ started \in Records /\ started.at = "running" /\ started.child = "alive"
        /\ started.overflow = FALSE
    BY <1>2, <1>3, <2>1 DEF Consistent, Records
  <2>3. /\ failed \in Records /\ failed.at = "settled" /\ failed.child = None
        /\ failed.overflow = FALSE /\ failed.settled = "SPAWN_ERROR"
    BY <1>2, <1>4, <2>1 DEF Consistent, Records, Codes
  <2>4. Consistent(started) /\ Consistent(failed)
    BY <2>1, <2>2, <2>3 DEF Consistent, Codes
  <2>5. CASE call' = [call EXCEPT ![c] = started]
    <3>1. call'[c] = started /\ Moves(c)
      BY <2>4, <2>5, Written DEF IInv, Moves
    <3>2. Launching(c)
      BY <1>1, <1>2, <1>7, <1>12, <2>2, <3>1, GrantSteps DEF Launching, BinaryFits
    <3> QED BY <1>1, <1>2, <1>9, <1>12, <2>2, <3>1, <3>2 DEF Private
  <2>6. CASE call' = [call EXCEPT ![c] = failed]
    <3>1. call'[c] = failed /\ Moves(c)
      BY <2>4, <2>6, Written DEF IInv, Moves
    <3> QED BY <1>1, <1>2, <1>9, <1>12, <2>1, <2>3, <3>1 DEF Private
  <2> QED BY <1>12, <2>5, <2>6
<1> QED BY <1>6, <1>8, <1>11, <1>12, GrantSteps, <1>2 DEF Causes

LEMMA FinishStep ==
  ASSUME IInv, NEW c \in Calls, NEW evidence \in Evidence, Finish(c, evidence)
  PROVE  /\ grant' = grant
         /\ Refusing(c) \/ Answering(c)
         /\ call'[c].child # "alive"
<1>1. PICK old : old = call[c]
  OBVIOUS
<1>2. PICK accepted \in BOOLEAN :
        accepted <=> old.settled = "OK" /\ old.out > 0 /\ EvidenceAccepted(evidence, old)
  OBVIOUS
<1>3. Consistent(old) /\ old.at = "settled" /\ grant' = grant
  BY <1>1 DEF IInv, Types, Finish
<1>4. CASE ~accepted
  <2>1. PICK cause : cause = (IF old.settled = "OK" THEN "EVIDENCE_REFUSED" ELSE old.settled)
    OBVIOUS
  <2>2. Refuse(c, old, cause) /\ UNCHANGED readings
    BY <1>1, <1>2, <1>4, <2>1 DEF Finish
  <2>3. cause \in Causes
    BY <1>3, <2>1 DEF Consistent, Records, Causes
  <2> QED BY <1>1, <1>3, <2>2, <2>3, RefuseStep
<1>5. CASE accepted
  <2>1. PICK new : new = [old EXCEPT !.at = "returned", !.ok = TRUE, !.settled = None, !.out = 0, !.aborted = FALSE]
    OBVIOUS
  <2>2. /\ call' = [call EXCEPT ![c] = new] /\ UNCHANGED refusals
        /\ readings' = Append(readings, [call |-> c, content |-> evidence.content])
    BY <1>1, <1>2, <1>5, <2>1 DEF Finish, Answer
  <2>3. Sound(old) /\ evidence.content = old.content /\ evidence.content \in Contents
    BY <1>2, <1>3, <1>5 DEF Consistent, EvidenceAccepted, Evidence
  <2>4. /\ new \in Records /\ new.at = "returned" /\ new.ok = TRUE /\ new.content = old.content
        /\ new.child = old.child /\ new.ended = old.ended /\ new.overflow = old.overflow
    BY <1>3, <2>1 DEF Consistent, Records
  <2>5. Sound(new) /\ Consistent(new)
    BY <2>3, <2>4 DEF Sound, Consistent
  <2>6. call'[c] = new /\ Moves(c)
    BY <2>2, <2>5, Written DEF IInv, Moves
  <2>7. Answering(c)
    BY <1>1, <1>3, <2>2, <2>3, <2>4, <2>5, <2>6 DEF Answering
  <2> QED BY <1>3, <2>5, <2>6, <2>7 DEF Sound
<1> QED BY <1>4, <1>5

(***************************************************************************)
(* Every step is one of these, on one call, or none.                       *)
(***************************************************************************)
Elsewhere == UNCHANGED <<call, readings, refusals>>

LEMMA StepKinds ==
  ASSUME IInv, [Next]_vars
  PROVE  /\ grant' \in Grants
         /\ Elsewhere \/ \E c \in Calls : Private(c) \/ Refusing(c) \/ Answering(c)
<1>1. grant \in Grants
  BY DEF IInv, Types
<1>2. ASSUME NEW c \in Calls, CallStep(c) \/ TimerFires(c) \/ Continue(c)
      PROVE  grant' \in Grants /\ (Private(c) \/ Refusing(c) \/ Answering(c))
  <2>1. ASSUME NEW flaw \in RequestFlaws, NEW content \in Contents \union {None}, NEW now \in Samples,
               Execute(c, flaw, content, now)
        PROVE  grant' \in Grants /\ (Private(c) \/ Refusing(c))
    BY <2>1, ExecuteStep
  <2>2. ASSUME NEW chunk \in 1..(Cap + 1), Data(c, chunk) PROVE grant' = grant /\ Private(c)
    BY <2>2, DataStep DEF Data, Update
  <2>3. ASSUME NEW how \in {"success", "failure", "signal"}, ChildEnds(c, how) \/ ChildCrashes(c)
        PROVE  grant' = grant /\ Private(c)
    BY <2>3, EndStep DEF ChildEnds, ChildCrashes, Update
  <2>4. ChildCloses(c) \/ ChildErrs(c) \/ HostAborts(c) \/ TimerFires(c) => grant' = grant /\ Private(c)
    BY CloseStep, ErrorStep, StopSteps DEF ChildCloses, ChildErrs, HostAborts, TimerFires, Update
  <2>5. ASSUME NEW evidence \in Evidence, Finish(c, evidence)
        PROVE  grant' = grant /\ (Refusing(c) \/ Answering(c))
    BY <2>5, FinishStep
  <2> QED BY <1>1, <1>2, <2>1, <2>2, <2>3, <2>4, <2>5 DEF CallStep, Continue
<1>3. CASE Revoke
  BY <1>1, <1>3 DEF Revoke, Elsewhere, Grants
<1>4. CASE Install \/ UNCHANGED vars
  BY <1>1, <1>4 DEF Install, Elsewhere, vars
<1> QED BY <1>2, <1>3, <1>4 DEF Next

\* One call moved: its record is consistent, the others are as they were.
LEMMA MovedCall ==
  ASSUME Types, NEW c \in Calls, Moves(c)
  PROVE  /\ \A d \in Calls \ {c} : call'[d] = call[d]
         /\ DOMAIN call' = Calls /\ call' = [d \in Calls |-> call'[d]]
         /\ \A d \in Calls : Consistent(call'[d])
BY Written DEF Moves, Types

LEMMA ListTypes ==
  ASSUME Types
  PROVE  readings \in Seq(Readings) /\ refusals \in Seq(Refusals)
BY DEF Types

LEMMA TypesNext == IInv /\ [Next]_vars => Types'
<1> SUFFICES ASSUME IInv, [Next]_vars PROVE Types'
  OBVIOUS
<1>1. grant' \in Grants
  BY StepKinds
<1>2. CASE Elsewhere
  BY <1>1, <1>2 DEF Elsewhere, IInv, Types
<1>3. ASSUME NEW c \in Calls, Private(c) \/ Refusing(c) \/ Answering(c) PROVE Types'
  <2>1. /\ DOMAIN call' = Calls /\ call' = [d \in Calls |-> call'[d]]
        /\ \A d \in Calls : Consistent(call'[d])
    BY <1>3, MovedCall DEF IInv, Private, Refusing, Answering
  <2>2. readings' \in Seq(Readings)
    <3>1. readings' = readings \/ \E entry \in Readings : readings' = Append(readings, entry)
      BY <1>3 DEF Private, Refusing, Answering, Readings
    <3> QED BY <3>1, ListTypes DEF IInv
  <2>3. refusals' \in Seq(Refusals)
    <3>1. refusals' = refusals \/ \E entry \in Refusals : refusals' = Append(refusals, entry)
      BY <1>3 DEF Private, Refusing, Answering, Refusals
    <3> QED BY <3>1, ListTypes DEF IInv
  <2> QED BY <1>1, <2>1, <2>2, <2>3 DEF Types
<1> QED BY <1>2, <1>3, StepKinds

(***************************************************************************)
(* The ledger.                                                             *)
(***************************************************************************)
LEMMA OneMore ==
  ASSUME NEW S, NEW list \in Seq(S), NEW entry \in S, NEW c
  PROVE  About(Append(list, entry), c) =
           About(list, c) \union (IF entry.call = c THEN {Len(list) + 1} ELSE {})
<1>1. /\ DOMAIN Append(list, entry) = DOMAIN list \union {Len(list) + 1}
      /\ \A i \in DOMAIN list : Append(list, entry)[i] = list[i]
      /\ Append(list, entry)[Len(list) + 1] = entry
  OBVIOUS
<1> QED BY <1>1 DEF About

LEMMA ReadingEntries == ASSUME Types PROVE \A i \in DOMAIN readings : readings[i].call \in Calls
<1>1. \A i \in DOMAIN readings : readings[i] \in Readings
  BY ListTypes
<1> QED BY <1>1 DEF Readings

\* A call that already has a reading is not moved to another answer.
LEMMA PrivateKeepsLedger ==
  ASSUME IInv, NEW c \in Calls, Private(c)
  PROVE  Ledger'
<1>1. \A d \in Calls \ {c} : call'[d] = call[d]
  BY MovedCall DEF IInv, Private
<1>2. \A d \in Calls : (Answered(d)' <=> Answered(d)) /\ (Refused(d)' <=> Refused(d))
  BY <1>1 DEF Private, Answered, AnsweredIn, Refused
<1>3. \A d \in Calls : Answered(d) /\ Sound(call[d]) => call'[d] = call[d]
  BY <1>1 DEF Private, Answered, AnsweredIn
<1> QED BY <1>2, <1>3, ReadingEntries DEF Ledger, IInv, Private

LEMMA RefusingKeepsLedger ==
  ASSUME IInv, NEW c \in Calls, Refusing(c)
  PROVE  Ledger'
<1>1. \A d \in Calls \ {c} : call'[d] = call[d]
  BY MovedCall DEF IInv, Refusing
<1>2. ~Answered(c) /\ ~Answered(c)' /\ ~Refused(c) /\ Refused(c)'
  BY DEF Refusing, Answered, AnsweredIn, Refused
<1>3. \A d \in Calls \ {c} : (Answered(d)' <=> Answered(d)) /\ (Refused(d)' <=> Refused(d))
  BY <1>1 DEF Answered, AnsweredIn, Refused
<1>4. PICK cause \in Causes : refusals' = Append(refusals, [call |-> c, cause |-> cause])
  BY DEF Refusing
<1>5. PICK entry \in Refusals : entry.call = c /\ refusals' = Append(refusals, entry)
  BY <1>4 DEF Refusals
<1>6. \A d : About(refusals', d) = About(refusals, d) \union (IF entry.call = d THEN {Len(refusals) + 1} ELSE {})
  BY <1>5, OneMore, ListTypes DEF IInv
<1>7. \A d \in Calls :
        IF Refused(d)' THEN \E k : About(refusals', d) = {k} ELSE About(refusals', d) = {}
  <2>1. \A d \in Calls : IF Refused(d) THEN \E k : About(refusals, d) = {k} ELSE About(refusals, d) = {}
    BY DEF IInv, Ledger
  <2>2. About(refusals', c) = {Len(refusals) + 1}
    BY <1>2, <1>5, <1>6, <2>1
  <2>3. \A d \in Calls \ {c} : About(refusals', d) = About(refusals, d)
    BY <1>5, <1>6
  <2> QED BY <1>2, <1>3, <2>1, <2>2, <2>3
<1>8. readings' = readings
  BY DEF Refusing
<1>9. \A i \in DOMAIN readings : readings[i].call \in Calls \ {c}
  BY <1>2, ReadingEntries DEF IInv, Ledger
<1> QED BY <1>1, <1>2, <1>3, <1>7, <1>8, <1>9 DEF Ledger, IInv

LEMMA AnsweringKeepsLedger ==
  ASSUME IInv, NEW c \in Calls, Answering(c)
  PROVE  Ledger'
<1>1. \A d \in Calls \ {c} : call'[d] = call[d]
  BY MovedCall DEF IInv, Answering
<1>2. ~Answered(c) /\ Answered(c)' /\ ~Refused(c) /\ ~Refused(c)' /\ Sound(call'[c])
  BY DEF Answering, Answered, AnsweredIn, Refused
<1>3. \A d \in Calls \ {c} : (Answered(d)' <=> Answered(d)) /\ (Refused(d)' <=> Refused(d))
  BY <1>1 DEF Answered, AnsweredIn, Refused
<1>4. PICK content \in Contents :
        readings' = Append(readings, [call |-> c, content |-> content]) /\ call'[c].content = content
  BY DEF Answering
<1>5. PICK entry \in Readings :
        entry.call = c /\ entry.content = call'[c].content /\ readings' = Append(readings, entry)
  BY <1>4 DEF Readings
<1>6. \A d : About(readings', d) = About(readings, d) \union (IF entry.call = d THEN {Len(readings) + 1} ELSE {})
  BY <1>5, OneMore, ListTypes DEF IInv
<1>7. \A d \in Calls :
        IF Answered(d)' THEN \E k : About(readings', d) = {k} ELSE About(readings', d) = {}
  <2>1. \A d \in Calls : IF Answered(d) THEN \E k : About(readings, d) = {k} ELSE About(readings, d) = {}
    BY DEF IInv, Ledger
  <2>2. About(readings', c) = {Len(readings) + 1}
    BY <1>2, <1>5, <1>6, <2>1
  <2>3. \A d \in Calls \ {c} : About(readings', d) = About(readings, d)
    BY <1>5, <1>6
  <2> QED BY <1>2, <1>3, <2>1, <2>2, <2>3
<1>8. refusals' = refusals
  BY DEF Answering
<1>9. \A i \in DOMAIN readings : readings[i].call \in Calls \ {c}
  BY <1>2, ReadingEntries DEF IInv, Ledger
<1>10. /\ DOMAIN readings' = DOMAIN readings \union {Len(readings) + 1}
       /\ \A i \in DOMAIN readings : readings'[i] = readings[i]
       /\ readings'[Len(readings) + 1] = entry
  BY <1>5, ListTypes DEF IInv
<1>11. \A i \in DOMAIN readings' :
         /\ AnsweredIn(call', readings'[i].call)
         /\ Sound(call'[readings'[i].call])
         /\ call'[readings'[i].call].content = readings'[i].content
  <2>1. ASSUME NEW i \in DOMAIN readings
        PROVE  /\ AnsweredIn(call', readings[i].call)
               /\ Sound(call'[readings[i].call])
               /\ call'[readings[i].call].content = readings[i].content
    <3>1. PICK d \in Calls \ {c} : d = readings[i].call
      BY <1>9
    <3>2. AnsweredIn(call, d) /\ Sound(call[d]) /\ call[d].content = readings[i].content
      BY <3>1 DEF IInv, Ledger, Answered
    <3>3. AnsweredIn(call', d) /\ Sound(call'[d]) /\ call'[d].content = readings[i].content
      BY <1>1, <3>2 DEF AnsweredIn
    <3> QED BY <3>1, <3>3
  <2>2. /\ AnsweredIn(call', entry.call)
        /\ Sound(call'[entry.call])
        /\ call'[entry.call].content = entry.content
    BY <1>2, <1>5 DEF Answered
  <2> QED BY <1>10, <2>1, <2>2
<1>12. \A d \in Calls :
         IF Refused(d)' THEN \E k : About(refusals', d) = {k} ELSE About(refusals', d) = {}
  BY <1>2, <1>3, <1>8 DEF Ledger, IInv
<1> QED BY <1>7, <1>11, <1>12 DEF Ledger, Answered

LEMMA NextIInv == IInv /\ [Next]_vars => IInv'
<1> SUFFICES ASSUME IInv, [Next]_vars PROVE IInv'
  OBVIOUS
<1>1. Types'
  BY TypesNext
<1>2. Elsewhere => Ledger'
  BY DEF Elsewhere, IInv, Ledger, Answered, AnsweredIn, Refused
<1>3. Ledger'
  BY <1>2, StepKinds, PrivateKeepsLedger, RefusingKeepsLedger, AnsweringKeepsLedger
<1> QED BY <1>1, <1>3 DEF IInv

LEMMA Invariant == Spec => []IInv
BY InitIInv, NextIInv, PTL DEF Spec

(***************************************************************************)
(* One record for every returned call and none before, for any number of   *)
(* calls that overlap and any order of their children's events.            *)
(***************************************************************************)
THEOREM CallsLeaveOneRecord == Spec => []OneRecordPerCall
<1>1. IInv => OneRecordPerCall
  <2> SUFFICES ASSUME IInv, NEW c \in Calls
               PROVE  /\ Cardinality(About(readings, c)) = (IF Returned(c) /\ call[c].ok THEN 1 ELSE 0)
                      /\ Cardinality(About(refusals, c)) = (IF Returned(c) /\ ~call[c].ok THEN 1 ELSE 0)
    BY DEF OneRecordPerCall, About
  <2>1. Returned(c) => call[c].ok \in BOOLEAN
    BY DEF Returned, IInv, Types, Consistent
  <2>2. /\ Returned(c) /\ call[c].ok <=> Answered(c)
        /\ Returned(c) /\ ~call[c].ok <=> Refused(c)
    BY <2>1 DEF Returned, Answered, AnsweredIn, Refused
  <2>3. /\ IF Answered(c) THEN \E k : About(readings, c) = {k} ELSE About(readings, c) = {}
        /\ IF Refused(c) THEN \E k : About(refusals, c) = {k} ELSE About(refusals, c) = {}
    BY DEF IInv, Ledger
  <2> QED BY <2>2, <2>3, FS_Singleton, FS_EmptySet
<1> QED BY <1>1, Invariant, PTL

(***************************************************************************)
(* A reading names the content admitted for its own call and comes from a  *)
(* child that ended successfully with its output read to the end.          *)
(***************************************************************************)
THEOREM ReadingsFollowConsent == Spec => []ReadingsAreConsented
<1>1. IInv => ReadingsAreConsented
  BY DEF IInv, Ledger, Sound, ReadingsAreConsented
<1> QED BY <1>1, Invariant, PTL

(***************************************************************************)
(* No child is left running unsignalled after its call is settled.         *)
(***************************************************************************)
THEOREM ChildrenDoNotOutlive == Spec => []NoChildLeftRunning
<1>1. IInv => NoChildLeftRunning
  BY DEF IInv, Types, Consistent, NoChildLeftRunning
<1> QED BY <1>1, Invariant, PTL

\* What a step that launches a child must have found.
Launches ==
  \A c \in Calls : call'[c].child = "alive" /\ call[c].child = None =>
    /\ binary = "pinned"
    /\ ~call[c].aborted
    /\ ~grant.revoked /\ ~grant'.expired
    /\ grant'.admitted = grant.admitted + 1

LEMMA StartedHere ==
  ASSUME IInv, [Next]_vars, NEW c \in Calls, call'[c].child = "alive", call[c].child = None
  PROVE  Launching(c)
<1>1. None \notin {"alive", "killed", "ended", "closed"}
  BY ExecutorAssumption
<1>2. ASSUME NEW d \in Calls, Update(d, call'[d]) \/ Private(d) \/ Refusing(d) \/ Answering(d), d # c PROVE FALSE
  <2>1. call'[c] = call[c]
    BY <1>2, Written, MovedCall DEF IInv, Update, Private, Refusing, Answering
  <2> QED BY <1>1, <2>1
<1>3. ASSUME NEW d \in Calls, CallStep(d) \/ TimerFires(d) \/ Continue(d) PROVE Launching(c)
  <2>1. ASSUME NEW flaw \in RequestFlaws, NEW content \in Contents \union {None}, NEW now \in Samples,
               Execute(d, flaw, content, now)
        PROVE  Launching(c)
    BY <1>2, <2>1, ExecuteStep
  <2>2. ASSUME NEW evidence \in Evidence, Finish(d, evidence) PROVE FALSE
    BY <1>2, <2>2, FinishStep
  <2>3. ASSUME NEW chunk \in 1..(Cap + 1), Data(d, chunk) PROVE FALSE
    BY <1>1, <1>2, <2>3, DataStep DEF Data
  <2>4. ASSUME NEW how \in {"success", "failure", "signal"}, ChildEnds(d, how) \/ ChildCrashes(d) PROVE FALSE
    BY <1>1, <1>2, <2>4, EndStep DEF ChildEnds, ChildCrashes
  <2>5. ASSUME ChildCloses(d) \/ ChildErrs(d) PROVE FALSE
    BY <1>1, <1>2, <2>5, CloseStep, ErrorStep DEF ChildCloses, ChildErrs
  <2>6. ASSUME TimerFires(d) \/ HostAborts(d) PROVE FALSE
    <3>1. d = c /\ Private(c)
      BY <1>2, <2>6, StopSteps
    <3>2. call'[c].at = "running"
      BY <3>1 DEF Private, Moves, Consistent
    <3>3. Consistent(call[c])
      BY DEF IInv, Types
    <3>4. call[c].at = "unused"
      BY <1>1, <2>6, <3>1, <3>3 DEF TimerFires, HostAborts, Consistent
    <3>5. call'[c].child = call[c].child
      BY <2>6, <3>1, <3>3, <3>4, Written DEF TimerFires, HostAborts, Update, IInv, Consistent, Records
    <3> QED BY <1>1, <3>5
  <2> QED BY <1>3, <2>1, <2>2, <2>3, <2>4, <2>5, <2>6 DEF CallStep, Continue
<1>4. ASSUME Revoke \/ Install \/ UNCHANGED vars PROVE FALSE
  BY <1>1, <1>4 DEF Revoke, Install, vars
<1> QED BY <1>3, <1>4 DEF Next

(***************************************************************************)
(* A child is launched only on the verified binary, for a call the host    *)
(* has not aborted, under a live grant, with one admission.                *)
(***************************************************************************)
THEOREM LaunchesFollowConsent == Spec => LaunchesNeedConsent
<1>1. IInv /\ [Next]_vars => Launches
  BY StartedHere DEF Launching, Launches
<1> QED BY <1>1, Invariant, PTL DEF Spec, LaunchesNeedConsent, Launches
=============================================================================
