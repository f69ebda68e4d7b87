---------------------------- MODULE WorkflowRun ----------------------------
(***************************************************************************)
(* What a workflow run promises its caller, without clocks, calls or       *)
(* evidence: candidates are presented one after the other, each of them    *)
(* collects the approvals of all required gates or is withdrawn, and the   *)
(* run completes only while the candidate presented last holds them all.   *)
(***************************************************************************)
CONSTANTS Candidates, Outcomes, Nobody

VARIABLES
  required,   \* the gates of this run
  subject,    \* the candidate presented last
  presented,  \* every candidate presented so far
  open,       \* the subject may still be approved
  approvals,  \* the gates that approved the subject
  verdict,    \* the workflow outcome
  published   \* the outcome the caller is told

vars == <<required, subject, presented, open, approvals, verdict, published>>

Init ==
  /\ subject = Nobody
  /\ presented = {}
  /\ open = FALSE
  /\ approvals = {}
  /\ verdict = Nobody
  /\ published = Nobody

Present(c) ==
  /\ verdict = Nobody
  /\ published = Nobody
  /\ c \notin presented
  /\ subject' = c
  /\ presented' = presented \union {c}
  /\ open' = TRUE
  /\ approvals' = {}
  /\ UNCHANGED <<required, verdict, published>>

Approve(gate) ==
  /\ open
  /\ gate \in required \ approvals
  /\ approvals' = approvals \union {gate}
  /\ UNCHANGED <<required, subject, presented, open, verdict, published>>

Withdraw ==
  /\ open
  /\ open' = FALSE
  /\ approvals' = {}
  /\ UNCHANGED <<required, subject, presented, verdict, published>>

Conclude(final) ==
  /\ verdict = Nobody
  /\ published = Nobody
  /\ final = "COMPLETED" => open /\ approvals = required
  /\ verdict' = final
  /\ open' = FALSE
  /\ UNCHANGED <<required, subject, presented, approvals, published>>

\* A run refused at setup is BLOCKED without a verdict.
Publish(final) ==
  /\ published = Nobody
  /\ final = verdict \/ final \in {"BLOCKED", "CANCELLED", "TIMED_OUT"}
  /\ verdict = Nobody => final = "BLOCKED" /\ subject = Nobody
  /\ published' = final
  /\ UNCHANGED <<required, subject, presented, open, approvals, verdict>>

Next ==
  \/ \E c \in Candidates : Present(c)
  \/ \E gate \in required : Approve(gate)
  \/ Withdraw
  \/ \E final \in Outcomes : Conclude(final) \/ Publish(final)

Spec == Init /\ [][Next]_vars
=============================================================================
