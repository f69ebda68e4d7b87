---------------------------- MODULE ContentGrant ----------------------------
(***************************************************************************)
(* A consent grant (gate/content-consent.mjs): whether it is alive, judged *)
(* by its holder's revocation and by a clock the host supplies.            *)
(***************************************************************************)
EXTENDS Naturals

CONSTANTS
  Samples,    \* what the clock can return; above MaxSafe: unusable
  Lifetime,   \* lifetimeMs
  MaxSafe,    \* Number.MAX_SAFE_INTEGER
  None

ASSUME GrantAssumption ==
  /\ Samples \subseteq Nat
  /\ Lifetime \in Nat \ {0}
  /\ MaxSafe \in Nat
  /\ None \notin STRING
  /\ None \notin {"CONSENT_REVOKED", "CONSENT_EXPIRED", "CONSENT_CLOCK_INVALID", "CONSENT_CLOCK_REGRESSION"}

NewGrant(issued) ==
  [revoked |-> FALSE, expired |-> FALSE, issued |-> issued, last |-> issued, admitted |-> 0]

\* A sample is accepted unless it is unusable or goes back; a grant that is
\* dead already does not ask the clock.
Accepts(grant, now) ==
  /\ ~grant.revoked /\ ~grant.expired
  /\ now <= MaxSafe
  /\ now >= grant.last

\* An accepted sample is remembered, and so is the first expiry.
Observed(grant, now) ==
  IF ~Accepts(grant, now) THEN grant
  ELSE IF now >= grant.issued + Lifetime THEN [grant EXCEPT !.last = now, !.expired = TRUE]
  ELSE [grant EXCEPT !.last = now]

\* Slip: a revoked grant is judged by the clock alone.
LiveCodeByClock(grant, now) ==
  IF grant.expired THEN "CONSENT_EXPIRED"
  ELSE IF now > MaxSafe THEN "CONSENT_CLOCK_INVALID"
  ELSE IF now < grant.last THEN "CONSENT_CLOCK_REGRESSION"
  ELSE IF now >= grant.issued + Lifetime THEN "CONSENT_EXPIRED"
  ELSE None

\* Why the grant admits nothing now, or None.
LiveCode(grant, now) ==
  IF grant.revoked THEN "CONSENT_REVOKED"
  ELSE IF grant.expired THEN "CONSENT_EXPIRED"
  ELSE IF now > MaxSafe THEN "CONSENT_CLOCK_INVALID"
  ELSE IF now < grant.last THEN "CONSENT_CLOCK_REGRESSION"
  ELSE IF now >= grant.issued + Lifetime THEN "CONSENT_EXPIRED"
  ELSE None

Admitted(grant) == [grant EXCEPT !.admitted = @ + 1]
=============================================================================
