------------------------------ MODULE LocalChat ------------------------------
(***************************************************************************)
(* Calls of a local chat adapter (adapters/local-chat.mjs): each posts one *)
(* request to a model server and reads the response up to a cap, unless a  *)
(* timer or the engine's signal stops it, and leaves a receipt.            *)
(*                                                                         *)
(* A step is a piece of synchronous code.  A call is two activities: `at`  *)
(* is where `call` is, `net` where its inner `request` is, which may go on *)
(* after the call has returned.  There is a fetch, as in every supported   *)
(* version of Node.  It may ignore the signal it is given.                 *)
(***************************************************************************)
EXTENDS Naturals, Sequences, FiniteSets

CONSTANTS
  Calls,      \* calls of one adapter, each made at most once
  Cap,        \* maxResponseBytes, in pieces
  TransportCodes,  \* any codes that errors of the transport may carry
  Text,       \* a request that yielded a text, beside the codes it may fail with
  None

Stops == {"LOCAL_CHAT_TIMEOUT", "ABORTED"}

Errors ==
  {"LOCAL_CHAT_SIGNAL_INVALID", "LOCAL_CHAT_REQUEST_TOO_LARGE", "LOCAL_CHAT_UNAVAILABLE",
   "LOCAL_CHAT_RESPONSE_UNAVAILABLE", "LOCAL_CHAT_RESPONSE_TOO_LARGE",
   "LOCAL_CHAT_RESPONSE_INVALID", "LOCAL_CHAT_RESPONSE_UTF8_INVALID", "LOCAL_CHAT_JSON_INVALID"}

Codes == Stops \union Errors \union TransportCodes

\* TransportCodes may hold the adapter's own codes, those of its stops too.
ASSUME ChatAssumption ==
  /\ Cap \in Nat \ {0}
  /\ Text \notin Codes
  /\ None \notin Codes \union {Text}

VARIABLES
  call,       \* the calls
  receipts    \* oldest first

vars == <<call, receipts>>

\* `stop` is stopCode, and the call's controller is aborted once it is set;
\* `due` says that timeoutMs have passed, `total` how much was received.
Unused == [at |-> "unused", upstream |-> "live", stop |-> None, due |-> FALSE,
           net |-> "none", total |-> 0, result |-> None]

Init == call = [c \in Calls |-> Unused] /\ receipts = <<>>

Update(c, record) == call' = [call EXCEPT ![c] = record]

(***************************************************************************)
(* Promise.race: the first of request and interrupted decides.             *)
(***************************************************************************)
Raced(record, result) ==
  IF record.at = "waiting" THEN [record EXCEPT !.at = "raced", !.result = result] ELSE record

\* Slip: an abort reaches the request, but nothing else ends the wait.
StoppedWithoutRace(record, code) ==
  IF record.stop # None THEN record
  ELSE [record EXCEPT !.stop = code, !.net = IF @ = "reading" THEN "cancelled" ELSE @]

\* The first stop aborts the controller, which cancels a body being read.
Stopped(record, code) ==
  IF record.stop # None THEN record
  ELSE Raced([record EXCEPT !.stop = code, !.net = IF @ = "reading" THEN "cancelled" ELSE @],
             code)

\* Slip: the request's own error is reported even if it was stopped.
FailureCodeOfError(record, error) == error

FailureCode(record, error) == IF record.stop # None THEN record.stop ELSE error

Return(c, record, status, code) ==
  /\ Update(c, [record EXCEPT !.at = "returned", !.result = None])
  /\ receipts' = Append(receipts, [call |-> c, status |-> status, code |-> code])

Fail(c, record, error) == Return(c, record, "UNAVAILABLE", FailureCode(record, error))

(***************************************************************************)
(* The call up to the race.                                                *)
(***************************************************************************)
Begin(c, flaw) ==
  LET begun == IF call[c].upstream = "aborted" THEN Stopped(call[c], "ABORTED") ELSE call[c]
  IN /\ call[c].at = "unused"
     /\ IF flaw = "LOCAL_CHAT_SIGNAL_INVALID" THEN Fail(c, call[c], flaw)
        ELSE IF begun.stop # None THEN Fail(c, begun, begun.stop)
        ELSE IF flaw # None THEN Fail(c, begun, flaw)
        ELSE /\ Update(c, [begun EXCEPT !.at = "waiting", !.net = "fetching"])
             /\ UNCHANGED receipts

BeginFlaws == {None, "LOCAL_CHAT_SIGNAL_INVALID", "LOCAL_CHAT_REQUEST_TOO_LARGE"}

(***************************************************************************)
(* request and readBounded.                                                *)
(***************************************************************************)
Fetched(c, usable) ==
  /\ call[c].net = "fetching"
  /\ Update(c,
       IF call[c].stop # None THEN [call[c] EXCEPT !.net = "cancelled"]
       ELSE IF usable THEN [call[c] EXCEPT !.net = "reading"]
       ELSE Raced([call[c] EXCEPT !.net = "cancelled"], "LOCAL_CHAT_RESPONSE_UNAVAILABLE"))
  /\ UNCHANGED receipts

\* A fetch or a read that fails, by the network or because it was aborted.  The
\* error's code is taken as it is; an error without one is unavailability.
NetFails(c) ==
  /\ call[c].net \in {"fetching", "reading"}
  /\ \E code \in TransportCodes \union {"LOCAL_CHAT_UNAVAILABLE"} :
       Update(c, Raced([call[c] EXCEPT !.net = "failed"], code))
  /\ UNCHANGED receipts

\* Slip: the rest of a response that is too large is left to the server.
PartUncancelled(record, size) ==
  IF record.total + size > Cap THEN Raced(record, "LOCAL_CHAT_RESPONSE_TOO_LARGE")
  ELSE [record EXCEPT !.total = @ + size]

Part(record, size) ==
  IF record.total + size > Cap
    THEN Raced([record EXCEPT !.net = "cancelled"], "LOCAL_CHAT_RESPONSE_TOO_LARGE")
  ELSE [record EXCEPT !.total = @ + size]

ReadPart(c, size) ==
  /\ call[c].net = "reading"
  /\ Update(c, Part(call[c], size))
  /\ UNCHANGED receipts

\* A part that is not bytes.
ReadOther(c) ==
  /\ call[c].net = "reading"
  /\ Update(c, Raced([call[c] EXCEPT !.net = "cancelled"], "LOCAL_CHAT_RESPONSE_INVALID"))
  /\ UNCHANGED receipts

\* The body ends; its text resolves the request unless it is not UTF-8.
ReadEnds(c) ==
  /\ call[c].net = "reading"
  /\ \E result \in {Text, "LOCAL_CHAT_RESPONSE_UTF8_INVALID"} :
       Update(c, Raced([call[c] EXCEPT !.net = "ended"], result))
  /\ UNCHANGED receipts

(***************************************************************************)
(* The timer and the engine's signal; neither is heard after the return.   *)
(***************************************************************************)
DeadlinePasses(c) ==
  /\ call[c].at \in {"waiting", "raced"} /\ ~call[c].due
  /\ Update(c, [call[c] EXCEPT !.due = TRUE])
  /\ UNCHANGED receipts

\* A timer waits until the microtasks are done.
TimerFires(c) ==
  /\ call[c].at = "waiting" /\ call[c].due
  /\ Update(c, Stopped(call[c], "LOCAL_CHAT_TIMEOUT"))
  /\ UNCHANGED receipts

Aborts(c) ==
  /\ call[c].at # "returned" /\ call[c].upstream = "live"
  /\ LET aborted == [call[c] EXCEPT !.upstream = "aborted"]
     IN Update(c, IF call[c].at = "unused" THEN aborted ELSE Stopped(aborted, "ABORTED"))
  /\ UNCHANGED receipts

(***************************************************************************)
(* The call after the race.  `fits` says whether the text is a response    *)
(* with an acceptable content, a verdict on its data.                      *)
(***************************************************************************)
\* Slip: only a stop is looked at, not the time itself.
InTimeUnlessStopped(record) == record.stop = None

InTime(record) == record.stop = None /\ ~record.due

Continue(c, fits) ==
  /\ call[c].at = "raced"
  /\ IF call[c].result # Text THEN Fail(c, call[c], call[c].result)
     ELSE IF call[c].total = 0 \/ ~fits THEN Fail(c, call[c], "LOCAL_CHAT_JSON_INVALID")
     ELSE IF ~InTime(call[c]) THEN Fail(c, call[c], "LOCAL_CHAT_TIMEOUT")
     ELSE Return(c, call[c], "RESPONSE_VALIDATED", None)

CallStep(c) ==
  \/ \E flaw \in BeginFlaws : Begin(c, flaw)
  \/ \E usable \in BOOLEAN : Fetched(c, usable)
  \/ NetFails(c) \/ ReadOther(c) \/ ReadEnds(c)
  \/ \E size \in 1..(Cap + 1) : ReadPart(c, size)
  \/ Aborts(c)

Continues(c) == \E fits \in BOOLEAN : Continue(c, fits)

Next == \E c \in Calls : CallStep(c) \/ DeadlinePasses(c) \/ TimerFires(c) \/ Continues(c)

Spec == Init /\ [][Next]_vars

\* Time passes, due timers and microtasks run; a server may never answer.
Fairness ==
  \A c \in Calls : WF_vars(DeadlinePasses(c)) /\ WF_vars(TimerFires(c)) /\ WF_vars(Continues(c))

FairSpec == Spec /\ Fairness
=============================================================================
