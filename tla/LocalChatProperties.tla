------------------------- MODULE LocalChatProperties -------------------------
(***************************************************************************)
(* What the local chat adapter promises the engine and its server.         *)
(***************************************************************************)
EXTENDS LocalChat

Returned(c) == call[c].at = "returned"

\* What a stop of this name needs to have happened.
Happened(record, stop) ==
  IF stop = "ABORTED" THEN record.upstream = "aborted" ELSE record.due

\* The code is that of an error of the transport, which ended the call unstopped.
PassedOn(record, code) ==
  record.stop = None /\ record.net = "failed" /\ code \in TransportCodes

(***************************************************************************)
(* A call leaves one receipt when it returns and none before.  If it was   *)
(* stopped, the receipt names the first stop and no consequence of it.  If *)
(* it names a stop, the engine's signal was aborted or the time had passed *)
(* (line 192 notices that too), unless nothing stopped the call and the    *)
(* transport failed with an error of that code: line 198 passes the code   *)
(* on, and the receipt alone does not tell the two apart.                  *)
(***************************************************************************)
OneTrueReceipt ==
  /\ \A c \in Calls : Returned(c) <=> \E i \in DOMAIN receipts : receipts[i].call = c
  /\ \A i, j \in DOMAIN receipts : receipts[i].call = receipts[j].call => i = j
  /\ \A i \in DOMAIN receipts :
       LET record == call[receipts[i].call]
           code == receipts[i].code
       IN /\ record.stop # None => code = record.stop
          /\ code \in Stops => Happened(record, code) \/ PassedOn(record, code)

(***************************************************************************)
(* A response is validated only if it was read to its own end, fits the    *)
(* cap, and was complete before the time had passed and before a stop: a   *)
(* cancelled read also ends, but with a part of the text.                  *)
(***************************************************************************)
ValidatedInTime ==
  \A i \in DOMAIN receipts :
    LET record == call[receipts[i].call]
    IN receipts[i].status = "RESPONSE_VALIDATED" =>
         /\ record.net = "ended" /\ record.total \in 1..Cap
         /\ record.stop = None /\ ~record.due

\* Once a call has returned its connection is not left open: the body was read
\* to its end or cancelled, or the fetch was told to abort.
ConnectionsReleased ==
  \A c \in Calls : Returned(c) =>
    /\ call[c].net # "reading"
    /\ call[c].net = "fetching" => call[c].stop # None

\* Every call returns, even if the server never answers, stalls in the middle
\* of its response, or the fetch ignores the signal.
EveryChatReturns ==
  \A c \in Calls : call[c].at # "unused" ~> Returned(c)
=============================================================================
