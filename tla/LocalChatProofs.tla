--------------------------- MODULE LocalChatProofs ---------------------------
(***************************************************************************)
(* Proofs about the local chat adapter, for every number of calls and      *)
(* every cap.                                                              *)
(***************************************************************************)
EXTENDS LocalChatProperties, TLAPS

Record ==
  [at : {"unused", "waiting", "raced", "returned"},
   upstream : {"live", "aborted"},
   stop : Stops \union {None},
   due : BOOLEAN,
   net : {"none", "fetching", "reading", "cancelled", "failed", "ended"},
   total : 0..Cap,
   result : Codes \union {None, Text}]

Receipt ==
  [call : Calls, status : {"RESPONSE_VALIDATED", "UNAVAILABLE"}, code : Codes \union {None}]

Types == call \in [Calls -> Record] /\ receipts \in Seq(Receipt)

\* How far the call and its request may be apart: a body is being read only
\* while the call waits, and a fetch outlives the wait only if it was stopped.
InStep(record) ==
  /\ record.at = "unused" => record.net = "none"
  /\ record.at = "waiting" => record.stop = None
  /\ record.net = "reading" => record.at = "waiting"
  /\ record.net = "fetching" => record.at = "waiting" \/ record.stop # None
  /\ record.at = "raced" => record.result # None
  /\ record.at = "raced" /\ record.result = Text => record.net = "ended"

Whole(record) ==
  /\ record.at = "returned" /\ record.net = "ended" /\ record.total \in 1..Cap
  /\ record.stop = None /\ ~record.due

IInv ==
  /\ Types
  /\ \A c \in Calls : InStep(call[c])
  /\ \A i \in DOMAIN receipts :
       receipts[i].status = "RESPONSE_VALIDATED" => Whole(call[receipts[i].call])

(***************************************************************************)
(* A step that leaves the receipts alone and does not touch a whole call.  *)
(***************************************************************************)
LEMMA QuietUpdate ==
  ASSUME IInv, NEW c \in Calls, NEW record \in Record,
         InStep(record), Whole(call[c]) => Whole(record),
         Update(c, record), UNCHANGED receipts
  PROVE  IInv'
<1>1. call' = [call EXCEPT ![c] = record] /\ receipts' = receipts
  BY DEF Update
<1>2. Types'
  BY <1>1 DEF IInv, Types
<1>3. ASSUME NEW d \in Calls PROVE InStep(call'[d])
  BY <1>1 DEF IInv, Types
<1>4. ASSUME NEW i \in DOMAIN receipts', receipts'[i].status = "RESPONSE_VALIDATED"
      PROVE  Whole(call'[receipts'[i].call])
  BY <1>1, <1>4 DEF IInv, Types, Receipt
<1> QED
  BY <1>2, <1>3, <1>4 DEF IInv

(***************************************************************************)
(* A call that returns is whole if its receipt says so, and was in no      *)
(* receipt before.                                                         *)
(***************************************************************************)
LEMMA ReturnPreserves ==
  ASSUME IInv, NEW c \in Calls, NEW record \in Record,
         NEW status \in {"RESPONSE_VALIDATED", "UNAVAILABLE"}, NEW code \in Codes \union {None},
         Return(c, record, status, code),
         call[c].at # "returned",
         record.net # "reading", record.net = "fetching" => record.stop # None,
         status = "RESPONSE_VALIDATED" => Whole([record EXCEPT !.at = "returned"])
  PROVE  IInv'
<1> DEFINE returned == [record EXCEPT !.at = "returned", !.result = None]
           receipt == [call |-> c, status |-> status, code |-> code]
<1>1. call' = [call EXCEPT ![c] = returned] /\ receipts' = Append(receipts, receipt)
  BY DEF Return, Update
<1>2. returned \in Record /\ receipt \in Receipt
  BY DEF Record, Receipt
<1>3. Types'
  BY <1>1, <1>2 DEF IInv, Types
<1>4. ASSUME NEW d \in Calls PROVE InStep(call'[d])
  <2>1. InStep(returned)
    BY DEF InStep, Record
  <2> QED
    BY <1>1, <2>1 DEF IInv, Types
<1>5. ASSUME NEW i \in DOMAIN receipts', receipts'[i].status = "RESPONSE_VALIDATED"
      PROVE  Whole(call'[receipts'[i].call])
  <2>1. CASE i = Len(receipts) + 1
    <3>1. receipts'[i] = receipt
      BY <1>1, <2>1, <1>2 DEF IInv, Types
    <3>2. Whole(returned)
      BY <3>1, <1>5 DEF Whole, Record
    <3> QED
      BY <3>1, <3>2, <1>1 DEF IInv, Types
  <2>2. CASE i # Len(receipts) + 1
    <3>1. i \in DOMAIN receipts /\ receipts'[i] = receipts[i]
      BY <1>1, <2>2, <1>2, <1>5 DEF IInv, Types
    <3>2. receipts[i] \in Receipt
      BY <3>1 DEF IInv, Types
    <3>3. receipts[i].call \in Calls
      BY <3>2 DEF Receipt
    <3>4. Whole(call[receipts[i].call])
      BY <3>1, <1>5 DEF IInv
    <3>5. receipts[i].call # c
      BY <3>4 DEF Whole
    <3> QED
      BY <3>1, <3>3, <3>4, <3>5, <1>1 DEF IInv, Types
  <2> QED
    BY <2>1, <2>2
<1> QED
  BY <1>3, <1>4, <1>5 DEF IInv

LEMMA FailPreserves ==
  ASSUME IInv, NEW c \in Calls, NEW record \in Record, NEW error \in Codes,
         Fail(c, record, error),
         call[c].at # "returned",
         record.net # "reading", record.net = "fetching" => record.stop # None
  PROVE  IInv'
<1>1. FailureCode(record, error) \in Codes
  BY DEF FailureCode, Record, Codes
<1>2. Return(c, record, "UNAVAILABLE", FailureCode(record, error))
  BY DEF Fail
<1> QED
  BY <1>1, <1>2, ReturnPreserves

LEMMA RacedType ==
  ASSUME NEW record \in Record, NEW result \in Codes \union {Text}
  PROVE  /\ Raced(record, result) \in Record
         /\ Raced(record, result).net = record.net
         /\ Raced(record, result).stop = record.stop
         /\ Raced(record, result).due = record.due
         /\ Raced(record, result).total = record.total
         /\ record.at = "waiting" => /\ Raced(record, result).at = "raced"
                                    /\ Raced(record, result).result = result
         /\ record.at # "waiting" => Raced(record, result) = record
BY DEF Raced, Record

LEMMA StoppedType ==
  ASSUME NEW record \in Record, NEW code \in Stops, InStep(record), record.at # "unused"
  PROVE  /\ Stopped(record, code) \in Record
         /\ InStep(Stopped(record, code))
         /\ Stopped(record, code).stop # None
<1> DEFINE cut == [record EXCEPT !.stop = code,
                                 !.net = IF @ = "reading" THEN "cancelled" ELSE @]
<1>1. CASE record.stop # None
  BY <1>1 DEF Stopped
<1>2. CASE record.stop = None
  <2>1. cut \in Record
    BY DEF Record
  <2>0. code # None
    BY ChatAssumption DEF Codes
  <2>2. Stopped(record, code) = Raced(cut, code)
    BY <1>2 DEF Stopped
  <2>3. CASE record.at = "waiting"
    <3>1. cut.at = "waiting" /\ cut.stop = code /\ cut.net # "reading"
      BY <2>3 DEF Record
    <3>2. Raced(cut, code) = [cut EXCEPT !.at = "raced", !.result = code]
      BY <3>1 DEF Raced
    <3>3. code \in Codes /\ code # Text
      BY ChatAssumption DEF Codes
    <3> HIDE DEF cut
    <3>4. Raced(cut, code) \in Record /\ Raced(cut, code).at = "raced"
          /\ Raced(cut, code).net = cut.net /\ Raced(cut, code).result = code
          /\ Raced(cut, code).stop = code
      BY <2>1, <3>1, <3>2, <3>3 DEF Record
    <3>5. InStep(Raced(cut, code))
      BY <2>0, <3>1, <3>3, <3>4 DEF InStep
    <3> QED
      BY <2>0, <2>2, <3>4, <3>5
  <2>4. CASE record.at # "waiting"
    BY <2>0, <2>1, <2>2, <2>4 DEF Raced, Record, InStep
  <2> QED
    BY <2>3, <2>4
<1> QED
  BY <1>1, <1>2

LEMMA Known ==
  ASSUME IInv, NEW c \in Calls
  PROVE  call[c] \in Record /\ InStep(call[c])
BY DEF IInv, Types

LEMMA BeginPreserves ==
  ASSUME IInv, NEW c \in Calls, NEW flaw \in BeginFlaws, Begin(c, flaw)
  PROVE  IInv'
<1> DEFINE begun == IF call[c].upstream = "aborted" THEN Stopped(call[c], "ABORTED") ELSE call[c]
<1>1. call[c] \in Record /\ call[c].at = "unused" /\ call[c].net = "none"
  BY Known DEF Begin, InStep
<1>2. begun \in Record /\ begun.at = "unused" /\ begun.net = "none"
  BY <1>1 DEF Stopped, Raced, Record, Stops
<1>3. /\ flaw # None => flaw \in Codes
      /\ "LOCAL_CHAT_SIGNAL_INVALID" \in Codes
      /\ begun.stop # None => begun.stop \in Codes
  BY <1>2 DEF BeginFlaws, Codes, Errors, Record
<1>4. CASE Fail(c, call[c], "LOCAL_CHAT_SIGNAL_INVALID")
  BY <1>1, <1>3, <1>4, FailPreserves
<1>5. CASE begun.stop # None /\ Fail(c, begun, begun.stop)
  BY <1>1, <1>2, <1>3, <1>5, FailPreserves
<1>6. CASE flaw # None /\ Fail(c, begun, flaw)
  BY <1>1, <1>2, <1>3, <1>6, FailPreserves
<1>7. CASE /\ begun.stop = None
           /\ Update(c, [begun EXCEPT !.at = "waiting", !.net = "fetching"])
           /\ UNCHANGED receipts
  <2> DEFINE waiting == [begun EXCEPT !.at = "waiting", !.net = "fetching"]
  <2>1. waiting \in Record /\ InStep(waiting)
    BY <1>2, <1>7 DEF Record, InStep
  <2>2. ~Whole(call[c])
    BY <1>1 DEF Whole
  <2> QED
    BY <1>7, <2>1, <2>2, QuietUpdate
<1> QED
  BY <1>4, <1>5, <1>6, <1>7 DEF Begin

(***************************************************************************)
(* The request's own steps.  One that ends the request while the call      *)
(* waits lets it go on with that result, one that comes later does not.    *)
(***************************************************************************)
LEMMA RequestEnds ==
  ASSUME IInv, NEW c \in Calls, NEW net \in {"cancelled", "failed", "ended"},
         NEW result \in Codes \union {Text},
         call[c].net \in {"fetching", "reading"},
         result = Text => net = "ended",
         Update(c, Raced([call[c] EXCEPT !.net = net], result)), UNCHANGED receipts
  PROVE  IInv'
<1> DEFINE over == [call[c] EXCEPT !.net = net]
<1>1. call[c] \in Record /\ InStep(call[c]) /\ call[c].at # "unused"
  BY Known DEF InStep
<1>2. over \in Record /\ over.net = net /\ over.at = call[c].at /\ over.stop = call[c].stop
      /\ over.result = call[c].result
  BY <1>1 DEF Record
<1>3. result \in Codes \union {Text} /\ result # None
  BY ChatAssumption
<1> HIDE DEF over
<1>4. Raced(over, result) \in Record
  BY <1>2, <1>3, RacedType
<1>5. InStep(Raced(over, result))
  <2>1. CASE over.at = "waiting"
    BY <1>2, <1>3, <2>1, RacedType DEF InStep
  <2>2. CASE over.at # "waiting"
    <3>1. Raced(over, result) = over
      BY <2>2 DEF Raced
    <3>2. call[c].net = "fetching"
      BY <1>1, <1>2, <2>2 DEF InStep
    <3> QED
      BY <1>1, <1>2, <2>2, <3>1, <3>2 DEF InStep
  <2> QED
    BY <2>1, <2>2
<1>6. ~Whole(call[c])
  BY DEF Whole
<1> QED
  BY <1>4, <1>5, <1>6, QuietUpdate DEF over

LEMMA FetchedPreserves ==
  ASSUME IInv, NEW c \in Calls, NEW usable \in BOOLEAN, Fetched(c, usable)
  PROVE  IInv'
<1>1. call[c] \in Record /\ InStep(call[c]) /\ call[c].net = "fetching" /\ ~Whole(call[c])
  BY Known DEF Fetched, Whole
<1>2. CASE call[c].stop # None
  <2> DEFINE late == [call[c] EXCEPT !.net = "cancelled"]
  <2>1. late \in Record /\ InStep(late) /\ Update(c, late)
    BY <1>1, <1>2 DEF Record, InStep, Fetched
  <2> QED
    BY <1>1, <2>1, QuietUpdate DEF Fetched
<1>3. CASE call[c].stop = None /\ usable
  <2> DEFINE open == [call[c] EXCEPT !.net = "reading"]
  <2>1. open \in Record /\ InStep(open) /\ Update(c, open)
    BY <1>1, <1>3 DEF Record, InStep, Fetched
  <2> QED
    BY <1>1, <2>1, QuietUpdate DEF Fetched
<1>4. CASE call[c].stop = None /\ ~usable
  <2>1. "LOCAL_CHAT_RESPONSE_UNAVAILABLE" \in Codes /\ "LOCAL_CHAT_RESPONSE_UNAVAILABLE" # Text
    BY ChatAssumption DEF Codes, Errors
  <2>2. /\ Update(c, Raced([call[c] EXCEPT !.net = "cancelled"], "LOCAL_CHAT_RESPONSE_UNAVAILABLE"))
        /\ UNCHANGED receipts
    BY <1>1, <1>4 DEF Fetched
  <2> QED
    BY <1>1, <2>1, <2>2, RequestEnds
<1> QED
  BY <1>2, <1>3, <1>4

LEMMA ReadPartPreserves ==
  ASSUME IInv, NEW c \in Calls, NEW size \in 1..(Cap + 1), ReadPart(c, size)
  PROVE  IInv'
<1>1. call[c] \in Record /\ InStep(call[c]) /\ call[c].net = "reading" /\ ~Whole(call[c])
  BY Known DEF ReadPart, Whole
<1>2. CASE call[c].total + size > Cap
  <2>1. "LOCAL_CHAT_RESPONSE_TOO_LARGE" \in Codes /\ "LOCAL_CHAT_RESPONSE_TOO_LARGE" # Text
    BY ChatAssumption DEF Codes, Errors
  <2>2. /\ Update(c, Raced([call[c] EXCEPT !.net = "cancelled"], "LOCAL_CHAT_RESPONSE_TOO_LARGE"))
        /\ UNCHANGED receipts
    BY <1>1, <1>2 DEF ReadPart, Part
  <2> QED
    BY <1>1, <2>1, <2>2, RequestEnds
<1>3. CASE ~(call[c].total + size > Cap)
  <2> DEFINE more == [call[c] EXCEPT !.total = @ + size]
  <2>1. call[c].total \in 0..Cap
    BY <1>1 DEF Record
  <2>2. call[c].total + size \in 0..Cap
    BY <1>3, <2>1, ChatAssumption
  <2>3. more \in Record /\ InStep(more) /\ Update(c, more)
    BY <1>1, <1>3, <2>2 DEF Record, InStep, ReadPart, Part
  <2> QED
    BY <1>1, <2>3, QuietUpdate DEF ReadPart
<1> QED
  BY <1>2, <1>3

LEMMA StopPreserves ==
  ASSUME IInv, NEW c \in Calls, TimerFires(c) \/ Aborts(c)
  PROVE  IInv'
<1>1. call[c] \in Record /\ InStep(call[c])
  BY Known
<1>2. CASE TimerFires(c)
  <2>1. call[c].at = "waiting" /\ ~Whole(call[c]) /\ "LOCAL_CHAT_TIMEOUT" \in Stops
    BY <1>2 DEF TimerFires, Whole, Stops
  <2> QED
    BY <1>1, <1>2, <2>1, StoppedType, QuietUpdate DEF TimerFires
<1>3. CASE Aborts(c)
  <2> DEFINE aborted == [call[c] EXCEPT !.upstream = "aborted"]
  <2>1. aborted \in Record /\ InStep(aborted) /\ aborted.at = call[c].at
    BY <1>1 DEF Record, InStep
  <2>2. ~Whole(call[c]) /\ "ABORTED" \in Stops
    BY <1>3 DEF Aborts, Whole, Stops
  <2>3. CASE call[c].at = "unused"
    BY <1>3, <2>1, <2>2, <2>3, QuietUpdate DEF Aborts
  <2>4. CASE call[c].at # "unused"
    BY <1>3, <2>1, <2>2, <2>4, StoppedType, QuietUpdate DEF Aborts
  <2> QED
    BY <2>3, <2>4
<1> QED
  BY <1>2, <1>3

LEMMA OtherEndsPreserve ==
  ASSUME IInv, NEW c \in Calls, NetFails(c) \/ ReadOther(c) \/ ReadEnds(c)
  PROVE  IInv'
<1>1. /\ {"LOCAL_CHAT_UNAVAILABLE", "LOCAL_CHAT_RESPONSE_INVALID",
          "LOCAL_CHAT_RESPONSE_UTF8_INVALID"} \subseteq Codes
      /\ TransportCodes \subseteq Codes /\ Text \notin Codes
  BY ChatAssumption DEF Codes, Errors
<1>2. CASE NetFails(c)
  <2>1. PICK code \in TransportCodes \union {"LOCAL_CHAT_UNAVAILABLE"} :
          Update(c, Raced([call[c] EXCEPT !.net = "failed"], code))
    BY <1>2 DEF NetFails
  <2>2. code \in Codes /\ code # Text
    BY <1>1
  <2> QED BY <1>2, <2>1, <2>2, RequestEnds DEF NetFails
<1>3. CASE ReadOther(c)
  BY <1>1, <1>3, RequestEnds DEF ReadOther
<1>4. CASE ReadEnds(c)
  <2>1. PICK result \in {Text, "LOCAL_CHAT_RESPONSE_UTF8_INVALID"} :
          Update(c, Raced([call[c] EXCEPT !.net = "ended"], result))
    BY <1>4 DEF ReadEnds
  <2> QED
    BY <1>1, <1>4, <2>1, RequestEnds DEF ReadEnds
<1> QED
  BY <1>2, <1>3, <1>4

LEMMA DeadlinePreserves ==
  ASSUME IInv, NEW c \in Calls, DeadlinePasses(c)
  PROVE  IInv'
<1> DEFINE due == [call[c] EXCEPT !.due = TRUE]
<1>1. call[c] \in Record /\ InStep(call[c]) /\ ~Whole(call[c])
  BY Known DEF DeadlinePasses, Whole
<1>2. due \in Record /\ InStep(due)
  BY <1>1 DEF Record, InStep
<1> QED
  BY <1>1, <1>2, QuietUpdate DEF DeadlinePasses

\* The only step that validates: the text was read to its end, in time.
LEMMA ContinuePreserves ==
  ASSUME IInv, NEW c \in Calls, NEW fits \in BOOLEAN, Continue(c, fits)
  PROVE  IInv'
<1>1. call[c] \in Record /\ call[c].at = "raced" /\ call[c].result # None
      /\ call[c].net # "reading" /\ (call[c].net = "fetching" => call[c].stop # None)
      /\ (call[c].result = Text => call[c].net = "ended")
  BY Known DEF Continue, InStep
<1>2. /\ call[c].result # Text => call[c].result \in Codes
      /\ {"LOCAL_CHAT_JSON_INVALID", "LOCAL_CHAT_TIMEOUT"} \subseteq Codes
  BY <1>1 DEF Record, Codes, Stops, Errors
<1>3. CASE call[c].result # Text
  BY <1>1, <1>2, <1>3, FailPreserves DEF Continue
<1>4. CASE call[c].result = Text /\ (call[c].total = 0 \/ ~fits)
  BY <1>1, <1>2, <1>4, FailPreserves DEF Continue
<1>5. CASE call[c].result = Text /\ call[c].total # 0 /\ fits /\ ~InTime(call[c])
  BY <1>1, <1>2, <1>5, FailPreserves DEF Continue
<1>6. CASE call[c].result = Text /\ call[c].total # 0 /\ fits /\ InTime(call[c])
  <2>1. Whole([call[c] EXCEPT !.at = "returned"])
    BY <1>1, <1>6, ChatAssumption DEF Whole, InTime, Record
  <2>2. Return(c, call[c], "RESPONSE_VALIDATED", None)
    BY <1>6 DEF Continue
  <2> QED
    BY <1>1, <2>1, <2>2, ReturnPreserves
<1> QED
  BY <1>3, <1>4, <1>5, <1>6

LEMMA InitIInv == Init => IInv
<1> SUFFICES ASSUME Init PROVE IInv
  OBVIOUS
<1>1. Unused \in Record /\ InStep(Unused)
  BY ChatAssumption DEF Unused, Record, InStep
<1>2. Types /\ \A c \in Calls : InStep(call[c])
  BY <1>1 DEF Init, Types
<1>3. DOMAIN receipts = {}
  BY DEF Init
<1> QED
  BY <1>2, <1>3 DEF IInv

LEMMA NextPreserves == IInv /\ [Next]_vars => IInv'
<1> SUFFICES ASSUME IInv, [Next]_vars PROVE IInv'
  OBVIOUS
<1>1. CASE UNCHANGED vars
  BY <1>1 DEF IInv, Types, vars
<1>2. CASE Next
  <2>1. PICK c \in Calls : CallStep(c) \/ DeadlinePasses(c) \/ TimerFires(c) \/ Continues(c)
    BY <1>2 DEF Next
  <2>2. CASE \E flaw \in BeginFlaws : Begin(c, flaw)
    BY <2>2, BeginPreserves
  <2>3. CASE \E usable \in BOOLEAN : Fetched(c, usable)
    BY <2>3, FetchedPreserves
  <2>4. CASE NetFails(c) \/ ReadOther(c) \/ ReadEnds(c)
    BY <2>4, OtherEndsPreserve
  <2>5. CASE \E size \in 1..(Cap + 1) : ReadPart(c, size)
    BY <2>5, ReadPartPreserves
  <2>6. CASE TimerFires(c) \/ Aborts(c)
    BY <2>6, StopPreserves
  <2>7. CASE DeadlinePasses(c)
    BY <2>7, DeadlinePreserves
  <2>8. CASE Continues(c)
    BY <2>8, ContinuePreserves DEF Continues
  <2> QED
    BY <2>1, <2>2, <2>3, <2>4, <2>5, <2>6, <2>7, <2>8 DEF CallStep
<1> QED
  BY <1>1, <1>2 DEF vars

(***************************************************************************)
(* Whatever the server does, however the timer, the engine's signal and    *)
(* the response race: a response is validated only if it was read to its   *)
(* own end, within the cap and before the time had passed (line 192).      *)
(***************************************************************************)
THEOREM OnlyWholeResponsesAreValidated == Spec => []ValidatedInTime
<1>1. IInv => ValidatedInTime
  BY DEF IInv, ValidatedInTime, Whole
<1> QED
  BY <1>1, InitIInv, NextPreserves, PTL DEF Spec

(***************************************************************************)
(* However a call returns, its connection is not left open: `request` and  *)
(* `readBounded` end or cancel it, also after the call has returned.       *)
(***************************************************************************)
THEOREM NoConnectionLeftOpen == Spec => []ConnectionsReleased
<1>1. IInv => ConnectionsReleased
  BY DEF IInv, ConnectionsReleased, Returned, InStep
<1> QED
  BY <1>1, InitIInv, NextPreserves, PTL DEF Spec

(***************************************************************************)
(* Receipts.  A stop has its cause, and the wait ends with a stop's code   *)
(* only if the call was stopped or the transport failed with that code.    *)
(***************************************************************************)
Caused(record) ==
  /\ record.stop = "ABORTED" => record.upstream = "aborted"
  /\ record.stop = "LOCAL_CHAT_TIMEOUT" => record.due
  /\ record.at = "raced" /\ record.stop = None /\ record.result \in Stops =>
       PassedOn(record, record.result)

Tells(record, code) ==
  /\ record.stop # None => code = record.stop
  /\ code \in Stops => Happened(record, code) \/ PassedOn(record, code)

Accounted ==
  /\ \A c \in Calls : Caused(call[c])
  /\ OneTrueReceipt

\* A call that has returned keeps what its receipt says of it.
Settled(before, after) ==
  /\ before.at = "returned" <=> after.at = "returned"
  /\ before.at = "returned" =>
       /\ after.stop = before.stop /\ after.upstream = before.upstream /\ after.due = before.due
       /\ before.net = "failed" => after.net = "failed"

Quiet(c, record) ==
  Caused(record) /\ Settled(call[c], record) /\ Update(c, record) /\ UNCHANGED receipts

Ending(c, record, status, code) ==
  /\ call[c].at # "returned"
  /\ Caused(record) /\ Tells(record, code)
  /\ Return(c, record, status, code)

LEMMA QuietAccounted ==
  ASSUME IInv, Accounted, NEW c \in Calls, NEW record, Quiet(c, record)
  PROVE  Accounted'
<1>1. call' = [call EXCEPT ![c] = record] /\ receipts' = receipts /\ DOMAIN call = Calls
  BY DEF Quiet, Update, IInv, Types
<1>2. call'[c] = record /\ \A d \in Calls : d # c => call'[d] = call[d]
  BY <1>1
<1>3. \A d \in Calls : Caused(call'[d])
  BY <1>2 DEF Accounted, Quiet
<1>4. \A d \in Calls : Settled(call[d], call'[d])
  BY <1>2 DEF Quiet, Settled
<1>5. \A i \in DOMAIN receipts : receipts[i].call \in Calls
  <2> SUFFICES ASSUME NEW i \in DOMAIN receipts PROVE receipts[i].call \in Calls
    OBVIOUS
  <2>1. receipts[i] \in Receipt
    BY DEF IInv, Types
  <2> QED BY <2>1 DEF Receipt
<1>6. OneTrueReceipt'
  <2>1. \A d \in Calls : call'[d].at = "returned" <=> \E i \in DOMAIN receipts : receipts[i].call = d
    BY <1>4 DEF Accounted, OneTrueReceipt, Returned, Settled
  <2>2. ASSUME NEW i \in DOMAIN receipts
        PROVE  Tells(call'[receipts[i].call], receipts[i].code)
    <3>1. Settled(call[receipts[i].call], call'[receipts[i].call])
      BY <1>4, <1>5
    <3>2. call[receipts[i].call].at = "returned"
      BY <1>5 DEF Accounted, OneTrueReceipt, Returned
    <3>3. Tells(call[receipts[i].call], receipts[i].code)
      BY DEF Accounted, OneTrueReceipt, Tells
    <3> QED BY <3>1, <3>2, <3>3 DEF Settled, Tells, Happened, PassedOn
  <2> QED BY <1>1, <2>1, <2>2 DEF Accounted, OneTrueReceipt, Returned, Tells
<1> QED BY <1>3, <1>6 DEF Accounted

LEMMA EndingAccounted ==
  ASSUME IInv, Accounted, NEW c \in Calls, NEW record \in Record, NEW status, NEW code,
         Ending(c, record, status, code)
  PROVE  Accounted'
<1> DEFINE over == [record EXCEPT !.at = "returned", !.result = None]
           receipt == [call |-> c, status |-> status, code |-> code]
           n == Len(receipts) + 1
<1>1. call' = [call EXCEPT ![c] = over] /\ receipts' = Append(receipts, receipt) /\ DOMAIN call = Calls
  BY DEF Ending, Return, Update, IInv, Types
<1>2. /\ over.at = "returned" /\ over.stop = record.stop
      /\ over.upstream = record.upstream /\ over.due = record.due /\ over.net = record.net
  BY DEF Record
<1> HIDE DEF over
<1>3. call'[c] = over /\ \A d \in Calls : d # c => call'[d] = call[d]
  BY <1>1
<1>4. \A d \in Calls : Caused(call'[d])
  BY <1>2, <1>3 DEF Accounted, Ending, Caused
<1>5. /\ Len(receipts) \in Nat /\ DOMAIN receipts = 1..Len(receipts) /\ DOMAIN receipts' = 1..n
      /\ receipts'[n] = receipt /\ \A i \in 1..Len(receipts) : receipts'[i] = receipts[i]
  BY <1>1 DEF IInv, Types
<1>6. receipt.call = c /\ receipt.code = code
  OBVIOUS
<1> HIDE DEF receipt
<1>7. \A i \in 1..Len(receipts) : receipts[i].call \in Calls /\ receipts[i].call # c
  <2> SUFFICES ASSUME NEW i \in 1..Len(receipts)
               PROVE  receipts[i].call \in Calls /\ receipts[i].call # c
    OBVIOUS
  <2>1. receipts[i] \in Receipt
    BY <1>5 DEF IInv, Types
  <2>2. call[c].at # "returned"
    BY DEF Ending
  <2> QED BY <1>5, <2>1, <2>2 DEF Accounted, OneTrueReceipt, Returned, Receipt
<1>8. ASSUME NEW d \in Calls
      PROVE  call'[d].at = "returned" <=> \E i \in 1..n : receipts'[i].call = d
  <2>1. CASE d = c
    <3>1. n \in 1..n
      BY <1>5
    <3> QED BY <1>2, <1>3, <1>5, <1>6, <2>1, <3>1
  <2>2. CASE d # c
    <3>1. call[d].at = "returned" <=> \E i \in 1..Len(receipts) : receipts[i].call = d
      BY <1>5 DEF Accounted, OneTrueReceipt, Returned
    <3>2. (\E i \in 1..n : receipts'[i].call = d) <=> \E i \in 1..Len(receipts) : receipts[i].call = d
      BY <1>5, <1>6, <2>2
    <3> QED BY <1>3, <2>2, <3>1, <3>2
  <2> QED BY <2>1, <2>2
<1>9. \A i, j \in 1..n : receipts'[i].call = receipts'[j].call => i = j
  <2>1. \A i, j \in 1..Len(receipts) : receipts[i].call = receipts[j].call => i = j
    BY <1>5 DEF Accounted, OneTrueReceipt
  <2> QED BY <1>5, <1>6, <1>7, <2>1
<1>10. ASSUME NEW i \in 1..n
       PROVE  Tells(call'[receipts'[i].call], receipts'[i].code)
  <2>1. CASE i = n
    BY <1>2, <1>3, <1>5, <1>6, <2>1 DEF Ending, Tells, Happened, PassedOn
  <2>2. CASE i \in 1..Len(receipts)
    <3>1. Tells(call[receipts[i].call], receipts[i].code)
      BY <1>5, <2>2 DEF Accounted, OneTrueReceipt, Tells
    <3> QED BY <1>3, <1>5, <1>7, <2>2, <3>1
  <2> QED BY <1>5, <2>1, <2>2
<1>11. OneTrueReceipt'
  BY <1>5, <1>8, <1>9, <1>10 DEF OneTrueReceipt, Returned, Tells
<1> QED BY <1>4, <1>11 DEF Accounted

LEMMA FailAccounted ==
  ASSUME IInv, Accounted, NEW c \in Calls, NEW record \in Record, NEW error \in Codes,
         call[c].at # "returned", Caused(record),
         error \in Stops => record.stop # None \/ Happened(record, error) \/ PassedOn(record, error),
         Fail(c, record, error)
  PROVE  Accounted'
<1>1. Tells(record, FailureCode(record, error))
  BY DEF Tells, FailureCode, Caused, Happened, Record, Stops
<1> QED BY <1>1, EndingAccounted DEF Ending, Fail

LEMMA RacedCaused ==
  ASSUME NEW record \in Record, Caused(record), NEW result \in Codes \union {Text},
         result \in Stops => result \in TransportCodes /\ record.net = "failed"
  PROVE  Caused(Raced(record, result)) /\ Settled(record, Raced(record, result))
<1>1. CASE record.at = "waiting"
  <2>1. Raced(record, result) = [record EXCEPT !.at = "raced", !.result = result]
    BY <1>1 DEF Raced
  <2> QED BY <1>1, <2>1 DEF Caused, PassedOn, Settled, Record
<1>2. CASE record.at # "waiting"
  BY <1>2 DEF Raced, Settled
<1> QED BY <1>1, <1>2

LEMMA StoppedCaused ==
  ASSUME NEW record \in Record, Caused(record), NEW code \in Stops, record.at # "returned",
         code = "ABORTED" => record.upstream = "aborted",
         code = "LOCAL_CHAT_TIMEOUT" => record.due
  PROVE  Caused(Stopped(record, code)) /\ Stopped(record, code).at # "returned"
<1> DEFINE cut == [record EXCEPT !.stop = code,
                                 !.net = IF @ = "reading" THEN "cancelled" ELSE @]
<1>1. CASE record.stop # None
  BY <1>1 DEF Stopped
<1>2. CASE record.stop = None
  <2>1. /\ cut \in Record /\ cut.at = record.at /\ cut.stop = code
        /\ cut.upstream = record.upstream /\ cut.due = record.due
    BY DEF Record
  <2>2. Stopped(record, code) = Raced(cut, code) /\ code # None
    BY <1>2, ChatAssumption DEF Stopped, Codes
  <2> HIDE DEF cut
  <2>3. CASE cut.at = "waiting"
    <3>1. Raced(cut, code) = [cut EXCEPT !.at = "raced", !.result = code]
      BY <2>3 DEF Raced
    <3>2. /\ Raced(cut, code).at = "raced" /\ Raced(cut, code).stop = code
          /\ Raced(cut, code).upstream = record.upstream /\ Raced(cut, code).due = record.due
      BY <2>1, <3>1 DEF Record
    <3> QED BY <2>2, <3>2 DEF Caused
  <2>4. CASE cut.at # "waiting"
    BY <2>1, <2>2, <2>4 DEF Raced, Caused
  <2> QED BY <2>3, <2>4
<1> QED BY <1>1, <1>2

LEMMA BeginAccounted ==
  ASSUME IInv, Accounted, NEW c \in Calls, NEW flaw \in BeginFlaws, Begin(c, flaw)
  PROVE  Accounted'
<1> DEFINE begun == IF call[c].upstream = "aborted" THEN Stopped(call[c], "ABORTED") ELSE call[c]
<1>1. call[c] \in Record /\ call[c].at = "unused" /\ Caused(call[c]) /\ call[c].at # "returned"
  BY Known DEF Begin, Accounted
<1>2. begun \in Record /\ begun.at = "unused"
  BY <1>1 DEF Stopped, Raced, Record, Stops
<1>3. Caused(begun) /\ "ABORTED" \in Stops
  BY <1>1, StoppedCaused DEF Stops
<1>4. /\ flaw # None => flaw \in Errors /\ flaw \in Codes
      /\ "LOCAL_CHAT_SIGNAL_INVALID" \in Codes /\ "LOCAL_CHAT_SIGNAL_INVALID" \in Errors
      /\ \A error \in Errors : error \notin Stops
      /\ begun.stop # None => begun.stop \in Codes
  BY <1>2 DEF BeginFlaws, Codes, Errors, Record, Stops
<1>5. Stops = {"ABORTED", "LOCAL_CHAT_TIMEOUT"}
  BY DEF Stops
<1> HIDE DEF begun
<1>6. CASE Fail(c, call[c], "LOCAL_CHAT_SIGNAL_INVALID")
  BY <1>1, <1>4, <1>5, <1>6, FailAccounted
<1>7. CASE begun.stop # None /\ Fail(c, begun, begun.stop)
  BY <1>1, <1>2, <1>3, <1>4, <1>7, FailAccounted
<1>8. CASE flaw # None /\ Fail(c, begun, flaw)
  BY <1>1, <1>2, <1>3, <1>4, <1>5, <1>8, FailAccounted
<1>9. CASE /\ begun.stop = None
           /\ Update(c, [begun EXCEPT !.at = "waiting", !.net = "fetching"])
           /\ UNCHANGED receipts
  <2> DEFINE waiting == [begun EXCEPT !.at = "waiting", !.net = "fetching"]
  <2>1. Caused(waiting) /\ Settled(call[c], waiting)
    BY <1>1, <1>2, <1>3 DEF Caused, Settled, Record
  <2> QED BY <1>9, <2>1, QuietAccounted DEF Quiet
<1> QED BY <1>6, <1>7, <1>8, <1>9 DEF Begin, begun

\* Only an error of the transport may carry the code of a stop.
Results(record, result) ==
  result \in Stops => result \in TransportCodes /\ record.net = "failed"

\* The request goes on, or ends with such a result.
LEMMA RequestAccounted ==
  ASSUME IInv, Accounted, NEW c \in Calls, NEW over \in Record,
         over.at = call[c].at, over.stop = call[c].stop, over.due = call[c].due,
         over.upstream = call[c].upstream, over.result = call[c].result,
         UNCHANGED receipts,
         call[c].net # "failed",
         Update(c, over) \/ \E result \in Codes \union {Text} : Results(over, result) /\ Update(c, Raced(over, result))
  PROVE  Accounted'
<1>1. Caused(over) /\ Settled(call[c], over)
  BY DEF Accounted, Caused, PassedOn, Settled
<1>2. CASE Update(c, over)
  BY <1>1, <1>2, QuietAccounted DEF Quiet
<1>3. ASSUME NEW result \in Codes \union {Text}, Results(over, result), Update(c, Raced(over, result))
      PROVE  Accounted'
  <2>1. Caused(Raced(over, result)) /\ Settled(over, Raced(over, result))
    BY <1>1, <1>3, RacedCaused DEF Results
  <2>2. Settled(call[c], Raced(over, result))
    BY <1>1, <2>1 DEF Settled
  <2> QED BY <1>3, <2>1, <2>2, QuietAccounted DEF Quiet
<1> QED BY <1>2, <1>3

LEMMA NetAccounted ==
  ASSUME IInv, Accounted, NEW c \in Calls,
         \/ \E usable \in BOOLEAN : Fetched(c, usable)
         \/ NetFails(c) \/ ReadOther(c) \/ ReadEnds(c)
         \/ \E size \in 1..(Cap + 1) : ReadPart(c, size)
  PROVE  Accounted'
<1>1. call[c] \in Record
  BY Known
<1>2. \A net \in {"reading", "cancelled", "failed", "ended"} :
        LET over == [call[c] EXCEPT !.net = net]
        IN  /\ over \in Record
            /\ over.at = call[c].at /\ over.stop = call[c].stop /\ over.due = call[c].due
            /\ over.upstream = call[c].upstream /\ over.result = call[c].result /\ over.net = net
  BY <1>1 DEF Record
<1>3. /\ {"LOCAL_CHAT_RESPONSE_UNAVAILABLE", "LOCAL_CHAT_UNAVAILABLE", "LOCAL_CHAT_RESPONSE_INVALID",
           "LOCAL_CHAT_RESPONSE_TOO_LARGE", "LOCAL_CHAT_RESPONSE_UTF8_INVALID"} \subseteq Errors
      /\ \A result \in Errors \union {Text} : result \in Codes \union {Text} /\ result \notin Stops
      /\ \A code \in TransportCodes : code \in Codes \union {Text}
  BY ChatAssumption DEF Errors, Codes, Stops
<1>4. ASSUME NEW net \in {"reading", "cancelled", "failed", "ended"}, UNCHANGED receipts,
             call[c].net # "failed",
             \/ Update(c, [call[c] EXCEPT !.net = net])
             \/ \E result \in Errors \union {Text} \union (IF net = "failed" THEN TransportCodes ELSE {}) :
                  Update(c, Raced([call[c] EXCEPT !.net = net], result))
      PROVE  Accounted'
  <2> DEFINE over == [call[c] EXCEPT !.net = net]
  <2>1. /\ over \in Record
        /\ over.at = call[c].at /\ over.stop = call[c].stop /\ over.due = call[c].due
        /\ over.upstream = call[c].upstream /\ over.result = call[c].result /\ over.net = net
    BY <1>2
  <2>2. Update(c, over) \/ \E result \in Codes \union {Text} : Results(over, result) /\ Update(c, Raced(over, result))
    <3> HIDE DEF over
    <3>1. \A result \in Errors \union {Text} \union (IF net = "failed" THEN TransportCodes ELSE {}) :
            result \in Codes \union {Text} /\ Results(over, result)
      BY <1>3, <2>1 DEF Results
    <3> QED BY <1>4, <3>1 DEF over
  <2> HIDE DEF over
  <2> QED BY <1>4, <2>1, <2>2, RequestAccounted
<1>5. ASSUME NEW usable \in BOOLEAN, Fetched(c, usable) PROVE Accounted'
  <2>1. UNCHANGED receipts /\ call[c].net # "failed"
    BY <1>5 DEF Fetched
  <2>2. CASE call[c].stop # None
    <3>1. Update(c, [call[c] EXCEPT !.net = "cancelled"])
      BY <1>5, <2>2 DEF Fetched
    <3> QED BY <1>4, <2>1, <3>1
  <2>3. CASE call[c].stop = None /\ usable
    <3>1. Update(c, [call[c] EXCEPT !.net = "reading"])
      BY <1>5, <2>3 DEF Fetched
    <3> QED BY <1>4, <2>1, <3>1
  <2>4. CASE call[c].stop = None /\ ~usable
    <3>1. Update(c, Raced([call[c] EXCEPT !.net = "cancelled"], "LOCAL_CHAT_RESPONSE_UNAVAILABLE"))
      BY <1>5, <2>4 DEF Fetched
    <3> QED BY <1>3, <1>4, <2>1, <3>1
  <2> QED BY <2>2, <2>3, <2>4
<1>6. CASE NetFails(c)
  BY <1>3, <1>4, <1>6 DEF NetFails
<1>7. CASE ReadOther(c)
  BY <1>3, <1>4, <1>7 DEF ReadOther
<1>8. CASE ReadEnds(c)
  BY <1>3, <1>4, <1>8 DEF ReadEnds
<1>9. ASSUME NEW size \in 1..(Cap + 1), ReadPart(c, size) PROVE Accounted'
  <2>1. UNCHANGED receipts /\ call[c].net # "failed" /\ Update(c, Part(call[c], size))
    BY <1>9 DEF ReadPart
  <2>2. CASE call[c].total + size > Cap
    <3>1. Update(c, Raced([call[c] EXCEPT !.net = "cancelled"], "LOCAL_CHAT_RESPONSE_TOO_LARGE"))
      BY <2>1, <2>2 DEF Part
    <3> QED BY <1>3, <1>4, <2>1, <3>1
  <2>3. CASE ~(call[c].total + size > Cap)
    <3> DEFINE more == [call[c] EXCEPT !.total = @ + size]
    <3>1. call[c].total + size \in 0..Cap
      BY <1>1, <2>3, ChatAssumption DEF Record
    <3>2. /\ more \in Record
          /\ more.at = call[c].at /\ more.stop = call[c].stop /\ more.due = call[c].due
          /\ more.upstream = call[c].upstream /\ more.result = call[c].result
      BY <1>1, <3>1 DEF Record
    <3>3. Update(c, more)
      BY <2>1, <2>3 DEF Part
    <3> HIDE DEF more
    <3> QED BY <2>1, <3>2, <3>3, RequestAccounted
  <2> QED BY <2>2, <2>3
<1> QED BY <1>5, <1>6, <1>7, <1>8, <1>9

LEMMA StopAccounted ==
  ASSUME IInv, Accounted, NEW c \in Calls, TimerFires(c) \/ Aborts(c) \/ DeadlinePasses(c)
  PROVE  Accounted'
<1>1. call[c] \in Record /\ Caused(call[c]) /\ {"ABORTED", "LOCAL_CHAT_TIMEOUT"} \subseteq Stops
  BY Known DEF Accounted, Stops
<1>2. CASE TimerFires(c)
  <2>1. call[c].at = "waiting" /\ call[c].due /\ Update(c, Stopped(call[c], "LOCAL_CHAT_TIMEOUT"))
        /\ UNCHANGED receipts
    BY <1>2 DEF TimerFires
  <2>2. /\ Caused(Stopped(call[c], "LOCAL_CHAT_TIMEOUT"))
        /\ Stopped(call[c], "LOCAL_CHAT_TIMEOUT").at # "returned"
    BY <1>1, <2>1, StoppedCaused
  <2>3. Settled(call[c], Stopped(call[c], "LOCAL_CHAT_TIMEOUT"))
    BY <2>1, <2>2 DEF Settled
  <2> QED BY <2>1, <2>2, <2>3, QuietAccounted DEF Quiet
<1>3. CASE Aborts(c)
  <2> DEFINE aborted == [call[c] EXCEPT !.upstream = "aborted"]
  <2>1. /\ aborted \in Record /\ Caused(aborted) /\ aborted.upstream = "aborted"
        /\ aborted.at = call[c].at /\ call[c].at # "returned" /\ UNCHANGED receipts
    BY <1>1, <1>3 DEF Aborts, Record, Caused, PassedOn
  <2>2. Update(c, IF call[c].at = "unused" THEN aborted ELSE Stopped(aborted, "ABORTED"))
    BY <1>3 DEF Aborts
  <2> HIDE DEF aborted
  <2>3. Caused(Stopped(aborted, "ABORTED")) /\ Stopped(aborted, "ABORTED").at # "returned"
    BY <1>1, <2>1, StoppedCaused
  <2>4. Settled(call[c], aborted) /\ Settled(call[c], Stopped(aborted, "ABORTED"))
    BY <2>1, <2>3 DEF Settled
  <2> QED BY <2>1, <2>2, <2>3, <2>4, QuietAccounted DEF Quiet
<1>4. CASE DeadlinePasses(c)
  <2> DEFINE due == [call[c] EXCEPT !.due = TRUE]
  <2>1. Caused(due) /\ Settled(call[c], due)
    BY <1>1, <1>4 DEF DeadlinePasses, Record, Caused, PassedOn, Settled
  <2> QED BY <1>4, <2>1, QuietAccounted DEF DeadlinePasses, Quiet
<1> QED BY <1>2, <1>3, <1>4

LEMMA ContinueAccounted ==
  ASSUME IInv, Accounted, NEW c \in Calls, NEW fits \in BOOLEAN, Continue(c, fits)
  PROVE  Accounted'
<1>1. /\ call[c] \in Record /\ call[c].at = "raced" /\ call[c].at # "returned"
      /\ Caused(call[c]) /\ call[c].result # None
  BY Known DEF Continue, InStep, Accounted
<1>2. /\ call[c].result # Text => call[c].result \in Codes
      /\ {"LOCAL_CHAT_JSON_INVALID", "LOCAL_CHAT_TIMEOUT"} \subseteq Codes
      /\ {"ABORTED", "LOCAL_CHAT_TIMEOUT"} \subseteq Stops
      /\ "LOCAL_CHAT_JSON_INVALID" \notin Stops
  BY <1>1 DEF Record, Codes, Stops, Errors
<1>3. CASE call[c].result # Text
  BY <1>1, <1>2, <1>3, FailAccounted DEF Continue, Caused
<1>4. CASE call[c].result = Text /\ (call[c].total = 0 \/ ~fits)
  BY <1>1, <1>2, <1>4, FailAccounted DEF Continue
<1>5. CASE call[c].result = Text /\ call[c].total # 0 /\ fits /\ ~InTime(call[c])
  <2>1. call[c].stop # None \/ Happened(call[c], "LOCAL_CHAT_TIMEOUT")
    BY <1>1, <1>5 DEF InTime, Happened
  <2>2. Fail(c, call[c], "LOCAL_CHAT_TIMEOUT")
    BY <1>5 DEF Continue
  <2> QED BY <1>1, <1>2, <2>1, <2>2, FailAccounted
<1>6. CASE call[c].result = Text /\ call[c].total # 0 /\ fits /\ InTime(call[c])
  <2>1. Return(c, call[c], "RESPONSE_VALIDATED", None)
    BY <1>6 DEF Continue
  <2>2. Tells(call[c], None)
    BY <1>2, <1>6, ChatAssumption DEF InTime, Tells, Codes
  <2> QED BY <1>1, <2>1, <2>2, EndingAccounted DEF Ending
<1> QED BY <1>3, <1>4, <1>5, <1>6

LEMMA InitAccounted == Init => Accounted
BY ChatAssumption DEF Init, Accounted, Caused, Unused, OneTrueReceipt, Returned, Codes, Stops

LEMMA NextAccounted == IInv /\ Accounted /\ [Next]_vars => Accounted'
<1> SUFFICES ASSUME IInv, Accounted, [Next]_vars PROVE Accounted'
  OBVIOUS
<1>1. CASE UNCHANGED vars
  BY <1>1 DEF Accounted, OneTrueReceipt, Returned, vars
<1>2. CASE Next
  <2>1. PICK c \in Calls : CallStep(c) \/ DeadlinePasses(c) \/ TimerFires(c) \/ Continues(c)
    BY <1>2 DEF Next
  <2>2. CASE \E flaw \in BeginFlaws : Begin(c, flaw)
    BY <2>2, BeginAccounted
  <2>3. CASE \/ \E usable \in BOOLEAN : Fetched(c, usable)
             \/ NetFails(c) \/ ReadOther(c) \/ ReadEnds(c)
             \/ \E size \in 1..(Cap + 1) : ReadPart(c, size)
    BY <2>3, NetAccounted
  <2>4. CASE TimerFires(c) \/ Aborts(c) \/ DeadlinePasses(c)
    BY <2>4, StopAccounted
  <2>5. CASE Continues(c)
    BY <2>5, ContinueAccounted DEF Continues
  <2> QED BY <2>1, <2>2, <2>3, <2>4, <2>5 DEF CallStep
<1> QED BY <1>1, <1>2 DEF vars

(***************************************************************************)
(* Whatever fails first and whatever fails because of it, a call leaves    *)
(* one receipt.  If the call was stopped, the receipt names that stop.  If *)
(* it names a stop, what stops so happened, unless the call was unstopped  *)
(* and the transport's own error carried that code (line 198), whatever    *)
(* codes the transport's errors may carry.                                 *)
(***************************************************************************)
THEOREM EveryCallIsReceipted == Spec => []OneTrueReceipt
<1>1. Accounted => OneTrueReceipt
  BY DEF Accounted
<1> QED
  BY <1>1, InitIInv, NextPreserves, InitAccounted, NextAccounted, PTL DEF Spec
=============================================================================
