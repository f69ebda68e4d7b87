----------------------------- MODULE RunJournal -----------------------------
(***************************************************************************)
(* The run journal (history/run-journal-v1.mjs): an append-only record of  *)
(* entries that a host writes with a clock of its own, serialises to text  *)
(* lines in a hash chain and reopens after a restart.                      *)
(*                                                                         *)
(* The journal is synchronous, so an operation is a step.  The indexes the *)
(* code keeps beside the records (byId, active, revoked, retries) are      *)
(* updated together with them and are functions of the records here.  An   *)
(* entry keeps the fields that decide anything; stage and receiptId are    *)
(* only compared, like payload.  A digest is a record holding what was     *)
(* digested: equal exactly for equal contents.                             *)
(***************************************************************************)
EXTENDS Naturals, Sequences, FiniteSets

CONSTANTS
  Inputs,        \* the entries hosts append
  Times,         \* the times hosts pass in
  ProjectId,     \* config.projectId
  MaxEntries,    \* config.maxEntries
  HeartbeatTtl,  \* config.heartbeatTtlMs
  HistoryLimit,  \* MAX_RECORDS
  MaxSafe,       \* Number.MAX_SAFE_INTEGER
  None           \* JavaScript's null

ASSUME JournalAssumption ==
  /\ Times \subseteq Nat
  /\ MaxEntries \in Nat \ {0}
  /\ HeartbeatTtl \in Nat \ {0}
  /\ HistoryLimit \in Nat \ {0}
  /\ MaxSafe \in Nat

Values(field) == {e[field] : e \in Inputs} \ {None}

\* A payload has an open part and a part at a redacted path, which may be
\* missing.
Payloads == [open : STRING, secret : STRING \union {"missing", "[REDACTED]"}]

Entries ==
  [id : Values("id"), project : Values("project"), runId : Values("runId"),
   candidate : Values("candidate"), attempt : Nat, createdAt : Nat, ttl : Nat,
   state : STRING, heartbeatAt : Nat \union {None}, retryOf : Values("retryOf") \union {None},
   revokes : Values("revokes") \union {None},
   payload : Payloads \union {None}]

ASSUME InputAssumption ==
  /\ Inputs \subseteq Entries
  /\ None \notin Payloads

VARIABLES
  status,    \* "open", "sealed" after a recovery with damage, or "none"
  records,   \* oldest first
  mark,      \* the latest time accepted
  text,      \* the text the host serialised last, or None
  reply      \* what the last operation returned

vars == <<status, records, mark, text, reply>>

Ended == {"SUCCEEDED", "FAILED", "CANCELLED", "REVOKED"}

States == Ended \union {"QUEUED", "RUNNING"}

Fingerprint(entry) == [sha256 |-> entry]

Expired(entry, now) == now >= entry.createdAt + entry.ttl

(***************************************************************************)
(* entryOf: an entry is accepted or the call throws.                       *)
(***************************************************************************)
EntryAccepted(entry, now) ==
  /\ entry.state \in States
  /\ entry.ttl >= 1
  /\ entry.createdAt + entry.ttl <= MaxSafe
  /\ entry.heartbeatAt # None => entry.heartbeatAt <= entry.createdAt
  /\ IF entry.state = "REVOKED"
       THEN entry.revokes # None /\ entry.retryOf = None
       ELSE entry.revokes = None
  /\ entry.createdAt <= now

Redacted(entry) ==
  IF entry.payload = None \/ entry.payload.secret = "missing" THEN entry
  ELSE [entry EXCEPT !.payload.secret = "[REDACTED]"]

(***************************************************************************)
(* Lookups in a history.                                                   *)
(***************************************************************************)
Ids(history) == {history[i].entry.id : i \in DOMAIN history}

RecordOf(history, id) == history[CHOOSE i \in DOMAIN history : history[i].entry.id = id]

Revoked(history, id) == \E i \in DOMAIN history : history[i].entry.revokes = id

RetainedOf(history) == {i \in DOMAIN history : history[i].retained}

RetryTaken(history, entry) ==
  \E i \in DOMAIN history : /\ history[i].entry.retryOf = entry.retryOf
                            /\ history[i].entry.attempt = entry.attempt

\* Slip: a target is retried while it still runs.
RetryFitsAnyTarget(history, entry, now) ==
  \E i \in DOMAIN history :
    LET target == history[i].entry
    IN /\ target.id = entry.retryOf
       /\ entry.state = "QUEUED"
       /\ target.runId = entry.runId
       /\ target.attempt < entry.attempt
       /\ target.createdAt <= entry.createdAt

\* A retry is queued behind an earlier attempt of its run that has ended,
\* expired or been revoked.
RetryFits(history, entry, now) ==
  \E i \in DOMAIN history :
    LET target == history[i].entry
    IN /\ target.id = entry.retryOf
       /\ entry.state = "QUEUED"
       /\ target.runId = entry.runId
       /\ target.attempt < entry.attempt
       /\ target.createdAt <= entry.createdAt
       /\ \/ target.state \in Ended
          \/ Expired(target, now)
          \/ Revoked(history, target.id)

RevocationFits(history, entry) ==
  \E i \in DOMAIN history :
    LET target == history[i].entry
    IN /\ target.id = entry.revokes
       /\ target.runId = entry.runId
       /\ target.attempt = entry.attempt
       /\ target.candidate = entry.candidate
       /\ target.createdAt <= entry.createdAt

(***************************************************************************)
(* Retention.  A retired record loses its payload and keeps its place; its *)
(* fingerprint is that of the entry without the payload.                   *)
(***************************************************************************)
\* Slip: a retired record keeps the fingerprint of its payload.
RetiredOnly(record) ==
  [record EXCEPT !.retained = FALSE, !.entry.payload = None]

Retired(record) ==
  [record EXCEPT !.retained = FALSE,
                 !.entry.payload = None,
                 !.fingerprint = Fingerprint([record.entry EXCEPT !.payload = None])]

\* Slip: the newest records are retired instead of the oldest.
PrunedFromTheEnd(history, now) ==
  LET live == {i \in RetainedOf(history) : ~Expired(history[i].entry, now)}
      kept == {i \in live : Cardinality({j \in live : j < i}) < MaxEntries}
  IN [i \in DOMAIN history |->
        IF i \in RetainedOf(history) \ kept THEN Retired(history[i]) ELSE history[i]]

Pruned(history, now) ==
  LET live == {i \in RetainedOf(history) : ~Expired(history[i].entry, now)}
      kept == {i \in live : Cardinality({j \in live : j > i}) < MaxEntries}
  IN [i \in DOMAIN history |->
        IF i \in RetainedOf(history) \ kept THEN Retired(history[i]) ELSE history[i]]

\* The liveness a view shows.
Liveness(history, i, now) ==
  LET entry == history[i].entry
  IN IF Revoked(history, entry.id) THEN "REVOKED"
     ELSE IF entry.state \in Ended THEN entry.state
     ELSE IF Expired(entry, now) THEN "EXPIRED"
     ELSE IF /\ entry.state = "RUNNING"
             /\ entry.heartbeatAt = None \/ now > entry.heartbeatAt + HeartbeatTtl
       THEN "UNKNOWN"
     ELSE entry.state

Init ==
  /\ status = "open"
  /\ records = <<>>
  /\ mark = 0
  /\ text = None
  /\ reply = [op |-> "create", answer |-> "OK"]

(***************************************************************************)
(* append(input, now): the first reason not to append is the answer.  Only *)
(* an appended entry moves the mark.                                       *)
(***************************************************************************)
\* Slip: the clock may go back.
TimeFitsAny(now) == now <= MaxSafe

TimeFits(now) == now <= MaxSafe /\ now >= mark

\* Slip: a recovered history is continued although it is incomplete.
ClosedNever == FALSE

Closed == status = "sealed"

\* Slip: a retry is judged before its id is looked up.
KnownUnlessRetry(entry) == entry.id \in Ids(records) /\ ~RetryTaken(records, entry)

Known(entry) == entry.id \in Ids(records)

Verdict(input, now) ==
  LET entry == Redacted(input)
  IN IF ~TimeFits(now) THEN "TIME"
     ELSE IF ~EntryAccepted(input, now) THEN "ENTRY"
     ELSE IF Closed THEN "SEALED"
     ELSE IF entry.project # ProjectId THEN "PROJECT"
     ELSE IF Known(entry)
       THEN IF RecordOf(records, entry.id).fingerprint = Fingerprint(entry)
              THEN "DUPLICATE" ELSE "CONFLICT"
     ELSE IF Len(records) >= HistoryLimit THEN "HISTORY_LIMIT"
     ELSE IF entry.retryOf # None /\ RetryTaken(records, entry) THEN "RETRY_DUPLICATE"
     ELSE IF entry.retryOf # None /\ ~RetryFits(records, entry, now) THEN "RETRY"
     ELSE IF entry.revokes # None /\ ~RevocationFits(records, entry) THEN "REVOCATION"
     ELSE "APPENDED"

\* Slip: the entry is stored as it came in.
NewRecordUnredacted(input) ==
  [entry |-> input, fingerprint |-> Fingerprint(Redacted(input)),
   retained |-> TRUE, historical |-> FALSE]

NewRecord(input) ==
  [entry |-> Redacted(input), fingerprint |-> Fingerprint(Redacted(input)),
   retained |-> TRUE, historical |-> FALSE]

AppendEntry(input, now) ==
  /\ status # "none"
  /\ reply' = [op |-> "append", answer |-> Verdict(input, now)]
  /\ IF Verdict(input, now) = "APPENDED"
       THEN /\ records' = Pruned(Append(records, NewRecord(input)), now)
            /\ mark' = now
       ELSE UNCHANGED <<records, mark>>
  /\ UNCHANGED <<status, text>>

(***************************************************************************)
(* list(now), retain(now) and serialize(now) move the mark and prune.      *)
(***************************************************************************)
Advance(op, now) ==
  /\ status # "none"
  /\ reply' = [op |-> op, answer |-> IF TimeFits(now) THEN "OK" ELSE "TIME"]
  /\ IF TimeFits(now)
       THEN records' = Pruned(records, now) /\ mark' = now
       ELSE UNCHANGED <<records, mark>>
  /\ UNCHANGED status

List(now) == Advance("list", now) /\ UNCHANGED text

Retain(now) == Advance("retain", now) /\ UNCHANGED text

HeaderHash(header) == [sha256 |-> header]

RecordHash(seq, previous, record) ==
  [sha256 |-> [seq |-> seq, previous |-> previous, record |-> record]]

Stored(record) ==
  [entry |-> record.entry, fingerprint |-> record.fingerprint, retained |-> record.retained]

\* The hashes of the lines: each depends on the one before.
Chain(history, header) ==
  LET hash[n \in 0..Len(history)] ==
        IF n = 0 THEN HeaderHash(header) ELSE RecordHash(n, hash[n - 1], Stored(history[n]))
  IN hash

\* The lines of a text; `torn` if the last line lacks its end.
Serialized(history, now) ==
  LET header == [type |-> "header", now |-> now]
      hash == Chain(history, header)
      line(n) == [type |-> "entry", seq |-> n, previous |-> hash[n - 1],
                  record |-> Stored(history[n]), hash |-> hash[n]]
      footer == [type |-> "footer", count |-> Len(history), last |-> hash[Len(history)]]
  IN [lines |-> <<header>> \o [n \in 1..Len(history) |-> line(n)] \o <<footer>>,
      torn |-> FALSE]

Serialize(now) ==
  IF Closed
    THEN reply' = [op |-> "serialize", answer |-> "SEALED"] /\ UNCHANGED <<status, records, mark, text>>
    ELSE /\ Advance("serialize", now)
         /\ text' = IF TimeFits(now) THEN Serialized(Pruned(records, now), now) ELSE text

(***************************************************************************)
(* reopen(serialized): the lines are accepted one by one up to the first   *)
(* that does not continue the chain or could not have been appended.  What *)
(* was accepted is the recovered history; it is sealed unless the text is  *)
(* complete.                                                               *)
(***************************************************************************)
Recovered(lines, last) ==
  [i \in 1..(last - 1) |->
     [entry |-> lines[i + 1].record.entry, fingerprint |-> lines[i + 1].record.fingerprint,
      retained |-> lines[i + 1].record.retained, historical |-> TRUE]]

RoomLeft(history) == Len(history) < HistoryLimit

RecordAccepted(record, history, now) ==
  LET entry == record.entry
  IN /\ EntryAccepted(entry, now)
     /\ RoomLeft(history)
     /\ entry.project = ProjectId
     /\ entry.id \notin Ids(history)
     /\ record.fingerprint = Fingerprint(entry)
     /\ IF record.retained
          THEN /\ entry = Redacted(entry)
               /\ ~Expired(entry, now)
               /\ Cardinality(RetainedOf(history)) < MaxEntries
          ELSE entry.payload = None
     /\ entry.retryOf # None => ~RetryTaken(history, entry) /\ RetryFits(history, entry, now)
     /\ entry.revokes # None => RevocationFits(history, entry)

\* Slip: the chain is checked by its hashes alone, not from line to line.
ContinuesAnyChain(lines, n) ==
  lines[n].hash = RecordHash(lines[n].seq, lines[n].previous, lines[n].record)

Continues(lines, n) ==
  LET line == lines[n]
      previous == IF n = 2 THEN HeaderHash(lines[1]) ELSE lines[n - 1].hash
  IN /\ line.seq = n - 1
     /\ line.previous = previous
     /\ line.hash = RecordHash(line.seq, line.previous, line.record)

LineAccepted(lines, n) ==
  /\ lines[n].type = "entry"
  /\ Continues(lines, n)
  /\ RecordAccepted(lines[n].record, Recovered(lines, n - 1), lines[1].now)

LastAccepted(lines) ==
  CHOOSE k \in 1..Len(lines) :
    /\ \A n \in 2..k : LineAccepted(lines, n)
    /\ k < Len(lines) => ~LineAccepted(lines, k + 1)

FooterFits(lines, n) ==
  /\ lines[n].count = n - 2
  /\ lines[n].last = IF n = 2 THEN HeaderHash(lines[1]) ELSE lines[n - 1].hash

Diagnosis(given) ==
  LET lines == given.lines
      last == LastAccepted(lines)
      at(line, kind, reason) == [status |-> kind, line |-> line, reason |-> reason]
  IN IF last = Len(lines)
       THEN at(last + 1, "INCOMPLETE", IF given.torn THEN "TRUNCATED" ELSE "MISSING_FOOTER")
     ELSE IF lines[last + 1].type # "footer" THEN at(last + 1, "INVALID", "RECORD")
     ELSE IF ~FooterFits(lines, last + 1) THEN at(last + 1, "INVALID", "FOOTER")
     ELSE IF last + 1 < Len(lines) \/ given.torn THEN at(last + 2, "INVALID", "TRAILING_DATA")
     ELSE at(None, "COMPLETE", None)

HeaderReadable(given) == given.lines # <<>> /\ given.lines[1].type = "header"

Reopen(given) ==
  IF ~HeaderReadable(given)
    THEN /\ status' = "none"
         /\ records' = <<>>
         /\ mark' = 0
         /\ reply' = [op |-> "reopen", answer |-> [status |-> "INVALID", line |-> 1, reason |-> "HEADER"]]
         /\ UNCHANGED text
    ELSE /\ status' = IF Diagnosis(given).status = "COMPLETE" THEN "open" ELSE "sealed"
         /\ records' = Recovered(given.lines, LastAccepted(given.lines))
         /\ mark' = given.lines[1].now
         /\ reply' = [op |-> "reopen", answer |-> Diagnosis(given)]
         /\ UNCHANGED text

(***************************************************************************)
(* What may happen to a text while the host keeps it: it loses its end, a  *)
(* line, or part of a line; a line becomes unreadable or its record is     *)
(* edited; something is written behind it.                                 *)
(***************************************************************************)
Unreadable == [type |-> "unreadable"]

Damaged(given) ==
  LET lines == given.lines
      count == Len(lines)
      cut(n) == SubSeq(lines, 1, n)
      without(n) == SubSeq(lines, 1, n - 1) \o SubSeq(lines, n + 1, count)
      edited(n) == [lines EXCEPT ![n].record.entry.state = "SUCCEEDED"]
  IN {t \in
            [lines : {cut(n) : n \in 0..count}, torn : BOOLEAN]
     \union [lines : {without(n) : n \in 1..count}
                \union {[lines EXCEPT ![n] = Unreadable] : n \in 1..count}
                \union {edited(n) : n \in 2..(count - 1)}
                \union {Append(lines, Unreadable), Append(lines, lines[count])},
             torn : {FALSE}]
      : t # given}

Restart ==
  /\ text # None
  /\ \E given \in Damaged(text) \union {text} : Reopen(given)

Next ==
  \/ \E now \in Times :
       \/ \E input \in Inputs : AppendEntry(input, now)
       \/ List(now) \/ Retain(now)
       \/ status # "none" /\ Serialize(now)
  \/ Restart

Spec == Init /\ [][Next]_vars
=============================================================================
