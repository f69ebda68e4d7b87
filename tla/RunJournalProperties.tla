------------------------ MODULE RunJournalProperties ------------------------
(***************************************************************************)
(* What a host may rely on when it keeps a run journal.                    *)
(***************************************************************************)
EXTENDS RunJournal, SequencesExt

WithoutPayload(entry) == [entry EXCEPT !.payload = None]

\* What a journal may hold of the entries hosts passed in.
Keepable ==
  {Redacted(e) : e \in {e \in Inputs : e.project = ProjectId}}
    \union {WithoutPayload(e) : e \in {e \in Inputs : e.project = ProjectId}}

Answers == {"OK", "TIME", "ENTRY", "SEALED", "PROJECT", "DUPLICATE", "CONFLICT",
            "HISTORY_LIMIT", "RETRY_DUPLICATE", "RETRY", "REVOCATION", "APPENDED"}

Diagnoses == [status : {"COMPLETE", "INCOMPLETE", "INVALID"}, line : Nat \union {None},
              reason : {None, "HEADER", "RECORD", "FOOTER", "TRAILING_DATA",
                        "TRUNCATED", "MISSING_FOOTER"}]

\* The variables hold the values the code keeps in them; a record is an
\* input of this project, redacted, or what is left of it without payload.
JournalTypeOK ==
  /\ status \in {"open", "sealed", "none"}
  /\ Len(records) <= HistoryLimit
  /\ \A i \in DOMAIN records :
       /\ records[i].entry \in Keepable
       /\ EntryAccepted(records[i].entry, mark)
       /\ records[i].retained \in BOOLEAN
       /\ records[i].historical \in BOOLEAN
  /\ mark \in Nat /\ mark <= MaxSafe
  /\ reply \in [op : {"create", "append", "list", "retain", "serialize"}, answer : Answers]
               \union [op : {"reopen"}, answer : Diagnoses]

(***************************************************************************)
(* Payloads are kept for at most MaxEntries records, the newest ones: a    *)
(* record outlives a newer one only if the newer one expired by itself.    *)
(***************************************************************************)
NewestRetained ==
  /\ Cardinality(RetainedOf(records)) <= MaxEntries
  /\ \A i, j \in DOMAIN records :
       i < j /\ records[i].retained /\ ~records[j].retained => Expired(records[j].entry, mark)

(***************************************************************************)
(* Whatever was appended, pruned and serialised, the text reopens as       *)
(* COMPLETE with the same history, at any later time it is written: what   *)
(* append accepts and what reopen accepts are the same journals, also at   *)
(* the history limit, after pruning and after earlier recoveries.          *)
(***************************************************************************)
ReopensComplete ==
  status = "open" =>
    \A now \in {t \in Times : TimeFits(t)} :
      LET history == Pruned(records, now)
          written == Serialized(history, now)
      IN /\ Diagnosis(written).status = "COMPLETE"
         /\ LET again == Recovered(written.lines, LastAccepted(written.lines))
            IN /\ Len(again) = Len(history)
               /\ \A i \in DOMAIN history : Stored(again[i]) = Stored(history[i])

(***************************************************************************)
(* A text that lost a line or part of one, was edited or written behind is *)
(* never taken for complete, and what is recovered from it is a beginning  *)
(* of the history that was serialised, record by record.                   *)
(***************************************************************************)
DamageIsNoticed ==
  text # None =>
    LET original == Recovered(text.lines, Len(text.lines) - 1)
    IN \A given \in {t \in Damaged(text) : HeaderReadable(t)} :
         /\ Diagnosis(given).status # "COMPLETE"
         /\ IsPrefix(Recovered(given.lines, LastAccepted(given.lines)), original)

\* The fields that identify an entry for ever.
Identity(record) == WithoutPayload(record.entry)

(***************************************************************************)
(* Between restarts a history is only ever added to: records keep their    *)
(* place and identity, a payload is dropped once and never restored, the   *)
(* mark never goes back, and a sealed journal takes nothing new and never  *)
(* replaces the host's text.                                               *)
(***************************************************************************)
HistoryOnlyGrows ==
  [][reply'.op # "reopen" =>
       /\ Len(records') >= Len(records)
       /\ \A i \in DOMAIN records :
            /\ Identity(records'[i]) = Identity(records[i])
            /\ records'[i].retained => Stored(records'[i]) = Stored(records[i])
       /\ mark' >= mark
       /\ status' = status
       /\ status = "sealed" => Len(records') = Len(records) /\ text' = text]_vars

(***************************************************************************)
(* A retry in the history has a target that had come to an end: an earlier *)
(* attempt of the same run, terminal, expired or revoked, and no other     *)
(* retry has the same target and attempt.  An id names one entry.          *)
(***************************************************************************)
RetriesFollowEnds ==
  \A j \in DOMAIN records :
    /\ \A i \in 1..(j - 1) :
         /\ records[i].entry.id # records[j].entry.id
         /\ records[j].entry.retryOf # None /\ records[i].entry.retryOf = records[j].entry.retryOf
              => records[i].entry.attempt # records[j].entry.attempt
    /\ records[j].entry.retryOf # None =>
         \E i \in 1..(j - 1) :
           /\ records[i].entry.id = records[j].entry.retryOf
           /\ records[i].entry.runId = records[j].entry.runId
           /\ records[i].entry.attempt < records[j].entry.attempt
           /\ Liveness(records, i, mark) \notin {"QUEUED", "RUNNING", "UNKNOWN"}

(***************************************************************************)
(* What a view says of an entry only decays: a running entry may become    *)
(* unknown, an unfinished one may expire, anything may be revoked, and     *)
(* nothing comes back.                                                     *)
(***************************************************************************)
Decays(before, after) ==
  \/ before = after
  \/ after = "REVOKED"
  \/ after = "EXPIRED" /\ before \in {"QUEUED", "RUNNING", "UNKNOWN"}
  \/ after = "UNKNOWN" /\ before = "RUNNING"

LivenessOnlyDecays ==
  [][reply'.op # "reopen" =>
       \A i \in DOMAIN records : Decays(Liveness(records, i, mark), Liveness(records', i, mark'))]_vars

(***************************************************************************)
(* Repeating an append is harmless: while its payload is retained, every   *)
(* input the journal already holds is a DUPLICATE, whatever its redacted   *)
(* part, whether it was a retry and how full the history is.  Once it is   *)
(* pruned the input is a CONFLICT, unless there was no payload to drop.    *)
(***************************************************************************)
ReplayIsDuplicate ==
  status = "open" =>
    \A input \in Inputs, i \in DOMAIN records :
      Identity(records[i]) = WithoutPayload(input) =>
        /\ records[i].retained /\ records[i].entry = Redacted(input) => Verdict(input, mark) = "DUPLICATE"
        /\ ~records[i].retained =>
             Verdict(input, mark) = IF input.payload = None THEN "DUPLICATE" ELSE "CONFLICT"
=============================================================================
