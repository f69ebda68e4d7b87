---------------------------- MODULE MCRunJournal ----------------------------
(***************************************************************************)
(* Values for model-checking the run journal.                              *)
(***************************************************************************)
EXTENDS RunJournalProperties

CONSTANTS
  EntryIds,    \* the ids hosts use
  Kinds        \* which entries hosts append: "plain", "retries", "odd"

Plain == [open |-> "x", secret |-> "missing"]
Private == [open |-> "x", secret |-> "s"]
Other == [open |-> "y", secret |-> "missing"]

Entry(ids, projects, attempts, created, ttls, states, heartbeats, retries, revocations, payloads) ==
  [id : ids, project : projects, runId : {"run"}, candidate : {"candidate"}, attempt : attempts,
   createdAt : created, ttl : ttls, state : states, heartbeatAt : heartbeats,
   retryOf : retries, revokes : revocations, payload : payloads]

\* Entries that live for one tick or three, with and without a payload.
PlainInputs ==
       Entry(EntryIds, {"project"}, {0}, {0}, {1, 3}, {"QUEUED"}, {None}, {None}, {None}, {Private})
  \union Entry(EntryIds, {"project"}, {0}, {0}, {3}, {"QUEUED"}, {None}, {None}, {None}, {None})

\* First attempts, their retries and revocations, and heartbeats.
RetryInputs ==
       Entry(EntryIds, {"project"}, {0}, {0}, {2}, {"FAILED"}, {None}, {None}, {None}, {None})
  \union Entry(EntryIds, {"project"}, {0}, {0}, {2}, {"RUNNING"}, {0}, {None}, {None}, {None})
  \union Entry(EntryIds, {"project"}, {1, 2}, {1}, {2}, {"QUEUED"}, {None}, EntryIds, {None}, {None})
  \union Entry(EntryIds, {"project"}, {0}, {1}, {2}, {"REVOKED"}, {None}, {None}, EntryIds, {None})

\* Entries that are refused, beside one that is not.
OddInputs ==
       Entry(EntryIds, {"project"}, {0}, {0}, {2}, {"RUNNING"}, {0}, {None}, {None}, {Other})
  \union Entry(EntryIds, {"other"}, {0}, {0}, {2}, {"RUNNING"}, {0}, {None}, {None}, {Private})
  \union Entry(EntryIds, {"project"}, {1}, {0}, {2}, {"RUNNING"}, {None}, EntryIds, {None}, {Plain})
  \union Entry(EntryIds, {"project"}, {0}, {1}, {0, 9}, {"RUNNING"}, {None}, {None}, {None}, {Plain})
  \union Entry(EntryIds, {"project"}, {0}, {1}, {2}, {"LOST"}, {2}, {None}, {None}, {Plain})

MCInputs ==
       (IF "plain" \in Kinds THEN PlainInputs ELSE {})
  \union (IF "retries" \in Kinds THEN RetryInputs ELSE {})
  \union (IF "odd" \in Kinds THEN OddInputs ELSE {})

MCSymmetry == Permutations(EntryIds)
=============================================================================
