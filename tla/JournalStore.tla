---------------------------- MODULE JournalStore ----------------------------
(***************************************************************************)
(* The journal store (history/run-journal-store-v1.mjs): replacing one     *)
(* journal file through a temporary file, and the file system it runs on.  *)
(*                                                                         *)
(* writeSerializedJournal is synchronous, so nothing interleaves with it   *)
(* inside its process.  Other processes do, and a process may be killed or *)
(* the machine lose power at any moment; a step is therefore one call of   *)
(* the file system and the code that follows it.  Every call may fail.     *)
(*                                                                         *)
(* A text is a valid journal; two texts have one digest only if they are   *)
(* equal, so a text stands for its digest.  Every attempt has a temporary  *)
(* file of its own (its name holds a random UUID).                         *)
(***************************************************************************)
EXTENDS Naturals, FiniteSets

CONSTANTS
  Attempts,    \* calls of writeSerializedJournal, each made at most once
  Texts,       \* valid serialised journals
  MaxCalls,    \* bound on the calls of hosts that may overlap
  MaxOutages,  \* bound on power losses
  None         \* undefined, null

ASSUME StoreAssumption ==
  /\ MaxCalls \in Nat /\ MaxOutages \in Nat
  /\ None \notin Texts /\ None \notin Attempts

VARIABLES
  oneWriter,  \* the host makes one call at a time
  call,       \* the calls: their place in the code, arguments and results
  temp,       \* each attempt's temporary file, or None
  path,       \* the file at the destination, or None
  survivors,  \* what the destination may be after a power loss
  outages

vars == <<oneWriter, call, temp, path, survivors, outages>>

\* A file's bytes and whether they have reached the disk; `by` wrote it.
File(content, synced, by) == [content |-> content, synced |-> synced, by |-> by]

Unused == [at |-> "unused", offer |-> None, expected |-> None, before |-> None,
           fileSynced |-> FALSE, directorySynced |-> FALSE, committed |-> FALSE,
           cleanupError |-> FALSE, status |-> None, reason |-> None, durable |-> FALSE]

Running(t) == call[t].at \notin {"unused", "returned", "dead"}

Init ==
  /\ oneWriter \in BOOLEAN
  /\ call = [t \in Attempts |-> Unused]
  /\ temp = [t \in Attempts |-> None]
  /\ path \in {None} \union {File(content, TRUE, None) : content \in Texts \union {"damaged"}}
  /\ survivors = {path}
  /\ outages = 0

At(t, place) == call[t].at = place

\* The call goes on at `place`.
Proceed(t, place) == call' = [call EXCEPT ![t].at = place]

Returned(record, status, reason) ==
  [record EXCEPT !.at = "returned", !.status = status, !.reason = reason]

Return(t, status, reason) == call' = [call EXCEPT ![t] = Returned(@, status, reason)]

\* fail(reason): the attempt's temporary file has still to be removed.
Fail(t, reason) == call' = [call EXCEPT ![t].at = "cleanup", ![t].reason = reason]

(***************************************************************************)
(* The arguments are validated, then the destination is read.              *)
(***************************************************************************)
\* Slip: the digest the caller expects is not compared.
ExpectationMetIfAny(expected) == expected # None => path # None

ExpectationMet(expected) == expected # None => path # None /\ path.content = expected

Started(t, offer, expected) == [call[t] EXCEPT !.offer = offer, !.expected = expected]

MayBegin ==
  IF oneWriter THEN \A u \in Attempts : ~Running(u)
  ELSE Cardinality({u \in Attempts : ~At(u, "unused")}) < MaxCalls

Begin(t, offer, expected) ==
  LET started == Started(t, offer, expected)
      refused(reason) == call' = [call EXCEPT ![t] = Returned(started, "REFUSED", reason)]
  IN /\ At(t, "unused")
     /\ MayBegin
     /\ \/ offer \notin Texts /\ refused("INVALID_JOURNAL")
        \/ offer \in Texts /\ refused("READ_FAILED")
        \/ /\ offer \in Texts
           /\ IF path # None /\ path.content \notin Texts THEN refused("EXISTING_INVALID")
              ELSE IF ~ExpectationMet(expected) THEN refused("CONFLICT")
              ELSE IF path # None /\ path.content = offer
                THEN call' = [call EXCEPT ![t] = Returned(started, "UNCHANGED", None)]
              ELSE IF path # None /\ expected = None THEN refused("CONFLICT")
              ELSE call' = [call EXCEPT ![t] =
                     [started EXCEPT !.at = "open", !.before = IF path = None THEN None ELSE path.content]]
     /\ UNCHANGED <<temp, path, survivors, outages, oneWriter>>

(***************************************************************************)
(* The temporary file is created, written, synced, closed and read back.   *)
(* A failed sync is noted and tolerated.                                   *)
(***************************************************************************)
OpenTemp(t) ==
  /\ At(t, "open")
  /\ \/ temp' = [temp EXCEPT ![t] = File("partial", FALSE, t)] /\ Proceed(t, "write")
     \/ Return(t, "REFUSED", "WRITE_FAILED") /\ UNCHANGED temp
  /\ UNCHANGED <<path, survivors, outages, oneWriter>>

\* Short writes are continued, so the file stays partial until the last one;
\* a write that makes no progress is a failure.  The disk may err silently.
WriteTemp(t) ==
  /\ At(t, "write")
  /\ \/ /\ \E content \in {call[t].offer, "damaged"} :
             temp' = [temp EXCEPT ![t].content = content]
        /\ Proceed(t, "sync")
     \/ Fail(t, "WRITE_FAILED") /\ UNCHANGED temp
  /\ UNCHANGED <<path, survivors, outages, oneWriter>>

SyncTemp(t) ==
  /\ At(t, "sync")
  /\ \E done \in BOOLEAN :
       /\ temp' = [temp EXCEPT ![t].synced = done]
       /\ call' = [call EXCEPT ![t].at = "close", ![t].fileSynced = done]
  /\ UNCHANGED <<path, survivors, outages, oneWriter>>

CloseTemp(t) ==
  /\ At(t, "close")
  /\ \/ Proceed(t, "readback")
     \/ call' = [call EXCEPT ![t].at = "cleanup", ![t].reason = "WRITE_FAILED", ![t].cleanupError = TRUE]
  /\ UNCHANGED <<temp, path, survivors, outages, oneWriter>>

\* Slip: only the size of the temporary file is looked at.
MatchesInSize(file, t) == file # None /\ file.content # "partial"

Matches(file, t) == file # None /\ file.content = call[t].offer

ReadBack(t) ==
  /\ At(t, "readback")
  /\ \/ Matches(temp[t], t) /\ Proceed(t, "recheck")
     \/ Fail(t, "READBACK_MISMATCH")
  /\ UNCHANGED <<temp, path, survivors, outages, oneWriter>>

(***************************************************************************)
(* The destination is read again, and replaced if it is still as before.   *)
(***************************************************************************)
AsBefore(t) == IF path = None THEN call[t].before = None ELSE path.content = call[t].before

Recheck(t) ==
  /\ At(t, "recheck")
  /\ \/ Fail(t, "READ_FAILED")
     \/ AsBefore(t) /\ Proceed(t, "rename")
     \/ ~AsBefore(t) /\ Fail(t, "CONFLICT")
  /\ UNCHANGED <<temp, path, survivors, outages, oneWriter>>

Rename(t) ==
  /\ At(t, "rename")
  /\ \/ /\ path' = temp[t]
        /\ survivors' = survivors \union {path'}
        /\ temp' = [temp EXCEPT ![t] = None]
        /\ call' = [call EXCEPT ![t].at = "syncDirectory", ![t].committed = TRUE]
     \/ Fail(t, "RENAME_FAILED") /\ UNCHANGED <<temp, path, survivors>>
  /\ UNCHANGED <<outages, oneWriter>>

\* The directory is opened, synced and closed; if closing fails the sync is
\* not relied upon.
SyncDirectory(t) ==
  /\ At(t, "syncDirectory")
  /\ \E synced, closed \in BOOLEAN :
       /\ survivors' = IF synced THEN {path} ELSE survivors
       /\ call' = [call EXCEPT ![t].at = "verify", ![t].directorySynced = synced /\ closed,
                               ![t].cleanupError = ~closed]
  /\ UNCHANGED <<temp, path, outages, oneWriter>>

\* Slips: a written file is durable once its own bytes are synced; a refusal
\* after the rename forgets that the destination was replaced.
DurableByFile(record) == record.fileSynced
AfterMismatchForgotten(record) == [Returned(record, "REFUSED", "READBACK_MISMATCH") EXCEPT !.committed = FALSE]

Durable(record) == record.fileSynced /\ record.directorySynced

AfterMismatch(record) == Returned(record, "REFUSED", "READBACK_MISMATCH")

Verify(t) ==
  /\ At(t, "verify")
  /\ \/ /\ Matches(path, t)
        /\ call' = [call EXCEPT ![t] = [Returned(@, "WRITTEN", None) EXCEPT !.durable = Durable(call[t])]]
     \/ call' = [call EXCEPT ![t] = AfterMismatch(@)]
  /\ UNCHANGED <<temp, path, survivors, outages, oneWriter>>

\* Removing the file may fail; a file that was never closed is closed first,
\* which may fail too.
Cleanup(t) ==
  /\ At(t, "cleanup")
  /\ \E removed, error \in BOOLEAN :
       /\ ~removed => error
       /\ removed /\ error => call[t].reason = "WRITE_FAILED"
       /\ temp' = [temp EXCEPT ![t] = IF removed THEN None ELSE @]
       /\ call' = [call EXCEPT ![t] =
            [Returned(call[t], "REFUSED", call[t].reason) EXCEPT !.cleanupError = @ \/ error]]
  /\ UNCHANGED <<path, survivors, outages, oneWriter>>

(***************************************************************************)
(* The environment.  A killed process leaves its file; a power loss leaves *)
(* at the destination one of the files it may have held since the last     *)
(* sync of the directory, and unsynced bytes may be lost.                  *)
(***************************************************************************)
Kill(t) ==
  /\ Running(t)
  /\ Proceed(t, "dead")
  /\ UNCHANGED <<temp, path, survivors, outages, oneWriter>>

AfterOutage(file) ==
  IF file = None THEN {None}
  ELSE {[file EXCEPT !.synced = TRUE]}
       \union (IF file.synced THEN {} ELSE {[file EXCEPT !.synced = TRUE, !.content = "damaged"]})

PowerLoss ==
  /\ outages < MaxOutages
  /\ outages' = outages + 1
  /\ call' = [t \in Attempts |-> IF Running(t) THEN [call[t] EXCEPT !.at = "dead"] ELSE call[t]]
  /\ \E file \in survivors : path' \in AfterOutage(file)
  /\ survivors' = {path'}
  /\ UNCHANGED <<temp, oneWriter>>

Step(t) ==
  \/ OpenTemp(t) \/ WriteTemp(t) \/ SyncTemp(t) \/ CloseTemp(t) \/ ReadBack(t)
  \/ Recheck(t) \/ Rename(t) \/ SyncDirectory(t) \/ Verify(t) \/ Cleanup(t)

Next ==
  \/ \E t \in Attempts :
       \/ \E offer \in Texts \union {"damaged"}, expected \in Texts \union {None} : Begin(t, offer, expected)
       \/ Step(t)
       \/ Kill(t)
  \/ PowerLoss

Spec == Init /\ [][Next]_vars
=============================================================================
