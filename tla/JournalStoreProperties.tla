----------------------- MODULE JournalStoreProperties -----------------------
(***************************************************************************)
(* What writeSerializedJournal promises about the journal file.            *)
(***************************************************************************)
EXTENDS JournalStore

Done(t) == call[t].at = "returned"

(***************************************************************************)
(* Short of a power loss the destination never becomes anything but a      *)
(* whole journal, although writes are cut short, err silently or fail and  *)
(* processes are killed anywhere: nothing is renamed into place unread.    *)
(***************************************************************************)
OnlyWholeJournals ==
  [][outages' = outages /\ path' # path => path' # None /\ path'.content \in Texts]_vars

(***************************************************************************)
(* A write reported as durable survives a power loss: its file is the only *)
(* one that can be found, with the bytes that were written.                *)
(***************************************************************************)
DurableSurvives ==
  \A t \in Attempts :
    call[t].durable /\ path # None /\ path.by = t =>
      survivors = {path} /\ path.synced /\ path.content = call[t].offer

\* Only a killed attempt or a failed clean-up leaves a temporary file.
CleansUp(t) == Done(t) /\ ~call[t].cleanupError => temp[t] = None

(***************************************************************************)
(* A call that did not report a commit has left no trace at the            *)
(* destination, whatever happens afterwards: no later power loss brings    *)
(* its file back.  Nor does it leave its temporary file without saying so. *)
(***************************************************************************)
UncommittedLeavesNoTrace ==
  \A t \in Attempts :
    /\ Done(t) /\ ~call[t].committed => \A file \in survivors : file = None \/ file.by # t
    /\ CleansUp(t)

(***************************************************************************)
(* If the host makes one call at a time, no journal is overwritten that    *)
(* the caller did not name by its digest, also when earlier calls were     *)
(* killed or undone by a power loss.                                       *)
(***************************************************************************)
ReplacesOnlyExpected ==
  [][oneWriter => \A t \in Attempts :
       call'[t].committed /\ ~call[t].committed =>
         IF path = None THEN call[t].expected = None ELSE path.content = call[t].expected]_vars
=============================================================================
