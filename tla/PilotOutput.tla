----------------------------- MODULE PilotOutput -----------------------------
(***************************************************************************)
(* What the live pilot (benchmarks/value/live-pilot.mjs) leaves on disk:   *)
(* an output file, reserved before any model is called, and a sidecar that *)
(* takes one row per completed arm.  main is called again and again with   *)
(* the same output file; a call may be killed, and the machine may lose    *)
(* power, between any two operations of the file system, each of which may *)
(* also fail.                                                              *)
(*                                                                         *)
(* Rows come in a fixed order, so a number of rows stands for the rows.    *)
(* Neither file's directory is ever synced, so a power loss may lose the   *)
(* file altogether, and otherwise whatever was not synced in it.           *)
(***************************************************************************)
EXTENDS Naturals

CONSTANTS
  Tasks,       \* how many tasks of the dataset are selected
  MaxCalls,    \* bound on calls of main
  MaxOutages   \* bound on power losses

ASSUME PilotAssumption == Tasks \in Nat \ {0} /\ MaxCalls \in Nat /\ MaxOutages \in Nat

VARIABLES
  pc,        \* where main is
  job,       \* what the output is being replaced for: mark, publish or excuse
  rowCount,  \* rows written and synced by this call
  output,    \* the output file: Missing, Empty, Torn or a document
  onDisk,    \* what of the output file a power loss may leave
  sidecar,   \* the sidecar exists
  rows,      \* whole rows in the sidecar
  torn,      \* the sidecar ends in part of a row
  synced,    \* rows of the sidecar that were synced
  calls, outages

files == <<output, onDisk, sidecar, rows, torn, synced>>
vars == <<pc, job, rowCount, files, calls, outages>>

plannedRows == 3 * Tasks

\* A document is known by its status and the rows it claims.
File(status, claimed) == [status |-> status, rows |-> claimed]
Missing == File("none", 0)
Empty == File("empty", 0)
Torn == File("torn", 0)

\* What the output is replaced by.
Document ==
  CASE job = "mark" -> File("IN_PROGRESS", 0)
    [] job = "publish" -> File("RESULT", rowCount)
    [] job = "excuse" -> File("PARTIAL", rowCount)

Active == pc \notin {"idle", "returned", "threw", "dead"}

Init ==
  /\ pc = "idle" /\ job = "mark" /\ rowCount = 0
  /\ output = Missing /\ onDisk = {Missing}
  /\ sidecar = FALSE /\ rows = 0 /\ torn = FALSE /\ synced = 0
  /\ calls = 0 /\ outages = 0

Replace(why) == pc' = "truncate" /\ job' = why

\* An exception inside main's try; a second one, in its catch, gets out.
Throws == IF job = "excuse" THEN pc' = "close" /\ UNCHANGED job ELSE Replace("excuse")

(***************************************************************************)
(* main checks the router and reserves the output; both may throw before   *)
(* anything is written, an output that exists among the reasons.           *)
(***************************************************************************)
Call ==
  /\ ~Active /\ calls < MaxCalls
  /\ calls' = calls + 1
  /\ rowCount' = 0
  /\ \/ /\ output = Missing
        /\ output' = Empty /\ onDisk' = {Missing, Empty}
        /\ Replace("mark")
     \/ pc' = "threw" /\ UNCHANGED <<job, output, onDisk>>
  /\ UNCHANGED <<sidecar, rows, torn, synced, outages>>

(***************************************************************************)
(* replaceReserved: truncate, write on until everything is written, sync.  *)
(***************************************************************************)
Truncate ==
  /\ pc = "truncate"
  /\ \/ output' = Empty /\ onDisk' = onDisk \union {Empty} /\ pc' = "write" /\ UNCHANGED job
     \/ Throws /\ UNCHANGED <<output, onDisk>>
  /\ UNCHANGED <<rowCount, sidecar, rows, torn, synced, calls, outages>>

Write ==
  /\ pc = "write"
  /\ \/ output' = Torn /\ onDisk' = onDisk \union {Torn} /\ (UNCHANGED <<pc, job>> \/ Throws)
     \/ output' = Document /\ onDisk' = onDisk \union {Torn, Document} /\ pc' = "sync" /\ UNCHANGED job
     \/ Throws /\ UNCHANGED <<output, onDisk>>
  /\ UNCHANGED <<rowCount, sidecar, rows, torn, synced, calls, outages>>

Sync ==
  /\ pc = "sync"
  /\ \/ /\ onDisk' = {output}
        /\ pc' = IF job = "mark" THEN "openRows" ELSE "close"
        /\ UNCHANGED job
     \/ Throws /\ UNCHANGED onDisk
  /\ UNCHANGED <<rowCount, output, sidecar, rows, torn, synced, calls, outages>>

(***************************************************************************)
(* The sidecar is created, never reused; then come the arms.               *)
(***************************************************************************)
\* Slip: a sidecar that exists is opened and emptied.
OpenRowsAnew ==
  /\ pc = "openRows"
  /\ \/ sidecar' = TRUE /\ rows' = 0 /\ torn' = FALSE /\ synced' = 0 /\ pc' = "arm" /\ UNCHANGED job
     \/ Throws /\ UNCHANGED <<sidecar, rows, torn, synced>>
  /\ UNCHANGED <<rowCount, output, onDisk, calls, outages>>

OpenRows ==
  /\ pc = "openRows"
  /\ \/ ~sidecar /\ sidecar' = TRUE /\ pc' = "arm" /\ UNCHANGED job
     \/ Throws /\ UNCHANGED sidecar
  /\ UNCHANGED <<rowCount, output, onDisk, rows, torn, synced, calls, outages>>

\* The router is looked at before each arm; after the last arm the result is published.
Arm ==
  /\ pc = "arm"
  /\ IF rowCount = plannedRows THEN Replace("publish")
     ELSE Throws \/ (pc' = "row" /\ UNCHANGED job)
  /\ UNCHANGED <<rowCount, files, calls, outages>>

\* Slip: a row is counted before it is synced.
CountsEarly == pc' = "syncRow" /\ rowCount' = rowCount + 1 /\ UNCHANGED job

RowWritten == pc' = "syncRow" /\ UNCHANGED <<job, rowCount>>

\* onRow: a row is written in parts.
WriteRow ==
  /\ pc = "row"
  /\ \/ torn' = TRUE /\ UNCHANGED rows /\ (UNCHANGED <<pc, job>> \/ Throws) /\ UNCHANGED rowCount
     \/ torn' = FALSE /\ rows' = rows + 1 /\ RowWritten
     \/ Throws /\ UNCHANGED <<rows, torn, rowCount>>
  /\ UNCHANGED <<output, onDisk, sidecar, synced, calls, outages>>

SyncRow ==
  /\ pc = "syncRow"
  /\ \/ synced' = rows /\ rowCount' = rowCount + 1 /\ pc' = "arm" /\ UNCHANGED job
     \/ Throws /\ UNCHANGED <<synced, rowCount>>
  /\ UNCHANGED <<output, onDisk, sidecar, rows, torn, calls, outages>>

\* finally: closing may throw as well.
Close ==
  /\ pc = "close"
  /\ pc' \in {"threw"} \union (IF job = "publish" THEN {"returned"} ELSE {})
  /\ UNCHANGED <<job, rowCount, files, calls, outages>>

Kill ==
  /\ Active
  /\ pc' = "dead"
  /\ UNCHANGED <<job, rowCount, files, calls, outages>>

PowerLoss ==
  /\ outages < MaxOutages
  /\ outages' = outages + 1
  /\ pc' = "dead"
  /\ output' \in onDisk \union {Missing}
  /\ onDisk' = {output'}
  /\ sidecar' \in {FALSE, sidecar}
  /\ rows' \in IF sidecar' THEN synced..rows ELSE {0}
  /\ torn' \in {FALSE, sidecar'}
  /\ synced' = rows'
  /\ UNCHANGED <<job, rowCount, calls>>

Next ==
  \/ Call \/ Truncate \/ Write \/ Sync \/ OpenRows \/ Arm \/ WriteRow \/ SyncRow \/ Close
  \/ Kill \/ PowerLoss

Spec == Init /\ [][Next]_vars
=============================================================================
