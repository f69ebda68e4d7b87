------------------------ MODULE PilotOutputProperties ------------------------
(***************************************************************************)
(* What an interrupted pilot leaves behind can be relied upon.             *)
(***************************************************************************)
EXTENDS PilotOutput

(***************************************************************************)
(* No document claims more than there is: whatever was killed, failed or   *)
(* lost power, a readable output names at most as many rows as the sidecar *)
(* beside it holds whole, a result names all of them, and a call that      *)
(* returned has synced both files.                                         *)
(***************************************************************************)
ClaimsAreBacked ==
  /\ sidecar => output.rows <= rows
  /\ output.status = "RESULT" => output.rows = plannedRows
  /\ pc = "returned" =>
       output.status = "RESULT" /\ onDisk = {output} /\ sidecar /\ rows = plannedRows /\ synced = rows

(***************************************************************************)
(* An interruption does not erase calls already made: rows stay in the     *)
(* sidecar through failures, kills and further calls of main, and when the *)
(* power fails at least the rows counted so far are found, if the file is. *)
(***************************************************************************)
RowsAreKept ==
  [][sidecar =>
       IF outages' = outages THEN sidecar' /\ rows' >= rows
       ELSE sidecar' => rows' >= rowCount]_vars
=============================================================================
