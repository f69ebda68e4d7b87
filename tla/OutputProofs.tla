---------------------------- MODULE OutputProofs ----------------------------
(***************************************************************************)
(* Proofs about what the program puts out: the pilot's files, for every    *)
(* number of tasks, of calls and of power losses; the lines of the command *)
(* line, for every set of overlapping calls; and the codec: its order of   *)
(* keys, its numbers and its strings, of every length, and every text of   *)
(* every length and depth.                                                 *)
(***************************************************************************)
EXTENDS PilotOutputProperties, CommandLineProperties, CanonicalJsonProperties, SequenceTheorems,
  WellFoundedInduction, FunctionTheorems, FiniteSetTheorems, TLAPS

(***************************************************************************)
(* The pilot's files.                                                      *)
(***************************************************************************)
Documents == [status : {"none", "empty", "torn", "IN_PROGRESS", "RESULT", "PARTIAL"}, rows : Nat]

Places == {"idle", "returned", "threw", "dead", "truncate", "write", "sync", "openRows",
           "arm", "row", "syncRow", "close"}

Types ==
  /\ pc \in Places
  /\ job \in {"mark", "publish", "excuse"}
  /\ rowCount \in Nat /\ rows \in Nat /\ synced \in Nat
  /\ output \in onDisk /\ onDisk \subseteq Documents
  /\ outages \in Nat

(***************************************************************************)
(* What was synced is there, and without a sidecar there is nothing.       *)
(***************************************************************************)
Rows ==
  /\ synced <= rows
  /\ ~sidecar => rows = 0
  /\ Active \/ sidecar =>
       rowCount <= synced /\ \A document \in onDisk : document.rows <= synced

(***************************************************************************)
(* How far a call has come and what it has counted: the number of rows is  *)
(* exact while arms are run and until the result has been published.       *)
(***************************************************************************)
Exact == sidecar /\ rows = rowCount /\ synced = rows

Progress ==
  /\ pc \in {"openRows", "arm", "row", "syncRow"} => job = "mark"
  /\ job = "mark" /\ pc \in {"truncate", "write", "sync", "openRows"} => rowCount = 0
  /\ pc \in {"arm", "row"} => Exact
  /\ pc = "syncRow" => sidecar /\ rows = rowCount + 1 /\ synced = rowCount
  /\ job = "publish" /\ pc \in {"truncate", "write", "sync", "close", "returned"} =>
       Exact /\ rowCount = plannedRows
  /\ pc = "sync" => output = Document
  /\ pc = "close" => job # "mark"
  /\ pc = "close" /\ job = "publish" => output = Document /\ onDisk = {output}
  /\ pc = "returned" => job = "publish" /\ output = Document /\ onDisk = {output}
  /\ \A document \in onDisk : document.status = "RESULT" => document.rows = plannedRows

IInv == Types /\ Rows /\ Progress

LEMMA PlannedType == plannedRows \in Nat
BY PilotAssumption DEF plannedRows

LEMMA FileTypes ==
  /\ Missing \in Documents /\ Empty \in Documents /\ Torn \in Documents
  /\ Missing.rows = 0 /\ Empty.rows = 0 /\ Torn.rows = 0
  /\ Missing.status # "RESULT" /\ Empty.status # "RESULT" /\ Torn.status # "RESULT"
BY DEF Missing, Empty, Torn, File, Documents

\* What the output is replaced by claims the rows counted so far.
LEMMA DocumentType ==
  ASSUME Types
  PROVE  /\ Document \in Documents
         /\ Document.rows = IF job = "mark" THEN 0 ELSE rowCount
         /\ Document.status = "RESULT" <=> job = "publish"
BY DEF Types, Document, File, Documents

LEMMA InitIInv == Init => IInv
<1> SUFFICES ASSUME Init PROVE IInv
  OBVIOUS
<1> USE FileTypes DEF Init, IInv
<1>1. Types
  BY DEF Types, Places
<1>2. Rows
  BY DEF Rows, Active
<1>3. Progress
  BY DEF Progress
<1> QED BY <1>1, <1>2, <1>3

LEMMA CallPreserves == IInv /\ Call => IInv'
<1> SUFFICES ASSUME IInv, Call PROVE IInv'
  OBVIOUS
<1> USE FileTypes DEF Call, IInv, Replace, Active
<1>1. Types'
  BY DEF Types, Places
<1>2. Rows'
  BY DEF Types, Rows
<1>3. Progress'
  BY DEF Types, Rows, Progress, Document
<1> QED BY <1>1, <1>2, <1>3

\* An exception changes nothing but what comes next.
LEMMA ThrowPreserves ==
  ASSUME IInv, Active, Throws, UNCHANGED <<rowCount, sidecar, outages>>,
         rows' \in Nat, synced' = synced,
         rows' >= rows, ~sidecar => rows' = 0,
         output' \in onDisk', onDisk' \subseteq onDisk \union {Torn}
  PROVE  IInv'
<1> USE FileTypes DEF Throws, IInv, Replace
<1>1. Types'
  BY DEF Types, Places
<1>2. Rows'
  BY DEF Types, Rows, Active
<1>3. Progress'
  BY DEF Types, Rows, Progress, Active, Places
<1> QED BY <1>1, <1>2, <1>3

LEMMA ReplacePreserves == IInv /\ (Truncate \/ Write \/ Sync) => IInv'
<1> SUFFICES ASSUME IInv, Truncate \/ Write \/ Sync PROVE IInv'
  OBVIOUS
<1> USE FileTypes, DocumentType, PlannedType DEF IInv
<1>1. CASE Throws
  BY <1>1, ThrowPreserves DEF Truncate, Write, Sync, Throws, Replace, Active, Types, Rows
<1>2. CASE ~Throws
  <2> USE <1>2 DEF Truncate, Write, Sync
  <2>1. Types'
    BY DEF Types, Places
  <2>2. Rows'
    BY DEF Types, Rows, Active
  <2>3. Progress'
    BY DEF Types, Rows, Progress, Document, Exact, plannedRows
  <2> QED BY <2>1, <2>2, <2>3
<1> QED BY <1>1, <1>2

LEMMA RowsPreserve == IInv /\ (OpenRows \/ Arm \/ WriteRow \/ SyncRow) => IInv'
<1> SUFFICES ASSUME IInv, OpenRows \/ Arm \/ WriteRow \/ SyncRow PROVE IInv'
  OBVIOUS
<1> USE FileTypes, PlannedType DEF IInv
<1>1. CASE Throws /\ rowCount' = rowCount /\ synced' = synced /\ sidecar' = sidecar
  <2> USE <1>1 DEF OpenRows, Arm, WriteRow, SyncRow, files
  <2>1. Active /\ UNCHANGED <<rowCount, sidecar, outages, synced>> /\ output' \in onDisk' /\ onDisk' = onDisk
    BY DEF Active, Types
  <2>2. rows' = rows
    BY DEF Throws, Replace, RowWritten
  <2> QED BY <1>1, <2>1, <2>2, ThrowPreserves DEF Types, Rows
<1>2. ASSUME OpenRows, ~Throws PROVE IInv'
  <2> USE <1>2 DEF OpenRows
  <2>1. Types'
    BY DEF Types, Places
  <2>2. Rows' /\ rowCount = 0 /\ rows = 0 /\ synced = 0
    BY DEF Types, Rows, Progress, Active
  <2>3. Progress'
    BY <2>2 DEF Types, Progress, Exact
  <2> QED BY <2>1, <2>2, <2>3
<1>3. ASSUME Arm, ~Throws PROVE IInv'
  <2> USE <1>3 DEF Arm, Replace, files
  <2>1. Types'
    BY DEF Types, Places
  <2>2. Rows'
    BY DEF Types, Rows, Active
  <2>3. Progress'
    BY DEF Types, Progress, Exact, plannedRows
  <2> QED BY <2>1, <2>2, <2>3
<1>4. ASSUME WriteRow, ~Throws PROVE IInv'
  <2> USE <1>4 DEF WriteRow, RowWritten
  <2>1. Types'
    BY DEF Types, Places
  <2>2. Rows'
    BY DEF Types, Rows, Progress, Exact, Active
  <2>3. Progress'
    BY DEF Types, Progress, Exact, plannedRows
  <2> QED BY <2>1, <2>2, <2>3
<1>5. ASSUME SyncRow, ~(Throws /\ rowCount' = rowCount /\ synced' = synced) PROVE IInv'
  <2> USE <1>5 DEF SyncRow
  <2>1. Types'
    BY DEF Types, Places
  <2>2. Rows'
    BY DEF Types, Documents, Rows, Progress, Exact, Active
  <2>3. Progress'
    BY DEF Types, Progress, Exact, plannedRows
  <2> QED BY <2>1, <2>2, <2>3
<1> QED BY <1>1, <1>2, <1>3, <1>4, <1>5 DEF OpenRows, Arm, WriteRow, SyncRow, RowWritten, Replace, Throws, files

LEMMA EndsPreserve == IInv /\ (Close \/ Kill \/ PowerLoss) => IInv'
<1> SUFFICES ASSUME IInv, Close \/ Kill \/ PowerLoss PROVE IInv'
  OBVIOUS
<1> USE FileTypes, PlannedType DEF IInv
<1>1. CASE Close \/ Kill
  <2> USE <1>1 DEF Close, Kill, files
  <2>1. Types'
    BY DEF Types, Places
  <2>2. Rows'
    BY DEF Types, Rows, Active
  <2>3. Progress'
    BY DEF Types, Progress, Active, Document, Exact, plannedRows
  <2> QED BY <2>1, <2>2, <2>3
<1>2. CASE PowerLoss
  <2> USE <1>2 DEF PowerLoss
  <2>1. sidecar' => sidecar
    OBVIOUS
  <2>2. CASE sidecar'
    <3>1. rows' \in synced..rows
      BY <2>2
    <3>2. Types'
      BY <3>1 DEF Types, Places, Rows
    <3>3. Rows'
      BY <2>1, <2>2, <3>1 DEF Types, Documents, Rows, Active
    <3>4. Progress'
      BY DEF Types, Progress
    <3> QED BY <3>2, <3>3, <3>4
  <2>3. CASE ~sidecar'
    <3>1. rows' = 0
      BY <2>3
    <3>2. Types'
      BY <3>1 DEF Types, Places
    <3>3. Rows'
      BY <2>3, <3>1 DEF Types, Rows, Active
    <3>4. Progress'
      BY DEF Types, Progress
    <3> QED BY <3>2, <3>3, <3>4
  <2> QED BY <2>2, <2>3
<1> QED BY <1>1, <1>2

LEMMA Invariant == Spec => []IInv
<1>1. IInv /\ [Next]_vars => IInv'
  <2>1. IInv /\ UNCHANGED vars => IInv'
    BY DEF IInv, vars, files, Types, Rows, Progress, Active, Exact, Document, plannedRows
  <2> QED BY <2>1, CallPreserves, ReplacePreserves, RowsPreserve, EndsPreserve DEF Next
<1> QED BY <1>1, InitIInv, PTL DEF Spec

(***************************************************************************)
(* No document ever claims rows that are not there.                        *)
(***************************************************************************)
THEOREM NoClaimWithoutRows == Spec => []ClaimsAreBacked
<1>1. IInv => ClaimsAreBacked
  BY DocumentType DEF IInv, Types, Documents, Rows, Progress, Exact, ClaimsAreBacked, Document, File
<1> QED BY <1>1, Invariant, PTL

(***************************************************************************)
(* Rows already paid for are never lost again.                             *)
(***************************************************************************)
THEOREM PaidRowsStay == Spec => RowsAreKept
<1>1. IInv /\ [Next]_vars =>
        [sidecar => IF outages' = outages THEN sidecar' /\ rows' >= rows
                    ELSE sidecar' => rows' >= rowCount]_vars
  <2> SUFFICES ASSUME IInv, Next, sidecar
               PROVE  IF outages' = outages THEN sidecar' /\ rows' >= rows
                      ELSE sidecar' => rows' >= rowCount
    OBVIOUS
  <2>1. CASE PowerLoss
    <3>1. outages' # outages
      BY <2>1 DEF PowerLoss, IInv, Types
    <3>2. sidecar' => rows' >= rowCount
      BY <2>1 DEF PowerLoss, IInv, Types, Rows
    <3> QED BY <3>1, <3>2
  <2>2. CASE ~PowerLoss
    <3> USE <2>2 DEF Next, Call, Truncate, Write, Sync, OpenRows, Arm, WriteRow, RowWritten,
                     SyncRow, Close, Kill, files
    <3>1. outages' = outages
      OBVIOUS
    <3>2. sidecar'
      OBVIOUS
    <3>3. rows' = rows \/ rows' = rows + 1
      OBVIOUS
    <3>4. rows' >= rows
      BY <3>3 DEF IInv, Types
    <3> QED BY <3>1, <3>2, <3>4
  <2> QED BY <2>1, <2>2
<1> QED BY <1>1, Invariant, PTL DEF Spec, RowsAreKept

(***************************************************************************)
(* The command line.  A line that waits listens to both events; one that   *)
(* was settled while its write was under way was settled by an event of a  *)
(* stream that is no longer open; and an error that is due has a listener. *)
(***************************************************************************)
Lines ==
  [command : Commands, at : {"start", "emit", "line", "returned"},
   ending : Endings \union {None}, target : Streams \union {None},
   line : {"pending", "written", "failed", None}, writing : BOOLEAN,
   listens : SUBSET {"error", "close"}, exit : {0, 1, 2, None}]

Demanding == {"demo", "local-model"}

\* Until it is emitted there is no line; from then on it is where its
\* command and ending send it.
Begun(record) ==
  /\ record.ending \in Endings <=> record.command \in Demanding /\ record.at # "start"
  /\ record.at \in {"start", "emit"} => ~record.writing /\ record.listens = {} /\ record.exit = None
  /\ record.at = "emit" => record.command \in Demanding
  /\ record.at \in {"line", "returned"} =>
       /\ record.line \in {"pending", "written", "failed"}
       /\ record.target = IF record.command = "refused" \/ record.ending = "threw" THEN "stderr" ELSE "stdout"

Waits(record) ==
  record.at \in {"line", "returned"} /\ record.line = "pending" =>
    record.at = "line" /\ record.writing /\ record.listens = {"error", "close"}

Told(record) ==
  /\ record.at = "line" => record.exit = None
  /\ record.at = "returned" =>
       record.exit = IF record.command = "refused" \/ record.line = "failed" THEN 2
                     ELSE IF \/ record.command = "help"
                             \/ record.ending = "stored"
                             \/ record.command = "local-model" /\ record.ending = "completed" THEN 0
                     ELSE 1

Line(record) == record \in Lines /\ Begun(record) /\ Waits(record) /\ Told(record)

\* A line whose write failed waits for the error that follows.
Expects(record, s) ==
  record.target = s /\ record.line = "failed" /\ ~record.writing /\ "error" \in record.listens

\* A write that outlives its line.
Outlives(record) == record.writing /\ record.line # "pending"

Delivery ==
  /\ stream \in [Streams -> {"open", "failing", "ending", "closed"}]
  /\ \A c \in Calls : Outlives(call[c]) => stream[call[c].target] \in {"ending", "closed"}
  /\ \A s \in Streams :
       stream[s] = "failing" => \E c \in Calls : Expects(call[c], s)
  /\ unhandled = FALSE

Lineage ==
  /\ call = [c \in Calls |-> call[c]]
  /\ \A c \in Calls : Line(call[c])
  /\ Delivery

\* A line is settled once; what comes after leaves it settled.
Settles(record, after) ==
  /\ after \in Lines
  /\ after.at = record.at /\ after.command = record.command /\ after.ending = record.ending
  /\ after.target = record.target /\ after.exit = record.exit
  /\ IF record.line = "pending" THEN after.line \in {"written", "failed"} ELSE after.line = record.line

LEMMA SettlingKeepsLines ==
  ASSUME NEW record, Line(record), record.at \in {"line", "returned"}, NEW after, Settles(record, after)
  PROVE  Line(after)
<1>1. Begun(after)
  BY DEF Settles, Line, Lines, Begun
<1>2. Waits(after)
  BY DEF Settles, Line, Waits, Begun
<1>3. Told(after)
  BY DEF Settles, Line, Waits, Told
<1> QED BY <1>1, <1>2, <1>3 DEF Settles, Line

\* A step of one call keeps the others.
LEMMA OneLineMoves ==
  ASSUME Lineage, NEW c \in Calls, NEW record, Line(record), call' = [call EXCEPT ![c] = record],
         UNCHANGED unhandled,
         stream' \in [Streams -> {"open", "failing", "ending", "closed"}],
         \A s \in Streams : stream[s] \in {"ending", "closed"} => stream'[s] = stream[s],
         Outlives(record) => stream'[record.target] \in {"ending", "closed"},
         \A s \in Streams : stream'[s] = "failing" =>
           \/ Expects(record, s)
           \/ stream[s] = "failing" /\ (Expects(call[c], s) => Expects(record, s))
  PROVE  Lineage'
<1>1. /\ call' = [d \in Calls |-> call'[d]]
      /\ call'[c] = record /\ \A d \in Calls \ {c} : call'[d] = call[d]
  BY DEF Lineage
<1>2. \A d \in Calls : Line(call'[d])
  BY <1>1 DEF Lineage
<1>3. \A d \in Calls : Outlives(call'[d]) => stream'[call'[d].target] \in {"ending", "closed"}
  <2> SUFFICES ASSUME NEW d \in Calls, d # c, Outlives(call[d])
               PROVE  stream'[call[d].target] \in {"ending", "closed"}
    BY <1>1
  <2>1. call[d].target \in Streams
    BY DEF Lineage, Line, Lines, Begun, Outlives, Streams
  <2> QED BY <2>1 DEF Lineage, Delivery
<1>4. ASSUME NEW s \in Streams, stream'[s] = "failing"
      PROVE  \E d \in Calls : Expects(call'[d], s)
  <2>1. CASE Expects(record, s)
    BY <2>1, <1>1
  <2>2. CASE ~Expects(record, s)
    <3>1. stream[s] = "failing" /\ ~Expects(call[c], s)
      BY <2>2, <1>4
    <3>2. PICK d \in Calls : Expects(call[d], s)
      BY <3>1 DEF Lineage, Delivery
    <3> QED BY <3>1, <3>2, <1>1
  <2> QED BY <2>1, <2>2
<1> QED BY <1>1, <1>2, <1>3, <1>4 DEF Lineage, Delivery

LEMMA LinesBegin == CliInit => Lineage
<1> USE NoneAssumption
<1> SUFFICES ASSUME CliInit PROVE Lineage
  OBVIOUS
<1>1. \A c \in Calls : \E command \in Commands : call[c] = Idle(command)
  BY DEF CliInit
<1>2. \A command \in Commands : Line(Idle(command)) /\ ~Idle(command).writing
  BY DEF Idle, Line, Lines, Begun, Waits, Told
<1>3. \A c \in Calls : Line(call[c]) /\ ~call[c].writing
  BY <1>1, <1>2
<1>4. /\ call = [c \in Calls |-> call[c]] /\ stream = [s \in Streams |-> "open"] /\ unhandled = FALSE
  BY DEF CliInit
<1> QED BY <1>3, <1>4 DEF Lineage, Delivery, Outlives

LEMMA CallsKeepTheirLines ==
  ASSUME Lineage, NEW c \in Calls, CallStep(c)
  PROVE  Lineage'
<1>1. Line(call[c]) /\ c \in Calls /\ stream \in [Streams -> {"open", "failing", "ending", "closed"}]
  BY DEF Lineage, Delivery
<1>2. CASE Run(c)
  <2>1. PICK ending \in Endings :
          call' = [call EXCEPT ![c] = [call[c] EXCEPT !.at = "emit", !.ending = ending]]
    BY <1>2 DEF Run
  <2> DEFINE record == [call[c] EXCEPT !.at = "emit", !.ending = ending]
  <2>2. /\ record \in Lines /\ record.at = "emit" /\ record.ending = ending
        /\ record.command = call[c].command /\ record.writing = call[c].writing
        /\ record.listens = call[c].listens /\ record.exit = call[c].exit
    BY <1>1 DEF Line, Lines
  <2>3. /\ call[c].at = "start" /\ call[c].command \in Demanding /\ call[c].exit = None
        /\ ~call[c].writing /\ call[c].listens = {}
    BY <1>1, <1>2 DEF Run, Runs, Line, Begun, Demanding
  <2> HIDE DEF record
  <2>4. Line(record) /\ ~Outlives(record)
    BY <2>2, <2>3 DEF Line, Begun, Waits, Told, Outlives
  <2>5. \A s : ~Expects(call[c], s)
    BY <2>3 DEF Expects
  <2>6. UNCHANGED <<stream, unhandled>> /\ call' = [call EXCEPT ![c] = record]
    BY <1>2, <2>1 DEF Run, record
  <2> QED BY <1>1, <2>4, <2>5, <2>6, OneLineMoves
<1>3. CASE Emit(c)
  <2> DEFINE listening == [call[c] EXCEPT !.at = "line", !.target = Target(c), !.line = "pending",
                                          !.listens = {"error", "close"}]
             written == [listening EXCEPT !.writing = TRUE]
             thrown == Finish(listening, "failed", FALSE)
  <2>1. call' = [call EXCEPT ![c] = written] \/ call' = [call EXCEPT ![c] = thrown]
    BY <1>3 DEF Emit
  <2>2. Target(c) \in Streams
        /\ Target(c) = IF call[c].command = "refused" \/ call[c].ending = "threw" THEN "stderr" ELSE "stdout"
    BY DEF Target, Streams
  <2>3. /\ call[c].ending \in Endings <=> call[c].command \in Demanding
        /\ call[c].exit = None /\ ~call[c].writing /\ call[c].listens = {}
    BY <1>1, <1>3 DEF Emit, Runs, Line, Begun, Demanding
  <2>4. /\ listening \in Lines /\ listening.at = "line" /\ listening.line = "pending"
        /\ listening.listens = {"error", "close"} /\ listening.exit = None /\ ~listening.writing
        /\ listening.command = call[c].command /\ listening.ending = call[c].ending
        /\ listening.target = Target(c)
    BY <1>1, <2>2, <2>3 DEF Line, Lines
  <2> HIDE DEF listening
  <2>5. /\ written \in Lines /\ written.at = "line" /\ written.line = "pending"
        /\ written.listens = {"error", "close"} /\ written.exit = None /\ written.writing
        /\ written.command = call[c].command /\ written.ending = call[c].ending
        /\ written.target = Target(c)
    BY <2>4 DEF Lines
  <2>6. /\ thrown \in Lines /\ thrown.at = "line" /\ thrown.line = "failed"
        /\ thrown.exit = None /\ ~thrown.writing
        /\ thrown.command = call[c].command /\ thrown.ending = call[c].ending
        /\ thrown.target = Target(c)
    <3>1. thrown = [listening EXCEPT !.line = "failed", !.listens = {}]
      BY <2>4 DEF Finish
    <3> QED BY <2>4, <3>1 DEF Lines
  <2> HIDE DEF written, thrown
  <2>7. Line(written) /\ ~Outlives(written)
    BY <2>2, <2>3, <2>5 DEF Line, Begun, Waits, Told, Outlives
  <2>8. Line(thrown) /\ ~Outlives(thrown)
    BY <2>2, <2>3, <2>6 DEF Line, Begun, Waits, Told, Outlives
  <2>9. UNCHANGED <<stream, unhandled>> /\ \A s : ~Expects(call[c], s)
    BY <1>3, <2>3 DEF Emit, Expects
  <2>10. CASE call' = [call EXCEPT ![c] = written]
    BY <1>1, <2>7, <2>9, <2>10, OneLineMoves
  <2>11. CASE call' = [call EXCEPT ![c] = thrown]
    BY <1>1, <2>8, <2>9, <2>11, OneLineMoves
  <2> QED BY <2>1, <2>10, <2>11
<1>4. CASE WriteSucceeds(c)
  <2> DEFINE record == Finish([call[c] EXCEPT !.writing = FALSE], "written", "written" = "failed")
  <2>1. call' = [call EXCEPT ![c] = record] /\ UNCHANGED <<stream, unhandled>> /\ call[c].writing
    BY <1>4 DEF WriteSucceeds, Called
  <2>2. record = IF call[c].line = "pending" THEN [call[c] EXCEPT !.writing = FALSE, !.line = "written", !.listens = {}]
                 ELSE [call[c] EXCEPT !.writing = FALSE]
    BY <1>1 DEF Finish, Line, Lines
  <2> HIDE DEF record
  <2>3. Settles(call[c], record) /\ ~record.writing
    <3>1. CASE call[c].line = "pending"
      <4>1. record = [call[c] EXCEPT !.writing = FALSE, !.line = "written", !.listens = {}]
        BY <2>2, <3>1
      <4> QED BY <1>1, <3>1, <4>1 DEF Settles, Line, Lines
    <3>2. CASE call[c].line # "pending"
      <4>1. record = [call[c] EXCEPT !.writing = FALSE]
        BY <2>2, <3>2
      <4> QED BY <1>1, <3>2, <4>1 DEF Settles, Line, Lines
    <3> QED BY <3>1, <3>2
  <2>4. call[c].at \in {"line", "returned"}
    BY <1>1, <2>1 DEF Line, Lines, Begun
  <2>5. Line(record) /\ ~Outlives(record)
    BY <1>1, <2>3, <2>4, SettlingKeepsLines DEF Outlives
  <2>6. \A s : ~Expects(call[c], s)
    BY <2>1 DEF Expects
  <2> QED BY <1>1, <2>1, <2>5, <2>6, OneLineMoves
<1>5. CASE WriteFails(c)
  <2> DEFINE record == Finish([call[c] EXCEPT !.writing = FALSE], "failed", "failed" = "failed")
             target == call[c].target
  <2>1. /\ call' = [call EXCEPT ![c] = record] /\ UNCHANGED unhandled /\ call[c].writing
        /\ stream' = [stream EXCEPT ![target] = IF @ = "open" THEN "failing" ELSE @]
    BY <1>5 DEF WriteFails, Called
  <2>2. record = IF call[c].line = "pending"
                 THEN [call[c] EXCEPT !.writing = FALSE, !.line = "failed", !.listens = call[c].listens \ {"close"}]
                 ELSE [call[c] EXCEPT !.writing = FALSE]
    BY <1>1 DEF Finish, Line, Lines
  <2>3. call[c].at \in {"line", "returned"} /\ target \in Streams
    BY <1>1, <2>1 DEF Streams, Line, Lines, Begun
  <2>4. PICK listens \in SUBSET {"error", "close"} : listens = call[c].listens \ {"close"}
    BY <1>1 DEF Line, Lines
  <2>5. /\ record \in Lines
        /\ record.at = call[c].at /\ record.command = call[c].command /\ record.ending = call[c].ending
        /\ record.target = target /\ record.exit = call[c].exit /\ ~record.writing
        /\ call[c].line = "pending" => record.line = "failed" /\ record.listens = listens
        /\ call[c].line # "pending" => record.line = call[c].line
    <3>1. CASE call[c].line = "pending"
      <4>1. record = [call[c] EXCEPT !.writing = FALSE, !.line = "failed", !.listens = listens]
        BY <2>2, <2>4, <3>1
      <4> HIDE DEF record
      <4> QED BY <1>1, <3>1, <4>1 DEF Line, Lines
    <3>2. CASE call[c].line # "pending"
      <4>1. record = [call[c] EXCEPT !.writing = FALSE]
        BY <2>2, <3>2
      <4> HIDE DEF record
      <4> QED BY <1>1, <3>2, <4>1 DEF Line, Lines
    <3> QED BY <3>1, <3>2
  <2>6. stream' \in [Streams -> {"open", "failing", "ending", "closed"}]
        /\ \A s \in Streams : stream'[s] # stream[s] => s = target /\ stream[s] = "open" /\ stream'[s] = "failing"
    BY <1>1, <2>1, <2>3
  <2>7. stream[target] = "open" => call[c].line = "pending"
    BY <2>1 DEF Lineage, Delivery, Outlives
  <2> HIDE DEF record, target
  <2>8. stream[target] = "open" => Expects(record, target)
    <3>1. call[c].line = "pending" => "error" \in call[c].listens
      BY <1>1, <2>3 DEF Line, Waits
    <3> QED BY <2>4, <2>5, <2>7, <3>1 DEF Expects
  <2>9. Line(record) /\ ~Outlives(record)
    <3>1. Settles(call[c], record)
      BY <2>5 DEF Settles, target
    <3> QED BY <1>1, <2>3, <2>5, <3>1, SettlingKeepsLines DEF Outlives
  <2>10. \A s \in Streams : stream[s] \in {"ending", "closed"} => stream'[s] = stream[s]
    BY <2>6
  <2>11. \A s \in Streams : stream'[s] = "failing" =>
           \/ Expects(record, s)
           \/ stream[s] = "failing" /\ (Expects(call[c], s) => Expects(record, s))
    BY <2>1, <2>6, <2>8 DEF Expects
  <2>12. call' = [call EXCEPT ![c] = record] /\ UNCHANGED unhandled
    BY <2>1
  <2> QED BY <1>1, <2>6, <2>9, <2>10, <2>11, <2>12, OneLineMoves
<1>6. CASE Return(c)
  <2> DEFINE record == [call[c] EXCEPT !.at = "returned", !.exit = ExitCode(c)]
  <2>1. /\ call' = [call EXCEPT ![c] = record] /\ UNCHANGED <<stream, unhandled>>
        /\ call[c].at = "line" /\ call[c].line # "pending"
    BY <1>6 DEF Return
  <2>2. /\ record \in Lines /\ record.at = "returned" /\ record.exit = ExitCode(c)
        /\ record.line = call[c].line /\ record.command = call[c].command /\ record.ending = call[c].ending
        /\ record.target = call[c].target /\ record.writing = call[c].writing /\ record.listens = call[c].listens
    BY <1>1 DEF Line, Lines, ExitCode
  <2> HIDE DEF record
  <2>3. Line(record)
    BY <1>1, <2>1, <2>2 DEF Line, Begun, Waits, Told, ExitCode
  <2>4. Outlives(record) => stream[record.target] \in {"ending", "closed"}
    BY <2>2 DEF Lineage, Delivery, Outlives
  <2>5. \A s : Expects(call[c], s) => Expects(record, s)
    BY <2>2 DEF Expects
  <2> QED BY <1>1, <2>1, <2>3, <2>4, <2>5, OneLineMoves
<1> QED BY <1>2, <1>3, <1>4, <1>5, <1>6 DEF CallStep

\* An event settles what waits on its stream and leaves what has returned.
LEMMA HearingKeepsLines ==
  ASSUME NEW record, Line(record), NEW event \in {"error", "close"}, event \in record.listens
  PROVE  LET heard == Finish([record EXCEPT !.listens = @ \ {event}], "failed", FALSE)
         IN /\ Line(heard) /\ heard.target = record.target
<1> DEFINE heard == Finish([record EXCEPT !.listens = @ \ {event}], "failed", FALSE)
<1>1. record.at \in {"line", "returned"}
  BY DEF Line, Lines, Begun
<1>2. heard = IF record.line = "pending" THEN [record EXCEPT !.line = "failed", !.listens = {}]
              ELSE [record EXCEPT !.listens = record.listens \ {event}]
  BY DEF Line, Lines, Finish
<1> HIDE DEF heard
<1>3. PICK listens \in SUBSET {"error", "close"} :
        listens = IF record.line = "pending" THEN {} ELSE record.listens \ {event}
  BY DEF Line, Lines
<1>4. Settles(record, heard)
  <2>1. CASE record.line = "pending"
    <3>1. heard = [record EXCEPT !.line = "failed", !.listens = listens]
      BY <1>2, <1>3, <2>1
    <3> QED BY <2>1, <3>1 DEF Settles, Line, Lines
  <2>2. CASE record.line # "pending"
    <3>1. heard = [record EXCEPT !.listens = listens]
      BY <1>2, <1>3, <2>2
    <3> QED BY <2>2, <3>1 DEF Settles, Line, Lines
  <2> QED BY <2>1, <2>2
<1>5. Line(heard)
  BY <1>1, <1>4, SettlingKeepsLines
<1> QED BY <1>4, <1>5 DEF heard, Settles

LEMMA EventsKeepLines ==
  ASSUME Lineage, NEW s \in Streams, NEW event \in {"error", "close"}, Event(s, event), NEW c \in Calls
  PROVE  /\ Line(call'[c])
         /\ call'[c] = call[c] \/ call'[c].target = s
         /\ \A t \in Streams : Expects(call[c], t) /\ t # s => Expects(call'[c], t)
<1>1. call'[c] = IF call[c].target = s /\ event \in call[c].listens
                 THEN Finish([call[c] EXCEPT !.listens = @ \ {event}], "failed", FALSE) ELSE call[c]
  BY DEF Event, Heard
<1>2. Line(call[c])
  BY DEF Lineage
<1>3. CASE call[c].target = s /\ event \in call[c].listens
  <2>1. call'[c] = Finish([call[c] EXCEPT !.listens = @ \ {event}], "failed", FALSE)
    BY <1>1, <1>3
  <2>2. \A t \in Streams : Expects(call[c], t) => t = s
    BY <1>3 DEF Expects
  <2> QED BY <1>2, <1>3, <2>1, <2>2, HearingKeepsLines
<1>4. CASE ~(call[c].target = s /\ event \in call[c].listens)
  BY <1>1, <1>2, <1>4
<1> QED BY <1>3, <1>4

LEMMA StreamsKeepLines == ASSUME Lineage, NEW s \in Streams, StreamStep(s) PROVE Lineage'
<1>1. stream \in [Streams -> {"open", "failing", "ending", "closed"}] /\ unhandled = FALSE
  BY DEF Lineage, Delivery
<1>2. CASE Destroy(s)
  BY <1>1, <1>2 DEF Destroy, Lineage, Delivery
<1>3. ASSUME NEW event \in {"error", "close"}, Event(s, event), unhandled' = FALSE,
             NEW after \in {"ending", "closed"}, stream' = [stream EXCEPT ![s] = after]
      PROVE  Lineage'
  <2>1. call' = [c \in Calls |-> call'[c]]
    BY <1>3 DEF Event
  <2>6. \A c \in Calls : Line(call'[c]) /\ (call'[c] = call[c] \/ call'[c].target = s)
    BY <1>3, EventsKeepLines
  <2>7. \A c \in Calls, t \in Streams : Expects(call[c], t) /\ t # s => Expects(call'[c], t)
    BY <1>3, EventsKeepLines
  <2>2. /\ stream' \in [Streams -> {"open", "failing", "ending", "closed"}]
        /\ stream'[s] \in {"ending", "closed"} /\ \A t \in Streams \ {s} : stream'[t] = stream[t]
    BY <1>1, <1>3
  <2>3. ASSUME NEW c \in Calls, Outlives(call'[c]) PROVE stream'[call'[c].target] \in {"ending", "closed"}
    <3>1. CASE call'[c] # call[c]
      BY <2>6, <2>2, <3>1
    <3>2. CASE call'[c] = call[c]
      <4>1. call[c].target \in Streams /\ stream[call[c].target] \in {"ending", "closed"}
        BY <2>3, <3>2 DEF Lineage, Delivery, Line, Lines, Begun, Outlives, Streams
      <4> QED BY <2>2, <3>2, <4>1
    <3> QED BY <3>1, <3>2
  <2>4. ASSUME NEW t \in Streams, stream'[t] = "failing" PROVE \E c \in Calls : Expects(call'[c], t)
    <3>1. t # s /\ stream[t] = "failing"
      BY <2>2, <2>4
    <3>2. PICK c \in Calls : Expects(call[c], t)
      BY <3>1 DEF Lineage, Delivery
    <3> QED BY <2>7, <3>1, <3>2
  <2>5. Delivery'
    BY <1>3, <2>2, <2>3, <2>4 DEF Delivery
  <2> QED BY <2>1, <2>5, <2>6 DEF Lineage
<1>4. CASE EmitError(s)
  <2>1. PICK c \in Calls : Expects(call[c], s)
    BY <1>4 DEF EmitError, Lineage, Delivery
  <2>2. c \in Heard(s, "error")
    BY <2>1 DEF Heard, Expects
  <2> QED BY <1>1, <1>3, <1>4, <2>2 DEF EmitError
<1>5. CASE EmitClose(s)
  BY <1>1, <1>3, <1>5 DEF EmitClose
<1> QED BY <1>2, <1>4, <1>5 DEF StreamStep

(***************************************************************************)
(* Exit codes are true however error, close and the write's callback race, *)
(* for any number of calls on the same streams; and no failed write ends   *)
(* the process by an error event nobody listens to.                        *)
(***************************************************************************)
THEOREM ExitCodesAreTrue == CliSpec => []ExitCodeIsTrue
<1> USE NoneAssumption
<1>1. Lineage /\ [CliNext]_CliVars => Lineage'
  <2>1. Lineage /\ UNCHANGED CliVars => Lineage'
    BY DEF CliVars, Lineage, Delivery
  <2> QED BY <2>1, CallsKeepTheirLines, StreamsKeepLines DEF CliNext
<1>2. Lineage => ExitCodeIsTrue
  <2> SUFFICES ASSUME Lineage, NEW c \in Calls, call[c].exit # None
               PROVE  /\ call[c].exit = 0 => call[c].line = "written" /\ call[c].target = "stdout"
                      /\ call[c].exit = 1 => call[c].line = "written" /\ Runs(c)
                      /\ Runs(c) /\ call[c].exit < 2 =>
                           (call[c].exit = 0 <=>
                              \/ call[c].ending = "stored"
                              \/ call[c].ending = "completed" /\ call[c].command = "local-model")
    BY DEF ExitCodeIsTrue, Lineage, Delivery
  <2>1. Line(call[c])
    BY DEF Lineage
  <2>2. call[c].at = "returned" /\ call[c].line \in {"written", "failed"}
    BY <2>1 DEF Line, Lines, Begun, Waits, Told
  <2> DEFINE record == call[c]
  <2>3. /\ record.target = IF record.command = "refused" \/ record.ending = "threw" THEN "stderr" ELSE "stdout"
        /\ record.command \in Commands
        /\ record.command \notin Demanding => record.ending = None
        /\ record.ending \in Endings \cup {None}
        /\ record.exit = IF record.command = "refused" \/ record.line = "failed" THEN 2
                         ELSE IF \/ record.command = "help"
                                 \/ record.ending = "stored"
                                 \/ record.command = "local-model" /\ record.ending = "completed" THEN 0
                         ELSE 1
    BY <2>1, <2>2 DEF Line, Lines, Begun, Told
  <2> QED BY <2>2, <2>3 DEF Demanding, Runs, Commands, Endings
<1> QED BY <1>1, <1>2, LinesBegin, PTL DEF CliSpec

(***************************************************************************)
(* The codec.                                                              *)
(***************************************************************************)
\* Induction, over sets of numbers.
LEMMA Induction ==
  ASSUME NEW T, \A n \in Nat : (\A m \in 0..(n - 1) : m \in T) => n \in T
  PROVE  Nat \subseteq T
<1> SUFFICES ASSUME Nat \ T # {} PROVE FALSE
  OBVIOUS
<1>1. PICK n \in Nat \ T : \A m \in Nat \ T : ~(<<m, n>> \in OpToRel(<, Nat))
  BY WFMin, NatLessThanWellFounded
<1>2. ASSUME NEW m \in 0..(n - 1) PROVE m \in T
  <2>1. m \in Nat /\ n \in Nat /\ m < n
    OBVIOUS
  <2>2. <<m, n>> \in OpToRel(<, Nat)
    BY <2>1 DEF OpToRel
  <2> QED BY <1>1, <2>1, <2>2
<1> QED BY <1>1, <1>2

(***************************************************************************)
(* The order of keys.                                                      *)
(***************************************************************************)
\* Where two sequences that agree so far first differ.
LEMMA FirstDifference ==
  ASSUME NEW a \in Seq(Nat), NEW b \in Seq(Nat), NEW k \in Nat, k >= 1,
         k <= Len(a), k <= Len(b), a[k] # b[k]
  PROVE  \E i \in 1..k : a[i] # b[i] /\ \A j \in 1..(i - 1) : a[j] = b[j]
<1> DEFINE T == {n \in Nat : n \in 1..k /\ a[n] # b[n] =>
                   \E i \in 1..k : a[i] # b[i] /\ \A j \in 1..(i - 1) : a[j] = b[j]}
<1> HIDE DEF T
<1>1. ASSUME NEW n \in Nat, \A m \in 0..(n - 1) : m \in T PROVE n \in T
  <2> SUFFICES ASSUME n \in 1..k, a[n] # b[n]
               PROVE  \E i \in 1..k : a[i] # b[i] /\ \A j \in 1..(i - 1) : a[j] = b[j]
    BY DEF T
  <2>1. CASE \A j \in 1..(n - 1) : a[j] = b[j]
    BY <2>1
  <2>2. CASE \E j \in 1..(n - 1) : a[j] # b[j]
    <3>1. PICK j \in 1..(n - 1) : a[j] # b[j]
      BY <2>2
    <3>2. j \in 0..(n - 1) /\ j \in 1..k
      <4>1. n \in Nat /\ n <= k /\ j \in Nat /\ 1 <= j /\ j <= n - 1
        BY <3>1
      <4> QED BY <4>1
    <3>3. j \in T
      BY <1>1, <3>2
    <3> QED BY <3>1, <3>2, <3>3 DEF T
  <2> QED BY <2>1, <2>2
<1>2. Nat \subseteq T
  BY <1>1, Induction
<1>3. k \in T /\ k \in 1..k
  BY <1>2
<1>4. k \in T =>
        (k \in 1..k /\ a[k] # b[k] => \E i \in 1..k : a[i] # b[i] /\ \A j \in 1..(i - 1) : a[j] = b[j])
  BY DEF T
<1> QED BY <1>3, <1>4

LEMMA PrefixesAgree ==
  ASSUME NEW a \in Seq(Nat), NEW b \in Seq(Nat)
  PROVE  IsStrictPrefix(a, b) <=> Len(a) < Len(b) /\ \A i \in 1..Len(a) : a[i] = b[i]
<1>1. ASSUME Len(a) <= Len(b)
      PROVE  SubSeq(a, 1, Len(a)) = SubSeq(b, 1, Len(a)) <=> \A i \in 1..Len(a) : a[i] = b[i]
  <2>1. /\ Len(SubSeq(a, 1, Len(a))) = Len(a) /\ Len(SubSeq(b, 1, Len(a))) = Len(a)
        /\ SubSeq(a, 1, Len(a)) \in Seq(Nat) /\ SubSeq(b, 1, Len(a)) \in Seq(Nat)
        /\ \A i \in 1..Len(a) : SubSeq(a, 1, Len(a))[i] = a[i] /\ SubSeq(b, 1, Len(a))[i] = b[i]
    BY <1>1
  <2> QED BY <2>1, SeqEqual
<1>2. CASE Len(a) < Len(b)
  BY <1>1, <1>2 DEF IsStrictPrefix, IsPrefix
<1>3. CASE Len(a) >= Len(b)
  <2>1. ~IsStrictPrefix(a, b)
    <3> SUFFICES ASSUME IsStrictPrefix(a, b) PROVE FALSE
      OBVIOUS
    <3>1. Len(a) = Len(b) /\ \A i \in 1..Len(a) : a[i] = b[i]
      BY <1>1, <1>3 DEF IsStrictPrefix, IsPrefix
    <3> QED BY <3>1, SeqEqual DEF IsStrictPrefix
  <2> QED BY <1>3, <2>1
<1> QED BY <1>2, <1>3

\* One sequence is before another where they first differ, or where it ends.
Before(a, b, k) ==
  /\ k \in 1..Len(b) /\ k <= Len(a) + 1
  /\ \A i \in 1..(k - 1) : a[i] = b[i]
  /\ k <= Len(a) => a[k] < b[k]

LEMMA LessIsBefore ==
  ASSUME NEW a \in Seq(Nat), NEW b \in Seq(Nat)
  PROVE  LexLess(a, b) <=> \E k \in Nat : Before(a, b, k)
<1>1. ASSUME IsStrictPrefix(a, b) PROVE Before(a, b, Len(a) + 1)
  BY <1>1, PrefixesAgree DEF Before
<1>2. ASSUME NEW i \in DOMAIN a \intersect DOMAIN b, a[i] < b[i], \A j \in 1..(i - 1) : a[j] = b[j]
      PROVE  Before(a, b, i)
  BY <1>2 DEF Before
<1>3. ASSUME NEW k \in Nat, Before(a, b, k), k = Len(a) + 1 PROVE IsStrictPrefix(a, b)
  BY <1>3, PrefixesAgree DEF Before
<1>4. ASSUME NEW k \in Nat, Before(a, b, k), k # Len(a) + 1
      PROVE  k \in DOMAIN a \intersect DOMAIN b /\ a[k] < b[k] /\ \A j \in 1..(k - 1) : a[j] = b[j]
  BY <1>4 DEF Before
<1>5. ASSUME LexLess(a, b) PROVE \E k \in Nat : Before(a, b, k)
  <2>1. Len(a) + 1 \in Nat /\ DOMAIN a \subseteq Nat
    OBVIOUS
  <2> QED BY <1>1, <1>2, <1>5, <2>1 DEF LexLess
<1>6. ASSUME NEW k \in Nat, Before(a, b, k) PROVE LexLess(a, b)
  BY <1>3, <1>4, <1>6 DEF LexLess
<1> QED BY <1>5, <1>6

(***************************************************************************)
(* The comparison members are sorted by (line 123) is a strict linear      *)
(* order of keys: irreflexive, transitive, and any two keys compare.       *)
(***************************************************************************)
THEOREM KeysAreOrdered ==
  ASSUME NEW a \in Seq(Nat), NEW b \in Seq(Nat), NEW c \in Seq(Nat)
  PROVE  /\ ~LexLess(a, a)
         /\ LexLess(a, b) /\ LexLess(b, c) => LexLess(a, c)
         /\ a # b => LexLess(a, b) \/ LexLess(b, a)
<1>1. ~LexLess(a, a)
  <2>1. \A k \in Nat : ~Before(a, a, k)
    BY DEF Before
  <2> QED BY <2>1, LessIsBefore
<1>2. ASSUME LexLess(a, b), LexLess(b, c) PROVE LexLess(a, c)
  <2>1. PICK k \in Nat : Before(a, b, k)
    BY <1>2, LessIsBefore
  <2>2. PICK l \in Nat : Before(b, c, l)
    BY <1>2, LessIsBefore
  <2>3. CASE k <= l
    <3>1. Before(a, c, k)
      BY <2>1, <2>2, <2>3 DEF Before
    <3> QED BY <3>1, LessIsBefore
  <2>4. CASE l < k
    <3>1. Before(a, c, l)
      BY <2>1, <2>2, <2>4 DEF Before
    <3> QED BY <3>1, LessIsBefore
  <2> QED BY <2>3, <2>4
<1>3. ASSUME a # b PROVE LexLess(a, b) \/ LexLess(b, a)
  <2>1. CASE \E k \in Nat : k >= 1 /\ k <= Len(a) /\ k <= Len(b) /\ a[k] # b[k]
    <3>1. PICK k \in Nat : k >= 1 /\ k <= Len(a) /\ k <= Len(b) /\ a[k] # b[k]
      BY <2>1
    <3>2. PICK i \in 1..k : a[i] # b[i] /\ \A j \in 1..(i - 1) : a[j] = b[j]
      BY <3>1, FirstDifference
    <3>3. i \in Nat /\ i \in 1..Len(a) /\ i \in 1..Len(b) /\ a[i] \in Nat /\ b[i] \in Nat
      BY <3>1
    <3>4. Before(a, b, i) \/ Before(b, a, i)
      BY <3>2, <3>3 DEF Before
    <3> QED BY <3>3, <3>4, LessIsBefore
  <2>2. CASE \A k \in Nat : k >= 1 /\ k <= Len(a) /\ k <= Len(b) => a[k] = b[k]
    <3>1. CASE Len(a) < Len(b)
      <4>1. Before(a, b, Len(a) + 1) /\ Len(a) + 1 \in Nat
        BY <2>2, <3>1 DEF Before
      <4> QED BY <4>1, LessIsBefore
    <3>2. CASE Len(b) < Len(a)
      <4>1. Before(b, a, Len(b) + 1) /\ Len(b) + 1 \in Nat
        BY <2>2, <3>2 DEF Before
      <4> QED BY <4>1, LessIsBefore
    <3>3. CASE Len(a) = Len(b)
      <4>1. \A i \in 1..Len(a) : a[i] = b[i]
        BY <2>2, <3>3
      <4> QED BY <1>3, <3>3, <4>1, SeqEqual
    <3> QED BY <3>1, <3>2, <3>3
  <2> QED BY <2>1, <2>2
<1> QED BY <1>1, <1>2, <1>3

Ascending(keys) == \A i, j \in 1..Len(keys) : i < j => LexLess(keys[i], keys[j])

SameKeys(s, t) ==
  /\ \A i \in 1..Len(s) : \E j \in 1..Len(t) : s[i] = t[j]
  /\ \A j \in 1..Len(t) : \E i \in 1..Len(s) : t[j] = s[i]

\* Two listings that agree up to n agree at n.
LEMMA NextKeyAgrees ==
  ASSUME NEW s \in Seq(Seq(Nat)), NEW t \in Seq(Seq(Nat)), Ascending(s), Ascending(t), SameKeys(s, t),
         NEW n \in 1..Len(s),
         \A m \in 1..(n - 1) : m \in 1..Len(t) /\ s[m] = t[m]
  PROVE  n \in 1..Len(t) /\ s[n] = t[n]
<1>1. PICK M \in Nat, N \in Nat : M = Len(s) /\ N = Len(t)
  BY LenProperties
<1>2. (\A i \in 1..M : s[i] \in Seq(Nat)) /\ (\A i \in 1..N : t[i] \in Seq(Nat))
  BY <1>1, ElementOfSeq
<1>3. PICK j \in 1..N : s[n] = t[j]
  BY <1>1 DEF SameKeys
<1>4. n \in 1..M
  BY <1>1
<1>5. ~(j < n)
  <2> SUFFICES ASSUME j < n PROVE FALSE
    OBVIOUS
  <2>1. j \in 1..(n - 1) /\ j \in 1..M
    BY <1>4
  <2>2. s[j] = t[j]
    BY <2>1
  <2>3. LexLess(s[j], s[n])
    BY <1>1, <1>4, <2>1 DEF Ascending
  <2>4. s[j] = s[n] /\ s[n] \in Seq(Nat)
    BY <1>2, <1>3, <1>4, <2>2
  <2> QED BY <2>3, <2>4, KeysAreOrdered
<1>6. n \in 1..N
  BY <1>4, <1>5
<1>7. PICK i \in 1..M : t[n] = s[i]
  BY <1>1, <1>6 DEF SameKeys
<1>8. ~(i < n)
  <2> SUFFICES ASSUME i < n PROVE FALSE
    OBVIOUS
  <2>1. i \in 1..(n - 1) /\ i \in 1..N
    BY <1>6
  <2>2. s[i] = t[i]
    BY <2>1
  <2>3. LexLess(t[i], t[n])
    BY <1>1, <1>6, <2>1 DEF Ascending
  <2>4. t[i] = t[n] /\ t[n] \in Seq(Nat)
    BY <1>2, <1>6, <1>7, <2>2
  <2> QED BY <2>3, <2>4, KeysAreOrdered
<1>9. s[n] = t[n]
  <2> SUFFICES ASSUME s[n] # t[n] PROVE FALSE
    OBVIOUS
  <2>1. n < j /\ n < i
    <3>1. j # n /\ i # n
      BY <1>3, <1>7
    <3> QED BY <1>4, <1>5, <1>8, <3>1
  <2>2. LexLess(t[n], t[j]) /\ LexLess(s[n], s[i])
    BY <1>1, <1>4, <1>6, <2>1 DEF Ascending
  <2>3. LexLess(t[n], s[n]) /\ LexLess(s[n], t[n])
    BY <1>3, <1>7, <2>2
  <2>4. s[n] \in Seq(Nat) /\ t[n] \in Seq(Nat)
    BY <1>2, <1>4, <1>6
  <2> QED BY <2>3, <2>4, KeysAreOrdered
<1> QED BY <1>1, <1>6, <1>9

LEMMA KeysAgree ==
  ASSUME NEW s \in Seq(Seq(Nat)), NEW t \in Seq(Seq(Nat)), Ascending(s), Ascending(t), SameKeys(s, t)
  PROVE  \A n \in 1..Len(s) : n \in 1..Len(t) /\ s[n] = t[n]
<1> DEFINE T == {n \in Nat : n \in 1..Len(s) => n \in 1..Len(t) /\ s[n] = t[n]}
<1> HIDE DEF T
<1>1. ASSUME NEW n \in Nat, \A m \in 0..(n - 1) : m \in T PROVE n \in T
  <2> SUFFICES ASSUME n \in 1..Len(s) PROVE n \in 1..Len(t) /\ s[n] = t[n]
    BY DEF T
  <2>1. \A m \in 1..(n - 1) : m \in 0..(n - 1) /\ m \in 1..Len(s)
    BY LenProperties
  <2>2. \A m \in 1..(n - 1) : m \in 1..Len(t) /\ s[m] = t[m]
    BY <1>1, <2>1 DEF T
  <2> QED BY <2>2, NextKeyAgrees
<1>2. Nat \subseteq T
  BY <1>1, Induction
<1>3. \A n \in 1..Len(s) : n \in Nat
  OBVIOUS
<1> QED BY <1>2, <1>3 DEF T

(***************************************************************************)
(* The keys of an object can be listed in ascending order in one way only: *)
(* what the codec writes does not depend on the order of the members in    *)
(* the text.                                                               *)
(***************************************************************************)
THEOREM KeysHaveOneOrder ==
  ASSUME NEW s \in Seq(Seq(Nat)), NEW t \in Seq(Seq(Nat)), Ascending(s), Ascending(t), SameKeys(s, t)
  PROVE  s = t
<1>1. \A n \in 1..Len(s) : n \in 1..Len(t) /\ s[n] = t[n]
  BY KeysAgree
<1>2. \A n \in 1..Len(t) : n \in 1..Len(s)
  <2>1. SameKeys(t, s)
    BY DEF SameKeys
  <2> QED BY <2>1, KeysAgree
<1>3. Len(s) = Len(t)
  <2>1. PICK M \in Nat, N \in Nat : M = Len(s) /\ N = Len(t)
    BY LenProperties
  <2>2. M <= N
    BY <1>1, <2>1
  <2>3. N <= M
    BY <1>2, <2>1
  <2> QED BY <2>1, <2>2, <2>3
<1> QED BY <1>1, <1>3, SeqEqual

(***************************************************************************)
(* Numbers.                                                                *)
(***************************************************************************)
Digits == 0..9

\* What a sequence of digits is worth, digit by digit.
Worth(digits, v) ==
  /\ v \in [0..Len(digits) -> Nat] /\ v[0] = 0
  /\ \A n \in 1..Len(digits) : v[n] = 10 * v[n - 1] + digits[n]

LEMMA WorthExists ==
  ASSUME NEW digits \in Seq(Digits)
  PROVE  \E v : Worth(digits, v)
<1> DEFINE Upto(n, v) == /\ v \in [0..n -> Nat] /\ v[0] = 0
                         /\ \A m \in 1..n : v[m] = 10 * v[m - 1] + digits[m]
           T == {n \in Nat : n <= Len(digits) => \E v : Upto(n, v)}
<1> HIDE DEF T
<1>1. ASSUME NEW n \in Nat, \A m \in 0..(n - 1) : m \in T PROVE n \in T
  <2> SUFFICES ASSUME n <= Len(digits) PROVE \E v : Upto(n, v)
    BY DEF T
  <2>1. CASE n = 0
    <3>1. Upto(0, [m \in 0..0 |-> 0])
      OBVIOUS
    <3> QED BY <2>1, <3>1
  <2>2. CASE n # 0
    <3>1. n - 1 \in 0..(n - 1) /\ n - 1 \in Nat /\ n - 1 <= Len(digits)
      BY <2>2
    <3>2. PICK v : Upto(n - 1, v)
      BY <1>1, <3>1 DEF T
    <3> DEFINE w == [m \in 0..n |-> IF m = n THEN 10 * v[n - 1] + digits[n] ELSE v[m]]
    <3>3. digits[n] \in Nat /\ v[n - 1] \in Nat
      <4>1. n \in 1..Len(digits) /\ n - 1 \in 0..(n - 1)
        BY <2>2
      <4>2. digits[n] \in Digits
        BY <4>1
      <4> QED BY <3>2, <4>1, <4>2 DEF Digits
    <3>4. w \in [0..n -> Nat]
      BY <3>2, <3>3
    <3>5. w[0] = 0
      BY <2>2, <3>2
    <3>6. ASSUME NEW m \in 1..n PROVE w[m] = 10 * w[m - 1] + digits[m]
      <4>1. m - 1 \in 0..n /\ m - 1 # n /\ m \in 0..n
        OBVIOUS
      <4>2. CASE m = n
        BY <4>1, <4>2
      <4>3. CASE m # n
        BY <3>2, <4>1, <4>3
      <4> QED BY <4>2, <4>3
    <3> QED BY <3>4, <3>5, <3>6
  <2> QED BY <2>1, <2>2
<1>2. Nat \subseteq T
  BY <1>1, Induction
<1>3. PICK v : Upto(Len(digits), v)
  BY <1>2 DEF T
<1> QED BY <1>3 DEF Worth

LEMMA EvaluateIsWorth ==
  ASSUME NEW digits \in Seq(Digits)
  PROVE  \E v : Worth(digits, v) /\ Evaluate(digits) = v[Len(digits)]
<1> DEFINE body(v) == [n \in 0..Len(digits) |-> IF n = 0 THEN 0 ELSE 10 * v[n - 1] + digits[n]]
           upTo == CHOOSE v : v = body(v)
<1>1. PICK v : Worth(digits, v)
  BY WorthExists
<1>2. v = body(v)
  BY <1>1 DEF Worth
<1>3. upTo = body(upTo)
  BY <1>2
<1>4. Evaluate(digits) = upTo[Len(digits)]
  BY DEF Evaluate
<1> HIDE DEF upTo
<1> DEFINE T == {n \in Nat : n <= Len(digits) => upTo[n] = v[n]}
<1> HIDE DEF T
<1>5. ASSUME NEW n \in Nat, \A m \in 0..(n - 1) : m \in T PROVE n \in T
  <2> SUFFICES ASSUME n <= Len(digits) PROVE upTo[n] = v[n]
    BY DEF T
  <2>1. CASE n = 0
    BY <1>1, <1>3, <2>1 DEF Worth
  <2>2. CASE n # 0
    <3>1. n - 1 \in 0..(n - 1) /\ n - 1 <= Len(digits) /\ n \in 0..Len(digits)
      BY <2>2
    <3>2. upTo[n - 1] = v[n - 1]
      BY <1>5, <3>1 DEF T
    <3>3. upTo[n] = 10 * upTo[n - 1] + digits[n]
      BY <1>3, <2>2, <3>1
    <3>4. v[n] = 10 * v[n - 1] + digits[n]
      BY <1>2, <2>2, <3>1
    <3> QED BY <3>2, <3>3, <3>4
  <2> QED BY <2>1, <2>2
<1>6. Nat \subseteq T
  BY <1>5, Induction
<1>7. upTo[Len(digits)] = v[Len(digits)]
  BY <1>6 DEF T
<1> QED BY <1>1, <1>4, <1>7

LEMMA EvaluateInNat ==
  ASSUME NEW digits \in Seq(Digits) PROVE Evaluate(digits) \in Nat
<1>1. PICK v : Worth(digits, v) /\ Evaluate(digits) = v[Len(digits)]
  BY EvaluateIsWorth
<1> QED BY <1>1 DEF Worth

\* A number that is ahead by one stays ahead, whatever digits follow.
LEMMA StaysAhead ==
  ASSUME NEW a \in Seq(Digits), NEW b \in Seq(Digits), NEW v, NEW w, Worth(a, v), Worth(b, w),
         NEW d \in Nat, Len(b) = Len(a) + d, NEW k \in 0..Len(a), v[k] < w[k + d]
  PROVE  v[Len(a)] < w[Len(b)]
<1> DEFINE T == {n \in Nat : k + n <= Len(a) => v[k + n] < w[k + n + d]}
<1> HIDE DEF T
<1>1. ASSUME NEW n \in Nat, \A m \in 0..(n - 1) : m \in T PROVE n \in T
  <2> SUFFICES ASSUME k + n <= Len(a) PROVE v[k + n] < w[k + n + d]
    BY DEF T
  <2>1. CASE n = 0
    BY <2>1
  <2>2. CASE n # 0
    <3>1. n - 1 \in 0..(n - 1) /\ k + (n - 1) <= Len(a)
      BY <2>2
    <3>2. v[k + (n - 1)] < w[k + (n - 1) + d]
      BY <1>1, <3>1 DEF T
    <3> DEFINE i == k + n
    <3>3. i \in 1..Len(a) /\ i + d \in 1..Len(b) /\ k + (n - 1) = i - 1 /\ k + (n - 1) + d = (i + d) - 1
      BY <2>2
    <3> HIDE DEF i
    <3>4. v[i] = 10 * v[i - 1] + a[i] /\ w[i + d] = 10 * w[(i + d) - 1] + b[i + d]
      BY <3>3 DEF Worth
    <3>5. /\ v[i - 1] \in Nat /\ w[(i + d) - 1] \in Nat /\ a[i] \in Digits /\ b[i + d] \in Digits
          /\ v[i - 1] < w[(i + d) - 1]
      <4>1. i - 1 \in 0..Len(a) /\ (i + d) - 1 \in 0..Len(b)
        BY <3>3
      <4>2. v[i - 1] \in Nat /\ w[(i + d) - 1] \in Nat
        BY <4>1 DEF Worth
      <4>3. a[i] \in Digits /\ b[i + d] \in Digits
        BY <3>3, ElementOfSeq
      <4>4. v[i - 1] < w[(i + d) - 1]
        BY <3>2, <3>3
      <4> QED BY <4>2, <4>3, <4>4
    <3>6. v[i] < w[i + d]
      <4> DEFINE p == v[i - 1]
                 q == w[(i + d) - 1]
                 x == a[i]
                 y == b[i + d]
      <4>1. p \in Nat /\ q \in Nat /\ x \in 0..9 /\ y \in 0..9 /\ p < q
        BY <3>5 DEF Digits
      <4>2. v[i] = 10 * p + x /\ w[i + d] = 10 * q + y
        BY <3>4
      <4> HIDE DEF p, q, x, y
      <4>3. 10 * p + x < 10 * q + y
        BY <4>1
      <4> QED BY <4>2, <4>3
    <3> QED BY <3>6 DEF i
  <2> QED BY <2>1, <2>2
<1>2. Nat \subseteq T
  BY <1>1, Induction
<1>3. PICK n \in Nat : k + n = Len(a)
  <2>1. Len(a) - k \in Nat /\ k + (Len(a) - k) = Len(a)
    OBVIOUS
  <2> QED BY <2>1
<1>4. k + n + d = Len(b) /\ n \in T
  BY <1>2, <1>3
<1> QED BY <1>3, <1>4 DEF T

\* What begins alike is worth the same so far.
LEMMA BeginsAlike ==
  ASSUME NEW a \in Seq(Digits), NEW b \in Seq(Digits), NEW v, NEW w, Worth(a, v), Worth(b, w),
         NEW k \in Nat, k <= Len(a), k <= Len(b), \A i \in 1..k : a[i] = b[i]
  PROVE  v[k] = w[k]
<1> DEFINE T == {n \in Nat : n <= k => v[n] = w[n]}
<1> HIDE DEF T
<1>1. ASSUME NEW n \in Nat, \A m \in 0..(n - 1) : m \in T PROVE n \in T
  <2> SUFFICES ASSUME n <= k PROVE v[n] = w[n]
    BY DEF T
  <2>1. CASE n = 0
    BY <2>1 DEF Worth
  <2>2. CASE n # 0
    <3>1. n - 1 \in 0..(n - 1) /\ n - 1 <= k /\ n \in 1..Len(a) /\ n \in 1..Len(b) /\ n \in 1..k
      BY <2>2
    <3>2. v[n - 1] = w[n - 1]
      BY <1>1, <3>1 DEF T
    <3>3. a[n] = b[n] /\ v[n] = 10 * v[n - 1] + a[n] /\ w[n] = 10 * w[n - 1] + b[n]
      BY <3>1 DEF Worth
    <3> QED BY <3>2, <3>3
  <2> QED BY <2>1, <2>2
<1>2. Nat \subseteq T
  BY <1>1, Induction
<1> QED BY <1>2 DEF T

\* Digits without superfluous zeros compare as the numbers do.
LEMMA LongerIsLarger ==
  ASSUME NEW a \in Seq(Digits), NEW b \in Seq(Digits), Len(a) < Len(b), b[1] # 0
  PROVE  Evaluate(a) < Evaluate(b)
<1>1. PICK v : Worth(a, v) /\ Evaluate(a) = v[Len(a)]
  BY EvaluateIsWorth
<1>2. PICK w : Worth(b, w) /\ Evaluate(b) = w[Len(b)]
  BY EvaluateIsWorth
<1> DEFINE d == Len(b) - Len(a)
           T == {n \in Nat : n <= Len(b) /\ n >= 1 => w[n] > 0}
<1> HIDE DEF T
<1>3. ASSUME NEW n \in Nat, \A m \in 0..(n - 1) : m \in T PROVE n \in T
  <2> SUFFICES ASSUME n <= Len(b), n >= 1 PROVE w[n] > 0
    BY DEF T
  <2>1. w[n] = 10 * w[n - 1] + b[n] /\ w[n - 1] \in Nat /\ b[n] \in Digits
    BY <1>2 DEF Worth
  <2>2. CASE n = 1
    BY <2>1, <2>2 DEF Digits
  <2>3. CASE n # 1
    <3>1. n - 1 \in 0..(n - 1) /\ n - 1 <= Len(b) /\ n - 1 >= 1
      BY <2>3
    <3>2. w[n - 1] > 0
      BY <1>3, <3>1 DEF T
    <3> QED BY <2>1, <3>2 DEF Digits
  <2> QED BY <2>2, <2>3
<1>4. Nat \subseteq T
  BY <1>3, Induction
<1>5. d \in Nat /\ d >= 1 /\ d <= Len(b) /\ Len(b) = Len(a) + d /\ 0 \in 0..Len(a) /\ 0 + d = d
  OBVIOUS
<1> HIDE DEF d
<1>6. w[d] > 0 /\ v[0] = 0
  BY <1>1, <1>4, <1>5 DEF T, Worth
<1>7. v[0] < w[0 + d]
  BY <1>5, <1>6
<1>8. v[Len(a)] < w[Len(b)]
  BY <1>1, <1>2, <1>5, <1>7, StaysAhead
<1> QED BY <1>1, <1>2, <1>8

LEMMA FirstDigitDecides ==
  ASSUME NEW a \in Seq(Digits), NEW b \in Seq(Digits), Len(a) = Len(b), LexLess(a, b)
  PROVE  Evaluate(a) < Evaluate(b)
<1>1. PICK v : Worth(a, v) /\ Evaluate(a) = v[Len(a)]
  BY EvaluateIsWorth
<1>2. PICK w : Worth(b, w) /\ Evaluate(b) = w[Len(b)]
  BY EvaluateIsWorth
<1>3. a \in Seq(Nat) /\ b \in Seq(Nat)
  BY DEF Digits
<1>4. PICK k \in Nat : Before(a, b, k)
  BY <1>3, LessIsBefore
<1>5. k \in 1..Len(a) /\ k \in 1..Len(b) /\ a[k] < b[k] /\ \A i \in 1..(k - 1) : a[i] = b[i]
  BY <1>4 DEF Before
<1>6. v[k - 1] = w[k - 1]
  <2>1. k - 1 \in Nat /\ k - 1 <= Len(a) /\ k - 1 <= Len(b)
    BY <1>5
  <2> QED BY <1>1, <1>2, <1>5, <2>1, BeginsAlike
<1>7. v[k] = 10 * v[k - 1] + a[k] /\ w[k] = 10 * w[k - 1] + b[k]
      /\ v[k - 1] \in Nat /\ a[k] \in Nat /\ b[k] \in Nat
  <2>1. k - 1 \in 0..Len(a)
    BY <1>5
  <2>2. v[k - 1] \in Nat
    BY <1>1, <2>1 DEF Worth
  <2>3. a[k] \in Nat /\ b[k] \in Nat
    BY <1>3, <1>5
  <2>4. v[k] = 10 * v[k - 1] + a[k] /\ w[k] = 10 * w[k - 1] + b[k]
    BY <1>1, <1>2, <1>5 DEF Worth
  <2> QED BY <2>2, <2>3, <2>4
<1>8. v[k] < w[k + 0]
  BY <1>5, <1>6, <1>7
<1>9. 0 \in Nat /\ Len(b) = Len(a) + 0 /\ k \in 0..Len(a)
  BY <1>5
<1>10. v[Len(a)] < w[Len(b)]
  BY <1>1, <1>2, <1>8, <1>9, StaysAhead
<1> QED BY <1>1, <1>2, <1>10

LEMMA OneOrMore == \A n \in Nat : n >= 1 => n = 1 \/ n > 1
  OBVIOUS

\* Length first, then the digits: the size of the number.
LEMMA SizeIsDecided ==
  ASSUME NEW digits \in Seq(Digits), digits # <<>>, digits[1] # 0 \/ Len(digits) = 1
  PROVE  ~(Len(digits) > Len(Largest) \/ (Len(digits) = Len(Largest) /\ LexLess(Largest, digits)))
           <=> Evaluate(digits) <= Evaluate(Largest)
<1>1. Largest \in Seq(Digits) /\ Largest # <<>> /\ Largest[1] # 0
  BY LargestAssumption DEF Digits
<1>2. Evaluate(digits) \in Nat /\ Evaluate(Largest) \in Nat
  BY <1>1, EvaluateInNat
<1>3. Len(digits) \in Nat /\ Len(digits) >= 1 /\ Len(Largest) \in Nat /\ Len(Largest) >= 1
  BY <1>1, EmptySeq
<1>4. CASE Len(digits) > Len(Largest)
  <2>1. Len(Largest) < Len(digits) /\ Len(digits) # 1
    <3>1. \A m, n \in Nat : m >= 1 /\ n > m => m < n /\ n # 1
      OBVIOUS
    <3> QED BY <1>3, <1>4, <3>1, Zenon
  <2>2. Evaluate(Largest) < Evaluate(digits)
    BY <1>1, <2>1, LongerIsLarger
  <2> QED BY <1>2, <1>4, <2>2
<1>5. CASE Len(digits) < Len(Largest)
  <2>1. Evaluate(digits) < Evaluate(Largest)
    BY <1>1, <1>5, LongerIsLarger
  <2> QED BY <1>2, <1>3, <1>5, <2>1
<1>6. CASE Len(digits) = Len(Largest)
  <2>1. digits \in Seq(Nat) /\ Largest \in Seq(Nat)
    <3>1. Digits \subseteq Nat
      BY DEF Digits
    <3> QED BY <1>1, <3>1, SeqMonotonic
  <2>2. CASE LexLess(Largest, digits)
    <3>1. Evaluate(Largest) < Evaluate(digits)
      BY <1>1, <1>6, <2>2, FirstDigitDecides
    <3> QED BY <1>2, <1>6, <2>2, <3>1
  <2>3. CASE ~LexLess(Largest, digits)
    <3>1. digits = Largest \/ LexLess(digits, Largest)
      BY <2>1, <2>3, KeysAreOrdered
    <3>2. Evaluate(digits) <= Evaluate(Largest)
      BY <1>1, <1>2, <1>6, <3>1, FirstDigitDecides
    <3> QED BY <1>3, <1>6, <2>3, <3>2
  <2> QED BY <2>2, <2>3
<1> QED BY <1>3, <1>4, <1>5, <1>6

\* A leading zero is the whole token exactly if it is neither followed by
\* digits nor signed.
LEMMA ZeroStandsAlone ==
  ASSUME NEW token \in Seq(Int), NEW digits \in Seq(Int), digits = Magnitude(token), digits # <<>>,
         digits[1] >= 0
  PROVE  (digits[1] = 0 => token = <<0>>) <=> (Len(digits) > 1 => digits[1] # 0) /\ token # <<-1, 0>>
<1>1. Len(digits) \in Nat /\ Len(digits) >= 1 /\ Len(token) \in Nat
  BY EmptySeq
<1>2. CASE token # <<>> /\ token[1] = -1
  <2>1. Len(token) = Len(digits) + 1 /\ token[2] = digits[1]
    BY <1>2 DEF Magnitude
  <2>2. token # <<0>>
    BY <1>2
  <2>3. token = <<-1, 0>> <=> Len(digits) = 1 /\ digits[1] = 0
    <3>1. ASSUME Len(digits) = 1, digits[1] = 0 PROVE token = <<-1, 0>>
      <4>1. Len(token) = 2 /\ token[1] = -1 /\ token[2] = 0
        BY <1>2, <2>1, <3>1
      <4>2. <<-1, 0>> \in Seq(Int) /\ Len(<<-1, 0>>) = 2 /\ \A i \in 1..2 : token[i] = <<-1, 0>>[i]
        BY <4>1
      <4> QED BY <4>1, <4>2, SeqEqual
    <3>2. ASSUME token = <<-1, 0>> PROVE Len(digits) = 1 /\ digits[1] = 0
      <4>1. Len(token) = 2 /\ token[2] = 0
        BY <3>2
      <4>2. \A n \in Nat : n + 1 = 2 => n = 1
        OBVIOUS
      <4>3. Len(digits) + 1 = 2
        BY <2>1, <4>1
      <4> QED BY <1>1, <2>1, <4>1, <4>2, <4>3, Zenon
    <3> QED BY <3>1, <3>2
  <2>4. Len(digits) = 1 \/ Len(digits) > 1
    BY <1>1, OneOrMore, Zenon
  <2> QED BY <2>2, <2>3, <2>4
<1>3. CASE ~(token # <<>> /\ token[1] = -1)
  <2>1. digits = token
    BY <1>3 DEF Magnitude
  <2>2. token # <<-1, 0>>
    BY <2>1
  <2>3. token = <<0>> <=> Len(token) = 1 /\ token[1] = 0
    OBVIOUS
  <2>4. Len(token) = 1 \/ Len(token) > 1
    BY <1>1, <2>1, OneOrMore, Zenon
  <2> QED BY <2>1, <2>2, <2>3, <2>4
<1> QED BY <1>2, <1>3

(***************************************************************************)
(* The comparison of digits at sixteen places (line 192) decides as the    *)
(* numbers would: a token is accepted exactly if it has a meaning.         *)
(***************************************************************************)
THEOREM NumbersAreRead ==
  ASSUME NEW token \in Seq(Int)
  PROVE  number(token) <=> Numbers(token) # {}
<1>1. PICK digits \in Seq(Int) : digits = Magnitude(token)
  <2>1. Magnitude(token) \in Seq(Int)
    BY HeadTailProperties DEF Magnitude
  <2> QED BY <2>1
<1> DEFINE Written == digits # <<>> /\ \A i \in DOMAIN digits : digits[i] \in 0..9
           Fits == ~(Len(digits) > Len(Largest) \/ (Len(digits) = Len(Largest) /\ LexLess(Largest, digits)))
           Plain == (Len(digits) > 1 => digits[1] # 0) /\ token # <<-1, 0>>
<1>2. Numbers(token) # {} <=> token # <<>> /\ Written /\ Plain /\ Evaluate(digits) <= Evaluate(Largest)
  <2>1. CASE token = <<>>
    <3>1. digits = <<>>
      BY <1>1, <2>1 DEF Magnitude
    <3> QED BY <2>1, <3>1 DEF Numbers
  <2>2. CASE token # <<>>
    <3>1. digits = IF token # <<>> /\ token[1] = -1 THEN Tail(token) ELSE token
      BY <1>1, <2>2 DEF Magnitude
    <3> QED BY <2>2, <3>1 DEF Numbers
  <2> QED BY <2>1, <2>2
<1>3. number(token) <=> Written /\ (digits[1] = 0 => token = <<0>>) /\ Fits
  BY <1>1 DEF number
<1>4. Written => token # <<>>
  BY <1>1 DEF Magnitude
<1>5. Written => digits[1] \in 0..9
  BY <1>1
<1>6. Written => ((digits[1] = 0 => token = <<0>>) <=> Plain)
  BY <1>1, <1>5, ZeroStandsAlone
<1>7. ASSUME Written, Plain PROVE Fits <=> Evaluate(digits) <= Evaluate(Largest)
  <2>1. digits \in Seq(Digits)
    BY <1>1, <1>7 DEF Digits
  <2>2. digits[1] # 0 \/ Len(digits) = 1
    <3>1. Len(digits) \in Nat /\ Len(digits) >= 1
      BY <1>7, EmptySeq
    <3> QED BY <1>7, <3>1, OneOrMore, Zenon
  <2> QED BY <1>7, <2>1, <2>2, SizeIsDecided
<1> HIDE DEF Written, Plain, Fits
<1> QED BY <1>2, <1>3, <1>4, <1>6, <1>7

(***************************************************************************)
(* Strings.                                                                *)
(***************************************************************************)
LEMMA Division ==
  ASSUME NEW n \in Nat, NEW w \in Nat, w >= 1
  PROVE  /\ n \div w \in Nat /\ n % w \in 0..(w - 1)
         /\ n = (n \div w) * w + (n % w)
  OBVIOUS

LEMMA DivisionIsUnique ==
  ASSUME NEW q \in Nat, NEW r \in Nat, NEW p \in Nat, NEW s \in Nat, NEW w \in Nat,
         r < w, s < w, q * w + r = p * w + s
  PROVE  q = p /\ r = s
<1>1. \A a, b \in Nat : a < b => a * w + w <= b * w
  <2> TAKE a, b \in Nat
  <2> HAVE a < b
  <2>1. PICK c \in Nat : b = a + 1 + c
    <3>1. b - a - 1 \in Nat /\ b = a + 1 + (b - a - 1)
      OBVIOUS
    <3> QED BY <3>1
  <2>2. b * w = a * w + w + c * w /\ c * w \in Nat
    BY <2>1
  <2> QED BY <2>2
<1>2. q * w \in Nat /\ p * w \in Nat
  OBVIOUS
<1>3. ~(q < p) /\ ~(p < q)
  BY <1>1, <1>2
<1> QED BY <1>3

LEMMA CodeSpace ==
  /\ HighFirst \in Nat /\ LowFirst \in Nat /\ Astral \in Nat /\ Space \in Nat
  /\ Width \in Nat /\ Width >= 1 /\ Width * Width \in Nat
  /\ High \subseteq Nat /\ Low \subseteq Nat /\ High \intersect Low = {}
  /\ \A c \in Surrogates : c < Astral /\ c >= Space
  BY ScalarAssumption DEF High, Low, Surrogates

LEMMA PairOfScalar ==
  ASSUME NEW x \in Scalars, x >= Astral
  PROVE  \E h \in High, l \in Low : UnitsOf(x) = <<h, l>> /\ FromPair(h, l) = x
<1> DEFINE n == x - Astral
           q == n \div Width
           r == n % Width
<1>1. n \in Nat /\ n < Width * Width
  BY CodeSpace DEF Scalars
<1>2. q \in Nat /\ r \in 0..(Width - 1) /\ n = q * Width + r
  BY <1>1, CodeSpace, Division
<1> HIDE DEF q, r
<1>3. q < Width
  <2> SUFFICES ASSUME q >= Width PROVE FALSE
    BY <1>2, CodeSpace
  <2>1. q * Width >= Width * Width
    BY <1>2, CodeSpace
  <2> QED BY <1>1, <1>2, <2>1, CodeSpace
<1>4. HighFirst + q \in High /\ LowFirst + r \in Low
  BY <1>2, <1>3, CodeSpace DEF High, Low
<1>5. UnitsOf(x) = <<HighFirst + q, LowFirst + r>>
  BY CodeSpace DEF UnitsOf, q, r, Scalars
<1>6. FromPair(HighFirst + q, LowFirst + r) = x
  <2>1. (HighFirst + q) - HighFirst = q /\ (LowFirst + r) - LowFirst = r
    BY <1>2, CodeSpace
  <2>2. Astral + q * Width + r = x
    BY <1>1, <1>2, CodeSpace DEF Scalars
  <2> QED BY <2>1, <2>2 DEF FromPair
<1> QED BY <1>4, <1>5, <1>6

LEMMA ScalarOfPair ==
  ASSUME NEW h \in High, NEW l \in Low
  PROVE  /\ FromPair(h, l) \in Scalars /\ FromPair(h, l) >= Astral
         /\ UnitsOf(FromPair(h, l)) = <<h, l>>
<1> DEFINE p == h - HighFirst
           s == l - LowFirst
           x == FromPair(h, l)
<1>1. p \in Nat /\ p < Width /\ s \in Nat /\ s < Width /\ h = HighFirst + p /\ l = LowFirst + s
  BY CodeSpace DEF High, Low
<1>2. x = Astral + p * Width + s
  BY DEF FromPair
<1> HIDE DEF p, s, x
<1>3. p * Width \in Nat /\ p * Width + Width <= Width * Width
  <2>1. PICK d \in Nat : Width = p + 1 + d
    <3>1. Width - p - 1 \in Nat /\ Width = p + 1 + (Width - p - 1)
      BY <1>1, CodeSpace
    <3> QED BY <3>1
  <2>2. Width * Width = p * Width + Width + d * Width /\ d * Width \in Nat
    BY <1>1, <2>1, CodeSpace
  <2> QED BY <1>1, <2>2, CodeSpace
<1>4. x \in Nat /\ x >= Astral /\ x <= Astral + Width * Width - 1 /\ x - Astral = p * Width + s
  BY <1>1, <1>2, <1>3, CodeSpace
<1>5. x \in Scalars
  BY <1>4, CodeSpace DEF Scalars
<1> DEFINE q == (x - Astral) \div Width
           r == (x - Astral) % Width
<1>6. q \in Nat /\ r \in 0..(Width - 1) /\ x - Astral = q * Width + r
  <2>1. x - Astral \in Nat
    BY <1>4, CodeSpace
  <2> QED BY <2>1, CodeSpace, Division
<1>7. UnitsOf(x) = <<HighFirst + q, LowFirst + r>>
  BY <1>4, CodeSpace DEF UnitsOf
<1> HIDE DEF q, r
<1>8. q = p /\ r = s
  BY <1>1, <1>4, <1>6, CodeSpace, DivisionIsUnique
<1> QED BY <1>1, <1>4, <1>5, <1>7, <1>8 DEF x

(***************************************************************************)
(* Sequences one after another, from the first on.                         *)
(***************************************************************************)
Pieces == Seq(Seq(Nat))

\* f is what the first pieces are, put together.
Together(seqs, f) ==
  /\ f \in [0..Len(seqs) -> Seq(Nat)] /\ f[0] = <<>>
  /\ \A n \in 1..Len(seqs) : f[n] = f[n - 1] \o seqs[n]

LEMMA PiecesAre ==
  ASSUME NEW seqs \in Pieces
  PROVE  Len(seqs) \in Nat /\ \A i \in 1..Len(seqs) : seqs[i] \in Seq(Nat)
  BY ElementOfSeq DEF Pieces

LEMMA TogetherExists == ASSUME NEW seqs \in Pieces PROVE \E f : Together(seqs, f)
<1>1. PICK N \in Nat : N = Len(seqs)
  BY PiecesAre
<1> DEFINE Upto(n, f) == /\ f \in [0..n -> Seq(Nat)] /\ f[0] = <<>>
                         /\ \A m \in 1..n : f[m] = f[m - 1] \o seqs[m]
           T == {n \in Nat : n <= N => \E f : Upto(n, f)}
<1> HIDE DEF T
<1>2. ASSUME NEW n \in Nat, \A m \in 0..(n - 1) : m \in T PROVE n \in T
  <2> SUFFICES ASSUME n <= N PROVE \E f : Upto(n, f)
    BY DEF T
  <2>1. CASE n = 0
    <3> DEFINE f == [m \in 0..0 |-> <<>>]
    <3>1. f \in [0..0 -> Seq(Nat)] /\ f[0] = <<>> /\ \A m \in 1..0 : FALSE
      OBVIOUS
    <3> HIDE DEF f
    <3>2. Upto(0, f)
      BY <3>1
    <3> QED BY <2>1, <3>2
  <2>2. CASE n # 0
    <3>1. n - 1 \in 0..(n - 1) /\ n - 1 \in Nat /\ n - 1 <= N /\ n \in 1..N
      BY <2>2
    <3>2. PICK f : Upto(n - 1, f)
      BY <1>2, <3>1 DEF T
    <3> DEFINE g == [m \in 0..n |-> IF m = n THEN f[n - 1] \o seqs[n] ELSE f[m]]
    <3>3. f[n - 1] \in Seq(Nat) /\ f[n - 1] \o seqs[n] \in Seq(Nat)
      <4>1. f[n - 1] \in Seq(Nat) /\ seqs[n] \in Seq(Nat)
        BY <1>1, <3>1, <3>2, PiecesAre
      <4> QED BY <4>1, ConcatProperties
    <3>4. g \in [0..n -> Seq(Nat)]
      BY <3>2, <3>3
    <3>5. g[0] = <<>>
      BY <2>2, <3>2
    <3>6. ASSUME NEW m \in 1..n PROVE g[m] = g[m - 1] \o seqs[m]
      <4>1. m - 1 \in 0..n /\ m - 1 # n /\ m \in 0..n
        OBVIOUS
      <4>2. CASE m = n
        BY <4>1, <4>2
      <4>3. CASE m # n
        <5>1. m \in 1..(n - 1)
          BY <4>3
        <5>2. f[m] = f[m - 1] \o seqs[m]
          BY <3>2, <5>1
        <5> QED BY <4>1, <4>3, <5>2
      <4> QED BY <4>2, <4>3
    <3> QED BY <3>4, <3>5, <3>6
  <2> QED BY <2>1, <2>2
<1>3. Nat \subseteq T
  BY <1>2, Induction
<1>4. PICK f : Upto(N, f)
  <2>1. N \in T /\ N <= N
    BY <1>3
  <2> QED BY <2>1 DEF T
<1> QED BY <1>1, <1>4 DEF Together

LEMMA FlattenIsTogether ==
  ASSUME NEW seqs \in Pieces
  PROVE  \E f : Together(seqs, f) /\ FlattenSeq(seqs) = f[Len(seqs)]
<1>1. PICK f : Together(seqs, f)
  BY TogetherExists
<1>2. CASE Len(seqs) = 0
  <2>1. seqs = <<>>
    BY <1>2 DEF Pieces
  <2> QED BY <1>1, <1>2, <2>1 DEF FlattenSeq, Together
<1>3. CASE Len(seqs) # 0
  <2> DEFINE body(g) == [i \in 1..Len(seqs) |-> IF i = 1 THEN seqs[i] ELSE g[i - 1] \o seqs[i]]
             flatten == CHOOSE g : g = body(g)
             g0 == [i \in 1..Len(seqs) |-> f[i]]
  <2>1. FlattenSeq(seqs) = flatten[Len(seqs)]
    BY <1>3 DEF FlattenSeq
  <2>2. Len(seqs) \in 1..Len(seqs)
    BY <1>3 DEF Pieces
  <2>3. ASSUME NEW i \in 1..Len(seqs)
        PROVE  f[i] = IF i = 1 THEN seqs[i] ELSE g0[i - 1] \o seqs[i]
    <3>1. seqs[i] \in Seq(Nat) /\ f[i] = f[i - 1] \o seqs[i]
      BY <1>1, PiecesAre DEF Together
    <3>2. CASE i = 1
      <4>1. f[i - 1] = <<>>
        BY <1>1, <3>2 DEF Together
      <4> QED BY <3>1, <3>2, <4>1
    <3>3. CASE i # 1
      <4>1. i - 1 \in 1..Len(seqs)
        BY <3>3
      <4> QED BY <3>1, <3>3, <4>1
    <3> QED BY <3>2, <3>3
  <2>4. g0 = body(g0)
    BY <2>3
  <2> HIDE DEF g0
  <2>5. flatten = body(flatten)
    BY <2>4
  <2> HIDE DEF flatten
  <2> DEFINE T == {n \in Nat : n \in 1..Len(seqs) => flatten[n] = f[n]}
  <2> HIDE DEF T
  <2>6. ASSUME NEW n \in Nat, \A m \in 0..(n - 1) : m \in T PROVE n \in T
    <3> SUFFICES ASSUME n \in 1..Len(seqs) PROVE flatten[n] = f[n]
      BY DEF T
    <3>1. flatten[n] = IF n = 1 THEN seqs[n] ELSE flatten[n - 1] \o seqs[n]
      BY <2>5
    <3>2. f[n] = f[n - 1] \o seqs[n] /\ seqs[n] \in Seq(Nat) /\ f[0] = <<>>
      BY <1>1, PiecesAre DEF Together
    <3>3. CASE n = 1
      <4>1. n - 1 = 0
        BY <3>3
      <4>2. f[n] = seqs[n]
        BY <3>2, <4>1, ConcatEmptySeq
      <4> QED BY <3>1, <3>3, <4>2
    <3>4. CASE n # 1
      <4>1. n - 1 \in 0..(n - 1) /\ n - 1 \in 1..Len(seqs)
        BY <3>4
      <4>2. flatten[n - 1] = f[n - 1]
        BY <2>6, <4>1 DEF T
      <4> QED BY <3>1, <3>2, <3>4, <4>2
    <3> QED BY <3>3, <3>4
  <2>7. Nat \subseteq T
    BY <2>6, Induction
  <2>8. flatten[Len(seqs)] = f[Len(seqs)]
    BY <2>2, <2>7 DEF T
  <2> QED BY <1>1, <2>1, <2>8
<1> QED BY <1>2, <1>3

LEMMA FlattenFirst ==
  ASSUME NEW seqs \in Pieces
  PROVE  /\ FlattenSeq(seqs) \in Seq(Nat)
         /\ seqs = <<>> => FlattenSeq(seqs) = <<>>
         /\ seqs # <<>> => FlattenSeq(seqs) = seqs[1] \o FlattenSeq(Tail(seqs))
<1>1. PICK f : Together(seqs, f) /\ FlattenSeq(seqs) = f[Len(seqs)]
  BY FlattenIsTogether
<1>2. Len(seqs) \in 0..Len(seqs) /\ FlattenSeq(seqs) \in Seq(Nat)
  <2>1. Len(seqs) \in 0..Len(seqs)
    BY DEF Pieces
  <2> QED BY <1>1, <2>1 DEF Together
<1>3. seqs = <<>> => FlattenSeq(seqs) = <<>>
  BY DEF FlattenSeq
<1>4. ASSUME seqs # <<>> PROVE FlattenSeq(seqs) = seqs[1] \o FlattenSeq(Tail(seqs))
  <2>1. /\ Tail(seqs) \in Pieces /\ Len(seqs) \in Nat /\ Len(Tail(seqs)) = Len(seqs) - 1 /\ Len(seqs) >= 1
        /\ \A i \in 1..(Len(seqs) - 1) : Tail(seqs)[i] = seqs[i + 1]
        /\ \A i \in 1..Len(seqs) : seqs[i] \in Seq(Nat)
    BY <1>4, HeadTailProperties, EmptySeq DEF Pieces
  <2>2. PICK g : Together(Tail(seqs), g) /\ FlattenSeq(Tail(seqs)) = g[Len(Tail(seqs))]
    BY <2>1, FlattenIsTogether
  <2> DEFINE N == Len(Tail(seqs))
  <2>3. N \in Nat /\ N + 1 = Len(seqs)
    BY <2>1, PiecesAre
  <2> HIDE DEF N
  <2> DEFINE T == {n \in Nat : n <= N => f[n + 1] = seqs[1] \o g[n]}
  <2> HIDE DEF T
  <2>4. ASSUME NEW n \in Nat, \A m \in 0..(n - 1) : m \in T PROVE n \in T
    <3> SUFFICES ASSUME n <= N PROVE f[n + 1] = seqs[1] \o g[n]
      BY DEF T
    <3>1. n + 1 \in 1..Len(seqs) /\ (n + 1) - 1 = n /\ 1 \in 1..Len(seqs)
      BY <2>3
    <3>2. f[n + 1] = f[n] \o seqs[n + 1] /\ f[0] = <<>> /\ g[0] = <<>> /\ seqs[1] \in Seq(Nat)
      <4>1. \A i \in 1..Len(seqs) : f[i] = f[i - 1] \o seqs[i]
        BY <1>1 DEF Together
      <4>2. f[n + 1] = f[(n + 1) - 1] \o seqs[n + 1]
        BY <3>1, <4>1
      <4>3. f[0] = <<>> /\ g[0] = <<>>
        BY <1>1, <2>2 DEF Together
      <4> QED BY <2>1, <3>1, <4>2, <4>3
    <3>3. CASE n = 0
      <4>1. n + 1 = 1
        BY <3>3
      <4>2. f[n + 1] = <<>> \o seqs[1] /\ g[n] = <<>>
        BY <3>2, <3>3, <4>1
      <4>3. \A u \in Seq(Nat) : <<>> \o u = u /\ u \o <<>> = u
        BY ConcatEmptySeq
      <4> QED BY <3>2, <4>2, <4>3
    <3>4. CASE n # 0
      <4>1. n - 1 \in 0..(n - 1) /\ n - 1 <= N /\ (n - 1) + 1 = n /\ n \in 1..N /\ n - 1 \in 0..N
        BY <2>3, <3>4
      <4>2. f[n] = seqs[1] \o g[n - 1]
        BY <2>4, <4>1 DEF T
      <4>3. g[n] = g[n - 1] \o seqs[n + 1] /\ g[n - 1] \in Seq(Nat) /\ seqs[n + 1] \in Seq(Nat)
        <5>1. g[n] = g[n - 1] \o Tail(seqs)[n] /\ g[n - 1] \in Seq(Nat)
          BY <2>2, <4>1 DEF Together, N
        <5>2. Tail(seqs)[n] = seqs[n + 1] /\ seqs[n + 1] \in Seq(Nat)
          BY <2>1, <2>3, <3>1, <4>1
        <5> QED BY <5>1, <5>2
      <4>4. (seqs[1] \o g[n - 1]) \o seqs[n + 1] = seqs[1] \o (g[n - 1] \o seqs[n + 1])
        <5>1. \A u, v, w \in Seq(Nat) : (u \o v) \o w = u \o (v \o w)
          BY ConcatAssociative
        <5> QED BY <3>2, <4>3, <5>1
      <4> QED BY <3>2, <4>2, <4>3, <4>4
    <3> QED BY <3>3, <3>4
  <2>5. Nat \subseteq T
    BY <2>4, Induction
  <2>6. f[N + 1] = seqs[1] \o g[N]
    <3>1. N \in T /\ N <= N
      BY <2>3, <2>5
    <3> QED BY <3>1 DEF T
  <2> QED BY <1>1, <2>2, <2>3, <2>6 DEF N
<1> QED BY <1>2, <1>3, <1>4

(***************************************************************************)
(* The decoder as a step from what follows a unit.                         *)
(***************************************************************************)
Prefixed(scalar, s) == [s EXCEPT !.out = <<scalar>> \o @]

\* What string makes of the last n units, from what it makes of fewer.
Ending(units, n, ending) ==
  LET unit == units[Len(units) - n + 1]
      second == units[Len(units) - n + 2]
      pairs == n > 1 /\ second.escaped /\ second.code \in Low
  IN IF n = 0 THEN Yield(0, <<>>)
     ELSE CASE ~unit.escaped /\ unit.code < Space -> Refuse(0)
            [] unit.escaped /\ unit.code \in High ->
                 IF pairs THEN Prefixed(FromPair(unit.code, second.code), ending[n - 2]) ELSE Refuse(0)
            [] unit.escaped /\ unit.code \in Low -> Refuse(0)
            [] OTHER -> Prefixed(unit.code, ending[n - 1])

Closings(units, n, e) ==
  /\ e = [m \in 0..n |-> e[m]]
  /\ \A m \in 0..n : e[m] = Ending(units, m, e)

LEMMA EndingLooksBack ==
  ASSUME NEW units, NEW n \in Nat, NEW e, NEW f,
         n > 0 => e[n - 1] = f[n - 1], n > 1 => e[n - 2] = f[n - 2]
  PROVE  Ending(units, n, e) = Ending(units, n, f)
<1>1. CASE n = 0
  BY <1>1 DEF Ending
<1>2. CASE n = 1
  BY <1>2 DEF Ending
<1>3. CASE n > 1
  <2>1. e[n - 1] = f[n - 1] /\ e[n - 2] = f[n - 2]
    BY <1>3
  <2> QED BY <2>1 DEF Ending
<1> QED BY <1>1, <1>2, <1>3

LEMMA ClosingsExist == ASSUME NEW units, NEW N \in Nat PROVE \E e : Closings(units, N, e)
<1> DEFINE T == {n \in Nat : \E e : Closings(units, n, e)}
<1> HIDE DEF T
<1>1. ASSUME NEW n \in Nat, \A m \in 0..(n - 1) : m \in T PROVE n \in T
  <2> SUFFICES \E e : Closings(units, n, e)
    BY DEF T
  <2>1. PICK e : n > 0 => Closings(units, n - 1, e)
    <3>1. CASE n = 0
      BY <3>1
    <3>2. CASE n # 0
      <4>1. n - 1 \in 0..(n - 1)
        BY <3>2
      <4> QED BY <1>1, <4>1 DEF T
    <3> QED BY <3>1, <3>2
  <2> DEFINE g == [m \in 0..n |-> IF m = n THEN Ending(units, n, e) ELSE e[m]]
  <2>2. g = [m \in 0..n |-> g[m]]
    OBVIOUS
  <2>3. g[n] = Ending(units, n, e) /\ \A m \in 0..(n - 1) : g[m] = e[m]
    OBVIOUS
  <2> HIDE DEF g
  <2>4. ASSUME NEW m \in 0..n PROVE g[m] = Ending(units, m, g)
    <3>1. m \in Nat
      OBVIOUS
    <3>2. (m > 0 => g[m - 1] = e[m - 1]) /\ (m > 1 => g[m - 2] = e[m - 2])
      <4>1. (m > 0 => m - 1 \in 0..(n - 1)) /\ (m > 1 => m - 2 \in 0..(n - 1))
        OBVIOUS
      <4> QED BY <2>3, <4>1
    <3>3. Ending(units, m, g) = Ending(units, m, e)
      BY <3>1, <3>2, EndingLooksBack
    <3>4. CASE m = n
      BY <2>3, <3>3, <3>4
    <3>5. CASE m # n
      <4>1. m \in 0..(n - 1) /\ n > 0
        BY <3>5
      <4>2. e[m] = Ending(units, m, e)
        BY <2>1, <4>1 DEF Closings
      <4> QED BY <2>3, <3>3, <4>1, <4>2
    <3> QED BY <3>4, <3>5
  <2> QED BY <2>2, <2>4 DEF Closings
<1>2. Nat \subseteq T
  BY <1>1, Induction
<1> QED BY <1>2 DEF T

LEMMA StringIsAnEnding ==
  ASSUME NEW units, Len(units) \in Nat
  PROVE  \E e : Closings(units, Len(units), e) /\ string(units) = e[Len(units)]
<1> DEFINE body(e) == [n \in 0..Len(units) |-> Ending(units, n, e)]
           ending == CHOOSE e : e = body(e)
<1>1. string(units) = ending[Len(units)]
  BY DEF string, Ending, Prefixed
<1>2. PICK e : Closings(units, Len(units), e)
  BY ClosingsExist
<1>3. e = body(e)
  BY <1>2 DEF Closings
<1>4. ending = body(ending)
  BY <1>3
<1> HIDE DEF ending
<1>5. ending = [m \in 0..Len(units) |-> ending[m]]
  BY <1>4
<1>6. \A m \in 0..Len(units) : ending[m] = Ending(units, m, ending)
  BY <1>4
<1>7. Closings(units, Len(units), ending)
  BY <1>5, <1>6 DEF Closings
<1> QED BY <1>1, <1>7

\* A string from its first unit on.
LEMMA StringOfNothing == string(<<>>) = Yield(0, <<>>)
<1>1. Len(<<>>) \in Nat /\ Len(<<>>) = 0
  OBVIOUS
<1>2. PICK e : Closings(<<>>, Len(<<>>), e) /\ string(<<>>) = e[Len(<<>>)]
  BY <1>1, StringIsAnEnding
<1>3. e[0] = Ending(<<>>, 0, e)
  BY <1>1, <1>2 DEF Closings
<1> QED BY <1>1, <1>2, <1>3 DEF Ending

LEMMA EndingsOfTail ==
  ASSUME NEW units \in Seq(TextUnits), units # <<>>,
         NEW e, Closings(units, Len(units), e)
  PROVE  \E f : /\ Closings(Tail(units), Len(units) - 1, f)
                /\ string(Tail(units)) = e[Len(units) - 1]
                /\ \A n \in 0..(Len(units) - 1) : f[n] = e[n]
<1>1. PICK L \in Nat : L = Len(units) /\ L >= 1 /\ Len(Tail(units)) = L - 1
  <2>1. Len(units) \in Nat /\ Len(units) >= 1 /\ Len(Tail(units)) = Len(units) - 1
    BY HeadTailProperties, EmptySeq
  <2> QED BY <2>1
<1>2. \A i \in 1..(L - 1) : Tail(units)[i] = units[i + 1]
  BY <1>1
<1>3. PICK f : Closings(Tail(units), L - 1, f) /\ string(Tail(units)) = f[L - 1]
  <2>1. Len(Tail(units)) \in Nat
    BY <1>1
  <2> QED BY <1>1, <2>1, StringIsAnEnding
<1> DEFINE T == {n \in Nat : n <= L - 1 => f[n] = e[n]}
<1> HIDE DEF T
<1>4. ASSUME NEW n \in Nat, \A m \in 0..(n - 1) : m \in T PROVE n \in T
  <2> SUFFICES ASSUME n <= L - 1 PROVE f[n] = e[n]
    BY DEF T
  <2>1. f[n] = Ending(Tail(units), n, f) /\ e[n] = Ending(units, n, e)
    <3>1. n \in 0..(L - 1) /\ n \in 0..L
      BY <1>1
    <3> QED BY <1>1, <1>3, <3>1 DEF Closings
  <2>2. CASE n = 0
    BY <2>1, <2>2 DEF Ending
  <2>3. CASE n > 0
    <3>1. f[n - 1] = e[n - 1] /\ (n > 1 => f[n - 2] = e[n - 2])
      <4>1. n - 1 \in 0..(n - 1) /\ n - 1 <= L - 1 /\ (n > 1 => n - 2 \in 0..(n - 1) /\ n - 2 <= L - 1)
        BY <1>1, <2>3
      <4> QED BY <1>4, <4>1 DEF T
    <3>2. Tail(units)[(L - 1) - n + 1] = units[L - n + 1]
      <4>1. PICK i \in 1..(L - 1) : i = (L - 1) - n + 1 /\ i + 1 = L - n + 1
        BY <1>1, <2>3
      <4>2. Tail(units)[i] = units[i + 1]
        BY <1>2
      <4> QED BY <4>1, <4>2
    <3>3. n > 1 => Tail(units)[(L - 1) - n + 2] = units[L - n + 2]
      <4> SUFFICES ASSUME n > 1 PROVE Tail(units)[(L - 1) - n + 2] = units[L - n + 2]
        OBVIOUS
      <4> DEFINE i == L - n + 1
      <4>0. i \in 1..(L - 1) /\ i = (L - 1) - n + 2 /\ i + 1 = L - n + 2
        BY <1>1
      <4> HIDE DEF i
      <4>1. i \in 1..(L - 1) /\ i = (L - 1) - n + 2 /\ i + 1 = L - n + 2
        BY <4>0
      <4>2. Tail(units)[i] = units[i + 1]
        BY <1>2, <4>1
      <4> QED BY <4>1, <4>2
    <3>4. Ending(Tail(units), n, f) = Ending(units, n, e)
      <4>1. CASE n = 1
        BY <1>1, <3>1, <3>2, <4>1 DEF Ending
      <4>2. CASE n > 1
        BY <1>1, <3>1, <3>2, <3>3, <4>2 DEF Ending
      <4> QED BY <2>3, <4>1, <4>2
    <3> QED BY <2>1, <3>4
  <2> QED BY <2>2, <2>3
<1>5. Nat \subseteq T
  BY <1>4, Induction
<1>6. \A n \in 0..(L - 1) : f[n] = e[n]
  <2> SUFFICES ASSUME NEW n \in 0..(L - 1) PROVE f[n] = e[n]
    OBVIOUS
  <2>1. n \in Nat /\ n <= L - 1 /\ n \in T
    BY <1>1, <1>5
  <2> QED BY <2>1 DEF T
<1>7. f[L - 1] = e[L - 1]
  <2>1. L - 1 \in 0..(L - 1)
    BY <1>1
  <2> QED BY <1>6, <2>1
<1> QED BY <1>1, <1>3, <1>6, <1>7

LEMMA StringFirst ==
  ASSUME NEW units \in Seq(TextUnits), units # <<>>
  PROVE  LET unit == units[1]
             pairs == Len(units) > 1 /\ units[2].escaped /\ units[2].code \in Low
         IN string(units) =
              CASE ~unit.escaped /\ unit.code < Space -> Refuse(0)
                [] unit.escaped /\ unit.code \in High ->
                     IF pairs THEN Prefixed(FromPair(unit.code, units[2].code), string(Tail(Tail(units)))) ELSE Refuse(0)
                [] unit.escaped /\ unit.code \in Low -> Refuse(0)
                [] OTHER -> Prefixed(unit.code, string(Tail(units)))
<1>1. PICK L \in Nat : L = Len(units) /\ L >= 1
  <2>1. Len(units) \in Nat /\ Len(units) >= 1
    BY EmptySeq
  <2> QED BY <2>1
<1>2. PICK e : Closings(units, L, e) /\ string(units) = e[L]
  BY <1>1, StringIsAnEnding
<1>3. PICK f : /\ Closings(Tail(units), L - 1, f) /\ string(Tail(units)) = e[L - 1]
               /\ \A n \in 0..(L - 1) : f[n] = e[n]
  BY <1>1, <1>2, EndingsOfTail
<1>4. e[L] = Ending(units, L, e)
  <2>1. L \in 0..L
    OBVIOUS
  <2> QED BY <1>2, <2>1 DEF Closings
<1>5. L > 1 => string(Tail(Tail(units))) = e[L - 2]
  <2> SUFFICES ASSUME L > 1 PROVE string(Tail(Tail(units))) = e[L - 2]
    OBVIOUS
  <2>1. Tail(units) \in Seq(TextUnits) /\ Tail(units) # <<>> /\ Len(Tail(units)) = L - 1
    <3>1. Tail(units) \in Seq(TextUnits) /\ Len(Tail(units)) = L - 1
      BY <1>1, HeadTailProperties
    <3> QED BY <1>1, <3>1
  <2>2. string(Tail(Tail(units))) = f[(L - 1) - 1]
    BY <1>3, <2>1, EndingsOfTail
  <2>3. L - 2 \in 0..(L - 1) /\ (L - 1) - 1 = L - 2
    BY <1>1
  <2> QED BY <1>3, <2>2, <2>3
<1>6. L - L + 1 = 1 /\ L - L + 2 = 2 /\ L # 0
  BY <1>1
<1> QED BY <1>1, <1>2, <1>3, <1>4, <1>5, <1>6 DEF Ending

(***************************************************************************)
(* Code units, from the first on.                                          *)
(***************************************************************************)
LEMMA Cancel ==
  ASSUME NEW a \in Nat, NEW b \in Nat, NEW p \in Seq(Nat), NEW q \in Seq(Nat), <<a>> \o p = <<b>> \o q
  PROVE  a = b /\ p = q
<1>1. /\ Head(<<a>> \o p) = a /\ Tail(<<a>> \o p) = p
      /\ Head(<<b>> \o q) = b /\ Tail(<<b>> \o q) = q
  OBVIOUS
<1> QED BY <1>1

LEMMA TwoInFront ==
  ASSUME NEW a \in Nat, NEW b \in Nat, NEW p \in Seq(Nat)
  PROVE  <<a, b>> \o p = <<a>> \o (<<b>> \o p) /\ <<b>> \o p \in Seq(Nat)
<1>1. <<a>> \in Seq(Nat) /\ <<b>> \in Seq(Nat)
  OBVIOUS
<1>2. <<a>> \o <<b>> = <<a, b>>
  <2>1. Len(<<a>>) = 1 /\ Len(<<b>>) = 1 /\ <<a>>[1] = a /\ <<b>>[1] = b
    OBVIOUS
  <2>2. /\ <<a>> \o <<b>> \in Seq(Nat) /\ Len(<<a>> \o <<b>>) = 1 + 1
        /\ \A i \in 1..(1 + 1) : (<<a>> \o <<b>>)[i] = IF i <= 1 THEN <<a>>[i] ELSE <<b>>[i - 1]
    <3>1. \A u, v \in Seq(Nat) : /\ u \o v \in Seq(Nat) /\ Len(u \o v) = Len(u) + Len(v)
                                 /\ \A i \in 1..(Len(u) + Len(v)) : (u \o v)[i] = IF i <= Len(u) THEN u[i] ELSE v[i - Len(u)]
      BY ConcatProperties
    <3> QED BY <1>1, <2>1, <3>1
  <2>3. PICK w : w = <<a>> \o <<b>>
    OBVIOUS
  <2>4. w \in Seq(Nat) /\ Len(w) = 2 /\ w[1] = a /\ w[2] = b
    BY <2>1, <2>2, <2>3
  <2>5. w = <<a, b>>
    BY <2>4
  <2> QED BY <2>3, <2>5
<1>3. \A u, v, w \in Seq(Nat) : (u \o v) \o w = u \o (v \o w)
  BY ConcatAssociative
<1>4. \A u, v \in Seq(Nat) : u \o v \in Seq(Nat)
  BY ConcatProperties
<1>5. (<<a>> \o <<b>>) \o p = <<a>> \o (<<b>> \o p)
  BY <1>1, <1>3
<1> QED BY <1>1, <1>2, <1>4, <1>5

LEMMA OneInFront == ASSUME NEW a \in Nat, NEW p \in Seq(Nat) PROVE <<a>> \o p # <<>>
  BY EmptySeq

\* The code units of a scalar.
LEMMA UnitsAre ==
  ASSUME NEW x \in Scalars
  PROVE  /\ UnitsOf(x) \in Seq(Nat) /\ x \in Nat /\ x \notin High /\ x \notin Low
         /\ x < Astral => UnitsOf(x) = <<x>>
         /\ x >= Astral => \E h \in High, l \in Low : UnitsOf(x) = <<h, l>> /\ FromPair(h, l) = x
<1>1. x \in Nat /\ x \notin High /\ x \notin Low
  BY CodeSpace DEF Scalars, Surrogates
<1>2. CASE x < Astral
  BY <1>1, <1>2, CodeSpace DEF UnitsOf
<1>3. CASE x >= Astral
  <2>1. PICK h \in High, l \in Low : UnitsOf(x) = <<h, l>> /\ FromPair(h, l) = x
    BY <1>3, PairOfScalar
  <2>2. h \in Nat /\ l \in Nat /\ ~(x < Astral)
    BY <1>1, <1>3, CodeSpace
  <2> QED BY <1>1, <2>1, <2>2
<1> QED BY <1>1, <1>2, <1>3, CodeSpace

\* What one unit spells.
Piece(u) == IF u.escaped THEN <<u.code>> ELSE UnitsOf(u.code)

LEMMA PieceIs ==
  ASSUME NEW u \in TextUnits
  PROVE  /\ u.escaped \in BOOLEAN /\ u.code \in Nat /\ Piece(u) \in Seq(Nat)
         /\ u.escaped => u.code < Astral /\ Piece(u) = <<u.code>>
         /\ ~u.escaped => u.code \in Scalars /\ Piece(u) = UnitsOf(u.code)
<1>1. u.escaped \in BOOLEAN /\ u.code \in Nat /\ (u.escaped => u.code < Astral) /\ (~u.escaped => u.code \in Scalars)
  BY DEF TextUnits
<1>2. CASE u.escaped
  <2>1. <<u.code>> \in Seq(Nat)
    BY <1>1
  <2> QED BY <1>1, <1>2, <2>1 DEF Piece
<1>3. CASE ~u.escaped
  BY <1>1, <1>3, UnitsAre DEF Piece
<1> QED BY <1>2, <1>3

LEMMA TailIs ==
  ASSUME NEW S, NEW s \in Seq(S), s # <<>>
  PROVE  Tail(s) = [i \in 1..(Len(s) - 1) |-> s[i + 1]]
<1>1. Tail(s) \in Seq(S) /\ Len(Tail(s)) = Len(s) - 1 /\ \A i \in 1..Len(Tail(s)) : Tail(s)[i] = s[i + 1]
  BY HeadTailProperties
<1>2. PICK t, n : t = Tail(s) /\ n = Len(s) - 1
  OBVIOUS
<1>3. t \in [1..n -> S] /\ \A i \in 1..n : t[i] = s[i + 1]
  BY <1>1, <1>2, LenProperties
<1>4. t = [i \in 1..n |-> s[i + 1]]
  BY <1>3
<1> QED BY <1>2, <1>4

LEMMA EncodedFirst ==
  ASSUME NEW s \in Seq(Scalars)
  PROVE  /\ Encoded(s) \in Seq(Nat)
         /\ s = <<>> => Encoded(s) = <<>>
         /\ s # <<>> => Encoded(s) = UnitsOf(s[1]) \o Encoded(Tail(s))
<1> DEFINE pieces == [i \in DOMAIN s |-> UnitsOf(s[i])]
<1>1. pieces \in Pieces /\ Len(pieces) = Len(s)
  <2>1. \A i \in 1..Len(s) : UnitsOf(s[i]) \in Seq(Nat)
    BY UnitsAre, ElementOfSeq
  <2>2. DOMAIN s = 1..Len(s) /\ Len(s) \in Nat
    OBVIOUS
  <2> QED BY <2>1, <2>2 DEF Pieces
<1>2. Encoded(s) = FlattenSeq(pieces)
  BY DEF Encoded
<1>3. s = <<>> => pieces = <<>>
  BY <1>1, EmptySeq DEF Pieces
<1>4. ASSUME s # <<>>
      PROVE  /\ pieces # <<>> /\ pieces[1] = UnitsOf(s[1])
             /\ Tail(pieces) = [i \in DOMAIN Tail(s) |-> UnitsOf(Tail(s)[i])]
  <2>1. Len(s) \in Nat /\ Len(s) >= 1 /\ DOMAIN s = 1..Len(s) /\ DOMAIN Tail(s) = 1..(Len(s) - 1)
    BY <1>4, EmptySeq, HeadTailProperties
  <2>2. pieces # <<>> /\ pieces[1] = UnitsOf(s[1])
    BY <1>1, <2>1
  <2>3. Tail(pieces) = [i \in 1..(Len(s) - 1) |-> pieces[i + 1]] /\ Tail(s) = [i \in 1..(Len(s) - 1) |-> s[i + 1]]
    BY <1>1, <1>4, <2>1, <2>2, TailIs DEF Pieces
  <2>4. \A i \in 1..(Len(s) - 1) : pieces[i + 1] = UnitsOf(s[i + 1])
    BY <2>1
  <2> QED BY <2>1, <2>2, <2>3, <2>4
<1> HIDE DEF pieces
<1>5. s # <<>> => FlattenSeq(Tail(pieces)) = Encoded(Tail(s))
  BY <1>4 DEF Encoded
<1> QED BY <1>1, <1>2, <1>3, <1>4, <1>5, FlattenFirst

LEMMA SpelledFirst ==
  ASSUME NEW units \in Seq(TextUnits)
  PROVE  /\ Spelled(units) \in Seq(Nat)
         /\ units = <<>> => Spelled(units) = <<>>
         /\ units # <<>> => Spelled(units) = Piece(units[1]) \o Spelled(Tail(units))
<1> DEFINE pieces == [i \in DOMAIN units |-> Piece(units[i])]
<1>1. pieces \in Pieces /\ Len(pieces) = Len(units)
  <2>1. \A i \in 1..Len(units) : Piece(units[i]) \in Seq(Nat)
    BY PieceIs, ElementOfSeq
  <2>2. DOMAIN units = 1..Len(units) /\ Len(units) \in Nat
    OBVIOUS
  <2> QED BY <2>1, <2>2 DEF Pieces
<1>2. Spelled(units) = FlattenSeq(pieces)
  BY DEF Spelled, Piece
<1>3. units = <<>> => pieces = <<>>
  BY <1>1, EmptySeq DEF Pieces
<1>4. ASSUME units # <<>>
      PROVE  /\ pieces # <<>> /\ pieces[1] = Piece(units[1])
             /\ Tail(pieces) = [i \in DOMAIN Tail(units) |-> Piece(Tail(units)[i])]
  <2>1. Len(units) \in Nat /\ Len(units) >= 1 /\ DOMAIN units = 1..Len(units) /\ DOMAIN Tail(units) = 1..(Len(units) - 1)
    BY <1>4, EmptySeq, HeadTailProperties
  <2>2. pieces # <<>> /\ pieces[1] = Piece(units[1])
    BY <1>1, <2>1
  <2>3. Tail(pieces) = [i \in 1..(Len(units) - 1) |-> pieces[i + 1]] /\ Tail(units) = [i \in 1..(Len(units) - 1) |-> units[i + 1]]
    BY <1>1, <1>4, <2>1, <2>2, TailIs DEF Pieces
  <2>4. \A i \in 1..(Len(units) - 1) : pieces[i + 1] = Piece(units[i + 1])
    BY <2>1
  <2> QED BY <2>1, <2>2, <2>3, <2>4
<1> HIDE DEF pieces
<1>5. units # <<>> => FlattenSeq(Tail(pieces)) = Spelled(Tail(units))
  BY <1>4 DEF Spelled, Piece
<1> QED BY <1>1, <1>2, <1>3, <1>4, <1>5, FlattenFirst

LEMMA Prepend ==
  ASSUME NEW S, NEW x \in S, NEW t \in Seq(S)
  PROVE  /\ <<x>> \o t \in Seq(S) /\ <<x>> \o t # <<>> /\ (<<x>> \o t)[1] = x
         /\ Tail(<<x>> \o t) = t /\ Len(<<x>> \o t) = Len(t) + 1
  OBVIOUS

LEMMA FirstAndRest ==
  ASSUME NEW S, NEW s \in Seq(S), s # <<>>
  PROVE  /\ s[1] \in S /\ Tail(s) \in Seq(S) /\ s = <<s[1]>> \o Tail(s)
         /\ Len(s) \in Nat /\ Len(s) >= 1 /\ Len(Tail(s)) = Len(s) - 1
         /\ \A i \in 1..Len(Tail(s)) : Tail(s)[i] = s[i + 1]
  OBVIOUS

\* No control character is written raw.
Plain(units) == \A i \in 1..Len(units) : units[i].escaped \/ ~(units[i].code < Space)

LEMMA PlainRest ==
  ASSUME NEW units \in Seq(TextUnits), units # <<>>
  PROVE  Plain(units) <=> (units[1].escaped \/ ~(units[1].code < Space)) /\ Plain(Tail(units))
<1>1. PICK L \in Nat : L = Len(units) /\ L >= 1 /\ Len(Tail(units)) = L - 1
  BY FirstAndRest
<1>2. \A i \in 1..(L - 1) : Tail(units)[i] = units[i + 1]
  BY <1>1, FirstAndRest
<1>3. ASSUME Plain(units) PROVE (units[1].escaped \/ ~(units[1].code < Space)) /\ Plain(Tail(units))
  <2>1. \A i \in 1..(L - 1) : i + 1 \in 1..L
    BY <1>1
  <2> QED BY <1>1, <1>2, <1>3, <2>1 DEF Plain
<1>4. ASSUME units[1].escaped \/ ~(units[1].code < Space), Plain(Tail(units)) PROVE Plain(units)
  <2> SUFFICES ASSUME NEW i \in 1..L PROVE units[i].escaped \/ ~(units[i].code < Space)
    BY <1>1 DEF Plain
  <2>1. CASE i = 1
    BY <1>4, <2>1
  <2>2. CASE i # 1
    <3>1. PICK j \in 1..(L - 1) : j + 1 = i
      <4>1. i - 1 \in 1..(L - 1) /\ (i - 1) + 1 = i
        BY <2>2
      <4> QED BY <4>1
    <3>2. Tail(units)[j] = units[i]
      BY <1>2, <3>1
    <3>3. Tail(units)[j].escaped \/ ~(Tail(units)[j].code < Space)
      BY <1>1, <1>4, <3>1 DEF Plain
    <3> QED BY <3>2, <3>3
  <2> QED BY <2>1, <2>2
<1> QED BY <1>3, <1>4

LEMMA PrefixedRecord ==
  ASSUME NEW x, NEW a, NEW b, NEW t
  PROVE  Prefixed(x, [ok |-> a, at |-> b, out |-> t]) = [ok |-> a, at |-> b, out |-> <<x>> \o t]
<1>1. PICK d : d = <<x>> \o t
  OBVIOUS
<1>2. [ok |-> a, at |-> b, out |-> t].out = t
  OBVIOUS
<1>3. [[ok |-> a, at |-> b, out |-> t] EXCEPT !.out = d] = [ok |-> a, at |-> b, out |-> d]
  OBVIOUS
<1>4. Prefixed(x, [ok |-> a, at |-> b, out |-> t]) =
        [[ok |-> a, at |-> b, out |-> t] EXCEPT !.out = <<x>> \o [ok |-> a, at |-> b, out |-> t].out]
  BY Zenon DEF Prefixed
<1> QED BY <1>1, <1>2, <1>3, <1>4, Zenon

LEMMA PrefixedYield ==
  ASSUME NEW x, NEW t
  PROVE  Prefixed(x, Yield(0, t)) = Yield(0, <<x>> \o t)
<1>1. \A a, b : Prefixed(x, [ok |-> a, at |-> b, out |-> t]) = [ok |-> a, at |-> b, out |-> <<x>> \o t]
  BY PrefixedRecord
<1> QED BY <1>1, Zenon DEF Yield

(***************************************************************************)
(* What is spelled is decoded.                                             *)
(***************************************************************************)
Codes == Seq(Nat)

Put(a, p) == <<a>> \o p

LEMMA PutIs ==
  /\ \A a \in Nat, p \in Codes : Put(a, p) \in Codes /\ Put(a, p) # <<>>
  /\ \A a, b \in Nat, p, q \in Codes : Put(a, p) = Put(b, q) => a = b /\ p = q
<1>1. \A a \in Nat, p \in Codes : Put(a, p) \in Codes /\ Put(a, p) # <<>>
  BY Prepend DEF Put, Codes
<1>2. \A a, b \in Nat, p, q \in Codes : Put(a, p) = Put(b, q) => a = b /\ p = q
  <2> SUFFICES ASSUME NEW a \in Nat, NEW b \in Nat, NEW p \in Codes, NEW q \in Codes, <<a>> \o p = <<b>> \o q
               PROVE  a = b /\ p = q
    BY DEF Put
  <2>1. p \in Seq(Nat) /\ q \in Seq(Nat)
    BY DEF Codes
  <2>2. /\ Head(<<a>> \o p) = a /\ Tail(<<a>> \o p) = p
        /\ Head(<<b>> \o q) = b /\ Tail(<<b>> \o q) = q
    BY <2>1
  <2> QED BY <2>2
<1> QED BY <1>1, <1>2

\* A scalar in front, as code units.
Leads(x, p, code) ==
  \/ x < Astral /\ code = Put(x, p)
  \/ x >= Astral /\ \E h \in High, l \in Low :
       UnitsOf(x) = <<h, l>> /\ FromPair(h, l) = x /\ code = Put(h, Put(l, p))

LEMMA ScalarLeads ==
  ASSUME NEW x \in Scalars, NEW p \in Codes
  PROVE  Leads(x, p, UnitsOf(x) \o p)
<1>1. CASE x < Astral
  BY <1>1, UnitsAre DEF Leads, Put
<1>2. CASE x >= Astral
  <2>1. PICK h \in High, l \in Low : UnitsOf(x) = <<h, l>> /\ FromPair(h, l) = x
    BY <1>2, UnitsAre
  <2>2. h \in Nat /\ l \in Nat
    BY CodeSpace
  <2>3. <<h, l>> \o p = <<h>> \o (<<l>> \o p)
    BY <2>2, TwoInFront DEF Codes
  <2> QED BY <1>2, <2>1, <2>3 DEF Leads, Put
<1>3. x \in Nat /\ Astral \in Nat
  BY UnitsAre, CodeSpace
<1> QED BY <1>1, <1>2, <1>3

LEMMA EncodedLeads ==
  ASSUME NEW s \in Seq(Scalars)
  PROVE  /\ Encoded(s) \in Codes
         /\ s = <<>> => Encoded(s) = <<>>
         /\ s # <<>> => Leads(s[1], Encoded(Tail(s)), Encoded(s))
<1>1. CASE s = <<>>
  BY <1>1, EncodedFirst DEF Codes
<1>2. CASE s # <<>>
  <2>1. s[1] \in Scalars /\ Tail(s) \in Seq(Scalars)
    BY <1>2, FirstAndRest
  <2>2. Encoded(s) = UnitsOf(s[1]) \o Encoded(Tail(s)) /\ Encoded(Tail(s)) \in Codes /\ Encoded(s) \in Codes
    BY <1>2, <2>1, EncodedFirst DEF Codes
  <2> QED BY <1>2, <2>1, <2>2, ScalarLeads
<1> QED BY <1>1, <1>2

LEMMA SpelledLeads ==
  ASSUME NEW units \in Seq(TextUnits)
  PROVE  /\ Spelled(units) \in Codes
         /\ units = <<>> => Spelled(units) = <<>>
         /\ units # <<>> /\ units[1].escaped => Spelled(units) = Put(units[1].code, Spelled(Tail(units)))
         /\ units # <<>> /\ ~units[1].escaped => Leads(units[1].code, Spelled(Tail(units)), Spelled(units))
<1>1. CASE units = <<>>
  BY <1>1, SpelledFirst DEF Codes
<1>2. CASE units # <<>>
  <2>1. units[1] \in TextUnits /\ Tail(units) \in Seq(TextUnits)
    BY <1>2, FirstAndRest
  <2>2. Spelled(units) = Piece(units[1]) \o Spelled(Tail(units)) /\ Spelled(Tail(units)) \in Codes /\ Spelled(units) \in Codes
    BY <1>2, <2>1, SpelledFirst DEF Codes
  <2>3. CASE units[1].escaped
    <3>1. Piece(units[1]) = <<units[1].code>>
      BY <2>1, <2>3, PieceIs
    <3> QED BY <1>2, <2>2, <2>3, <3>1 DEF Put
  <2>4. CASE ~units[1].escaped
    <3>1. Piece(units[1]) = UnitsOf(units[1].code) /\ units[1].code \in Scalars
      BY <2>1, <2>4, PieceIs
    <3> QED BY <1>2, <2>2, <2>4, <3>1, ScalarLeads
  <2> QED BY <2>3, <2>4
<1> QED BY <1>1, <1>2

LEMMA UnitsInText ==
  ASSUME NEW u \in TextUnits
  PROVE  /\ u.escaped \in BOOLEAN /\ u.code \in Nat /\ (u.escaped => u.code < Astral)
         /\ ~u.escaped => u.code \in Scalars /\ u.code \notin High /\ u.code \notin Low
  BY PieceIs, UnitsAre

LEMMA ScalarsAre ==
  /\ \A x \in Scalars : x \in Nat /\ x \notin High /\ x \notin Low
  /\ \A c \in High \union Low : c \in Nat /\ c < Astral /\ ~(c < Space)
  /\ \A c \in High : c \notin Low
  /\ \A n \in Nat : n >= Astral <=> ~(n < Astral)
<1>1. \A x \in Scalars : x \in Nat /\ x \notin High /\ x \notin Low
  BY UnitsAre
<1>2. \A c \in High \union Low : c \in Nat /\ c < Astral /\ ~(c < Space)
  BY CodeSpace DEF Surrogates
<1> QED BY <1>1, <1>2, CodeSpace

\* One step of the induction, when the first unit stands for a scalar.
LEMMA DecodeOne ==
  ASSUME NEW units \in Seq(TextUnits), units # <<>>, NEW s \in Seq(Scalars), s # <<>>,
         units[1].escaped \/ ~(units[1].code < Space), units[1].code = s[1],
         string(Tail(units)) = Yield(0, Tail(s))
  PROVE  string(units) = Yield(0, s)
<1>1. s[1] \in Scalars /\ s = <<s[1]>> \o Tail(s)
  BY FirstAndRest
<1>2. units[1].code \notin High /\ units[1].code \notin Low
  BY <1>1, ScalarsAre
<1>3. string(units) = Prefixed(units[1].code, string(Tail(units)))
  BY <1>2, StringFirst
<1> QED BY <1>1, <1>3, PrefixedYield

\* And when an escaped pair does.
LEMMA DecodeTwo ==
  ASSUME NEW units \in Seq(TextUnits), units # <<>>, NEW s \in Seq(Scalars), s # <<>>,
         Len(units) > 1, units[1].escaped, units[2].escaped,
         units[1].code \in High, units[2].code \in Low, FromPair(units[1].code, units[2].code) = s[1],
         string(Tail(Tail(units))) = Yield(0, Tail(s))
  PROVE  string(units) = Yield(0, s)
<1>1. s = <<s[1]>> \o Tail(s)
  BY FirstAndRest
<1>2. string(units) = Prefixed(s[1], string(Tail(Tail(units))))
  BY StringFirst, ScalarsAre
<1> QED BY <1>1, <1>2, PrefixedYield

\* The first scalar is the first unit, or the first two as a pair.
LEMMA FirstScalar ==
  ASSUME NEW units \in Seq(TextUnits), NEW s \in Seq(Scalars), Encoded(s) = Spelled(units)
  PROVE  \/ units = <<>> /\ s = <<>>
         \/ /\ units # <<>> /\ s # <<>> /\ units[1].code = s[1]
            /\ Encoded(Tail(s)) = Spelled(Tail(units))
         \/ /\ units # <<>> /\ s # <<>> /\ Tail(units) # <<>>
            /\ units[1].escaped /\ Tail(units)[1].escaped
            /\ units[1].code \in High /\ Tail(units)[1].code \in Low
            /\ FromPair(units[1].code, Tail(units)[1].code) = s[1]
            /\ Encoded(Tail(s)) = Spelled(Tail(Tail(units)))
<1>1. units # <<>> => units[1] \in TextUnits /\ Tail(units) \in Seq(TextUnits)
  BY FirstAndRest
<1>2. s # <<>> => s[1] \in Scalars /\ Tail(s) \in Seq(Scalars)
  BY FirstAndRest
<1>3. Spelled(units) \in Codes /\ (units = <<>> => Spelled(units) = <<>>) /\ (s = <<>> => Encoded(s) = <<>>)
  BY SpelledLeads, EncodedLeads
<1>4. \A code : \A x \in Nat, p \in Codes : Leads(x, p, code) => code # <<>>
  BY PutIs, ScalarsAre DEF Leads
<1>5. s # <<>> => s[1] \in Nat /\ Encoded(Tail(s)) \in Codes /\ Leads(s[1], Encoded(Tail(s)), Encoded(s))
  BY <1>2, EncodedLeads, ScalarsAre
<1>6. units # <<>> => units[1].code \in Nat /\ units[1].escaped \in BOOLEAN /\ Spelled(Tail(units)) \in Codes
  BY <1>1, SpelledLeads, UnitsInText
<1>7. units # <<>> /\ units[1].escaped => Spelled(units) = Put(units[1].code, Spelled(Tail(units)))
  BY SpelledLeads
<1>8. units # <<>> /\ ~units[1].escaped =>
        /\ Leads(units[1].code, Spelled(Tail(units)), Spelled(units))
        /\ units[1].code \notin High /\ units[1].code \notin Low
  BY <1>1, SpelledLeads, UnitsInText
<1>9. units # <<>> => Spelled(units) # <<>>
  BY <1>4, <1>6, <1>7, <1>8, PutIs
<1>10. s # <<>> => Encoded(s) # <<>>
  BY <1>4, <1>5
<1>11. CASE units = <<>> \/ s = <<>>
  BY <1>3, <1>9, <1>10, <1>11
<1>12. CASE units # <<>> /\ s # <<>>
  <2> DEFINE u == units[1]
             x == s[1]
             p == Encoded(Tail(s))
             q == Spelled(Tail(units))
             code == Spelled(units)
  <2>1. x \in Nat /\ x \notin High /\ x \notin Low /\ p \in Codes /\ Leads(x, p, code)
    BY <1>2, <1>5, <1>12, ScalarsAre
  <2>2. u.code \in Nat /\ u.escaped \in BOOLEAN /\ q \in Codes
    BY <1>6, <1>12
  <2>3. CASE u.escaped
    <3>1. code = Put(u.code, q)
      BY <1>7, <1>12, <2>3
    <3>2. CASE x < Astral
      <4>1. code = Put(x, p)
        BY <2>1, <3>2, ScalarsAre DEF Leads
      <4>2. x = u.code /\ p = q
        BY <2>1, <2>2, <3>1, <4>1, PutIs
      <4> QED BY <1>12, <4>2
    <3>3. CASE ~(x < Astral)
      <4>1. PICK h \in High, l \in Low : FromPair(h, l) = x /\ code = Put(h, Put(l, p))
        BY <2>1, <3>3 DEF Leads
      <4>2. h \in Nat /\ l \in Nat /\ Put(l, p) \in Codes
        BY <2>1, ScalarsAre, PutIs
      <4>3. u.code = h /\ q = Put(l, p)
        BY <2>2, <3>1, <4>1, <4>2, PutIs
      <4>4. Tail(units) # <<>> /\ Tail(units) \in Seq(TextUnits)
        BY <1>1, <1>12, <2>1, <4>2, <4>3, PutIs, SpelledLeads
      <4> DEFINE v == Tail(units)[1]
                 r == Spelled(Tail(Tail(units)))
      <4>5. v \in TextUnits /\ Tail(Tail(units)) \in Seq(TextUnits) /\ v.code \in Nat /\ r \in Codes
        BY <4>4, FirstAndRest, UnitsInText, SpelledLeads
      <4>6. CASE v.escaped
        <5>1. q = Put(v.code, r)
          BY <4>4, <4>6, SpelledLeads
        <5>2. Put(v.code, r) = Put(l, p)
          BY <4>3, <5>1
        <5>3. v.code = l /\ r = p
          BY <2>1, <4>2, <4>5, <5>2, PutIs
        <5> QED BY <1>12, <2>3, <4>1, <4>3, <4>4, <4>6, <5>3
      <4>7. CASE ~v.escaped
        <5>1. Leads(v.code, r, q) /\ v.code \notin Low
          BY <4>4, <4>5, <4>7, SpelledLeads, UnitsInText
        <5>2. CASE q = Put(v.code, r)
          <6>1. Put(v.code, r) = Put(l, p)
            BY <4>3, <5>2
          <6>2. v.code = l /\ r = p
            BY <2>1, <4>2, <4>5, <6>1, PutIs
          <6> QED BY <5>1, <6>2
        <5>3. CASE \E g \in High, m \in Low : q = Put(g, Put(m, r))
          <6>1. PICK g \in High, m \in Low : q = Put(g, Put(m, r))
            BY <5>3
          <6>2. g \in Nat /\ m \in Nat /\ Put(m, r) \in Codes
            BY <4>5, ScalarsAre, PutIs
          <6>3. g = l
            BY <2>1, <4>2, <4>3, <6>1, <6>2, PutIs
          <6> QED BY <6>3, ScalarsAre
        <5> QED BY <5>1, <5>2, <5>3 DEF Leads
      <4> QED BY <4>6, <4>7
    <3> QED BY <3>2, <3>3
  <2>4. CASE ~u.escaped
    <3>1. Leads(u.code, q, code) /\ u.code \notin High
      BY <1>8, <1>12, <2>4
    <3>2. CASE x < Astral
      <4>1. code = Put(x, p)
        BY <2>1, <3>2, ScalarsAre DEF Leads
      <4>2. CASE code = Put(u.code, q)
        <5>1. x = u.code /\ p = q
          BY <2>1, <2>2, <4>1, <4>2, PutIs
        <5> QED BY <1>12, <5>1
      <4>3. CASE \E g \in High, m \in Low : code = Put(g, Put(m, q))
        <5>1. PICK g \in High, m \in Low : code = Put(g, Put(m, q))
          BY <4>3
        <5>2. g \in Nat /\ m \in Nat /\ Put(m, q) \in Codes
          BY <2>2, ScalarsAre, PutIs
        <5>3. g = x
          BY <2>1, <4>1, <5>1, <5>2, PutIs
        <5> QED BY <2>1, <5>3
      <4> QED BY <3>1, <4>2, <4>3 DEF Leads
    <3>3. CASE ~(x < Astral)
      <4>1. PICK h \in High, l \in Low : FromPair(h, l) = x /\ code = Put(h, Put(l, p))
        BY <2>1, <3>3 DEF Leads
      <4>2. h \in Nat /\ l \in Nat /\ Put(l, p) \in Codes
        BY <2>1, ScalarsAre, PutIs
      <4>3. CASE code = Put(u.code, q)
        <5>1. u.code = h
          BY <2>2, <4>1, <4>2, <4>3, PutIs
        <5> QED BY <3>1, <5>1
      <4>4. CASE \E g \in High, m \in Low : FromPair(g, m) = u.code /\ code = Put(g, Put(m, q))
        <5>1. PICK g \in High, m \in Low : FromPair(g, m) = u.code /\ code = Put(g, Put(m, q))
          BY <4>4
        <5>2. g \in Nat /\ m \in Nat /\ Put(m, q) \in Codes
          BY <2>2, ScalarsAre, PutIs
        <5>3. g = h /\ Put(m, q) = Put(l, p)
          BY <4>1, <4>2, <5>1, <5>2, PutIs
        <5>4. m = l /\ q = p
          BY <2>1, <2>2, <4>2, <5>2, <5>3, PutIs
        <5>5. u.code = x
          BY <4>1, <5>1, <5>3, <5>4
        <5> QED BY <1>12, <5>4, <5>5
      <4> QED BY <3>1, <4>3, <4>4 DEF Leads
    <3> QED BY <3>2, <3>3
  <2> QED BY <2>2, <2>3, <2>4
<1> QED BY <1>11, <1>12

LEMMA SpelledIsDecoded ==
  ASSUME NEW units \in Seq(TextUnits), NEW s \in Seq(Scalars), Plain(units), Encoded(s) = Spelled(units)
  PROVE  string(units) = Yield(0, s)
<1> DEFINE T == {n \in Nat : \A us \in Seq(TextUnits), t \in Seq(Scalars) :
                   Len(us) = n /\ Plain(us) /\ Encoded(t) = Spelled(us) => string(us) = Yield(0, t)}
<1> HIDE DEF T
<1>1. ASSUME NEW n \in Nat, \A m \in 0..(n - 1) : m \in T PROVE n \in T
  <2> SUFFICES ASSUME NEW us \in Seq(TextUnits), NEW t \in Seq(Scalars),
                      Len(us) = n, Plain(us), Encoded(t) = Spelled(us)
               PROVE  string(us) = Yield(0, t)
    BY DEF T
  <2>1. CASE us = <<>> /\ t = <<>>
    BY <2>1, StringOfNothing
  <2>2. ASSUME us # <<>>, t # <<>>
        PROVE  /\ Tail(us) \in Seq(TextUnits) /\ Tail(t) \in Seq(Scalars) /\ n >= 1 /\ Len(Tail(us)) = n - 1
               /\ (us[1].escaped \/ ~(us[1].code < Space)) /\ Plain(Tail(us))
    BY <2>2, FirstAndRest, PlainRest
  <2>3. CASE us # <<>> /\ t # <<>> /\ us[1].code = t[1] /\ Encoded(Tail(t)) = Spelled(Tail(us))
    <3>1. n - 1 \in 0..(n - 1) /\ n - 1 \in T
      BY <1>1, <2>2, <2>3
    <3>2. string(Tail(us)) = Yield(0, Tail(t))
      BY <2>2, <2>3, <3>1 DEF T
    <3> QED BY <2>2, <2>3, <3>2, DecodeOne
  <2>4. CASE /\ us # <<>> /\ t # <<>> /\ Tail(us) # <<>>
             /\ us[1].escaped /\ Tail(us)[1].escaped
             /\ us[1].code \in High /\ Tail(us)[1].code \in Low
             /\ FromPair(us[1].code, Tail(us)[1].code) = t[1]
             /\ Encoded(Tail(t)) = Spelled(Tail(Tail(us)))
    <3>1. Tail(Tail(us)) \in Seq(TextUnits) /\ n - 1 >= 1 /\ Len(Tail(Tail(us))) = (n - 1) - 1 /\ Plain(Tail(Tail(us)))
      BY <2>2, <2>4, FirstAndRest, PlainRest
    <3>2. (n - 1) - 1 \in 0..(n - 1) /\ (n - 1) - 1 \in T
      BY <1>1, <3>1
    <3>3. string(Tail(Tail(us))) = Yield(0, Tail(t))
      BY <2>2, <2>4, <3>1, <3>2 DEF T
    <3>4. Tail(us)[1] = us[2]
      <4>1. 1 \in 1..Len(Tail(us)) /\ 1 + 1 = 2
        BY <2>2, <2>4, <3>1
      <4>2. \A i \in 1..Len(Tail(us)) : Tail(us)[i] = us[i + 1]
        BY <2>4, FirstAndRest
      <4> QED BY <4>1, <4>2
    <3>5. Len(us) > 1
      BY <3>1
    <3> QED BY <2>4, <3>3, <3>4, <3>5, DecodeTwo
  <2> QED BY <2>1, <2>3, <2>4, FirstScalar
<1>2. Nat \subseteq T
  BY <1>1, Induction
<1>3. Len(units) \in Nat
  OBVIOUS
<1> QED BY <1>2, <1>3 DEF T

(***************************************************************************)
(* What is decoded is spelled.                                             *)
(***************************************************************************)
CodesOf(units) == {units[i].code : i \in DOMAIN units}

ScalarsOf(units) ==
  (CodesOf(units) \ Surrogates)
    \union {FromPair(h, l) : h \in CodesOf(units) \intersect High, l \in CodesOf(units) \intersect Low}

LEMMA InScalarsOf ==
  ASSUME NEW units, NEW x
  PROVE  x \in ScalarsOf(units) <=>
           \/ x \in CodesOf(units) /\ x \notin Surrogates
           \/ \E h \in High, l \in Low : h \in CodesOf(units) /\ l \in CodesOf(units) /\ x = FromPair(h, l)
  BY DEF ScalarsOf

Reads(units, s) ==
  /\ s \in Seq(Scalars) /\ Plain(units) /\ Encoded(s) = Spelled(units)
  /\ Len(s) <= Len(units)
  /\ \A i \in 1..Len(s) : s[i] \in ScalarsOf(units)

LEMMA CodesOfRest ==
  ASSUME NEW units \in Seq(TextUnits), units # <<>>
  PROVE  /\ CodesOf(Tail(units)) \subseteq CodesOf(units) /\ units[1].code \in CodesOf(units)
         /\ ScalarsOf(Tail(units)) \subseteq ScalarsOf(units)
<1>1. PICK L \in Nat : L = Len(units) /\ L >= 1 /\ Len(Tail(units)) = L - 1
  BY FirstAndRest
<1>2. DOMAIN units = 1..L /\ DOMAIN Tail(units) = 1..(L - 1) /\ \A i \in 1..(L - 1) : Tail(units)[i] = units[i + 1]
  <2>1. Tail(units) \in Seq(TextUnits)
    BY FirstAndRest
  <2>2. DOMAIN units = 1..L /\ DOMAIN Tail(units) = 1..(L - 1)
    BY <1>1, <2>1, LenProperties
  <2> QED BY <1>1, <2>2, FirstAndRest
<1>3. \A i \in 1..(L - 1) : i + 1 \in 1..L
  BY <1>1
<1>4. 1 \in 1..L
  BY <1>1
<1>5. CodesOf(Tail(units)) \subseteq CodesOf(units)
  BY <1>2, <1>3 DEF CodesOf
<1>6. units[1].code \in CodesOf(units)
  BY <1>2, <1>4 DEF CodesOf
<1>7. ScalarsOf(Tail(units)) \subseteq ScalarsOf(units)
  BY <1>5, InScalarsOf
<1> QED BY <1>5, <1>6, <1>7

LEMMA ReadsMore ==
  ASSUME NEW units \in Seq(TextUnits), units # <<>>, NEW x \in Scalars, NEW t, NEW rest,
         Reads(rest, t), Plain(units), x \in ScalarsOf(units), ScalarsOf(rest) \subseteq ScalarsOf(units),
         Len(rest) < Len(units), Len(rest) \in Nat,
         UnitsOf(x) \o Encoded(t) = Spelled(units)
  PROVE  Reads(units, <<x>> \o t)
<1> DEFINE s == <<x>> \o t
<1>1. t \in Seq(Scalars) /\ Len(t) \in Nat /\ Len(t) <= Len(rest) /\ Len(units) \in Nat
  BY DEF Reads
<1>2. /\ s \in Seq(Scalars) /\ s # <<>> /\ s[1] = x /\ Tail(s) = t /\ Len(s) = Len(t) + 1
      /\ \A i \in 1..Len(Tail(s)) : Tail(s)[i] = s[i + 1]
  BY <1>1, Prepend, FirstAndRest
<1> HIDE DEF s
<1>3. Encoded(s) = Spelled(units)
  BY <1>2, EncodedFirst
<1>4. ASSUME NEW i \in 1..Len(s) PROVE s[i] \in ScalarsOf(units)
  <2>1. CASE i = 1
    BY <1>2, <2>1
  <2>2. CASE i # 1
    <3>1. PICK j \in 1..Len(t) : j + 1 = i
      <4>1. i - 1 \in 1..Len(t) /\ (i - 1) + 1 = i
        BY <1>1, <1>2, <2>2
      <4> QED BY <4>1
    <3>2. s[i] = t[j]
      BY <1>2, <3>1
    <3> QED BY <3>1, <3>2 DEF Reads
  <2> QED BY <2>1, <2>2
<1>5. Len(s) <= Len(units)
  BY <1>1, <1>2
<1>6. Reads(units, s)
  BY <1>2, <1>3, <1>4, <1>5 DEF Reads
<1> QED BY <1>6 DEF s

LEMMA CodeIsScalar == ASSUME NEW u \in TextUnits, u.code \notin Surrogates PROVE u.code \in Scalars
<1>1. u.code \in Nat /\ u.escaped \in BOOLEAN
  BY UnitsInText
<1>2. CASE u.escaped
  <2>1. u.code < Astral
    BY <1>2, UnitsInText
  <2>2. Width * Width >= 1
    <3>1. PICK w \in Nat : Width = w + 1
      <4>1. Width - 1 \in Nat /\ Width = (Width - 1) + 1
        BY CodeSpace
      <4> QED BY <4>1
    <3>2. Width * Width = w * w + 2 * w + 1 /\ w * w \in Nat
      BY <3>1
    <3> QED BY <3>1, <3>2
  <2> QED BY <1>1, <2>1, <2>2, CodeSpace DEF Scalars
<1>3. CASE ~u.escaped
  BY <1>3, UnitsInText
<1> QED BY <1>1, <1>2, <1>3

LEMMA ReadOne ==
  ASSUME NEW units \in Seq(TextUnits), units # <<>>, NEW t, Reads(Tail(units), t),
         units[1].escaped \/ ~(units[1].code < Space),
         units[1].escaped => units[1].code \notin High /\ units[1].code \notin Low
  PROVE  Reads(units, <<units[1].code>> \o t)
<1> DEFINE u == units[1]
<1>1. /\ u \in TextUnits /\ Tail(units) \in Seq(TextUnits) /\ Len(units) \in Nat
      /\ Len(Tail(units)) = Len(units) - 1 /\ Len(units) >= 1
  BY FirstAndRest
<1>2. u.code \in Scalars
  BY <1>1, CodeIsScalar, UnitsInText DEF Surrogates
<1>3. Piece(u) = UnitsOf(u.code)
  <2>1. CASE u.escaped
    BY <1>1, <1>2, <2>1, PieceIs, UnitsAre
  <2>2. CASE ~u.escaped
    BY <1>1, <2>2, PieceIs
  <2> QED BY <1>1, <2>1, <2>2, UnitsInText
<1>4. UnitsOf(u.code) \o Encoded(t) = Spelled(units)
  BY <1>3, SpelledFirst DEF Reads
<1>5. Plain(units)
  BY PlainRest DEF Reads
<1>6. u.code \in ScalarsOf(units) /\ ScalarsOf(Tail(units)) \subseteq ScalarsOf(units)
  <2>1. u.code \in CodesOf(units)
    BY CodesOfRest
  <2>2. u.code \notin Surrogates
    BY <1>2 DEF Scalars
  <2> QED BY <2>1, <2>2, CodesOfRest, InScalarsOf
<1>7. Len(Tail(units)) < Len(units) /\ Len(Tail(units)) \in Nat
  BY <1>1
<1> QED BY <1>2, <1>4, <1>5, <1>6, <1>7, ReadsMore

LEMMA ReadTwo ==
  ASSUME NEW units \in Seq(TextUnits), units # <<>>, Tail(units) # <<>>,
         NEW t, Reads(Tail(Tail(units)), t),
         units[1].escaped, Tail(units)[1].escaped, units[1].code \in High, Tail(units)[1].code \in Low
  PROVE  Reads(units, <<FromPair(units[1].code, Tail(units)[1].code)>> \o t)
<1> DEFINE h == units[1].code
           l == Tail(units)[1].code
           x == FromPair(h, l)
           rest == Tail(Tail(units))
<1>1. /\ units[1] \in TextUnits /\ Tail(units) \in Seq(TextUnits) /\ Len(units) \in Nat /\ Len(Tail(units)) = Len(units) - 1
      /\ Tail(units)[1] \in TextUnits /\ rest \in Seq(TextUnits) /\ Len(rest) = Len(Tail(units)) - 1
      /\ Len(rest) \in Nat
  BY FirstAndRest
<1>2. x \in Scalars /\ UnitsOf(x) = <<h, l>> /\ h \in Nat /\ l \in Nat
  BY ScalarOfPair, ScalarsAre
<1>3. UnitsOf(x) \o Encoded(t) = Spelled(units)
  <2>1. Spelled(units) = Put(h, Spelled(Tail(units))) /\ Spelled(Tail(units)) = Put(l, Spelled(rest)) /\ Spelled(rest) \in Codes
    BY <1>1, SpelledLeads
  <2>2. Encoded(t) = Spelled(rest)
    BY DEF Reads
  <2>3. <<h, l>> \o Spelled(rest) = Put(h, Put(l, Spelled(rest)))
    BY <1>2, <2>1, TwoInFront DEF Put, Codes
  <2> QED BY <1>2, <2>1, <2>2, <2>3
<1>4. Plain(units)
  BY <1>1, PlainRest DEF Reads
<1>5. x \in ScalarsOf(units)
  <2>1. h \in CodesOf(units)
    BY <1>1, CodesOfRest
  <2>2. l \in CodesOf(units)
    <3>1. l \in CodesOf(Tail(units)) /\ CodesOf(Tail(units)) \subseteq CodesOf(units)
      BY <1>1, CodesOfRest
    <3> QED BY <3>1
  <2> QED BY <2>1, <2>2, InScalarsOf
<1>6. ScalarsOf(rest) \subseteq ScalarsOf(units)
  BY <1>1, CodesOfRest
<1>7. Len(rest) < Len(units)
  BY <1>1
<1> QED BY <1>1, <1>2, <1>3, <1>4, <1>5, <1>6, <1>7, ReadsMore

LEMMA DecodedIsSpelled ==
  ASSUME NEW units \in Seq(TextUnits)
  PROVE  \/ \E o : string(units) = [ok |-> FALSE, at |-> 0, out |-> o]
         \/ \E s : string(units) = Yield(0, s) /\ Reads(units, s)
<1> DEFINE Read(us) == \/ \E o : string(us) = [ok |-> FALSE, at |-> 0, out |-> o]
                       \/ \E s : string(us) = Yield(0, s) /\ Reads(us, s)
           T == {n \in Nat : \A us \in Seq(TextUnits) : Len(us) = n => Read(us)}
<1> HIDE DEF T
<1>1. ASSUME NEW n \in Nat, \A m \in 0..(n - 1) : m \in T PROVE n \in T
  <2> SUFFICES ASSUME NEW us \in Seq(TextUnits), Len(us) = n PROVE Read(us)
    BY DEF T
  <2>1. CASE us = <<>>
    <3>1. Reads(us, <<>>)
      <4>1. <<>> \in Seq(Scalars) /\ Len(<<>>) = 0
        BY EmptySeq
      <4>2. Plain(us)
        BY <2>1 DEF Plain
      <4>3. Encoded(<<>>) = <<>> /\ Spelled(us) = <<>>
        BY <2>1, <4>1, EncodedFirst, SpelledFirst
      <4> QED BY <2>1, <4>1, <4>2, <4>3 DEF Reads
    <3> QED BY <2>1, <3>1, StringOfNothing
  <2>2. CASE us # <<>>
    <3> DEFINE u == us[1]
    <3>1. /\ u \in TextUnits /\ Tail(us) \in Seq(TextUnits) /\ n >= 1 /\ Len(Tail(us)) = n - 1
      BY <2>2, FirstAndRest
    <3>2. CASE string(us) = Refuse(0)
      BY <3>2 DEF Refuse
    <3>3. CASE ~(~u.escaped /\ u.code < Space) /\ (u.escaped => u.code \notin High /\ u.code \notin Low)
      <4>1. string(us) = Prefixed(u.code, string(Tail(us)))
        BY <2>2, <3>3, StringFirst
      <4>2. Read(Tail(us))
        <5>1. n - 1 \in 0..(n - 1) /\ n - 1 \in T
          BY <1>1, <3>1
        <5> QED BY <3>1, <5>1 DEF T
      <4>3. ASSUME NEW o, string(Tail(us)) = [ok |-> FALSE, at |-> 0, out |-> o] PROVE Read(us)
        <5>1. \A a, b : Prefixed(u.code, [ok |-> a, at |-> b, out |-> o]) = [ok |-> a, at |-> b, out |-> <<u.code>> \o o]
          BY PrefixedRecord
        <5>2. string(us) = [ok |-> FALSE, at |-> 0, out |-> <<u.code>> \o o]
          BY <4>1, <4>3, <5>1, Zenon
        <5> QED BY <5>2
      <4>4. ASSUME NEW s, string(Tail(us)) = Yield(0, s), Reads(Tail(us), s) PROVE Read(us)
        <5>1. string(us) = Yield(0, <<u.code>> \o s)
          BY <4>1, <4>4, PrefixedYield
        <5>2. Reads(us, <<u.code>> \o s)
          BY <2>2, <3>3, <4>4, ReadOne
        <5> QED BY <5>1, <5>2
      <4> QED BY <4>2, <4>3, <4>4
    <3>4. CASE u.escaped /\ u.code \in High /\ Len(us) > 1 /\ us[2].escaped /\ us[2].code \in Low
      <4> DEFINE x == FromPair(u.code, us[2].code)
                 rest == Tail(Tail(us))
      <4>1. string(us) = Prefixed(x, string(rest))
        BY <2>2, <3>4, StringFirst, ScalarsAre
      <4>2. Len(Tail(us)) \in Nat /\ n - 1 >= 1 /\ Tail(us) # <<>> /\ Tail(us)[1] = us[2]
        <5>1. n - 1 >= 1 /\ n - 1 \in Nat
          BY <3>1, <3>4
        <5>2. Tail(us) # <<>>
          BY <3>1, <5>1, EmptySeq
        <5>3. \A i \in 1..Len(Tail(us)) : Tail(us)[i] = us[i + 1]
          BY <2>2, FirstAndRest
        <5>4. 1 \in 1..Len(Tail(us)) /\ 1 + 1 = 2
          BY <3>1, <5>1
        <5> QED BY <3>1, <5>1, <5>2, <5>3, <5>4
      <4>3. rest \in Seq(TextUnits) /\ Len(rest) = (n - 1) - 1
        BY <3>1, <4>2, FirstAndRest
      <4>4. Read(rest)
        <5>1. (n - 1) - 1 \in 0..(n - 1) /\ (n - 1) - 1 \in T
          BY <1>1, <4>2
        <5> QED BY <4>3, <5>1 DEF T
      <4>5. ASSUME NEW o, string(rest) = [ok |-> FALSE, at |-> 0, out |-> o] PROVE Read(us)
        <5>1. \A a, b : Prefixed(x, [ok |-> a, at |-> b, out |-> o]) = [ok |-> a, at |-> b, out |-> <<x>> \o o]
          BY PrefixedRecord
        <5>2. string(us) = [ok |-> FALSE, at |-> 0, out |-> <<x>> \o o]
          BY <4>1, <4>5, <5>1, Zenon
        <5> QED BY <5>2
      <4>6. ASSUME NEW s, string(rest) = Yield(0, s), Reads(rest, s) PROVE Read(us)
        <5>1. string(us) = Yield(0, <<x>> \o s)
          BY <4>1, <4>6, PrefixedYield
        <5>2. Reads(us, <<x>> \o s)
          BY <2>2, <3>4, <4>2, <4>6, ReadTwo
        <5> QED BY <5>1, <5>2
      <4> QED BY <4>4, <4>5, <4>6
    <3>5. string(us) = Refuse(0) \/ (~(~u.escaped /\ u.code < Space) /\ (u.escaped => u.code \notin High /\ u.code \notin Low))
          \/ (u.escaped /\ u.code \in High /\ Len(us) > 1 /\ us[2].escaped /\ us[2].code \in Low)
      BY <2>2, StringFirst, ScalarsAre
    <3> QED BY <3>2, <3>3, <3>4, <3>5
  <2> QED BY <2>1, <2>2
<1>2. Nat \subseteq T
  BY <1>1, Induction
<1>3. Len(units) \in Nat
  OBVIOUS
<1> QED BY <1>2, <1>3 DEF T

(***************************************************************************)
(* The decoder accepts the units of a string exactly if they spell the     *)
(* UTF-16 encoding of some scalars without a raw control character; there  *)
(* is one such string then, and the decoder yields it.                     *)
(***************************************************************************)
THEOREM StringsAreDecoded ==
  ASSUME NEW units \in Seq(TextUnits)
  PROVE  Strings(units) = IF string(units).ok THEN {string(units).out} ELSE {}
<1> DEFINE candidates == UNION {[1..n -> ScalarsOf(units)] : n \in 0..Len(units)}
<1>1. Len(units) \in Nat /\ DOMAIN units = 1..Len(units)
  OBVIOUS
<1>2. Strings(units) = IF Plain(units) THEN {s \in candidates : Encoded(s) = Spelled(units)} ELSE {}
  BY <1>1 DEF Strings, Plain, ScalarsOf, CodesOf
<1> HIDE DEF candidates
<1>3. candidates \subseteq Seq(Scalars)
  <2>1. \A i \in 1..Len(units) : units[i] \in TextUnits
    BY ElementOfSeq
  <2>2. ScalarsOf(units) \subseteq Scalars
    <3> SUFFICES ASSUME NEW x \in ScalarsOf(units) PROVE x \in Scalars
      OBVIOUS
    <3>1. CASE \E h \in High, l \in Low : x = FromPair(h, l)
      BY <3>1, ScalarOfPair
    <3>2. CASE \E i \in 1..Len(units) : x = units[i].code /\ x \notin Surrogates
      <4>1. PICK i \in 1..Len(units) : x = units[i].code /\ x \notin Surrogates
        BY <3>2
      <4> QED BY <2>1, <4>1, CodeIsScalar
    <3> QED BY <1>1, <3>1, <3>2, InScalarsOf DEF CodesOf
  <2>3. \A n \in 0..Len(units) : [1..n -> ScalarsOf(units)] \subseteq Seq(Scalars)
    BY <1>1, <2>2, SeqDef
  <2> QED BY <2>3 DEF candidates
<1>4. ASSUME NEW o, string(units) = [ok |-> FALSE, at |-> 0, out |-> o]
      PROVE  ~string(units).ok /\ Strings(units) = {}
  <2>1. ~string(units).ok
    BY <1>4
  <2>2. ASSUME NEW s \in Strings(units) PROVE FALSE
    <3>1. s \in Seq(Scalars) /\ Plain(units) /\ Encoded(s) = Spelled(units)
      BY <1>2, <1>3
    <3>2. string(units) = Yield(0, s)
      BY <3>1, SpelledIsDecoded
    <3> QED BY <2>1, <3>2 DEF Yield
  <2> QED BY <2>1, <2>2
<1>5. ASSUME NEW s, string(units) = Yield(0, s), Reads(units, s)
      PROVE  string(units).ok /\ string(units).out = s /\ Strings(units) = {s}
  <2>1. string(units).ok /\ string(units).out = s
    BY <1>5 DEF Yield
  <2>2. s \in candidates
    <3>1. s \in Seq(Scalars) /\ Len(s) \in 0..Len(units) /\ s = [i \in 1..Len(s) |-> s[i]]
      BY <1>1, <1>5 DEF Reads
    <3>2. s \in [1..Len(s) -> ScalarsOf(units)]
      BY <1>5, <3>1 DEF Reads
    <3> QED BY <3>1, <3>2 DEF candidates
  <2>3. s \in Strings(units)
    BY <1>2, <1>5, <2>2 DEF Reads
  <2>4. ASSUME NEW t \in Strings(units) PROVE t = s
    <3>1. t \in Seq(Scalars) /\ Plain(units) /\ Encoded(t) = Spelled(units)
      BY <1>2, <1>3
    <3>2. string(units) = Yield(0, t)
      BY <3>1, SpelledIsDecoded
    <3>3. string(units).out = t
      BY <3>2 DEF Yield
    <3> QED BY <2>1, <3>3
  <2> QED BY <2>1, <2>3, <2>4
<1> QED BY <1>4, <1>5, DecodedIsSpelled

(***************************************************************************)
(* What the codec writes for a string is read back as that string.         *)
(***************************************************************************)
THEOREM SpellingsAreRead ==
  ASSUME NEW s \in Seq(Scalars)
  PROVE  Spell(s) \in Seq(TextUnits) /\ string(Spell(s)) = Yield(0, s)
<1> DEFINE spelled(x) == [escaped |-> x < Space, code |-> x]
<1>1. \A x \in Scalars : spelled(x) \in TextUnits /\ Piece(spelled(x)) = UnitsOf(x) /\ (spelled(x).escaped \/ ~(spelled(x).code < Space))
  <2> SUFFICES ASSUME NEW x \in Scalars
               PROVE  spelled(x) \in TextUnits /\ Piece(spelled(x)) = UnitsOf(x) /\ (spelled(x).escaped \/ ~(spelled(x).code < Space))
    OBVIOUS
  <2>1. x \in Nat /\ (x < Space => x < Astral)
    BY ScalarsAre, CodeSpace, ScalarAssumption
  <2>2. spelled(x).code = x /\ spelled(x).escaped = (x < Space)
    OBVIOUS
  <2>3. spelled(x) \in [escaped : BOOLEAN, code : Nat]
    BY <2>1
  <2> HIDE DEF spelled
  <2>4. spelled(x) \in TextUnits
    BY <2>1, <2>2, <2>3 DEF TextUnits
  <2>5. Piece(spelled(x)) = UnitsOf(x)
    BY <2>1, <2>2, UnitsAre DEF Piece
  <2> QED BY <2>2, <2>4, <2>5
<1>2. DOMAIN s = 1..Len(s) /\ Len(s) \in Nat /\ \A i \in 1..Len(s) : s[i] \in Scalars
  BY ElementOfSeq
<1>3. Spell(s) = [i \in 1..Len(s) |-> spelled(s[i])]
  BY <1>2 DEF Spell
<1> HIDE DEF spelled
<1>4. Spell(s) \in Seq(TextUnits) /\ Len(Spell(s)) = Len(s) /\ DOMAIN Spell(s) = 1..Len(s)
  BY <1>1, <1>2, <1>3, SeqDef
<1>5. Plain(Spell(s))
  BY <1>1, <1>2, <1>3, <1>4 DEF Plain
<1>6. Encoded(s) = Spelled(Spell(s))
  <2>1. \A i \in 1..Len(s) : Piece(Spell(s)[i]) = UnitsOf(s[i])
    BY <1>1, <1>2, <1>3
  <2>2. Spelled(Spell(s)) = FlattenSeq([i \in DOMAIN Spell(s) |-> Piece(Spell(s)[i])])
    BY DEF Spelled, Piece
  <2>3. [i \in DOMAIN Spell(s) |-> Piece(Spell(s)[i])] = [i \in DOMAIN s |-> UnitsOf(s[i])]
    BY <1>2, <1>4, <2>1
  <2> QED BY <2>2, <2>3 DEF Encoded
<1> QED BY <1>4, <1>5, <1>6, SpelledIsDecoded

(***************************************************************************)
(* Texts.                                                                  *)
(***************************************************************************)
Texts == Seq(Token)

\* Named, since the SMT backend cannot read them.
Comma == ","
Curly == "}"
Enders == {"]", Curly}

LEMMA MarksDiffer ==
  /\ Curly \in Enders /\ "]" \in Enders /\ Curly # "]"
  /\ \A close \in Enders : close # "ws" /\ close # "end" /\ close # Comma
  /\ Comma # "ws" /\ Comma # "end"
  BY DEF Enders, Curly, Comma

LEMMA TokensAre ==
  ASSUME NEW token \in Token
  PROVE  /\ token[1] \in Punctuation \cup {"lit", "num", "str"}
         /\ token[1] \in Punctuation => token = Mark(token[1])
         /\ token[1] = "lit" => token \in {"lit"} \X Literals
         /\ token[1] = "num" => token[2] \in Seq(Int) /\ token = <<"num", token[2]>>
         /\ token[1] = "str" => token[2] \in Seq(TextUnits) /\ token = <<"str", token[2]>>
<1>1. CASE \E p \in Punctuation : token = Mark(p)
  <2>1. PICK p \in Punctuation : token = <<p>>
    BY <1>1 DEF Mark
  <2>2. token[1] = p /\ p \notin {"lit", "num", "str"}
    BY <2>1 DEF Punctuation
  <2> QED BY <2>1, <2>2 DEF Mark
<1>2. CASE token \in {"lit"} \X Literals
  BY <1>2 DEF Punctuation
<1>3. CASE token \in {"num"} \X Seq(Int)
  <2>1. PICK n \in Seq(Int) : token = <<"num", n>>
    BY <1>3
  <2>2. token[1] = "num" /\ token[2] = n /\ "num" \notin Punctuation
    BY <2>1 DEF Punctuation
  <2> QED BY <2>1, <2>2
<1>4. CASE token \in {"str"} \X Seq(TextUnits)
  <2>1. PICK u \in Seq(TextUnits) : token = <<"str", u>>
    BY <1>4
  <2>2. token[1] = "str" /\ token[2] = u /\ "str" \notin Punctuation
    BY <2>1 DEF Punctuation
  <2> QED BY <2>1, <2>2
<1> QED BY <1>1, <1>2, <1>3, <1>4 DEF Token

LEMMA KindsAre ==
  ASSUME NEW t \in Texts
  PROVE  /\ Len(t) \in Nat /\ DOMAIN t = 1..Len(t)
         /\ Positions(t) = 1..(Len(t) + 1)
         /\ \A i \in 1..Len(t) : t[i] \in Token /\ Kind(t, i) = t[i][1] /\ Kind(t, i) # "end"
         /\ Kind(t, Len(t) + 1) = "end"
<1>1. Len(t) \in Nat /\ DOMAIN t = 1..Len(t) /\ \A i \in 1..Len(t) : t[i] \in Token
  BY ElementOfSeq DEF Texts
<1>2. \A i \in 1..Len(t) : t[i][1] # "end"
  <2> TAKE i \in 1..Len(t)
  <2>1. t[i][1] \in Punctuation \cup {"lit", "num", "str"}
    BY <1>1, TokensAre
  <2> QED BY <2>1 DEF Punctuation
<1> QED BY <1>1, <1>2 DEF Kind, Positions

\* Places behind a place.
LEMMA Later ==
  ASSUME NEW t \in Texts, NEW p \in Positions(t), NEW j \in p..(Len(t) + 1)
  PROVE  /\ j \in Positions(t) /\ j \in Int /\ p \in Int /\ 1 <= p /\ p <= j /\ Len(t) \in Nat
         /\ Kind(t, j) # "end" => /\ j \in 1..Len(t) /\ j \in p..Len(t) /\ t[j] \in Token /\ t[j][1] = Kind(t, j)
                                 /\ j + 1 \in Positions(t) /\ j + 1 \in Int
<1>1. Len(t) \in Nat /\ p \in 1..(Len(t) + 1) /\ Kind(t, Len(t) + 1) = "end"
      /\ \A i \in 1..Len(t) : t[i] \in Token /\ Kind(t, i) = t[i][1]
  BY KindsAre
<1>2. j \in 1..(Len(t) + 1) /\ j \in Int /\ p \in Int /\ 1 <= p /\ p <= j
  BY <1>1
<1>3. ASSUME Kind(t, j) # "end" PROVE j \in 1..Len(t) /\ j \in p..Len(t) /\ j + 1 \in 1..(Len(t) + 1) /\ j + 1 \in Int
  <2>1. j # Len(t) + 1
    BY <1>1, <1>3
  <2> QED BY <1>1, <1>2, <2>1
<1> QED BY <1>1, <1>2, <1>3 DEF Positions

LEMMA After ==
  ASSUME NEW t \in Texts, NEW p \in Positions(t), NEW j \in (p + 1)..(Len(t) + 1)
  PROVE  /\ j \in Positions(t) /\ j \in p..(Len(t) + 1) /\ p < j /\ p \in Int /\ j \in Int /\ 1 <= p /\ Len(t) \in Nat
         /\ Kind(t, j) # "end" => j \in (p + 1)..Len(t)
<1>1. p \in 1..(Len(t) + 1) /\ Len(t) \in Nat
  BY KindsAre
<1>2. j \in p..(Len(t) + 1) /\ p < j /\ p \in Int /\ j \in Int /\ 1 <= p
  BY <1>1
<1>3. j \in Positions(t) /\ (Kind(t, j) # "end" => j \in p..Len(t))
  BY <1>2, Later
<1> QED BY <1>1, <1>2, <1>3

LEMMA Further ==
  ASSUME NEW t \in Texts, NEW p \in Positions(t), NEW q \in p..(Len(t) + 1), NEW c \in (q + 1)..(Len(t) + 1),
         Kind(t, c) # "end", NEW r, r = c + 1
  PROVE  /\ r \in Positions(t) /\ p < r
         /\ \A j \in (r + 1)..(Len(t) + 1) : j \in Positions(t) /\ j \in (p + 1)..(Len(t) + 1)
<1>1. p \in 1..(Len(t) + 1) /\ Len(t) \in Nat /\ Kind(t, Len(t) + 1) = "end"
  BY KindsAre
<1>2. c # Len(t) + 1
  BY <1>1
<1>3. r \in 1..(Len(t) + 1) /\ p < r
  BY <1>1, <1>2
<1>4. \A j \in (r + 1)..(Len(t) + 1) : j \in 1..(Len(t) + 1) /\ j \in (p + 1)..(Len(t) + 1)
  BY <1>1, <1>3
<1> QED BY <1>3, <1>4 DEF Positions

LEMMA SameRange == ASSUME NEW a \in Nat, NEW b \in Nat, 1..a = 1..b PROVE a = b
<1>1. a >= 1 => a \in 1..b
  OBVIOUS
<1>2. b >= 1 => b \in 1..a
  OBVIOUS
<1> QED BY <1>1, <1>2

\* The place white space ends at is there, and there is one.
LEMMA WhitespaceEnds ==
  ASSUME NEW t \in Texts, NEW i \in Positions(t)
  PROVE  /\ whitespace(t, i) \in i..(Len(t) + 1) /\ whitespace(t, i) \in Positions(t)
         /\ Kind(t, whitespace(t, i)) # "ws" /\ Blank(t, i, whitespace(t, i))
<1>1. Len(t) \in Nat /\ i \in 1..(Len(t) + 1) /\ \A k \in 1..Len(t) : Kind(t, k) = t[k][1]
  BY KindsAre
<1> DEFINE Ending0(j) == Kind(t, j) # "ws" /\ \A k \in i..(j - 1) : Kind(t, k) = "ws"
           T == {n \in Nat : n \in i..(Len(t) + 1) /\ Kind(t, n) # "ws" => \E j \in i..(Len(t) + 1) : Ending0(j)}
<1>2. ASSUME NEW n \in Nat, \A m \in 0..(n - 1) : m \in T PROVE n \in T
  <2> SUFFICES ASSUME n \in i..(Len(t) + 1), Kind(t, n) # "ws" PROVE \E j \in i..(Len(t) + 1) : Ending0(j)
    OBVIOUS
  <2>1. CASE \A k \in i..(n - 1) : Kind(t, k) = "ws"
    BY <2>1
  <2>2. CASE \E k \in i..(n - 1) : Kind(t, k) # "ws"
    <3>1. PICK k \in i..(n - 1) : Kind(t, k) # "ws"
      BY <2>2
    <3>2. k \in 0..(n - 1) /\ k \in i..(Len(t) + 1)
      BY <1>1, <3>1
    <3> QED BY <1>2, <3>1, <3>2
  <2> QED BY <2>1, <2>2
<1> HIDE DEF T
<1>3. Nat \subseteq T
  BY <1>2, Induction
<1>4. Kind(t, Len(t) + 1) # "ws" /\ Len(t) + 1 \in i..(Len(t) + 1) /\ Len(t) + 1 \in Nat
  BY <1>1, KindsAre
<1>5. \E j \in i..(Len(t) + 1) : Ending0(j)
  BY <1>3, <1>4 DEF T
<1>6. whitespace(t, i) \in i..(Len(t) + 1) /\ Ending0(whitespace(t, i))
  BY <1>5 DEF whitespace
<1>7. Blank(t, i, whitespace(t, i))
  BY <1>1, <1>6 DEF Blank
<1> QED BY <1>1, <1>6, <1>7 DEF Positions

LEMMA WhitespaceIs ==
  ASSUME NEW t \in Texts, NEW i \in Positions(t), NEW j \in i..(Len(t) + 1), Kind(t, j) # "ws", Blank(t, i, j)
  PROVE  whitespace(t, i) = j
<1>1. Len(t) \in Nat /\ i \in 1..(Len(t) + 1) /\ \A k \in 1..Len(t) : Kind(t, k) = t[k][1]
  BY KindsAre
<1>2. PICK w : w = whitespace(t, i)
  OBVIOUS
<1>3. w \in i..(Len(t) + 1) /\ Kind(t, w) # "ws" /\ Blank(t, i, w)
  BY <1>2, WhitespaceEnds
<1>4. ~(w < j) /\ ~(j < w)
  BY <1>1, <1>3 DEF Blank
<1> QED BY <1>1, <1>2, <1>3, <1>4

(***************************************************************************)
(* The recursive functions of the codec and of the meanings.  Each looks   *)
(* one step back; what they do in a step is put into one operator, so that *)
(* it is shown only once that such functions are there.                    *)
(***************************************************************************)
Below(f, n) == IF n = 0 THEN <<>> ELSE f[n - 1]

LevelStep(t, room, inner) ==
  [span \in Spans(t) |->
     UNION {IF p[2] = p[1] + 1 THEN Simple(t[p[1]])
            ELSE IF room = 0 THEN {}
            ELSE Enclosed(t, inner, p[1], p[2]) : p \in Bare(t, span[1], span[2])}]

Stage(what, a, b, c, d, n, before) ==
  CASE what = "joined" -> IF n = 0 THEN <<>> ELSE IF n = 1 THEN a[1] ELSE before \o <<Mark(",")>> \o a[n]
    [] what = "loop" -> IF n = 0 THEN Goes(d, <<>>) ELSE Turn(a, b, c, before)
    [] what = "values" -> [start \in 1..(Len(a) + 1) |-> value(a, before, n, start)]
    [] what = "levels" -> LevelStep(a, n, before)
    [] what = "spellings" -> [m \in Data(DOMAIN before) |-> Spelled1(m, before)]
    [] OTHER -> <<>>

Stages(what, a, b, c, d, N, f) == f = [n \in 0..N |-> Stage(what, a, b, c, d, n, Below(f, n))]

LEMMA StagesExist ==
  ASSUME NEW what, NEW a, NEW b, NEW c, NEW d, NEW N \in Nat
  PROVE  \E f : Stages(what, a, b, c, d, N, f)
<1> DEFINE S(n, f) == Stage(what, a, b, c, d, n, Below(f, n))
           T == {n \in Nat : \E f : f = [m \in 0..n |-> S(m, f)]}
<1>1. \A n \in Nat : \A f, g : (n # 0 => f[n - 1] = g[n - 1]) => S(n, f) = S(n, g)
  BY DEF Below
<1> HIDE DEF S
<1>2. ASSUME NEW n \in Nat, \A m \in 0..(n - 1) : m \in T PROVE n \in T
  <2>1. PICK f : n # 0 => f = [m \in 0..(n - 1) |-> S(m, f)]
    <3>1. CASE n = 0
      BY <3>1
    <3>2. CASE n # 0
      <4>1. n - 1 \in 0..(n - 1)
        BY <3>2
      <4> QED BY <1>2, <4>1
    <3> QED BY <3>1, <3>2
  <2> DEFINE g == [m \in 0..n |-> IF m = n THEN S(n, f) ELSE f[m]]
  <2>2. \A m \in 0..n : g[m] = IF m = n THEN S(n, f) ELSE f[m]
    OBVIOUS
  <2>3. ASSUME NEW m \in 0..n PROVE g[m] = S(m, g)
    <3>1. m \in Nat /\ (m # 0 => m - 1 \in 0..n /\ m - 1 # n)
      OBVIOUS
    <3>2. m # 0 => g[m - 1] = f[m - 1]
      BY <2>2, <3>1
    <3> HIDE DEF g
    <3>3. S(m, g) = S(m, f)
      BY <1>1, <3>1, <3>2
    <3>4. CASE m = n
      BY <2>2, <3>3, <3>4
    <3>5. CASE m # n
      <4>1. m \in 0..(n - 1) /\ n # 0
        BY <3>5
      <4>2. f[m] = S(m, f)
        BY <2>1, <4>1
      <4> QED BY <2>2, <3>3, <3>5, <4>2
    <3> QED BY <3>4, <3>5
  <2>4. g = [m \in 0..n |-> g[m]]
    OBVIOUS
  <2> HIDE DEF g
  <2>5. g = [m \in 0..n |-> S(m, g)]
    BY <2>3, <2>4
  <2> QED BY <2>5
<1> HIDE DEF T
<1>3. Nat \subseteq T
  BY <1>2, Induction
<1>4. N \in T
  BY <1>3
<1> QED BY <1>4 DEF T, S, Stages

\* What has been joined after n parts.
LEMMA JoinedIs ==
  ASSUME NEW parts, Len(parts) \in Nat
  PROVE  \E f : /\ Joined(parts) = f[Len(parts)] /\ f[0] = <<>>
                /\ Len(parts) > 0 => f[1] = parts[1]
                /\ \A n \in 2..Len(parts) : f[n] = f[n - 1] \o <<Mark(",")>> \o parts[n]
<1> DEFINE Step(f, n) == IF n = 0 THEN <<>> ELSE IF n = 1 THEN parts[1] ELSE f[n - 1] \o <<Mark(",")>> \o parts[n]
           body(f) == [n \in 0..Len(parts) |-> Step(f, n)]
           joined == CHOOSE f : f = body(f)
<1>1. Joined(parts) = joined[Len(parts)]
  BY DEF Joined
<1>2. PICK f : Stages("joined", parts, 0, 0, 0, Len(parts), f)
  BY StagesExist
<1>3. \A n \in 0..Len(parts) : Stage("joined", parts, 0, 0, 0, n, Below(f, n)) = Step(f, n)
  BY DEF Stage, Below
<1>4. f = body(f)
  BY <1>2, <1>3 DEF Stages
<1>5. joined = body(joined)
  BY <1>4
<1> HIDE DEF joined
<1>6. \A n \in 0..Len(parts) : joined[n] = Step(joined, n)
  BY <1>5
<1>7. joined[0] = <<>> /\ (Len(parts) > 0 => joined[1] = parts[1])
  <2>1. 0 \in 0..Len(parts) /\ (Len(parts) > 0 => 1 \in 0..Len(parts))
    OBVIOUS
  <2>2. Step(joined, 0) = <<>> /\ Step(joined, 1) = parts[1]
    OBVIOUS
  <2> HIDE DEF Step
  <2> QED BY <1>6, <2>1, <2>2
<1>8. \A n \in 2..Len(parts) : joined[n] = joined[n - 1] \o <<Mark(",")>> \o parts[n]
  <2>1. \A n \in 2..Len(parts) : n \in 0..Len(parts) /\ n # 0 /\ n # 1
    OBVIOUS
  <2> QED BY <1>6, <2>1
<1> QED BY <1>1, <1>7, <1>8

\* The state of a loop after n rounds.
LEMMA RoundsAre ==
  ASSUME NEW t, NEW inner, NEW close, NEW start, Len(t) \in Nat
  PROVE  \E f : /\ Loop(t, inner, close, start) = f[Len(t)] /\ f[0] = Goes(start, <<>>)
                /\ \A n \in 1..Len(t) : f[n] = Turn(t, inner, close, f[n - 1])
<1> DEFINE Step(f, n) == IF n = 0 THEN Goes(start, <<>>) ELSE Turn(t, inner, close, f[n - 1])
           body(f) == [n \in 0..Len(t) |-> Step(f, n)]
           round == CHOOSE f : f = body(f)
<1>1. Loop(t, inner, close, start) = round[Len(t)]
  BY DEF Loop
<1>2. PICK f : Stages("loop", t, inner, close, start, Len(t), f)
  BY StagesExist
<1>3. \A n \in 0..Len(t) : Stage("loop", t, inner, close, start, n, Below(f, n)) = Step(f, n)
  BY DEF Stage, Below
<1>4. f = body(f)
  BY <1>2, <1>3 DEF Stages
<1>5. round = body(round)
  BY <1>4
<1> HIDE DEF round
<1>6. \A n \in 0..Len(t) : round[n] = Step(round, n)
  BY <1>5
<1> QED BY <1>1, <1>6

LEMMA ValuesAre ==
  ASSUME NEW t, Len(t) \in Nat
  PROVE  \A room \in 0..Depth :
           Values(t)[room] = [start \in 1..(Len(t) + 1) |-> value(t, Below(Values(t), room), room, start)]
<1> DEFINE body(f) == [room \in 0..Depth |->
                         LET inner == IF room = 0 THEN <<>> ELSE f[room - 1]
                         IN [start \in 1..(Len(t) + 1) |-> value(t, inner, room, start)]]
<1>1. Values(t) = CHOOSE f : f = body(f)
  BY DEF Values
<1>2. PICK f : Stages("values", t, 0, 0, 0, Depth, f)
  BY StagesExist, LimitsAssumption
<1>3. f = body(f)
  <2>1. body(f) = [n \in 0..Depth |-> Stage("values", t, 0, 0, 0, n, Below(f, n))]
    BY DEF Stage, Below
  <2> QED BY <1>2, <2>1 DEF Stages
<1>4. Values(t) = body(Values(t))
  BY <1>1, <1>3
<1>5. \A room \in 0..Depth : body(Values(t))[room] = [start \in 1..(Len(t) + 1) |-> value(t, Below(Values(t), room), room, start)]
  BY DEF Below
<1> QED BY <1>4, <1>5

LEMMA LevelsAre ==
  ASSUME NEW t
  PROVE  \A room \in 0..Depth : Levels(t)[room] = LevelStep(t, room, Below(Levels(t), room))
<1> DEFINE body(f) == [room \in 0..Depth |->
                         LET inner == IF room = 0 THEN <<>> ELSE f[room - 1]
                         IN [span \in Spans(t) |->
                               UNION {IF p[2] = p[1] + 1 THEN Simple(t[p[1]])
                                      ELSE IF room = 0 THEN {}
                                      ELSE Enclosed(t, inner, p[1], p[2]) : p \in Bare(t, span[1], span[2])}]]
<1>1. Levels(t) = CHOOSE f : f = body(f)
  BY DEF Levels
<1>2. PICK f : Stages("levels", t, 0, 0, 0, Depth, f)
  BY StagesExist, LimitsAssumption
<1>3. f = body(f)
  <2>1. body(f) = [n \in 0..Depth |-> Stage("levels", t, 0, 0, 0, n, Below(f, n))]
    BY DEF Stage, Below, LevelStep
  <2> QED BY <1>2, <2>1 DEF Stages
<1> HIDE DEF body
<1>4. Levels(t) = body(Levels(t))
  BY <1>1, <1>3, Zenon
<1> USE DEF body
<1>5. \A room \in 0..Depth : body(Levels(t))[room] = LevelStep(t, room, Below(Levels(t), room))
  BY DEF Below, LevelStep
<1> QED BY <1>4, <1>5

LEMMA SpellingsAre ==
  \A room \in 0..Depth :
    Spellings[room] = [m \in Data(DOMAIN Below(Spellings, room)) |-> Spelled1(m, Below(Spellings, room))]
<1> DEFINE body(f) == [room \in 0..Depth |->
                         LET inner == IF room = 0 THEN <<>> ELSE f[room - 1]
                         IN [m \in Data(DOMAIN inner) |-> Spelled1(m, inner)]]
<1>1. Spellings = CHOOSE f : f = body(f)
  BY DEF Spellings
<1>2. PICK f : Stages("spellings", 0, 0, 0, 0, Depth, f)
  BY StagesExist, LimitsAssumption
<1>3. f = body(f)
  <2>1. body(f) = [n \in 0..Depth |-> Stage("spellings", 0, 0, 0, 0, n, Below(f, n))]
    BY DEF Stage, Below
  <2> QED BY <1>2, <2>1 DEF Stages
<1>4. Spellings = body(Spellings)
  BY <1>1, <1>3
<1>5. \A room \in 0..Depth :
        body(Spellings)[room] = [m \in Data(DOMAIN Below(Spellings, room)) |-> Spelled1(m, Below(Spellings, room))]
  BY DEF Below
<1> QED BY <1>4, <1>5

\* Where a list may be cut: before its first part, and at a comma.
Cuts(t, i, j) == {i - 1} \union {k \in i..(j - 1) : t[k][1] = Comma}

ListStep(t, parts, i, j, f) ==
  IF j < i THEN {<<>>}
  ELSE UNION {{Append(l, m) : l \in f[c], m \in parts[<<c + 1, j>>]} : c \in Cuts(t, i, j)}

LEMMA ListStepIs ==
  ASSUME NEW t, NEW parts, NEW i, NEW j, NEW f, ~(j < i)
  PROVE  \A l : l \in ListStep(t, parts, i, j, f) <=>
                  \E c \in Cuts(t, i, j) : \E k \in f[c], m \in parts[<<c + 1, j>>] : l = Append(k, m)
  BY DEF ListStep

LEMMA ListStepLooksBack ==
  ASSUME NEW t, NEW parts, NEW i \in Nat, NEW j \in Nat, NEW f, NEW g, \A c \in (i - 1)..(j - 1) : f[c] = g[c]
  PROVE  ListStep(t, parts, i, j, f) = ListStep(t, parts, i, j, g)
<1>1. CASE j < i
  BY <1>1 DEF ListStep
<1>2. CASE ~(j < i)
  <2>1. \A c \in Cuts(t, i, j) : f[c] = g[c]
    <3>1. i - 1 \in (i - 1)..(j - 1) /\ i..(j - 1) \subseteq (i - 1)..(j - 1)
      BY <1>2
    <3>2. \A c \in Cuts(t, i, j) : c = i - 1 \/ c \in i..(j - 1)
      BY DEF Cuts
    <3> QED BY <3>1, <3>2
  <2>2. ASSUME NEW l PROVE l \in ListStep(t, parts, i, j, f) <=> l \in ListStep(t, parts, i, j, g)
    <3>1. l \in ListStep(t, parts, i, j, f) <=>
            \E c \in Cuts(t, i, j) : \E k \in f[c], m \in parts[<<c + 1, j>>] : l = Append(k, m)
      BY <1>2, ListStepIs
    <3>2. l \in ListStep(t, parts, i, j, g) <=>
            \E c \in Cuts(t, i, j) : \E k \in g[c], m \in parts[<<c + 1, j>>] : l = Append(k, m)
      BY <1>2, ListStepIs
    <3> QED BY <2>1, <3>1, <3>2
  <2> QED BY <2>2
<1> QED BY <1>1, <1>2

ListSteps(t, parts, i, N, f) == f = [j \in (i - 1)..N |-> ListStep(t, parts, i, j, f)]

LEMMA ListStepsExist ==
  ASSUME NEW t, NEW parts, NEW i \in Nat, i >= 1, NEW N \in Nat, N >= i - 1
  PROVE  \E f : ListSteps(t, parts, i, N, f)
<1> DEFINE S(n, f) == ListStep(t, parts, i, n, f)
           T == {n \in Nat : n >= i - 1 => \E f : f = [m \in (i - 1)..n |-> S(m, f)]}
<1>1. \A n \in Nat : \A f, g : (\A c \in (i - 1)..(n - 1) : f[c] = g[c]) => S(n, f) = S(n, g)
  BY ListStepLooksBack
<1> HIDE DEF S
<1>2. ASSUME NEW n \in Nat, \A m \in 0..(n - 1) : m \in T PROVE n \in T
  <2> SUFFICES ASSUME n >= i - 1 PROVE \E f : f = [m \in (i - 1)..n |-> S(m, f)]
    OBVIOUS
  <2>1. PICK f : n # i - 1 => f = [m \in (i - 1)..(n - 1) |-> S(m, f)]
    <3>1. CASE n = i - 1
      BY <3>1
    <3>2. CASE n # i - 1
      <4>1. n - 1 \in 0..(n - 1) /\ n - 1 >= i - 1
        BY <3>2
      <4> QED BY <1>2, <4>1
    <3> QED BY <3>1, <3>2
  <2> DEFINE g == [m \in (i - 1)..n |-> IF m = n THEN S(n, f) ELSE f[m]]
  <2>2. \A m \in (i - 1)..n : g[m] = IF m = n THEN S(n, f) ELSE f[m]
    OBVIOUS
  <2>3. g = [m \in (i - 1)..n |-> g[m]]
    OBVIOUS
  <2> HIDE DEF g
  <2>4. ASSUME NEW m \in (i - 1)..n PROVE g[m] = S(m, g)
    <3>1. m \in Nat /\ \A c \in (i - 1)..(m - 1) : c \in (i - 1)..n /\ c # n
      OBVIOUS
    <3>2. \A c \in (i - 1)..(m - 1) : g[c] = f[c]
      BY <2>2, <3>1
    <3>3. S(m, g) = S(m, f)
      BY <1>1, <3>1, <3>2
    <3>4. CASE m = n
      BY <2>2, <3>3, <3>4
    <3>5. CASE m # n
      <4>1. m \in (i - 1)..(n - 1) /\ n # i - 1
        BY <3>5
      <4>2. f[m] = S(m, f)
        BY <2>1, <4>1
      <4> QED BY <2>2, <3>3, <3>5, <4>2
    <3> QED BY <3>4, <3>5
  <2>5. g = [m \in (i - 1)..n |-> S(m, g)]
    BY <2>3, <2>4
  <2> QED BY <2>5
<1> HIDE DEF T
<1>3. Nat \subseteq T
  BY <1>2, Induction
<1>4. N \in T
  BY <1>3
<1> QED BY <1>4 DEF T, S, ListSteps

\* A list ends where its last part does.
LEMMA ListsAre ==
  ASSUME NEW t \in Texts, NEW parts, NEW i \in Positions(t)
  PROVE  /\ Lists(t, parts, i)[i - 1] = {<<>>}
         /\ \A j \in i..(Len(t) + 1) : \A l :
              l \in Lists(t, parts, i)[j] <=>
                \E c \in Cuts(t, i, j) : \E k \in Lists(t, parts, i)[c], m \in parts[<<c + 1, j>>] : l = Append(k, m)
<1>1. Len(t) \in Nat /\ i \in 1..(Len(t) + 1)
  BY KindsAre
<1> DEFINE body(f) == [j \in (i - 1)..(Len(t) + 1) |-> ListStep(t, parts, i, j, f)]
<1>2. Lists(t, parts, i) = CHOOSE f : f = body(f)
  BY DEF Lists, ListStep, Cuts, Comma
<1>3. PICK f : ListSteps(t, parts, i, Len(t) + 1, f)
  <2>1. i \in Nat /\ i >= 1 /\ Len(t) + 1 \in Nat /\ Len(t) + 1 >= i - 1
    BY <1>1
  <2> QED BY <2>1, ListStepsExist
<1> DEFINE lists == Lists(t, parts, i)
<1>4. lists = body(lists)
  BY <1>2, <1>3 DEF ListSteps
<1> HIDE DEF lists
<1>5. \A j \in (i - 1)..(Len(t) + 1) : lists[j] = ListStep(t, parts, i, j, lists)
  BY <1>4
<1>6. lists[i - 1] = {<<>>}
  <2>1. i - 1 \in (i - 1)..(Len(t) + 1) /\ i - 1 < i
    BY <1>1
  <2>2. lists[i - 1] = ListStep(t, parts, i, i - 1, lists)
    BY <1>5, <2>1
  <2>3. ListStep(t, parts, i, i - 1, lists) = {<<>>}
    BY <2>1 DEF ListStep
  <2> QED BY <2>2, <2>3
<1>7. \A j \in i..(Len(t) + 1) : j \in (i - 1)..(Len(t) + 1) /\ ~(j < i)
  BY <1>1
<1>8. \A j \in i..(Len(t) + 1) : \A l :
        l \in lists[j] <=> \E c \in Cuts(t, i, j) : \E k \in lists[c], m \in parts[<<c + 1, j>>] : l = Append(k, m)
  BY <1>5, <1>7, ListStepIs
<1> QED BY <1>6, <1>8 DEF lists

(***************************************************************************)
(* What lies between two brackets, both kinds alike.                       *)
(***************************************************************************)
Opening(close) == IF close = "]" THEN "[" ELSE "{"
Table(close, t, inner) == IF close = "]" THEN inner ELSE Members(t, inner)
Whole(close, l) == IF close = "]" THEN <<"array", l>> ELSE <<"object", Range(l)>>
Fits(close, l) == close = Curly => Len(l) <= ObjectMembers /\ Distinct(l)

\* Token p opens, token c closes, and x is the whole of the list l between.
EnclosedBy(t, inner, p, c, x, close, l) ==
  /\ t[p][1] = Opening(close) /\ t[c][1] = close
  /\ x = Whole(close, l) /\ Fits(close, l)
  /\ \/ l = <<>> /\ Blank(t, p + 1, c)
     \/ l \in Lists(t, Table(close, t, inner), p + 1)[c]

LEMMA EnclosedIs ==
  ASSUME NEW t, NEW inner, NEW p \in Nat, NEW c \in Nat, NEW x
  PROVE  x \in Enclosed(t, inner, p, c + 1) <=> \E close \in Enders : \E l : EnclosedBy(t, inner, p, c, x, close, l)
<1> DEFINE lists(close) == Lists(t, Table(close, t, inner), p + 1)[c]
           Both(close, l) == /\ t[p][1] = Opening(close) /\ t[c][1] = close
                             /\ x = Whole(close, l) /\ Fits(close, l)
                             /\ \/ l = <<>> /\ Blank(t, p + 1, c)
                                \/ l \in lists(close)
<1> SUFFICES x \in Enclosed(t, inner, p, c + 1) <=> \E close \in Enders : \E l : Both(close, l)
  <2>1. \A close, l : EnclosedBy(t, inner, p, c, x, close, l) <=> Both(close, l)
    BY DEF EnclosedBy
  <2> HIDE DEF Both
  <2> QED BY <2>1
<1>1. (c + 1) - 1 = c
  OBVIOUS
<1>2. Fits("]", <<>>) /\ Fits(Curly, <<>>)
  BY LimitsAssumption DEF Fits, Distinct
<1>3. CASE t[p][1] = "[" /\ t[c][1] = "]"
  <2>1. x \in Enclosed(t, inner, p, c + 1) <=>
          \E l : x = <<"array", l>> /\ ((l = <<>> /\ Blank(t, p + 1, c)) \/ l \in Lists(t, inner, p + 1)[c])
    BY <1>1, <1>3 DEF Enclosed
  <2>2. (\E close \in Enders : \E l : Both(close, l)) <=> \E l : Both("]", l)
    BY <1>3 DEF Opening, Enders, Curly
  <2>3. \A l : Both("]", l) <=> x = <<"array", l>> /\ ((l = <<>> /\ Blank(t, p + 1, c)) \/ l \in Lists(t, inner, p + 1)[c])
    BY <1>3 DEF Opening, Whole, Fits, Table, Curly
  <2> QED BY <2>1, <2>2, <2>3
<1>4. CASE t[p][1] = "{" /\ t[c][1] = "}"
  <2> DEFINE all == Lists(t, Members(t, inner), p + 1)[c]
             empty == IF Blank(t, p + 1, c) THEN {<<>>} ELSE {}
  <2>1. Enclosed(t, inner, p, c + 1) =
          {<<"object", Range(l)>> : l \in empty \union {m \in all : Len(m) <= ObjectMembers /\ Distinct(m)}}
    BY <1>1, <1>4 DEF Enclosed
  <2>2. (\E close \in Enders : \E l : Both(close, l)) <=> \E l : Both(Curly, l)
    BY <1>4 DEF Opening, Enders, Curly
  <2>3. \A l : Both(Curly, l) <=> /\ x = <<"object", Range(l)>> /\ Len(l) <= ObjectMembers /\ Distinct(l)
                                /\ ((l = <<>> /\ Blank(t, p + 1, c)) \/ l \in all)
    BY <1>4 DEF Opening, Whole, Fits, Table, Curly
  <2>4. Len(<<>>) <= ObjectMembers /\ Distinct(<<>>)
    BY <1>2 DEF Fits, Curly
  <2> HIDE DEF Both, all
  <2>5. \A l : l \in empty \union {m \in all : Len(m) <= ObjectMembers /\ Distinct(m)} <=>
                 Len(l) <= ObjectMembers /\ Distinct(l) /\ ((l = <<>> /\ Blank(t, p + 1, c)) \/ l \in all)
    BY <2>4
  <2> HIDE DEF empty
  <2> QED BY <2>1, <2>2, <2>3, <2>5 DEF Both
<1>5. CASE ~(t[p][1] = "[" /\ t[c][1] = "]") /\ ~(t[p][1] = "{" /\ t[c][1] = "}")
  <2>1. Enclosed(t, inner, p, c + 1) = {}
    BY <1>1, <1>5 DEF Enclosed
  <2> QED BY <1>5, <2>1 DEF Opening, Enders, Curly
<1> QED BY <1>3, <1>4, <1>5

\* A meaning is that of one token, or of a bracket and what it encloses.
LEMMA MeaningsAre ==
  ASSUME NEW t \in Texts, NEW room \in 0..Depth, NEW i \in Positions(t), NEW j \in Positions(t), NEW x
  PROVE  x \in Levels(t)[room][<<i, j>>] <=>
           \E p \in i..j, c \in i..j :
             /\ p <= c /\ c < j /\ t[p][1] # "ws" /\ t[c][1] # "ws"
             /\ Blank(t, i, p) /\ Blank(t, c + 1, j)
             /\ \/ c = p /\ x \in Simple(t[p])
                \/ c # p /\ room # 0 /\ x \in Enclosed(t, Levels(t)[room - 1], p, c + 1)
<1>1. Len(t) \in Nat /\ i \in 1..(Len(t) + 1) /\ j \in 1..(Len(t) + 1)
  BY KindsAre
<1> DEFINE inner == Below(Levels(t), room)
           of(p) == IF p[2] = p[1] + 1 THEN Simple(t[p[1]])
                    ELSE IF room = 0 THEN {}
                    ELSE Enclosed(t, inner, p[1], p[2])
<1>2. Levels(t)[room] = LevelStep(t, room, inner)
  BY LevelsAre
<1>3. <<i, j>> \in Spans(t) /\ <<i, j>>[1] = i /\ <<i, j>>[2] = j
  BY DEF Spans
<1>4. Levels(t)[room][<<i, j>>] = UNION {of(p) : p \in Bare(t, i, j)}
  BY <1>2, <1>3 DEF LevelStep
<1>5. \A p, c : of(<<p, c + 1>>) = IF c + 1 = p + 1 THEN Simple(t[p])
                                   ELSE IF room = 0 THEN {}
                                   ELSE Enclosed(t, inner, p, c + 1)
  OBVIOUS
<1>6. room # 0 => inner = Levels(t)[room - 1]
  BY DEF Below
<1> HIDE DEF inner, of
<1>7. x \in Levels(t)[room][<<i, j>>] <=> \E p \in Bare(t, i, j) : x \in of(p)
  BY <1>4
<1>8. ASSUME NEW p \in Bare(t, i, j), x \in of(p)
      PROVE  \E a \in i..j, c \in i..j :
               /\ a <= c /\ c < j /\ t[a][1] # "ws" /\ t[c][1] # "ws"
               /\ Blank(t, i, a) /\ Blank(t, c + 1, j)
               /\ \/ c = a /\ x \in Simple(t[a])
                  \/ c # a /\ room # 0 /\ x \in Enclosed(t, Levels(t)[room - 1], a, c + 1)
  <2>1. PICK a \in i..j, e \in i..j : p = <<a, e>>
    BY DEF Bare
  <2>2. /\ a < e /\ t[a][1] # "ws" /\ t[e - 1][1] # "ws"
        /\ Blank(t, i, a) /\ Blank(t, e, j)
    BY <2>1 DEF Bare
  <2>3. PICK c \in i..j : e = c + 1
    <3>1. e - 1 \in i..j /\ e = (e - 1) + 1
      BY <1>1, <2>1, <2>2
    <3> QED BY <3>1
  <2>4. a \in Int /\ c \in Int /\ e - 1 = c /\ a <= c /\ c < j /\ (c + 1 = a + 1 <=> c = a)
    BY <1>1, <2>1, <2>2, <2>3
  <2>5. x \in of(<<a, c + 1>>)
    BY <1>8, <2>1, <2>3
  <2>6. \/ c = a /\ x \in Simple(t[a])
        \/ c # a /\ room # 0 /\ x \in Enclosed(t, Levels(t)[room - 1], a, c + 1)
    <3>1. of(<<a, c + 1>>) = IF c = a THEN Simple(t[a]) ELSE IF room = 0 THEN {} ELSE Enclosed(t, inner, a, c + 1)
      BY <1>5, <2>4
    <3> QED BY <1>6, <2>5, <3>1
  <2> QED BY <2>2, <2>3, <2>4, <2>6
<1>9. ASSUME NEW p \in i..j, NEW c \in i..j, p <= c, c < j, t[p][1] # "ws", t[c][1] # "ws",
             Blank(t, i, p), Blank(t, c + 1, j),
             \/ c = p /\ x \in Simple(t[p])
             \/ c # p /\ room # 0 /\ x \in Enclosed(t, Levels(t)[room - 1], p, c + 1)
      PROVE  \E a \in Bare(t, i, j) : x \in of(a)
  <2>1. c + 1 \in i..j /\ p < c + 1 /\ (c + 1) - 1 = c /\ (c + 1 = p + 1 <=> c = p)
    BY <1>1, <1>9
  <2>2. <<p, c + 1>> \in Bare(t, i, j)
    BY <1>9, <2>1 DEF Bare
  <2>3. x \in of(<<p, c + 1>>)
    BY <1>5, <1>6, <1>9, <2>1
  <2> QED BY <2>2, <2>3
<1> QED BY <1>7, <1>8, <1>9

\* The same where no white space follows.
LEMMA MeaningsThere ==
  ASSUME NEW t \in Texts, NEW room \in 0..Depth, NEW i \in Positions(t), NEW j \in Positions(t), NEW x,
         Kind(t, j) # "ws"
  PROVE  LET q == whitespace(t, i)
         IN x \in Levels(t)[room][<<i, j>>] <=>
              /\ q <= Len(t)
              /\ \E c \in q..Len(t) :
                   /\ t[c][1] # "ws" /\ j = whitespace(t, c + 1)
                   /\ \/ c = q /\ x \in Simple(t[q])
                      \/ c # q /\ room # 0 /\ x \in Enclosed(t, Levels(t)[room - 1], q, c + 1)
<1>1. Len(t) \in Nat /\ i \in 1..(Len(t) + 1) /\ j \in 1..(Len(t) + 1) /\ \A k \in 1..Len(t) : Kind(t, k) = t[k][1]
  BY KindsAre
<1>2. PICK q : q = whitespace(t, i)
  OBVIOUS
<1>3. q \in i..(Len(t) + 1) /\ Kind(t, q) # "ws" /\ Blank(t, i, q)
  BY <1>2, WhitespaceEnds
<1>4. ASSUME NEW p \in i..j, NEW c \in i..j, p <= c, c < j, t[p][1] # "ws", Blank(t, i, p), Blank(t, c + 1, j)
      PROVE  p = q /\ q <= Len(t) /\ c \in q..Len(t) /\ j = whitespace(t, c + 1)
  <2>1. p \in i..(Len(t) + 1) /\ p <= Len(t) /\ c <= Len(t)
    BY <1>1, <1>4
  <2>2. Kind(t, p) # "ws"
    BY <1>1, <1>4, <2>1
  <2>3. p = q
    BY <1>2, <1>4, <2>1, <2>2, WhitespaceIs
  <2>4. c + 1 \in Positions(t) /\ j \in (c + 1)..(Len(t) + 1)
    BY <1>1, <1>4, <2>1, KindsAre
  <2>5. j = whitespace(t, c + 1)
    BY <1>4, <2>4, WhitespaceIs
  <2> QED BY <1>1, <1>4, <2>1, <2>3, <2>5
<1>5. ASSUME q <= Len(t), NEW c \in q..Len(t), j = whitespace(t, c + 1)
      PROVE  q \in i..j /\ c \in i..j /\ q <= c /\ c < j /\ t[q][1] # "ws" /\ Blank(t, i, q) /\ Blank(t, c + 1, j)
  <2>1. c + 1 \in Positions(t)
    BY <1>1, <1>3, <1>5, KindsAre
  <2>2. j \in (c + 1)..(Len(t) + 1) /\ Blank(t, c + 1, j)
    BY <1>5, <2>1, WhitespaceEnds
  <2> QED BY <1>1, <1>3, <1>5, <2>2
<1>6. ASSUME x \in Levels(t)[room][<<i, j>>]
      PROVE  /\ q <= Len(t)
             /\ \E c \in q..Len(t) :
                  /\ t[c][1] # "ws" /\ j = whitespace(t, c + 1)
                  /\ \/ c = q /\ x \in Simple(t[q])
                     \/ c # q /\ room # 0 /\ x \in Enclosed(t, Levels(t)[room - 1], q, c + 1)
  <2>1. PICK p \in i..j, c \in i..j :
             /\ p <= c /\ c < j /\ t[p][1] # "ws" /\ t[c][1] # "ws"
             /\ Blank(t, i, p) /\ Blank(t, c + 1, j)
             /\ \/ c = p /\ x \in Simple(t[p])
                \/ c # p /\ room # 0 /\ x \in Enclosed(t, Levels(t)[room - 1], p, c + 1)
    BY <1>6, MeaningsAre
  <2>2. p = q /\ q <= Len(t) /\ c \in q..Len(t) /\ j = whitespace(t, c + 1)
    BY <1>4, <2>1
  <2> QED BY <2>1, <2>2
<1>7. ASSUME q <= Len(t), NEW c \in q..Len(t), t[c][1] # "ws", j = whitespace(t, c + 1),
             \/ c = q /\ x \in Simple(t[q])
             \/ c # q /\ room # 0 /\ x \in Enclosed(t, Levels(t)[room - 1], q, c + 1)
      PROVE  x \in Levels(t)[room][<<i, j>>]
  <2>1. q \in i..j /\ c \in i..j /\ q <= c /\ c < j /\ t[q][1] # "ws" /\ Blank(t, i, q) /\ Blank(t, c + 1, j)
    BY <1>5, <1>7
  <2> QED BY <1>7, <2>1, MeaningsAre
<1> QED BY <1>2, <1>6, <1>7

(***************************************************************************)
(* Lists and what the loops make of them.                                  *)
(***************************************************************************)
\* What is kept of a part: an element's spelling, a member's key and spelling.
Kept(close, sp, x) == IF close = "]" THEN sp[x] ELSE [key |-> x[1], value |-> sp[x[2]]]
Spelt(close, sp, l) == [k \in DOMAIN l |-> Kept(close, sp, l[k])]

LEMMA AppendIs ==
  ASSUME NEW W, NEW l \in Seq(W), NEW x \in W
  PROVE  /\ Append(l, x) \in Seq(W) /\ Len(Append(l, x)) = Len(l) + 1 /\ Len(l) \in Nat
         /\ DOMAIN l = 1..Len(l) /\ DOMAIN Append(l, x) = 1..(Len(l) + 1)
         /\ \A k \in 1..Len(l) : Append(l, x)[k] = l[k] /\ l[k] \in W
         /\ Append(l, x)[Len(l) + 1] = x
  BY AppendProperties, ElementOfSeq

LEMMA FitsMore ==
  ASSUME NEW W, NEW l \in Seq(W), NEW x \in W, NEW close
  PROVE  Fits(close, Append(l, x)) <=>
           /\ Fits(close, l)
           /\ close = Curly => Len(l) < ObjectMembers /\ \A k \in 1..Len(l) : l[k][1] # x[1]
<1> DEFINE m == Append(l, x)
<1>1. /\ Len(m) = Len(l) + 1 /\ Len(l) \in Nat
      /\ DOMAIN l = 1..Len(l) /\ DOMAIN m = 1..(Len(l) + 1)
      /\ \A k \in 1..Len(l) : m[k] = l[k]
      /\ m[Len(l) + 1] = x
  BY AppendIs
<1> HIDE DEF m
<1>2. Len(m) <= ObjectMembers <=> Len(l) < ObjectMembers
  BY <1>1, LimitsAssumption
<1>3. Len(l) < ObjectMembers => Len(l) <= ObjectMembers
  BY <1>1, LimitsAssumption
<1>4. Distinct(m) <=> Distinct(l) /\ \A k \in 1..Len(l) : l[k][1] # x[1]
  <2>1. ASSUME Distinct(m) PROVE Distinct(l) /\ \A k \in 1..Len(l) : l[k][1] # x[1]
    BY <1>1, <2>1 DEF Distinct
  <2>2. ASSUME Distinct(l), \A k \in 1..Len(l) : l[k][1] # x[1] PROVE Distinct(m)
    <3>1. \A i \in 1..(Len(l) + 1) : i \in 1..Len(l) \/ i = Len(l) + 1
      BY <1>1
    <3> QED BY <1>1, <2>2, <3>1 DEF Distinct
  <2> QED BY <2>1, <2>2
<1>5. Fits(close, m) <=> (close = Curly => Len(m) <= ObjectMembers /\ Distinct(m))
  BY DEF Fits
<1>6. Fits(close, l) <=> (close = Curly => Len(l) <= ObjectMembers /\ Distinct(l))
  BY DEF Fits
<1> QED BY <1>2, <1>3, <1>4, <1>5, <1>6 DEF m

LEMMA SpeltMore ==
  ASSUME NEW W, NEW l \in Seq(W), NEW x \in W, NEW close, NEW sp
  PROVE  Spelt(close, sp, Append(l, x)) = Append(Spelt(close, sp, l), Kept(close, sp, x))
<1> DEFINE n == Len(l)
           m == Append(l, x)
           kept == Spelt(close, sp, l)
           more == Spelt(close, sp, m)
           U == {Kept(close, sp, y) : y \in W}
<1>1. /\ n \in Nat /\ DOMAIN l = 1..n /\ DOMAIN m = 1..(n + 1)
      /\ \A k \in 1..n : m[k] = l[k] /\ l[k] \in W
      /\ m[n + 1] = x
  BY AppendIs
<1>2. kept = [k \in 1..n |-> Kept(close, sp, l[k])] /\ more = [k \in 1..(n + 1) |-> Kept(close, sp, m[k])]
  BY <1>1 DEF Spelt
<1> HIDE DEF n, m, kept, more
<1>3. \A y \in W : Kept(close, sp, y) \in U
  OBVIOUS
<1> HIDE DEF U
<1>4. kept \in Seq(U) /\ Len(kept) = n
  BY <1>1, <1>2, <1>3, SeqDef
<1>5. more \in Seq(U) /\ Len(more) = n + 1
  <2>1. \A k \in 1..(n + 1) : m[k] \in W
    <3>1. \A k \in 1..(n + 1) : k \in 1..n \/ k = n + 1
      BY <1>1
    <3> QED BY <1>1, <3>1
  <2>2. more \in [1..(n + 1) -> U]
    BY <1>2, <1>3, <2>1
  <2> QED BY <1>1, <1>2, <2>2, SeqDef
<1> DEFINE a == Append(kept, Kept(close, sp, x))
<1>6. /\ a \in Seq(U) /\ Len(a) = n + 1 /\ a[n + 1] = Kept(close, sp, x)
      /\ \A k \in 1..n : a[k] = kept[k]
  BY <1>3, <1>4, AppendIs
<1> HIDE DEF a
<1>7. \A k \in 1..(n + 1) : more[k] = a[k]
  <2>1. \A k \in 1..(n + 1) : k \in 1..n \/ k = n + 1
    BY <1>1
  <2>2. \A k \in 1..n : more[k] = a[k]
    BY <1>1, <1>2, <1>6
  <2>3. more[n + 1] = a[n + 1]
    BY <1>1, <1>2, <1>6
  <2> QED BY <2>1, <2>2, <2>3
<1>8. more = a
  BY <1>5, <1>6, <1>7, SeqEqual
<1> QED BY <1>8 DEF more, a, m, kept

Parts(t, table) == UNION {table[s] : s \in Spans(t)}

LEMMA ListsAreSequences ==
  ASSUME NEW t \in Texts, NEW table, NEW i \in Positions(t)
  PROVE  /\ \A j \in (i - 1)..(Len(t) + 1) : Lists(t, table, i)[j] \subseteq Seq(Parts(t, table))
         /\ \A j \in i..(Len(t) + 1) : <<>> \notin Lists(t, table, i)[j]
<1>1. Len(t) \in Nat /\ i \in 1..(Len(t) + 1)
  BY KindsAre
<1> DEFINE W == Parts(t, table)
           lists == Lists(t, table, i)
           T == {n \in Nat : n \in (i - 1)..(Len(t) + 1) => lists[n] \subseteq Seq(W)}
<1>2. lists[i - 1] = {<<>>}
  BY ListsAre
<1>3. ASSUME NEW j \in i..(Len(t) + 1), NEW l \in lists[j]
      PROVE  \E c \in (i - 1)..(j - 1) : \E k \in lists[c], m \in W : l = Append(k, m)
  <2>1. PICK c \in Cuts(t, i, j) : \E k \in lists[c], m \in table[<<c + 1, j>>] : l = Append(k, m)
    BY ListsAre
  <2>2. c \in (i - 1)..(j - 1)
    <3>1. i - 1 \in (i - 1)..(j - 1) /\ i..(j - 1) \subseteq (i - 1)..(j - 1)
      BY <1>1
    <3> QED BY <3>1 DEF Cuts
  <2>3. <<c + 1, j>> \in Spans(t)
    <3>1. c + 1 \in 1..(Len(t) + 1) /\ j \in 1..(Len(t) + 1)
      BY <1>1, <2>2
    <3> QED BY <3>1 DEF Spans, Positions
  <2>4. table[<<c + 1, j>>] \subseteq W
    BY <2>3 DEF Parts
  <2> QED BY <2>1, <2>2, <2>4
<1> HIDE DEF lists, W
<1>4. ASSUME NEW n \in Nat, \A m \in 0..(n - 1) : m \in T PROVE n \in T
  <2> SUFFICES ASSUME n \in (i - 1)..(Len(t) + 1), NEW l \in lists[n] PROVE l \in Seq(W)
    OBVIOUS
  <2>1. CASE n = i - 1
    <3>1. l = <<>>
      BY <1>2, <2>1
    <3> QED BY <3>1, EmptySeq
  <2>2. CASE n # i - 1
    <3>1. n \in i..(Len(t) + 1)
      BY <1>1, <2>2
    <3>2. PICK c \in (i - 1)..(n - 1) : \E k \in lists[c], m \in W : l = Append(k, m)
      BY <1>3, <3>1
    <3>3. c \in 0..(n - 1) /\ c \in (i - 1)..(Len(t) + 1)
      BY <1>1, <3>1, <3>2
    <3>4. lists[c] \subseteq Seq(W)
      BY <1>4, <3>3
    <3> QED BY <3>2, <3>4, AppendIs
  <2> QED BY <2>1, <2>2
<1> HIDE DEF T
<1>5. Nat \subseteq T
  BY <1>4, Induction
<1>6. \A j \in (i - 1)..(Len(t) + 1) : lists[j] \subseteq Seq(W)
  <2>1. \A j \in (i - 1)..(Len(t) + 1) : j \in Nat
    BY <1>1
  <2> QED BY <1>5, <2>1 DEF T
<1>7. \A j \in i..(Len(t) + 1) : <<>> \notin lists[j]
  <2> SUFFICES ASSUME NEW j \in i..(Len(t) + 1), <<>> \in lists[j] PROVE FALSE
    OBVIOUS
  <2>1. PICK c \in (i - 1)..(j - 1) : \E k \in lists[c], m \in W : <<>> = Append(k, m)
    BY <1>3
  <2>2. PICK k \in lists[c], m \in W : <<>> = Append(k, m)
    BY <2>1
  <2>3. c \in (i - 1)..(Len(t) + 1)
    BY <1>1
  <2>4. k \in Seq(W)
    BY <1>6, <2>3
  <2>5. Len(Append(k, m)) = Len(k) + 1 /\ Len(k) \in Nat
    BY <2>4, AppendIs
  <2>6. Len(<<>>) = 0
    OBVIOUS
  <2>7. Len(<<>>) = Len(k) + 1
    BY <2>2, <2>5
  <2> QED BY <2>5, <2>6, <2>7
<1> QED BY <1>6, <1>7 DEF lists, W

(***************************************************************************)
(* What a reading from i comes to, if there is white space behind it or    *)
(* not: one meaning that ends at j, or none.                               *)
(***************************************************************************)
Exactly(t, table, i, j, x) ==
  \A k \in Positions(t) : \A y : Kind(t, k) # "ws" => (y \in table[<<i, k>>] <=> k = j /\ y = x)

Nothing(t, table, i) == \A k \in Positions(t) : \A y : Kind(t, k) # "ws" => y \notin table[<<i, k>>]

Agrees(t, table, sp, i, v) ==
  IF v.ok THEN /\ v.at \in (i + 1)..(Len(t) + 1)
               /\ \E x : Exactly(t, table, i, whitespace(t, v.at), x) /\ v.out = sp[x]
  ELSE Nothing(t, table, i)

AllAgree(t, table, sp, inner) == \A i \in Positions(t) : Agrees(t, table, sp, i, inner[i])

LEMMA AgreeingEnds ==
  ASSUME NEW t \in Texts, NEW table, NEW sp, NEW inner, AllAgree(t, table, sp, inner),
         NEW i \in Positions(t), inner[i].ok
  PROVE  \E j \in (i + 1)..(Len(t) + 1) : \E x :
           /\ j = whitespace(t, inner[i].at) /\ Kind(t, j) # "ws"
           /\ Exactly(t, table, i, j, x) /\ inner[i].out = sp[x] /\ x \in table[<<i, j>>]
           /\ x \in Parts(t, table)
<1>1. Len(t) \in Nat /\ i \in 1..(Len(t) + 1)
  BY KindsAre
<1>2. PICK a : a = inner[i].at
  OBVIOUS
<1>3. PICK x : a \in (i + 1)..(Len(t) + 1) /\ Exactly(t, table, i, whitespace(t, a), x) /\ inner[i].out = sp[x]
  BY <1>2 DEF AllAgree, Agrees
<1>4. a \in Positions(t)
  BY <1>1, <1>3 DEF Positions
<1>5. PICK j : j = whitespace(t, a)
  OBVIOUS
<1>6. j \in a..(Len(t) + 1) /\ Kind(t, j) # "ws" /\ j \in Positions(t)
  BY <1>4, <1>5, WhitespaceEnds
<1>7. j \in (i + 1)..(Len(t) + 1)
  BY <1>1, <1>3, <1>6
<1>8. x \in table[<<i, j>>]
  BY <1>3, <1>5, <1>6 DEF Exactly
<1>9. <<i, j>> \in Spans(t)
  BY <1>6 DEF Spans
<1> QED BY <1>2, <1>3, <1>5, <1>6, <1>7, <1>8, <1>9 DEF Parts

LEMMA AgreeingGrows ==
  ASSUME NEW t \in Texts, NEW table, NEW sp, NEW inner, AllAgree(t, table, sp, inner),
         NEW i \in Positions(t), NEW j \in Positions(t), Kind(t, j) # "ws", NEW x \in table[<<i, j>>]
  PROVE  inner[i].ok /\ i < j /\ Exactly(t, table, i, j, x) /\ whitespace(t, inner[i].at) = j /\ inner[i].out = sp[x]
<1>1. Len(t) \in Nat /\ i \in 1..(Len(t) + 1)
  BY KindsAre
<1>2. inner[i].ok
  BY DEF AllAgree, Agrees, Nothing
<1>3. PICK k \in (i + 1)..(Len(t) + 1) : \E y :
           /\ k = whitespace(t, inner[i].at) /\ Kind(t, k) # "ws"
           /\ Exactly(t, table, i, k, y) /\ inner[i].out = sp[y] /\ y \in table[<<i, k>>]
           /\ y \in Parts(t, table)
  BY <1>2, AgreeingEnds
<1>4. PICK y : Kind(t, k) # "ws" /\ Exactly(t, table, i, k, y) /\ inner[i].out = sp[y]
  BY <1>3
<1>5. k = j /\ y = x
  BY <1>4 DEF Exactly
<1> QED BY <1>1, <1>2, <1>3, <1>4, <1>5

LEMMA KeysAre ==
  ASSUME NEW token \in Token, token[1] = "str"
  PROVE  LET key == string(token[2])
         IN \A s : s \in Keys(token) <=>
                     key.ok /\ s = key.out /\ s \notin NotNFC /\ \A k \in DOMAIN s : s[k] # 0
<1>1. token[2] \in Seq(TextUnits)
  BY TokensAre
<1>2. Strings(token[2]) = IF string(token[2]).ok THEN {string(token[2]).out} ELSE {}
  BY <1>1, StringsAreDecoded
<1>3. \A s : s \in Keys(token) <=> s \in Strings(token[2]) /\ s \notin NotNFC /\ \A k \in DOMAIN s : s[k] # 0
  BY DEF Keys
<1> QED BY <1>2, <1>3

LEMMA NoKeys == ASSUME NEW token, token[1] # "str" PROVE Keys(token) = {}
  BY DEF Keys

\* A key, a colon and a value, and where they are.
LEMMA MembersThere ==
  ASSUME NEW t \in Texts, NEW table, NEW sp, NEW inner, AllAgree(t, table, sp, inner),
         NEW i \in Positions(t), NEW j \in Positions(t), Kind(t, j) # "ws", NEW x,
         NEW q, q = whitespace(t, i), NEW colon, colon = whitespace(t, q + 1)
  PROVE  x \in Members(t, table)[<<i, j>>] <=>
           /\ Kind(t, q) = "str" /\ Kind(t, colon) = ":"
           /\ \E key \in Keys(t[q]), m \in table[<<colon + 1, j>>] : x = <<key, m>>
<1>1. Len(t) \in Nat /\ i \in 1..(Len(t) + 1) /\ j \in 1..(Len(t) + 1)
      /\ (\A k \in 1..Len(t) : Kind(t, k) = t[k][1]) /\ Kind(t, Len(t) + 1) = "end"
  BY KindsAre
<1>2. q = whitespace(t, i)
  OBVIOUS
<1>3. q \in i..(Len(t) + 1) /\ Kind(t, q) # "ws" /\ Blank(t, i, q)
  BY <1>2, WhitespaceEnds
<1>4. colon = whitespace(t, q + 1)
  OBVIOUS
<1>5. Kind(t, q) = "str" => q <= Len(t) /\ q + 1 \in Positions(t) /\ t[q][1] = "str"
  <2>1. q \in 1..Len(t) \/ q = Len(t) + 1
    BY <1>1, <1>3
  <2>2. CASE q = Len(t) + 1
    <3>1. Kind(t, q) # "str"
      BY <1>1, <2>2
    <3> QED BY <3>1
  <2>3. CASE q \in 1..Len(t)
    <3>1. q + 1 \in 1..(Len(t) + 1) /\ q <= Len(t)
      BY <1>1, <2>3
    <3> QED BY <1>1, <2>3, <3>1 DEF Positions
  <2> QED BY <2>1, <2>2, <2>3
<1>6. Kind(t, q) = "str" => colon \in (q + 1)..(Len(t) + 1) /\ Blank(t, q + 1, colon)
  BY <1>4, <1>5, WhitespaceEnds
<1> DEFINE P == {p \in (i..(j - 1)) \X (i..(j - 1)) :
                   /\ p[1] < p[2] /\ t[p[2]][1] = ":"
                   /\ Blank(t, i, p[1]) /\ Blank(t, p[1] + 1, p[2])}
<1>7. Members(t, table)[<<i, j>>] = UNION {Keys(t[p[1]]) \X table[<<p[2] + 1, j>>] : p \in P}
  <2>1. <<i, j>> \in Spans(t) /\ <<i, j>>[1] = i /\ <<i, j>>[2] = j
    BY DEF Spans
  <2> QED BY <2>1 DEF Members
<1>8. ASSUME x \in Members(t, table)[<<i, j>>]
      PROVE  /\ Kind(t, q) = "str" /\ Kind(t, colon) = ":"
             /\ \E key \in Keys(t[q]), m \in table[<<colon + 1, j>>] : x = <<key, m>>
  <2>1. PICK p \in P : x \in Keys(t[p[1]]) \X table[<<p[2] + 1, j>>]
    BY <1>7, <1>8
  <2>2. PICK a \in i..(j - 1), c \in i..(j - 1) : p = <<a, c>>
    OBVIOUS
  <2>3. a < c /\ t[c][1] = ":" /\ Blank(t, i, a) /\ Blank(t, a + 1, c)
    BY <2>2
  <2>4. PICK key \in Keys(t[a]), m \in table[<<c + 1, j>>] : x = <<key, m>>
    BY <2>1, <2>2
  <2>5. a \in 1..Len(t) /\ c \in 1..Len(t) /\ a \in i..(Len(t) + 1)
    BY <1>1
  <2>6. t[a][1] = "str" /\ Kind(t, a) = "str" /\ Kind(t, c) = ":"
    BY <1>1, <2>3, <2>4, <2>5, NoKeys
  <2>7. a = q
    BY <1>2, <2>3, <2>5, <2>6, WhitespaceIs
  <2>8. c \in (q + 1)..(Len(t) + 1) /\ q + 1 \in Positions(t)
    BY <1>1, <1>5, <2>3, <2>5, <2>6, <2>7
  <2>9. c = colon
    BY <1>4, <2>3, <2>6, <2>7, <2>8, WhitespaceIs
  <2> QED BY <2>4, <2>6, <2>7, <2>9
<1>9. ASSUME Kind(t, q) = "str", Kind(t, colon) = ":",
             NEW key \in Keys(t[q]), NEW m \in table[<<colon + 1, j>>], x = <<key, m>>
      PROVE  x \in Members(t, table)[<<i, j>>]
  <2>1. colon \in (q + 1)..(Len(t) + 1) /\ colon # Len(t) + 1
    BY <1>1, <1>6, <1>9
  <2>2. colon \in 1..Len(t) /\ colon + 1 \in Positions(t) /\ t[colon][1] = ":" /\ q < colon
    <3>1. colon \in 1..Len(t) /\ colon + 1 \in 1..(Len(t) + 1) /\ q < colon
      BY <1>1, <1>3, <2>1
    <3> QED BY <1>1, <1>9, <3>1 DEF Positions
  <2>3. colon + 1 < j
    BY <1>9, <2>2, AgreeingGrows
  <2>4. q \in i..(j - 1) /\ colon \in i..(j - 1)
    BY <1>1, <1>3, <2>2, <2>3
  <2>5. <<q, colon>> \in P
    BY <1>3, <1>6, <1>9, <2>2, <2>4
  <2>6. x \in Keys(t[q]) \X table[<<colon + 1, j>>]
    BY <1>9
  <2>7. <<q, colon>>[1] = q /\ <<q, colon>>[2] = colon
    OBVIOUS
  <2> HIDE DEF P
  <2> QED BY <1>7, <2>5, <2>6, <2>7
<1> QED BY <1>2, <1>4, <1>8, <1>9

(***************************************************************************)
(* One round of a loop: either there is one way to go on, and the loop     *)
(* takes it, or there is none and it refuses.                              *)
(***************************************************************************)
Continues(t, close, table, p, l, k, y) ==
  /\ k \in Positions(t) /\ Kind(t, k) \in {Comma, close}
  /\ y \in Table(close, t, table)[<<p, k>>] /\ Fits(close, Append(l, y))

Advances(t, close, table, sp, p, l, s) ==
  \/ \E j \in (p + 1)..Len(t) : \E x \in Parts(t, Table(close, t, table)) :
       /\ \A k, y : Continues(t, close, table, p, l, k, y) <=> k = j /\ y = x
       /\ \/ Kind(t, j) = close /\ s = Ends(j + 1, Spelt(close, sp, Append(l, x)))
          \/ Kind(t, j) = Comma /\ s = Goes(j + 1, Spelt(close, sp, Append(l, x)))
  \/ /\ \A k, y : ~Continues(t, close, table, p, l, k, y)
     /\ \E a : s = Fails(a)

\* A part x that ends at j, and what stands there.
LEMMA AdvancesAfter ==
  ASSUME NEW t \in Texts, NEW close \in Enders, NEW table, NEW sp, NEW p \in Positions(t),
         NEW l, NEW j \in (p + 1)..(Len(t) + 1), Kind(t, j) # "ws",
         NEW x \in Parts(t, Table(close, t, table)), Fits(close, Append(l, x)),
         Exactly(t, Table(close, t, table), p, j, x)
  PROVE  Advances(t, close, table, sp, p, l, Separated(t, j, close, Spelt(close, sp, Append(l, x))))
<1> DEFINE parts == Spelt(close, sp, Append(l, x))
<1>1. j \in Positions(t) /\ (Kind(t, j) # "end" => j \in (p + 1)..Len(t))
  BY After
<1>2. \A k, y : Continues(t, close, table, p, l, k, y) => k = j /\ y = x
  BY MarksDiffer DEF Continues, Exactly
<1>3. j \in Positions(t) /\ x \in Table(close, t, table)[<<p, j>>]
  <2>1. j \in Positions(t)
    BY <1>1
  <2> QED BY <2>1 DEF Exactly
<1>4. CASE Kind(t, j) \in {Comma, close}
  <2>1. Continues(t, close, table, p, l, j, x)
    BY <1>3, <1>4 DEF Continues
  <2>2. j \in (p + 1)..Len(t)
    <3>1. "end" \notin {Comma, close}
      BY DEF Enders, Curly, Comma
    <3> QED BY <1>1, <1>4, <3>1
  <2>3. \/ Kind(t, j) = close /\ Separated(t, j, close, parts) = Ends(j + 1, parts)
        \/ Kind(t, j) = Comma /\ Separated(t, j, close, parts) = Goes(j + 1, parts)
    BY <1>4 DEF Separated, Comma
  <2> QED BY <1>2, <2>1, <2>2, <2>3 DEF Advances
<1>5. CASE Kind(t, j) \notin {Comma, close}
  <2>1. Separated(t, j, close, parts) = Fails(j)
    BY <1>5 DEF Separated, Comma
  <2>2. \A k, y : ~Continues(t, close, table, p, l, k, y)
    BY <1>2, <1>5 DEF Continues
  <2> QED BY <2>1, <2>2 DEF Advances
<1> QED BY <1>4, <1>5

LEMMA AdvancesNot ==
  ASSUME NEW t, NEW close, NEW table, NEW sp, NEW p, NEW l, NEW a,
         \A k, y : ~Continues(t, close, table, p, l, k, y)
  PROVE  Advances(t, close, table, sp, p, l, Fails(a))
  BY DEF Advances

LEMMA ElementTurn ==
  ASSUME NEW t \in Texts, NEW table, NEW sp, NEW inner, AllAgree(t, table, sp, inner),
         NEW p \in Positions(t), NEW l \in Seq(Parts(t, table))
  PROVE  Advances(t, "]", table, sp, p, l, Turn(t, inner, "]", Goes(p, Spelt("]", sp, l))))
<1> DEFINE s == Goes(p, Spelt("]", sp, l))
<1>1. s.at = p /\ s.parts = Spelt("]", sp, l) /\ ~s.over
  BY DEF Goes
<1> HIDE DEF s
<1>2. Turn(t, inner, "]", s) = NextElement(t, inner, s)
  BY <1>1 DEF Turn
<1>3. Table("]", t, table) = table
  BY DEF Table
<1>4. CASE ~inner[p].ok
  <2>1. NextElement(t, inner, s) = Fails(inner[p].at)
    BY <1>1, <1>4 DEF NextElement
  <2>2. Nothing(t, table, p)
    BY <1>4 DEF AllAgree, Agrees
  <2>3. \A k, y : ~Continues(t, "]", table, p, l, k, y)
    BY <1>3, <2>2, MarksDiffer DEF Continues, Nothing
  <2> QED BY <1>2, <2>1, <2>3, AdvancesNot DEF s
<1>5. CASE inner[p].ok
  <2>1. PICK j \in (p + 1)..(Len(t) + 1) : \E x :
           /\ j = whitespace(t, inner[p].at) /\ Kind(t, j) # "ws"
           /\ Exactly(t, table, p, j, x) /\ inner[p].out = sp[x] /\ x \in table[<<p, j>>]
           /\ x \in Parts(t, table)
    BY <1>5, AgreeingEnds
  <2>2. PICK x : /\ j = whitespace(t, inner[p].at) /\ Kind(t, j) # "ws"
                 /\ Exactly(t, table, p, j, x) /\ inner[p].out = sp[x] /\ x \in table[<<p, j>>]
                 /\ x \in Parts(t, table)
    BY <2>1
  <2>3. NextElement(t, inner, s) = Separated(t, j, "]", Append(Spelt("]", sp, l), inner[p].out))
    BY <1>1, <1>5, <2>2 DEF NextElement
  <2>4. Spelt("]", sp, Append(l, x)) = Append(Spelt("]", sp, l), inner[p].out)
    <3>1. Kept("]", sp, x) = inner[p].out
      BY <2>2 DEF Kept
    <3> QED BY <2>2, <3>1, SpeltMore
  <2>5. Fits("]", Append(l, x)) /\ "]" \in Enders
    BY MarksDiffer DEF Fits
  <2>6. Advances(t, "]", table, sp, p, l, Separated(t, j, "]", Spelt("]", sp, Append(l, x))))
    BY <1>3, <2>2, <2>5, AdvancesAfter
  <2> QED BY <1>2, <2>3, <2>4, <2>6 DEF s
<1> QED BY <1>4, <1>5

LEMMA MemberTurn ==
  ASSUME NEW t \in Texts, NEW table, NEW sp, NEW inner, AllAgree(t, table, sp, inner),
         NEW p \in Positions(t), NEW l \in Seq(Parts(t, Members(t, table))), Fits(Curly, l)
  PROVE  Advances(t, Curly, table, sp, p, l, Turn(t, inner, Curly, Goes(p, Spelt(Curly, sp, l))))
<1> DEFINE s == Goes(p, Spelt(Curly, sp, l))
           kept == Spelt(Curly, sp, l)
           all == Members(t, table)
<1>1. s.at = p /\ s.parts = kept /\ ~s.over
  BY DEF Goes
<1> HIDE DEF s
<1>2. Turn(t, inner, Curly, s) = NextMember(t, inner, s)
  BY <1>1 DEF Turn, Curly
<1>3. Table(Curly, t, table) = all
  BY DEF Table, Curly
<1>4. Len(t) \in Nat /\ p \in 1..(Len(t) + 1) /\ Kind(t, Len(t) + 1) = "end" /\ Positions(t) = 1..(Len(t) + 1)
      /\ \A k \in 1..Len(t) : t[k] \in Token /\ Kind(t, k) = t[k][1]
  BY KindsAre
<1>5. /\ Len(kept) = Len(l) /\ DOMAIN kept = 1..Len(l) /\ Len(l) \in Nat
      /\ \A k \in 1..Len(l) : kept[k].key = l[k][1]
  <2>1. DOMAIN l = 1..Len(l) /\ Len(l) \in Nat
    BY LenProperties
  <2>2. kept = [k \in 1..Len(l) |-> [key |-> l[k][1], value |-> sp[l[k][2]]]]
    BY <2>1 DEF Spelt, Kept, Curly
  <2> HIDE DEF kept
  <2>3. DOMAIN kept = 1..Len(l) /\ \A k \in 1..Len(l) : kept[k].key = l[k][1]
    BY <2>2
  <2>4. Len(kept) = Len(l)
    <3> DEFINE U == {kept[k] : k \in 1..Len(l)}
    <3>1. kept \in [1..Len(l) -> U]
      BY <2>2
    <3> HIDE DEF U
    <3>2. kept \in Seq(U)
      BY <2>1, <3>1, SeqDef
    <3>3. DOMAIN kept = 1..Len(kept) /\ Len(kept) \in Nat
      BY <3>2, LenProperties
    <3> QED BY <2>1, <2>3, <3>3, SameRange
  <2> QED BY <2>1, <2>3, <2>4
<1> HIDE DEF kept
<1>6. PICK q : q = whitespace(t, p)
  OBVIOUS
<1>7. PICK colon : colon = whitespace(t, q + 1)
  OBVIOUS
<1>8. q \in p..(Len(t) + 1) /\ Kind(t, q) # "ws"
  BY <1>6, WhitespaceEnds
<1>9. ASSUME NEW k \in Positions(t), Kind(t, k) # "ws", NEW y
      PROVE  y \in all[<<p, k>>] <=>
               /\ Kind(t, q) = "str" /\ Kind(t, colon) = ":"
               /\ \E key \in Keys(t[q]), m \in table[<<colon + 1, k>>] : y = <<key, m>>
  BY <1>6, <1>7, <1>9, MembersThere
<1>10. ASSUME NEW k, NEW y, Continues(t, Curly, table, p, l, k, y)
       PROVE  /\ Kind(t, q) = "str" /\ Kind(t, colon) = ":" /\ k \in Positions(t) /\ Kind(t, k) # "ws"
              /\ \E key \in Keys(t[q]), m \in table[<<colon + 1, k>>] : y = <<key, m>>
              /\ y \in Parts(t, all) /\ Fits(Curly, Append(l, y))
  <2>1. k \in Positions(t) /\ Kind(t, k) # "ws" /\ y \in all[<<p, k>>] /\ Fits(Curly, Append(l, y))
    BY <1>3, <1>10, MarksDiffer DEF Continues
  <2>2. <<p, k>> \in Spans(t)
    BY <2>1 DEF Spans
  <2>3. y \in Parts(t, all)
    BY <2>1, <2>2 DEF Parts
  <2> QED BY <1>9, <2>1, <2>3
<1> HIDE DEF all
<1>11. CASE Kind(t, q) # "str"
  <2>1. NextMember(t, inner, s) = Fails(q)
    BY <1>1, <1>6, <1>11 DEF NextMember, Curly
  <2>2. \A k, y : ~Continues(t, Curly, table, p, l, k, y)
    BY <1>10, <1>11
  <2> QED BY <1>2, <2>1, <2>2, AdvancesNot DEF s
<1> DEFINE key == string(t[q][2])
<1>12. Kind(t, q) = "str" =>
         /\ q \in 1..Len(t) /\ q + 1 \in Positions(t) /\ t[q] \in Token /\ t[q][1] = "str"
         /\ \A a : a \in Keys(t[q]) <=> key.ok /\ a = key.out /\ a \notin NotNFC /\ \A k \in DOMAIN a : a[k] # 0
  <2> SUFFICES ASSUME Kind(t, q) = "str"
               PROVE  /\ q \in 1..Len(t) /\ q + 1 \in Positions(t) /\ t[q] \in Token /\ t[q][1] = "str"
                      /\ \A a : a \in Keys(t[q]) <=> key.ok /\ a = key.out /\ a \notin NotNFC /\ \A k \in DOMAIN a : a[k] # 0
    OBVIOUS
  <2>1. q \in 1..Len(t) /\ q + 1 \in Positions(t) /\ t[q] \in Token /\ t[q][1] = "str"
    BY <1>8, Later
  <2> QED BY <2>1, KeysAre
<1> HIDE DEF key
<1>13. KeyAccepted(key, kept) <=>
         /\ key.ok /\ key.out \notin NotNFC /\ \A k \in DOMAIN key.out : key.out[k] # 0
         /\ Len(l) < ObjectMembers /\ \A k \in 1..Len(l) : l[k][1] # key.out
  BY <1>5 DEF KeyAccepted
<1>14. CASE Kind(t, q) = "str" /\ ~KeyAccepted(key, kept)
  <2>1. NextMember(t, inner, s) = Fails(q)
    BY <1>1, <1>6, <1>14 DEF NextMember, Curly, key
  <2>2. ASSUME NEW k, NEW y, Continues(t, Curly, table, p, l, k, y) PROVE FALSE
    <3>1. /\ Kind(t, q) = "str" /\ Kind(t, colon) = ":" /\ k \in Positions(t) /\ Kind(t, k) # "ws"
          /\ \E a \in Keys(t[q]), m \in table[<<colon + 1, k>>] : y = <<a, m>>
          /\ y \in Parts(t, all) /\ Fits(Curly, Append(l, y))
      BY <1>10, <2>2
    <3>2. PICK a \in Keys(t[q]), m \in table[<<colon + 1, k>>] : y = <<a, m>>
      BY <3>1
    <3>3. Len(l) < ObjectMembers /\ \A n \in 1..Len(l) : l[n][1] # y[1]
      BY <3>1, FitsMore DEF all
    <3>4. y[1] = a /\ key.ok /\ a = key.out /\ a \notin NotNFC /\ \A n \in DOMAIN a : a[n] # 0
      BY <1>12, <1>14, <3>2
    <3> QED BY <1>13, <1>14, <3>3, <3>4
  <2> QED BY <1>2, <2>1, <2>2, AdvancesNot DEF s
<1>15. CASE Kind(t, q) = "str" /\ KeyAccepted(key, kept) /\ Kind(t, colon) # ":"
  <2>1. NextMember(t, inner, s) = Fails(colon)
    BY <1>1, <1>6, <1>7, <1>15 DEF NextMember, Curly, key
  <2>2. \A k, y : ~Continues(t, Curly, table, p, l, k, y)
    BY <1>10, <1>15
  <2> QED BY <1>2, <2>1, <2>2, AdvancesNot DEF s
<1>16. CASE Kind(t, q) = "str" /\ KeyAccepted(key, kept) /\ Kind(t, colon) = ":"
  <2>5. PICK r : r = colon + 1
    OBVIOUS
  <2> DEFINE member == inner[r]
  <2>1. q + 1 \in Positions(t) /\ colon \in (q + 1)..(Len(t) + 1)
    BY <1>7, <1>12, <1>16, WhitespaceEnds
  <2>2. r \in Positions(t) /\ \A j \in (r + 1)..(Len(t) + 1) : j \in Positions(t) /\ j \in (p + 1)..(Len(t) + 1)
    BY <1>8, <1>16, <2>1, <2>5, Further
  <2>3. CASE ~member.ok
    <3>1. NextMember(t, inner, s) = Fails(member.at)
      BY <1>1, <1>6, <1>7, <1>16, <2>3, <2>5 DEF NextMember, Curly, key
    <3>2. Nothing(t, table, r)
      BY <2>2, <2>3 DEF AllAgree, Agrees
    <3>3. \A k, y : ~Continues(t, Curly, table, p, l, k, y)
      BY <1>10, <2>5, <3>2 DEF Nothing
    <3> QED BY <1>2, <3>1, <3>3, AdvancesNot DEF s
  <2>4. CASE member.ok
    <3>1. PICK j \in (r + 1)..(Len(t) + 1) : \E x :
             /\ j = whitespace(t, inner[r].at) /\ Kind(t, j) # "ws"
             /\ Exactly(t, table, r, j, x) /\ inner[r].out = sp[x] /\ x \in table[<<r, j>>]
             /\ x \in Parts(t, table)
      <4>1. r \in Positions(t) /\ inner[r].ok
        BY <2>2, <2>4
      <4> QED BY <4>1, AgreeingEnds
    <3>2. PICK m : /\ j = whitespace(t, inner[r].at) /\ Kind(t, j) # "ws"
                   /\ Exactly(t, table, r, j, m) /\ inner[r].out = sp[m] /\ m \in table[<<r, j>>]
                   /\ m \in Parts(t, table)
      BY <3>1
    <3> DEFINE x == <<key.out, m>>
    <3>3. NextMember(t, inner, s) = Separated(t, j, Curly, Append(kept, [key |-> key.out, value |-> member.out]))
      BY <1>1, <1>6, <1>7, <1>16, <2>4, <2>5, <3>2 DEF NextMember, Curly, key
    <3>4. key.out \in Keys(t[q])
      BY <1>12, <1>13, <1>16
    <3>5. j \in Positions(t) /\ j \in (p + 1)..(Len(t) + 1)
      BY <2>2
    <3>6. x \in all[<<p, j>>]
      BY <1>9, <1>16, <2>5, <3>2, <3>4, <3>5
    <3>7. x \in Parts(t, all)
      <4>1. <<p, j>> \in Spans(t)
        BY <3>5 DEF Spans
      <4> QED BY <3>6, <4>1 DEF Parts
    <3>8. Exactly(t, all, p, j, x)
      <4>1. ASSUME NEW k \in Positions(t), NEW y, Kind(t, k) # "ws", y \in all[<<p, k>>] PROVE k = j /\ y = x
        <5>1. PICK a \in Keys(t[q]), n \in table[<<r, k>>] : y = <<a, n>>
          BY <1>9, <2>5, <4>1
        <5>2. k = j /\ n = m
          BY <3>2, <4>1, <5>1 DEF Exactly
        <5>3. a = key.out
          BY <1>12, <1>16, <5>1
        <5> QED BY <5>1, <5>2, <5>3
      <4> QED BY <3>6, <4>1 DEF Exactly
    <3>9. Fits(Curly, Append(l, x))
      <4>1. x[1] = key.out
        OBVIOUS
      <4> HIDE DEF x
      <4>2. Len(l) < ObjectMembers /\ \A k \in 1..Len(l) : l[k][1] # x[1]
        BY <1>13, <1>16, <4>1
      <4> QED BY <3>7, <4>2, FitsMore DEF all
    <3>10. Spelt(Curly, sp, Append(l, x)) = Append(kept, [key |-> key.out, value |-> member.out])
      <4>1. Kept(Curly, sp, x) = [key |-> key.out, value |-> member.out]
        BY <3>2 DEF Kept, Curly
      <4> HIDE DEF x
      <4>2. Spelt(Curly, sp, Append(l, x)) = Append(Spelt(Curly, sp, l), Kept(Curly, sp, x))
        BY <3>7, SpeltMore DEF all
      <4> QED BY <4>1, <4>2 DEF kept
    <3> HIDE DEF x
    <3>11. Advances(t, Curly, table, sp, p, l, Separated(t, j, Curly, Spelt(Curly, sp, Append(l, x))))
      BY <1>3, <3>2, <3>5, <3>7, <3>8, <3>9, AdvancesAfter, MarksDiffer
    <3> QED BY <1>2, <3>3, <3>10, <3>11 DEF s
  <2> QED BY <2>3, <2>4
<1> QED BY <1>11, <1>14, <1>15, <1>16

LEMMA TurnAdvances ==
  ASSUME NEW t \in Texts, NEW table, NEW sp, NEW inner, AllAgree(t, table, sp, inner), NEW close \in Enders,
         NEW p \in Positions(t), NEW l \in Seq(Parts(t, Table(close, t, table))), Fits(close, l)
  PROVE  Advances(t, close, table, sp, p, l, Turn(t, inner, close, Goes(p, Spelt(close, sp, l))))
<1>1. CASE close = "]"
  <2>1. Table(close, t, table) = table
    BY <1>1 DEF Table
  <2>2. l \in Seq(Parts(t, table))
    BY <2>1
  <2> QED BY <1>1, <2>2, ElementTurn
<1>2. CASE close = Curly
  <2>1. Table(close, t, table) = Members(t, table)
    BY <1>2, MarksDiffer DEF Table
  <2>2. l \in Seq(Parts(t, Members(t, table)))
    BY <2>1
  <2> QED BY <1>2, <2>2, MemberTurn
<1> QED BY <1>1, <1>2 DEF Enders

(***************************************************************************)
(* A whole loop.  The list of n parts that ends at a cut is reached; the   *)
(* one that ends at the closing bracket closes the loop.                   *)
(***************************************************************************)
Begins(t, table, i, start) ==
  /\ start \in i..(Len(t) + 1)
  /\ \A j \in Positions(t) : Kind(t, j) # "ws" => table[<<i, j>>] = table[<<start, j>>]

Place(i, start, c) == IF c = i - 1 THEN start ELSE c + 1

Reached(t, close, table, i, n, c, l) ==
  /\ c \in (i - 1)..Len(t) /\ (c = i - 1 \/ t[c][1] = Comma)
  /\ l \in Lists(t, Table(close, t, table), i)[c] /\ Len(l) = n /\ Fits(close, l)

Closed(t, close, table, i, c, l) ==
  /\ c \in i..Len(t) /\ t[c][1] = close
  /\ l \in Lists(t, Table(close, t, table), i)[c] /\ Fits(close, l)

LEMMA PlaceIsThere ==
  ASSUME NEW t \in Texts, NEW i \in Positions(t), NEW start \in i..(Len(t) + 1), NEW c \in (i - 1)..Len(t)
  PROVE  Place(i, start, c) \in Positions(t) /\ c < Place(i, start, c)
<1>1. Len(t) \in Nat /\ i \in 1..(Len(t) + 1)
  BY KindsAre
<1> QED BY <1>1 DEF Place, Positions

\* A list is grown by one part.
LEMMA Grown ==
  ASSUME NEW t \in Texts, NEW close \in Enders, NEW table, NEW i \in Positions(t), NEW start,
         Begins(t, Table(close, t, table), i, start),
         NEW n \in Nat, NEW d \in i..Len(t), Kind(t, d) \in {Comma, close}, NEW k
  PROVE  k \in Lists(t, Table(close, t, table), i)[d] /\ Fits(close, k) /\ Len(k) = n + 1 <=>
           \E c, l, y : /\ Reached(t, close, table, i, n, c, l) /\ c < d /\ k = Append(l, y)
                        /\ Continues(t, close, table, Place(i, start, c), l, d, y)
<1> DEFINE all == Table(close, t, table)
           lists == Lists(t, all, i)
           W == Parts(t, all)
<1>1. /\ Len(t) \in Nat /\ i \in 1..(Len(t) + 1) /\ Positions(t) = 1..(Len(t) + 1)
      /\ \A j \in 1..Len(t) : Kind(t, j) = t[j][1]
  BY KindsAre
<1>2. d \in Positions(t) /\ d \in i..(Len(t) + 1) /\ Kind(t, d) # "ws"
  BY <1>1, MarksDiffer
<1>3. \A c \in (i - 1)..(Len(t) + 1) : lists[c] \subseteq Seq(W)
  BY ListsAreSequences
<1>4. \A c \in (i - 1)..Len(t) : all[<<c + 1, d>>] = all[<<Place(i, start, c), d>>]
  <2> TAKE c \in (i - 1)..Len(t)
  <2>1. c = i - 1 => c + 1 = i
    BY <1>1
  <2> HIDE DEF all
  <2> QED BY <1>2, <2>1 DEF Place, Begins, all
<1>5. \A c : c \in Cuts(t, i, d) <=> c \in (i - 1)..Len(t) /\ c < d /\ (c = i - 1 \/ t[c][1] = Comma)
  <2> TAKE c
  <2>1. c \in {i - 1} \cup i..(d - 1) <=> c \in (i - 1)..Len(t) /\ c < d
    BY <1>1
  <2>2. c = i - 1 => c \notin i..(d - 1)
    BY <1>1
  <2> QED BY <2>1, <2>2 DEF Cuts
<1>6. \A c \in (i - 1)..Len(t) : c < d => <<c + 1, d>> \in Spans(t) /\ c \in (i - 1)..(Len(t) + 1)
  <2> TAKE c \in (i - 1)..Len(t)
  <2>1. c < d => c + 1 \in 1..(Len(t) + 1) /\ c \in (i - 1)..(Len(t) + 1)
    BY <1>1
  <2> QED BY <1>1, <1>2, <2>1 DEF Spans
<1>7. k \in lists[d] <=> \E c \in Cuts(t, i, d) : \E l \in lists[c], y \in all[<<c + 1, d>>] : k = Append(l, y)
  <2> HIDE DEF all
  <2>1. \A j \in i..(Len(t) + 1) : \A x :
          x \in lists[j] <=> \E c \in Cuts(t, i, j) : \E l \in lists[c], y \in all[<<c + 1, j>>] : x = Append(l, y)
    BY ListsAre
  <2> QED BY <1>2, <2>1
<1>8. ASSUME NEW c \in (i - 1)..Len(t), c < d, NEW l \in lists[c], NEW y \in all[<<c + 1, d>>]
      PROVE  /\ Len(Append(l, y)) = n + 1 <=> Len(l) = n
             /\ Fits(close, Append(l, y)) => Fits(close, l)
  <2>1. l \in Seq(W) /\ y \in W
    BY <1>3, <1>6, <1>8 DEF Parts
  <2> HIDE DEF W
  <2>2. Len(Append(l, y)) = Len(l) + 1 /\ Len(l) \in Nat
    BY <2>1, AppendIs
  <2>3. Fits(close, Append(l, y)) => Fits(close, l)
    BY <2>1, FitsMore
  <2>4. Len(Append(l, y)) = n + 1 <=> Len(l) = n
    BY <2>2
  <2> QED BY <2>3, <2>4
<1> HIDE DEF lists, W
<1>9. ASSUME k \in lists[d], Fits(close, k), Len(k) = n + 1
      PROVE  \E c, l, y : /\ Reached(t, close, table, i, n, c, l) /\ c < d /\ k = Append(l, y)
                          /\ Continues(t, close, table, Place(i, start, c), l, d, y)
  <2>1. PICK c \in Cuts(t, i, d) : \E l \in lists[c], y \in all[<<c + 1, d>>] : k = Append(l, y)
    BY <1>7, <1>9
  <2>2. PICK l \in lists[c], y \in all[<<c + 1, d>>] : k = Append(l, y)
    BY <2>1
  <2>3. c \in (i - 1)..Len(t) /\ c < d /\ (c = i - 1 \/ t[c][1] = Comma)
    BY <1>5
  <2>4. Len(l) = n /\ Fits(close, l)
    BY <1>8, <1>9, <2>2, <2>3
  <2>5. Reached(t, close, table, i, n, c, l)
    BY <2>3, <2>4 DEF Reached, lists
  <2>6. Continues(t, close, table, Place(i, start, c), l, d, y)
    BY <1>2, <1>4, <1>9, <2>2, <2>3 DEF Continues
  <2> QED BY <2>2, <2>3, <2>5, <2>6
<1>10. ASSUME NEW c, NEW l, NEW y, Reached(t, close, table, i, n, c, l), c < d, k = Append(l, y),
              Continues(t, close, table, Place(i, start, c), l, d, y)
       PROVE  k \in lists[d] /\ Fits(close, k) /\ Len(k) = n + 1
  <2>1. c \in (i - 1)..Len(t) /\ (c = i - 1 \/ t[c][1] = Comma) /\ l \in lists[c] /\ Len(l) = n
    BY <1>10 DEF Reached, lists
  <2>2. y \in all[<<c + 1, d>>] /\ Fits(close, k)
    BY <1>4, <1>10, <2>1 DEF Continues
  <2>3. c \in Cuts(t, i, d)
    BY <1>5, <1>10, <2>1
  <2>4. k \in lists[d]
    BY <1>7, <1>10, <2>1, <2>2, <2>3
  <2>5. Len(k) = n + 1
    BY <1>8, <1>10, <2>1, <2>2
  <2> QED BY <2>2, <2>4, <2>5
<1> QED BY <1>9, <1>10 DEF lists

LEMMA NoLonger ==
  ASSUME NEW t \in Texts, NEW close \in Enders, NEW table, NEW i \in Positions(t), NEW start,
         Begins(t, Table(close, t, table), i, start),
         NEW n \in Nat
  PROVE  (\A c, l : ~Reached(t, close, table, i, n, c, l)) => \A c, l : Closed(t, close, table, i, c, l) => Len(l) <= n
<1> DEFINE R(m, c, l) == Reached(t, close, table, i, m, c, l)
           T == {m \in Nat : \A c, l : ~R(n + m, c, l)}
<1>1. /\ Len(t) \in Nat /\ i \in 1..(Len(t) + 1)
      /\ \A j \in 1..Len(t) : Kind(t, j) = t[j][1]
  BY KindsAre
<1>0. ASSUME NEW m \in Nat, NEW c \in i..Len(t), Kind(t, c) \in {Comma, close}, NEW l
      PROVE  l \in Lists(t, Table(close, t, table), i)[c] /\ Fits(close, l) /\ Len(l) = m + 1 <=>
               \E d, k, y : /\ R(m, d, k) /\ d < c /\ l = Append(k, y)
                            /\ Continues(t, close, table, Place(i, start, d), k, c, y)
  BY <1>0, Grown
<1>2. ASSUME NEW m \in Nat, NEW d, NEW k, R(m + 1, d, k) PROVE \E c, l : R(m, c, l)
  <2>1. d \in (i - 1)..Len(t) /\ (d = i - 1 \/ t[d][1] = Comma)
        /\ k \in Lists(t, Table(close, t, table), i)[d] /\ Len(k) = m + 1 /\ Fits(close, k)
    BY <1>2 DEF Reached
  <2>2. d # i - 1
    <3>1. ASSUME d = i - 1 PROVE FALSE
      <4>1. k = <<>>
        BY <2>1, <3>1, ListsAre
      <4>2. Len(k) = 0
        BY <4>1
      <4>3. m + 1 # 0
        OBVIOUS
      <4> QED BY <2>1, <4>2, <4>3
    <3> QED BY <3>1
  <2>3. d \in i..Len(t) /\ d \in 1..Len(t)
    BY <1>1, <2>1, <2>2
  <2>4. Kind(t, d) \in {Comma, close}
    BY <1>1, <2>1, <2>2, <2>3
  <2> QED BY <2>1, <2>3, <2>4, Grown
<1>3. ASSUME NEW c, NEW l, Closed(t, close, table, i, c, l)
      PROVE  \E m \in Nat : Len(l) = m + 1 /\ \E d, k : R(m, d, k)
  <2>1. c \in i..Len(t) /\ t[c][1] = close /\ l \in Lists(t, Table(close, t, table), i)[c] /\ Fits(close, l)
    BY <1>3 DEF Closed
  <2>2. c \in 1..Len(t) /\ c \in i..(Len(t) + 1) /\ c \in (i - 1)..(Len(t) + 1)
    BY <1>1, <2>1
  <2>3. l # <<>> /\ l \in Seq(Parts(t, Table(close, t, table)))
    BY <2>1, <2>2, ListsAreSequences
  <2>4. Len(l) \in Nat /\ Len(l) # 0
    BY <2>3, EmptySeq, LenProperties
  <2>5. PICK m \in Nat : Len(l) = m + 1
    <3>1. Len(l) - 1 \in Nat /\ Len(l) = (Len(l) - 1) + 1
      BY <2>4
    <3> QED BY <3>1
  <2>6. Kind(t, c) \in {Comma, close}
    BY <1>1, <2>1, <2>2
  <2>7. \E d, k, y : R(m, d, k) /\ d < c /\ l = Append(k, y) /\ Continues(t, close, table, Place(i, start, d), k, c, y)
    <3> HIDE DEF R
    <3>1. l \in Lists(t, Table(close, t, table), i)[c] /\ Fits(close, l) /\ Len(l) = m + 1 /\ c \in i..Len(t)
      BY <2>1, <2>5
    <3> QED BY <1>0, <2>6, <3>1
  <2> QED BY <2>5, <2>7
<1> HIDE DEF R
<1> SUFFICES ASSUME \A c, l : ~Reached(t, close, table, i, n, c, l)
             PROVE  \A c, l : Closed(t, close, table, i, c, l) => Len(l) <= n
  OBVIOUS
<1>4. \A c, l : ~R(n, c, l)
  BY DEF R
<1>5. 0 \in T
  BY <1>4
<1>6. ASSUME NEW m \in T PROVE m + 1 \in T
  <2>1. n + m \in Nat /\ n + (m + 1) = (n + m) + 1
    OBVIOUS
  <2>2. \A d, k : ~R(n + (m + 1), d, k)
    BY <1>2, <1>6, <2>1
  <2> QED BY <2>2
<1>7. ASSUME NEW m \in Nat, \A k \in 0..(m - 1) : k \in T PROVE m \in T
  <2>1. CASE m = 0
    BY <1>5, <2>1
  <2>2. CASE m # 0
    <3>1. m - 1 \in 0..(m - 1) /\ (m - 1) + 1 = m
      BY <2>2
    <3>2. m - 1 \in T
      BY <1>7, <3>1
    <3> HIDE DEF T
    <3>3. (m - 1) + 1 \in T
      BY <1>6, <3>2
    <3> QED BY <3>1, <3>3
  <2> QED BY <2>1, <2>2
<1> HIDE DEF T
<1>8. Nat \subseteq T
  BY <1>7, Induction
<1>9. ASSUME NEW c, NEW l, Closed(t, close, table, i, c, l) PROVE Len(l) <= n
  <2>1. PICK m \in Nat : Len(l) = m + 1 /\ \E d, k : R(m, d, k)
    BY <1>3, <1>9
  <2>2. ASSUME m >= n PROVE FALSE
    <3>1. m - n \in Nat /\ n + (m - n) = m
      BY <2>2
    <3>2. m - n \in T
      BY <1>8, <3>1
    <3> QED BY <2>1, <3>1, <3>2 DEF T
  <2> QED BY <2>1, <2>2
<1> QED BY <1>9

Done(t, close, table, sp, i, s) ==
  \/ \E c, l : (\A d, k : Closed(t, close, table, i, d, k) <=> d = c /\ k = l) /\ s = Ends(c + 1, Spelt(close, sp, l))
  \/ (\A d, k : ~Closed(t, close, table, i, d, k)) /\ \E a : s = Fails(a)

Underway(t, close, table, sp, i, start, n, s, c, l) ==
  /\ \A d, k : Reached(t, close, table, i, n, d, k) <=> d = c /\ k = l
  /\ \A d, k : Closed(t, close, table, i, d, k) => Len(k) # n /\ ~(Len(k) < n)
  /\ start + n <= Place(i, start, c)
  /\ s = Goes(Place(i, start, c), Spelt(close, sp, l))

\* A round takes the only list there is to the next one.
LEMMA RoundAdvances ==
  ASSUME NEW t \in Texts, NEW table, NEW sp, NEW inner, AllAgree(t, table, sp, inner), NEW close \in Enders,
         NEW i \in Positions(t), NEW start, Begins(t, Table(close, t, table), i, start), NEW n \in Nat,
         NEW s, NEW c, NEW l, Underway(t, close, table, sp, i, start, n, s, c, l)
  PROVE  LET s2 == Turn(t, inner, close, s)
         IN Done(t, close, table, sp, i, s2) \/ \E d, k : Underway(t, close, table, sp, i, start, n + 1, s2, d, k)
<1> DEFINE all == Table(close, t, table)
           lists == Lists(t, all, i)
           p == Place(i, start, c)
           s2 == Turn(t, inner, close, s)
           R(m, d, k) == Reached(t, close, table, i, m, d, k)
           C(d, k) == Closed(t, close, table, i, d, k)
           On(d, y) == Continues(t, close, table, p, l, d, y)
<1>1. /\ Len(t) \in Nat /\ i \in 1..(Len(t) + 1) /\ Positions(t) = 1..(Len(t) + 1)
      /\ \A j \in 1..Len(t) : Kind(t, j) = t[j][1]
  BY KindsAre
<1>2. \A d, k : R(n, d, k) <=> d = c /\ k = l
  BY DEF Underway
<1>3. \A d, k : C(d, k) => Len(k) # n /\ ~(Len(k) < n)
  BY DEF Underway
<1>4. c \in (i - 1)..Len(t) /\ l \in lists[c] /\ Fits(close, l)
  BY <1>2 DEF Reached
<1>5. start \in Int /\ start \in i..(Len(t) + 1)
  BY <1>1 DEF Begins
<1>6. p \in Positions(t) /\ c < p /\ start + n <= p
  BY <1>4, <1>5, PlaceIsThere DEF Underway
<1>7. l \in Seq(Parts(t, all))
  <2>1. c \in (i - 1)..(Len(t) + 1)
    BY <1>1, <1>4
  <2> QED BY <1>4, <2>1, ListsAreSequences
<1>8. Advances(t, close, table, sp, p, l, s2)
  <2>1. s = Goes(p, Spelt(close, sp, l))
    BY DEF Underway
  <2> HIDE DEF p, all
  <2>2. Advances(t, close, table, sp, p, l, Turn(t, inner, close, Goes(p, Spelt(close, sp, l))))
    BY <1>4, <1>6, <1>7, TurnAdvances DEF all
  <2> QED BY <2>1, <2>2
<1>9. ASSUME NEW d \in i..Len(t), Kind(t, d) \in {Comma, close}, NEW k
      PROVE  k \in lists[d] /\ Fits(close, k) /\ Len(k) = n + 1 <=> \E y : c < d /\ On(d, y) /\ k = Append(l, y)
  <2>1. k \in lists[d] /\ Fits(close, k) /\ Len(k) = n + 1 <=>
          \E e, h, y : /\ R(n, e, h) /\ e < d /\ k = Append(h, y)
                       /\ Continues(t, close, table, Place(i, start, e), h, d, y)
    BY <1>9, Grown
  <2> HIDE DEF lists, R
  <2>2. ASSUME NEW e, NEW h, NEW y, R(n, e, h), e < d, k = Append(h, y),
               Continues(t, close, table, Place(i, start, e), h, d, y)
        PROVE  \E x : c < d /\ On(d, x) /\ k = Append(l, x)
    <3>1. e = c /\ h = l
      BY <1>2, <2>2
    <3> QED BY <2>2, <3>1
  <2>3. ASSUME NEW y, c < d, On(d, y), k = Append(l, y)
        PROVE  \E e, h, x : /\ R(n, e, h) /\ e < d /\ k = Append(h, x)
                             /\ Continues(t, close, table, Place(i, start, e), h, d, x)
    <3>1. R(n, c, l)
      BY <1>2
    <3> QED BY <2>3, <3>1
  <2> HIDE DEF On
  <2> QED BY <2>1, <2>2, <2>3
<1>10. ASSUME NEW d, NEW k, R(n + 1, d, k)
       PROVE  /\ d \in i..Len(t) /\ Kind(t, d) = Comma
              /\ \E y : On(d, y) /\ k = Append(l, y)
  <2>1. d \in (i - 1)..Len(t) /\ (d = i - 1 \/ t[d][1] = Comma)
        /\ k \in lists[d] /\ Len(k) = n + 1 /\ Fits(close, k)
    BY <1>10 DEF Reached
  <2>2. d # i - 1
    <3>1. ASSUME d = i - 1 PROVE FALSE
      <4>1. k = <<>>
        BY <2>1, <3>1, ListsAre
      <4>2. Len(k) = 0
        BY <4>1
      <4>3. n + 1 # 0
        OBVIOUS
      <4> QED BY <2>1, <4>2, <4>3
    <3> QED BY <3>1
  <2>3. d \in i..Len(t) /\ d \in 1..Len(t)
    BY <1>1, <2>1, <2>2
  <2>4. Kind(t, d) = Comma
    BY <1>1, <2>1, <2>2, <2>3
  <2> QED BY <1>9, <2>1, <2>3, <2>4
<1>11. ASSUME NEW d, NEW k, C(d, k)
       PROVE  /\ d \in i..Len(t) /\ Kind(t, d) = close /\ Len(k) \in Nat /\ ~(Len(k) < n + 1)
              /\ Len(k) = n + 1 => \E y : On(d, y) /\ k = Append(l, y)
  <2>1. d \in i..Len(t) /\ t[d][1] = close /\ k \in lists[d] /\ Fits(close, k)
    BY <1>11 DEF Closed
  <2>2. d \in 1..Len(t) /\ d \in (i - 1)..(Len(t) + 1)
    BY <1>1, <2>1
  <2>3. Kind(t, d) = close
    BY <1>1, <2>1, <2>2
  <2>4. Len(k) \in Nat
    BY <2>1, <2>2, ListsAreSequences, LenProperties
  <2>5. Len(k) # n /\ ~(Len(k) < n)
    BY <1>3, <1>11
  <2>6. ~(Len(k) < n + 1)
    BY <2>4, <2>5
  <2>7. Len(k) = n + 1 => \E y : On(d, y) /\ k = Append(l, y)
    BY <1>9, <2>1, <2>3
  <2> QED BY <2>1, <2>3, <2>4, <2>6, <2>7
<1> HIDE DEF p
<1>12. ASSUME \A d, k : ~R(n + 1, d, k), NEW d, NEW k, C(d, k)
       PROVE  \E y : On(d, y) /\ k = Append(l, y)
  <2>1. Len(k) <= n + 1
    <3>1. n + 1 \in Nat
      OBVIOUS
    <3>2. \A e, h : ~Reached(t, close, table, i, n + 1, e, h)
      BY <1>12
    <3> QED BY <1>12, <3>1, <3>2, NoLonger
  <2>2. Len(k) \in Nat /\ ~(Len(k) < n + 1)
    BY <1>11, <1>12
  <2>3. Len(k) = n + 1
    BY <2>1, <2>2
  <2> QED BY <1>11, <1>12, <2>3
<1>13. ASSUME NEW j \in (p + 1)..Len(t), NEW x, \A k, y : On(k, y) <=> k = j /\ y = x,
              Kind(t, j) \in {Comma, close}
       PROVE  /\ j \in i..Len(t) /\ j # i - 1 /\ start + (n + 1) <= j + 1 /\ Kind(t, j) = t[j][1]
              /\ Append(l, x) \in lists[j] /\ Fits(close, Append(l, x)) /\ Len(Append(l, x)) = n + 1
  <2>1. j \in i..Len(t) /\ j \in 1..Len(t) /\ c < j /\ j # i - 1 /\ start + (n + 1) <= j + 1
    BY <1>1, <1>4, <1>5, <1>6
  <2>2. On(j, x)
    BY <1>13
  <2> HIDE DEF On, lists
  <2>3. Append(l, x) \in lists[j] /\ Fits(close, Append(l, x)) /\ Len(Append(l, x)) = n + 1
    BY <1>9, <1>13, <2>1, <2>2
  <2> QED BY <1>1, <2>1, <2>3
<1>14. ASSUME NEW j \in (p + 1)..Len(t), NEW x, \A k, y : On(k, y) <=> k = j /\ y = x,
              Kind(t, j) = close, s2 = Ends(j + 1, Spelt(close, sp, Append(l, x)))
       PROVE  Done(t, close, table, sp, i, s2)
  <2>1. /\ j \in i..Len(t) /\ Kind(t, j) = t[j][1]
        /\ Append(l, x) \in lists[j] /\ Fits(close, Append(l, x)) /\ Len(Append(l, x)) = n + 1
    BY <1>13, <1>14
  <2>2. C(j, Append(l, x))
    BY <1>14, <2>1 DEF Closed
  <2>3. \A d, k : ~R(n + 1, d, k)
    BY <1>10, <1>14, MarksDiffer
  <2> HIDE DEF On, C, R, lists, s2
  <2>4. ASSUME NEW d, NEW k, C(d, k) PROVE d = j /\ k = Append(l, x)
    BY <1>12, <1>14, <2>3, <2>4
  <2> QED BY <1>14, <2>2, <2>4 DEF Done, C
<1>15. ASSUME NEW j \in (p + 1)..Len(t), NEW x, \A k, y : On(k, y) <=> k = j /\ y = x,
              Kind(t, j) = Comma, s2 = Goes(j + 1, Spelt(close, sp, Append(l, x)))
       PROVE  Underway(t, close, table, sp, i, start, n + 1, s2, j, Append(l, x))
  <2>1. /\ j \in i..Len(t) /\ j # i - 1 /\ start + (n + 1) <= j + 1 /\ Kind(t, j) = t[j][1]
        /\ Append(l, x) \in lists[j] /\ Fits(close, Append(l, x)) /\ Len(Append(l, x)) = n + 1
    BY <1>13, <1>15
  <2>2. R(n + 1, j, Append(l, x))
    <3>1. j \in (i - 1)..Len(t)
      BY <1>1, <2>1
    <3> QED BY <1>15, <2>1, <3>1 DEF Reached
  <2>3. Place(i, start, j) = j + 1
    BY <2>1 DEF Place
  <2> HIDE DEF On, C, R, lists, s2
  <2>4. \A d, k : R(n + 1, d, k) <=> d = j /\ k = Append(l, x)
    BY <1>10, <1>15, <2>2
  <2>5. ASSUME NEW d, NEW k, C(d, k) PROVE Len(k) # n + 1 /\ ~(Len(k) < n + 1)
    <3>1. Kind(t, d) = close /\ ~(Len(k) < n + 1) /\ (Len(k) = n + 1 => \E y : On(d, y) /\ k = Append(l, y))
      BY <1>11, <2>5
    <3>2. Len(k) # n + 1
      BY <1>15, <3>1, MarksDiffer
    <3> QED BY <3>1, <3>2
  <2> QED BY <1>15, <2>1, <2>3, <2>4, <2>5 DEF Underway, R, C
<1>16. ASSUME \A k, y : ~On(k, y), NEW a, s2 = Fails(a)
       PROVE  Done(t, close, table, sp, i, s2)
  <2> HIDE DEF On, R, C, s2
  <2>1. \A d, k : ~R(n + 1, d, k)
    BY <1>10, <1>16
  <2>2. \A d, k : ~C(d, k)
    BY <1>12, <1>16, <2>1
  <2> QED BY <1>16, <2>2 DEF Done, C
<1> HIDE DEF s2
<1>17. \/ \E j \in (p + 1)..Len(t) : \E x :
            /\ \A k, y : On(k, y) <=> k = j /\ y = x
            /\ \/ Kind(t, j) = close /\ s2 = Ends(j + 1, Spelt(close, sp, Append(l, x)))
               \/ Kind(t, j) = Comma /\ s2 = Goes(j + 1, Spelt(close, sp, Append(l, x)))
       \/ (\A k, y : ~On(k, y)) /\ \E a : s2 = Fails(a)
  BY <1>8 DEF Advances
<1> HIDE DEF On
<1> QED BY <1>14, <1>15, <1>16, <1>17 DEF s2

LEMMA NothingSpelt ==
  ASSUME NEW close, NEW sp
  PROVE  Spelt(close, sp, <<>>) = <<>> /\ Fits(close, <<>>)
<1> DEFINE s == Spelt(close, sp, <<>>)
<1>1. DOMAIN <<>> = 1..0
  OBVIOUS
<1>2. s = [k \in 1..0 |-> Kept(close, sp, <<>>[k])]
  BY <1>1 DEF Spelt
<1> HIDE DEF s
<1>3. s \in [1..0 -> {}]
  BY <1>2
<1>4. s \in Seq({}) /\ Len(s) = 0
  BY <1>2, <1>3, SeqDef
<1>5. s = <<>>
  BY <1>4, EmptySeq
<1>6. Fits(close, <<>>)
  BY LimitsAssumption DEF Fits, Distinct
<1> QED BY <1>5, <1>6 DEF s

LEMMA LoopEnds ==
  ASSUME NEW t \in Texts, NEW table, NEW sp, NEW inner, AllAgree(t, table, sp, inner), NEW close \in Enders,
         NEW i \in Positions(t), 2 <= i, NEW start, Begins(t, Table(close, t, table), i, start)
  PROVE  Done(t, close, table, sp, i, Loop(t, inner, close, start))
<1>1. /\ Len(t) \in Nat /\ i \in 1..(Len(t) + 1) /\ Positions(t) = 1..(Len(t) + 1)
  BY KindsAre
<1>2. start \in Int /\ start \in i..(Len(t) + 1)
  BY <1>1 DEF Begins
<1>3. PICK f : /\ Loop(t, inner, close, start) = f[Len(t)] /\ f[0] = Goes(start, <<>>)
               /\ \A n \in 1..Len(t) : f[n] = Turn(t, inner, close, f[n - 1])
  BY <1>1, RoundsAre
<1> DEFINE U(n) == \E c, l : Underway(t, close, table, sp, i, start, n, f[n], c, l)
           D(n) == Done(t, close, table, sp, i, f[n])
           T == {n \in Nat : n <= Len(t) => D(n) \/ U(n)}
<1>4. U(0)
  <2>1. \A d, k : Reached(t, close, table, i, 0, d, k) <=> d = i - 1 /\ k = <<>>
    <3> TAKE d, k
    <3>1. ASSUME Reached(t, close, table, i, 0, d, k) PROVE d = i - 1 /\ k = <<>>
      <4>1. d \in (i - 1)..Len(t) /\ k \in Lists(t, Table(close, t, table), i)[d] /\ Len(k) = 0
        BY <3>1 DEF Reached
      <4>2. d \in (i - 1)..(Len(t) + 1) /\ (d # i - 1 => d \in i..(Len(t) + 1))
        BY <1>1, <4>1
      <4>3. k \in Seq(Parts(t, Table(close, t, table)))
        BY <4>1, <4>2, ListsAreSequences
      <4>4. k = <<>>
        BY <4>1, <4>3, EmptySeq
      <4>5. d = i - 1
        BY <4>1, <4>2, <4>4, ListsAreSequences
      <4> QED BY <4>4, <4>5
    <3>2. ASSUME d = i - 1, k = <<>> PROVE Reached(t, close, table, i, 0, d, k)
      <4>1. i - 1 \in (i - 1)..Len(t)
        BY <1>1
      <4>2. <<>> \in Lists(t, Table(close, t, table), i)[i - 1]
        BY ListsAre
      <4>3. Fits(close, <<>>)
        BY NothingSpelt
      <4>4. Len(<<>>) = 0
        OBVIOUS
      <4> QED BY <3>2, <4>1, <4>2, <4>3, <4>4 DEF Reached
    <3> QED BY <3>1, <3>2
  <2>2. ASSUME NEW d, NEW k, Closed(t, close, table, i, d, k) PROVE Len(k) # 0 /\ ~(Len(k) < 0)
    <3>1. d \in i..Len(t) /\ k \in Lists(t, Table(close, t, table), i)[d]
      BY <2>2 DEF Closed
    <3>2. d \in (i - 1)..(Len(t) + 1) /\ d \in i..(Len(t) + 1)
      BY <1>1, <3>1
    <3>3. k \in Seq(Parts(t, Table(close, t, table))) /\ k # <<>>
      BY <3>1, <3>2, ListsAreSequences
    <3> QED BY <3>3, EmptySeq, LenProperties
  <2>3. start + 0 <= Place(i, start, i - 1) /\ Place(i, start, i - 1) = start
    BY <1>2 DEF Place
  <2>4. f[0] = Goes(Place(i, start, i - 1), Spelt(close, sp, <<>>))
    BY <1>3, <2>3, NothingSpelt
  <2> QED BY <2>1, <2>2, <2>3, <2>4 DEF Underway
<1>5. ASSUME NEW n \in 1..Len(t), D(n - 1) PROVE D(n)
  <2>1. f[n - 1].over
    <3>1. (\E c, x : f[n - 1] = Ends(c, x)) \/ \E a : f[n - 1] = Fails(a)
      BY <1>5 DEF Done
    <3>2. \A c, x : Ends(c, x).over /\ Fails(c).over
      BY DEF Ends, Fails
    <3> QED BY <3>1, <3>2
  <2>2. f[n] = f[n - 1]
    BY <1>3, <2>1 DEF Turn
  <2> QED BY <1>5, <2>2
<1>6. ASSUME NEW n \in 1..Len(t), U(n - 1) PROVE D(n) \/ U(n)
  <2>1. PICK c, l : Underway(t, close, table, sp, i, start, n - 1, f[n - 1], c, l)
    BY <1>6
  <2>2. n - 1 \in Nat /\ (n - 1) + 1 = n
    BY <1>1
  <2>3. \/ Done(t, close, table, sp, i, Turn(t, inner, close, f[n - 1]))
        \/ \E d, k : Underway(t, close, table, sp, i, start, (n - 1) + 1, Turn(t, inner, close, f[n - 1]), d, k)
    BY <2>1, <2>2, RoundAdvances
  <2> QED BY <1>3, <2>2, <2>3
<1>7. ~U(Len(t))
  <2> SUFFICES ASSUME NEW c, NEW l, Underway(t, close, table, sp, i, start, Len(t), f[Len(t)], c, l) PROVE FALSE
    OBVIOUS
  <2>1. c \in (i - 1)..Len(t) /\ start + Len(t) <= Place(i, start, c)
    BY DEF Underway, Reached
  <2>2. Place(i, start, c) \in Positions(t)
    BY <1>2, <2>1, PlaceIsThere
  <2> QED BY <1>1, <1>2, <2>1, <2>2
<1> HIDE DEF U, D
<1>8. ASSUME NEW n \in Nat, \A m \in 0..(n - 1) : m \in T PROVE n \in T
  <2>1. CASE n = 0
    BY <1>4, <2>1
  <2>2. CASE n # 0
    <3>1. n - 1 \in 0..(n - 1) /\ (n <= Len(t) => n \in 1..Len(t) /\ n - 1 <= Len(t))
      BY <1>1, <2>2
    <3>2. n <= Len(t) => D(n - 1) \/ U(n - 1)
      BY <1>8, <3>1
    <3>3. n <= Len(t) => D(n) \/ U(n)
      BY <1>5, <1>6, <3>1, <3>2
    <3> QED BY <3>3
  <2> QED BY <2>1, <2>2
<1> HIDE DEF T
<1>9. Nat \subseteq T
  BY <1>8, Induction
<1>10. D(Len(t)) \/ U(Len(t))
  BY <1>1, <1>9 DEF T
<1> QED BY <1>3, <1>7, <1>10 DEF D

(***************************************************************************)
(* What meanings are made of.                                              *)
(***************************************************************************)
LEMMA SpellingsHave ==
  ASSUME NEW room \in 0..Depth
  PROVE  /\ DOMAIN Spellings[room] = Data(DOMAIN Below(Spellings, room))
         /\ \A m \in DOMAIN Spellings[room] : Spellings[room][m] = Spelled1(m, Below(Spellings, room))
<1> DEFINE inner == Below(Spellings, room)
           D == Data(DOMAIN inner)
<1>1. Spellings[room] = [m \in D |-> Spelled1(m, inner)]
  BY SpellingsAre
<1> HIDE DEF inner, D
<1>2. DOMAIN Spellings[room] = D /\ \A m \in D : Spellings[room][m] = Spelled1(m, inner)
  BY <1>1
<1> QED BY <1>2 DEF inner, D

LEMMA SequencesOf ==
  ASSUME NEW A, NEW B, A \subseteq B
  PROVE  Seq(A) \subseteq Seq(B)
<1> SUFFICES ASSUME NEW s \in Seq(A) PROVE s \in Seq(B)
  OBVIOUS
<1>1. Len(s) \in Nat /\ s \in [1..Len(s) -> A]
  BY LenProperties
<1>2. s \in [1..Len(s) -> B]
  BY <1>1
<1> QED BY <1>1, <1>2, SeqDef

LEMMA ScalarsAreNumbers == Scalars \subseteq Nat /\ Seq(Scalars) \subseteq Seq(Nat)
<1>1. Scalars \subseteq Nat
  BY DEF Scalars
<1> QED BY <1>1, SequencesOf

LEMMA DecodedAre ==
  ASSUME NEW units \in Seq(TextUnits), string(units).ok
  PROVE  string(units).out \in Seq(Scalars) /\ Len(string(units).out) <= Len(units)
<1>1. \/ \E o : string(units) = [ok |-> FALSE, at |-> 0, out |-> o]
      \/ \E s : string(units) = Yield(0, s) /\ Reads(units, s)
  BY DecodedIsSpelled
<1>2. ASSUME NEW o, string(units) = [ok |-> FALSE, at |-> 0, out |-> o] PROVE FALSE
  BY <1>2
<1>3. PICK s : string(units) = Yield(0, s) /\ Reads(units, s)
  BY <1>1, <1>2
<1>4. string(units).out = s
  BY <1>3 DEF Yield
<1> QED BY <1>3, <1>4 DEF Reads

LEMMA SimpleIs ==
  ASSUME NEW token \in Token, NEW x
  PROVE  /\ token[1] = "num" => (x \in Simple(token) <=> number(token[2]) /\ x = token)
         /\ token[1] = "str" =>
              (x \in Simple(token) <=> string(token[2]).ok /\ x = <<"str", string(token[2]).out>>)
         /\ token[1] = "lit" => (x \in Simple(token) <=> x = token)
         /\ token[1] \in Punctuation => x \notin Simple(token)
<1>1. CASE token[1] = "num"
  <2>1. token[2] \in Seq(Int) /\ token = <<"num", token[2]>> /\ token[1] \notin Punctuation
    BY <1>1, TokensAre DEF Punctuation
  <2>2. number(token[2]) <=> Numbers(token[2]) # {}
    BY <2>1, NumbersAreRead
  <2>3. Numbers(token[2]) = {} \/ Numbers(token[2]) = {<<"num", token[2]>>}
    BY DEF Numbers
  <2>4. Simple(token) = Numbers(token[2])
    BY <1>1 DEF Simple
  <2> QED BY <1>1, <2>1, <2>2, <2>3, <2>4
<1>2. CASE token[1] = "str"
  <2>1. token[2] \in Seq(TextUnits) /\ token[1] \notin Punctuation
    BY <1>2, TokensAre DEF Punctuation
  <2>2. Strings(token[2]) = IF string(token[2]).ok THEN {string(token[2]).out} ELSE {}
    BY <2>1, StringsAreDecoded
  <2>3. Simple(token) = {<<"str", s>> : s \in Strings(token[2])}
    BY <1>2 DEF Simple
  <2> QED BY <1>2, <2>1, <2>2, <2>3
<1>3. CASE token[1] = "lit"
  BY <1>3 DEF Simple, Punctuation
<1>4. CASE token[1] \in Punctuation
  BY <1>4 DEF Simple, Punctuation
<1> QED BY <1>1, <1>2, <1>3, <1>4, TokensAre

LEMMA SimpleIsData ==
  ASSUME NEW token \in Token, NEW x \in Simple(token), NEW nested
  PROVE  x \in Data(nested)
<1>1. CASE token[1] = "num"
  <2>1. x = token /\ token[2] \in Seq(Int) /\ token = <<"num", token[2]>>
    BY <1>1, SimpleIs, TokensAre
  <2> QED BY <2>1 DEF Data
<1>2. CASE token[1] = "str"
  <2>1. string(token[2]).ok /\ x = <<"str", string(token[2]).out>> /\ token[2] \in Seq(TextUnits)
    BY <1>2, SimpleIs, TokensAre
  <2>2. string(token[2]).out \in Seq(Nat)
    BY <2>1, DecodedAre, ScalarsAreNumbers
  <2> QED BY <2>1, <2>2 DEF Data
<1>3. CASE token[1] = "lit"
  <2>1. x = token /\ token \in {"lit"} \X Literals
    BY <1>3, SimpleIs, TokensAre
  <2> QED BY <2>1 DEF Data
<1>4. CASE token[1] \in Punctuation
  BY <1>4, SimpleIs
<1> QED BY <1>1, <1>2, <1>3, <1>4, TokensAre

LEMMA KeysAreScalars ==
  ASSUME NEW token \in Token, NEW s \in Keys(token)
  PROVE  s \in Seq(Scalars) /\ s \in Seq(Nat) /\ s \notin NotNFC /\ (\A k \in DOMAIN s : s[k] # 0)
<1>1. token[1] = "str"
  BY NoKeys
<1>2. token[2] \in Seq(TextUnits)
  BY <1>1, TokensAre
<1>3. string(token[2]).ok /\ s = string(token[2]).out /\ s \notin NotNFC /\ \A k \in DOMAIN s : s[k] # 0
  BY <1>1, KeysAre
<1> QED BY <1>2, <1>3, DecodedAre, ScalarsAreNumbers

\* What a list can be made of.
Part(close, nested) == IF close = "]" THEN nested ELSE Seq(Nat) \X nested

LEMMA PartsAre ==
  ASSUME NEW t \in Texts, NEW close \in Enders, NEW table, NEW nested,
         \A i, j \in Positions(t) : table[<<i, j>>] \subseteq nested
  PROVE  Parts(t, Table(close, t, table)) \subseteq Part(close, nested)
<1>1. Len(t) \in Nat /\ Positions(t) = 1..(Len(t) + 1) /\ \A k \in 1..Len(t) : t[k] \in Token
  BY KindsAre
<1> SUFFICES ASSUME NEW i \in Positions(t), NEW j \in Positions(t), NEW x \in Table(close, t, table)[<<i, j>>]
             PROVE  x \in Part(close, nested)
  <2>1. \A s \in Spans(t) : \E i, j \in Positions(t) : s = <<i, j>>
    BY DEF Spans
  <2> QED BY <2>1 DEF Parts
<1>2. CASE close = "]"
  BY <1>2 DEF Table, Part
<1>3. CASE close # "]"
  <2>1. x \in Members(t, table)[<<i, j>>] /\ Part(close, nested) = Seq(Nat) \X nested
    BY <1>3 DEF Table, Part
  <2> DEFINE P == {p \in (i..(j - 1)) \X (i..(j - 1)) :
                     /\ p[1] < p[2] /\ t[p[2]][1] = ":"
                     /\ Blank(t, i, p[1]) /\ Blank(t, p[1] + 1, p[2])}
  <2>2. <<i, j>> \in Spans(t) /\ <<i, j>>[1] = i /\ <<i, j>>[2] = j
    BY DEF Spans
  <2>3. Members(t, table)[<<i, j>>] = UNION {Keys(t[p[1]]) \X table[<<p[2] + 1, j>>] : p \in P}
    BY <2>2 DEF Members
  <2>4. PICK p \in P : x \in Keys(t[p[1]]) \X table[<<p[2] + 1, j>>]
    BY <2>1, <2>3
  <2>5. PICK a \in i..(j - 1), c \in i..(j - 1) : p = <<a, c>>
    OBVIOUS
  <2>6. PICK key \in Keys(t[a]), m \in table[<<c + 1, j>>] : x = <<key, m>>
    BY <2>4, <2>5
  <2>7. a \in 1..Len(t) /\ c + 1 \in Positions(t)
    BY <1>1
  <2>8. key \in Seq(Nat) /\ m \in nested
    BY <1>1, <2>6, <2>7, KeysAreScalars
  <2> QED BY <2>1, <2>6, <2>8
<1> QED BY <1>2, <1>3

LEMMA WholesAreData ==
  ASSUME NEW close \in Enders, NEW nested, NEW l \in Seq(Part(close, nested))
  PROVE  Whole(close, l) \in Data(nested)
<1>1. CASE close = "]"
  BY <1>1 DEF Whole, Data, Part
<1>2. CASE close # "]"
  <2>1. l \in Seq(Seq(Nat) \X nested) /\ Whole(close, l) = <<"object", Range(l)>>
    BY <1>2 DEF Whole, Part
  <2>2. Range(l) \in SUBSET (Seq(Nat) \X nested)
    <3> DEFINE W == Seq(Nat) \X nested
    <3> HIDE DEF W
    <3>1. l \in [1..Len(l) -> W] /\ DOMAIN l = 1..Len(l)
      BY <2>1, LenProperties DEF W
    <3>2. Range(l) \in SUBSET W
      BY <3>1 DEF Range
    <3> QED BY <3>2 DEF W
  <2> QED BY <2>1, <2>2 DEF Data
<1> QED BY <1>1, <1>2

LEMMA MeaningsAreData ==
  ASSUME NEW t \in Texts
  PROVE  \A room \in 0..Depth : \A i, j \in Positions(t) : Levels(t)[room][<<i, j>>] \subseteq DOMAIN Spellings[room]
<1>1. Len(t) \in Nat /\ Positions(t) = 1..(Len(t) + 1) /\ \A k \in 1..Len(t) : t[k] \in Token
  BY KindsAre
<1> DEFINE Fine(n) == \A i, j \in Positions(t) : Levels(t)[n][<<i, j>>] \subseteq DOMAIN Spellings[n]
           T == {n \in Nat : n <= Depth => Fine(n)}
<1>2. ASSUME NEW n \in Nat, \A m \in 0..(n - 1) : m \in T PROVE n \in T
  <2> SUFFICES ASSUME n <= Depth, NEW i \in Positions(t), NEW j \in Positions(t), NEW x \in Levels(t)[n][<<i, j>>]
               PROVE  x \in DOMAIN Spellings[n]
    OBVIOUS
  <2>1. n \in 0..Depth /\ Depth \in Nat
    BY LimitsAssumption
  <2>2. DOMAIN Spellings[n] = Data(DOMAIN Below(Spellings, n))
    BY <2>1, SpellingsHave
  <2>3. PICK p \in i..j, c \in i..j :
             /\ p <= c /\ c < j /\ t[p][1] # "ws" /\ t[c][1] # "ws"
             /\ Blank(t, i, p) /\ Blank(t, c + 1, j)
             /\ \/ c = p /\ x \in Simple(t[p])
                \/ c # p /\ n # 0 /\ x \in Enclosed(t, Levels(t)[n - 1], p, c + 1)
    BY <2>1, MeaningsAre
  <2>4. p \in 1..Len(t) /\ c \in 1..Len(t) /\ p \in Nat /\ c \in Nat
    BY <1>1, <2>3
  <2>5. CASE x \in Simple(t[p])
    BY <1>1, <2>2, <2>4, <2>5, SimpleIsData
  <2>6. CASE c # p /\ n # 0 /\ x \in Enclosed(t, Levels(t)[n - 1], p, c + 1)
    <3> DEFINE inner == Levels(t)[n - 1]
               nested == DOMAIN Spellings[n - 1]
    <3>1. n - 1 \in 0..(n - 1) /\ n - 1 <= Depth
      BY <2>1, <2>6
    <3>2. Fine(n - 1)
      BY <1>2, <3>1
    <3>3. DOMAIN Spellings[n] = Data(nested)
      BY <2>2, <2>6 DEF Below
    <3>4. PICK close \in Enders : \E l : EnclosedBy(t, inner, p, c, x, close, l)
      <4>1. x \in Enclosed(t, inner, p, c + 1)
        BY <2>6
      <4> HIDE DEF inner
      <4> QED BY <2>4, <4>1, EnclosedIs
    <3>5. PICK l : x = Whole(close, l) /\ (l = <<>> \/ l \in Lists(t, Table(close, t, inner), p + 1)[c])
      BY <3>4 DEF EnclosedBy
    <3>6. Parts(t, Table(close, t, inner)) \subseteq Part(close, nested)
      BY <3>2, PartsAre
    <3> HIDE DEF inner, nested
    <3>7. l \in Seq(Part(close, nested))
      <4>1. p + 1 \in Positions(t) /\ c \in ((p + 1) - 1)..(Len(t) + 1)
        BY <1>1, <2>3, <2>4
      <4>2. Lists(t, Table(close, t, inner), p + 1)[c] \subseteq Seq(Parts(t, Table(close, t, inner)))
        BY <4>1, ListsAreSequences
      <4>3. Seq(Parts(t, Table(close, t, inner))) \subseteq Seq(Part(close, nested))
        BY <3>6, SequencesOf
      <4>4. <<>> \in Seq(Part(close, nested))
        BY EmptySeq
      <4> QED BY <3>5, <4>2, <4>3, <4>4
    <3> QED BY <3>3, <3>5, <3>7, WholesAreData
  <2> QED BY <2>3, <2>5, <2>6
<1> HIDE DEF T
<1>3. Nat \subseteq T
  BY <1>2, Induction
<1>4. \A n \in 0..Depth : n \in Nat /\ n <= Depth
  BY LimitsAssumption
<1> QED BY <1>3, <1>4 DEF T

(***************************************************************************)
(* Members in order.                                                       *)
(***************************************************************************)
Rises(n, g) == \A i, j \in 1..n : i < j => LexLess(g[i][1], g[j][1])

LEMMA FirstOnes ==
  ASSUME NEW N \in Nat, NEW D, D \subseteq 1..N, \A i \in D : \A k \in 1..i : k \in D
  PROVE  \E a \in 0..N : D = 1..a
<1> DEFINE T == {n \in Nat : D \subseteq 1..n => \E a \in 0..n : D = 1..a}
<1>1. ASSUME NEW n \in Nat, \A m \in 0..(n - 1) : m \in T PROVE n \in T
  <2> SUFFICES ASSUME D \subseteq 1..n PROVE \E a \in 0..n : D = 1..a
    OBVIOUS
  <2>1. CASE n = 0
    <3>1. D = 1..0
      BY <2>1
    <3> QED BY <2>1, <3>1
  <2>2. CASE n # 0 /\ n \in D
    <3>1. \A k \in 1..n : k \in D
      BY <2>2
    <3>2. D = 1..n
      BY <3>1
    <3> QED BY <3>2
  <2>3. CASE n # 0 /\ n \notin D
    <3>1. \A k \in D : k \in 1..n /\ k # n
      BY <2>3
    <3>2. \A k \in 1..n : k # n => k \in 1..(n - 1)
      OBVIOUS
    <3>3. D \subseteq 1..(n - 1) /\ n - 1 \in 0..(n - 1)
      BY <2>3, <3>1, <3>2
    <3>4. PICK a \in 0..(n - 1) : D = 1..a
      BY <1>1, <3>3
    <3>5. a \in 0..n
      OBVIOUS
    <3> QED BY <3>4, <3>5
  <2> QED BY <2>1, <2>2, <2>3
<1> HIDE DEF T
<1>2. Nat \subseteq T
  BY <1>1, Induction
<1> QED BY <1>2 DEF T

\* g, which rises, and x in its place make up h.
Inserts(W, n, g, x, h) ==
  /\ h \in [1..(n + 1) -> W] /\ Rises(n + 1, h)
  /\ \A y : (\E i \in 1..(n + 1) : h[i] = y) <=> y = x \/ \E i \in 1..n : g[i] = y

Absent(n, g, x) == \A i \in 1..n : g[i][1] # x[1]

LEMMA Inserted ==
  ASSUME NEW W, \A y \in W : y[1] \in Seq(Nat), NEW n \in Nat, NEW g \in [1..n -> W], Rises(n, g),
         NEW x \in W, Absent(n, g, x)
  PROVE  \E h : Inserts(W, n, g, x, h)
<1>0. \A i \in 1..n : g[i][1] # x[1]
  BY DEF Absent
<1> DEFINE D == {i \in 1..n : LexLess(g[i][1], x[1])}
<1>1. (\A y \in W : y[1] \in Seq(Nat)) /\ x \in W /\ \A i \in 1..n : g[i] \in W
  OBVIOUS
<1>2. \A i \in D : \A k \in 1..i : k \in D
  <2> SUFFICES ASSUME NEW i \in D, NEW k \in 1..i PROVE k \in D
    OBVIOUS
  <2>1. i \in 1..n /\ k \in 1..n /\ (k = i \/ k < i)
    OBVIOUS
  <2>2. k < i => LexLess(g[k][1], g[i][1])
    BY <2>1 DEF Rises
  <2>3. g[k][1] \in Seq(Nat) /\ g[i][1] \in Seq(Nat) /\ x[1] \in Seq(Nat)
    BY <1>1, <2>1
  <2>4. k < i => LexLess(g[k][1], x[1])
    BY <2>2, <2>3, KeysAreOrdered
  <2> QED BY <2>1, <2>4
<1>3. PICK a \in 0..n : D = 1..a
  BY <1>2, FirstOnes
<1>4. \A i \in 1..n : i \in 1..a => LexLess(g[i][1], x[1])
  BY <1>3
<1>5. \A i \in 1..n : ~(i \in 1..a) => LexLess(x[1], g[i][1])
  <2> SUFFICES ASSUME NEW i \in 1..n, ~(i \in 1..a) PROVE LexLess(x[1], g[i][1])
    OBVIOUS
  <2>1. ~LexLess(g[i][1], x[1])
    BY <1>3
  <2>2. g[i][1] \in Seq(Nat) /\ x[1] \in Seq(Nat) /\ g[i][1] # x[1]
    BY <1>0, <1>1
  <2> QED BY <2>1, <2>2, KeysAreOrdered
<1> HIDE DEF D
<1> DEFINE h == [i \in 1..(n + 1) |-> IF i = a + 1 THEN x ELSE IF i < a + 1 THEN g[i] ELSE g[i - 1]]
           From(i) == IF i < a + 1 THEN i ELSE i - 1
<1>6. ASSUME NEW i \in 1..(n + 1), i # a + 1 PROVE From(i) \in 1..n /\ h[i] = g[From(i)] /\ (From(i) \in 1..a <=> i < a + 1)
  BY <1>6
<1>7. a + 1 \in 1..(n + 1) /\ h[a + 1] = x
  OBVIOUS
<1>8. h \in [1..(n + 1) -> W]
  <2>1. \A i \in 1..(n + 1) : h[i] \in W
    BY <1>1, <1>6, <1>7
  <2>2. h = [i \in 1..(n + 1) |-> h[i]]
    OBVIOUS
  <2> HIDE DEF h
  <2> QED BY <2>1, <2>2
<1>9. \A i, j \in 1..(n + 1) : i < j /\ i # a + 1 /\ j # a + 1 => From(i) < From(j)
  OBVIOUS
<1>10. \A i \in 1..n : \E j \in 1..(n + 1) : j # a + 1 /\ From(j) = i
  <2> TAKE i \in 1..n
  <2>1. CASE i < a + 1
    <3>1. i \in 1..(n + 1) /\ i # a + 1 /\ From(i) = i
      BY <2>1
    <3> QED BY <3>1
  <2>2. CASE ~(i < a + 1)
    <3>1. i + 1 \in 1..(n + 1) /\ i + 1 # a + 1 /\ From(i + 1) = i
      BY <2>2
    <3> QED BY <3>1
  <2> QED BY <2>1, <2>2
<1> HIDE DEF h
<1>11. ASSUME NEW i \in 1..(n + 1), NEW j \in 1..(n + 1), i < j PROVE LexLess(h[i][1], h[j][1])
  <2>1. CASE i = a + 1
    <3>1. j # a + 1 /\ ~(j < a + 1)
      BY <1>11, <2>1
    <3>2. From(j) \in 1..n /\ h[j] = g[From(j)] /\ ~(From(j) \in 1..a)
      BY <1>6, <3>1
    <3> HIDE DEF From
    <3> QED BY <1>5, <1>7, <2>1, <3>2
  <2>2. CASE j = a + 1
    <3>1. i # a + 1 /\ i < a + 1
      BY <1>11, <2>2
    <3>2. From(i) \in 1..n /\ h[i] = g[From(i)] /\ From(i) \in 1..a
      BY <1>6, <3>1
    <3> HIDE DEF From
    <3> QED BY <1>4, <1>7, <2>2, <3>2
  <2>3. CASE i # a + 1 /\ j # a + 1
    <3>1. From(i) \in 1..n /\ h[i] = g[From(i)] /\ From(j) \in 1..n /\ h[j] = g[From(j)] /\ From(i) < From(j)
      BY <1>6, <1>9, <1>11, <2>3
    <3> HIDE DEF From
    <3> QED BY <3>1 DEF Rises
  <2> QED BY <2>1, <2>2, <2>3
<1> HIDE DEF From
<1>12. ASSUME NEW y PROVE (\E i \in 1..(n + 1) : h[i] = y) <=> y = x \/ \E i \in 1..n : g[i] = y
  <2>1. ASSUME NEW i \in 1..(n + 1), h[i] = y PROVE y = x \/ \E j \in 1..n : g[j] = y
    <3>1. CASE i = a + 1
      BY <1>7, <2>1, <3>1
    <3>2. CASE i # a + 1
      BY <1>6, <2>1, <3>2
    <3> QED BY <3>1, <3>2
  <2>2. ASSUME NEW i \in 1..n, g[i] = y PROVE \E j \in 1..(n + 1) : h[j] = y
    <3>1. PICK j \in 1..(n + 1) : j # a + 1 /\ From(j) = i
      BY <1>10
    <3>2. h[j] = g[From(j)]
      BY <1>6, <3>1
    <3> QED BY <2>2, <3>1, <3>2
  <2>3. y = x => \E j \in 1..(n + 1) : h[j] = y
    BY <1>7
  <2> QED BY <2>1, <2>2, <2>3
<1>13. Rises(n + 1, h)
  BY <1>11 DEF Rises
<1> QED BY <1>8, <1>12, <1>13 DEF Inserts

LEMMA SortedExists ==
  ASSUME NEW V, NEW l \in Seq(Seq(Nat) \X V), Distinct(l)
  PROVE  \E g \in [1..Len(l) -> Range(l)] : Rises(Len(l), g)
<1>0. PICK W : W = Seq(Nat) \X V
  OBVIOUS
<1> DEFINE From(n, g) == g \in [1..n -> W] /\ Rises(n, g) /\ \A y : (\E i \in 1..n : g[i] = y) <=> \E i \in 1..n : l[i] = y
           T == {n \in Nat : n <= Len(l) => \E g : From(n, g)}
<1>1. Len(l) \in Nat /\ DOMAIN l = 1..Len(l) /\ \A i \in 1..Len(l) : l[i] \in W
  BY <1>0, LenProperties, ElementOfSeq
<1>2. ASSUME NEW n \in Nat, \A m \in 0..(n - 1) : m \in T PROVE n \in T
  <2> SUFFICES ASSUME n <= Len(l) PROVE \E g : From(n, g)
    OBVIOUS
  <2>1. CASE n = 0
    <3> DEFINE g == [i \in 1..0 |-> l[i]]
    <3>1. g \in [1..0 -> W]
      OBVIOUS
    <3>2. Rises(0, g)
      BY DEF Rises
    <3>3. \A y : (\E i \in 1..0 : g[i] = y) <=> \E i \in 1..0 : l[i] = y
      OBVIOUS
    <3> HIDE DEF g
    <3> QED BY <2>1, <3>1, <3>2, <3>3
  <2>2. CASE n # 0
    <3>1. PICK m \in 0..(n - 1) : n = m + 1 /\ m <= Len(l) /\ n \in 1..Len(l)
      <4>1. n - 1 \in 0..(n - 1) /\ n = (n - 1) + 1 /\ n - 1 <= Len(l) /\ n \in 1..Len(l)
        BY <1>1, <2>2
      <4> QED BY <4>1
    <3>2. PICK g : From(m, g)
      BY <1>2, <3>1
    <3>0. PICK x : x = l[n]
      OBVIOUS
    <3>3. \A i \in 1..m : g[i][1] # x[1]
      <4> SUFFICES ASSUME NEW i \in 1..m, g[i][1] = l[n][1] PROVE FALSE
        BY <3>0
      <4>1. PICK j \in 1..m : g[i] = l[j]
        BY <3>2
      <4>2. j \in 1..Len(l) /\ j # n
        BY <1>1, <3>1
      <4> QED BY <1>1, <3>1, <4>1, <4>2 DEF Distinct
    <3>4. g \in [1..m -> W] /\ Rises(m, g) /\ x \in W /\ m \in Nat
      BY <1>1, <3>0, <3>1, <3>2
    <3>5. PICK h : Inserts(W, m, g, x, h)
      <4>1. \A y \in W : y[1] \in Seq(Nat)
        BY <1>0
      <4>2. Absent(m, g, x)
        BY <3>3 DEF Absent
      <4> HIDE DEF From, T
      <4> QED BY <3>4, <4>1, <4>2, Inserted
    <3>6. h \in [1..n -> W] /\ Rises(n, h) /\ \A y : (\E i \in 1..n : h[i] = y) <=> y = l[n] \/ \E i \in 1..m : g[i] = y
      BY <3>0, <3>1, <3>5 DEF Inserts
    <3>7. \A i : i \in 1..n <=> i = n \/ i \in 1..m
      BY <3>1
    <3>8. \A y : (\E i \in 1..n : h[i] = y) <=> \E i \in 1..n : l[i] = y
      BY <3>2, <3>6, <3>7
    <3> QED BY <3>6, <3>8
  <2> QED BY <2>1, <2>2
<1> HIDE DEF T
<1>3. Nat \subseteq T
  BY <1>2, Induction
<1>4. PICK g : From(Len(l), g)
  <2>1. Len(l) \in T /\ Len(l) <= Len(l)
    BY <1>1, <1>3
  <2> HIDE DEF From
  <2> QED BY <2>1 DEF T
<1>5. g \in [1..Len(l) -> Range(l)]
  <2>1. \A i \in 1..Len(l) : g[i] \in Range(l)
    BY <1>1, <1>4 DEF Range
  <2> QED BY <1>4, <2>1
<1> QED BY <1>4, <1>5

LEMMA RangeIs ==
  ASSUME NEW V, NEW l \in Seq(Seq(Nat) \X V), Distinct(l)
  PROVE  /\ IsFiniteSet(Range(l)) /\ Cardinality(Range(l)) = Len(l) /\ Len(l) \in Nat
         /\ Range(l) \subseteq Seq(Nat) \X V
         /\ \A x, y \in Range(l) : x[1] = y[1] => x = y
<1>1. Len(l) \in Nat /\ DOMAIN l = 1..Len(l) /\ l \in [1..Len(l) -> Seq(Nat) \X V]
  BY LenProperties
<1>2. Range(l) \subseteq Seq(Nat) \X V /\ l \in [1..Len(l) -> Range(l)] /\ \A y \in Range(l) : \E i \in 1..Len(l) : y = l[i]
  BY <1>1 DEF Range
<1>3. l \in Surjection(1..Len(l), Range(l))
  BY <1>2 DEF Surjection
<1>4. l \in Injection(1..Len(l), Range(l))
  BY <1>1, <1>2, Fun_IsInj DEF Distinct
<1>5. IsFiniteSet(1..Len(l)) /\ Cardinality(1..Len(l)) = Len(l)
  <2>1. /\ IsFiniteSet(1..Len(l))
        /\ Cardinality(1..Len(l)) = IF 1 > Len(l) THEN 0 ELSE Len(l) - 1 + 1
    BY <1>1, FS_Interval
  <2> QED BY <1>1, <2>1
<1>6. IsFiniteSet(Range(l)) /\ Cardinality(Range(l)) = Len(l)
  BY <1>3, <1>4, <1>5, FS_Surjection
<1>7. ASSUME NEW x \in Range(l), NEW y \in Range(l), x[1] = y[1] PROVE x = y
  <2>1. PICK i \in 1..Len(l), j \in 1..Len(l) : x = l[i] /\ y = l[j]
    BY <1>2
  <2>2. i = j
    BY <1>1, <1>7, <2>1 DEF Distinct
  <2> QED BY <2>1, <2>2
<1> QED BY <1>1, <1>2, <1>6, <1>7

\* There is one order.
LEMMA RisesOnce ==
  ASSUME NEW V, NEW R, R \subseteq Seq(Nat) \X V, \A x, y \in R : x[1] = y[1] => x = y,
         NEW n \in Nat, IsFiniteSet(R), Cardinality(R) = n,
         NEW g \in [1..n -> R], Rises(n, g), NEW h \in [1..n -> R], Rises(n, h)
  PROVE  g = h
<1>1. ASSUME NEW f \in [1..n -> R], Rises(n, f) PROVE \A y \in R : \E i \in 1..n : f[i] = y
  <2>1. ASSUME NEW i \in 1..n, NEW j \in 1..n, i < j PROVE f[i] # f[j]
    <3>1. LexLess(f[i][1], f[j][1])
      BY <1>1, <2>1 DEF Rises
    <3>2. f[i][1] \in Seq(Nat)
      OBVIOUS
    <3>3. ~LexLess(f[i][1], f[i][1])
      BY <3>2, KeysAreOrdered
    <3> QED BY <3>1, <3>3
  <2>2. \A i, j \in 1..n : f[i] = f[j] => i = j
    <3>1. \A i, j \in 1..n : i # j => i < j \/ j < i
      OBVIOUS
    <3> QED BY <2>1, <3>1
  <2>3. f \in Injection(1..n, R)
    BY <2>2, Fun_IsInj
  <2>4. IsFiniteSet(1..n) /\ Cardinality(1..n) = n
    <3>1. 1 \in Int /\ n \in Int
      OBVIOUS
    <3>2. /\ IsFiniteSet(1..n)
          /\ Cardinality(1..n) = IF 1 > n THEN 0 ELSE n - 1 + 1
      BY <3>1, FS_Interval
    <3> QED BY <3>2
  <2>5. f \in Surjection(1..n, R)
    BY <2>3, <2>4, FS_Injection
  <2> QED BY <2>5 DEF Surjection
<1> DEFINE keys(f) == [i \in 1..n |-> f[i][1]]
<1>2. ASSUME NEW f \in [1..n -> R], Rises(n, f)
      PROVE  keys(f) \in Seq(Seq(Nat)) /\ Len(keys(f)) = n /\ Ascending(keys(f))
  <2>1. \A i \in 1..n : f[i][1] \in Seq(Nat)
    OBVIOUS
  <2>2. keys(f) \in [1..n -> Seq(Nat)]
    BY <2>1
  <2> DEFINE k == keys(f)
  <2>3. \A i \in 1..n : k[i] = f[i][1]
    OBVIOUS
  <2> HIDE DEF k
  <2>4. k \in Seq(Seq(Nat)) /\ DOMAIN k = 1..n
    BY <2>2, SeqDef DEF k
  <2>5. Len(k) = n
    BY <2>4, LenProperties, SameRange
  <2>6. Ascending(k)
    BY <1>2, <2>3, <2>5 DEF Ascending, Rises
  <2> QED BY <2>4, <2>5, <2>6 DEF k
<1>3. SameKeys(keys(g), keys(h))
  <2>1. \A i \in 1..n : \E j \in 1..n : g[i] = h[j]
    <3>1. \A y \in R : \E i \in 1..n : h[i] = y
      BY <1>1
    <3> QED BY <3>1
  <2>2. \A i \in 1..n : \E j \in 1..n : h[i] = g[j]
    <3>1. \A y \in R : \E i \in 1..n : g[i] = y
      BY <1>1
    <3> QED BY <3>1
  <2>3. \A i \in 1..n : keys(g)[i] = g[i][1] /\ keys(h)[i] = h[i][1]
    OBVIOUS
  <2>4. Len(keys(g)) = n /\ Len(keys(h)) = n
    BY <1>2
  <2> HIDE DEF keys
  <2>5. \A i \in 1..n : \E j \in 1..n : keys(g)[i] = keys(h)[j]
    <3> TAKE i \in 1..n
    <3>1. PICK j \in 1..n : g[i] = h[j]
      BY <2>1
    <3> QED BY <2>3, <3>1
  <2>6. \A i \in 1..n : \E j \in 1..n : keys(h)[i] = keys(g)[j]
    <3> TAKE i \in 1..n
    <3>1. PICK j \in 1..n : h[i] = g[j]
      BY <2>2
    <3> QED BY <2>3, <3>1
  <2> QED BY <2>4, <2>5, <2>6 DEF SameKeys
<1>4. keys(g) = keys(h)
  <2>1. keys(g) \in Seq(Seq(Nat)) /\ Ascending(keys(g)) /\ keys(h) \in Seq(Seq(Nat)) /\ Ascending(keys(h))
    BY <1>2
  <2> HIDE DEF keys
  <2> QED BY <1>3, <2>1, KeysHaveOneOrder
<1>5. \A i \in 1..n : g[i][1] = h[i][1]
  BY <1>4
<1>6. \A i \in 1..n : g[i] = h[i]
  BY <1>5
<1> QED BY <1>6

\* What the codec makes of the members in the order of the text.
LEMMA ObjectIs ==
  ASSUME NEW V, NEW l \in Seq(Seq(Nat) \X V), Distinct(l), NEW sp
  PROVE  LET L == InKeyOrder(Range(l))
         IN /\ L \in [1..Len(l) -> Range(l)] /\ Rises(Len(l), L) /\ Len(l) \in Nat
            /\ Object(Spelt(Curly, sp, l)) =
                 <<Mark("{")>> \o Joined([i \in DOMAIN L |-> Member(L[i][1], sp[L[i][2]])]) \o <<Mark("}")>>
<1> DEFINE n == Len(l)
           R == Range(l)
           L == InKeyOrder(Range(l))
           ms == Spelt(Curly, sp, l)
           kept(y) == [key |-> y[1], value |-> sp[y[2]]]
           S == Sorted(ms)
<1>1. /\ IsFiniteSet(R) /\ Cardinality(R) = n /\ n \in Nat
      /\ R \subseteq Seq(Nat) \X V
      /\ \A x, y \in R : x[1] = y[1] => x = y
  BY RangeIs
<1>2. PICK g \in [1..n -> R] : Rises(n, g)
  BY SortedExists
<1>3. L \in [1..n -> R] /\ Rises(n, L)
  <2>1. L = CHOOSE f \in [1..n -> R] : \A i, j \in DOMAIN f : i < j => LexLess(f[i][1], f[j][1])
    BY <1>1 DEF InKeyOrder
  <2>2. \A f \in [1..n -> R] : Rises(n, f) <=> \A i, j \in DOMAIN f : i < j => LexLess(f[i][1], f[j][1])
    BY DEF Rises
  <2> HIDE DEF n, R, L
  <2>3. \E f \in [1..n -> R] : \A i, j \in DOMAIN f : i < j => LexLess(f[i][1], f[j][1])
    BY <1>2, <2>2
  <2>4. L \in [1..n -> R] /\ \A i, j \in DOMAIN L : i < j => LexLess(L[i][1], L[j][1])
    BY <2>1, <2>3
  <2> QED BY <2>2, <2>4
<1>4. DOMAIN l = 1..n /\ (\A i \in 1..n : l[i] \in R) /\ \A y \in R : \E i \in 1..n : y = l[i]
  BY LenProperties DEF Range
<1>5. DOMAIN ms = 1..n /\ \A i \in 1..n : ms[i] = kept(l[i])
  <2>1. ms = [k \in 1..n |-> Kept(Curly, sp, l[k])]
    BY <1>4 DEF Spelt
  <2>2. \A y : Kept(Curly, sp, y) = kept(y)
    BY MarksDiffer DEF Kept
  <2> HIDE DEF ms, n, kept
  <2> QED BY <2>1, <2>2
<1> HIDE DEF n, R, L, ms
<1>6. \A z : z \in Range(ms) <=> \E y \in R : z = kept(y)
  <2>1. Range(ms) = {ms[i] : i \in 1..n}
    BY <1>5 DEF Range
  <2> HIDE DEF kept
  <2> QED BY <1>4, <1>5, <2>1
<1>7. S \in [1..n -> Range(ms)] /\ \A i, j \in 1..n : i < j => LexLess(S[i].key, S[j].key)
  <2> DEFINE s == [i \in 1..n |-> kept(g[i])]
  <2>1. s \in [1..n -> Range(ms)]
    <3>1. \A i \in 1..n : kept(g[i]) \in Range(ms)
      BY <1>2, <1>6
    <3> HIDE DEF kept
    <3> QED BY <3>1
  <2>2. \A i \in 1..n : s[i].key = g[i][1] /\ s[i] = kept(g[i])
    OBVIOUS
  <2>3. Range(s) = Range(ms)
    <3>1. ASSUME NEW y \in R PROVE \E i \in 1..n : y = g[i]
      <4>1. g \in Injection(1..n, R)
        <5>1. ASSUME NEW i \in 1..n, NEW j \in 1..n, i < j PROVE g[i] # g[j]
          <6>1. LexLess(g[i][1], g[j][1])
            BY <1>2, <5>1 DEF Rises
          <6>2. g[i][1] \in Seq(Nat)
            BY <1>1
          <6>3. ~LexLess(g[i][1], g[i][1])
            BY <6>2, KeysAreOrdered
          <6> QED BY <6>1, <6>3
        <5>2. \A i, j \in 1..n : g[i] = g[j] => i = j
          <6>1. \A i, j \in 1..n : i # j => i < j \/ j < i
            BY <1>1
          <6> QED BY <5>1, <6>1
        <5> QED BY <5>2, Fun_IsInj
      <4>2. IsFiniteSet(1..n) /\ Cardinality(1..n) = n
        <5>1. /\ IsFiniteSet(1..n)
              /\ Cardinality(1..n) = IF 1 > n THEN 0 ELSE n - 1 + 1
          BY <1>1, FS_Interval
        <5> QED BY <1>1, <5>1
      <4>3. g \in Surjection(1..n, R)
        BY <1>1, <4>1, <4>2, FS_Injection
      <4> QED BY <4>3 DEF Surjection
    <3>2. Range(s) = {s[i] : i \in 1..n}
      BY DEF Range
    <3> HIDE DEF s, kept
    <3>3. \A z : z \in Range(s) <=> \E i \in 1..n : z = kept(g[i])
      BY <2>2, <3>2
    <3>4. \A z : z \in Range(s) <=> \E y \in R : z = kept(y)
      BY <3>1, <3>3
    <3> QED BY <1>6, <3>4
  <2>4. \A i, j \in 1..n : i < j => LexLess(s[i].key, s[j].key)
    <3> HIDE DEF s, kept
    <3> QED BY <1>2, <2>2 DEF Rises
  <2>5. S = CHOOSE f \in [1..n -> Range(ms)] :
              Range(f) = Range(ms) /\ \A i, j \in 1..n : i < j => LexLess(f[i].key, f[j].key)
    BY <1>5 DEF Sorted, InOrder
  <2> HIDE DEF s, S
  <2> QED BY <2>1, <2>3, <2>4, <2>5
<1> HIDE DEF S
<1> DEFINE source(i) == CHOOSE y \in R : S[i] = kept(y)
           G == [i \in 1..n |-> source(i)]
<1>8. ASSUME NEW i \in 1..n PROVE source(i) \in R /\ S[i] = kept(source(i))
  <2>1. \E y \in R : S[i] = kept(y)
    BY <1>6, <1>7
  <2> HIDE DEF kept
  <2> QED BY <2>1
<1> HIDE DEF source
<1>9. G \in [1..n -> R] /\ \A i \in 1..n : G[i] = source(i)
  BY <1>8
<1> HIDE DEF G
<1>10. ASSUME NEW i \in 1..n PROVE S[i].key = G[i][1] /\ S[i].value = sp[G[i][2]]
  <2>1. S[i] = kept(G[i])
    BY <1>8, <1>9
  <2> QED BY <2>1
<1>11. Rises(n, G)
  BY <1>7, <1>10 DEF Rises
<1>12. G = L
  BY <1>1, <1>3, <1>9, <1>11, RisesOnce
<1>13. \A i \in 1..n : S[i].key = L[i][1] /\ S[i].value = sp[L[i][2]]
  BY <1>10, <1>12
<1>14. DOMAIN S = 1..n /\ DOMAIN L = 1..n
  BY <1>3, <1>7
<1>15. [i \in DOMAIN S |-> Member(S[i].key, S[i].value)] = [i \in DOMAIN L |-> Member(L[i][1], sp[L[i][2]])]
  BY <1>13, <1>14
<1>16. Object(ms) = <<Mark("{")>> \o Joined([i \in DOMAIN S |-> Member(S[i].key, S[i].value)]) \o <<Mark("}")>>
  BY DEF Object, S
<1> QED BY <1>1, <1>3, <1>15, <1>16 DEF n, R, L, ms

(***************************************************************************)
(* Brackets.                                                               *)
(***************************************************************************)
Made(close, parts) == IF close = "]" THEN Array(parts) ELSE Object(parts)

\* A whole is spelled as the codec makes it of its spelled parts.
LEMMA SpelledWhole ==
  ASSUME NEW room \in 0..Depth, room # 0, NEW sp, sp = Spellings[room - 1], NEW close \in Enders,
         NEW l \in Seq(Part(close, DOMAIN sp)), Fits(close, l)
  PROVE  /\ Spellings[room][Whole(close, l)] = Made(close, Spelt(close, sp, l))
         /\ Whole(close, l) \in DOMAIN Spellings[room]
<1> DEFINE x == Whole(close, l)
<1>1. Below(Spellings, room) = sp
  BY DEF Below
<1>2. x \in DOMAIN Spellings[room] /\ Spellings[room][x] = Spelled1(x, sp)
  <2>1. DOMAIN Spellings[room] = Data(DOMAIN sp) /\ \A m \in DOMAIN Spellings[room] : Spellings[room][m] = Spelled1(m, sp)
    BY <1>1, SpellingsHave
  <2>2. x \in Data(DOMAIN sp)
    BY WholesAreData
  <2> HIDE DEF x
  <2> QED BY <2>1, <2>2
<1>3. CASE close = "]"
  <2>1. x = <<"array", l>>
    BY <1>3 DEF Whole
  <2>2. Spelled1(x, sp) = Array([i \in DOMAIN l |-> sp[l[i]]])
    <3>1. x[1] = "array" /\ x[2] = l
      BY <2>1
    <3> HIDE DEF x
    <3>2. x[1] \notin {"num", "lit"} /\ x[1] # "str"
      BY <3>1
    <3> QED BY <3>1, <3>2 DEF Spelled1
  <2>3. Spelt(close, sp, l) = [i \in DOMAIN l |-> sp[l[i]]]
    BY <1>3 DEF Spelt, Kept
  <2> QED BY <1>2, <1>3, <2>2, <2>3 DEF Made
<1>4. CASE close # "]"
  <2>1. close = Curly
    BY <1>4 DEF Enders
  <2>2. x = <<"object", Range(l)>>
    BY <1>4 DEF Whole
  <2> DEFINE L == InKeyOrder(Range(l))
             spelt == <<Mark("{")>> \o Joined([i \in DOMAIN L |-> Member(L[i][1], sp[L[i][2]])]) \o <<Mark("}")>>
  <2>3. Spelled1(x, sp) = spelt
    <3>1. x[1] = "object" /\ x[2] = Range(l)
      BY <2>2
    <3> HIDE DEF x
    <3>2. x[1] \notin {"num", "lit"} /\ x[1] # "str" /\ x[1] # "array"
      BY <3>1
    <3> QED BY <3>1, <3>2, Zenon DEF Spelled1
  <2>4. Object(Spelt(Curly, sp, l)) = spelt
    <3>1. l \in Seq(Seq(Nat) \X DOMAIN sp)
      BY <1>4 DEF Part
    <3>2. Distinct(l)
      BY <2>1 DEF Fits
    <3> QED BY <3>1, <3>2, ObjectIs, Zenon
  <2>5. Made(close, Spelt(close, sp, l)) = Object(Spelt(Curly, sp, l))
    BY <1>4, <2>1 DEF Made
  <2> HIDE DEF spelt
  <2> QED BY <1>2, <2>3, <2>4, <2>5
<1> QED BY <1>2, <1>3, <1>4

LEMMA OpeningsAre ==
  /\ \A close \in Enders : Opening(close) \in Punctuation /\ Opening(close) \notin Enders
                           /\ Opening(close) \notin {"ws", "end", "str", "num", "lit"}
  /\ \A a, b \in Enders : Opening(a) = Opening(b) => a = b
  /\ \A close \in Enders : close \in Punctuation
<1>1. Curly # "]"
  BY MarksDiffer
<1>2. Opening("]") = "[" /\ Opening(Curly) = "{"
  BY <1>1 DEF Opening
<1>3. "[" # "{"
  OBVIOUS
<1>4. Opening("]") # Opening(Curly)
  BY <1>2, <1>3
<1>5. Opening("]") \in Punctuation /\ Opening("]") \notin Enders /\ Opening("]") \notin {"ws", "end", "str", "num", "lit"}
  BY <1>2 DEF Punctuation, Enders, Curly
<1>6. Opening(Curly) \in Punctuation /\ Opening(Curly) \notin Enders /\ Opening(Curly) \notin {"ws", "end", "str", "num", "lit"}
  BY <1>2 DEF Punctuation, Enders, Curly
<1>7. "]" \in Punctuation /\ Curly \in Punctuation
  BY DEF Punctuation, Curly
<1>8. \A a \in Enders : a = "]" \/ a = Curly
  BY DEF Enders
<1> QED BY <1>4, <1>5, <1>6, <1>7, <1>8

\* What a bracket comes to, whose contents begin at next.
Bracket(t, inner, close, next) ==
  IF Kind(t, next) = close THEN Yield(next + 1, Made(close, <<>>))
  ELSE LET last == Loop(t, inner, close, next)
       IN IF last.ok THEN Yield(last.at, Made(close, last.parts)) ELSE Refuse(last.at)

LEMMA BracketIs ==
  ASSUME NEW t, NEW inner, NEW room, NEW start, NEW i, i = whitespace(t, start), NEW close \in Enders,
         Kind(t, i) = Opening(close)
  PROVE  value(t, inner, room, start) =
           IF room = 0 THEN Refuse(i) ELSE Bracket(t, inner, close, whitespace(t, i + 1))
<1> DEFINE next == whitespace(t, i + 1)
<1>1. CASE close = "]"
  <2>1. Kind(t, i) = "[" /\ Kind(t, i) # "{"
    BY <1>1 DEF Opening
  <2>2. value(t, inner, room, start) = IF room = 0 THEN Refuse(i)
          ELSE IF Kind(t, next) = "]" THEN Yield(next + 1, Array(<<>>)) ELSE array(t, inner, next)
    BY <2>1, Zenon DEF value
  <2>3. Made(close, <<>>) = Array(<<>>) /\ \A parts : Made(close, parts) = Array(parts)
    BY <1>1 DEF Made
  <2> QED BY <1>1, <2>2, <2>3 DEF Bracket, array
<1>2. CASE close # "]"
  <2>1. Kind(t, i) = "{" /\ Kind(t, i) # "[" /\ close = Curly
    BY <1>2, MarksDiffer DEF Opening, Enders
  <2>2. value(t, inner, room, start) = IF room = 0 THEN Refuse(i)
          ELSE IF Kind(t, next) = Curly THEN Yield(next + 1, Object(<<>>)) ELSE object(t, inner, next)
    BY <2>1, Zenon DEF value, Curly
  <2>3. Made(close, <<>>) = Object(<<>>) /\ \A parts : Made(close, parts) = Object(parts)
    BY <1>2 DEF Made
  <2>4. object(t, inner, next) =
          IF Loop(t, inner, Curly, next).ok
            THEN Yield(Loop(t, inner, Curly, next).at, Object(Loop(t, inner, Curly, next).parts))
            ELSE Refuse(Loop(t, inner, Curly, next).at)
    BY DEF object, Curly
  <2> HIDE DEF next
  <2> QED BY <2>1, <2>2, <2>3, <2>4 DEF Bracket, next
<1> QED BY <1>1, <1>2

\* What a bracket at q, closed at c, encloses.
Between(t, close, table, q, c, l) ==
  /\ t[c][1] = close /\ Fits(close, l)
  /\ \/ l = <<>> /\ Blank(t, q + 1, c)
     \/ l \in Lists(t, Table(close, t, table), q + 1)[c]

Encloses(t, close, table, q, c, l) == c \in (q + 1)..Len(t) /\ Between(t, close, table, q, c, l)

LEMMA MeaningsFrom ==
  ASSUME NEW t \in Texts, NEW room \in 0..Depth, NEW i \in Positions(t), NEW q, q = whitespace(t, i)
  PROVE  \A j \in Positions(t) : \A x : Kind(t, j) # "ws" =>
           (x \in Levels(t)[room][<<i, j>>] <=>
              /\ q <= Len(t)
              /\ \E c \in q..Len(t) :
                   /\ t[c][1] # "ws" /\ j = whitespace(t, c + 1)
                   /\ \/ c = q /\ x \in Simple(t[q])
                      \/ c # q /\ room # 0 /\ x \in Enclosed(t, Levels(t)[room - 1], q, c + 1))
  BY MeaningsThere

LEMMA EnclosedOpens ==
  ASSUME NEW t, NEW table, NEW q \in Nat, NEW c \in Nat, NEW x
  PROVE  x \in Enclosed(t, table, q, c + 1) => \E d \in Enders : t[q][1] = Opening(d)
<1>1. t[q][1] # "[" /\ t[q][1] # "{" => Enclosed(t, table, q, c + 1) = {}
  BY Zenon DEF Enclosed
<1>2. Opening("]") = "[" /\ Opening(Curly) = "{"
  BY MarksDiffer DEF Opening
<1> QED BY <1>1, <1>2, MarksDiffer

LEMMA EnclosedAt ==
  ASSUME NEW t, NEW table, NEW q \in Nat, NEW close \in Enders, t[q][1] = Opening(close), NEW c \in Nat, NEW x
  PROVE  x \in Enclosed(t, table, q, c + 1) <=> \E l : Between(t, close, table, q, c, l) /\ x = Whole(close, l)
<1>1. x \in Enclosed(t, table, q, c + 1) <=> \E d \in Enders : \E l : EnclosedBy(t, table, q, c, x, d, l)
  BY EnclosedIs
<1>2. \A d \in Enders : \A l : EnclosedBy(t, table, q, c, x, d, l) => d = close
  <2>1. \A d \in Enders : \A l : EnclosedBy(t, table, q, c, x, d, l) => Opening(d) = Opening(close)
    BY DEF EnclosedBy
  <2> QED BY <2>1, OpeningsAre
<1>3. x \in Enclosed(t, table, q, c + 1) <=> \E l : EnclosedBy(t, table, q, c, x, close, l)
  BY <1>1, <1>2
<1>4. \A l : EnclosedBy(t, table, q, c, x, close, l) <=> Between(t, close, table, q, c, l) /\ x = Whole(close, l)
  BY DEF EnclosedBy, Between
<1> QED BY <1>3, <1>4

LEMMA BracketMeans ==
  ASSUME NEW t \in Texts, NEW room \in 0..Depth, room # 0, NEW table, table = Levels(t)[room - 1],
         NEW i \in Positions(t), NEW q, q = whitespace(t, i), NEW close \in Enders, Kind(t, q) = Opening(close),
         NEW j \in Positions(t), Kind(t, j) # "ws", NEW x
  PROVE  x \in Levels(t)[room][<<i, j>>] <=>
           \E c, l : Encloses(t, close, table, q, c, l) /\ j = whitespace(t, c + 1) /\ x = Whole(close, l)
<1>1. /\ q \in 1..Len(t) /\ q \in Nat /\ Len(t) \in Nat /\ t[q] \in Token /\ t[q][1] = Opening(close)
  <2>1. q \in i..(Len(t) + 1)
    BY WhitespaceEnds
  <2>2. Kind(t, q) # "end"
    BY OpeningsAre
  <2> QED BY <2>1, <2>2, Later
<1> DEFINE Inside(c) == \E l : Between(t, close, table, q, c, l) /\ x = Whole(close, l)
<1>2. x \notin Simple(t[q])
  BY <1>1, OpeningsAre, SimpleIs
<1>3. ASSUME NEW c \in Nat PROVE x \in Enclosed(t, table, q, c + 1) <=> Inside(c)
  <2>1. q \in Nat /\ t[q][1] = Opening(close)
    BY <1>1
  <2> QED BY <2>1, EnclosedAt
<1>4. x \in Levels(t)[room][<<i, j>>] <=>
        /\ q <= Len(t)
        /\ \E c \in q..Len(t) :
             /\ t[c][1] # "ws" /\ j = whitespace(t, c + 1)
             /\ \/ c = q /\ x \in Simple(t[q])
                \/ c # q /\ room # 0 /\ x \in Enclosed(t, table, q, c + 1)
  BY MeaningsFrom
<1>5. \A c \in q..Len(t) : c \in Nat /\ (c # q <=> c \in (q + 1)..Len(t))
  BY <1>1
<1>6. \A c \in (q + 1)..Len(t) : c \in q..Len(t) /\ c # q
  BY <1>1
<1>7. \A c : Inside(c) => t[c][1] # "ws"
  BY MarksDiffer DEF Between
<1>8. (\E c, l : Encloses(t, close, table, q, c, l) /\ j = whitespace(t, c + 1) /\ x = Whole(close, l)) <=>
        \E c \in (q + 1)..Len(t) : Inside(c) /\ j = whitespace(t, c + 1)
  BY DEF Encloses
<1> HIDE DEF Inside
<1>9. ASSUME x \in Levels(t)[room][<<i, j>>] PROVE \E c \in (q + 1)..Len(t) : Inside(c) /\ j = whitespace(t, c + 1)
  <2>1. PICK c \in q..Len(t) :
             /\ j = whitespace(t, c + 1)
             /\ \/ c = q /\ x \in Simple(t[q])
                \/ c # q /\ x \in Enclosed(t, table, q, c + 1)
    BY <1>4, <1>9
  <2>2. c # q /\ x \in Enclosed(t, table, q, c + 1) /\ c \in Nat
    BY <1>2, <1>5, <2>1
  <2> QED BY <1>3, <1>5, <2>1, <2>2
<1>10. ASSUME NEW c \in (q + 1)..Len(t), Inside(c), j = whitespace(t, c + 1) PROVE x \in Levels(t)[room][<<i, j>>]
  <2>1. c \in q..Len(t) /\ c # q /\ c \in Nat /\ q <= Len(t)
    BY <1>1, <1>5, <1>6
  <2>2. x \in Enclosed(t, table, q, c + 1) /\ t[c][1] # "ws"
    BY <1>3, <1>7, <1>10, <2>1
  <2> QED BY <1>4, <1>10, <2>1, <2>2
<1> QED BY <1>8, <1>9, <1>10

\* A list that is not empty has a first part.
LEMMA FirstThere ==
  ASSUME NEW t \in Texts, NEW table, NEW i \in Positions(t)
  PROVE  \A c \in i..(Len(t) + 1) : \A l : l \in Lists(t, table, i)[c] /\ Kind(t, c) # "ws" =>
           \E k \in Positions(t) : \E x : Kind(t, k) # "ws" /\ x \in table[<<i, k>>]
<1>1. /\ Len(t) \in Nat /\ i \in 1..(Len(t) + 1) /\ Positions(t) = 1..(Len(t) + 1)
      /\ \A k \in 1..Len(t) : Kind(t, k) = t[k][1]
  BY KindsAre
<1> DEFINE There == \E k \in Positions(t) : \E x : Kind(t, k) # "ws" /\ x \in table[<<i, k>>]
           T == {c \in Nat : c \in i..(Len(t) + 1) =>
                    \A l : l \in Lists(t, table, i)[c] /\ Kind(t, c) # "ws" => There}
<1>2. ASSUME NEW n \in Nat, \A m \in 0..(n - 1) : m \in T PROVE n \in T
  <2> SUFFICES ASSUME n \in i..(Len(t) + 1), NEW l, l \in Lists(t, table, i)[n], Kind(t, n) # "ws" PROVE There
    OBVIOUS
  <2>1. PICK c \in Cuts(t, i, n) : \E k \in Lists(t, table, i)[c], m \in table[<<c + 1, n>>] : l = Append(k, m)
    BY ListsAre
  <2>2. PICK k \in Lists(t, table, i)[c], m \in table[<<c + 1, n>>] : l = Append(k, m)
    BY <2>1
  <2>3. CASE c = i - 1
    <3>1. c + 1 = i /\ n \in Positions(t)
      BY <1>1, <2>3
    <3> QED BY <2>2, <3>1
  <2>4. CASE c \in i..(n - 1) /\ t[c][1] = Comma
    <3>1. c \in 0..(n - 1) /\ c \in i..(Len(t) + 1) /\ c \in 1..Len(t)
      BY <1>1, <2>4
    <3>2. Kind(t, c) # "ws"
      BY <1>1, <2>4, <3>1, MarksDiffer
    <3>3. c \in T
      BY <1>2, <3>1
    <3> HIDE DEF There
    <3> QED BY <2>2, <3>1, <3>2, <3>3
  <2> QED BY <2>3, <2>4 DEF Cuts
<1> HIDE DEF T
<1>3. Nat \subseteq T
  BY <1>2, Induction
<1>4. \A c \in i..(Len(t) + 1) : c \in Nat
  BY <1>1
<1> QED BY <1>3, <1>4 DEF T

\* Nothing stands before a closing bracket.
LEMMA NothingInFront ==
  ASSUME NEW t \in Texts, NEW room \in 0..Depth, NEW table, table = Levels(t)[room], NEW sp, NEW inner,
         AllAgree(t, table, sp, inner), NEW close \in Enders,
         NEW i \in Positions(t), NEW q, q = whitespace(t, i), Kind(t, q) \in Enders,
         NEW k \in Positions(t), Kind(t, k) # "ws", NEW x
  PROVE  x \notin Table(close, t, table)[<<i, k>>]
<1>1. /\ q \in 1..Len(t) /\ q \in Nat /\ Len(t) \in Nat /\ t[q] \in Token /\ t[q][1] \in Enders /\ t[q][1] = Kind(t, q)
  <2>1. q \in i..(Len(t) + 1)
    BY WhitespaceEnds
  <2>2. Kind(t, q) # "end"
    BY MarksDiffer
  <2> QED BY <2>1, <2>2, Later
<1>2. CASE close = "]"
  <2>1. Table(close, t, table) = table
    BY <1>2 DEF Table
  <2>2. x \notin Simple(t[q])
    BY <1>1, OpeningsAre, SimpleIs
  <2>3. ASSUME NEW c \in q..Len(t), x \in Enclosed(t, Levels(t)[room - 1], q, c + 1) PROVE FALSE
    <3>1. c \in Nat
      BY <1>1
    <3>2. PICK d \in Enders : t[q][1] = Opening(d)
      BY <1>1, <2>3, <3>1, EnclosedOpens
    <3> QED BY <1>1, <3>2, OpeningsAre
  <2>4. x \notin Levels(t)[room][<<i, k>>]
    BY <2>2, <2>3, MeaningsFrom
  <2> QED BY <2>1, <2>4
<1>3. CASE close # "]"
  <2>1. Table(close, t, table) = Members(t, table)
    BY <1>3 DEF Table
  <2>2. Kind(t, q) # "str"
    BY DEF Enders, Curly
  <2>3. x \notin Members(t, table)[<<i, k>>]
    <3>1. PICK colon : colon = whitespace(t, q + 1)
      OBVIOUS
    <3>2. x \in Members(t, table)[<<i, k>>] <=>
            /\ Kind(t, q) = "str" /\ Kind(t, colon) = ":"
            /\ \E key \in Keys(t[q]), m \in table[<<colon + 1, k>>] : x = <<key, m>>
      BY <3>1, MembersThere
    <3> QED BY <2>2, <3>2
  <2> QED BY <2>1, <2>3
<1> QED BY <1>2, <1>3

\* White space in front of a part does not matter.
LEMMA BeginsThere ==
  ASSUME NEW t \in Texts, NEW room \in 0..Depth, NEW table, table = Levels(t)[room], NEW sp, NEW inner,
         AllAgree(t, table, sp, inner), NEW close \in Enders,
         NEW i \in Positions(t), NEW q, q = whitespace(t, i)
  PROVE  Begins(t, Table(close, t, table), i, q)
<1>1. q \in i..(Len(t) + 1) /\ q \in Positions(t) /\ Kind(t, q) # "ws"
  BY WhitespaceEnds
<1>2. whitespace(t, q) = q
  <2>1. q \in q..(Len(t) + 1) /\ Blank(t, q, q)
    <3>1. q \in Nat /\ Len(t) \in Nat
      BY <1>1, KindsAre
    <3> QED BY <1>1, <3>1 DEF Blank
  <2> QED BY <1>1, <2>1, WhitespaceIs
<1>3. ASSUME NEW j \in Positions(t), Kind(t, j) # "ws", NEW x
      PROVE  x \in Table(close, t, table)[<<i, j>>] <=> x \in Table(close, t, table)[<<q, j>>]
  <2>1. CASE close = "]"
    <3> DEFINE Means == /\ q <= Len(t)
                        /\ \E c \in q..Len(t) :
                             /\ t[c][1] # "ws" /\ j = whitespace(t, c + 1)
                             /\ \/ c = q /\ x \in Simple(t[q])
                                \/ c # q /\ room # 0 /\ x \in Enclosed(t, Levels(t)[room - 1], q, c + 1)
    <3>1. x \in Levels(t)[room][<<i, j>>] <=> Means
      BY <1>3, MeaningsFrom
    <3>2. x \in Levels(t)[room][<<q, j>>] <=> Means
      BY <1>1, <1>2, <1>3, MeaningsFrom
    <3>3. Table(close, t, table) = Levels(t)[room]
      BY <2>1 DEF Table
    <3> HIDE DEF Means
    <3> QED BY <3>1, <3>2, <3>3
  <2>2. CASE close # "]"
    <3>1. PICK colon : colon = whitespace(t, q + 1)
      OBVIOUS
    <3> DEFINE Means == /\ Kind(t, q) = "str" /\ Kind(t, colon) = ":"
                        /\ \E key \in Keys(t[q]), m \in table[<<colon + 1, j>>] : x = <<key, m>>
    <3>2. x \in Members(t, table)[<<i, j>>] <=> Means
      BY <1>3, <3>1, MembersThere
    <3>3. x \in Members(t, table)[<<q, j>>] <=> Means
      BY <1>1, <1>2, <1>3, <3>1, MembersThere
    <3>4. Table(close, t, table) = Members(t, table)
      BY <2>2 DEF Table
    <3> HIDE DEF Means
    <3> QED BY <3>2, <3>3, <3>4
  <2> QED BY <2>1, <2>2
<1>4. \A j \in Positions(t) : Kind(t, j) # "ws" => Table(close, t, table)[<<i, j>>] = Table(close, t, table)[<<q, j>>]
  BY <1>3
<1> QED BY <1>1, <1>4 DEF Begins

Closes(t, inner, close, table, sp, q, next) ==
  \/ \E c, l : /\ \A d, k : Encloses(t, close, table, q, d, k) <=> d = c /\ k = l
               /\ Bracket(t, inner, close, next) = Yield(c + 1, Made(close, Spelt(close, sp, l)))
  \/ /\ \A d, k : ~Encloses(t, close, table, q, d, k)
     /\ \E a : Bracket(t, inner, close, next) = Refuse(a)

\* One way to close a bracket, or none; and the codec finds it.
LEMMA BracketCloses ==
  ASSUME NEW t \in Texts, NEW room \in 0..Depth, NEW table, table = Levels(t)[room], NEW sp, NEW inner,
         AllAgree(t, table, sp, inner), NEW close \in Enders,
         NEW q \in 1..Len(t), NEW next, next = whitespace(t, q + 1)
  PROVE  Closes(t, inner, close, table, sp, q, next)
<1>1. Len(t) \in Nat /\ Positions(t) = 1..(Len(t) + 1) /\ \A k \in 1..Len(t) : Kind(t, k) = t[k][1]
  BY KindsAre
<1>2. PICK i : i = q + 1
  OBVIOUS
<1>3. i \in Positions(t) /\ 2 <= i /\ q \in Nat /\ i \in Nat
  BY <1>1, <1>2
<1>4. next = whitespace(t, i)
  BY <1>2
<1>5. next \in i..(Len(t) + 1) /\ next \in Positions(t) /\ Kind(t, next) # "ws" /\ Blank(t, i, next)
  BY <1>3, <1>4, WhitespaceEnds
<1>6. ASSUME NEW c \in i..Len(t), t[c][1] = close, Blank(t, i, c) PROVE c = next
  <2>1. c \in i..(Len(t) + 1) /\ c \in 1..Len(t)
    BY <1>1, <1>3
  <2>2. Kind(t, c) # "ws"
    BY <1>1, <1>6, <2>1, MarksDiffer
  <2> QED BY <1>3, <1>4, <1>6, <2>1, <2>2, WhitespaceIs
<1>7. CASE Kind(t, next) = close
  <2>1. next \in i..Len(t) /\ t[next][1] = close
    <3>1. Kind(t, next) # "end"
      BY <1>7, MarksDiffer
    <3> QED BY <1>3, <1>5, <1>7, <3>1, Later
  <2>2. Encloses(t, close, table, q, next, <<>>)
    BY <1>2, <1>5, <2>1, NothingSpelt DEF Encloses, Between
  <2>3. ASSUME NEW d, NEW k, Encloses(t, close, table, q, d, k) PROVE d = next /\ k = <<>>
    <3>1. d \in i..Len(t) /\ t[d][1] = close /\ d \in i..(Len(t) + 1) /\ d \in 1..Len(t)
      BY <1>1, <1>2, <1>3, <2>3 DEF Encloses, Between
    <3>2. k \notin Lists(t, Table(close, t, table), q + 1)[d]
      <4>1. Kind(t, d) # "ws"
        BY <1>1, <3>1, MarksDiffer
      <4>2. ASSUME NEW j \in Positions(t), Kind(t, j) # "ws", NEW x PROVE x \notin Table(close, t, table)[<<i, j>>]
        BY <1>3, <1>4, <1>7, <4>2, NothingInFront
      <4>3. ASSUME k \in Lists(t, Table(close, t, table), i)[d] PROVE FALSE
        <5>1. \E j \in Positions(t) : \E x : Kind(t, j) # "ws" /\ x \in Table(close, t, table)[<<i, j>>]
          BY <1>3, <3>1, <4>1, <4>3, FirstThere
        <5> QED BY <4>2, <5>1
      <4> QED BY <1>2, <4>3
    <3>3. k = <<>> /\ Blank(t, i, d)
      BY <1>2, <2>3, <3>2 DEF Encloses, Between
    <3> QED BY <1>6, <3>1, <3>3
  <2>4. Bracket(t, inner, close, next) = Yield(next + 1, Made(close, Spelt(close, sp, <<>>)))
    BY <1>7, NothingSpelt DEF Bracket
  <2> QED BY <2>2, <2>3, <2>4 DEF Closes
<1>8. CASE Kind(t, next) # close
  <2>1. \A d, k : Encloses(t, close, table, q, d, k) <=> Closed(t, close, table, i, d, k)
    <3> TAKE d, k
    <3>1. ASSUME d \in i..Len(t), t[d][1] = close, Blank(t, i, d) PROVE FALSE
      <4>1. d = next
        BY <1>6, <3>1
      <4>2. d \in 1..Len(t)
        BY <1>1, <1>3, <3>1
      <4> QED BY <1>1, <1>8, <3>1, <4>1, <4>2
    <3> QED BY <1>2, <3>1 DEF Encloses, Between, Closed
  <2>2. Begins(t, Table(close, t, table), i, next)
    BY <1>3, <1>4, BeginsThere
  <2>3. Done(t, close, table, sp, i, Loop(t, inner, close, next))
    BY <1>3, <2>2, LoopEnds
  <2> DEFINE last == Loop(t, inner, close, next)
  <2>4. Bracket(t, inner, close, next) = IF last.ok THEN Yield(last.at, Made(close, last.parts)) ELSE Refuse(last.at)
    BY <1>8 DEF Bracket
  <2> HIDE DEF last
  <2>5. CASE \E c, l : (\A d, k : Closed(t, close, table, i, d, k) <=> d = c /\ k = l) /\ last = Ends(c + 1, Spelt(close, sp, l))
    <3>1. PICK c, l : (\A d, k : Closed(t, close, table, i, d, k) <=> d = c /\ k = l) /\ last = Ends(c + 1, Spelt(close, sp, l))
      BY <2>5
    <3>2. last.ok /\ last.at = c + 1 /\ last.parts = Spelt(close, sp, l)
      BY <3>1 DEF Ends
    <3> QED BY <2>1, <2>4, <3>1, <3>2 DEF Closes
  <2>6. CASE (\A d, k : ~Closed(t, close, table, i, d, k)) /\ \E a : last = Fails(a)
    <3>1. ~last.ok
      BY <2>6 DEF Fails
    <3> QED BY <2>1, <2>4, <2>6, <3>1 DEF Closes
  <2> QED BY <2>3, <2>5, <2>6 DEF Done, last
<1> QED BY <1>7, <1>8

LEMMA BracketAgrees ==
  ASSUME NEW t \in Texts, NEW room \in 0..Depth, room # 0, NEW table, table = Levels(t)[room - 1],
         NEW sp, sp = Spellings[room - 1], NEW inner, AllAgree(t, table, sp, inner),
         NEW i \in Positions(t), NEW q, q = whitespace(t, i), NEW close \in Enders, Kind(t, q) = Opening(close)
  PROVE  Agrees(t, Levels(t)[room], Spellings[room], i, value(t, inner, room, i))
<1>1. /\ Len(t) \in Nat /\ i \in 1..(Len(t) + 1) /\ Positions(t) = 1..(Len(t) + 1)
      /\ \A k \in 1..Len(t) : Kind(t, k) = t[k][1]
  BY KindsAre
<1>2. q \in 1..Len(t) /\ q \in i..Len(t)
  <2>1. q \in i..(Len(t) + 1) /\ Kind(t, q) # "end"
    BY WhitespaceEnds, OpeningsAre
  <2> QED BY <2>1, Later
<1>3. room - 1 \in 0..Depth
  BY LimitsAssumption
<1>4. PICK next : next = whitespace(t, q + 1)
  OBVIOUS
<1>5. value(t, inner, room, i) = Bracket(t, inner, close, next)
  BY <1>4, BracketIs
<1>6. ASSUME NEW k \in Positions(t), Kind(t, k) # "ws", NEW y
      PROVE  y \in Levels(t)[room][<<i, k>>] <=>
               \E c, l : Encloses(t, close, table, q, c, l) /\ k = whitespace(t, c + 1) /\ y = Whole(close, l)
  BY <1>6, BracketMeans
<1>7. ASSUME NEW c, NEW l, Encloses(t, close, table, q, c, l)
      PROVE  /\ c \in (q + 1)..Len(t) /\ Spellings[room][Whole(close, l)] = Made(close, Spelt(close, sp, l))
  <2>1. /\ c \in (q + 1)..Len(t) /\ Fits(close, l)
        /\ l = <<>> \/ l \in Lists(t, Table(close, t, table), q + 1)[c]
    BY <1>7 DEF Encloses, Between
  <2> DEFINE nested == DOMAIN sp
  <2>2. Parts(t, Table(close, t, table)) \subseteq Part(close, nested)
    <3>1. \A a, b \in Positions(t) : table[<<a, b>>] \subseteq nested
      BY <1>3, MeaningsAreData
    <3> HIDE DEF nested
    <3> QED BY <3>1, PartsAre
  <2> HIDE DEF nested
  <2>3. l \in Seq(Part(close, nested))
    <3>1. q + 1 \in Positions(t) /\ c \in ((q + 1) - 1)..(Len(t) + 1)
      BY <1>1, <1>2, <2>1
    <3>2. Lists(t, Table(close, t, table), q + 1)[c] \subseteq Seq(Parts(t, Table(close, t, table)))
      BY <3>1, ListsAreSequences
    <3>3. Seq(Parts(t, Table(close, t, table))) \subseteq Seq(Part(close, nested))
      BY <2>2, SequencesOf
    <3>4. <<>> \in Seq(Part(close, nested))
      BY EmptySeq
    <3> QED BY <2>1, <3>2, <3>3, <3>4
  <2> QED BY <2>1, <2>3, SpelledWhole DEF nested
<1>8. \/ \E c, l : /\ \A d, k : Encloses(t, close, table, q, d, k) <=> d = c /\ k = l
                   /\ Bracket(t, inner, close, next) = Yield(c + 1, Made(close, Spelt(close, sp, l)))
      \/ /\ \A d, k : ~Encloses(t, close, table, q, d, k)
         /\ \E a : Bracket(t, inner, close, next) = Refuse(a)
  <2>1. Closes(t, inner, close, table, sp, q, next)
    BY <1>2, <1>3, <1>4, BracketCloses
  <2> QED BY <2>1 DEF Closes
<1> DEFINE v == value(t, inner, room, i)
<1>9. CASE \E c, l : /\ \A d, k : Encloses(t, close, table, q, d, k) <=> d = c /\ k = l
                     /\ Bracket(t, inner, close, next) = Yield(c + 1, Made(close, Spelt(close, sp, l)))
  <2>1. PICK c, l : /\ \A d, k : Encloses(t, close, table, q, d, k) <=> d = c /\ k = l
                    /\ v = Yield(c + 1, Made(close, Spelt(close, sp, l)))
    BY <1>5, <1>9
  <2> HIDE DEF v
  <2>2. v.ok /\ v.at = c + 1 /\ v.out = Made(close, Spelt(close, sp, l))
    BY <2>1 DEF Yield
  <2>3. /\ c \in (q + 1)..Len(t) /\ Spellings[room][Whole(close, l)] = Made(close, Spelt(close, sp, l))
    BY <1>7, <2>1
  <2>4. c + 1 \in (i + 1)..(Len(t) + 1)
    BY <1>1, <1>2, <2>3
  <2>5. Exactly(t, Levels(t)[room], i, whitespace(t, c + 1), Whole(close, l))
    <3>1. ASSUME NEW k \in Positions(t), Kind(t, k) # "ws", NEW y
          PROVE  y \in Levels(t)[room][<<i, k>>] <=> k = whitespace(t, c + 1) /\ y = Whole(close, l)
      BY <1>6, <2>1, <3>1
    <3> QED BY <3>1 DEF Exactly
  <2> QED BY <2>2, <2>3, <2>4, <2>5 DEF Agrees, v
<1>10. CASE /\ \A d, k : ~Encloses(t, close, table, q, d, k)
            /\ \E a : Bracket(t, inner, close, next) = Refuse(a)
  <2>1. ~v.ok
    BY <1>5, <1>10 DEF Refuse
  <2> HIDE DEF v
  <2>2. Nothing(t, Levels(t)[room], i)
    BY <1>6, <1>10 DEF Nothing
  <2> QED BY <2>1, <2>2 DEF Agrees, v
<1> QED BY <1>8, <1>9, <1>10

LEMMA LeafIs ==
  ASSUME NEW t, NEW inner, NEW room, NEW start, NEW i, i = whitespace(t, start),
         \A close \in Enders : Kind(t, i) # Opening(close)
  PROVE  /\ Kind(t, i) = "str" =>
              value(t, inner, room, start) =
                IF string(t[i][2]).ok THEN Yield(i + 1, <<Quoted(string(t[i][2]).out)>>) ELSE Refuse(i)
         /\ Kind(t, i) = "num" =>
              value(t, inner, room, start) = IF number(t[i][2]) THEN Yield(i + 1, <<t[i]>>) ELSE Refuse(i)
         /\ Kind(t, i) = "lit" => value(t, inner, room, start) = Yield(i + 1, <<t[i]>>)
         /\ Kind(t, i) \notin {"str", "num", "lit"} => value(t, inner, room, start) = Refuse(i)
<1>1. Opening("]") = "[" /\ Opening(Curly) = "{"
  BY MarksDiffer DEF Opening
<1>2. Kind(t, i) # "[" /\ Kind(t, i) # "{"
  BY <1>1, MarksDiffer
<1>3. Kind(t, i) = "str" =>
              value(t, inner, room, start) =
                IF string(t[i][2]).ok THEN Yield(i + 1, <<Quoted(string(t[i][2]).out)>>) ELSE Refuse(i)
  BY <1>2, Zenon DEF value
<1>4. Kind(t, i) = "num" =>
              value(t, inner, room, start) = IF number(t[i][2]) THEN Yield(i + 1, <<t[i]>>) ELSE Refuse(i)
  BY <1>2, Zenon DEF value
<1>5. Kind(t, i) = "lit" => value(t, inner, room, start) = Yield(i + 1, <<t[i]>>)
  BY <1>2, Zenon DEF value
<1>6. Kind(t, i) \notin {"str", "num", "lit"} => value(t, inner, room, start) = Refuse(i)
  BY <1>2, Zenon DEF value
<1> QED BY <1>3, <1>4, <1>5, <1>6

LEMMA LeafSpelled ==
  ASSUME NEW token \in Token, NEW x \in Simple(token), NEW room \in 0..Depth
  PROVE  Spellings[room][x] = IF token[1] = "str" THEN <<Quoted(x[2])>> ELSE <<token>>
<1> DEFINE inner == Below(Spellings, room)
<1>1. Spellings[room][x] = Spelled1(x, inner)
  <2>1. x \in Data(DOMAIN inner)
    BY SimpleIsData
  <2>2. DOMAIN Spellings[room] = Data(DOMAIN inner) /\ \A m \in DOMAIN Spellings[room] : Spellings[room][m] = Spelled1(m, inner)
    BY SpellingsHave
  <2> HIDE DEF inner
  <2> QED BY <2>1, <2>2
<1> HIDE DEF inner
<1>2. \A y : /\ y[1] \in {"num", "lit"} => Spelled1(y, inner) = <<y>>
             /\ y[1] = "str" => Spelled1(y, inner) = <<Quoted(y[2])>>
  <2> TAKE y
  <2>1. y[1] \in {"num", "lit"} => Spelled1(y, inner) = <<y>>
    BY Zenon DEF Spelled1
  <2>2. y[1] = "str" => Spelled1(y, inner) = <<Quoted(y[2])>>
    BY Zenon DEF Spelled1
  <2> QED BY <2>1, <2>2
<1>3. CASE token[1] = "str"
  <2>1. x[1] = "str"
    BY <1>3, SimpleIs
  <2> QED BY <1>1, <1>2, <1>3, <2>1
<1>4. CASE token[1] \in {"num", "lit"}
  <2>1. x = token
    BY <1>4, SimpleIs
  <2> QED BY <1>1, <1>2, <1>4, <2>1
<1>5. CASE token[1] \in Punctuation
  BY <1>5, SimpleIs
<1> QED BY <1>3, <1>4, <1>5, TokensAre

\* Where no bracket is opened, or none may be.
LEMMA LeafMeans ==
  ASSUME NEW t \in Texts, NEW room \in 0..Depth, NEW i \in Positions(t), NEW q, q = whitespace(t, i),
         room = 0 \/ \A close \in Enders : Kind(t, q) # Opening(close),
         NEW k \in Positions(t), Kind(t, k) # "ws", NEW y
  PROVE  y \in Levels(t)[room][<<i, k>>] <=> q <= Len(t) /\ k = whitespace(t, q + 1) /\ y \in Simple(t[q])
<1>1. /\ Len(t) \in Nat /\ i \in 1..(Len(t) + 1) /\ Positions(t) = 1..(Len(t) + 1)
      /\ \A c \in 1..Len(t) : Kind(t, c) = t[c][1]
  BY KindsAre
<1>2. q \in i..(Len(t) + 1) /\ Kind(t, q) # "ws" /\ q \in Nat
  BY <1>1, WhitespaceEnds
<1>3. ASSUME NEW c \in q..Len(t), room # 0, y \in Enclosed(t, Levels(t)[room - 1], q, c + 1) PROVE FALSE
  <2>1. c \in Nat /\ q \in Nat /\ q \in 1..Len(t)
    BY <1>1, <1>2
  <2>2. \E d \in Enders : t[q][1] = Opening(d)
    BY <1>3, <2>1, EnclosedOpens
  <2> QED BY <1>1, <1>3, <2>1, <2>2
<1>4. y \in Levels(t)[room][<<i, k>>] <=>
        /\ q <= Len(t)
        /\ \E c \in q..Len(t) :
             /\ t[c][1] # "ws" /\ k = whitespace(t, c + 1)
             /\ \/ c = q /\ y \in Simple(t[q])
                \/ c # q /\ room # 0 /\ y \in Enclosed(t, Levels(t)[room - 1], q, c + 1)
  BY MeaningsFrom
<1>5. q <= Len(t) => q \in q..Len(t) /\ t[q][1] # "ws"
  BY <1>1, <1>2
<1> QED BY <1>3, <1>4, <1>5

LEMMA LeafAgrees ==
  ASSUME NEW t \in Texts, NEW room \in 0..Depth, NEW inner, NEW i \in Positions(t), NEW q, q = whitespace(t, i),
         room = 0 \/ \A close \in Enders : Kind(t, q) # Opening(close)
  PROVE  Agrees(t, Levels(t)[room], Spellings[room], i, value(t, inner, room, i))
<1> DEFINE v == value(t, inner, room, i)
           row == Levels(t)[room]
<1>1. /\ Len(t) \in Nat /\ i \in 1..(Len(t) + 1) /\ Positions(t) = 1..(Len(t) + 1)
  BY KindsAre
<1>2. q \in i..(Len(t) + 1) /\ q \in Nat
  BY <1>1, WhitespaceEnds
<1>3. ASSUME NEW k \in Positions(t), Kind(t, k) # "ws", NEW y
      PROVE  y \in row[<<i, k>>] <=> q <= Len(t) /\ k = whitespace(t, q + 1) /\ y \in Simple(t[q])
  BY <1>3, LeafMeans
<1>4. Kind(t, q) # "end" => /\ q \in 1..Len(t) /\ t[q] \in Token /\ t[q][1] = Kind(t, q)
                            /\ q + 1 \in (i + 1)..(Len(t) + 1)
  <2>1. Kind(t, q) # "end" => q \in 1..Len(t) /\ t[q] \in Token /\ t[q][1] = Kind(t, q)
    BY <1>2, Later
  <2> QED BY <1>1, <1>2, <2>1
<1>5. ASSUME Kind(t, q) # "end", NEW x, \A y : y \in Simple(t[q]) <=> y = x, v = Yield(q + 1, Spellings[room][x])
      PROVE  Agrees(t, row, Spellings[room], i, v)
  <2>1. v.ok /\ v.at = q + 1 /\ v.out = Spellings[room][x]
    BY <1>5 DEF Yield
  <2>2. Exactly(t, row, i, whitespace(t, q + 1), x)
    <3>1. q <= Len(t)
      BY <1>1, <1>4, <1>5
    <3> HIDE DEF row, v
    <3> QED BY <1>3, <1>5, <3>1 DEF Exactly
  <2> HIDE DEF row, v
  <2> QED BY <1>4, <1>5, <2>1, <2>2 DEF Agrees
<1>6. ASSUME q <= Len(t) => \A y : y \notin Simple(t[q]), NEW a, v = Refuse(a)
      PROVE  Agrees(t, row, Spellings[room], i, v)
  <2>1. ~v.ok
    BY <1>6 DEF Refuse
  <2> HIDE DEF row, v
  <2>2. Nothing(t, row, i)
    BY <1>3, <1>6 DEF Nothing
  <2> QED BY <2>1, <2>2 DEF Agrees
<1> HIDE DEF row
<1>7. CASE \E close \in Enders : Kind(t, q) = Opening(close)
  <2>1. PICK close \in Enders : Kind(t, q) = Opening(close)
    BY <1>7
  <2>2. room = 0
    BY <2>1
  <2>3. v = Refuse(q)
    <3>1. value(t, inner, room, i) = IF room = 0 THEN Refuse(q) ELSE Bracket(t, inner, close, whitespace(t, q + 1))
      BY <2>1, BracketIs
    <3> QED BY <2>2, <3>1
  <2>4. \A y : y \notin Simple(t[q])
    <3>1. t[q] \in Token /\ t[q][1] \in Punctuation
      BY <1>4, <2>1, OpeningsAre
    <3> QED BY <3>1, SimpleIs
  <2> HIDE DEF v
  <2> QED BY <1>6, <2>3, <2>4 DEF row, v
<1>8. CASE \A close \in Enders : Kind(t, q) # Opening(close)
  <2>1. /\ Kind(t, q) = "str" => v = IF string(t[q][2]).ok THEN Yield(q + 1, <<Quoted(string(t[q][2]).out)>>) ELSE Refuse(q)
        /\ Kind(t, q) = "num" => v = IF number(t[q][2]) THEN Yield(q + 1, <<t[q]>>) ELSE Refuse(q)
        /\ Kind(t, q) = "lit" => v = Yield(q + 1, <<t[q]>>)
        /\ Kind(t, q) \notin {"str", "num", "lit"} => v = Refuse(q)
    BY <1>8, LeafIs
  <2> HIDE DEF v
  <2>2. CASE Kind(t, q) = "str"
    <3>1. t[q] \in Token /\ t[q][1] = "str" /\ Kind(t, q) # "end"
      BY <1>4, <2>2
    <3> DEFINE key == string(t[q][2])
    <3>2. \A y : y \in Simple(t[q]) <=> key.ok /\ y = <<"str", key.out>>
      BY <3>1, SimpleIs
    <3>3. v = IF key.ok THEN Yield(q + 1, <<Quoted(key.out)>>) ELSE Refuse(q)
      BY <2>1, <2>2
    <3> HIDE DEF key
    <3>4. CASE key.ok
      <4>0. PICK x : x = <<"str", key.out>>
        OBVIOUS
      <4>1. x \in Simple(t[q]) /\ x[2] = key.out /\ \A y : y \in Simple(t[q]) <=> y = x
        BY <3>2, <3>4, <4>0
      <4>2. Spellings[room][x] = <<Quoted(key.out)>>
        <5>1. Spellings[room][x] = IF t[q][1] = "str" THEN <<Quoted(x[2])>> ELSE <<t[q]>>
          BY <3>1, <4>1, LeafSpelled
        <5> QED BY <3>1, <4>1, <5>1
      <4>3. v = Yield(q + 1, Spellings[room][x])
        BY <3>3, <3>4, <4>2
      <4> QED BY <1>5, <3>1, <4>1, <4>3 DEF row, v
    <3>5. CASE ~key.ok
      <4>1. v = Refuse(q) /\ \A y : y \notin Simple(t[q])
        BY <3>2, <3>3, <3>5
      <4> QED BY <1>6, <4>1 DEF row, v
    <3> QED BY <3>4, <3>5
  <2>3. CASE Kind(t, q) = "num"
    <3>1. t[q] \in Token /\ t[q][1] = "num" /\ Kind(t, q) # "end"
      BY <1>4, <2>3
    <3>2. \A y : y \in Simple(t[q]) <=> number(t[q][2]) /\ y = t[q]
      BY <3>1, SimpleIs
    <3>3. CASE number(t[q][2])
      <4>1. t[q] \in Simple(t[q]) /\ \A y : y \in Simple(t[q]) <=> y = t[q]
        BY <3>2, <3>3
      <4>2. Spellings[room][t[q]] = <<t[q]>>
        BY <3>1, <4>1, LeafSpelled
      <4>3. v = Yield(q + 1, Spellings[room][t[q]])
        BY <2>1, <2>3, <3>3, <4>2
      <4> QED BY <1>5, <3>1, <4>1, <4>3 DEF row, v
    <3>4. CASE ~number(t[q][2])
      <4>1. v = Refuse(q) /\ \A y : y \notin Simple(t[q])
        BY <2>1, <2>3, <3>2, <3>4
      <4> QED BY <1>6, <4>1 DEF row, v
    <3> QED BY <3>3, <3>4
  <2>4. CASE Kind(t, q) = "lit"
    <3>1. t[q] \in Token /\ t[q][1] = "lit" /\ Kind(t, q) # "end"
      BY <1>4, <2>4
    <3>2. \A y : y \in Simple(t[q]) <=> y = t[q]
      BY <3>1, SimpleIs
    <3>3. Spellings[room][t[q]] = <<t[q]>>
      BY <3>1, <3>2, LeafSpelled
    <3>4. v = Yield(q + 1, Spellings[room][t[q]])
      BY <2>1, <2>4, <3>3
    <3> QED BY <1>5, <3>1, <3>2, <3>4 DEF row, v
  <2>5. CASE Kind(t, q) \notin {"str", "num", "lit"}
    <3>1. v = Refuse(q)
      BY <2>1, <2>5
    <3>2. q <= Len(t) => \A y : y \notin Simple(t[q])
      <4>1. ASSUME q <= Len(t) PROVE \A y : y \notin Simple(t[q])
        <5>1. Kind(t, q) # "end" /\ q \in 1..Len(t)
          <6>1. q \in 1..Len(t)
            BY <1>1, <1>2, <4>1
          <6> QED BY <6>1, KindsAre
        <5>2. t[q] \in Token /\ t[q][1] \in Punctuation
          <6>1. t[q] \in Token /\ t[q][1] = Kind(t, q)
            BY <1>4, <5>1
          <6>2. t[q][1] \in Punctuation \cup {"lit", "num", "str"}
            BY <6>1, TokensAre
          <6> QED BY <2>5, <6>1, <6>2
        <5> QED BY <5>2, SimpleIs
      <4> QED BY <4>1
    <3> QED BY <1>6, <3>1, <3>2 DEF row, v
  <2> QED BY <2>2, <2>3, <2>4, <2>5 DEF row, v
<1> QED BY <1>7, <1>8 DEF row

\* The codec reads what the text means, on every level.
LEMMA CodecAgrees ==
  ASSUME NEW t \in Texts
  PROVE  \A room \in 0..Depth : AllAgree(t, Levels(t)[room], Spellings[room], Values(t)[room])
<1>1. Len(t) \in Nat /\ Positions(t) = 1..(Len(t) + 1)
  BY KindsAre
<1> DEFINE Good(n) == AllAgree(t, Levels(t)[n], Spellings[n], Values(t)[n])
           T == {n \in Nat : n <= Depth => Good(n)}
<1>2. ASSUME NEW n \in Nat, \A m \in 0..(n - 1) : m \in T PROVE n \in T
  <2> SUFFICES ASSUME n <= Depth, NEW i \in Positions(t)
               PROVE  Agrees(t, Levels(t)[n], Spellings[n], i, Values(t)[n][i])
    BY DEF AllAgree
  <2>1. n \in 0..Depth /\ Depth \in Nat
    BY LimitsAssumption
  <2>2. Values(t)[n][i] = value(t, Below(Values(t), n), n, i)
    <3> DEFINE below == Below(Values(t), n)
    <3>1. Values(t)[n] = [start \in 1..(Len(t) + 1) |-> value(t, below, n, start)]
      BY <1>1, <2>1, ValuesAre
    <3> HIDE DEF below
    <3> QED BY <1>1, <3>1 DEF below
  <2>3. PICK q : q = whitespace(t, i)
    OBVIOUS
  <2>4. CASE n = 0 \/ \A close \in Enders : Kind(t, q) # Opening(close)
    BY <2>1, <2>2, <2>3, <2>4, LeafAgrees
  <2>5. CASE n # 0 /\ \E close \in Enders : Kind(t, q) = Opening(close)
    <3>1. n - 1 \in 0..(n - 1) /\ n - 1 <= Depth
      BY <2>1, <2>5
    <3>2. Good(n - 1)
      BY <1>2, <3>1
    <3>3. Below(Values(t), n) = Values(t)[n - 1]
      BY <2>5 DEF Below
    <3>4. Agrees(t, Levels(t)[n], Spellings[n], i, value(t, Values(t)[n - 1], n, i))
      BY <2>1, <2>3, <2>5, <3>2, BracketAgrees
    <3> QED BY <2>2, <3>3, <3>4
  <2> QED BY <2>4, <2>5
<1> HIDE DEF Good, T
<1>3. Nat \subseteq T
  BY <1>2, Induction
<1>4. \A n \in 0..Depth : n \in Nat /\ n <= Depth
  BY LimitsAssumption
<1> QED BY <1>3, <1>4 DEF T, Good

(***************************************************************************)
(* How a whole is written: its parts in order, between its brackets.       *)
(***************************************************************************)
Written(close, sp, y) == IF close = "]" THEN sp[y] ELSE Member(y[1], sp[y[2]])

AllWritten(close, sp, l) == [k \in DOMAIN l |-> Written(close, sp, l[k])]

InBrackets(close, parts) == <<Mark(Opening(close))>> \o Joined(parts) \o <<Mark(close)>>

Throughout(n, f, R) == (\A y \in R : \E i \in 1..n : f[i] = y) /\ \A i, j \in 1..n : f[i][1] = f[j][1] => i = j

LEMMA RisesThroughout ==
  ASSUME NEW V, NEW R, R \subseteq Seq(Nat) \X V, NEW n \in Nat, IsFiniteSet(R), Cardinality(R) = n,
         NEW f \in [1..n -> R], Rises(n, f)
  PROVE  Throughout(n, f, R)
<1>1. ASSUME NEW i \in 1..n, NEW j \in 1..n, i < j PROVE f[i][1] # f[j][1]
  <2>1. LexLess(f[i][1], f[j][1])
    BY <1>1 DEF Rises
  <2>2. f[i][1] \in Seq(Nat)
    OBVIOUS
  <2>3. ~LexLess(f[i][1], f[i][1])
    BY <2>2, KeysAreOrdered
  <2> QED BY <2>1, <2>3
<1>2. \A i, j \in 1..n : f[i][1] = f[j][1] => i = j
  <2>1. \A i, j \in 1..n : i # j => i < j \/ j < i
    OBVIOUS
  <2> QED BY <1>1, <2>1
<1>3. f \in Injection(1..n, R)
  BY <1>2, Fun_IsInj
<1>4. IsFiniteSet(1..n) /\ Cardinality(1..n) = n
  <2>1. /\ IsFiniteSet(1..n)
        /\ Cardinality(1..n) = IF 1 > n THEN 0 ELSE n - 1 + 1
    BY FS_Interval
  <2> QED BY <2>1
<1>5. f \in Surjection(1..n, R)
  BY <1>3, <1>4, FS_Injection
<1> QED BY <1>2, <1>5 DEF Surjection, Throughout

LEMMA MadeInBrackets ==
  ASSUME NEW parts
  PROVE  Array(parts) = InBrackets("]", parts)
<1>1. Opening("]") = "["
  BY DEF Opening
<1> QED BY <1>1, Zenon DEF Array, InBrackets

\* The list a whole is written from: the same parts, the members of an object in the order of their keys.
Ordered(close, l, L, V) ==
  /\ L \in Seq(Part(close, V)) /\ Len(L) = Len(l)
  /\ \A y : (\E i \in 1..Len(L) : L[i] = y) <=> \E i \in 1..Len(l) : l[i] = y
  /\ Fits(close, L) /\ Whole(close, L) = Whole(close, l)
  /\ close = "]" => L = l

LEMMA WholeIsWritten ==
  ASSUME NEW room \in 0..Depth, room # 0, NEW sp, sp = Spellings[room - 1], NEW close \in Enders,
         NEW l \in Seq(Part(close, DOMAIN sp)), Fits(close, l)
  PROVE  \E L : /\ Ordered(close, l, L, DOMAIN sp)
                /\ Spellings[room][Whole(close, l)] = InBrackets(close, AllWritten(close, sp, L))
<1>1. Spellings[room][Whole(close, l)] = Made(close, Spelt(close, sp, l))
  BY SpelledWhole
<1>2. CASE close = "]"
  <2>1. Made(close, Spelt(close, sp, l)) = InBrackets(close, AllWritten(close, sp, l))
    <3>1. Spelt(close, sp, l) = AllWritten(close, sp, l)
      BY <1>2 DEF Spelt, AllWritten, Kept, Written
    <3> QED BY <1>2, <3>1, MadeInBrackets DEF Made
  <2>2. Ordered(close, l, l, DOMAIN sp)
    BY DEF Ordered
  <2> QED BY <1>1, <2>1, <2>2
<1>3. CASE close # "]"
  <2> DEFINE V == DOMAIN sp
             n == Len(l)
             R == Range(l)
             L == InKeyOrder(Range(l))
  <2>1. close = Curly /\ Part(close, V) = Seq(Nat) \X V
    BY <1>3 DEF Enders, Part
  <2>2. l \in Seq(Seq(Nat) \X V) /\ Distinct(l) /\ Len(l) <= ObjectMembers
    BY <2>1 DEF Fits
  <2> HIDE DEF V
  <2>3. L \in [1..n -> R] /\ Rises(n, L) /\ n \in Nat
    BY <2>2, ObjectIs, Zenon
  <2>4. /\ IsFiniteSet(R) /\ Cardinality(R) = n
        /\ R \subseteq Seq(Nat) \X V
    BY <2>2, RangeIs
  <2>5. DOMAIN l = 1..n /\ R = {l[i] : i \in 1..n}
    <3>1. DOMAIN l = 1..n
      BY LenProperties
    <3> QED BY <3>1 DEF Range
  <2>6. Made(close, Spelt(close, sp, l)) = Object(Spelt(Curly, sp, l))
    BY <1>3, <2>1 DEF Made
  <2>7. Object(Spelt(Curly, sp, l)) =
          <<Mark("{")>> \o Joined([i \in DOMAIN L |-> Member(L[i][1], sp[L[i][2]])]) \o <<Mark("}")>>
    BY <2>2, ObjectIs, Zenon
  <2> HIDE DEF n, R, L
  <2>8. (\A y \in R : \E i \in 1..n : L[i] = y) /\ \A i, j \in 1..n : L[i][1] = L[j][1] => i = j
    <3>1. Throughout(n, L, R)
      BY <2>3, <2>4, RisesThroughout
    <3> QED BY <3>1 DEF Throughout
  <2>9. DOMAIN L = 1..n /\ Range(L) = R
    <3>1. DOMAIN L = 1..n
      BY <2>3
    <3> QED BY <2>3, <2>8, <3>1 DEF Range
  <2>10. L \in Seq(Part(close, V)) /\ Len(L) = n
    <3>1. L \in [1..n -> Part(close, V)]
      BY <2>1, <2>3, <2>4
    <3>2. L \in Seq(Part(close, V))
      BY <2>3, <3>1, SeqDef
    <3> QED BY <2>3, <2>9, <3>2, LenProperties, SameRange
  <2>11. Distinct(L)
    BY <2>8, <2>9 DEF Distinct
  <2>12. Ordered(close, l, L, V)
    <3>1. Fits(close, L)
      BY <2>2, <2>10, <2>11 DEF Fits, n
    <3>2. Whole(close, L) = Whole(close, l)
      BY <1>3, <2>9 DEF Whole, R
    <3>3. \A y : (\E i \in 1..n : L[i] = y) <=> \E i \in 1..n : l[i] = y
      <4>1. \A y : (\E i \in 1..n : l[i] = y) <=> y \in R
        BY <2>5
      <4>2. \A y : (\E i \in 1..n : L[i] = y) <=> y \in R
        BY <2>3, <2>8
      <4> QED BY <4>1, <4>2
    <3> QED BY <1>3, <2>10, <3>1, <3>2, <3>3 DEF Ordered, n
  <2>13. AllWritten(close, sp, L) = [i \in DOMAIN L |-> Member(L[i][1], sp[L[i][2]])]
    BY <1>3 DEF AllWritten, Written
  <2>14. Opening(close) = "{"
    BY <1>3 DEF Opening
  <2>15. Object(Spelt(Curly, sp, l)) = InBrackets(close, AllWritten(close, sp, L))
    BY <2>1, <2>7, <2>13, <2>14, Zenon DEF InBrackets, Curly
  <2> QED BY <1>1, <2>6, <2>12, <2>15 DEF V
<1> QED BY <1>2, <1>3

LEMMA Concat3 ==
  ASSUME NEW W, NEW a \in Seq(W), NEW x \in W, NEW b \in Seq(W), NEW s, s = a \o <<x>> \o b
  PROVE  /\ s \in Seq(W) /\ Len(s) = Len(a) + 1 + Len(b) /\ Len(a) \in Nat /\ Len(b) \in Nat
         /\ \A k \in 1..Len(a) : s[k] = a[k]
         /\ s[Len(a) + 1] = x
         /\ \A k \in 1..Len(b) : s[Len(a) + 1 + k] = b[k]
<1>1. Len(a) \in Nat /\ Len(b) \in Nat
  BY LenProperties
<1>2. PICK m : m = <<x>>
  OBVIOUS
<1>3. m \in Seq(W) /\ Len(m) = 1 /\ m[1] = x
  BY <1>2
<1>4. PICK d : d = a \o m
  OBVIOUS
<1>5. /\ d \in Seq(W) /\ Len(d) = Len(a) + 1
      /\ \A i \in 1..(Len(a) + 1) : d[i] = IF i <= Len(a) THEN a[i] ELSE m[i - Len(a)]
  BY <1>3, <1>4, ConcatProperties
<1>6. s = d \o b
  BY <1>2, <1>4
<1>7. /\ s \in Seq(W) /\ Len(s) = Len(d) + Len(b)
      /\ \A i \in 1..(Len(d) + Len(b)) : s[i] = IF i <= Len(d) THEN d[i] ELSE b[i - Len(d)]
  BY <1>5, <1>6, ConcatProperties
<1>8. \A k \in 1..Len(a) : s[k] = a[k]
  BY <1>1, <1>5, <1>7
<1>9. s[Len(a) + 1] = x
  <2>1. Len(a) + 1 \in 1..(Len(d) + Len(b)) /\ Len(a) + 1 <= Len(d) /\ Len(a) + 1 \in 1..(Len(a) + 1)
        /\ ~(Len(a) + 1 <= Len(a)) /\ (Len(a) + 1) - Len(a) = 1
    BY <1>1, <1>5
  <2> QED BY <1>3, <1>5, <1>7, <2>1
<1>10. ASSUME NEW k \in 1..Len(b) PROVE s[Len(a) + 1 + k] = b[k]
  <2>1. Len(a) + 1 + k \in 1..(Len(d) + Len(b)) /\ ~(Len(a) + 1 + k <= Len(d)) /\ (Len(a) + 1 + k) - Len(d) = k
    BY <1>1, <1>5
  <2> QED BY <1>7, <2>1
<1> QED BY <1>1, <1>5, <1>7, <1>8, <1>9, <1>10

LEMMA JoinedGrows ==
  ASSUME NEW parts, Len(parts) \in Nat
  PROVE  \E f : /\ Joined(parts) = f[Len(parts)] /\ f[0] = <<>>
                /\ Len(parts) > 0 => f[1] = parts[1]
                /\ \A n \in 2..Len(parts) : f[n] = f[n - 1] \o <<Mark(Comma)>> \o parts[n]
<1>1. Comma = ","
  BY Zenon DEF Comma
<1> QED BY <1>1, JoinedIs, Zenon

\* Where the parts of a joined text are: the comma, or the end, behind part n is at e[n] + 1.
Shape(parts, N, e, s) ==
  /\ s \in Texts /\ e[0] = -1 /\ Len(s) = IF N = 0 THEN 0 ELSE e[N]
  /\ \A n \in 1..N : e[n] \in Nat /\ e[n] = e[n - 1] + 1 + Len(parts[n]) /\ e[n] <= e[N]
  /\ \A n \in 1..N : \A k \in 1..Len(parts[n]) : s[e[n - 1] + 1 + k] = parts[n][k]
  /\ \A n \in 1..N : n < N => s[e[n] + 1] = Mark(Comma)

LEMMA CommaIsToken == Mark(Comma) \in Token /\ (\A close \in Enders : Mark(close) \in Token /\ Mark(Opening(close)) \in Token)
                      /\ Mark(":") \in Token
<1>1. Comma \in Punctuation /\ ":" \in Punctuation
  BY Zenon DEF Comma, Punctuation
<1>2. \A close \in Enders : close \in Punctuation /\ Opening(close) \in Punctuation
  BY OpeningsAre
<1>3. \A p \in Punctuation : Mark(p) \in Token
  BY DEF Token
<1> QED BY <1>1, <1>2, <1>3

LEMMA JoinedShape ==
  ASSUME NEW parts, Len(parts) \in Nat, \A n \in 1..Len(parts) : parts[n] \in Texts
  PROVE  \E e : Shape(parts, Len(parts), e, Joined(parts))
<1> DEFINE M == Len(parts)
<1>1. PICK f : /\ Joined(parts) = f[M] /\ f[0] = <<>>
               /\ M > 0 => f[1] = parts[1]
               /\ \A n \in 2..M : f[n] = f[n - 1] \o <<Mark(Comma)>> \o parts[n]
  BY JoinedGrows
<1> DEFINE e == [n \in 0..M |-> IF n = 0 THEN -1 ELSE Len(f[n])]
           T == {n \in Nat : n <= M => Shape(parts, n, e, f[n])}
<1>2. M \in Nat /\ e[0] = -1 /\ \A n \in 1..M : e[n] = Len(f[n]) /\ parts[n] \in Texts /\ Len(parts[n]) \in Nat
  <2>1. \A n \in 1..M : parts[n] \in Texts /\ Len(parts[n]) \in Nat
    BY LenProperties DEF Texts
  <2>2. \A n \in 1..M : e[n] = Len(f[n]) /\ e[0] = -1
    OBVIOUS
  <2>3. e[0] = -1
    OBVIOUS
  <2> QED BY <2>1, <2>2, <2>3
<1> HIDE DEF M, e
<1>3. 0 \in T
  <2>1. f[0] \in Texts /\ Len(f[0]) = 0
    BY <1>1 DEF Texts
  <2>2. 1..0 = {}
    OBVIOUS
  <2> QED BY <1>2, <2>1, <2>2 DEF Shape
<1>4. M > 0 => 1 \in T
  <2> SUFFICES ASSUME M > 0 PROVE Shape(parts, 1, e, f[1])
    OBVIOUS
  <2>1. 1 \in 1..M /\ f[1] = parts[1] /\ e[1] = Len(parts[1]) /\ Len(parts[1]) \in Nat
    BY <1>1, <1>2
  <2>2. \A n \in 1..1 : n = 1 /\ n - 1 = 0
    OBVIOUS
  <2>3. \A k \in 1..Len(parts[1]) : e[0] + 1 + k = k
    BY <1>2
  <2>4. f[1] \in Texts /\ Len(f[1]) = e[1] /\ e[1] = e[0] + 1 + Len(parts[1]) /\ e[1] <= e[1]
    BY <1>2, <2>1
  <2>5. \A n \in 1..1 : e[n] \in Nat /\ e[n] = e[n - 1] + 1 + Len(parts[n]) /\ e[n] <= e[1]
    BY <2>1, <2>2, <2>4
  <2>6. \A n \in 1..1 : \A k \in 1..Len(parts[n]) : f[1][e[n - 1] + 1 + k] = parts[n][k]
    BY <2>1, <2>2, <2>3
  <2>7. \A n \in 1..1 : ~(n < 1)
    OBVIOUS
  <2> QED BY <1>2, <2>4, <2>5, <2>6, <2>7 DEF Shape
<1>5. ASSUME NEW m \in Nat, m >= 1, m \in T, m + 1 <= M PROVE Shape(parts, m + 1, e, f[m + 1])
  <2>1. PICK n : n = m + 1
    OBVIOUS
  <2>2. n \in 2..M /\ n \in 1..M /\ n - 1 = m /\ n \in Nat /\ m < n /\ m \in 1..M /\ m # 0 /\ n # 0
    BY <1>2, <1>5, <2>1
  <2>3. Shape(parts, m, e, f[m])
    BY <1>5, <2>2
  <2>4. /\ f[m] \in Texts /\ Len(f[m]) = e[m]
        /\ \A k \in 1..m : e[k] \in Nat /\ e[k] = e[k - 1] + 1 + Len(parts[k]) /\ e[k] <= e[m]
        /\ \A h \in 1..m : \A k \in 1..Len(parts[h]) : f[m][e[h - 1] + 1 + k] = parts[h][k]
        /\ \A k \in 1..m : k < m => f[m][e[k] + 1] = Mark(Comma)
    BY <2>2, <2>3 DEF Shape
  <2>5. f[n] = f[m] \o <<Mark(Comma)>> \o parts[n] /\ parts[n] \in Texts /\ Len(parts[n]) \in Nat /\ e[n] = Len(f[n])
    BY <1>1, <1>2, <2>2
  <2> DEFINE s == f[n]
             a == f[m]
             b == parts[n]
  <2>0. s = a \o <<Mark(Comma)>> \o b /\ a \in Seq(Token) /\ b \in Seq(Token) /\ Mark(Comma) \in Token
        /\ Len(a) = e[m] /\ Len(s) = e[n]
    BY <2>4, <2>5, CommaIsToken DEF Texts
  <2> HIDE DEF s, a, b
  <2>6. /\ s \in Seq(Token) /\ Len(s) = Len(a) + 1 + Len(b) /\ Len(a) \in Nat /\ Len(b) \in Nat
        /\ \A k \in 1..Len(a) : s[k] = a[k]
        /\ s[Len(a) + 1] = Mark(Comma)
        /\ \A k \in 1..Len(b) : s[Len(a) + 1 + k] = b[k]
    <3>1. PICK x : x = Mark(Comma)
      OBVIOUS
    <3>2. x \in Token /\ s = a \o <<x>> \o b /\ a \in Seq(Token) /\ b \in Seq(Token)
      BY <2>0, <3>1
    <3>3. /\ s \in Seq(Token) /\ Len(s) = Len(a) + 1 + Len(b) /\ Len(a) \in Nat /\ Len(b) \in Nat
          /\ \A k \in 1..Len(a) : s[k] = a[k]
          /\ s[Len(a) + 1] = x
          /\ \A k \in 1..Len(b) : s[Len(a) + 1 + k] = b[k]
      BY <3>2, Concat3
    <3> QED BY <3>1, <3>3
  <2>7. e[m] \in Nat /\ e[n] = e[m] + 1 + Len(b) /\ e[n] \in Nat /\ Len(a) = e[m]
    BY <2>0, <2>6
  <2>8. \A k \in 1..n : k \in 1..m \/ k = n
    BY <2>2
  <2>9. \A k \in 1..n : e[k] \in Nat /\ e[k] = e[k - 1] + 1 + Len(parts[k]) /\ e[k] <= e[n]
    <3>1. \A k \in 1..m : e[k] \in Nat /\ e[k] = e[k - 1] + 1 + Len(parts[k]) /\ e[k] <= e[n]
      BY <2>4, <2>7
    <3>2. e[n] \in Nat /\ e[n] = e[n - 1] + 1 + Len(parts[n]) /\ e[n] <= e[n]
      BY <2>2, <2>7 DEF b
    <3> QED BY <2>8, <3>1, <3>2
  <2>10. ASSUME NEW h \in 1..m, NEW k \in 1..Len(parts[h]) PROVE s[e[h - 1] + 1 + k] = parts[h][k]
    <3>1. h \in 1..M /\ Len(parts[h]) \in Nat
      BY <1>2, <2>2
    <3>2. e[h - 1] \in Int /\ e[h - 1] >= -1
      <4>1. CASE h = 1
        <5>1. h - 1 = 0
          BY <4>1
        <5> QED BY <1>2, <5>1
      <4>2. CASE h # 1
        <5>1. h - 1 \in 1..m
          BY <4>2
        <5> QED BY <2>4, <5>1
      <4> QED BY <4>1, <4>2
    <3>3. e[h] = e[h - 1] + 1 + Len(parts[h]) /\ e[h] <= e[m] /\ e[h] \in Nat
      BY <2>4
    <3>4. e[h - 1] + 1 + k \in 1..Len(a)
      <4>1. PICK x, y, z : x = e[h - 1] /\ y = Len(parts[h]) /\ z = Len(a)
        OBVIOUS
      <4>2. x \in Int /\ x >= -1 /\ y \in Nat /\ z \in Nat /\ x + 1 + y <= z /\ k \in 1..y
        BY <2>7, <3>1, <3>2, <3>3, <4>1
      <4>3. x + 1 + k \in 1..z
        BY <4>2
      <4> QED BY <4>1, <4>3
    <3>5. a[e[h - 1] + 1 + k] = parts[h][k]
      BY <2>4 DEF a
    <3> QED BY <2>6, <3>4, <3>5
  <2>11. \A k \in 1..Len(parts[n]) : s[e[n - 1] + 1 + k] = parts[n][k]
    BY <2>2, <2>6, <2>7 DEF b
  <2>12. ASSUME NEW h \in 1..m PROVE s[e[h] + 1] = Mark(Comma)
    <3>1. CASE h = m
      BY <2>6, <2>7, <3>1
    <3>2. CASE h # m
      <4>1. h < m
        BY <3>2
      <4>2. h + 1 \in 1..m /\ (h + 1) - 1 = h
        BY <4>1
      <4>3. e[h + 1] = e[h] + 1 + Len(parts[h + 1]) /\ e[h + 1] <= e[m] /\ e[h] \in Nat /\ Len(parts[h + 1]) \in Nat
        <5>1. h + 1 \in 1..M
          BY <1>2, <2>2, <4>2
        <5> QED BY <1>2, <2>4, <4>2, <5>1
      <4>4. e[h] + 1 \in 1..Len(a)
        BY <2>7, <4>3
      <4>5. a[e[h] + 1] = Mark(Comma)
        BY <2>4, <4>1 DEF a
      <4> QED BY <2>6, <4>4, <4>5
    <3> QED BY <3>1, <3>2
  <2>13. \A h \in 1..n : \A k \in 1..Len(parts[h]) : s[e[h - 1] + 1 + k] = parts[h][k]
    <3> QED BY <2>8, <2>10, <2>11
  <2>14. \A k \in 1..n : k < n => s[e[k] + 1] = Mark(Comma)
    <3>1. \A k \in 1..n : k < n => k \in 1..m
      BY <2>2
    <3> QED BY <2>12, <3>1
  <2>15. s \in Texts /\ Len(s) = IF n = 0 THEN 0 ELSE e[n]
    BY <2>0, <2>2, <2>6 DEF Texts
  <2>16. Shape(parts, n, e, f[n])
    <3> QED BY <1>2, <2>9, <2>13, <2>14, <2>15 DEF Shape, s
  <2> QED BY <2>1, <2>16
<1> HIDE DEF T
<1>6. ASSUME NEW n \in Nat, \A m \in 0..(n - 1) : m \in T PROVE n \in T
  <2>1. CASE n = 0
    BY <1>3, <2>1
  <2>2. CASE n = 1
    BY <1>4, <1>2, <2>2 DEF T
  <2>3. CASE n # 0 /\ n # 1
    <3>1. PICK m \in 0..(n - 1) : n = m + 1 /\ m \in Nat /\ m >= 1
      <4>1. n - 1 \in 0..(n - 1) /\ n = (n - 1) + 1 /\ n - 1 \in Nat /\ n - 1 >= 1
        BY <2>3
      <4> QED BY <4>1
    <3>2. n <= M => Shape(parts, n, e, f[n])
      <4>1. m \in T
        BY <1>6
      <4> QED BY <1>5, <3>1, <4>1
    <3> QED BY <3>2 DEF T
  <2> QED BY <2>1, <2>2, <2>3
<1>7. Nat \subseteq T
  BY <1>6, Induction
<1>8. Shape(parts, M, e, f[M])
  BY <1>2, <1>7 DEF T
<1>9. Shape(parts, Len(parts), e, Joined(parts))
  BY <1>1, <1>8 DEF M
<1> QED BY <1>9

LEMMA Wrapped ==
  ASSUME NEW W, NEW x \in W, NEW y \in W, NEW b \in Seq(W), NEW s, s = <<x>> \o b \o <<y>>
  PROVE  /\ s \in Seq(W) /\ Len(s) = Len(b) + 2 /\ Len(b) \in Nat
         /\ s[1] = x /\ s[Len(b) + 2] = y
         /\ \A k \in 1..Len(b) : s[k + 1] = b[k]
<1>1. Len(b) \in Nat
  BY LenProperties
<1>2. PICK a, c : a = <<x>> /\ c = <<y>>
  OBVIOUS
<1>3. a \in Seq(W) /\ Len(a) = 1 /\ a[1] = x /\ c \in Seq(W) /\ Len(c) = 1 /\ c[1] = y
  BY <1>2
<1>4. PICK d : d = a \o b
  OBVIOUS
<1>5. /\ d \in Seq(W) /\ Len(d) = 1 + Len(b)
      /\ \A i \in 1..(1 + Len(b)) : d[i] = IF i <= 1 THEN a[i] ELSE b[i - 1]
  <2>1. /\ d \in Seq(W) /\ Len(d) = Len(a) + Len(b)
        /\ \A i \in 1..(Len(a) + Len(b)) : d[i] = IF i <= Len(a) THEN a[i] ELSE b[i - Len(a)]
    BY <1>3, <1>4, ConcatProperties
  <2> QED BY <1>3, <2>1
<1>6. s = d \o c
  BY <1>2, <1>4
<1>7. /\ s \in Seq(W) /\ Len(s) = Len(d) + 1
      /\ \A i \in 1..(Len(d) + 1) : s[i] = IF i <= Len(d) THEN d[i] ELSE c[i - Len(d)]
  BY <1>3, <1>5, <1>6, ConcatProperties
<1>8. s[1] = x
  <2>1. 1 \in 1..(Len(d) + 1) /\ 1 <= Len(d) /\ 1 \in 1..(1 + Len(b)) /\ 1 <= 1
    BY <1>1, <1>5
  <2> QED BY <1>3, <1>5, <1>7, <2>1
<1>9. s[Len(b) + 2] = y
  <2>1. Len(b) + 2 \in 1..(Len(d) + 1) /\ ~(Len(b) + 2 <= Len(d)) /\ (Len(b) + 2) - Len(d) = 1
    BY <1>1, <1>5
  <2> QED BY <1>3, <1>7, <2>1
<1>10. ASSUME NEW k \in 1..Len(b) PROVE s[k + 1] = b[k]
  <2>1. k + 1 \in 1..(Len(d) + 1) /\ k + 1 <= Len(d) /\ k + 1 \in 1..(1 + Len(b)) /\ ~(k + 1 <= 1) /\ (k + 1) - 1 = k
    BY <1>1, <1>5
  <2> QED BY <1>5, <1>7, <2>1
<1> QED BY <1>1, <1>5, <1>7, <1>8, <1>9, <1>10

(***************************************************************************)
(* A spelling means the same wherever it stands.                           *)
(***************************************************************************)
Stands(t, p, s) == p \in Positions(t) /\ p + Len(s) \in Positions(t) /\ \A k \in 1..Len(s) : t[p + k - 1] = s[k]

LEMMA PrefixGrows ==
  ASSUME NEW W, NEW L \in Seq(W), NEW m \in Nat, m + 1 <= Len(L)
  PROVE  /\ [k \in 1..(m + 1) |-> L[k]] = Append([k \in 1..m |-> L[k]], L[m + 1])
         /\ [k \in 1..0 |-> L[k]] = <<>>
         /\ L[m + 1] \in W
<1>1. Len(L) \in Nat /\ \A k \in 1..Len(L) : L[k] \in W
  BY ElementOfSeq, LenProperties
<1> DEFINE a == [k \in 1..m |-> L[k]]
           b == [k \in 1..(m + 1) |-> L[k]]
           c == [k \in 1..0 |-> L[k]]
<1>2. a \in [1..m -> W] /\ b \in [1..(m + 1) -> W] /\ L[m + 1] \in W
  BY <1>1
<1>3. (\A k \in 1..m : a[k] = L[k]) /\ (\A k \in 1..(m + 1) : b[k] = L[k]) /\ DOMAIN a = 1..m /\ DOMAIN b = 1..(m + 1)
  OBVIOUS
<1>4. c = <<>>
  OBVIOUS
<1> HIDE DEF a, b, c
<1>5. a \in Seq(W) /\ b \in Seq(W)
  BY <1>2, SeqDef
<1>6. Len(a) = m /\ Len(b) = m + 1
  <2>1. m + 1 \in Nat
    OBVIOUS
  <2> QED BY <1>3, <1>5, <2>1, LenProperties, SameRange
<1>7. /\ Append(a, L[m + 1]) \in Seq(W) /\ Len(Append(a, L[m + 1])) = m + 1
      /\ \A k \in 1..m : Append(a, L[m + 1])[k] = a[k]
      /\ Append(a, L[m + 1])[m + 1] = L[m + 1]
  BY <1>2, <1>5, <1>6, AppendIs
<1>8. \A k \in 1..(m + 1) : b[k] = Append(a, L[m + 1])[k]
  <2>1. \A k \in 1..(m + 1) : k \in 1..m \/ k = m + 1
    OBVIOUS
  <2>2. \A k \in 1..m : k \in 1..(m + 1)
    OBVIOUS
  <2> QED BY <1>3, <1>7, <2>1, <2>2
<1>9. b = Append(a, L[m + 1])
  BY <1>5, <1>6, <1>7, <1>8, SeqEqual
<1> QED BY <1>2, <1>4, <1>9 DEF a, b, c

LEMMA ListStands ==
  ASSUME NEW t \in Texts, NEW table, NEW i \in Positions(t), NEW W, NEW L \in Seq(W), NEW N, N = Len(L), N # 0,
         NEW parts, \A n \in 1..N : parts[n] \in Texts, NEW e, NEW J, Shape(parts, N, e, J), Stands(t, i, J),
         \A n \in 1..N : \A p : Stands(t, p, parts[n]) /\ Kind(t, p + Len(parts[n])) # "ws" =>
                                  L[n] \in table[<<p, p + Len(parts[n])>>],
         Kind(t, i + Len(J)) # "ws"
  PROVE  L \in Lists(t, table, i)[i + Len(J)]
<1>1. /\ Len(t) \in Nat /\ i \in 1..(Len(t) + 1) /\ Positions(t) = 1..(Len(t) + 1)
      /\ \A k \in 1..Len(t) : Kind(t, k) = t[k][1]
  BY KindsAre
<1>2. N \in Nat /\ N \in 1..N /\ \A n \in 1..N : Len(parts[n]) \in Nat
  <2>1. N \in Nat
    BY LenProperties
  <2>2. \A n \in 1..N : Len(parts[n]) \in Nat
    BY LenProperties DEF Texts
  <2> QED BY <2>1, <2>2
<1>3. /\ J \in Texts /\ e[0] = -1 /\ Len(J) = e[N]
      /\ \A n \in 1..N : e[n] \in Nat /\ e[n] = e[n - 1] + 1 + Len(parts[n]) /\ e[n] <= e[N]
      /\ \A n \in 1..N : \A k \in 1..Len(parts[n]) : J[e[n - 1] + 1 + k] = parts[n][k]
      /\ \A n \in 1..N : n < N => J[e[n] + 1] = Mark(Comma)
  BY DEF Shape
<1>4. i + e[N] \in 1..(Len(t) + 1) /\ \A k \in 1..e[N] : t[i + k - 1] = J[k]
  BY <1>1, <1>3 DEF Stands
<1>5. ASSUME NEW n \in 1..N, n < N
      PROVE  /\ i + e[n] \in i..Len(t) /\ i + e[n] < i + e[n + 1] /\ t[i + e[n]] = Mark(Comma)
             /\ t[i + e[n]][1] = Comma /\ Kind(t, i + e[n]) = Comma
  <2>1. PICK m : m = n + 1
    OBVIOUS
  <2>2. m \in 1..N /\ m - 1 = n
    BY <1>2, <1>5, <2>1
  <2>3. e[m] = e[n] + 1 + Len(parts[m]) /\ e[m] <= e[N] /\ e[n] \in Nat /\ Len(parts[m]) \in Nat /\ e[N] \in Nat
    BY <1>2, <1>3, <2>2
  <2>4. PICK x, y, z, w : x = e[n] /\ y = e[m] /\ z = e[N] /\ w = Len(parts[m])
    OBVIOUS
  <2>5. x \in Nat /\ z \in Nat /\ w \in Nat /\ y = x + 1 + w /\ y <= z /\ i + z \in 1..(Len(t) + 1)
    BY <1>4, <2>3, <2>4
  <2>6. x + 1 \in 1..z /\ i + (x + 1) - 1 = i + x /\ i + x \in i..Len(t) /\ i + x \in 1..Len(t) /\ i + x < i + y
    BY <1>1, <2>5
  <2>7. t[i + x] = J[x + 1]
    BY <1>4, <2>4, <2>6
  <2>8. t[i + x] = Mark(Comma)
    BY <1>3, <1>5, <2>4, <2>7
  <2>9. Mark(Comma)[1] = Comma
    BY DEF Mark
  <2> QED BY <1>1, <2>1, <2>4, <2>6, <2>8, <2>9
<1>6. ASSUME NEW n \in 1..N
      PROVE  /\ e[n - 1] \in Int /\ e[n - 1] >= -1 /\ (n = 1 => e[n - 1] = -1) /\ (n # 1 => e[n - 1] \in Nat /\ n - 1 \in 1..N /\ n - 1 < N)
  <2>1. CASE n = 1
    <3>1. n - 1 = 0
      BY <2>1
    <3> QED BY <1>3, <2>1, <3>1
  <2>2. CASE n # 1
    <3>1. n - 1 \in 1..N /\ n - 1 < N
      BY <1>2, <2>2
    <3>2. e[n - 1] \in Nat
      BY <1>3, <3>1
    <3> QED BY <2>2, <3>1, <3>2
  <2> QED BY <2>1, <2>2
<1>7. ASSUME NEW n \in 1..N
      PROVE  L[n] \in table[<<(i + e[n - 1]) + 1, i + e[n]>>]
  <2>1. PICK a, x, y, w : a = i + e[n - 1] /\ x = e[n - 1] /\ y = e[n] /\ w = Len(parts[n])
    OBVIOUS
  <2>2. x \in Int /\ x >= -1 /\ y \in Nat /\ w \in Nat /\ y = x + 1 + w /\ y <= e[N] /\ e[N] \in Nat
    BY <1>2, <1>3, <1>6, <2>1
  <2>3. a = i + x /\ a + 1 \in 1..(Len(t) + 1) /\ (a + 1) + w = i + y /\ i + y \in 1..(Len(t) + 1)
    <3>1. PICK z : z = e[N]
      OBVIOUS
    <3>2. x \in Int /\ x >= -1 /\ y \in Nat /\ w \in Nat /\ y = x + 1 + w /\ y <= z /\ z \in Nat /\ a = i + x
          /\ i \in Nat /\ i >= 1 /\ i + z <= Len(t) + 1 /\ Len(t) \in Nat
      BY <1>1, <1>4, <2>1, <2>2, <3>1
    <3> QED BY <3>2
  <2>4. ASSUME NEW k \in 1..w PROVE t[(a + 1) + k - 1] = parts[n][k]
    <3>1. x + 1 + k \in 1..e[N] /\ i + (x + 1 + k) - 1 = (a + 1) + k - 1
      BY <1>1, <2>2, <2>3
    <3>2. t[i + (x + 1 + k) - 1] = J[x + 1 + k]
      BY <1>4, <3>1
    <3>3. J[x + 1 + k] = parts[n][k]
      BY <1>3, <2>1
    <3> QED BY <3>1, <3>2, <3>3
  <2>5. Stands(t, a + 1, parts[n])
    BY <1>1, <2>1, <2>3, <2>4 DEF Stands
  <2>6. Kind(t, i + y) # "ws"
    <3>1. CASE n = N
      BY <1>3, <2>1, <3>1
    <3>2. CASE n # N
      <4>1. n < N
        BY <1>2, <3>2
      <4> QED BY <1>5, <2>1, <4>1, MarksDiffer
    <3> QED BY <3>1, <3>2
  <2>7. L[n] \in table[<<a + 1, (a + 1) + w>>]
    BY <2>1, <2>3, <2>5, <2>6
  <2> QED BY <2>1, <2>3, <2>7
<1> DEFINE prefix(n) == [k \in 1..n |-> L[k]]
           T == {n \in Nat : 1 <= n /\ n <= N => prefix(n) \in Lists(t, table, i)[i + e[n]]}
<1>8. ASSUME NEW n \in Nat, \A m \in 0..(n - 1) : m \in T PROVE n \in T
  <2> SUFFICES ASSUME 1 <= n, n <= N PROVE prefix(n) \in Lists(t, table, i)[i + e[n]]
    OBVIOUS
  <2>1. PICK m \in 0..(n - 1) : n = m + 1
    <3>1. n - 1 \in 0..(n - 1) /\ n = (n - 1) + 1
      OBVIOUS
    <3> QED BY <3>1
  <2>2. m \in Nat /\ n \in 1..N /\ n - 1 = m /\ m + 1 <= Len(L)
    BY <1>2, <2>1
  <2>3. prefix(n) = Append(prefix(m), L[n]) /\ prefix(0) = <<>>
    BY <2>1, <2>2, PrefixGrows
  <2> DEFINE c == i + e[m]
             j == i + e[n]
  <2>4. L[n] \in table[<<c + 1, j>>]
    BY <1>7, <2>2
  <2>5. j \in i..(Len(t) + 1)
    <3>1. e[n] \in Nat /\ e[n] <= e[N] /\ e[N] \in Nat
      BY <1>2, <1>3, <2>2
    <3> QED BY <1>1, <1>4, <3>1
  <2>6. c \in Cuts(t, i, j) /\ prefix(m) \in Lists(t, table, i)[c]
    <3>1. CASE m = 0
      <4>1. c = i - 1
        BY <1>1, <1>3, <3>1
      <4>2. prefix(m) \in Lists(t, table, i)[i - 1]
        BY <2>3, <3>1, ListsAre
      <4> QED BY <4>1, <4>2 DEF Cuts
    <3>2. CASE m # 0
      <4>1. 1 <= m /\ m <= N /\ m \in 1..N /\ m < N
        BY <1>2, <2>1, <2>2, <3>2
      <4>2. m \in T
        BY <1>8
      <4>3. prefix(m) \in Lists(t, table, i)[c]
        BY <4>1, <4>2
      <4>4. c \in i..Len(t) /\ c < j /\ t[c][1] = Comma
        BY <1>5, <2>1, <4>1
      <4>5. c \in i..(j - 1)
        BY <1>1, <2>5, <4>4
      <4> HIDE DEF c, j, prefix
      <4> QED BY <4>3, <4>4, <4>5 DEF Cuts
    <3> QED BY <3>1, <3>2
  <2> HIDE DEF c, j, prefix
  <2>7. prefix(n) \in Lists(t, table, i)[j]
    <3>1. \A l : l \in Lists(t, table, i)[j] <=>
            \E d \in Cuts(t, i, j) : \E k \in Lists(t, table, i)[d], x \in table[<<d + 1, j>>] : l = Append(k, x)
      BY <2>5, ListsAre
    <3> QED BY <2>3, <2>4, <2>6, <3>1
  <2> QED BY <2>7 DEF j
<1> HIDE DEF T
<1>9. Nat \subseteq T
  BY <1>8, Induction
<1>10. prefix(N) \in Lists(t, table, i)[i + e[N]]
  <2>1. 1 <= N /\ N <= N /\ N \in T
    BY <1>2, <1>9
  <2> QED BY <2>1 DEF T
<1>11. prefix(N) = L
  BY LenProperties
<1> QED BY <1>3, <1>10, <1>11

Sound(room, m) ==
  /\ Spellings[room][m] \in Texts
  /\ \A t \in Texts : \A p : Stands(t, p, Spellings[room][m]) =>
       m \in Levels(t)[room][<<p, p + Len(Spellings[room][m])>>]

SoundPart(close, room, y) ==
  /\ Written(close, Spellings[room], y) \in Texts
  /\ \A t \in Texts : \A p :
       /\ Stands(t, p, Written(close, Spellings[room], y))
       /\ Kind(t, p + Len(Written(close, Spellings[room], y))) # "ws"
       => y \in Table(close, t, Levels(t)[room])[<<p, p + Len(Written(close, Spellings[room], y))>>]

LEMMA ElementSound ==
  ASSUME NEW room, NEW m, Sound(room, m)
  PROVE  SoundPart("]", room, m)
<1>1. Written("]", Spellings[room], m) = Spellings[room][m] /\ \A t : Table("]", t, Levels(t)[room]) = Levels(t)[room]
  BY DEF Written, Table
<1> QED BY <1>1 DEF Sound, SoundPart

LEMMA MemberIs ==
  ASSUME NEW key \in Seq(Scalars), NEW s \in Texts, NEW w, w = Member(key, s)
  PROVE  /\ w \in Texts /\ Len(w) = Len(s) + 2 /\ Len(s) \in Nat
         /\ w[1] = Quoted(key) /\ w[2] = Mark(":") /\ \A k \in 1..Len(s) : w[k + 2] = s[k]
         /\ Quoted(key) \in Token /\ Quoted(key)[1] = "str" /\ Quoted(key)[2] = Spell(key)
<1>1. Quoted(key) \in Token /\ Quoted(key)[1] = "str" /\ Quoted(key)[2] = Spell(key)
  <2>1. Spell(key) \in Seq(TextUnits)
    BY SpellingsAreRead
  <2> QED BY <2>1 DEF Quoted, Token
<1>2. Mark(":") \in Token
  BY CommaIsToken
<1>3. PICK x, y : x = Quoted(key) /\ y = Mark(":")
  OBVIOUS
<1>4. PICK a : a = <<x, y>>
  OBVIOUS
<1>5. a \in Seq(Token) /\ Len(a) = 2 /\ a[1] = x /\ a[2] = y
  BY <1>1, <1>2, <1>3, <1>4
<1>6. w = a \o s
  BY <1>3, <1>4 DEF Member
<1>7. s \in Seq(Token) /\ Len(s) \in Nat
  BY LenProperties DEF Texts
<1>8. /\ w \in Seq(Token) /\ Len(w) = Len(a) + Len(s)
      /\ \A i \in 1..(Len(a) + Len(s)) : w[i] = IF i <= Len(a) THEN a[i] ELSE s[i - Len(a)]
  <2>1. PICK b : b = s
    OBVIOUS
  <2>2. PICK d : d = a \o b
    OBVIOUS
  <2>3. a \in Seq(Token) /\ b \in Seq(Token)
    BY <1>5, <1>7, <2>1
  <2>4. /\ a \o b \in Seq(Token) /\ Len(a \o b) = Len(a) + Len(b)
        /\ \A i \in 1..(Len(a) + Len(b)) : (a \o b)[i] = IF i <= Len(a) THEN a[i] ELSE b[i - Len(a)]
    BY <2>3, ConcatProperties
  <2>5. /\ d \in Seq(Token) /\ Len(d) = Len(a) + Len(b)
        /\ \A i \in 1..(Len(a) + Len(b)) : d[i] = IF i <= Len(a) THEN a[i] ELSE b[i - Len(a)]
    BY <2>2, <2>4
  <2>6. d = w /\ b = s
    BY <1>6, <2>1, <2>2
  <2> QED BY <2>5, <2>6
<1>9. Len(w) = Len(s) + 2 /\ \A i \in 1..(2 + Len(s)) : w[i] = IF i <= 2 THEN a[i] ELSE s[i - 2]
  BY <1>5, <1>7, <1>8
<1>10. w[1] = x /\ w[2] = y
  BY <1>5, <1>7, <1>9
<1>11. ASSUME NEW k \in 1..Len(s) PROVE w[k + 2] = s[k]
  <2>1. k + 2 \in 1..(2 + Len(s)) /\ ~(k + 2 <= 2) /\ (k + 2) - 2 = k
    BY <1>7
  <2> QED BY <1>9, <2>1
<1> QED BY <1>1, <1>3, <1>7, <1>8, <1>9, <1>10, <1>11 DEF Texts

LEMMA MemberSound ==
  ASSUME NEW room \in 0..Depth, NEW m, Sound(room, m),
         NEW key \in Seq(Scalars), key \notin NotNFC, \A k \in DOMAIN key : key[k] # 0
  PROVE  SoundPart(Curly, room, <<key, m>>)
<1> DEFINE s == Spellings[room][m]
           w == Written(Curly, Spellings[room], <<key, m>>)
<1>1. s \in Texts /\ \A t \in Texts : \A p : Stands(t, p, s) => m \in Levels(t)[room][<<p, p + Len(s)>>]
  BY DEF Sound
<1>2. w = Member(key, s)
  BY MarksDiffer DEF Written
<1> HIDE DEF s, w
<1>3. /\ w \in Texts /\ Len(w) = Len(s) + 2 /\ Len(s) \in Nat
      /\ w[1] = Quoted(key) /\ w[2] = Mark(":") /\ \A k \in 1..Len(s) : w[k + 2] = s[k]
      /\ Quoted(key) \in Token /\ Quoted(key)[1] = "str" /\ Quoted(key)[2] = Spell(key)
  BY <1>1, <1>2, MemberIs
<1>4. ASSUME NEW t \in Texts, NEW p, Stands(t, p, w), Kind(t, p + Len(w)) # "ws"
      PROVE  <<key, m>> \in Members(t, Levels(t)[room])[<<p, p + Len(w)>>]
  <2>1. /\ Len(t) \in Nat /\ Positions(t) = 1..(Len(t) + 1)
        /\ \A k \in 1..Len(t) : t[k] \in Token /\ Kind(t, k) = t[k][1]
    BY KindsAre
  <2>2. /\ p \in 1..(Len(t) + 1) /\ p + Len(w) \in 1..(Len(t) + 1)
        /\ \A k \in 1..Len(w) : t[p + k - 1] = w[k]
    BY <1>4, <2>1 DEF Stands
  <2>3. p \in 1..Len(t) /\ p + 1 \in 1..Len(t) /\ p + 2 \in 1..(Len(t) + 1) /\ p + Len(w) = (p + 2) + Len(s)
    BY <1>3, <2>1, <2>2
  <2>4. t[p] = Quoted(key) /\ t[p + 1] = Mark(":")
    <3>1. 1 \in 1..Len(w) /\ 2 \in 1..Len(w) /\ p + 1 - 1 = p /\ p + 2 - 1 = p + 1
      BY <1>3, <2>2
    <3> QED BY <1>3, <2>2, <3>1
  <2>5. Stands(t, p + 2, s)
    <3>1. ASSUME NEW k \in 1..Len(s) PROVE t[(p + 2) + k - 1] = s[k]
      <4>1. k + 2 \in 1..Len(w) /\ p + (k + 2) - 1 = (p + 2) + k - 1
        BY <1>3, <2>2
      <4> QED BY <1>3, <2>2, <4>1
    <3> QED BY <2>1, <2>2, <2>3, <3>1 DEF Stands
  <2>6. m \in Levels(t)[room][<<(p + 1) + 1, p + Len(w)>>]
    <3>1. (p + 1) + 1 = p + 2
      BY <2>2
    <3> QED BY <1>1, <2>3, <2>5, <3>1
  <2>7. Kind(t, p) = "str" /\ Kind(t, p + 1) = ":"
    BY <1>3, <2>1, <2>3, <2>4 DEF Mark
  <2>8. whitespace(t, p) = p
    <3>1. p \in p..(Len(t) + 1) /\ Blank(t, p, p)
      BY <2>1, <2>2 DEF Blank
    <3>2. Kind(t, p) # "ws"
      BY <2>7
    <3> QED BY <2>1, <2>2, <3>1, <3>2, WhitespaceIs
  <2>9. whitespace(t, p + 1) = p + 1
    <3>1. p + 1 \in (p + 1)..(Len(t) + 1) /\ Blank(t, p + 1, p + 1) /\ p + 1 \in Positions(t)
      BY <2>1, <2>3 DEF Blank
    <3>2. Kind(t, p + 1) # "ws"
      BY <2>7
    <3> QED BY <3>1, <3>2, WhitespaceIs
  <2>10. key \in Keys(t[p])
    <3>1. string(t[p][2]) = Yield(0, key)
      BY <1>3, <2>4, SpellingsAreRead
    <3>2. string(t[p][2]).ok /\ string(t[p][2]).out = key
      BY <3>1 DEF Yield
    <3>3. t[p] \in Token /\ t[p][1] = "str"
      BY <1>3, <2>4
    <3>4. \A a : a \in Keys(t[p]) <=>
             string(t[p][2]).ok /\ a = string(t[p][2]).out /\ a \notin NotNFC /\ \A k \in DOMAIN a : a[k] # 0
      BY <3>3, KeysAre
    <3> QED BY <3>2, <3>4
  <2>11. AllAgree(t, Levels(t)[room], Spellings[room], Values(t)[room])
    BY CodecAgrees
  <2>12. PICK colon, j, x, q : colon = p + 1 /\ j = p + Len(w) /\ x = <<key, m>> /\ q = p
    OBVIOUS
  <2>13. p \in Positions(t) /\ j \in Positions(t) /\ Kind(t, j) # "ws" /\ q = whitespace(t, p) /\ colon = whitespace(t, q + 1)
    BY <1>4, <2>1, <2>2, <2>8, <2>9, <2>12
  <2>14. x \in Members(t, Levels(t)[room])[<<p, j>>] <=>
           /\ Kind(t, q) = "str" /\ Kind(t, colon) = ":"
           /\ \E a \in Keys(t[q]), b \in Levels(t)[room][<<colon + 1, j>>] : x = <<a, b>>
    BY <2>11, <2>13, MembersThere
  <2> QED BY <2>6, <2>7, <2>10, <2>12, <2>14
<1>5. \A t : Table(Curly, t, Levels(t)[room]) = Members(t, Levels(t)[room])
  BY MarksDiffer DEF Table
<1> QED BY <1>3, <1>4, <1>5 DEF SoundPart, w

Bracketed(close, J, s) ==
  /\ s \in Texts /\ Len(J) \in Nat /\ Len(s) = Len(J) + 2
  /\ s[1] = Mark(Opening(close)) /\ s[Len(J) + 2] = Mark(close)
  /\ \A k \in 1..Len(J) : s[k + 1] = J[k]

LEMMA InBracketsIs ==
  ASSUME NEW parts, Len(parts) \in Nat, \A n \in 1..Len(parts) : parts[n] \in Texts, NEW close \in Enders
  PROVE  \E e, J : Shape(parts, Len(parts), e, J) /\ Bracketed(close, J, InBrackets(close, parts))
<1>1. PICK e : Shape(parts, Len(parts), e, Joined(parts))
  BY JoinedShape
<1>2. PICK J : J = Joined(parts)
  OBVIOUS
<1>3. PICK x, y : x = Mark(Opening(close)) /\ y = Mark(close)
  OBVIOUS
<1>4. PICK s : s = <<x>> \o J \o <<y>>
  OBVIOUS
<1>5. J \in Seq(Token) /\ x \in Token /\ y \in Token
  BY <1>1, <1>2, <1>3, CommaIsToken DEF Shape, Texts
<1>6. /\ s \in Seq(Token) /\ Len(s) = Len(J) + 2 /\ Len(J) \in Nat
      /\ s[1] = x /\ s[Len(J) + 2] = y
      /\ \A k \in 1..Len(J) : s[k + 1] = J[k]
  BY <1>4, <1>5, Wrapped
<1>7. s = InBrackets(close, parts)
  BY <1>2, <1>3, <1>4 DEF InBrackets
<1>8. Bracketed(close, J, s)
  BY <1>3, <1>6 DEF Bracketed, Texts
<1> QED BY <1>1, <1>2, <1>7, <1>8

LEMMA BracketsStand ==
  ASSUME NEW t \in Texts, NEW close \in Enders, NEW J, NEW s, Bracketed(close, J, s), NEW p, Stands(t, p, s),
         NEW c, c = p + Len(J) + 1
  PROVE  /\ p \in 1..Len(t) /\ p + 1 \in Positions(t) /\ c \in (p + 1)..Len(t) /\ c = (p + 1) + Len(J)
         /\ c + 1 = p + Len(s) /\ Len(J) \in Nat
         /\ t[p][1] = Opening(close) /\ t[c][1] = close /\ Kind(t, c) = close
         /\ Len(J) + (p + 1) \in Positions(t) /\ \A k \in 1..Len(J) : t[(p + 1) + k - 1] = J[k]
<1>1. /\ Len(t) \in Nat /\ Positions(t) = 1..(Len(t) + 1)
      /\ \A k \in 1..Len(t) : t[k] \in Token /\ Kind(t, k) = t[k][1]
  BY KindsAre
<1>2. /\ Len(J) \in Nat /\ Len(s) = Len(J) + 2
      /\ s[1] = Mark(Opening(close)) /\ s[Len(J) + 2] = Mark(close)
      /\ \A k \in 1..Len(J) : s[k + 1] = J[k]
  BY DEF Bracketed
<1>3. /\ p \in 1..(Len(t) + 1) /\ p + Len(s) \in 1..(Len(t) + 1)
      /\ \A k \in 1..Len(s) : t[p + k - 1] = s[k]
  BY <1>1 DEF Stands
<1>4. PICK n, N, S : n = Len(J) /\ N = Len(t) /\ S = Len(s)
  OBVIOUS
<1>5. n \in Nat /\ N \in Nat /\ S = n + 2 /\ p \in 1..(N + 1) /\ p + S \in 1..(N + 1) /\ c = p + n + 1
  BY <1>1, <1>2, <1>3, <1>4
<1>6. /\ p \in 1..N /\ p + 1 \in 1..(N + 1) /\ c \in (p + 1)..N /\ c \in 1..N /\ c = (p + 1) + n /\ c + 1 = p + S
      /\ n + (p + 1) \in 1..(N + 1) /\ 1 \in 1..S /\ n + 2 \in 1..S /\ p + 1 - 1 = p /\ p + (n + 2) - 1 = c
  BY <1>5
<1>7. t[p] = s[1] /\ t[c] = s[n + 2]
  BY <1>3, <1>4, <1>6
<1>8. t[p][1] = Opening(close) /\ t[c][1] = close
  BY <1>2, <1>4, <1>7 DEF Mark
<1>9. ASSUME NEW k \in 1..n PROVE t[(p + 1) + k - 1] = J[k]
  <2>1. k + 1 \in 1..S /\ p + (k + 1) - 1 = (p + 1) + k - 1
    BY <1>5
  <2> QED BY <1>2, <1>3, <1>4, <2>1
<1> QED BY <1>1, <1>4, <1>5, <1>6, <1>8, <1>9

LEMMA WholeStands ==
  ASSUME NEW t \in Texts, NEW room \in 0..Depth, room # 0, NEW table, table = Levels(t)[room - 1],
         NEW close \in Enders, NEW W, NEW L \in Seq(W), Fits(close, L),
         NEW N, N = Len(L), NEW parts, \A n \in 1..N : parts[n] \in Texts,
         NEW e, NEW J, Shape(parts, N, e, J), NEW s, Bracketed(close, J, s), NEW p, Stands(t, p, s),
         \A n \in 1..N : \A q : Stands(t, q, parts[n]) /\ Kind(t, q + Len(parts[n])) # "ws" =>
                                  L[n] \in Table(close, t, table)[<<q, q + Len(parts[n])>>]
  PROVE  Whole(close, L) \in Levels(t)[room][<<p, p + Len(s)>>]
<1>1. PICK c, i, j, T, x : c = p + Len(J) + 1 /\ i = p + 1 /\ j = p + Len(s) /\ T = Table(close, t, table) /\ x = Whole(close, L)
  OBVIOUS
<1>2. /\ p \in 1..Len(t) /\ p + 1 \in Positions(t) /\ c \in (p + 1)..Len(t) /\ c = (p + 1) + Len(J)
      /\ c + 1 = p + Len(s) /\ Len(J) \in Nat
      /\ t[p][1] = Opening(close) /\ t[c][1] = close /\ Kind(t, c) = close
      /\ Len(J) + (p + 1) \in Positions(t) /\ \A k \in 1..Len(J) : t[(p + 1) + k - 1] = J[k]
  <2>1. c = p + Len(J) + 1
    BY <1>1
  <2> QED BY <2>1, BracketsStand
<1>3. Len(t) \in Nat /\ Positions(t) = 1..(Len(t) + 1) /\ N \in Nat
  BY KindsAre, LenProperties
<1>4. c # p /\ p < c /\ c \in Nat /\ p \in Nat /\ p \in Positions(t) /\ j \in Positions(t) /\ c + 1 = j
  BY <1>1, <1>2, <1>3
<1>5. Between(t, close, table, p, c, L)
  <2>1. CASE N = 0
    <3>1. L = <<>>
      BY <2>1, EmptySeq
    <3>2. Len(J) = 0
      BY <2>1 DEF Shape
    <3>3. c = p + 1
      BY <1>2, <1>4, <3>2
    <3>4. Blank(t, p + 1, c)
      BY <1>4, <3>3 DEF Blank
    <3> QED BY <1>2, <3>1, <3>4 DEF Between
  <2>2. CASE N # 0
    <3>1. i \in Positions(t) /\ i + Len(J) = c /\ i + Len(J) \in Positions(t) /\ \A k \in 1..Len(J) : t[i + k - 1] = J[k]
      BY <1>1, <1>2, <1>3
    <3>2. Stands(t, i, J)
      BY <3>1 DEF Stands
    <3>3. Kind(t, i + Len(J)) # "ws"
      BY <1>2, <3>1, MarksDiffer
    <3>4. \A n \in 1..N : \A q : Stands(t, q, parts[n]) /\ Kind(t, q + Len(parts[n])) # "ws" =>
                                  L[n] \in T[<<q, q + Len(parts[n])>>]
      BY <1>1
    <3>5. L \in Lists(t, T, i)[i + Len(J)]
      BY <2>2, <3>1, <3>2, <3>3, <3>4, ListStands
    <3> QED BY <1>1, <1>2, <3>1, <3>5 DEF Between
  <2> QED BY <2>1, <2>2
<1>6. x \in Enclosed(t, table, p, c + 1)
  BY <1>1, <1>2, <1>4, <1>5, EnclosedAt
<1>7. t[p][1] # "ws" /\ t[c][1] # "ws"
  BY <1>2, MarksDiffer, OpeningsAre
<1>8. Blank(t, p, p) /\ Blank(t, c + 1, j)
  BY <1>4 DEF Blank
<1>9. p \in p..j /\ c \in p..j /\ p <= c /\ c < j
  BY <1>3, <1>4
<1>10. x \in Levels(t)[room][<<p, j>>] <=>
           \E q \in p..j, d \in p..j :
             /\ q <= d /\ d < j /\ t[q][1] # "ws" /\ t[d][1] # "ws"
             /\ Blank(t, p, q) /\ Blank(t, d + 1, j)
             /\ \/ d = q /\ x \in Simple(t[q])
                \/ d # q /\ room # 0 /\ x \in Enclosed(t, Levels(t)[room - 1], q, d + 1)
  BY <1>4, MeaningsAre
<1>11. x \in Levels(t)[room][<<p, j>>]
  BY <1>4, <1>6, <1>7, <1>8, <1>9, <1>10
<1> QED BY <1>1, <1>11

LEMMA WholeSound ==
  ASSUME NEW room \in 0..Depth, room # 0, NEW close \in Enders,
         NEW l \in Seq(Part(close, DOMAIN Spellings[room - 1])), Fits(close, l),
         \A k \in 1..Len(l) : SoundPart(close, room - 1, l[k])
  PROVE  Sound(room, Whole(close, l))
<1>1. PICK sp, m, R : sp = Spellings[room - 1] /\ m = Whole(close, l) /\ R = room - 1
  OBVIOUS
<1>2. PICK L : Ordered(close, l, L, DOMAIN sp) /\ Spellings[room][Whole(close, l)] = InBrackets(close, AllWritten(close, sp, L))
  BY <1>1, WholeIsWritten
<1>3. PICK parts, N, s : parts = AllWritten(close, sp, L) /\ N = Len(L) /\ s = InBrackets(close, parts)
  OBVIOUS
<1>4. /\ L \in Seq(Part(close, DOMAIN sp)) /\ N = Len(l) /\ Fits(close, L) /\ Whole(close, L) = m
      /\ \A y : (\E i \in 1..Len(L) : L[i] = y) <=> \E i \in 1..Len(l) : l[i] = y
  BY <1>1, <1>2, <1>3 DEF Ordered
<1>5. N \in Nat /\ DOMAIN L = 1..N /\ Len(l) \in Nat
  BY <1>3, <1>4, LenProperties
<1>6. Len(parts) = N /\ \A n \in 1..N : parts[n] = Written(close, sp, L[n])
  BY <1>3, <1>5 DEF AllWritten
<1>7. ASSUME NEW n \in 1..N PROVE SoundPart(close, R, L[n])
  <2>1. \E i \in 1..Len(L) : L[i] = L[n]
    BY <1>3, <1>5
  <2>2. PICK k \in 1..Len(l) : l[k] = L[n]
    BY <1>4, <2>1
  <2> QED BY <1>1, <2>2
<1>8. ASSUME NEW n \in 1..N
      PROVE  /\ parts[n] \in Texts
             /\ \A t \in Texts : \A p : Stands(t, p, parts[n]) /\ Kind(t, p + Len(parts[n])) # "ws"
                  => L[n] \in Table(close, t, Levels(t)[R])[<<p, p + Len(parts[n])>>]
  <2>1. PICK w, y : w = Written(close, sp, L[n]) /\ y = L[n]
    OBVIOUS
  <2>2. SoundPart(close, R, y) /\ w = Written(close, Spellings[R], y)
    BY <1>1, <1>7, <2>1
  <2>3. /\ w \in Texts
        /\ \A t \in Texts : \A p : Stands(t, p, w) /\ Kind(t, p + Len(w)) # "ws"
             => y \in Table(close, t, Levels(t)[R])[<<p, p + Len(w)>>]
    BY <2>2 DEF SoundPart
  <2>4. w = parts[n]
    BY <1>6, <2>1
  <2> QED BY <2>1, <2>3, <2>4
<1>9. \A n \in 1..Len(parts) : parts[n] \in Texts
  BY <1>6, <1>8
<1>10. PICK e, J : Shape(parts, N, e, J) /\ Bracketed(close, J, s)
  BY <1>3, <1>5, <1>6, <1>9, InBracketsIs
<1>11. s \in Texts
  BY <1>10 DEF Bracketed
<1>12. ASSUME NEW t \in Texts, NEW p, Stands(t, p, s)
       PROVE  m \in Levels(t)[room][<<p, p + Len(s)>>]
  <2>1. PICK table : table = Levels(t)[R]
    OBVIOUS
  <2>2. \A n \in 1..N : \A q : Stands(t, q, parts[n]) /\ Kind(t, q + Len(parts[n])) # "ws" =>
                                  L[n] \in Table(close, t, table)[<<q, q + Len(parts[n])>>]
    BY <1>8, <2>1
  <2>3. table = Levels(t)[room - 1]
    BY <1>1, <2>1
  <2>4. \A n \in 1..N : parts[n] \in Texts
    BY <1>8
  <2>5. PICK W : W = Part(close, DOMAIN sp)
    OBVIOUS
  <2>6. L \in Seq(W)
    BY <1>4, <2>5
  <2>7. Whole(close, L) \in Levels(t)[room][<<p, p + Len(s)>>]
    BY <1>3, <1>4, <1>10, <1>12, <2>2, <2>3, <2>4, <2>6, WholeStands
  <2> QED BY <1>4, <2>7
<1>13. s = Spellings[room][m]
  BY <1>1, <1>2, <1>3
<1> QED BY <1>1, <1>11, <1>12, <1>13 DEF Sound

LEMMA LeafUnit ==
  ASSUME NEW token \in Token, NEW m \in Simple(token), NEW room \in 0..Depth
  PROVE  \E u \in Token : Spellings[room][m] = <<u>> /\ m \in Simple(u) /\ u[1] # "ws"
<1>1. token[1] \in Punctuation \cup {"lit", "num", "str"} /\ token[1] \notin Punctuation
  BY TokensAre, SimpleIs
<1>2. Spellings[room][m] = IF token[1] = "str" THEN <<Quoted(m[2])>> ELSE <<token>>
  BY LeafSpelled
<1>3. CASE token[1] = "str"
  <2>1. string(token[2]).ok /\ m = <<"str", string(token[2]).out>> /\ token[2] \in Seq(TextUnits)
    BY <1>3, SimpleIs, TokensAre
  <2>2. PICK key : key = string(token[2]).out
    OBVIOUS
  <2>3. key \in Seq(Scalars) /\ m = <<"str", key>> /\ m[2] = key
    BY <2>1, <2>2, DecodedAre
  <2>4. Spell(key) \in Seq(TextUnits) /\ string(Spell(key)) = Yield(0, key)
    BY <2>3, SpellingsAreRead
  <2>5. PICK u : u = Quoted(key)
    OBVIOUS
  <2>6. u \in Token /\ u[1] = "str" /\ u[2] = Spell(key)
    BY <2>4, <2>5 DEF Quoted, Token
  <2>7. string(u[2]).ok /\ string(u[2]).out = key
    BY <2>4, <2>6 DEF Yield
  <2>8. m \in Simple(u)
    BY <2>3, <2>6, <2>7, SimpleIs
  <2> QED BY <1>2, <1>3, <2>3, <2>5, <2>6, <2>8
<1>4. CASE token[1] # "str"
  BY <1>1, <1>2, <1>4 DEF Punctuation
<1> QED BY <1>3, <1>4

LEMMA LeafSound ==
  ASSUME NEW token \in Token, NEW m \in Simple(token), NEW room \in 0..Depth
  PROVE  Sound(room, m)
<1>1. PICK u \in Token : Spellings[room][m] = <<u>> /\ m \in Simple(u) /\ u[1] # "ws"
  BY LeafUnit
<1>2. PICK s : s = <<u>>
  OBVIOUS
<1>3. s \in Texts /\ Len(s) = 1 /\ s[1] = u
  BY <1>2 DEF Texts
<1>4. ASSUME NEW t \in Texts, NEW p, Stands(t, p, s) PROVE m \in Levels(t)[room][<<p, p + 1>>]
  <2>1. Len(t) \in Nat /\ Positions(t) = 1..(Len(t) + 1)
    BY KindsAre
  <2>2. p \in Positions(t) /\ p + 1 \in Positions(t) /\ t[p + 1 - 1] = s[1]
    BY <1>3, <1>4 DEF Stands
  <2>3. PICK j : j = p + 1
    OBVIOUS
  <2>4. /\ p \in p..j /\ p <= p /\ p < j /\ p + 1 - 1 = p /\ p \in Nat /\ j \in Positions(t)
        /\ p + 1 = j
    BY <2>1, <2>2, <2>3
  <2>5. t[p] = u
    BY <1>3, <2>2, <2>4
  <2>6. Blank(t, p, p) /\ Blank(t, p + 1, j)
    BY <2>4 DEF Blank
  <2>7. m \in Levels(t)[room][<<p, j>>] <=>
           \E q \in p..j, c \in p..j :
             /\ q <= c /\ c < j /\ t[q][1] # "ws" /\ t[c][1] # "ws"
             /\ Blank(t, p, q) /\ Blank(t, c + 1, j)
             /\ \/ c = q /\ m \in Simple(t[q])
                \/ c # q /\ room # 0 /\ m \in Enclosed(t, Levels(t)[room - 1], q, c + 1)
    BY <2>2, <2>4, MeaningsAre
  <2>8. m \in Levels(t)[room][<<p, j>>]
    BY <1>1, <2>4, <2>5, <2>6, <2>7
  <2> QED BY <2>3, <2>8
<1> QED BY <1>1, <1>2, <1>3, <1>4 DEF Sound

JoinsAt(t, table, i, j, x, a, c) ==
  /\ a \in i..(j - 1) /\ c \in i..(j - 1) /\ a < c /\ a \in 1..Len(t) /\ c + 1 \in Positions(t) /\ t[a] \in Token
  /\ \E key \in Keys(t[a]), m \in table[<<c + 1, j>>] : x = <<key, m>>

LEMMA MembersFrom ==
  ASSUME NEW t \in Texts, NEW table, NEW i \in Positions(t), NEW j \in Positions(t), NEW x, x \in Members(t, table)[<<i, j>>]
  PROVE  \E a, c : JoinsAt(t, table, i, j, x, a, c)
<1>1. Len(t) \in Nat /\ Positions(t) = 1..(Len(t) + 1) /\ \A k \in 1..Len(t) : t[k] \in Token
  BY KindsAre
<1> DEFINE P == {p \in (i..(j - 1)) \X (i..(j - 1)) :
                   /\ p[1] < p[2] /\ t[p[2]][1] = ":"
                   /\ Blank(t, i, p[1]) /\ Blank(t, p[1] + 1, p[2])}
<1>2. <<i, j>> \in Spans(t) /\ <<i, j>>[1] = i /\ <<i, j>>[2] = j
  BY DEF Spans
<1>3. Members(t, table)[<<i, j>>] = UNION {Keys(t[p[1]]) \X table[<<p[2] + 1, j>>] : p \in P}
  BY <1>2 DEF Members
<1>4. PICK p \in P : x \in Keys(t[p[1]]) \X table[<<p[2] + 1, j>>]
  BY <1>3
<1>5. PICK a \in i..(j - 1), c \in i..(j - 1) : p = <<a, c>> /\ a < c
  OBVIOUS
<1>6. PICK key \in Keys(t[a]), m \in table[<<c + 1, j>>] : x = <<key, m>>
  BY <1>4, <1>5
<1>7. a \in 1..Len(t) /\ c + 1 \in Positions(t) /\ t[a] \in Token
  BY <1>1
<1>8. JoinsAt(t, table, i, j, x, a, c)
  BY <1>5, <1>6, <1>7 DEF JoinsAt
<1> QED BY <1>8

Nested(t, n, p, c, x, close, l) ==
  /\ x = Whole(close, l) /\ Fits(close, l)
  /\ l \in Seq(Part(close, DOMAIN Spellings[n - 1]))
  /\ l \in Seq(Parts(t, Table(close, t, Levels(t)[n - 1])))
  /\ l = <<>> \/ l \in Lists(t, Table(close, t, Levels(t)[n - 1]), p + 1)[c]

LEMMA MeaningIs ==
  ASSUME NEW t \in Texts, NEW n \in 0..Depth, NEW i \in Positions(t), NEW j \in Positions(t),
         NEW x \in Levels(t)[n][<<i, j>>]
  PROVE  \E p \in i..j, c \in i..j :
           /\ p <= c /\ c < j /\ p \in 1..Len(t) /\ c \in 1..Len(t) /\ t[p] \in Token
           /\ \/ x \in Simple(t[p])
              \/ c # p /\ n # 0 /\ \E close \in Enders : \E l : Nested(t, n, p, c, x, close, l)
<1>1. Len(t) \in Nat /\ Positions(t) = 1..(Len(t) + 1) /\ \A k \in 1..Len(t) : t[k] \in Token
  BY KindsAre
<1>2. PICK p \in i..j, c \in i..j :
        /\ p <= c /\ c < j /\ t[p][1] # "ws" /\ t[c][1] # "ws"
        /\ Blank(t, i, p) /\ Blank(t, c + 1, j)
        /\ \/ c = p /\ x \in Simple(t[p])
           \/ c # p /\ n # 0 /\ x \in Enclosed(t, Levels(t)[n - 1], p, c + 1)
  BY MeaningsAre
<1>3. p \in 1..Len(t) /\ c \in 1..Len(t) /\ p \in Nat /\ c \in Nat /\ t[p] \in Token
  BY <1>1, <1>2
<1>4. CASE x \in Simple(t[p])
  BY <1>2, <1>3, <1>4
<1>5. CASE c # p /\ n # 0 /\ x \in Enclosed(t, Levels(t)[n - 1], p, c + 1)
  <2>1. PICK inner, nested : inner = Levels(t)[n - 1] /\ nested = DOMAIN Spellings[n - 1]
    OBVIOUS
  <2>2. n - 1 \in 0..Depth
    BY <1>5, LimitsAssumption
  <2>3. \A a, b \in Positions(t) : inner[<<a, b>>] \subseteq nested
    BY <2>1, <2>2, MeaningsAreData
  <2>5. x \in Enclosed(t, inner, p, c + 1)
    BY <1>5, <2>1
  <2>6. PICK close \in Enders : \E l : EnclosedBy(t, inner, p, c, x, close, l)
    BY <1>3, <2>5, EnclosedIs
  <2>7. PICK l : x = Whole(close, l) /\ Fits(close, l) /\ (l = <<>> \/ l \in Lists(t, Table(close, t, inner), p + 1)[c])
    BY <2>6 DEF EnclosedBy
  <2>8. PICK T : T = Table(close, t, inner)
    OBVIOUS
  <2>9. Parts(t, T) \subseteq Part(close, nested)
    BY <2>3, <2>8, PartsAre
  <2>10. l \in Seq(Parts(t, T))
    <3>1. p + 1 \in Positions(t) /\ c \in ((p + 1) - 1)..(Len(t) + 1)
      BY <1>1, <1>2, <1>3
    <3>2. Lists(t, T, p + 1)[c] \subseteq Seq(Parts(t, T))
      BY <3>1, ListsAreSequences
    <3>3. <<>> \in Seq(Parts(t, T))
      BY EmptySeq
    <3> QED BY <2>7, <2>8, <3>2, <3>3
  <2>11. l \in Seq(Part(close, nested))
    BY <2>9, <2>10, SequencesOf
  <2>12. Nested(t, n, p, c, x, close, l)
    BY <2>1, <2>7, <2>8, <2>10, <2>11 DEF Nested
  <2> QED BY <1>2, <1>3, <1>5, <2>12
<1> QED BY <1>2, <1>4, <1>5

LEMMA PartSound ==
  ASSUME NEW t \in Texts, NEW room \in 0..Depth, NEW close \in Enders,
         \A i, j \in Positions(t) : \A m \in Levels(t)[room][<<i, j>>] : Sound(room, m),
         NEW y \in Parts(t, Table(close, t, Levels(t)[room]))
  PROVE  SoundPart(close, room, y)
<1>1. PICK table : table = Levels(t)[room]
  OBVIOUS
<1>2. PICK i \in Positions(t), j \in Positions(t) : y \in Table(close, t, table)[<<i, j>>]
  BY <1>1 DEF Parts, Spans
<1>3. CASE close = "]"
  <2>1. y \in table[<<i, j>>]
    BY <1>2, <1>3 DEF Table
  <2> QED BY <1>1, <1>3, <2>1, ElementSound
<1>4. CASE close # "]"
  <2>1. y \in Members(t, table)[<<i, j>>] /\ close = Curly
    BY <1>2, <1>4 DEF Table, Enders
  <2>2. PICK a, c : JoinsAt(t, table, i, j, y, a, c)
    BY <1>2, <2>1, MembersFrom
  <2>3. PICK key \in Keys(t[a]), m \in table[<<c + 1, j>>] : y = <<key, m>>
    BY <2>2 DEF JoinsAt
  <2>4. key \in Seq(Scalars) /\ key \notin NotNFC /\ \A k \in DOMAIN key : key[k] # 0
    BY <2>2, <2>3, KeysAreScalars DEF JoinsAt
  <2>5. Sound(room, m)
    BY <1>1, <1>2, <2>2, <2>3 DEF JoinsAt
  <2>6. SoundPart(Curly, room, <<key, m>>)
    BY <2>4, <2>5, MemberSound
  <2> QED BY <2>1, <2>3, <2>6
<1> QED BY <1>3, <1>4

LEMMA SoundAll ==
  ASSUME NEW t \in Texts
  PROVE  \A room \in 0..Depth : \A i, j \in Positions(t) : \A m \in Levels(t)[room][<<i, j>>] : Sound(room, m)
<1> DEFINE Fine(n) == \A i, j \in Positions(t) : \A m \in Levels(t)[n][<<i, j>>] : Sound(n, m)
           T == {n \in Nat : n <= Depth => Fine(n)}
<1>1. ASSUME NEW n \in Nat, \A m \in 0..(n - 1) : m \in T PROVE n \in T
  <2> SUFFICES ASSUME n <= Depth, NEW i \in Positions(t), NEW j \in Positions(t), NEW x \in Levels(t)[n][<<i, j>>]
               PROVE  Sound(n, x)
    OBVIOUS
  <2>1. n \in 0..Depth
    BY LimitsAssumption
  <2>2. PICK p \in i..j, c \in i..j :
           /\ p <= c /\ c < j /\ p \in 1..Len(t) /\ c \in 1..Len(t) /\ t[p] \in Token
           /\ \/ x \in Simple(t[p])
              \/ c # p /\ n # 0 /\ \E close \in Enders : \E l : Nested(t, n, p, c, x, close, l)
    BY <2>1, MeaningIs
  <2>3. CASE x \in Simple(t[p])
    BY <2>1, <2>2, <2>3, LeafSound
  <2>4. CASE c # p /\ n # 0 /\ \E close \in Enders : \E l : Nested(t, n, p, c, x, close, l)
    <3>0. PICK close \in Enders : \E l : Nested(t, n, p, c, x, close, l)
      BY <2>4
    <3>1. PICK l : Nested(t, n, p, c, x, close, l)
      BY <3>0
    <3>2. n - 1 \in 0..(n - 1) /\ n - 1 <= Depth /\ n - 1 \in 0..Depth
      BY <2>1, <2>4, LimitsAssumption
    <3>3. Fine(n - 1)
      BY <1>1, <3>2
    <3>4. PICK W : W = Parts(t, Table(close, t, Levels(t)[n - 1]))
      OBVIOUS
    <3>5. \A y \in W : SoundPart(close, n - 1, y)
      BY <3>2, <3>3, <3>4, PartSound
    <3>6. /\ x = Whole(close, l) /\ Fits(close, l)
          /\ l \in Seq(Part(close, DOMAIN Spellings[n - 1])) /\ l \in Seq(W)
      BY <3>1, <3>4 DEF Nested
    <3>7. \A k \in 1..Len(l) : SoundPart(close, n - 1, l[k])
      BY <3>5, <3>6, ElementOfSeq
    <3>8. Sound(n, Whole(close, l))
      BY <2>1, <2>4, <3>6, <3>7, WholeSound
    <3> QED BY <3>6, <3>8
  <2> QED BY <2>2, <2>3, <2>4
<1> HIDE DEF T
<1>2. Nat \subseteq T
  BY <1>1, Induction
<1>3. \A n \in 0..Depth : n \in Nat /\ n <= Depth
  BY LimitsAssumption
<1> QED BY <1>2, <1>3 DEF T

Measures(N, f, len, e) == e[0] = -1 /\ \A n \in 1..N : len[f[n]] \in Nat /\ e[n] = e[n - 1] + 1 + len[f[n]]

Weighed(R, len) == UNION {{y} \X (0..len[y]) : y \in R}

Once(N, f) == \A i, j \in 1..N : f[i] = f[j] => i = j

SameOnes(N, f, h) == \A y : (\E k \in 1..N : f[k] = y) <=> \E k \in 1..N : h[k] = y

LEMMA WeightsAre ==
  ASSUME NEW N \in Nat, NEW f, Once(N, f), NEW len, NEW e, Measures(N, f, len, e)
  PROVE  e[N] \in Int /\ Cardinality(Weighed({f[k] : k \in 1..N}, len)) = e[N] + 1
<1> DEFINE S(n) == Weighed({f[k] : k \in 1..n}, len)
           T == {n \in Nat : n <= N => e[n] \in Int /\ IsFiniteSet(S(n)) /\ Cardinality(S(n)) = e[n] + 1}
<1>1. ASSUME NEW n \in Nat, \A m \in 0..(n - 1) : m \in T PROVE n \in T
  <2>1. CASE n = 0
    <3>1. S(n) = {}
      BY <2>1 DEF Weighed
    <3>2. e[0] = -1
      BY DEF Measures
    <3> QED BY <2>1, <3>1, <3>2, FS_EmptySet
  <2>2. CASE n # 0 /\ n <= N
    <3>1. PICK m : m = n - 1
      OBVIOUS
    <3>2. m \in Nat /\ m \in 0..(n - 1) /\ m <= N /\ n = m + 1 /\ n \in 1..N
      BY <2>2, <3>1
    <3>3. e[m] \in Int /\ IsFiniteSet(S(m)) /\ Cardinality(S(m)) = e[m] + 1
      BY <1>1, <3>2
    <3>4. PICK y, w, x : y = f[n] /\ w = len[f[n]] /\ x = e[n]
      OBVIOUS
    <3>5. w \in Nat /\ x = e[m] + 1 + w
      BY <3>1, <3>2, <3>4 DEF Measures
    <3>6. PICK A, B : A = S(m) /\ B = {y} \X (0..w)
      OBVIOUS
    <3>7. S(n) = A \cup B
      <4>1. {f[k] : k \in 1..n} = {f[k] : k \in 1..m} \cup {y}
        <5>1. 1..n = (1..m) \cup {n}
          BY <3>2
        <5> QED BY <3>4, <5>1
      <4>2. len[y] = w
        BY <3>4
      <4> QED BY <3>6, <4>1, <4>2 DEF Weighed
    <3>8. A \cap B = {}
      <4> SUFFICES ASSUME NEW z \in A, z \in B PROVE FALSE
        OBVIOUS
      <4>1. PICK k \in 1..m : z \in {f[k]} \X (0..len[f[k]])
        BY <3>6 DEF Weighed
      <4>2. z[1] = f[k] /\ z[1] = y
        BY <3>6, <4>1
      <4>3. k \in 1..N /\ k # n
        BY <3>2
      <4> QED BY <3>2, <3>4, <4>2, <4>3 DEF Once
    <3>9. IsFiniteSet(B) /\ Cardinality(B) = w + 1
      <4>1. IsFiniteSet(0..w) /\ Cardinality(0..w) = w + 1
        <5>1. 0 \in Int /\ w \in Int /\ ~(0 > w) /\ w - 0 + 1 = w + 1
          BY <3>5
        <5>2. IsFiniteSet(0..w) /\ Cardinality(0..w) = IF 0 > w THEN 0 ELSE w - 0 + 1
          BY <5>1, FS_Interval
        <5> QED BY <5>1, <5>2
      <4>2. IsFiniteSet({y}) /\ Cardinality({y}) = 1
        BY FS_Singleton
      <4>3. IsFiniteSet(B) /\ Cardinality(B) = Cardinality({y}) * Cardinality(0..w)
        BY <3>6, <4>1, <4>2, FS_Product
      <4>4. 1 * (w + 1) = w + 1
        BY <3>5
      <4> QED BY <4>1, <4>2, <4>3, <4>4
    <3>10. IsFiniteSet(A \cup B) /\ Cardinality(A \cup B) = Cardinality(A) + Cardinality(B) - Cardinality(A \cap B)
      BY <3>3, <3>6, <3>9, FS_Union
    <3>11. Cardinality(A \cap B) = 0
      BY <3>8, FS_EmptySet
    <3>12. Cardinality(A) = e[m] + 1
      BY <3>3, <3>6
    <3> HIDE DEF S
    <3>13. Cardinality(S(n)) = x + 1 /\ x \in Int
      <4>1. PICK q, u : q = e[m] /\ u = Cardinality(S(n))
        OBVIOUS
      <4>2. u = (q + 1) + (w + 1) - 0
        BY <3>7, <3>9, <3>10, <3>11, <3>12, <4>1
      <4> QED BY <3>3, <3>5, <4>1, <4>2
    <3> QED BY <3>4, <3>7, <3>10, <3>13
  <2> QED BY <2>1, <2>2
<1> HIDE DEF T
<1>2. N \in T
  BY <1>1, Induction
<1> QED BY <1>2 DEF T

LEMMA SameWeight ==
  ASSUME NEW N \in Nat, NEW f, Once(N, f), NEW h, Once(N, h),
         SameOnes(N, f, h), NEW len, NEW e, Measures(N, f, len, e), NEW d, Measures(N, h, len, d)
  PROVE  e[N] = d[N]
<1>1. {f[k] : k \in 1..N} = {h[k] : k \in 1..N}
  BY DEF SameOnes
<1>2. e[N] \in Int /\ Cardinality(Weighed({f[k] : k \in 1..N}, len)) = e[N] + 1
  BY WeightsAre
<1>3. d[N] \in Int /\ Cardinality(Weighed({h[k] : k \in 1..N}, len)) = d[N] + 1
  BY WeightsAre
<1>4. e[N] + 1 = d[N] + 1
  BY <1>1, <1>2, <1>3
<1> QED BY <1>2, <1>3, <1>4

LEMMA MeasuresAre ==
  ASSUME NEW N \in Nat, NEW f, NEW len, NEW e, Measures(N, f, len, e)
  PROVE  e[N] \in Int
<1> DEFINE T == {n \in Nat : n <= N => e[n] \in Int}
<1>1. ASSUME NEW n \in Nat, \A m \in 0..(n - 1) : m \in T PROVE n \in T
  <2>1. CASE n = 0
    BY <2>1 DEF Measures
  <2>2. CASE n # 0 /\ n <= N
    <3>1. n - 1 \in 0..(n - 1) /\ n \in 1..N /\ n - 1 <= N
      BY <2>2
    <3>2. e[n - 1] \in Int
      BY <1>1, <3>1
    <3>3. len[f[n]] \in Nat /\ e[n] = e[n - 1] + 1 + len[f[n]]
      BY <3>1 DEF Measures
    <3> QED BY <3>2, <3>3
  <2> QED BY <2>1, <2>2
<1> HIDE DEF T
<1>2. N \in T
  BY <1>1, Induction
<1> QED BY <1>2 DEF T

LEMMA ListLength ==
  ASSUME NEW t \in Texts, NEW table, NEW i \in Positions(t), NEW len,
         \A a, b \in Positions(t) : \A y \in table[<<a, b>>] : len[y] \in Nat /\ len[y] <= b - a
  PROVE  \A c \in (i - 1)..(Len(t) + 1) : \A l \in Lists(t, table, i)[c] : \A e :
           Measures(Len(l), l, len, e) => e[Len(l)] <= c - i
<1>1. Len(t) \in Nat /\ Positions(t) = 1..(Len(t) + 1) /\ i \in Nat /\ i >= 1 /\ i <= Len(t) + 1
  BY KindsAre
<1> DEFINE Short(c) == \A l \in Lists(t, table, i)[c] : \A e : Measures(Len(l), l, len, e) => e[Len(l)] <= c - i
           T == {c \in Nat : c \in (i - 1)..(Len(t) + 1) => Short(c)}
<1>2. ASSUME NEW c \in Nat, \A m \in 0..(c - 1) : m \in T PROVE c \in T
  <2> SUFFICES ASSUME c \in (i - 1)..(Len(t) + 1), NEW l \in Lists(t, table, i)[c], NEW e, Measures(Len(l), l, len, e)
               PROVE  e[Len(l)] <= c - i
    OBVIOUS
  <2>1. CASE c = i - 1
    <3>1. l = <<>>
      BY <2>1, ListsAre
    <3>2. Len(l) = 0 /\ e[0] = -1
      BY <3>1 DEF Measures
    <3> QED BY <1>1, <2>1, <3>2
  <2>2. CASE c # i - 1
    <3>1. c \in i..(Len(t) + 1) /\ c \in Positions(t)
      BY <1>1, <2>2
    <3>2. \A x : x \in Lists(t, table, i)[c] <=>
             \E d \in Cuts(t, i, c) : \E k \in Lists(t, table, i)[d], m \in table[<<d + 1, c>>] : x = Append(k, m)
      <4>1. \A j \in i..(Len(t) + 1) : \A x :
              x \in Lists(t, table, i)[j] <=>
                \E d \in Cuts(t, i, j) : \E k \in Lists(t, table, i)[d], m \in table[<<d + 1, j>>] : x = Append(k, m)
        BY ListsAre
      <4> QED BY <3>1, <4>1
    <3>0. PICK d \in Cuts(t, i, c) : \E k \in Lists(t, table, i)[d], m \in table[<<d + 1, c>>] : l = Append(k, m)
      BY <3>2
    <3>3. PICK k \in Lists(t, table, i)[d], m \in table[<<d + 1, c>>] : l = Append(k, m)
      BY <3>0
    <3>4. d \in (i - 1)..(c - 1)
      BY <1>1, <3>0, <3>1 DEF Cuts
    <3>5. /\ d \in 0..(c - 1) /\ d \in (i - 1)..(Len(t) + 1) /\ d + 1 \in Positions(t) /\ d \in Nat
      BY <1>1, <3>1, <3>4
    <3>6. Short(d)
      BY <1>2, <3>5
    <3>7. len[m] \in Nat /\ len[m] <= c - (d + 1)
      BY <3>1, <3>3, <3>5
    <3>8. k \in Seq(Parts(t, table)) /\ m \in Parts(t, table)
      <4>1. Lists(t, table, i)[d] \subseteq Seq(Parts(t, table))
        BY <3>5, ListsAreSequences
      <4>2. <<d + 1, c>> \in Spans(t)
        BY <3>1, <3>5 DEF Spans
      <4> QED BY <3>3, <4>1, <4>2 DEF Parts
    <3>9. PICK n : n = Len(k)
      OBVIOUS
    <3>10. /\ Len(l) = n + 1 /\ n \in Nat /\ l[n + 1] = m
           /\ \A q \in 1..n : l[q] = k[q]
      BY <3>3, <3>8, <3>9, AppendIs
    <3>11. Measures(n, k, len, e)
      <4>1. ASSUME NEW q \in 1..n PROVE len[k[q]] \in Nat /\ e[q] = e[q - 1] + 1 + len[k[q]]
        <5>1. q \in 1..Len(l) /\ l[q] = k[q]
          BY <3>10
        <5>2. len[l[q]] \in Nat /\ e[q] = e[q - 1] + 1 + len[l[q]]
          BY <5>1 DEF Measures
        <5> QED BY <5>1, <5>2
      <4>2. e[0] = -1
        BY DEF Measures
      <4> QED BY <4>1, <4>2 DEF Measures
    <3>12. e[n] <= d - i /\ e[n] \in Int
      BY <3>3, <3>6, <3>9, <3>10, <3>11, MeasuresAre
    <3>13. e[n + 1] = e[n] + 1 + len[m]
      <4>1. n + 1 \in 1..Len(l) /\ (n + 1) - 1 = n
        BY <3>10
      <4>2. e[n + 1] = e[(n + 1) - 1] + 1 + len[l[n + 1]]
        BY <4>1 DEF Measures
      <4> QED BY <3>10, <4>1, <4>2
    <3>14. PICK a, b, w : a = e[n] /\ b = e[n + 1] /\ w = len[m]
      OBVIOUS
    <3>15. a <= d - i /\ a \in Int /\ b = a + 1 + w /\ w \in Nat /\ w <= c - (d + 1)
      BY <3>7, <3>12, <3>13, <3>14
    <3>16. b <= c - i
      BY <1>1, <3>5, <3>15
    <3> QED BY <3>10, <3>14, <3>16
  <2> QED BY <2>1, <2>2
<1> HIDE DEF T
<1>3. Nat \subseteq T
  BY <1>2, Induction
<1>4. \A c \in (i - 1)..(Len(t) + 1) : c \in Nat
  BY <1>1
<1> QED BY <1>3, <1>4 DEF T

Short(t, room) == \A i, j \in Positions(t) : \A m \in Levels(t)[room][<<i, j>>] : Len(Spellings[room][m]) <= j - i

PartShort(close, room, y, n) ==
  Len(Written(close, Spellings[room], y)) \in Nat /\ Len(Written(close, Spellings[room], y)) <= n

LEMMA PartLength ==
  ASSUME NEW t \in Texts, NEW room \in 0..Depth, Short(t, room), NEW close \in Enders, NEW T, T = Table(close, t, Levels(t)[room]),
         NEW i \in Positions(t), NEW j \in Positions(t), NEW y, y \in T[<<i, j>>]
  PROVE  PartShort(close, room, y, j - i)
<1>1. Positions(t) \subseteq Int
  BY KindsAre
<1>2. CASE close = "]"
  <2>1. y \in Levels(t)[room][<<i, j>>] /\ Written(close, Spellings[room], y) = Spellings[room][y]
    BY <1>2 DEF Table, Written
  <2>2. Spellings[room][y] \in Texts /\ Len(Spellings[room][y]) <= j - i
    BY <2>1, SoundAll DEF Sound, Short
  <2>3. Len(Spellings[room][y]) \in Nat
    BY <2>2, LenProperties DEF Texts
  <2> QED BY <2>1, <2>2, <2>3 DEF PartShort
<1>3. CASE close # "]"
  <2>1. y \in Members(t, Levels(t)[room])[<<i, j>>]
    BY <1>3 DEF Table
  <2>2. PICK table : table = Levels(t)[room]
    OBVIOUS
  <2>3. PICK a, c : JoinsAt(t, table, i, j, y, a, c)
    BY <2>1, <2>2, MembersFrom
  <2>4. PICK key \in Keys(t[a]), m \in table[<<c + 1, j>>] : y = <<key, m>>
    BY <2>3 DEF JoinsAt
  <2>5. a \in i..(j - 1) /\ c \in i..(j - 1) /\ a < c /\ c + 1 \in Positions(t) /\ t[a] \in Token
    BY <2>3 DEF JoinsAt
  <2>6. PICK s : s = Spellings[room][m]
    OBVIOUS
  <2>7. s \in Texts /\ Len(s) <= j - (c + 1)
    <3>1. m \in Levels(t)[room][<<c + 1, j>>]
      BY <2>2, <2>4
    <3>2. Sound(room, m)
      BY <2>5, <3>1, SoundAll
    <3> QED BY <2>5, <2>6, <3>1, <3>2 DEF Sound, Short
  <2>8. key \in Seq(Scalars)
    BY <2>4, <2>5, KeysAreScalars
  <2>9. PICK w : w = Member(key, s)
    OBVIOUS
  <2>10. Len(w) = Len(s) + 2 /\ Len(s) \in Nat
    BY <2>7, <2>8, <2>9, MemberIs
  <2>11. w = Written(close, Spellings[room], y)
    BY <1>3, <2>4, <2>6, <2>9 DEF Written
  <2>12. PICK n : n = Len(s)
    OBVIOUS
  <2>13. n \in Nat /\ n <= j - (c + 1) /\ i \in Int /\ j \in Int /\ c \in Int /\ i + 1 <= c
    BY <1>1, <2>5, <2>7, <2>10, <2>12
  <2>14. n + 2 <= j - i /\ n + 2 \in Nat
    BY <2>13
  <2> QED BY <2>10, <2>11, <2>12, <2>14 DEF PartShort
<1> QED BY <1>2, <1>3

LEMMA DistinctOnce ==
  ASSUME NEW W, NEW l \in Seq(W), Distinct(l)
  PROVE  Once(Len(l), l)
<1>1. DOMAIN l = 1..Len(l)
  BY LenProperties
<1> QED BY <1>1 DEF Distinct, Once

LengthsOf(close, sp, V) == [y \in Part(close, V) |-> Len(Written(close, sp, y))]

Measured(N, l, len, n) == \E d : Measures(N, l, len, d) /\ d[N] = n

AllSound(close, room, N, l) == \A n \in 1..N : SoundPart(close, room, l[n])

\* The spellings of a list's parts take as many tokens in whatever order they stand.
LEMMA PartsLength ==
  ASSUME NEW room \in 0..Depth, NEW close \in Enders, NEW sp, sp = Spellings[room], NEW V, V = DOMAIN sp,
         NEW l \in Seq(Part(close, V)), Fits(close, l), NEW L, Ordered(close, l, L, V),
         NEW N, N = Len(L),
         AllSound(close, room, N, L), AllSound(close, room, N, l),
         NEW len, len = LengthsOf(close, sp, V),
         NEW e, NEW J, Shape(AllWritten(close, sp, L), N, e, J)
  PROVE  Measured(N, l, len, e[N])
<1>0. \A n \in 1..N : SoundPart(close, room, L[n]) /\ SoundPart(close, room, l[n])
  BY DEF AllSound
<1>1. PICK W : W = Part(close, V)
  OBVIOUS
<1>2. /\ L \in Seq(W) /\ N = Len(l) /\ Fits(close, L) /\ l \in Seq(W)
      /\ \A y : (\E i \in 1..Len(L) : L[i] = y) <=> \E i \in 1..Len(l) : l[i] = y
      /\ close = "]" => L = l
  BY <1>1 DEF Ordered
<1>3. N \in Nat /\ DOMAIN L = 1..N /\ DOMAIN l = 1..N /\ \A n \in 1..N : L[n] \in W /\ l[n] \in W
  BY <1>2, LenProperties, ElementOfSeq
<1>4. ASSUME NEW k \in Seq(W), Len(k) = N, \A n \in 1..N : SoundPart(close, room, k[n]), NEW d, NEW s,
             Shape(AllWritten(close, sp, k), N, d, s)
      PROVE  Measures(N, k, len, d)
  <2>1. DOMAIN k = 1..N
    BY <1>4, LenProperties
  <2>2. ASSUME NEW n \in 1..N PROVE len[k[n]] \in Nat /\ d[n] = d[n - 1] + 1 + len[k[n]]
    <3>1. PICK w : w = Written(close, sp, k[n])
      OBVIOUS
    <3>2. AllWritten(close, sp, k)[n] = w
      BY <2>1, <3>1 DEF AllWritten
    <3>3. k[n] \in W
      BY <1>4, ElementOfSeq
    <3>4. len[k[n]] = Len(w)
      BY <1>1, <3>1, <3>3 DEF LengthsOf
    <3>5. w \in Texts
      BY <1>4, <3>1 DEF SoundPart
    <3>6. Len(w) \in Nat
      BY <3>5, LenProperties DEF Texts
    <3>7. d[n] = d[n - 1] + 1 + Len(w)
      BY <1>4, <3>2 DEF Shape
    <3> QED BY <3>4, <3>6, <3>7
  <2>3. d[0] = -1
    BY <1>4 DEF Shape
  <2> QED BY <2>2, <2>3 DEF Measures
<1>5. Measures(N, L, len, e)
  BY <1>0, <1>2, <1>4
<1>6. CASE close = "]"
  BY <1>2, <1>5, <1>6 DEF Measured
<1>7. CASE close # "]"
  <2>1. PICK parts : parts = AllWritten(close, sp, l)
    OBVIOUS
  <2>2. Len(parts) = N /\ \A n \in 1..N : parts[n] = Written(close, sp, l[n])
    BY <1>3, <2>1 DEF AllWritten
  <2>3. \A n \in 1..Len(parts) : parts[n] \in Texts
    BY <1>0, <2>2 DEF SoundPart
  <2>4. PICK d : Shape(parts, N, d, Joined(parts))
    BY <1>3, <2>2, <2>3, JoinedShape
  <2>5. Measures(N, l, len, d)
    BY <1>0, <1>2, <1>4, <2>1, <2>4
  <2>6. Distinct(l) /\ Distinct(L)
    BY <1>2, <1>7 DEF Fits, Enders
  <2>7. Once(N, l) /\ Once(N, L)
    BY <1>2, <2>6, DistinctOnce
  <2>8. SameOnes(N, L, l)
    BY <1>2 DEF SameOnes
  <2>9. e[N] = d[N]
    BY <1>3, <1>5, <2>5, <2>7, <2>8, SameWeight
  <2> QED BY <2>5, <2>9 DEF Measured
<1> QED BY <1>6, <1>7

LEMMA WholeLength ==
  ASSUME NEW t \in Texts, NEW n \in 0..Depth, n # 0, Short(t, n - 1),
         NEW p \in 1..Len(t), NEW c \in 1..Len(t), p < c,
         NEW x, NEW close \in Enders, NEW l, Nested(t, n, p, c, x, close, l)
  PROVE  Len(Spellings[n][x]) <= (c - p) + 1
<1>1. PICK room, sp : room = n - 1 /\ sp = Spellings[room]
  OBVIOUS
<1>2. PICK V, T : V = DOMAIN sp /\ T = Table(close, t, Levels(t)[room])
  OBVIOUS
<1>3. room \in 0..Depth /\ Short(t, room)
  BY <1>1, LimitsAssumption
<1>4. /\ x = Whole(close, l) /\ Fits(close, l) /\ l \in Seq(Part(close, V)) /\ l \in Seq(Parts(t, T))
      /\ l = <<>> \/ l \in Lists(t, T, p + 1)[c]
  BY <1>1, <1>2 DEF Nested
<1>5. Len(t) \in Nat /\ Positions(t) = 1..(Len(t) + 1)
  BY KindsAre
<1>6. PICK L : Ordered(close, l, L, V) /\ Spellings[n][x] = InBrackets(close, AllWritten(close, sp, L))
  BY <1>1, <1>2, <1>4, WholeIsWritten
<1>7. PICK N, parts, s : N = Len(L) /\ parts = AllWritten(close, sp, L) /\ s = Spellings[n][x]
  OBVIOUS
<1>8. /\ L \in Seq(Part(close, V)) /\ N = Len(l)
      /\ \A y : (\E i \in 1..Len(L) : L[i] = y) <=> \E i \in 1..Len(l) : l[i] = y
  BY <1>6, <1>7 DEF Ordered
<1>9. N \in Nat /\ DOMAIN L = 1..N
  BY <1>7, <1>8, LenProperties
<1>10. \A k \in 1..N : SoundPart(close, room, l[k])
  <2>1. \A y \in Parts(t, T) : SoundPart(close, room, y)
    BY <1>2, <1>3, SoundAll, PartSound
  <2> QED BY <1>4, <1>8, <2>1, ElementOfSeq
<1>11. ASSUME NEW k \in 1..N PROVE SoundPart(close, room, L[k])
  <2>1. \E i \in 1..Len(L) : L[i] = L[k]
    BY <1>7
  <2>2. PICK i \in 1..Len(l) : l[i] = L[k]
    BY <1>8, <2>1
  <2> QED BY <1>8, <1>10, <2>2
<1>12. Len(parts) = N /\ \A k \in 1..N : parts[k] = Written(close, sp, L[k])
  BY <1>7, <1>9 DEF AllWritten
<1>13. \A k \in 1..Len(parts) : parts[k] \in Texts
  BY <1>1, <1>11, <1>12 DEF SoundPart
<1>14. PICK e, J : Shape(parts, N, e, J) /\ Bracketed(close, J, s)
  BY <1>6, <1>7, <1>9, <1>12, <1>13, InBracketsIs
<1>15. Len(J) \in Nat /\ Len(s) = Len(J) + 2 /\ Len(J) = IF N = 0 THEN 0 ELSE e[N]
  BY <1>14 DEF Shape, Bracketed
<1>16. CASE N = 0
  <2>1. Len(s) = 2
    BY <1>15, <1>16
  <2>2. (c - p) + 1 >= 2
    BY <1>5
  <2> QED BY <1>7, <2>1, <2>2
<1>17. CASE N # 0
  <2>1. l \in Lists(t, T, p + 1)[c]
    BY <1>4, <1>8, <1>17
  <2>2. PICK len : len = LengthsOf(close, sp, V)
    OBVIOUS
  <2>3. PICK d : Measures(N, l, len, d) /\ d[N] = e[N]
    <3>1. Shape(AllWritten(close, sp, L), N, e, J)
      BY <1>7, <1>14
    <3>2. AllSound(close, room, N, L) /\ AllSound(close, room, N, l)
      BY <1>10, <1>11 DEF AllSound
    <3>3. sp = Spellings[room] /\ V = DOMAIN sp /\ N = Len(L)
      BY <1>1, <1>2, <1>7
    <3>4. /\ room \in 0..Depth /\ l \in Seq(Part(close, V)) /\ Fits(close, l) /\ Ordered(close, l, L, V)
      BY <1>3, <1>4, <1>6
    <3>5. Measured(N, l, len, e[N])
      BY <2>2, <3>1, <3>2, <3>3, <3>4, PartsLength
    <3> QED BY <3>5 DEF Measured
  <2>4. PICK i : i = p + 1
    OBVIOUS
  <2>5. i \in Positions(t) /\ c \in (i - 1)..(Len(t) + 1) /\ (i - 1) = p /\ c - i = (c - p) - 1 /\ c \in Int /\ p \in Int
    BY <1>5, <2>4
  <2>6. ASSUME NEW a \in Positions(t), NEW b \in Positions(t), NEW y \in T[<<a, b>>]
        PROVE  len[y] \in Nat /\ len[y] <= b - a
    <3>1. PartShort(close, room, y, b - a)
      BY <1>2, <1>3, PartLength
    <3>2. y \in Part(close, V)
      <4>1. \A f, g \in Positions(t) : Levels(t)[room][<<f, g>>] \subseteq V
        BY <1>1, <1>2, <1>3, MeaningsAreData
      <4>2. Parts(t, T) \subseteq Part(close, V)
        BY <1>2, <4>1, PartsAre
      <4>3. y \in Parts(t, T)
        BY DEF Parts, Spans
      <4> QED BY <4>2, <4>3
    <3>3. len[y] = Len(Written(close, Spellings[room], y))
      BY <1>1, <2>2, <3>2 DEF LengthsOf
    <3> QED BY <3>1, <3>3 DEF PartShort
  <2>7. \A q \in (i - 1)..(Len(t) + 1) : \A k \in Lists(t, T, i)[q] : \A f :
           Measures(Len(k), k, len, f) => f[Len(k)] <= q - i
    BY <2>5, <2>6, ListLength
  <2>8. d[N] <= c - i
    BY <1>8, <2>1, <2>3, <2>4, <2>5, <2>7
  <2>9. PICK z : z = Len(J)
    OBVIOUS
  <2>10. z \in Nat /\ z <= c - i /\ Len(s) = z + 2
    BY <1>15, <1>17, <2>3, <2>8, <2>9
  <2>11. z + 2 <= (c - p) + 1
    BY <2>5, <2>10
  <2> QED BY <1>7, <2>10, <2>11
<1> QED BY <1>16, <1>17

\* A spelling takes no more tokens than any text that means the same.
LEMMA Lengths ==
  ASSUME NEW t \in Texts
  PROVE  \A room \in 0..Depth : Short(t, room)
<1> DEFINE T == {n \in Nat : n <= Depth => Short(t, n)}
<1>1. ASSUME NEW n \in Nat, \A m \in 0..(n - 1) : m \in T PROVE n \in T
  <2> SUFFICES ASSUME n <= Depth, NEW i \in Positions(t), NEW j \in Positions(t), NEW x \in Levels(t)[n][<<i, j>>]
               PROVE  Len(Spellings[n][x]) <= j - i
    BY DEF Short
  <2>1. n \in 0..Depth
    BY LimitsAssumption
  <2>2. PICK p \in i..j, c \in i..j :
           /\ p <= c /\ c < j /\ p \in 1..Len(t) /\ c \in 1..Len(t) /\ t[p] \in Token
           /\ \/ x \in Simple(t[p])
              \/ c # p /\ n # 0 /\ \E close \in Enders : \E l : Nested(t, n, p, c, x, close, l)
    BY <2>1, MeaningIs
  <2>3. i \in Int /\ j \in Int /\ Len(t) \in Nat
    BY KindsAre
  <2>4. CASE x \in Simple(t[p])
    <3>1. PICK u : Spellings[n][x] = <<u>>
      BY <2>1, <2>2, <2>4, LeafUnit
    <3>2. Len(Spellings[n][x]) = 1
      BY <3>1
    <3>3. 1 <= j - i
      BY <2>2, <2>3
    <3> QED BY <3>2, <3>3
  <2>5. CASE c # p /\ n # 0 /\ \E close \in Enders : \E l : Nested(t, n, p, c, x, close, l)
    <3>1. PICK close \in Enders : \E l : Nested(t, n, p, c, x, close, l)
      BY <2>5
    <3>2. PICK l : Nested(t, n, p, c, x, close, l)
      BY <3>1
    <3>3. n - 1 \in 0..(n - 1) /\ n - 1 <= Depth
      BY <2>1, <2>5, LimitsAssumption
    <3>4. Short(t, n - 1)
      BY <1>1, <3>3
    <3>5. p < c
      BY <2>2, <2>3, <2>5
    <3>6. PICK w : w = Len(Spellings[n][x])
      OBVIOUS
    <3>7. w <= (c - p) + 1
      BY <2>1, <2>2, <2>5, <3>1, <3>2, <3>4, <3>5, <3>6, WholeLength
    <3>8. w \in Int
      <4>1. Sound(n, x)
        BY <2>1, SoundAll
      <4> QED BY <3>6, <4>1, LenProperties DEF Sound, Texts
    <3>9. w <= j - i
      BY <2>2, <2>3, <3>7, <3>8
    <3> QED BY <3>6, <3>9
  <2> QED BY <2>2, <2>4, <2>5
<1> HIDE DEF T
<1>2. Nat \subseteq T
  BY <1>1, Induction
<1>3. \A n \in 0..Depth : n \in Nat /\ n <= Depth
  BY LimitsAssumption
<1> QED BY <1>2, <1>3 DEF T

(***************************************************************************)
(* The codec against the meanings of its text.                             *)
(***************************************************************************)
Accepted(t, r) ==
  /\ r.ok <=> Len(t) <= Bytes /\ Meanings(t) # {}
  /\ r.ok => \E x : Meanings(t) = {x} /\ r.out = Spelling(x)

LEMMA MeaningIsShort ==
  ASSUME NEW t \in Texts, NEW x \in Meanings(t)
  PROVE  /\ Spelling(x) \in Texts /\ Len(Spelling(x)) <= Len(t) /\ Len(Spelling(x)) \in Nat
         /\ \A s : Stands(s, 1, Spelling(x)) /\ s \in Texts /\ Len(s) = Len(Spelling(x)) => x \in Meanings(s)
<1>1. Len(t) \in Nat /\ Positions(t) = 1..(Len(t) + 1) /\ Depth \in 0..Depth
  BY KindsAre, LimitsAssumption
<1>2. PICK j : j = Len(t) + 1
  OBVIOUS
<1>3. 1 \in Positions(t) /\ j \in Positions(t) /\ j - 1 = Len(t) /\ x \in Levels(t)[Depth][<<1, j>>]
  BY <1>1, <1>2 DEF Meanings
<1>4. PICK s : s = Spellings[Depth][x]
  OBVIOUS
<1>5. Len(s) <= j - 1
  BY <1>1, <1>3, <1>4, Lengths DEF Short
<1>6. s \in Texts /\ \A u \in Texts : \A p : Stands(u, p, s) => x \in Levels(u)[Depth][<<p, p + Len(s)>>]
  BY <1>1, <1>3, <1>4, SoundAll DEF Sound
<1>7. Len(s) \in Nat
  BY <1>6, LenProperties DEF Texts
<1>8. ASSUME NEW u \in Texts, Stands(u, 1, s), Len(u) = Len(s) PROVE x \in Meanings(u)
  <2>1. x \in Levels(u)[Depth][<<1, 1 + Len(s)>>]
    BY <1>6, <1>8
  <2>2. 1 + Len(s) = Len(u) + 1
    BY <1>7, <1>8
  <2> QED BY <2>1, <2>2 DEF Meanings
<1>9. s = Spelling(x)
  BY <1>4 DEF Spelling
<1> QED BY <1>3, <1>5, <1>6, <1>7, <1>8, <1>9

LEMMA CodecAccepts ==
  ASSUME NEW t \in Texts
  PROVE  Accepted(t, canonicalizeJSONV1(t))
<1>1. Len(t) \in Nat /\ Positions(t) = 1..(Len(t) + 1) /\ Depth \in 0..Depth /\ Kind(t, Len(t) + 1) = "end"
  BY KindsAre, LimitsAssumption
<1>2. PICK table, sp, D, N : table = Levels(t)[Depth] /\ sp = Spellings[Depth] /\ D = Values(t)[Depth][1] /\ N = Len(t) + 1
  OBVIOUS
<1>3. 1 \in Positions(t) /\ N \in Positions(t) /\ N \in Nat /\ Kind(t, N) # "ws" /\ N - 1 = Len(t)
  BY <1>1, <1>2
<1>4. Agrees(t, table, sp, 1, D)
  BY <1>1, <1>2, <1>3, CodecAgrees DEF AllAgree
<1>5. Meanings(t) = table[<<1, N>>]
  BY <1>2 DEF Meanings
<1>6. PICK e, r : e = whitespace(t, D.at) /\ r = canonicalizeJSONV1(t)
  OBVIOUS
<1>7. r = IF Len(t) > Bytes THEN Refuse(1)
          ELSE IF ~D.ok THEN D
          ELSE IF e <= Len(t) \/ Len(D.out) > Bytes THEN Refuse(e)
          ELSE D
  BY <1>2, <1>6 DEF canonicalizeJSONV1, OneValue
<1>8. Bytes \in Nat
  BY LimitsAssumption
<1>9. CASE Len(t) > Bytes
  <2>1. ~r.ok
    BY <1>7, <1>9 DEF Refuse
  <2>2. ~(Len(t) <= Bytes)
    BY <1>1, <1>8, <1>9
  <2> QED BY <1>6, <2>1, <2>2 DEF Accepted
<1>10. CASE ~(Len(t) > Bytes) /\ ~D.ok
  <2>1. ~r.ok
    BY <1>7, <1>10
  <2>2. Nothing(t, table, 1)
    BY <1>4, <1>10 DEF Agrees
  <2>3. Meanings(t) = {}
    BY <1>3, <1>5, <2>2 DEF Nothing
  <2> QED BY <1>6, <2>1, <2>3 DEF Accepted
<1>11. CASE ~(Len(t) > Bytes) /\ D.ok
  <2>1. D.at \in (1 + 1)..(Len(t) + 1) /\ \E x : Exactly(t, table, 1, e, x) /\ D.out = sp[x]
    BY <1>4, <1>6, <1>11 DEF Agrees
  <2>2. PICK x : Exactly(t, table, 1, e, x) /\ D.out = sp[x]
    BY <2>1
  <2>3. D.at \in Positions(t)
    BY <1>1, <2>1
  <2>4. e \in Positions(t) /\ e \in 1..N
    BY <1>1, <1>2, <1>6, <2>3, WhitespaceEnds
  <2>5. \A y : y \in Meanings(t) <=> N = e /\ y = x
    BY <1>3, <1>5, <2>2 DEF Exactly
  <2>6. CASE e = N
    <3>1. Meanings(t) = {x}
      BY <2>5, <2>6
    <3>2. D.out = Spelling(x)
      BY <1>2, <2>2 DEF Spelling
    <3>3. Len(D.out) <= Len(t) /\ Len(D.out) \in Nat
      BY <3>1, <3>2, MeaningIsShort
    <3>4. ~(Len(D.out) > Bytes) /\ ~(e <= Len(t)) /\ Len(t) <= Bytes
      BY <1>1, <1>2, <1>8, <1>11, <2>6, <3>3
    <3>5. r = D
      BY <1>7, <1>11, <3>4
    <3> QED BY <1>6, <1>11, <3>1, <3>2, <3>4, <3>5 DEF Accepted
  <2>7. CASE e # N
    <3>1. Meanings(t) = {}
      BY <2>5, <2>7
    <3>2. e <= Len(t)
      BY <1>1, <1>2, <2>4, <2>7
    <3>3. ~r.ok
      BY <1>7, <1>11, <3>2 DEF Refuse
    <3> QED BY <1>6, <3>1, <3>3 DEF Accepted
  <2> QED BY <2>6, <2>7
<1> QED BY <1>9, <1>10, <1>11

\* For every text: the codec accepts it exactly if it means something within
\* the limits, and yields the one spelling of that meaning, which means the
\* same, is no longer than the text and is what the codec makes of itself
\* (canonicalizeJSONV1).
THEOREM EveryTextHasOneSpelling ==
  ASSUME NEW t \in Seq(Token)
  PROVE  Faithful(t, canonicalizeJSONV1(t))
<1>1. PICK r, meanings : r = canonicalizeJSONV1(t) /\ meanings = IF Len(t) > Bytes THEN {} ELSE Meanings(t)
  OBVIOUS
<1>2. t \in Texts /\ Len(t) \in Nat /\ Bytes \in Nat
  BY LenProperties, LimitsAssumption DEF Texts
<1>3. Accepted(t, r)
  BY <1>1, <1>2, CodecAccepts
<1>4. r.ok <=> meanings # {}
  <2>1. Len(t) > Bytes <=> ~(Len(t) <= Bytes)
    BY <1>2
  <2> QED BY <1>1, <1>3, <2>1 DEF Accepted
<1>5. ASSUME r.ok
      PROVE  /\ meanings = Meanings(r.out)
             /\ \A meaning \in meanings : r.out = Spelling(meaning)
             /\ Len(r.out) <= Len(t)
             /\ canonicalizeJSONV1(r.out).out = r.out
  <2>1. PICK x : Meanings(t) = {x} /\ r.out = Spelling(x)
    BY <1>3, <1>5 DEF Accepted
  <2>2. Len(t) <= Bytes /\ meanings = {x}
    <3>1. Len(t) <= Bytes
      BY <1>3, <1>5 DEF Accepted
    <3>2. ~(Len(t) > Bytes)
      BY <1>2, <3>1
    <3> QED BY <1>1, <2>1, <3>1, <3>2
  <2>3. PICK s : s = Spelling(x)
    OBVIOUS
  <2>4. /\ s \in Texts /\ Len(s) <= Len(t) /\ Len(s) \in Nat
        /\ \A u : Stands(u, 1, s) /\ u \in Texts /\ Len(u) = Len(s) => x \in Meanings(u)
    BY <1>2, <2>1, <2>3, MeaningIsShort
  <2>5. Stands(s, 1, s)
    <3>1. Positions(s) = 1..(Len(s) + 1)
      BY <2>4, KindsAre
    <3>2. 1 \in Positions(s) /\ 1 + Len(s) \in Positions(s) /\ \A k \in 1..Len(s) : 1 + k - 1 = k
      BY <2>4, <3>1
    <3> QED BY <3>2 DEF Stands
  <2>6. x \in Meanings(s)
    BY <2>4, <2>5
  <2>7. PICK q : q = canonicalizeJSONV1(s)
    OBVIOUS
  <2>8. Accepted(s, q)
    BY <2>4, <2>7, CodecAccepts
  <2>9. q.ok
    <3>1. Len(s) <= Bytes
      BY <1>2, <2>2, <2>4
    <3> QED BY <2>6, <2>8, <3>1 DEF Accepted
  <2>10. PICK y : Meanings(s) = {y} /\ q.out = Spelling(y)
    BY <2>8, <2>9 DEF Accepted
  <2>11. y = x
    BY <2>6, <2>10
  <2> QED BY <2>1, <2>2, <2>3, <2>4, <2>7, <2>10, <2>11
<1> QED BY <1>1, <1>4, <1>5 DEF Faithful

\* Two texts the codec accepts are written alike exactly if they mean the same
\* (canonicalizeJSONV1): no two meanings share one canonical form, and so one
\* digest, and no meaning has two.
THEOREM OneSpellingOneMeaning ==
  ASSUME NEW t \in Seq(Token), NEW u \in Seq(Token), canonicalizeJSONV1(t).ok, canonicalizeJSONV1(u).ok
  PROVE  canonicalizeJSONV1(t).out = canonicalizeJSONV1(u).out <=> Meanings(t) = Meanings(u)
<1>1. ASSUME NEW v \in Seq(Token), canonicalizeJSONV1(v).ok
      PROVE  /\ Meanings(v) # {} /\ Meanings(v) = Meanings(canonicalizeJSONV1(v).out)
             /\ \A meaning \in Meanings(v) : canonicalizeJSONV1(v).out = Spelling(meaning)
  <2>1. Faithful(v, canonicalizeJSONV1(v))
    BY EveryTextHasOneSpelling
  <2> QED BY <1>1, <2>1 DEF Faithful
<1>2. PICK r, q : r = canonicalizeJSONV1(t).out /\ q = canonicalizeJSONV1(u).out
  OBVIOUS
<1>3. /\ Meanings(t) # {} /\ Meanings(t) = Meanings(r)
      /\ \A meaning \in Meanings(t) : r = Spelling(meaning)
  BY <1>1, <1>2
<1>4. /\ Meanings(u) = Meanings(q)
      /\ \A meaning \in Meanings(u) : q = Spelling(meaning)
  BY <1>1, <1>2
<1>5. ASSUME Meanings(t) = Meanings(u) PROVE r = q
  BY <1>3, <1>4, <1>5
<1> QED BY <1>2, <1>3, <1>4, <1>5

TextIsTokens == text \in Seq(Token)

\* Whatever is written, it is a text of tokens.
LEMMA TextsAreTokens == TextSpec => []TextIsTokens
<1>1. \A a \in Tokens : a \in Token
  BY TextAssumption
<1>2. Characters \subseteq Int /\ Units \subseteq TextUnits /\ \A opening \in Openings : opening \in Seq(Token)
  BY TextAssumption
<1>3. TextInit => text \in Seq(Token)
  BY <1>2, EmptySeq DEF TextInit
<1>4. ASSUME text \in Seq(Token), [TextNext]_text PROVE text' \in Seq(Token)
  <2>1. CASE AddToken
    <3>1. PICK a \in Tokens : text' = Append(text, a)
      BY <2>1 DEF AddToken
    <3> QED BY <1>1, <1>4, <3>1, AppendProperties
  <2>2. CASE AddCharacter
    <3>1. text # <<>> => text[1] \in Token
      <4>1. Len(text) \in Nat /\ (text # <<>> => Len(text) # 0)
        BY <1>4, LenProperties, EmptySeq
      <4> QED BY <1>4, <4>1, ElementOfSeq
    <3>2. \A n \in Seq(Int) : <<"num", n>> \in Token
      BY DEF Token
    <3>3. \A n \in Seq(TextUnits) : <<"str", n>> \in Token
      BY DEF Token
    <3>4. \A a \in Token : <<a>> \in Seq(Token)
      OBVIOUS
    <3>5. CASE \E c \in Characters :
                 \/ text = <<>> /\ text' = <<<<"num", <<c>>>>>>
                 \/ /\ text # <<>> /\ text[1][1] = "num" /\ Len(text[1][2]) < MaxCharacters
                    /\ text' = <<<<"num", Append(text[1][2], c)>>>>
      <4>1. PICK c \in Characters :
                 \/ text = <<>> /\ text' = <<<<"num", <<c>>>>>>
                 \/ /\ text # <<>> /\ text[1][1] = "num"
                    /\ text' = <<<<"num", Append(text[1][2], c)>>>>
        BY <3>5
      <4>2. \E n \in Seq(Int) : text' = <<<<"num", n>>>>
        <5>1. <<c>> \in Seq(Int)
          BY <1>2
        <5>2. CASE text # <<>> /\ text[1][1] = "num" /\ text' = <<<<"num", Append(text[1][2], c)>>>>
          <6>1. text[1][2] \in Seq(Int)
            BY <3>1, <5>2, TokensAre
          <6>2. Append(text[1][2], c) \in Seq(Int)
            BY <1>2, <6>1, AppendProperties
          <6> QED BY <5>2, <6>2
        <5> QED BY <4>1, <5>1, <5>2
      <4> QED BY <3>2, <3>4, <4>2
    <3>6. CASE \E u \in Units :
                 \/ text = <<>> /\ text' = <<<<"str", <<u>>>>>>
                 \/ /\ text # <<>> /\ text[1][1] = "str" /\ Len(text[1][2]) < MaxCharacters
                    /\ text' = <<<<"str", Append(text[1][2], u)>>>>
      <4>1. PICK u \in Units :
                 \/ text = <<>> /\ text' = <<<<"str", <<u>>>>>>
                 \/ /\ text # <<>> /\ text[1][1] = "str"
                    /\ text' = <<<<"str", Append(text[1][2], u)>>>>
        BY <3>6
      <4>2. \E n \in Seq(TextUnits) : text' = <<<<"str", n>>>>
        <5>1. <<u>> \in Seq(TextUnits)
          BY <1>2
        <5>2. CASE text # <<>> /\ text[1][1] = "str" /\ text' = <<<<"str", Append(text[1][2], u)>>>>
          <6>1. text[1][2] \in Seq(TextUnits)
            BY <3>1, <5>2, TokensAre
          <6>2. Append(text[1][2], u) \in Seq(TextUnits)
            BY <1>2, <6>1, AppendProperties
          <6> QED BY <5>2, <6>2
        <5> QED BY <4>1, <5>1, <5>2
      <4> QED BY <3>3, <3>4, <4>2
    <3> QED BY <2>2, <3>5, <3>6 DEF AddCharacter
  <2>3. CASE UNCHANGED text
    BY <1>4, <2>3
  <2> QED BY <1>4, <2>1, <2>2, <2>3 DEF TextNext
<1>5. TextInit => TextIsTokens
  BY <1>3 DEF TextIsTokens
<1>6. TextIsTokens /\ [TextNext]_text => TextIsTokens'
  BY <1>4 DEF TextIsTokens
<1> QED BY <1>5, <1>6, PTL DEF TextSpec

\* Of every text that is written out token by token or character by character,
\* as far as the run continues it and further (canonicalizeJSONV1): it is
\* accepted exactly if it means something, and its spelling is the only one.
THEOREM TheCodecIsFaithful == TextSpec => []CanonicalIsFaithful
<1>1. TextIsTokens => CanonicalIsFaithful
  BY EveryTextHasOneSpelling DEF TextIsTokens, CanonicalIsFaithful
<1> QED BY <1>1, TextsAreTokens, PTL
=============================================================================
