----------------------------- MODULE CommandLine -----------------------------
(***************************************************************************)
(* The command line (bin/nisi.mjs): what runCli does with its arguments,   *)
(* and writeLine, which waits for one line to reach an output stream.      *)
(* runCli is exported, so several calls may share their streams.           *)
(*                                                                         *)
(* A stream is Node's.  A write calls back once; when it fails the stream  *)
(* emits error, then close; a stream someone destroys emits close only,    *)
(* and writes to it fail without a further error.  An event goes to every  *)
(* listener of the moment, and an error without listeners ends the process.*)
(***************************************************************************)
EXTENDS Naturals

CONSTANTS
  Calls,  \* overlapping calls of runCli
  None

Streams == {"stdout", "stderr"}

\* What the arguments ask for; "refused" stands for an old runtime, a wrong
\* usage and a model configuration that is not accepted.
Commands == {"refused", "help", "demo", "local-model"}

\* How the example behind a command ends.
Endings == {"stored", "completed", "other", "threw"}

ASSUME NoneAssumption == None \notin Endings

VARIABLES
  call,       \* where each call is, what it ran, its line and its exit code
  stream,     \* each stream: open, failing (error is due), ending (close is due), closed
  unhandled   \* an error event found no listener

\* Init, Next and Spec bear the component's name here, so that a module may
\* extend this one beside another component.
CliVars == <<call, stream, unhandled>>

Idle(command) ==
  [command |-> command, at |-> "start", ending |-> None, target |-> None,
   line |-> None, writing |-> FALSE, listens |-> {}, exit |-> None]

CliInit ==
  /\ call \in [Calls -> {Idle(command) : command \in Commands}]
  /\ stream = [s \in Streams |-> "open"]
  /\ unhandled = FALSE

Runs(c) == call[c].command \in {"demo", "local-model"}

Run(c) ==
  /\ call[c].at = "start" /\ Runs(c)
  /\ \E ending \in Endings : call' = [call EXCEPT ![c].at = "emit", ![c].ending = ending]
  /\ UNCHANGED <<stream, unhandled>>

Target(c) ==
  IF call[c].command = "refused" \/ call[c].ending = "threw" THEN "stderr" ELSE "stdout"

(***************************************************************************)
(* writeLine.  finish settles a line once and removes the listeners; after *)
(* a failed callback the error listener stays for the event to come.       *)
(***************************************************************************)
\* Slip: the error listener is always removed.
FinishAndForget(record, line, retain) ==
  IF record.line # "pending" THEN record ELSE [record EXCEPT !.line = line, !.listens = {}]

Finish(record, line, retain) ==
  IF record.line # "pending" THEN record
  ELSE [record EXCEPT !.line = line, !.listens = IF retain THEN @ \ {"close"} ELSE {}]

\* Listeners are added before the write, which may throw.
Emit(c) ==
  /\ call[c].at = IF Runs(c) THEN "emit" ELSE "start"
  /\ LET listening == [call[c] EXCEPT !.at = "line", !.target = Target(c), !.line = "pending",
                                      !.listens = {"error", "close"}]
     IN call' \in {[call EXCEPT ![c] = [listening EXCEPT !.writing = TRUE]],
                   [call EXCEPT ![c] = Finish(listening, "failed", FALSE)]}
  /\ UNCHANGED <<stream, unhandled>>

(***************************************************************************)
(* The streams.                                                            *)
(***************************************************************************)
Called(c, line) ==
  call' = [call EXCEPT ![c] = Finish([@ EXCEPT !.writing = FALSE], line, line = "failed")]

WriteSucceeds(c) ==
  /\ call[c].writing
  /\ Called(c, "written")
  /\ UNCHANGED <<stream, unhandled>>

WriteFails(c) ==
  /\ call[c].writing
  /\ Called(c, "failed")
  /\ stream' = [stream EXCEPT ![call[c].target] = IF @ = "open" THEN "failing" ELSE @]
  /\ UNCHANGED unhandled

Destroy(s) ==
  /\ stream[s] = "open"
  /\ stream' = [stream EXCEPT ![s] = "ending"]
  /\ UNCHANGED <<call, unhandled>>

\* Both events are listened to once and report a failure.
Heard(s, event) == {c \in Calls : call[c].target = s /\ event \in call[c].listens}

Event(s, event) ==
  call' = [c \in Calls |->
    IF c \in Heard(s, event) THEN Finish([call[c] EXCEPT !.listens = @ \ {event}], "failed", FALSE)
    ELSE call[c]]

EmitError(s) ==
  /\ stream[s] = "failing"
  /\ stream' = [stream EXCEPT ![s] = "ending"]
  /\ unhandled' = (unhandled \/ Heard(s, "error") = {})
  /\ Event(s, "error")

EmitClose(s) ==
  /\ stream[s] = "ending"
  /\ stream' = [stream EXCEPT ![s] = "closed"]
  /\ Event(s, "close")
  /\ UNCHANGED unhandled

(***************************************************************************)
(* runCli goes on when its line has settled.                               *)
(***************************************************************************)
ExitCode(c) ==
  IF call[c].command = "refused" \/ call[c].line = "failed" THEN 2
  ELSE IF \/ call[c].command = "help"
          \/ call[c].ending = "stored"
          \/ call[c].command = "local-model" /\ call[c].ending = "completed" THEN 0
  ELSE 1

Return(c) ==
  /\ call[c].at = "line" /\ call[c].line # "pending"
  /\ call' = [call EXCEPT ![c].at = "returned", ![c].exit = ExitCode(c)]
  /\ UNCHANGED <<stream, unhandled>>

CallStep(c) == Run(c) \/ Emit(c) \/ WriteSucceeds(c) \/ WriteFails(c) \/ Return(c)

StreamStep(s) == Destroy(s) \/ EmitError(s) \/ EmitClose(s)

CliNext == (\E c \in Calls : CallStep(c)) \/ (\E s \in Streams : StreamStep(s))

CliSpec == CliInit /\ [][CliNext]_CliVars
=============================================================================
