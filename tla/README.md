# Nisi: models and proofs

Nisi runs a task through an author, checks, tests and a panel of reviewers, and
keeps evidence of what happened. The program is a set of JavaScript modules
with no framework below them: one event loop, promises, timers, an abort signal
and a synchronous file system. This directory models the parts that decide
something, checks them with TLC on small instances, and proves with TLAPS what
matters most for every instance.

Paths below are relative to the repository, so `workflow/engine.mjs` is
`src/workflow/engine.mjs` in `PROJECT.json`.

## 1. Inventory

| Component | State | Operations | Interacts with |
|---|---|---|---|
| Workflow engine, `workflow/engine.mjs` | one run: candidate, fingerprints seen, attempt, outcome, stage records; one invoker per budget: last clock sample, deadline, timer, settled flag | `runWorkflow`: setup, gates, draft, repair loop, completion, report storage | adapters (promises), host (abort signal, clock, report store), timers |
| Workflow contracts, `workflow/contracts.mjs` | none | task and candidate construction, fingerprints, freezing | the engine, hosts |
| Run journal, `history/run-journal-v1.mjs` | records, latest time, sealed flag, indexes by id, retry and revocation | `append`, `list`, `retain`, `serialize`, `reopen` | a host that keeps the text |
| Journal store, `history/run-journal-store-v1.mjs` | none in memory; the journal file and temporary files | `writeSerializedJournal`, `readSerializedJournal` | the file system, other processes, the journal's `reopen` as validator |
| Content consent, `gate/content-consent.mjs` | consents with deadline and revocation | issue, revoke, open a file by consent | the file system, a host clock |
| AFM content executor, `gate/afm-content-executor.mjs` | one child process per call, refusals, readings | execute, abort | content consent, a helper binary, timers |
| Local chat adapter, `adapters/local-chat.mjs` | one request: abort controller, first stop code, receipts | draft and review requests | a loopback HTTP server, the engine |
| Canonical JSON codec, `canonical/canonical-json-v1.mjs` | none (a position in the text) | parse, refuse, spell canonically | hosts that compare or sign digests |
| Command line, `bin/nisi.mjs` | per line: settled flag, listeners on a shared stream | help, version, demo, local model | the examples, Node's streams |
| Checked loop, `benchmarks/value/checked-loop.mjs` | one run, like the engine's, with its own invoker | `runCheckedLoop` | adapters, host, report store |
| Live pilot, `benchmarks/value/live-pilot.mjs` | an output file, a sidecar of rows, the number of rows counted | `main`, `runPilot` | the file system, engine, checked loop, local chat |
| Rest of the benchmark, `benchmarks/value/` | result files | fixtures, scoring, charts | the above |
| Facades, examples, probes, scripts, documentation pages | none of interest | re-exports, sample hosts, packaging checks | |

What is hard in each, and what makes it correct:

* **Engine.** An adapter may answer, reject, hang, answer after its call was
  settled, or answer with evidence for another attempt. The host may cancel at
  any moment, and the clock is an option of the caller: it may stand still, jump
  or go back. Correct means: a run is COMPLETED only on passes of every gate for
  the final candidate in the final attempt; nothing counts that came too late;
  candidates and attempts go together; every run reports, and the report does
  not claim more than was stored.
* **Journal.** Every rule exists twice, in `append` and in `reopen`, with
  pruning and restarts in between. Correct means: what is written can be read
  back as the same history, damage is noticed, and histories, retries and
  liveness only move one way.
* **Store.** Any call may fail, the process may be killed and the machine may
  lose power between any two calls, other processes write the same file. Correct
  means: the destination is always a whole journal and the report's `durable`,
  `committed` and `cleanupError` are true.
* **Consent and executor.** Checks on a file or binary that may be replaced
  before it is used; deadlines that must stay passed; five events racing to
  settle one promise. Correct means: what is admitted is one version of one
  file; a dead grant stays dead; a child is started by consent only and never
  left running; every call leaves one record.
* **Local chat.** A deadline, an abort and a response racing each other, and a
  request that goes on after its call has returned; errors of the transport that
  may carry any code, even that of a stop; a response cap at a part's boundary.
  Correct means: nothing partial or late is validated, a stopped call's receipt
  names its stop, connections are released, and no server can hold a call up.
* **Codec.** Limits of depth, members, size and numbers, the same key in two
  spellings, the order of keys beyond the basic plane. Correct means: a text is
  accepted exactly if it has one meaning within the limits, and two texts have
  one canonical spelling exactly if they mean the same.
* **Checked loop.** A second scheduler and a second set of validators for the
  same adapters. Correct means: it keeps the promise the engine keeps and judges
  every answer as the engine does, or the benchmark compares two different things.
* **Command line.** Error, close and the write's callback race to settle a line,
  on streams that overlapping calls share. Correct means: an exit code does not
  claim a line or a result that is not there, and no error event is unheard.
* **Pilot.** A file truncated before it is rewritten, rows appended in parts, a
  process that may be killed. Correct means: rows already paid for are kept, and
  no document claims more of them than there are.

The list of hazards with their lines is in `PROJECT.json`; each names the
properties that would catch it, or says why there is none.

## 2. Modules

| Module | Models |
|---|---|
| `WorkflowContracts` | the contracts the engine applies: bindings, evidence, candidates, receipts |
| `WorkflowEngine` | `runWorkflow` and its invoker |
| `WorkflowProperties` | what a run must satisfy |
| `WorkflowRun` | the abstract run: candidates presented, approved, withdrawn, concluded, published |
| `WorkflowRefinement` | the mapping from the engine to `WorkflowRun` |
| `RunJournal`, `RunJournalProperties` | the journal and what it must satisfy |
| `JournalStore`, `JournalStoreProperties` | the store, its file system and what it must satisfy |
| `ContentGrant` | a consent grant: revocation, clock, expiry |
| `ContentConsent`, `ContentConsentProperties` | the admission of a file by a grant, and what it must satisfy |
| `ContentExecutor`, `ContentExecutorProperties` | calls of the executor with their children, under a grant |
| `LocalChat`, `LocalChatProperties` | calls of a local chat adapter |
| `CheckedLoop`, `CheckedLoopProperties` | `runCheckedLoop`; its mapping to `WorkflowRun` and its validators beside the engine's |
| `PilotOutput`, `PilotOutputProperties` | the live pilot's files |
| `CommandLine`, `CommandLineProperties` | `runCli`, `writeLine` and the streams they share |
| `CanonicalScalars` | the codec's numbers, strings and order of keys |
| `CanonicalJson` | the codec's values, arrays and objects |
| `CanonicalMeaning` | what a number and a string mean |
| `CanonicalJsonProperties` | what a text means, and the codec against it |
| `WorkflowProofs`, `CheckedLoopProofs`, `RunJournalProofs`, `JournalStoreProofs`, `ContentConsentProofs`, `ContentExecutorProofs`, `LocalChatProofs` | the theorems about each, section 4 |
| `OutputProofs` | the theorems about the pilot's files, the command line and the codec |
| `MCContracts` | offers, bindings and answers both schedulers are given |
| `MCWorkflow`, `MCCheckedLoop`, `MCRunJournal`, `MCJournalStore`, `MCContentConsent`, `MCContentExecutor`, `MCLocalChat`, `MCCanonicalJson` | values of the constants for TLC |

`ContentConsent` and `ContentExecutor` both extend `ContentGrant`: the one looks
inside an admission, the other at calls that each make one. `WorkflowEngine` and
`CheckedLoop` both extend `WorkflowContracts` and are both mapped to
`WorkflowRun`.

Operators called "Slip" in a comment are plausible mistakes in the definition
that follows them. No specification uses them; `PROJECT.json` pairs each with
the property that notices it.

### 2.1 The engine

*Steps.* JavaScript runs one piece of synchronous code at a time, so a step is a
piece of code up to the next point where other code may run: an `await`, or a
clock sample, since the clock is the caller's function. A host that aborts from
inside its clock has the effect of aborting right after the sample.

*State.* `pc` is the stage `runWorkflow` is at; `candidate`, `attempt`, `seen`,
`outcome`, `code` and `stages` are its local variables `candidate`,
`repairAttempts`, `seen`, `outcome`, `code` and `stages`. `phase` and `result`
are the promise of the invocation under way: `idle` before `invoke`,
`scheduled` between `invoke` and the microtask that calls the adapter, `running`
while the adapter runs, `settled` after `finish`. `invoker` is the closure of
`createInvoker` (`previous`, `deadline`, and whether it was given the host's
signal). `abandoned` holds the calls that were settled by a timer or by the host
while their adapter still ran.

| Code | Actions |
|---|---|
| lines 157-217, setup | `Begin` |
| `invoke` up to its promise; the microtask | `Invoke`, `Start` |
| the two handlers after the adapter | `Fulfil`, `Throw`; `LateAnswer`, `LateThrow` once the call is settled |
| `setTimeout`, `onAbort` | `TimerFires`, `HostAborts` |
| `stage` and `stop` | `GatePasses`, `GateFails`, `GateBlocks`, `CallStopped`, `AnswerRejected` |
| draft, repair, completion | `Drafted`, `Repaired`, `NotRepaired`, `Complete` |
| lines 278-315, the report | `NoStore`, `OpenStore`, `StoreSettles` |

*Abstractions.* A candidate is its content, and stands for its fingerprint. What
is validated about evidence is kept as far as it decides: status, binding,
whether the reason is empty, the number of findings, the assertions, the
reviewer. The codes of all validation failures are one code, `REJECTED`, and the
per-stage codes are named for the status. Times are small integers; everything
`Number.isSafeInteger` refuses is a sample above `MaxSafe`.

### 2.2 The journal

The journal is synchronous: one operation is one step. `records` is the array,
`mark` the latest accepted time, `status` says whether the journal is sealed.
The indexes of `build` are functions of the records, because every statement
that changes one changes the records with it. `text` is the text the host keeps
between restarts: a sequence of lines, each whole, and whether the last one was
torn. `AppendEntry`, `List`, `Retain` and `Serialize` are the four operations,
refusals and exceptions included; `Restart` is `reopen` of the kept text, as it
was written or damaged. A digest is a record that holds what was digested, so it
is equal exactly for equal contents.

`Verdict` follows the order of the checks in `append` and `RecordAccepted` that
of `reopenData`; neither is derived from the other, since whether they agree is
the question.

### 2.3 The store

Each call of the file system, with the code up to the next, is a step of an
attempt: `Begin`, `OpenTemp`, `WriteTemp`, `SyncTemp`, `CloseTemp`, `ReadBack`,
`Recheck`, `Rename`, `SyncDirectory`, `Verify`, `Cleanup`. Each may fail as the
call may, and a write may also leave wrong bytes without saying so. `Kill` ends
a process anywhere. `PowerLoss` leaves at the destination any of the files it
held since the directory was last synced (`survivors`), and may damage one whose
bytes were not. A text stands for its digest; a short file is `partial`.
`oneWriter`, chosen at the start, says whether the host makes one call at a time.

### 2.4 Content consent

`admitContent` is synchronous, so nothing in the process runs beside it, but
other processes do: a step is one call of the file system with the code up to
the next. `Admit` judges the grant and resolves the path, `Stat`, `Open`,
`Examine`, `Read` (repeated; each read may be short) and `Verify` follow;
`Revoke` and `Status` are the other two methods. Between any two of them
`Replace`, `Rewrite` and `Link` change what the path names, a file's content or
its number of links. `grant` holds the private fields of `ContentConsentGrant`.

Assumed: the directories above the file are stable, which the code asks for at
line 140, so `realpath` is part of `Admit`; every change of a file gives it
another stamp, that is, mtime and ctime are fine enough; the clock does not call
the grant back. `place = "link"` is a symbolic link put at the resolved path
after it was resolved.

### 2.5 The executor

Calls of `execute` overlap. `Execute` is the code up to the spawn, one piece
without an `await`: checks of the request, admission, verification of the
binary, launch. Then the events of `runProbe`: `Data`, `ChildCloses`,
`ChildErrs`, `TimerFires`, `HostAborts`; `Finish` is the continuation, up to the
record the call leaves. The child itself (`ChildEnds`, `ChildCrashes`) is free
to end, fail, hang or write what it likes. A call that has returned keeps only
what its records and its child still refer to. `Install` replaces the binary
between calls; within `Execute` the binary is stable, since neither the code nor
this model can tell a replacement between the verification and the spawn.

### 2.6 The local chat adapter

A call is two activities: `call`, which awaits a race, and its inner `request`,
which may go on after the race was lost. `at` is where the first is, `net` where
the second is. `Begin` is the code up to the race, `Fetched`, `NetFails`,
`ReadPart`, `ReadOther` and `ReadEnds` are the continuations of `request` and
`readBounded`, `TimerFires` and `Aborts` the two stops, `Continue` everything
after the race. `due` says that `timeoutMs` have passed, which the timer and
line 192 notice independently. The fetch may ignore its signal and resolve
after the call has returned. Line 137, for a Node without fetch, is left out: it
throws before there is a receipt, although `docs/local-models.md` says that
failures retain one; every Node the package supports has fetch.

Line 198 reports any string that the caught error has as its `code`. The
adapter's own errors carry the adapter's codes, but a fetch or a read that fails
brings an error of the transport, and "transport exceptions may supply arbitrary
codes" (`bin/nisi.mjs:37`). `TransportCodes` is the set of codes they may supply,
and `NetFails` takes one of them, or `LOCAL_CHAT_UNAVAILABLE` for an error
without one. It may hold the adapter's own codes: in `Chat.cfg` it holds both
stop codes. So a receipt that names `ABORTED` or `LOCAL_CHAT_TIMEOUT` does not
by itself show that the call was stopped. `OneTrueReceipt` says what it does
show: a stopped call's receipt names that stop, whatever error the stop caused;
and a receipt that names a stop belongs to a call for which it happened, or to
one that nothing stopped and whose transport failed with that very code
(`PassedOn`).

### 2.7 The checked loop

`runCheckedLoop` awaits one adapter call after the other. A step is a call with
what the loop makes of it, taken when the call settles: `Stopped` when the call
ended without an answer, `Refused` when the loop's validators threw, `Passes`,
`FailsOrBlocks`, `Drafted` and `Repaired` otherwise, `Completes` for the last look
at the guard, `NoStore`, `StoreStopped` and `StoreAnswers` for the report. The race
inside a call is the engine's and is not taken apart again. What it leaves behind
is kept: `aborted` is the host's signal, and `late` says that the last accepted
clock sample was at or past the deadline, after which no call can succeed. A timer
needs no clock, so a call may be `DEADLINE_EXCEEDED` while `late` is false.

`checkEnvelope`, `DraftAdmitted`, `RepairAdmitted` and `ReceiptAdmitted` are the
loop's own checks, translated from its lines and not from the engine's. One
difference to the engine is kept as it is: the loop stores its report through
the run's own invoker (line 260), so the report of a run that was cancelled is
never stored, whereas the engine makes a fresh, bounded attempt.

### 2.8 The pilot's files

`output` is what the output file holds, `onDisk` what a power loss may leave of
it, `rows`, `torn` and `synced` describe the sidecar. `replaceReserved` is
`Truncate`, `Write` (repeated: each write may be short) and `Sync`; it is used
for the mark before the first call, for the result, and in `catch` for the
partial document (`job`). `Throws` is any exception inside `try`, and one more
inside `catch`. `Arm` stands for an arm with its calls, whatever they do: it ends
in a row, except that the router's check may throw. `main` may be called again
with the same file at any time after the call before ended; overlapping calls
are excluded by opening with `wx`. Directories are never synced, so a power loss
may take either file as a whole.

### 2.9 The command line

A call of `runCli` is the command its arguments select, the end of the example
behind it, and one line (`Emit`, then `Return`). `Finish` is `finish` with
`cleanup`; `listens` are the listeners a line has on its stream. The streams are
Node's, as the code uses them: a write calls back once, a failed one is followed
by `error` and `close`, a destroyed stream emits `close` only. Assumed: a write
that succeeded is not followed by an error that belongs to it. When a write to a
stream that is already destroyed fails, no error event follows and the retained
listener stays for the life of the stream; the model shows this and no property
forbids it.

### 2.10 The codec

A text is a sequence of tokens: punctuation, white space, literals, numbers (as
characters) and strings (as units, raw or escaped). `value`, `object`, `array`,
`string` and `number` are the methods of the same names, and return what the
text yields and where the parser is, or that it refuses and where. Codes are left
out: every refusal is the same to a caller that compares digests. The mutual
recursion of the methods is written level by level: `Values` gives for every
number of levels that may still be opened what `value` does at each place, from
the same one level down (`inner`), and the loops of `array` and `object` are
their rounds (`Turn`, `Loop`), of which a text has no more than tokens.

What a text means is written the other way round, in `CanonicalJsonProperties`:
it does not consume the text but says which values a stretch of it could stand
for (`Levels`), cutting it at commas in every way (`Lists`), decoding strings by
asking which scalars encode to the units, evaluating numbers, and taking an object
for a set of members. `Spellings` spells a meaning, again level by level. The code
space of the configuration is small, with surrogates between the letters and a
character behind them, so that the order of UTF-16 units and that of UTF-8 bytes
disagree.

Tokens stand for bytes in the size limit. The second size check (line 203) never
refuses: the canonical spelling is never longer than the text, which the property
states for tokens and `EveryTextHasOneSpelling` proves.

## 3. Runs

| Run | Instance | Shows |
|---|---|---|
| `engine_edit` | edit tasks, budgets 0 to 2, three contents, two reviewers, samples 0 and 2 (the deadline) | gates, attempts and candidates go together; repairs are earned; adapters do not overlap |
| `engine_live` | edit and review tasks, setups the engine refuses beside acceptable ones, candidates in every form, all store configurations, samples below, at and behind the deadline and an unusable one, under `FairSpec` | the engine implements `WorkflowRun`; only admissible candidates enter; nothing counts in late; reports are honest; every run reports |
| `journal_history` | three ids, long and short lives, valid entries among malformed ones, two retained of at most three | types and redaction; the newest payloads are kept; every open journal reopens complete; damage is noticed |
| `journal_retries` | first attempts, two levels of retries, revocations, heartbeats | retries follow ends, replays are harmless, history only grows, liveness only decays |
| `store` | two overlapping calls or three one after the other, one power loss | whole journals only; durability and commits reported truly, nothing left behind unsaid; a single writer replaces only the journal it named |
| `consent` | two files, four contents around the limit of two pieces, samples before, at and after the deadline and an unusable one, two changes by others, two admissions | one version is admitted; the dead stay dead |
| `executor` | two overlapping calls, outputs around a cap of one chunk, a clock at and before the deadline | launches by consent, one record per call, no child left running, every call returns |
| `local_chat` | two overlapping calls, responses around a cap of two pieces, transport errors with a stop's code, another or none | one receipt a call, which names the stop if there was one, nothing partial or late, connections released, every call returns |
| `checked_loop` | the answers of the engine's runs, stores and budgets 0 to 2 | the loop implements `WorkflowRun`; its validators judge as the engine's; its reports are honest |
| `pilot` | three calls, two tasks of three arms, two power losses | rows are kept, claims are backed |
| `cli` | two overlapping calls of any command | exit codes are true, no error event is unheard |
| `canonical` | texts of up to nine tokens and continuations of a full object, numbers and strings of up to four characters | the codec agrees with the declarative reading |

*Why the bounds are enough.* Two repairs are the least that let an author return
to a candidate that is neither the base nor the first; three contents are one per
attempt. Two reviewers distinguish the first, the last and a missing one. The
samples lie before, at and after the deadline and before the previous sample; a
further value between them adds no new comparison. `engine_live` has one repair,
since the longer histories are `engine_edit`'s question, and one inadmissible
content. Three journal entries allow a target, its retry and the retry's retry or
a revocation, and fill a history of three; retaining two of them makes pruning
choose. Two concurrent writers interleave at every call; three sequential ones
allow a successful write to follow a killed one that followed another. A second
power loss finds a destination like the first, since an outage leaves one synced
file; the pilot has two, because its second call may meet what the first left.
Two changes let a file be replaced and put back, or rewritten and replaced,
within one admission; two admissions are what expiry and revocation come between.
Two calls of the executor, the chat adapter or the command line share a grant, a
list of receipts or a stream, and a third would share nothing else. Caps of one
and two are crossed by the first part, by a later one, or not at all. Nine tokens
hold an object of two members or an array within an array; a third member is
reached by continuing an object that has two. A text is continued only while the
codec has not refused it, since nothing behind a refusal is read.

A few cases are hardly reached by these instances, or not at all, and rest on the
theorems, which have no bounds: a retry of a retry (`RetriesAreEarned`), the
replay of an append whose payload is gone (`ReplaysAreDuplicates`), `append`
refusing a new entry for a full history (`JournalsReopenComplete`), and the codec's
size limit (`TheCodecIsFaithful`, `EveryTextHasOneSpelling`).

`JournalHistory.cfg`, `JournalRetries.cfg`, `Store.cfg`, `Consent.cfg`, `Loop.cfg`
and `WorkflowEdit.cfg` use symmetry of ids, attempts, texts, files or contents, which
the specifications only compare; no configuration with a liveness property does.
`Store.cfg`, `Pilot.cfg`, `Cli.cfg`, `Chat.cfg` and `Canonical.cfg` switch
deadlock checking off: when every attempt or call was made, or the text is as
long as it gets, there is nothing to do. Elsewhere deadlock is checked; a
finished run stutters in `Returned`.

### Fairness

`FairSpec` assumes weak fairness of `EngineStep` and `TimerFires` only.
`EngineStep` is the engine's own continuations: synchronous code and microtasks,
which the event loop runs before anything else. `TimerFires` is a `setTimeout`
that is due: the engine arms it with what is left of the budget, it does not
depend on the caller's clock, and it is cleared only by a settlement. Nothing is
assumed of adapters, the host or the clock's values. What is assumed of adapters
is what every timer needs: that they give control back to the event loop. An
adapter that computes for ever without awaiting stops the process, and the
comment in the engine (line 91) says so. The executor and the chat adapter are
given the same: weak fairness of their timers, of time passing and of the
continuation that follows a settled promise, and none of the child, the server,
the fetch or the host. The journal, the store, consent and the codec have no
liveness property: their operations are synchronous and end by themselves. The
checked loop waits on the same timers as the engine, the command line on Node's
streams alone, and the pilot on its file operations; nothing is claimed of them.

## 4. Proofs

Every theorem holds for all values of the constants that satisfy the assumptions
below; the prover checks each step. In each module the argument is an inductive
invariant, one lemma per action that shows the action preserves it, and the
property drawn from it.

| Theorem | States |
|---|---|
| `WorkflowProofs!TypeCorrect` | `TypeOK`, with `Control` |
| `WorkflowProofs!CompletedRunsAreGated` | `CompletedRunPassedEveryGate` |
| `WorkflowProofs!NothingAdvancesLate` | `OnlyInTime` |
| `WorkflowProofs!ReportsAreHonest` | `ReportIsHonest` |
| `WorkflowProofs!CandidatesStayAdmissible` | `AdmissibleCandidate` |
| `WorkflowProofs!EngineKeepsThePromise` | the engine implements `WorkflowRun` |
| `WorkflowProofs!AdaptersRunAlone` | `AdaptersDoNotOverlap` |
| `WorkflowProofs!NoContentIsJudgedTwice` | `OneCandidatePerAttempt` |
| `WorkflowProofs!RepairsFollowFailures` | `RepairsAreEarned` |
| `WorkflowProofs!RunsAreFinite` | a run has at most `LongestRun` steps |
| `CheckedLoopProofs!LoopKeepsThePromise` | the loop implements `WorkflowRun` |
| `CheckedLoopProofs!LoopReportsAreHonest` | `LoopReportIsHonest` |
| `CheckedLoopProofs!ValidatorsAgree` | `JudgesAlike` |
| `RunJournalProofs!JournalTypes` | `JournalTypeOK` |
| `RunJournalProofs!RetentionKeepsTheNewest` | `NewestRetained` |
| `RunJournalProofs!RetriesAreEarned` | `RetriesFollowEnds` |
| `RunJournalProofs!ReplaysAreDuplicates` | `ReplayIsDuplicate` |
| `RunJournalProofs!DamageAlwaysNoticed` | `DamageIsNoticed` |
| `RunJournalProofs!HistoriesOnlyGrow` | `HistoryOnlyGrows` |
| `RunJournalProofs!NothingRevives` | `LivenessOnlyDecays` |
| `RunJournalProofs!JournalsReopenComplete` | `ReopensComplete` |
| `JournalStoreProofs!DurableWritesSurvive` | `DurableSurvives` |
| `JournalStoreProofs!RefusalsLeaveNoTrace` | `UncommittedLeavesNoTrace` |
| `JournalStoreProofs!OnlyWholeJournalsAppear` | `OnlyWholeJournals` |
| `JournalStoreProofs!OnlyTheExpectedIsReplaced` | `ReplacesOnlyExpected` |
| `ContentConsentProofs!OneVersionIsAdmitted` | `AdmitsOneVersion` |
| `ContentConsentProofs!DeadGrantsStayDead` | `DeadStaysDead` |
| `ContentExecutorProofs!CallsLeaveOneRecord` | `OneRecordPerCall` |
| `ContentExecutorProofs!ReadingsFollowConsent` | `ReadingsAreConsented` |
| `ContentExecutorProofs!ChildrenDoNotOutlive` | `NoChildLeftRunning` |
| `ContentExecutorProofs!LaunchesFollowConsent` | `LaunchesNeedConsent` |
| `LocalChatProofs!OnlyWholeResponsesAreValidated` | `ValidatedInTime` |
| `LocalChatProofs!NoConnectionLeftOpen` | `ConnectionsReleased` |
| `LocalChatProofs!EveryCallIsReceipted` | `OneTrueReceipt` |
| `OutputProofs!NoClaimWithoutRows` | `ClaimsAreBacked` |
| `OutputProofs!PaidRowsStay` | `RowsAreKept` |
| `OutputProofs!ExitCodesAreTrue` | `ExitCodeIsTrue` |
| `OutputProofs!KeysAreOrdered`, `KeysHaveOneOrder` | the order of members is a linear order, and unique |
| `OutputProofs!NumbersAreRead` | a number is accepted exactly if it has a meaning |
| `OutputProofs!StringsAreDecoded` | a string yields its one meaning, or is refused for having none |
| `OutputProofs!SpellingsAreRead` | a spelled string is read back |
| `OutputProofs!EveryTextHasOneSpelling` | any text of tokens is accepted exactly if it has a meaning, and yields the one spelling of it |
| `OutputProofs!OneSpellingOneMeaning` | two accepted texts are written alike exactly if they mean the same |
| `OutputProofs!TheCodecIsFaithful` | `CanonicalIsFaithful` |

### The engine

`TypeOK` alone is not inductive. That an attempt stays within the budget depends
on `repair` being reached only from an accepted edit setup; that a decided
outcome is a member of `RunOutcomes` when it is reported depends on where in the
run it is still undecided. `Control` says that: a run past its setup was
accepted, the outcome is undecided while gates run, FAILED while a repair is
asked for, decided once the store is reached; an invocation is under way only in
a stage; what settled it is a stop or an answer.

`Evidence` says, for every place in the run, which passes for the candidate and
the attempt in force are already among the stage records: none is needed at
`staticChecks`, the static pass at `tests`, those of the first `reviewer - 1`
reviewers at `review`, all of them at `completion`. Records are only appended, so
passes are never lost (`PassesKept`), and a repair changes candidate and attempt
but goes back to where nothing is needed.

`OnlyInTime` speaks of steps, not states. `InTime` is its body; the two facts it
comes from are that an accepted sample is never below the one before it
(`SampledForward`) and that what goes on does so by a sample below the deadline
without an abort (`ProceedsInTime`). Each action is one of these or touches
neither the clock nor the promise.

`Honest` follows a report from the moment the store is opened: what it may have
heard, what its own receipt must be, and that an invoker for a stopped run was
not given the host's signal.

The refinement is by kinds of steps. `Trail` says that no record is about a later
attempt, that a repair opens an attempt without records and that an edit run has
no candidate before its draft; so the approvals of the abstract run, which are
the passes of the attempt in force, begin empty with every candidate. A step of the engine is then elsewhere (it stutters), passing,
failing, ending, completing or publishing, and each kind has one lemma that
shows its step of `WorkflowRun`. `Strong`, the conjunction of `IInv`, `Evidence`
and `Trail`, is what the lemmas share.

`Solo` says that an abandoned call and one under way meet only at the store.
`Distinct`, `Counted` and `Chained` are about the list of records: a record of a
gate names a candidate of `seen`, the one in force exactly if it is of this
attempt; the candidates that failed a gate are finitely many, one per attempt
behind; the last record is of the attempt in force or, at a repair, the failure
that opened it.

`RunsAreFinite` is the half of `EveryRunReports` that needs no fairness: no run
turns for ever. `Remaining` counts, in this order of weight, the attempts
left, the stages ahead in this one and what the call under way still has to go
through; every step of the engine and every settlement of a call makes it
smaller (`ComesNearer`). A timer or an abort may add a dropped call, whose late
settlement is a step as well; `Effort` therefore counts `Remaining` twice and
adds the dropped calls and the abort still to come. The other half, that a run
which is not over takes another step, is fairness.

### The checked loop

`Types`, `Control` and `Trail` are the loop's counterparts of the engine's.
`Trail` is stronger than the engine's `Evidence` where the loop is simpler, and
carries both the refinement and the report. `ValidatorsAgree` needs no invariant: it
compares the two sets of validators conjunct by conjunct, for all evidence that
`EvidenceAssumption` allows. `CountsAlike` is the one place where they are
written differently enough to need a lemma.

### The journal

The invariant says four things: the status is one of three; `Sound(records,
mark)`; `Written`, that the host's text is the serialisation of some sound
history, however old; and the type of the last reply. A history is `Orderly` if
every record is `Kept` (accepted at the time of the mark, its fingerprint its
own) and `Earned` (an id and a retry of its own, a retry after an ended target,
a revocation after what it revokes) and the records without payload that have
not expired come before those with one; it is `Sound` if it also keeps no more
than `MaxEntries` payloads. `Orderly` is what holds between an append and the
pruning that follows it.

`Earned` looks only at records before the one it judges and only at what later
times preserve, so appending, pruning, a later mark and cutting off the end all
keep it; that is also why `append` and `reopen` agree although neither is derived
from the other. For `ReopensComplete` a line of the text is shown to be accepted
after the lines before it (`Reaccepted`, `LinesContinue`), and a chain of hashes
to exist for every text: the first position at which one could not be continued
would contradict its predecessor. For `DamageIsNoticed` a text is `Genuine` if every
entry in it that is at its place, with its own fingerprint, is the one that was
serialised there: damage leaves a text torn, or genuine and not finished, and what reopen
takes from such a text is a beginning of what was written, never all of it. `HistoryOnlyGrows` and
`LivenessOnlyDecays` come from `Continued`, the relation between the histories
before and after any operation but a restart.

### The store

`Locals` describes each call with its temporary file, place by place. `Traces`
says that a file which may be found after a power loss was renamed by the call
it is of, and is whole if that call synced it; `Settled`, that once a call has
synced the directory its file is the only one to be found, unless another has
replaced it. `Expecting` is about a single writer: until its rename the
destination is what it expects.

### Consent and the executor

`Reading` says that as long as the file keeps the stamp it was opened with, what
has been read is the beginning of that version: a replacement or a rewrite
changes the path or the stamp and is seen by `Verify`, a short read leaves the
buffer shorter. `Liveness` says that no admission is under way under a dead
grant. In the executor `Consistent` describes one call, its child and its flags,
and `Ledger` the two lists: each returned call has one record in one list, and a
reading names the content of its call. `LaunchesNeedConsent` follows from the one
action that launches.

### The local chat adapter

`InStep` says how far a call and its request may be apart: a body is read only
while the call waits, a fetch outlives the wait only after a stop, and a call
goes on with a text only if the body ended. `Whole` describes a call whose
receipt says validated; no step touches such a call any more, which
`QuietUpdate` and `ReturnPreserves` use for all steps at once. For
`OneTrueReceipt`, `Caused` says what a stop, or a transport error with a stop's
code, has already left in the call when its receipt is still to be written, and
`Tells` that a receipt agrees with it. `Settled` says that nothing a receipt
refers to changes after the return. The theorem holds for every set of
`TransportCodes`.

### The pilot

`Rows` says that no document that may be on disk counts more rows than were
synced, and `Progress` at which points the count is exact.

### The command line

`Lineage` relates a line to what its stream still owes it. `Line` describes one
call: what it has decided before its write (`Begun`), which listeners it has while
the write is pending (`Waits`), and that a settled line told the truth (`Told`).
`Delivery` is about the two streams: a call whose write outlives its line wrote
to a stream that is no longer open (`Outlives`), and whoever still expects an
error event listens to it (`Expects`). The number of overlapping calls is a
parameter. The theorem assumes that `None` is none of the ways a call may end.

### The codec

The codec consists of recursive functions, not RECURSIVE operators, so that it
can be reasoned about; `Induction` is induction over a set of numbers, drawn
from the well-foundedness of the order. `LexLess` is shown to be a comparison at
the first difference (`LessIsBefore`), which makes it a strict linear order, and
a linear order lists a set in one way. For numbers `Worth` is the value digit by
digit: one more digit outweighs all that follow (`LongerIsLarger`), and at equal
length the first difference decides (`FirstDigitDecides`), which is what the code
relies on at sixteen digits (line 192).

For strings, `StringFirst` reads the decoder as a step from the first unit to what
follows it, `EncodedFirst` and `SpelledFirst` do the same for the encoding and
for what is spelled. `FirstScalar` is the heart: if scalars encode to what
the units spell, the first scalar is the first unit, or the first two are an
escaped pair that stands for it; nothing else begins with that code unit, since
surrogates are neither scalars nor each other. From it `SpelledIsDecoded` and
`DecodedIsSpelled` follow by induction on the length: the decoder accepts exactly
the strings with a meaning, and there is one.

From these the whole codec follows by induction on the levels that may still be
opened: the parser at a place and the meanings of the text from there agree
(`CodecAgrees`). Where the parser stops is where every meaning from that place
ends, it has the parser's spelling, and where the parser refuses there is none.
The hard part is between two brackets, where the parser goes from comma to comma
and the meanings are all the ways to cut. `RoundAdvances` shows that after any
number of rounds the lists that reach the place are exactly the one that was
collected, and `BracketCloses` that a bracket encloses that list and nothing else,
so that a comma inside a nested value is never taken for one between members.
`ObjectIs` takes an object's members out of their order: there is one listing
that rises (`SortedExists`, `RisesOnce`), and so `Sorted` of the text's members and
`InKeyOrder` of the set of members are the same.

Three more inductions show that the spelling is canonical. `SoundAll`: a spelling
means its meaning wherever it stands in a text, by `ListStands`, the converse of
the cutting at commas. `Lengths`: it is no longer than any stretch that has the
meaning; since an object's members may stand in another order there, the lengths
are summed over a set of members (`SameWeight`). `CodecAccepts` then turns
`CodecAgrees` into acceptance of a whole text within the limits, and applied to
the spelling it says that the codec leaves it as it is. The theorems hold for
every text of tokens, any depth, size, number of members and code space.

### Assumptions

`ClockAssumption`, `GrantAssumption` and `JournalAssumption` take clocks and times
for natural numbers and the limits for positive ones; `SetupAssumption` (of the
engine and of the loop) says what a setup consists of, whether or not the engine
accepts it; `ChatAssumption`, `ExecutorAssumption`, `StoreAssumption` and
`PilotAssumption` bound nothing but say that caps and counts are numbers, the
first also that `Text` and `None` are no codes.
`ContentAssumption` of `WorkflowContracts` says that what is admissible is
content, that of `ContentConsent` that a content is a sequence of pieces;
`InputAssumption`, that what hosts offer the journal are entries;
`EvidenceAssumption`, that counts are numbers. `ScalarAssumption` places the
surrogates, high before low, below the first scalar that needs a pair and above
those that are written escaped; `LargestAssumption` takes the limit of numbers for
a numeral without a leading zero. `LimitsAssumption` says that the limits of the
codec are natural numbers, `TextAssumption` that what texts are continued with
are tokens, characters and units. `NullAssumption`,
`CodeAssumption` and the null parts of the others say that `None` is none of the
values it stands beside.

### Only model-checked

* Liveness, `EveryRunReports`, `EveryCallReturns` and `EveryChatReturns`: the proof
  system does not reason about fairness and ENABLED. Of the first, `RunsAreFinite`
  proves that no run goes on for ever. The other two have no such theorem, since
  a server or a child may send any number of empty pieces, which the models do
  not count as steps.

Every other property of a run is stated by a theorem.

## 5. Not modelled

* The field-by-field validation of tasks, candidates, configurations and entries
  (`copy`, `configOf`, `createTaskSpecification`), freezing and serialisation:
  pure, without interaction, well covered by the repository's tests. The models
  start from their verdict.
* `SIGNAL_INVALID` (line 127): a signal that throws from `addEventListener`.
* The text of a consent grant, the options of the executor and of the chat
  adapters, the fields of a child's evidence other than the content it names, and
  whether a model's response is acceptable JSON: verdicts on data, taken as such.
* The capture of a typed array and the decoding of UTF-8 in the codec, and the
  normal form of keys, which is a set of keys here: library functions on data.
* The benchmark's fixtures, scoring and charts: straight-line evaluation.
* Probes in Swift, scripts, charts and documentation pages: external programs,
  packaging and presentation.

The store's second look at the destination is no atomic guard against another
writer, and the repository does not claim one; `ReplacesOnlyExpected` is
therefore checked for a host that makes one call at a time.

## 6. Plan

What is left, in this order:

1. `JournalHost`: the journal over the store with restarts, composed from
   `RunJournal` and `JournalStore`, implementing an abstract log that never loses
   an entry whose write was durable. Both halves are proved: `DurableSurvives`
   gives the text back, `ReopensComplete` the history. In
   the repository a host that joins them is described in the README and played
   by the tests only, so the composition would model their usage.
2. The field-by-field validation of the contracts, if it ever gets state.
