# r3-doctor: a TLA+ verification

r3-doctor is a command-line program that reads a repository, computes a report
about its risk, and optionally keeps records beside the code it analysed and
asks a language model for an opinion. Three things in it are hard to get right:
files that several invocations share without a lock, calls of an external
process that may hang, talk too much, die or ignore being told to stop, and
reports whose parts (evidence, scores, changes, gates) are computed apart and
must agree, although the repository, its configuration and the clock move
between one command and the next. This project models all three.

Paths below are relative to the implementation, `src/src/` of the checkout, unless they
begin with `docs/` or `tests/` (beside it).

## 1. The system

### Components, their state and their operations

| Component | Code | State it keeps | Operations |
|---|---|---|---|
| Trend store | `persistence/trend-store.ts`, `retention.ts` | `.r3-doctor/trends/history.jsonl`, one line for each recorded scan | `appendTrend` (retention, previous entry, append), `loadTrendHistory` |
| Baseline store | `persistence/baseline-store.ts`, `retention.ts` | `.r3-doctor/baselines/<hash>.json`, one manifest for each (input, commit) | `saveBaseline` (retention, write), `loadBaseline` |
| Storage boundary | `persistence/storage-boundary.ts`, `snapshot-integrity.ts`, `shared/atomic-write.ts` | the identity (device, inode) of a validated directory, a temporary file | resolve, assert, write and rename, append |
| Validation store | `validation/storage.ts`, `outcome.ts`, `preflight.ts`, `status.ts` | `repository-id`, `snapshots/<sample>.json`, `outcomes/<sample>.json` | `saveValidationSnapshot`, `saveValidationOutcome`, status |
| ACP client | `semantic/acp/` | connection, child process, cancel promises, timers, received text, seen tool calls | `inspect`, `discoverModels`, `oneShotPrompt` |
| Security text provider | `llm/acp-text-provider.ts` | deadline timer, abort controller, temporary directory, tracked processes | `complete` |
| Security add-on | `addons/security/` | a plan of requests, a budget, an assessment | plan, filter, prompt, validate, decide |
| Intake | `intake/`, `adapters/git-provider.ts` | the snapshot: files, issues, Git identity | `createRepositorySnapshot` |
| Commands | `cli.ts`, `commands/` | none | scan, diff, check, trend, validation, setup |
| Gate, trend analysis, comparison | `operations/`, `comparison/` | none | `evaluatePolicy`, `analyzeTrend`, `compareReports` |
| Assessment, recommendations | `assessment/`, `recommendation/` | none | clusters, axes, score, confidence, rules |
| Calibration | `calibration/`, `validation/evaluate.ts`, `shadow-score.ts` | none | pairing, metrics, promotion |
| Semantic stage | `semantic/` (except `acp/`) | none | provider choice, prompt budget, response parsing |
| Setup and profile | `setup/`, `operator/` | configuration and profile files | the wizard, `saveOperatorProfile` |
| Evidence and plugins | `evidence/`, `plugins/`, `pipeline/` | none | pattern matching over source text |
| Reporting, texts, schemas, helpers | `reporting/`, `i18n/`, `schema/`, `shared/` | none | formatting, parsing, redaction |

How they interact. A command takes a snapshot (intake), runs the diagnosis
(evidence, semantic stage, assessment) and prints the report. With the recording
options the scan command then calls the validation, baseline and trend stores, in
that order. Each store first compares the Git state with the snapshot's and
resolves its directory, and asserts before and after each write that the
directory is still the one it resolved. The semantic stage and the security
add-on call the ACP client, which talks to a child process over its standard
input and output; the security provider adds a deadline and the removal of its
working directory. Two invocations of the program meet only in the file system.

### What is hard, and what correctness means

- *Shared files without locks.* All three stores read, decide and rename in
  separate awaits. Readers must never find half a file, whoever dies. A rewrite
  must not change more than it says when nobody interferes, and nothing may be
  written into a directory that was not validated. Exact histories
  (a log of entries, a map of manifests, immutable samples) need one writer at
  a time, and it must be true that one writer at a time is enough.
- *A repository that moves.* HEAD, the work tree, the clock and the storage
  directory itself change between any two steps.
- *A process that does not cooperate.* The provider may never answer, answer
  after it was cancelled, exceed its limits, ignore signals, or stop reading.
  Every call must return, must leave nothing running or lying about that it can
  help, must tell the agent exactly once, and may call an answer complete only
  if it is.
- *Deadlines.* A budget is computed once, and spent in several stages.
- *Claims about a moment.* A snapshot names a commit although it is read file by
  file over seconds; a report says what was recorded although a recording may
  fail after it was printed; setup says what it wrote although it may be cut
  short between any two of its writes.
- *Results computed twice.* A diff is redacted where its baseline was redacted
  before; the gate derives from the calibration file, separately and later, what
  the report derived; a candidate model is judged by the last of three builds.
- *Budgets of several kinds at once.* What is sent for a security assessment is
  bounded in requests, units, files and bytes, and every text added changes the
  size of others. What does not fit must be counted, once, and what is sent
  without its context must say so.

The properties that make each component correct are those of section 3.

## 2. The modules

| Module | Models | Depends on |
|---|---|---|
| `TrendStore` | concurrent `appendTrend` invocations on one history | - |
| `TrendLog` | what the history promises: an append-only log with expiry | - |
| `TrendAlone` | the store under an operator who may run one scan at a time, and the refinement | `TrendStore`, `TrendLog` |
| `BaselineStore` | concurrent `saveBaseline` and `loadBaseline` on one directory | - |
| `BaselineMap` | what the directory promises: a map with expiry | - |
| `BaselineAlone` | the same for saves, and the refinement | `BaselineStore`, `BaselineMap` |
| `ValidationStore` | concurrent recording and observation of samples | - |
| `AcpClient` | one call of the ACP client against a free agent | - |
| `SecurityTextProvider` | `complete`, composed with the client it starts | `AcpClient` |
| `SecurityPlan` | `buildSecurityPlan`, and what the answers to its requests cover | - |
| `Intake` | `createRepositoryIntake` between changes of the working tree | - |
| `SemanticStage` | execution policy, candidate files, prompt budget, answer, findings | - |
| `ScanCommand` | `runScanAction` | `Intake`, `SemanticStage` |
| `SetupCommand` | `runSetup` beside other commands, the operator profile | `ScanCommand` |
| `Evidence` | import graph and deterministic signals | - |
| `Assessment` | axis scores, clusters, repository score, the report | `Evidence` |
| `Comparison` | redaction, fingerprints, signal changes, blast radius, the diff report | `Assessment` |
| `Calibration` | the dataset, its quality, the policy gate | - |
| `Evaluation` | ROC AUC, the checks of a promotion, the comparison of score models | - |
| `Diagnosis` | scan, diff, gate and calibration commands between edits | `Comparison`, `Calibration`, `Evaluation` |
| `MCTrendStore`, `MCBaselineStore`, `MCValidationStore`, `MCSecurityPlan`, `MCCommands`, `MCDiagnosis` | instances and initial states | the module named (the stores' with `Alone`); `MCCommands` is of `SetupCommand` |
| `TrendStore_proofs`, `BaselineStore_proofs`, `ValidationStore_proofs`, `SecurityTextProvider_proofs`, `SecurityPlan_proofs`, `SetupCommand_proofs`, `Diagnosis_proofs` | invariants and theorems; those of the client are with the provider, those of intake and scan with setup | the module named, `TLAPS` |
| `SumLemmas` | lemmas about sums over finite sets, least numbers and minimal sets | `TLAPS` |

Definitions keep the names of the code where they stand for a function, and one
action is what the code does between two awaits: JavaScript runs to completion
between them, and other processes, timers and messages come in between. A
process of a store module is one invocation; its `pc` names the operation it
performs next and its `mem` holds its locals. Definitions that end in a phrase
such as "for a mutation" in their comment are faulty variants kept beside the
original to show that a property notices the fault; nothing else refers to them.

**TrendStore.** A file is the set of its lines with the position at which each
was appended, whether its text ends with a newline (`nl`), and whether its
write came to an end (`whole`). `version` counts replacements; it is a history
variable that lets properties say "nobody interfered". `Guard` stands for all
calls of `assertSafeStorageDir`, each at its own `pc`. `RetainRead` to
`RenameTemp` and then `LoadPrevious` to `RenameTemp` are the two
read-modify-write windows; both go through `atomicWriteFile` (`OpenTemp`,
`FillTemp`, guard, `RenameTemp`, guard), whose `catch` is `Fail`. `Throw` is any
other awaited call that rejects, `Crash` a kill. `LoseDirectory` removes the
directory with all in it; a directory made in its place has some inode, possibly
the same.

**BaselineStore.** Files are entries under names; a name is a key (what
`baselineEntryFileName` makes of input and commit) or a stray. An entry is
valid, of a foreign version, refused by the schema, or not JSON. The retention
loop is one `stat`, `parse`, guard, `rm` and guard for each file; the load one
guard, `lstat` and `read` for each. The order in which files are visited is left
open: it depends on names.

**ValidationStore.** The three kinds of file, the preflight, and
look-decide-rename for each of them. A rename is one step here, since the file
system part is that of `TrendStore`. A positive outcome of any kind is
`regression`. Two constants say what the operator does not run at the same time:
`Exclusive` two recordings, `OneObserver` two reports of outcomes. Nothing in the
program sees to either.

**AcpClient.** `pc` is the await the client is in: `initialize`, `newSession`,
`setMode`, `setModel`, `prompting` (waiting for updates), `answering` (the stop
update was taken, the answer is awaited), `cancelling` (the awaited cancel),
`closing` (the `finally` of `withConnection`). Each race of the code is a choice
among the enabled actions: an answer, a refusal, the timer of the stage, the
connection's error. Time is ticks; `Urgent` says what a tick does not overtake,
that is the client's own ready steps and due timers, so a timer fires on time
and a bound on time means something. The agent answers, refuses, sends updates
and exits as it likes. `StdinFlows` says whether a running agent reads what is
written to it; `settles` whether the connection settles an aborted request
without the agent's help, which is the SDK's business: both cases are checked. What an error of the agent
says decides its reason (`Worded`, of `mapFailure`): a refusal may read as a timeout
or a cancellation that nobody asked for.

**SecurityTextProvider.** `wpc` is the await of `complete`; while it is
`client`, the steps are those of `AcpClient`, whose `Connect` happens in the
same step as the last check of the caller's signal, as in the code. The caller's
abort and the deadline reach the client through one controller. The removal of
the directory may reject, and then `complete` does (`answer = "thrown"`).

**SecurityPlan.** One iteration of the loop over the units is one action, and
the way it ends tells which: `SkipFull`, `SkipFiltered`, `PlaceWhole`,
`PlaceAlone`, `Reject`. `Fitting` is the set of requests for which `tryPlace`
does not `continue`, `Place` takes the first of them. Texts are their sizes: a
unit line grows with the context snippets and limitations it names, a snippet
counts once in a request. What is not computed here is an input: the units by
priority with their relations, the verdict of the outbound filter on each, what
the send scope lets out. `Answer` is `validateSecurityResponse`, reduced to the
question which units of the request count as evaluated.

**Intake.** A path is a number, in the order in which the walk meets it, so the
entry that `walkFiles` takes next is the least of the `agenda` (what the calls
on the stack have listed and not yet taken). An inspection of Git is three
actions, `ReadHead`, `ReadStatus`, `ReadTracked`, each a command of its own; the
walk between the two inspections is one action for each entry (`EnterDir`,
`SkipEntry`, `ReadSource`, `ReadFails`, `Truncate`), and `CompareGit` compares.
`Edit` and `Commit` may come between any two of them. HEAD only moves forward, by
commits; a content is a version. `resynced` is a history variable: the files that
differed from HEAD and then did no longer. `Uninspected` is any failure of a
command of an inspection; `WalkFails` a `readdir` or `lstat` that rejects, which
refuses the intake, unlike a file that cannot be read (`ReadFails`). The files that
are excluded, linked or of another extension are one kind, skipped.

**SemanticStage** has no state: `ParseLlmExecutionPolicy` is the table of options
and profile, `BuildBudgetedSemanticPrompt` the packet of files with the note on
those left out, `Analyzed` what enters a report of an answer. Sections of a
prompt are their sizes; the note is a fixed text (`NoteBytes`) and the digits of a
number (`Digits`, in base `Radix`, 10 in the code), so it grows when the loop that makes
room for it leaves out one file more. An answer is the sequence of its bracketed pieces; a
finding may bring an id of its own or none (`Named`), and `Repeated` is what the
schema of a report refuses. The provider itself, which is `AcpClient` underneath,
answers freely here.

**ScanCommand.** One action for each stage of `runScanAction`. The recordings are
the operations of the three stores, of which only success, refusal and
failure matter here: `RecordOne` takes them in the order of the code, and
`AfterFailure` says which are inside a `try`. `Diagnose` ends in an error when the
plugins refuse (`Evidence` says when) or the report fails its schema.

**SetupCommand.** `runSetup`, with its questions or without: what it looks at
(`LookAtConfig`, `CountBaselines`, `CheckEligible`) and what it writes
(`WriteConfig`, `TruncateProfile` and `FillProfile`, since `writeFile` opens the
profile in place) are separate actions, with crashes and failures in between, also
after the configuration was renamed and is loaded again. A profile that parses is a
record; one that does not is `Torn`, of which only the place of its last visible
character matters, as a body written from the start of the file covers the rest
exactly if it reaches that place (`Overlaid`; `BodyEnd` is where each body ends).
Where it does not, more than white space follows the closing brace and the file does
not parse. A body cut short is taken to be unreadable, also over the rest of another
one. `shared` notes that two setups were between truncating and writing at the same
time. The scan of a setup is the same `ScanCommand` action sequence.

**Evidence, Assessment, Comparison.** A file is its imports and its measures (lines,
nesting, churn, barrel); the import graph, the cycles, fan-in and fan-out, the
coverage by tests, the clusters, the scores with their rounding, and the
comparison are computed as in the code. A search (`Reach`) goes in waves, as many
as can find something new. `findImportCycles` has every walk on its stack
that does not meet itself (`Walks`); a cycle is the part of a walk from the file
that it meets. A redacted path is the negative of its number. The axis confidence is left out; the repository's confidence is kept.
The logarithms of breadth are a table in thousandths.

**Calibration, Evaluation.** A calibration file is a set of records and the
conditions it satisfies; a corpus is a set of cells, each of `n` equal samples.

**Diagnosis** puts the commands between edits of the repository, of its
configuration, of the policy and calibration files, and ticks of the clock.
`GatePolicy` and `GateDiagnose` are the two loads of the policy; `GateDiagnose`,
`GateQuality`, `GateEvaluate` the three of the calibration, any of which fails on a file
that is `Malformed`, as do `Scan` and `Diff`, which state the quality of the score; the three
`Compare` actions the three builds of a comparison, each of which reads the clock.
An answer is one that `validateSemanticFindings` lets through (`Finding`).

## 3. What is checked

Runs that must pass:

| Run | Question | Properties |
|---|---|---|
| `TrendConcurrent` | Two scans race; reads fail, processes die, HEAD moves, the directory is lost. What survives? Is one scan at a time enough for an exact log? | `TypeOK`, `HistoryNeverTorn`, `CurrentCopyIsLogStep`, `BaseIsPredecessor`, `RenameIntoValidatedDir`, `ImplementsTrendLog` |
| `BaselineShared` | A save and a load share a directory that may be lost, with files of all kinds. Is one save at a time enough for an exact map? | `LoadsParse`, `LoadedIsNewest`, `RemovesWhatItChecked`, `ImplementsBaselineMap` |
| `ValidationLedger` | Recordings one at a time and reports of outcomes one at a time, the two side by side, each stopping anywhere | `OutcomesFitSamples`, `OneIdentity`, `SamplesImmutable`, `OutcomeOnlyReplaced` |
| `AcpCalls` | Every operation against every agent that reads its input | `CutPromptCancelledOnce`, `ReturnedMeansStopped`, `OkIsComplete`, `PromptOnlyConfigured`, `Returns` |
| `SecurityCalls` | A call with a deadline, a slow preparation, an abort at any time, an agent that obeys or not | `DirectoryOutlivesProcess`, `FinishesInReserve`, `CancelledNeverSpawns`, `CallReturns` |
| `SecurityPlans` | Every plan over three units that share context, under 54 combinations of limits | `RequestsWithinPolicy`, `TotalWithinPolicy`, `EarlyRejectIsSafe`, `CoverageAddsUp`, `ContextSentOrDeclared` |
| `Commands` | Scans and setups on one working tree that others edit and commit, with faults. What may a snapshot, a prompt, a report claim? | `CleanSnapshotIsCommit`, `SnapshotIsComplete`, `ScanTellsWhatItRecorded`, `PromptWithinPolicy`, `SetupReportIsTrue`, `SettingsSurvive` |
| `Diagnosis` | Repositories edited and reconfigured between commands: do evidence, scores, diffs, gate and promotion agree with what they are about? | `EvidenceMatchesGraph`, `ScoreDropHasAReason`, `ScoresFitSchema`, `DiffIsExact`, `GateNeedsCalibration`, `PromotionIsEarned` |

Runs that show a disagreement between the code and what the repository says of it:

| Run | What TLC finds |
|---|---|
| `ValidationOutcomeRace` | two observers of one sample find no outcome; the second overwrites what the first reported, without `--replace`, and says "created" (`validation/outcome.ts:118`); the design says that another content is never written over and the exit code is 2 |
| `ValidationGitAfter` | HEAD moves after the preflight and the sample is stored all the same (`validation/storage.ts:98`); the specification says the state is verified before and after the write |
| `AcpStdinBlocked` | after the hard limit the client awaits the write of its cancel without a timer; an agent that lives but no longer reads keeps it for ever (`semantic/acp/acp-client.ts:487`) |
| `SecurityStaleBudget` | the deadline timer runs for the budget computed before the preparation, so a call ends later than `deadlineAt` by the time the preparation took (`llm/acp-text-provider.ts:132`) |

*One writer at a time* is not a lock of the program. It is the operator's
obligation (`docs/verification/ROADMAP-TRACEABILITY.md`: stop concurrent
persistence commands), and the runs show what it buys. In `TrendAlone` and
`BaselineAlone` the variable `alone` divides the behaviours: in one half
writers run one at a time, over readable files and a directory that stays, and
the store implements its abstract specification; in the other they race, and the
other properties must hold all the same. `ValidationStore` has the constants
`Exclusive` and `OneObserver` for it. Without them, two appends lose an entry, a
rewrite by retention loses an entry appended in between, a save that began earlier
replaces a newer baseline, two first recordings draw two ids, and a second recording
or outcome of a sample replaces the first. `ValidationOutcomeRace` shows the last of
these, the others are below; of two appends, two first ids and two saves at the same
time no text of the repository says what should happen.

What the larger properties say, and what they do not.

- `CleanSnapshotIsCommit`: two equal inspections do not show that nothing changed
  in between. They do show that what was read of a clean snapshot is what the
  commit holds, except for a file that left the commit *and came back* before the
  second inspection ended; the exception is real, and the property names it.
- `SnapshotIsComplete` compares with the files that were in the tree and in HEAD
  all along; a file that comes and goes during the walk may be missed.
- `ScanTellsWhatItRecorded`: the recording of validation is inside a `try`, the
  other two are not, so a baseline that fails skips the trend, and the error of
  the validation recording is reported only if neither of them throws. The exit
  tells the truth all the same.
- `SettingsSurvive`: the profile is rewritten in place, so a reader may find half
  of it, and two setups that rewrite it at the same time may leave it so for good: the end
  of the longer body sticks out under the shorter one (`operator/profile.ts:50`), both end
  without an error, and every later command refuses the file. The property says that
  nothing else makes it unreadable, and that no setting is ever silently dropped.
- `OutcomeOnlyReplaced` holds while one outcome is reported at a time, and
  `ValidationOutcomeRace` shows the same property violated by two observers.
  `SamplesImmutable` needs one recording at a time in the same way. That the other
  three properties of the ledger hold of observers at the same time too is proved.
- `EvidenceMatchesGraph` compares what the searches and walks of the code find
  with `Beyond`, the least set that is closed under the imports.
- `ScoreDropHasAReason` asks that some product remains. It must: a finding may
  name a file in which nothing was found and rest on evidence elsewhere, and
  when the last product file is covered by a skip root, its breadth is 0
  (`assessment/score.ts`: `computeBreadth`) while the evidence and the finding stand.
- `ScoresFitSchema`: nothing clamps the sums of a score, only the breadth has a cap; a
  score out of range would fail the schema of its report and so the command.
- `DiffIsExact` looks at every diff report after redaction, in which a baseline
  was redacted when it was stored and the rest now; a deleted file is a virtual
  node of the graph (`commands/diff.ts:49`), and what imported it must still show.
- `GateNeedsCalibration` relates two derivations of the same fact that are
  apart in code and time; `undisturbed` remembers whether one of the two files was
  rewritten between its loads. If one was, the gate decides by the policy it began with
  and the calibration it read last, and the report may state another quality.
- `PromotionIsEarned` counts pairs, where the code sums ranks over ties.

A history without a final newline (left by an editor) is in `TrendStore` as
`nl = FALSE`: `atomicAppendLine` then glues the new entry to the last line
(`shared/atomic-write.ts:38`) and the next scan refuses the history.
`CurrentCopyIsLogStep` excludes such files, and no run starts with one.

### Disagreements noticed without a run

Races whose steps the modules have, and which the properties of the runs exclude
by looking at one writer at a time or at a current copy:

- `persistence/retention.ts:69`: a save examines an expired baseline and, two awaits
  later, removes whatever bears its name, also the new entry that another save has
  renamed there (`tests/persistence.test.ts:235`: "removes only expired validated
  store-owned baseline entry files").
- `persistence/retention.ts:113`: a scan reads the history to drop what has expired,
  another appends its entry, and the first writes back what it had read: an entry that is
  not old is gone (`tests/persistence.test.ts:282`: "removes only expired trend entries").
- `validation/storage.ts:125`: two recordings of one sample id with different content
  both find no file, and the later replaces the earlier
  (`docs/superpowers/specs/2026-09-08-shadow-score-validation-design.md:209`: a
  different content is a `ConfigError` and does not overwrite).
- `semantic/provider.ts:97`: a provider that answers with an id of its own twice passes
  `validateSemanticFindings`, and the report with its findings fails the schema
  (`schema/report.v1.ts:278`) outside the `try` (`assessment/risk.ts:192`), so the scan fails
  (`docs/superpowers/specs/2026-09-06-roadmap-completion-design.md:128`: a failure of the
  provider does not hide the scan). `ScanCommand` and `EvidenceMatchesGraph` have it.

The others are between texts and code read while modelling; none changes a state that
a property here is about.

- `operations/trend.ts:57` takes the first entry as the start of a degradation,
  whatever came after it (`docs/superpowers/specs/2026-09-06-roadmap-completion-design.md:208`).
- `intake/analysis-context.ts:30` leaves the diagnostic skip roots out of the
  fingerprint of the context, which ADR-0004 (line 18) calls part of it; so a
  diff compares across a change of skip roots. `Comparison` has the fingerprint
  of the code.
- `setup/run.ts:113` computes the next steps before the baseline is saved;
  `setup --dry-run` may still write the operator profile (in `SetupCommand`,
  `dry` guards the configuration only).
- The dry run of the semantic stage ignores the recording options
  (`ScanCommand`: `IntakeEnds`), and `diff` parses `--format` only after the diagnosis.
- `cli.ts:275` loads samples and outcomes one after the other, so an outcome
  recorded in between seems to refer to a missing sample.

### Bounds

- *Stores.* Two processes are enough for every race here: each is about one
  process overtaking another between two of its steps, and no step waits for a
  third. The histories found at the start hold an entry past its retention, one
  exactly at the cutoff, and one that does not parse; the baseline directory a
  valid, a foreign, a refused and a broken file, and a copy under a user's name.
- *Clock.* Days, with a retention of one day. `MaxTime` 2 lets an entry recorded in
  the run expire in it. While scans race the clock stands still (saves: moves
  once), as the loss of the directory already changes what a stale copy is worth.
- *Losses.* One loss of the directory; in the trend run two inode numbers: the
  new directory may or may not have the old inode.
- *Client.* Three updates (a text at the limit, one beyond it, or two tool calls
  and the stop), a limit of one byte, two tool calls, setup and idle timers of
  one tick, a hard one of two, so that either prompt timer may be first.
- *Plan.* At most two requests of two units each: the third unit has to choose
  between an old request, a new one and none. Limits are tight, just enough and
  loose; contexts overlap, so a snippet is shared, sent again, or left out.
- *Provider.* A deadline of 5, a reserve of 2 and a preparation of up to 1 tick; stage
  timers later than the budget, as in the code. `MaxClock` is 20, which no
  behaviour reaches.
- *Commands.* A tree of two directories, four sources (one of them ignored by Git),
  a text and the configuration; a limit of three files, so a walk of the whole
  tree may be full in the middle of a directory; units that overlap
  (`twice`) or name a missing root. `budget` bounds edits, commits and faults
  together: two under a lone scan (a file must leave the commit and come back for the
  exception of `CleanSnapshotIsCommit`), one where two commands meet. The product
  of repository, options and setups is out of reach, so `scenario` varies them one
  at a time: the repository and unit under a lone scan; options and answers; the
  choices of a lone setup; a setup beside another command. The options make
  prompts in which everything fits, nothing does, or just not the note; with `Radix` 2
  the note grows from one file left out to two. The bodies of two of the
  profiles (`BodyEnd`) differ, so that an overlapping setup may write the
  shorter over the longer. The answers have findings with ids of their own, repeated ones among
  them.
- *Diagnosis.* Four repositories of six paths (three product files, a test, a
  script, a Python file): a chain, a tangle with cycles, one with deep nesting and an
  import that cannot be resolved, one with the same import twice. Two changes,
  among them the skip roots, exclusions and redactions of two of the paths. Score
  models are tried on corpora that order, tie or invert the outcomes, with two or
  three repositories and a sample that falls due between the builds. Policies and calibration files,
  a malformed one among these, are rewritten between any two loads of the gate. Again
  `scenario` varies one at a time: `MCInit` is `Init` with what the scenario leaves open.

### Fairness

`AcpSpec` assumes weak fairness of the client's own steps (the event loop runs
what is ready and timers fire), of the write to the pipe (`Written`; disabled
for ever when `StdinFlows` is false) and of the clock. `SecurityTextProvider`
assumes the same of its own steps. Nothing is assumed of the agent: it need not
answer, obey or exit. The other modules state safety properties and need no
fairness: they have no loop that waits for another process.

`CHECK_DEADLOCK` is off everywhere: invocations and calls end.

## 4. What is proved

Each theorem holds for every value of the constants that satisfies the named
assumption of the module; TLC evaluates the assumptions in the runs. The
invariants were checked by TLC on the instances above before they were proved.

### TrendStore

For any number of processes, inodes, Git states, initial histories, any retention
time and any bounds, with or without failing reads (`ConstantAssumption`: sorts; the
histories found at the start were completely written):

| Theorem | Property |
|---|---|
| `TypeCorrect` | `TypeOK` |
| `NeverTorn` | `HistoryNeverTorn` |
| `ValidatedDir` | `RenameIntoValidatedDir` |
| `CurrentCopyLogs` | `CurrentCopyIsLogStep` |
| `PredecessorIsBase` | `BaseIsPredecessor` |
| `TrendStoreIsLog` | `ImplementsTrendLog` (of `AloneSpec`) |

The argument. None of the properties is inductive: that a rename is right
depends on what the process read several steps before. `IInv` adds to `TypeOK`
and `HistoryNeverTorn` four facts about each process. `VersionInv`: what it
remembers of `version` is not in the future. `TempInv`: from the guard before
the rename on, its temporary file, if it is still there, holds exactly the text
it computed, and then its directory is the validated one, because a
temporary file goes with its directory. `CopyInv`: between reading and renaming,
if the file was not replaced since, the computed text is the retention or the
append of what the file still holds. `BaseInv`: likewise for the remembered
predecessor. There is one lemma for each action (`*IInv`), with
`Frame` for what an action leaves alone and `Replaced` for actions that replace
the history and thereby outdate everyone's copy. `StepIInv` collects them, and
each theorem about a rename is `RenameStep` under the invariant.

The refinement. `AloneInv` adds what one scan at a time gives: no two are under
way (`OneRuns`), so what the one that is remembers of the file is what the file holds
(`UpToDate`); the history ends in a newline; and its entries are of scans that are past
their append (`EntriesPast`), so what is appended is new. A replacement of
the file is then an `Add` or an `Expire` of `TrendLog`, every other step a stutter.

### BaselineStore

For any number of saves and loads, any entries, retention, losses and clock
(`BaselineAssumption`):

| Theorem | Property |
|---|---|
| `TypeCorrect` | `TypeOK` |
| `LoadsOnlyWhole` | `LoadsParse` |
| `RemovesChecked` | `RemovesWhatItChecked` |
| `LoadsNewest` | `LoadedIsNewest` |
| `BaselineStoreIsMap` | `ImplementsBaselineMap` (of `AloneSpec`) |

`IInv` is `TypeOK` with three parts. `RemoveInv`: as long as the file a save is about
to remove is the one it looked at (`version` is what it remembers), the file has
expired, and after the parse it is the store's own. `WholeInv`: only a file that was
there at the start (its version is 0) may be malformed, and a temporary file that
is about to be renamed is whole. `ReadInv`: an entry that a load has not read yet
it still will, or it has found what the file holds, or the file was replaced since
the load began. `LoadedIsNewest` speaks of the entries that stayed, for which the
last case does not arise.

The refinement needs one save at a time. `Informed` says what the save that runs knows: no
file is newer than its report, and every file that has expired it has removed or is
about to. `Signed`: its temporary file is the report of its own key and time. So a
removal is of a stale file (`RemovesStale`), and when the report is renamed nothing
stale is left (`RenamesReport`).

### AcpClient and SecurityTextProvider

For any agent, any limits and timeouts, any order of aborts, deaths and timers
(`AcpAssumption`):

| Theorem | Property |
|---|---|
| `TypeCorrect` | `AcpTypeOK` |
| `CancelledOnce` | `CutPromptCancelledOnce` |
| `StoppedOnce` | `ReturnedMeansStopped` |
| `CompleteResult` | `OkIsComplete` |
| `Configured` | `PromptOnlyConfigured` |

`IInv` relates `pc` to what was done on the way there: `CancelInv` (at most one
cancel, and one for a prompt that was cut), `PlaceInv` (which requests are behind
it), `StopInv` (the process is stopped
once, and before the call returns), `TextInv` (what was said is
what was retained and what still waits). `ImplementsClient` then shows
that every step of the composed provider is a step of the client or leaves it
alone, so the client's theorems hold of the call that `complete` makes. On top of
it, for any deadline and preparation (`SecurityAssumption`):

| Theorem | Property |
|---|---|
| `DirectoryRemovedLast` | `DirectoryOutlivesProcess` |
| `WithinReserve` | `FinishesInReserve` |
| `NeverSpawnsCancelled` | `CancelledNeverSpawns` |

`WithinReserve` assumes that the reserve is at least two ticks, one for TERM and one
for KILL, which the constants of the code satisfy; with less it is false. Its
invariant `CallInv` adds `DirInv` and `TimeInv` to the client's `IInv`. `TimeInv` is a ledger of
the time: after the deadline fires, each stage of the shutdown has its own bound
on the clock, the last of them two graces later.

### ValidationStore

For any number of recorders and observers, any ids, Git states, payloads, horizon
and bounds:

| Theorem | Property | Needs `Exclusive` |
|---|---|---|
| `TypeCorrect` | `TypeOK` | no |
| `OnlyReplaced` | `OutcomeOnlyReplaced` | no, but `OneObserver` |
| `OutcomesFit` | `OutcomesFitSamples` | yes |
| `SamplesShareId` | `OneIdentity` | yes |
| `SamplesStay` | `SamplesImmutable` | yes |
| `StatusAdvances` | `StatusOnlyAdvances` | yes |

The assumption is `ValidationAssumption` of `ValidationStore`, and where the
table says so that recording scans, or observers, run one at a time. There are three
invariants. `Held` holds however many run: a process that is to write a sample, an id
or an outcome has one. `TypeOK` alone is not inductive: an id or a sample could be the
value that stands for none. `Watched` adds, with one observer at a time, that the one
at work is the only one, and that one that is to rename was told to replace or would
still find no outcome, since nobody else writes any; recorders may be as many as they
like. `Ledger` adds what one recorder at a time may rely on.
`Alone`: no two record. `RecorderKnows`: what the recorder has found out (there is
no id, the id is mine, the sample has the id, there is no sample) stays true to
its write, since nobody else writes ids and samples. `ObserverKnows`: what
an observer has accepted fits the sample that is stored, because samples stay.
`OneIdentity`, `OutcomesFitSamples` and `SamplesImmutable` need each other: an
outcome fits because the sample it was compared with is still there, and the
sample is still there because the writer looked while it was alone.

### SecurityPlan

For any sources, policy, sizes of texts, number of units for a request, and any
answers:

| Theorem | Property |
|---|---|
| `TypeCorrect` | `TypeOK` |
| `Limited` | `RequestsWithinPolicy` |
| `AddsUp` | `CoverageAddsUp` |
| `ContextKnown` | `ContextSentOrDeclared` |
| `EarlyIsSafe` | `EarlyRejectIsSafe` |
| `TotalLimited` | `TotalWithinPolicy` |

The assumption is `PlanAssumption` (sorts; no unit twice among the units to
examine; a unit is not related to itself; finitely many units and paths). `IInv`
adds to the properties that every unit in a request lies behind the place in
the loop (`Behind`), so the next one is in none and the cardinality of the
selected units grows by exactly one, that the sets of units are finite, and that
`sentPaths` holds the path of every snippet (`FilesCounted`), which is what makes
the check against `maxFiles` a check of what is sent. `PlaceShape` says what
`tryPlace` changes, `PlaceKeeps` that the invariant survives it.

Bytes are sums over sets. `EstimateIsLow` compares the early estimate with the
measured bytes: the line of a unit that is there only grows with the new snippets
(`LineGrows`), the new snippets are those the request did not have, and everything else is counted
alike. For the total, `PlaceTotal` takes the request that is changed out of the sum and
puts it back (`SumAdd`, `SumRemove`).

### SumLemmas

`SumFunctionOnSet` of the community module `Functions` adds an element chosen by `CHOOSE` to the sum of
the others, by a function that is defined by recursion on finite sets. No rule
of induction over an operator is available, so the lemmas go by least counterexample: a non-empty
set of naturals has a least member (`LeastNatural`), a non-empty set of subsets of a finite set a
minimal one (`MinimalSet`), both from the well-founded order on finite subsets. From
them: the recursion has one solution (`SumsExist`, `SumsUnique`), the order of the elements does not
matter (`SumRemove`), sums are monotonic, additive and split over disjoint sets
(`SumMonotonic`, `SumPart`, `SumUnion`). The proofs about the plan, the prompt and the
score models rest on them.

### Intake, ScanCommand and SetupCommand

For any repository, units, limits, options, answers and profiles, and any number of
commands, edits, commits and faults (`IntakeAssumption`, `SetupAssumption`,
and `ScanAssumption`: sizes and limits are natural numbers):

| Theorem | Property |
|---|---|
| `CleanIsCommit` | `CleanSnapshotIsCommit` |
| `CompleteSnapshot` | `SnapshotIsComplete` |
| `RecordingsTold` | `ScanTellsWhatItRecorded` |
| `PromptLimited` | `PromptWithinPolicy` |
| `SetupReports` | `SetupReportIsTrue` |
| `ProfileSurvives` | `SettingsSurvive` |

The intakes (invariant `IntakeInv`). `CleanOK` says what is known
of each reading; it grows with each command of the second inspection. During
the walk a reading is of the commit that the first inspection saw, or its file
left that commit and came back, or it differs from HEAD, or HEAD has moved. Once
the second inspection found the same commit, HEAD had not moved; once it
found an empty status, nothing differs that is not ignored; once all read files are
tracked, none is ignored. What remains is the property. `WholeOK` says that
every steady source below the roots was read, is named unreadable, or lies below
what is still ahead. Others make it only easier: a file that was
steady may cease to be, and none becomes steady (`SteadyShrinks`). That the least
entry of an agenda exists needs induction on finite sets, for which the library's
well-founded order on subsets serves (`LeastValue`). A directory's sources are the
intersection of all closed sets of paths above it, so no recursion is
needed to say what lies below a root (`BelowUnfolds`).

The commands (invariant `Inv`). `ScanOK` is what holds of a scan
by itself: at each recording, the ones before it are settled and the ones after it
untouched. `ScanIntake` ties it to its snapshot: from the intake on the snapshot
does not change, and a recorded baseline came from one that
was not dirty. `SetupOK` and `SetupScan` do the same for a setup and the scan it
runs; `Follows` is what a setup may rely on when its scan takes a step.
`ProfileInv` says that whatever a setup is about to write still has the original
settings; it needs no order between the setups, because each of them merges into
a profile that has them, and a file that two of them wrote over each other is a whole body
or does not parse (`Overlaid`). That it parses otherwise needs one: as long as no two
overlapped, the setup that rewrites the profile is alone and finds it as it emptied it
(`OneWriter`).

The prompt (invariant `PromptInv`). The order of the files is strict and total, so every
place up to the number selected is taken (`Ranked`), by one file in scope. The loop that
fits them is a function of the number of files it has seen; by least
counterexample it never has more than the limit (`FittingFits`), and what
it took is a prefix that fits with the note or nothing (`PacketFits`). `LimitsKnown`
goes with the scan from the command line or the profile to the prompt.

### Diagnosis

For any repositories, contents, specifiers, settings, answers, policies, calibration files,
samples, and any number of edits (`FileAssumption`, `CandidatesAssumption`,
`TreesAssumption`, `PolicyAssumption`, `RedactionAssumption`: sorts, finitely many paths, null is
neither a path nor a token; `CalibrationAssumption`, `CorporaAssumption`: sorts, finite corpora):

| Theorem | Property |
|---|---|
| `CalibratedGate` | `GateNeedsCalibration` |
| `PromotionEarned` | `PromotionIsEarned` |
| `DiffExact` | `DiffIsExact` |
| `EvidenceMatches` | `EvidenceMatchesGraph` |
| `ScoreHolds` | `ScoreDropHasAReason` |
| `ScoresInRange` | `ScoresFitSchema` |

and of the algorithms, for any input that is finite, and of two diagnoses:

| Theorem | What it says |
|---|---|
| `RanksCountPairs` | the sum over ranks of `computeRocAuc`, with its treatment of ties, counts the pairs in order, ties half |
| `SearchReachesBeyond` | a search reaches its start and the least set closed under the pairs |
| `CyclesAreFound` | some cycle of `findImportCycles` holds a file exactly when the file imports itself over some imports |
| `AddedEvidenceKeepsScore` | with the same capabilities, findings and state of the provider, a diagnosis that keeps every item of another one, at least as related, and has no more products scores no lower |

The gate (`GateInv`): while nobody rewrites the policy or the calibration between its loads, the
two loads of the policy agree and the quality in the report is that of the calibration; at the end
the evaluation is that of the policy loaded first and of the calibration loaded last, which is not malformed.
`EligibleIsValidated` is the equality of the two derivations.

The promotion (`CompareInv`): the comparison is built from the corpus of the provisional one, at a
time no earlier, so no row is lost (`RowsGrow`). `RanksCountPairs` takes away the class of the
highest score, in which all samples share one mean rank, from a minimal set
for which the two counts differ.

Searches and walks. The waves of a search (`Waves`) grow, and one that adds nothing is the last; a search
that has not ended has found one more node in each wave, so the number of nodes that
pairs lead to is a bound (`WavesGrow`). For cycles, a shortest walk from a file back to itself is one that
does not meet itself before (`CutOff`), and such a walk is on the stack
after as many rounds as it has steps (`RoundsWalk`, `WalksAreFound`); in the other direction the
files of a cycle lie on each other's way (`WalkStaysIn`).

The reports (`ShownInv`): what was shown last is the diagnosis of the repository as it stands, and
the stored baseline is that of the snapshot it was saved from. Then the properties are about
the functions. `RedactTwice` and its like: a second redaction changes nothing,
since tokens are negative and paths positive; so a diff made from a redacted baseline and
redacted again passes its schema (`RedactedDiffPasses`). `DeletionShows`: the virtual nodes
keep the edges to deleted files, unless the specifier now means a new file. `RefusedForTwins` counts the
items of unresolved imports, and `CyclesShown` and `UntestedShown` rest on the two searches.

The score, bottom up. `NthMonotonic`, `PeakMonotonic`: where one set of strengths outweighs
another (for each bearer in the second there is one in the first at least as strong, different
for different bearers), each of its k-th largest strengths is at least the other's, and so is the weighted peak.
Breadth and diversity grow with what is affected, and rounding keeps the order (`AxisMonotonic`,
`RepositoryMonotonic`). What outweighs is less obvious than it looks, because items are first deduplicated
by signal and path, where several cycles may name one file. `Shaped` says why it is
harmless: signal and path determine the strength and the role (`ItemsFormed`, for each of the ten kinds
of items), so any item of a group may stand for it. For the clusters, more relations join components
and never split them (`ReachGrows`, `LinksKept`); an old component lies within a
new one, whose peak is at least as high (`ClusterKept`, `WorstKept`). A finding keeps its
cluster, since all it refers to is in both diagnoses. `AddedEvidenceKeepsScore` puts the axes and the worst cluster
together. `ScoreHolds` needs from `ShownInv` that the stored report is that of a snapshot and an admitted answer
(`Stored`), and that what the property sees redacted holds in clear: redaction is one to one on
paths, identities and findings (`RedactIdInjective`, `FindingsInClear`, `KeptInClear`).

`ScoresInRange` bounds each of these from above: a strength is at most 100 whatever the
measures of a file (`StrengthCapped`), so a peak in tenths is at most 1000 (`PeakCapped`), the breadth is
capped at half of the products, the mechanisms observed are among those that can be (`AxisCapped`), and a mean with 0.3 of
what the worst cluster exceeds it by stays below 100 (`RepositoryCapped`); rounding adds nothing
(`RoundedCapped`). Apart from the breadth, the code clamps none of these.

### Only model-checked

- Liveness (`Returns`, `CallReturns`): it needs fairness and `ENABLED`.

Every other property of a passing run is proved. Induction over data is done by least counterexample
(see `SumLemmas`), as the prover has no rule that takes a predicate; no module here has a RECURSIVE
operator: recursive functions take its place.

`StatusOnlyAdvances` and the type invariants other than that of `TrendStore` are
proved and in no run.

## 5. The plan

Done, in this order: the stores with their abstract specifications and proofs, the
client and its provider, the security plan; then the intake, the semantic stage,
the scan and setup commands; then evidence, assessment, comparison, calibration and
their commands; then the proofs about the client, the provider, the baselines
and the commands; then the refinements, the sums, the prompt, the diagnosis and its score.

What would come next, most useful first:

1. `SecurityRun`: the plan of `SecurityPlan` carried out by calls of
   `SecurityTextProvider` under one deadline; which findings survive, what the
   severity and the gate of the add-on make of an incomplete assessment.
2. The three stores themselves inside `ScanCommand`, in place of its recordings, for
   two scans of one repository.
3. `analyzeTrend` and the interventions, once it is settled what they promise.

## 6. What is not modelled, and why

- The patterns that find imports, tests and barrels in a text, the Go plugin (its
  evidence is of the kinds the Python one has), path and glob parsing: string
  functions without state.
- The findings of a security assessment, their severity and the policy that gates on
  them; `SecurityPlan` ends with what the answers cover.
- `analyzeTrend`, recommendations, interventions, `shadow-score.ts` (a weighted sum with its
  own tables) and `golden-regression.ts`: tables and single expressions of which the
  repository promises no relation that could fail. The shadow score is an input
  of `Evaluation`.
- The check command, which prints what the gate of `Diagnosis` decides in another
  format; the LLM commands, which are argument parsing around the modelled client.
- Of setup: the detection of roots, the probe of a provider, the trust check of the
  profile's path, the texts.
- Reporting, texts, schemas beyond their cross-checks, model catalogue: formatting and tables.
- Inside the modelled parts: symbolic links and permissions on the way to the
  storage directory, `fsync` (the code has none; a crash here is that of a
  process, not of the machine), the contents of a report beyond what the
  properties tell apart, the wire format of ACP, the SDK and Node themselves. An
  unhandled rejection of the prompt request before its stop update ends the
  process and is below the level of the model. A HEAD that moves backwards
  (`git reset`) during an intake is left out; it would read as another commit.
- An agent that changes its mode by itself after it was set: the code does not
  look again, and nothing says it should.
- The development harness, scripts and fixtures of the repository.
