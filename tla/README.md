# AgentLen in TLA+

AgentLen imports traces of AI agents from uploaded files into PostgreSQL and
shows what they say. A file is uploaded, a *mapping* describes how its records
become sessions, model calls and tool calls (a model provider may propose it), and
an import applies one to the other in a worker process. This directory holds models of
the parts where several processes, transactions or requests in flight meet, and of the
pure functions they rest on; the TLC configurations that check them on small
instances; and proofs checked by TLAPS.

Paths below are relative to the root of the repository; `agentlen/` stands for
`src/agentlen/`, `frontend/` for `frontend/src/`.

    tlc -workers 2 -config <run>.cfg <module>.tla     # a run of the table below
    tlapm ImportQueueProofs.tla                       # the proofs of one module

## 1. The system

| component | state it keeps | operations | hard behaviour | module |
|---|---|---|---|---|
| import queue and worker (`create_import.py`, `postgres_queue.py`, `worker.py`, `cli/__main__.py`) | rows of `import_run`: status, lock, attempts, report; in each worker the job in hand and `_stopping` | POST /imports, claim, report, release, stop, start | concurrent requests and workers, two transactions per outcome, kill between them | `ImportQueue` |
| import pipeline (`run_import.py`, `resolve_references.py`, `polars_record_reader.py`, `record_normalizer.py`) | fact and referential tables, the counters of a run | read a batch, insert its rows, commit, count | concurrent insertions of one natural key, deadlocks, a failure between batches, relaunch | `ImportBatches` |
| mapping store (`save_mapping.py`, `routers/mappings.py`) | rows of `mapping`, one per version | POST, PUT | callers who edit one version | `MappingVersions`, `MappingHistory` |
| file upload and storage (`upload_file.py`, `local_storage.py`, `upload_stream.py`) | a directory of files named by their hash, staging files, rows of `file_upload` | stream, place in a thread, insert the row | same content twice at once, cancellation of a request whose thread goes on, stop between disk and row | `FileUploads` |
| mapping proposals (`propose_mapping.py`, `refine_mapping.py`, `proposed_mapping.py`, `routers/ai.py`) | `mapping_proposal`, `mapping_proposal_message` | propose, refine, edit | a read, minutes of model calls, a write; turn indices | `Proposals` |
| agent loop (`infrastructure/ai/base.py`, `agent_tools.py`, `analysis_deadline.py`) | posts and iterations of one analysis, a deadline | post, retry, run tools, submit | deadline against answer, bounded retries | `Proposals` |
| user accounts (`register_user.py`, `login_user.py`, `logout_user.py`, `authenticate_user.py`, `client.ts`) | `users`, `user_session`, the token in the browser | register, log in, log out, authenticate | concurrent registration, expiry, purge at login, late answers | `UserSessions` |
| paths, validation, transformation (`json_path.py`, `mapping_validator.py`, `transformation_engine.py`) | none | parse, validate, evaluate | three readers of one notation, boundary values | `JsonPaths`, `MappingValidator`, `TransformationEngine`, `RecordNormalizer` |
| profile, sanitizer, preview (`polars_profiler.py`, `sanitizer.py`, `preview_import.py`) | none | profile, redact, preview a sample | order of redaction and truncation, rows that vanish | `ProfileSanitizer`, `ImportPreview` |
| import wizard (`useImportWizard.ts`, `ImportWizardPage.tsx`) | selection in the URL, displayed preview, acknowledgement, displayed run, mutations | upload, select, preview, acknowledge, launch, replace | answers that arrive after the selection has changed | `ImportWizard` |
| import assistant page (`ImportAssistantPage.tsx` and its store) | URL, draft, query cache, mutations | select, type, ask, save, refine, accept | edits and answers that cross | `MappingStudio` |
| read models, pagination (`read_models/sql.py`, `query_dashboard.py`, `routers/metrics.py`, `pagination.py`, `pagination.ts`) | none; the items loaded so far in the browser | overview, charts, replay of a point, timeline | nulls, joins, batches that commit between statements and pages | `TraceQueries` |
| import tracking page, seed command, provider adapters and prompts, HTTP schemas, errors, settings, migrations, display pages | none, or read-only | | | not modelled (section 7) |

How they interact. The pages call the HTTP API. POST /files streams a body to disk
and inserts a row. The assistant reads the profile of that file, sanitised, asks a
provider for a mapping and stores a proposal, which the page turns into a mapping with
POST /mappings. POST /imports only inserts a `pending` row; a worker process polls that
table, claims the oldest row, runs the pipeline and writes the outcome back to the same
row. The pipeline reads the file the upload stored and the mapping row the run names. A mapping
is never changed once a run may have used it: PUT writes a new version and marks
the old one `superseded`, which POST /imports refuses. The dashboard reads views over
the tables while imports write them. All shared state but the files is in
PostgreSQL under READ COMMITTED, one unit of work per request or batch; the
browser has its own state, and its mutations answer later.

What makes each part correct is the list of properties in section 4.
`PROJECT.json` lists the hazards, each at its line with the properties aimed at it,
and maps every definition to the lines it models.

## 2. The modules and the code

### Imports

**`ImportRun`** is the promise of the service about one run, as somebody who polls
GET /imports/{id} sees it: absent, pending, running, one final status. Under `Faults`
it admits one more step, `Overturn`: a status `succeeded` or `partial` that
becomes `failed` (see section 6).

**`ImportQueue`** implements it. A request of POST /imports is a READ COMMITTED
transaction split at its statements: `BeginRequest` (the reads of file and mapping),
`ListRuns` (the runs of the file), one `CheckRun` or `Refuse` per run of that list,
newest first, and `InsertRun` with the commit. `createdAt` is `now()`, that is,
the start of the transaction; `committedAt` is a history variable. The claim of
`postgres_queue.py` is `LockOldest` (`FOR UPDATE SKIP LOCKED`: the row is locked
by an uncommitted UPDATE, others skip it) and `CommitClaim`. The worker then goes
through `run_once`: `SaveReport` (the last transaction of `RunImport`, which
writes the status) and `MarkSucceeded` (the transaction that clears the lock and
writes the status again), or `ImportFails` and `MarkFailed`. `RequestStop` is the
signal handler, `LeaveLoop` the loop condition of `run_forever`, with `--drain`;
`Restart` is an operator, for compose declares no restart policy. Under `Faults` each
transaction may fail, with or without having been applied (`...Raises`: the
answer to a commit may be lost), and a process may be killed anywhere (`Kill`).
Which statements are inside the `try` of `run_once` decides where each error goes: a
claim that raises ends the process, a `mark_succeeded` that raises ends up in
`mark_failed`, a `mark_failed` that raises ends the process. `Supersede` is the
effect of a PUT on the mappings that POST /imports reads. `JobQueue.enqueue` is
called by nothing and is not modelled.

**`TraceStore`** is the promise of the pipeline: the stored keys grow by prefixes of
the files, whole records at a time, and a run completes only if it added its
whole file.

**`ImportBatches`** implements it. A batch is a transaction: `ReadBatch` takes the next
`BatchSize` records and works out the rows to insert (referentials, sessions,
model calls, tool calls: the order of `_import_batch`), each known by its place: table,
record, row of that record. `Insert` inserts the next one
`ON CONFLICT DO NOTHING`, `Commit` publishes them and adds to the counters.
A row is its natural key, the run and the record it came from. Inserting a key
that another open transaction has inserted waits for the end of that
transaction (`WaitsFor`), so two runs may wait for each other; `DeadlockVictim` is
PostgreSQL aborting one of them. `ReaderRaises` is the malformed line that ends
the iteration of `iter_batches`, `Interrupt` a lost connection or a killed worker.
What a mapping makes of a record is in the constant `Content`: each line has a
session key, names of referentials, calls with or without a declared
`sequence_index`, and whether it is counted as rejected. Blank lines are
skipped without being counted, as in `_jsonl_records`, and a call without an index takes
its position, as in `record_normalizer.py`. The queue and the batches meet in one
point: a run of `ImportBatches` is started at most once, which is
`ClaimedAtMostOnce` of `ImportQueue`.

**`MappingVersions`** models `SaveMapping`: `BeginCreate` / `RefuseName` (POST),
`BeginUpdate`, `CheckLatest`, `Supersede` (PUT), then `Insert` and `Commit`. A
transaction keeps what it wrote until it commits; `Supersede` waits for the row
lock of another one, `Insert` for an uncommitted row with the same
`uq_mapping_name_version` key, and answers 500 when that key is stored, because
nothing translates `IntegrityError` there. `base` is history: the row the writer
had read.

**`MappingHistory`** is what a save is promised to be: one step, which compares the document the caller has
edited with the one in force and puts the next version of the name in its place. `MappingVersions` implements it, with the
commit as that step; a save reads nothing `FOR UPDATE`, so that this is not in the code but follows from the row lock of the
update and the unique key of the insertion.

**`ImportWizard`** models the page /imports/new: one action per click and one per
answer. React Query's `reset` forgets the mutation it observes and does not cancel the
request, so `previewing` and `creating` keep the requests in flight apart from
`previewMutation` and `createMutation`, what the page still observes. `ForgetFile` is the
effect on `fileId`, `SelectMapping` includes the effect on `mappingId`. `patient` is the
habit of a user, fixed for a behaviour: who is patient changes nothing while a preview or a
launch is in flight.

### Files

**`ContentStore`** is what an upload is promised: a content is on disk, whole, before a row
refers to it, has one row, and neither is taken back.

**`FileUploads`** implements it. The disk is a map from paths to inodes (`entry`, `data`), as
a file that is open keeps its inode when its entry moves or goes; an inode holds chunks at places. `Begin` asks a thread to
open the staging file, `Open` is that thread, which creates the file or empties a namesake's, and `Entered` is the
handler when it goes on, inside its `try`. `Append` writes the next chunk of the
stream, `StartPlace` hands the staging file to a thread, whose steps are `Detect`, `Look`, `Drop` and
`Move`. `asyncio.to_thread` cannot stop a thread that runs, so that `Open` and those four still happen when the request is
cancelled: in the `try`, `CancelStore` unlinks the staging file meanwhile; before it, `CancelOpen` unlinks nothing, and the
thread it leaves may have opened the file, may still do so, or never start. The row is a READ COMMITTED transaction:
`FindRow` or `MissRow`, `Insert` (which waits for another open insertion of the hash) or
`LoseRace` (`ON CONFLICT DO NOTHING` met a committed row, which the repository reads and returns, and which is answered as a
new one), `Commit`. The size limit and
the client that goes away are one failure of the stream, `StreamFails`. A staging name is a pid and the `id()` of
a stream, which Python uses again when the stream is gone (`StagingOf` gives two requests one
name, `NameIsFree` says that the streams do not live together). `Crash` ends the process and leaves the files.

### Proposals

**`Proposals`** is the server side of the assistant with the agent loop in it. `BeginPropose` and
`BeginOn` start a request, `ReadProposal` and `ListMessages` are the reads of a refinement,
`Analysing` is the time of the provider: `RetryPost`, `AskTools`, `RunTools`, `ModelAnswers`,
`OutOfIterations` and `Deadline`, which also fires while tools run. The writes
are one transaction: `AddUser` computes `max(turn_index) + 1`, `InsertUser` waits for another
uncommitted row of that index, `TurnIsTaken` is the unique constraint, `Update`
overwrites the document, `AddAssistant` appends the reply, `Commit`. A PATCH reads and writes back
in two statements. `RecentMessages` is the cut of the conversation at `MaxTurns`.

**`MappingStudio`** puts the page in front of it: one browser tab (`PageNext`), whose requests
it answers later (`ProposeArrives` ...), and another client (`OtherRefines`, `OtherPatches`) on the same
proposals. `Synced` is the effect on the URL, with the reset of the draft when the proposal changes.

### Pure functions

**`JsonPaths`** gives the path notation twice, as the profiler writes it (`PathSegment`, `ProfilePaths`) and as
the mapping reads it (`ParsePath`, `Resolve`). A name is a sequence of characters, for quoting is what can go
wrong. **`MappingValidator`** is `validate` with the operator table, where a parameter may be of a wrong shape (`Malformed`) or
JSON null (`NullParameter`), which the checks let through but for the group of a `regex_extract`;
**`TransformationEngine`** evaluates every operator, coerces to the type of the target field and numbers the
rows; **`RecordNormalizer`** builds session and calls and reports what it could not build;
**`ProfileSanitizer`** redacts and truncates. A text is a sequence of words, a float a number of thousandths, a secret a
sequence of words that only the whole of is recognised, the number that keeps two keys apart a row of strokes. **`ImportPreview`** composes them over files: a
mapping is refused or accepted, a sample is read record by record, and the answer is what the
page shows.

### Accounts

**`UserSessions`** models register, login, logout and an authenticated GET, statement by
statement, over `users` and `user_session`. A login deletes the expired sessions in the
transaction that creates its own (`Purge`); rows deleted and not committed are locked (`Free`). `Settle` is
the browser: `KeepToken`, `DropToken`, and `SignsOut`, an UNAUTHENTICATED answer that
drops whatever token is stored. `Tick` is the clock, `Restart` a restart of the API.

### Read side

**`TraceQueries`** has the views as functions of the committed rows: `SessionMetrics` is `v_session_metrics`,
`SessionPredicates` the shared WHERE, `Totals` the overview, `PointsPerDay`, `PointsPerTool`, `PointsPerModel` and
`QualityPoints` the charts, `Replay` the filters a point carries (`point_filters`), `SessionList` the list they
are replayed on. An aggregate over nothing is `Null`, and the averages and ratios are kept as fractions. The timeline is a
process: `Open`, then per page `SelectModelCalls` and `SelectToolCalls`, two statements that see two
snapshots; the second sorts, cuts the window and decides, as `loadAllPages` does, whether to
go on. `Commit` is a batch of `ImportBatches` seen from outside.

The modules `MC*` only give TLC its instances.

## 3. Runs

| run | instance | what it shows |
|---|---|---|
| `queue_faults` | 2 clients, 2 workers (one drains, is stopped and restarted), 2 runs, faults | no run held twice or claimed twice, no double launch of requests that do not overlap, each run behaves as `ImportRun` |
| `queue_live` | 2 clients, 2 mappings, 2 workers, 2 runs, fairness | request order; queued runs settle; a stop takes effect |
| `batches` | 4 runs of 3 files (a relaunch, a malformed line, opposite session orders), 2 at a time, batches of 2, faults, fairness | nothing lost, nothing twice, provenance, exact reports, `TraceStore`, every run ends |
| `mappings` | 3 clients, 2 names, 3 rows | each save is one compare-and-set (`MappingHistory`), one active version, no silent overwrite, history kept |
| `wizard` | 2 files, 2 mappings, 3 requests | preview, run and selection stay together |
| `uploads` | 4 requests (3 of one content, 1 refused content, one staging name used twice), 1 cancellable, 1 crash, fairness | whole files, nothing left behind but by a cancelled open, `ContentStore`, every upload ends |
| `studio` | 3 requests (one by another client), 2 iterations, 2 posts, 1 turn kept, 2 files, 2 edits, fairness | transcript and document stay together, prompts cover them, replies are true, the page stays with its file, every request is answered |
| `accounts` | 2 logins or registrations of one address, 1 logout, 1 authenticated request, a clock of 1, 1 restart, fairness | logouts are final, live sessions survive purges, nobody is signed out by surprise, every request is answered |
| `preview` | the files and mappings of `MCImportPreview`: awkward names, lists, secrets, every operator with good, bad and null parameters | profiled paths resolve, no secret is sent, accepted mappings run, nothing is lost in silence, rows are sound |
| `dashboard` | 3 sessions of 2 sources, 5 model and 5 tool calls in 5 batches, 14 filters, pages of 2, at most 5 events | charts add up, points replay, the unknown is no zero, a timeline misses nothing |
| `mappings_double_click`, `uploads_cancelled` | the smallest instance | two disagreements of section 6 |

**Bounds.** `MaxRuns` bounds the rows of `import_run`, `MaxRequests` the
transactions of POST /imports (`clock < 2 * MaxRequests`: a request ticks the clock at most
twice, so that many requests can complete and more can be refused), `MaxRestarts` the
restarts. Two workers race for each run; the faults need two
runs: one whose worker dies and one that is served after it. The second mapping of `queue_live` lets
a client queue a run after another is visible, which `RealTimeOrder` is about (a second request for
the same mapping would be refused). In `batches` each file has four
lines, so that a batch of two commits before another fails, a session goes on
in the next batch, and the blank line makes a short last batch; the two sessions in opposite
order are the shortest deadlock. Three rows of `mapping` give two versions
of a name and one of another, or three versions of one, with three transactions
open. Three requests of the wizard are a preview, a launch, and one more that
crosses either. Three uploads of one content are the row's winner, its loser
and one that finds the row; the fourth request is refused after it has staged. Two requests of the
studio's own and one of another client are the fewest that read, write and cross; with one turn kept
the second refinement already cuts the conversation. The clock of `accounts` has two
instants, before and at the expiry, which is where the comparisons differ. In `preview` values are at most
three deep and lists at most two long, one more than the bounds of the sanitizer for
what they are to cut; `Nesting`, the depth to which the walks over a value go, is above all of them, which
`FilesAssumption` has TLC check. In `dashboard` every null column occurs beside a known value and alone, sessions lie on both sides of
a midnight and on it, and the watched session has more events than the ceiling of five, in three batches.

**Symmetry** is used where no temporal property with fairness is checked:
clients of `queue_faults`, clients and names of `mappings`, mappings of `wizard`.

**Deadlock** is not checked where the system may come to rest: the queue (an idle worker
polls without changing anything), `batches`, `uploads`, `studio`, `accounts` and `preview` (nothing follows the
last run, request or answer). `mappings`, `wizard` and `dashboard` check it.

**Fairness.** `queue_live` assumes weak fairness of each worker's step: a live
worker goes on with its loop, and an import ends, since a file is finite and a batch is a bounded
number of statements. Nothing is assumed of clients, signals or restarts.
One worker is never stopped; without such a worker a queued run may stay queued for ever, and
should. `batches` assumes weak fairness of each run's step, which includes the
deadlock detector of PostgreSQL: it runs after `deadlock_timeout` whenever a transaction waits.
`uploads`: weak fairness of the steps of a request and of its threads (`StoreStep`, `RowStep`), not of
failures; a client that stops sending is a stream that fails, which the server's own timeouts
bring about. `studio`: weak fairness of what the server does by itself (`OwnStep`), the firing of the deadline
included; the provider, the other client and the user owe nothing. `accounts`: weak fairness of each step of
the server and of the browser's handling of an answer.

## 4. Properties

*Queue.* `OneWorkerPerRun`, `ClaimedAtMostOnce` (over the life of a row, with deaths and
restarts), `RealTimeOrder` (a request made after a run was visible does not overtake it;
`created_at` alone does not give this, and requests that overlap are in no
order), `NoDoubleLaunch`, `QueuedRunsSettle`, `StopTakesEffect`, `RunsSpec`.

*Batches.* `NothingLost` (the row a run skipped as a duplicate was really stored, though
its owner could have rolled back), `Provenance` (any stored row
leads to a record that states it), `ReportIsExact` (imported + duplicate counts every distinct session
and every call met, once), `EveryRunEnds`, `StoreSpec`.

*Mappings.* `OneActiveVersion`, `NoSilentOverwrite`, `HistoryIsKept`, `HistorySpec` (no interleaving of statements, waits and
lost connections shows anything but saves one after the other, numbered 1, 2, 3, ...).

*Wizard.* `PatientLaunchedAsPreviewed`, `PatientRunIsForThisFile`.

*Uploads.* `OnlyWholeFiles` (what is at a final path is all of its content), `StagingIsOwned` (of the failures and
cancellations only one leaves a staging file: the cancellation of the await that opens it, `CancelledAtOpen`), `StoreSpec`,
`EveryUploadEnds`.

*Studio.* `TranscriptFollowsTheMapping` (the last assistant message is about the document that is
stored, whatever refinements and edits crossed), `PromptCoversTheMapping` (what the model was told explains the document
it refines), `RepliesAreTrue` (an answer shows what was committed), `PatientStaysWithTheFile`, `EveryRequestIsAnswered`.

*Accounts.* `LogoutIsFinal`, `LiveSessionsSurvive`, `SignedInStays`, `EveryRequestIsAnswered`.

*Preview.* `ProfiledPathsResolve` (a path of the profile, used in a mapping, reads the values it was
profiled from), `NoSecretIsSent`, `ValidMappingsRun` (an accepted mapping raises nothing that the validator could have
refused; where a rule finds nothing its operators neither fail nor invent a value, unless one is a `default` or a
`map_values` asked for an answer, or has a null for its sources, its table or its algorithm: then, and only then, the rule fails,
as it does on every record, `RunsOverNull`), `NothingLostInSilence` (a line is rejected exactly when a row it holds is not built, a list
is not reached, or a session, be it one of several, is refused), `RowsAreSound`.

*Dashboard.* `VolumetryAddsUp` (the charts account for each call and session of the overview once: unnamed
models, undated sessions and two kinds of calls included), `PointsReplay`, `NeverAConfidentZero`,
`TimelineMissesNothing`.

Each has a mutant in `PROJECT.json`: a plausible bug of the code under which TLC finds the
property violated. The mutants are the definitions whose comment starts with
"Mutant:". Type invariants are stated in the modules and proved where section 5 says so.

## 5. Proofs

`ImportQueueProofs` proves, for any sets of clients, workers, files and
mappings and any bounds, under `BoundsAssumption` (the bounds are naturals) and
`SetsAssumption` (`Stoppable` and `Drainers` are workers, `Compatible` relates files
and mappings, `None` is none of them):

| theorem | states |
|---|---|
| `TypeCorrect` | `Spec => []TypeOK` |
| `QueueInvariant` | the inductive invariant below |
| `MutualExclusion` | `Spec => []OneWorkerPerRun` |
| `AtMostOneClaim` | `Spec => []ClaimedAtMostOnce` |
| `HolderIsNamed` | `Spec => []LockNamesTheHolder` |
| `ReportAgrees` | `Spec => []StatusMatchesReport`, with and without faults |
| `NothingLeftLocked` | without faults, `Spec => []NoLockLeftBehind` |
| `LaunchesOnce` | `Spec => []NoDoubleLaunch`, with and without faults |
| `QueueIsOrdered` | without faults, `Spec => []RealTimeOrder` |
| `Implements` | `Spec => RunsSpec`: the queue implements `ImportRun` |
| `FinalStatusStays` | without faults, `Spec => SettledForGood` |

`ClaimedAtMostOnce` alone is not inductive: that the UPDATE of a claim leaves `attempts` at one needs
that the row it locked is still `pending`, and that needs to know that no other worker is
on it. The invariant therefore says, for each value of a worker's
program counter, what the row of its job may look like (`JobStatus`), that two busy
workers have different jobs, and that a row in `absent` or `pending` was never
counted nor locked (`FreshRows`). Lemmas first state what one step may write to a
row and what a step of one worker leaves alone for another; the invariance proof then has a
step per action. `NothingLeftLocked` adds that a worker which dies needs a fault.
`Implements` maps each step to one step of `ImportRun` or a stutter: `InsertRun` to
`Create`, the committed claim to `Claim`, a report or a failure to `Settle`,
and a failure after a committed report to `Overturn`.
`LaunchesOnce` rests on the clock of the model (`Stamps`: a request begins before its row is visible) and on the list a
request works through (`ChecksAreSound`): a run that blocks it and is not on the list any more became visible after it
began, for no statement of a worker makes a run block that did not (`WorkerMoves`). `QueueIsOrdered` strengthens the
order to rows that are only being claimed (`InOrder`); it needs that a claim in progress ends with its commit, and a
claim that is rolled back while a later row is taken does overturn the order, hence without faults.

`MappingVersionsProofs`, for any clients and names and any bound on the rows: `TypeCorrect`,
`VersionsInvariant`, `OneActive` (`OneActiveVersion`), `NothingOverwritten` (`NoSilentOverwrite`),
`NumberedWithoutGaps` (`VersionsAreContiguous`), `PastVersionsStay` (`HistoryIsKept`), `SavesAreAtomic` (`HistorySpec`),
`OnlyRacesAreErrors` and `HoldersDoNotWait`. The argument rests
on `uq_mapping_name_version`: a transaction reads the latest version without a lock, so what it read may
be old when it writes. The invariant says what an open transaction has staged against what is committed; of two
that read the same version only one can insert the next key, and its commit
carries the `superseded` of the one before.
`SavesAreAtomic` maps a commit to `Publish`, the beginning and the end of a transaction to `Edit` and `Abandon`, and every
other statement to a stutter: a commit finds in force exactly what its transaction had read (`ReadIsInForce`) and its number,
derived from a row read earlier, is one more than the rows of the name (`NumberIsNext`).
`OnlyRacesAreErrors` has a hypothesis, `[]NoOverlap`: at no time are two saves of one name open. Then what a transaction
found of its name is still true when it inserts (`EachFindsTheTruth`), and none is answered 500, whatever goes on for other names;
run `mappings_double_click` shows that the hypothesis is needed.
`HoldersDoNotWait` takes the place of a deadlock check, which says nothing where a connection may be lost at any moment: a save takes a row
lock, then a key lock. It needs one more invariant, `RowsAreHeldOnce`: the key after a row is inserted only by who
holds the row, so that who has one never waits for the other (`KeyFollowsRow`).

`FileUploadsProofs`, for any requests, contents, lengths and crashes: `TypeCorrect`, `UploadsInvariant`,
`FilesAreWhole` (`OnlyWholeFiles`), `RowsHaveTheirFiles` (`RowHasItsFile`), `NothingIsLeftBehind` (`StagingIsOwned`) and
`Implements` (`StoreSpec`). All but the first are under `ExclusiveNames`: the staging name of a request that may be cancelled is
nobody else's. Without it the code does not keep its promise; run `uploads_cancelled` is the counterexample. The
invariant says which inode each staging name and each open descriptor is, from the step of the thread that opens it on, how
much of its content it holds, and that an inode that is being written is at no final path. A thread that outlives its request can
only empty or create a file under a name that is its own. `NothingIsLeftBehind` therefore admits one owner besides the uploads in
progress: a request that was cancelled at the open.

`ImportPreviewProofs` is about what is promised before an import is launched, in two parts that share no variable.

The preview, for any values, files and mappings, any size of sample and number of rows shown: `PreviewInvariant`,
`PreviewTypeCorrect`, `AcceptedMappingsRun` (`ValidMappingsRun`), `NothingIsLost` (`NothingLostInSilence`),
`PreviewedRowsAreSound` (`RowsAreSound`), `SecretsStayHere` (`NoSecretIsSent`), `ParsesWritten` and `ProfileIsReadBack`
(`ProfiledPathsResolve`). `PreviewInv` says that the mapping in use was accepted, that the rejected lines are
those whose normalisation rejects them (`RejectedOf`), that no issue is about a path, and that the rows shown are the first
ones and can be stored (`ShownOf`); TLC agrees on the instance of run `preview`. The step that reads a record needs what the
pure functions make of any record, and that is most of the proof, layer by layer:
- *paths*: what `ParsePath` reads is a sequence of segments, and the rows that `ResolveRows` reaches are values. Both are
  loops: that the recursive function which models one exists is shown by induction on its turns (`TurnsExist`,
  `ArrivalsExist`, `PassesExist`), then its invariant by another;
- *rules*: no operator that validation accepts refuses a path (`OperatorRuns`, `FieldRuns`), each makes nothing of nothing
  unless asked (`NothingStaysNothing`, `NothingComesOut`), one that runs over a null fails whatever it is given
  (`NullFails`), and with it the rule, and a value that a rule gives has the type of its field (`FieldIsTyped`);
- *rows*: the entries of a kind are as many as the rows the mapping reaches exactly when none of these is refused
  (`EntriesHeld`), each with its place in the source list (`ComesFrom`);
- *records*: each attempt builds one sound row or says why not (`AllAttempted`), so that a record is rejected exactly when
  rows are missing, a list is not reached, or a session is refused (`RejectedExactly`).

For `SecretsStayHere` the invariant is that the examples of the profile are clean (`CleanProfile`), and what is left is about
the sanitizer, for any secret and any of its bounds. Redaction goes from left to right, and at each place where it stands no
secret that began before reaches further (`Apart`): two secrets cannot overlap, for the opening word of one is in the body of
none. Hence what it leaves has no word of a body (`RedactedIsClean`), whatever part of that is kept afterwards
(`TruncatedIsClean`); of the keys that are numbered one is always free (`FreeKeyIsClean`, by the pigeonhole principle). For
nested values the proof names the set of all that `_sanitize` makes at any level: what these values hold is in the set
again, and each is clean (`SanitizedValues`), so that a walk to any depth meets nothing else (`NodesStay`).

`ProfileIsReadBack` relates a writer and a reader, character by character and at every depth. A segment is read as it
was written, plain, quoted or `[]`, wherever it stands and whatever comes next (`ReadsWritten`): an identifier ends where
it should, for what follows begins with a dot or a bracket, and a quoted name is undone from its last
character to its first (`ReadsName`). So the loop of `parse_path` reads back all segments of a path (`ParsesWritten`), and no two
paths are written alike. On the other side, the profiler finds one level below what a segment reaches (`FoundBelow`),
`resolve_rows` and `resolve` go one segment at a time as well (`RowsAreFound`, `FoundInRows`), and they agree but for missing
values, from which nothing more is reached (`StepsAlike`). The invariant is that the paths sent are those of the file.

Assumed: what an object or a list holds are values, finitely many (`ValuesAssumption` of `JsonPaths`), files are sequences of
values that nest less deep than `Nesting` (`FilesAssumption`), and mappings have the shape that `MappingDefinition` parses,
whatever their names and parameters are (`MappingsAssumption`): they need not be valid. Of a secret, that its opening word
is not in its body and that none of its words is one the sanitizer writes (`SanitizerAssumption`); of names and texts, that
the words of a body stand in whole secrets only (`SecretsAssumption`): a fragment that is already cut in the file matches no rule,
and `NoSecretIsSent` says nothing of it. Of the notation, that its marks are in no identifier (`NotationAssumption`); of names, that they are
sequences of characters, and none an identifier followed by a newline (`NamesAssumption`): for those the code does not do
what the theorem says (section 6). Only the two theorems about paths use it. TLC evaluates all of them on the run.

The wizard, for any files, mappings and number of requests: `WizardInvariant`, `PreviewsAreLaunched` (`PatientLaunchedAsPreviewed`), `AcknowledgementsStay` (`AckIsForThisFile`, for any user) and
`RunsAreOfTheFile` (`PatientRunIsForThisFile`). The invariant ties the request in flight, and the preview on
display, to the selection for as long as the user waits.

`UserSessionsProofs`, for any requests, addresses, passwords and number of restarts: `SessionsInvariant`,
`TypeCorrect`, `LogoutsAreFinal` (`LogoutIsFinal`), `PurgesSpareTheLiving` (`LiveSessionsSurvive`), `OneAccount`
(`OneAccountPerAddress`), `TokensAreGood` (`AcceptedTokensAreGood`) and `SignedInUntilDead` (`SignedInStays`). The invariant ties each session to the login that
drew its token, which has been answered and never changes again; hence a login that commits adds a token that no purge or
logout in progress can hold, and what a purge holds had expired when it looked. `AccountsInv` adds that an open
insertion holds its address alone, so that the first password of an account is its only one.
`OwnTokens` says that a question of the browser under way is about the token it keeps unless a login overlapped, and that one
answered `UNAUTHENTICATED` was about a token which is dead and, as no login draws it again, stays so.

`ImportBatchesProofs`, for any runs, any files and any size of batch: `BatchesInvariant`, `TypeCorrect`, `NothingIsLost`
(`NothingLost`), `ReportsAreExact` (`ReportIsExact`), `RowsHaveTheirRecord` (`Provenance`), `KeysAreUnique`, `NoOrphanCall` and `Implements` (`StoreSpec`). What a
batch leaves stored cannot be read off its own insertions, for most of its keys may have been skipped. The
invariant says of every place of the open batch that was dealt with that its key is stored or in the draft of that
run: a skipped key was committed and rows are never deleted, and an insertion that meets the draft of another run
waits. So no two drafts share a key, and a commit, which stores all that its records state, is a step
`Add` of `TraceStore`. The proofs assume that a file is finite and a record states finitely many names and calls
(`ContentAssumption`, `ListsAssumption`); `TypeCorrect` and `ReportsAreExact` need the second to count. For the report,
`AccountOf` says that the counters are an account of the batches committed so far and that the duplicates they
remember are the sessions met which others have stored; a session that a batch is the first to state is then in the
draft or of another run, never both (`NewSessions`).

`MappingStudioProofs`, for any number of requests, iterations, attempts, turns, files and edits:
`StudioInvariant`, `TypeCorrect`, `ConversationsFollow` (`TranscriptFollowsTheMapping`), `RepliesAreKept` (`RepliesAreTrue`),
`PagesStayWithTheirFile` (`PatientStaysWithTheFile`), `PromptsCoverTheMapping` (`PromptCoversTheMapping`) and `WaitsEnd`. The write
transaction of a refinement inserts its message before it takes the row, and `uq_proposal_message_proposal_turn` makes
everyone else wait or fail: until it ends nobody lengthens that conversation, so that its second message is at the turn
after its first. The invariant ties the program counter of a request to the messages it has inserted and the row it holds,
and the conversation to the refinements in the log. For the prompt, `Ranks` numbers these refinements without a gap, which
gives what `RecentMessages` keeps (`RecentCovers`), and later commits only append to the log.
`WaitsEnd` is what `EveryRequestIsAnswered` rests on for any number of requests: a refinement takes its turn, then the row, and a PATCH
the row only, so that a wait is at most two long and ends at a transaction which goes on; a turn that was computed
is the next one or has been taken (`TurnIsNotAhead`), never one that nobody will write. A wait of two needs four requests,
more than run `studio` has. Assumed: the bounds are
positive (`BoundsAssumption`, `StudioAssumption`) and `None` is no proposal (`NoneAssumption`).

`TraceQueriesProofs`, for any rows of the tables, any batches and filters, any size of page and ceiling: `ReadsInvariant`,
`TypeCorrect`, `TimelinesAreWhole` (`TimelineMissesNothing`), `VolumetryIsKept` (`VolumetryAddsUp`), `ChartsReplay`
(`PointsReplay`) and `UnknownsStayUnknown` (`NeverAConfidentZero`).
`TimelineMissesNothing` is about the last page and says nothing of the ones before. `ReadsInv` adds what holds between two
statements (`NothingPassed`): an event that was there at the opening is on the page, or as many events come before it in
what the next page is cut from as are on the page. What the next page is cut from is, once its first statement has
answered, an old set of model calls and the current tool calls (`Readable`). Imports insert and never delete, so that these
sets only grow, and in a larger set the rank of an event is at least what it was (`RankInMore`); the keys end with the type
and the id, so that ranks number the timeline without a gap (`RankIsOnto`) and a page holds exactly the ranks of its
window (`WindowOfTimeline`). TLC agrees that `ReadsInv` holds on the instance of run `dashboard`.
The other three are about the committed rows alone and hold in every state the imports reach. The overview sums rows of
`v_session_metrics`, each a sum over the calls of a session; a chart sums points, each a sum over a group of calls. Both are
shown to be the sum over the calls in scope (`CountOfFibres`, `MeasureAddsUp`), nulls left out at each of the levels, which
needs that two points are never one (`CallsByModelPoint`, `SessionsByDay`). What a sum is has to be proved first: the fold of the
library is a `CHOOSE` of a recursive function, and `SetInduct` does the induction over finite sets as a statement about a
set of sets (from the well-foundedness of strict inclusion), without an operator as a parameter: `SumsExist`,
`SumRemove`, `SumOfDisjoint`, `SumOfFibres`.
Assumed, in `TraceQueries`: the columns that `tables.py` declares `nullable=False` are not null and numbers are numbers
(`RowsAssumption`), a session has the data source of the run that wrote it (`RunsAssumption`, `run_import.py` takes both
from the same run), a transaction inserts finitely many rows (`BatchesAssumption`), and a request carries every filter, null
when it is not asked for (`FiltersAssumption`).

Only model-checked: liveness (fairness and `ENABLED` are out of the prover's reach; `HoldersDoNotWait` and `WaitsEnd` are its
safety half where transactions wait for one another), and the two runs that TLC refutes. Every other property of a run is the statement of a theorem.

## 6. Where code and documentation disagree

Two disagreements are runs that TLC refutes:

- `mappings_double_click`: the check of the latest version was added against a 500 on a double
  click (`save_mapping.py`). Two concurrent PUTs both pass it, and the second is still answered 500. Nothing is lost by it
  (`SavesAreAtomic`), and only saves that overlap can meet it (`OnlyRacesAreErrors`).
- `uploads_cancelled`: `local_storage.py` promises that a file at its final path is complete. A staging name is a pid and
  the `id()` of the stream, and the thread that places a staging file goes on when its request is
  cancelled; a later request with the same name writes into the file that thread then moves, and a
  partial file is at a final path.

The models contain the rest of what follows as the code does it, without a run of its own.

*Uploads.* `local_storage.py:208-210` unlinks synchronously so that a cancelled request does not "leave the partial file behind". The
staging file is opened by an awaited thread at line 180, before the `try` of line 181: a request that is cancelled there leaves
its `.incoming-...` file, empty, and nothing ever removes it (`StagingIsOwned` names the case). A thread that opens the file
after its request is gone also empties the file of a later request with the same name; the proofs exclude shared names
of requests that may be cancelled (`ExclusiveNames`).

*Imports.* A killed worker leaves its run `running` and locked, and launching the file again
is refused, where `create_import.py` says that a killed run leaves `failed`. Two clients at once can launch a file
twice with one mapping, so `NoDoubleLaunch` is about requests that do not overlap. A mapping can be superseded between the
check of POST /imports and its commit. A `mark_succeeded` that raises after the report turns a published
success into `failed`: this is `Overturn` in `ImportRun`. A batch aborted as the victim of a deadlock ends
its run, although the batches before it stay. One line that is not valid JSON fails the
whole run, where `run_import.py` wants the other lines imported. `raw_record.line_number` does not count
blank lines, `DATA_MODEL.md` takes it for the line in the file. Iterated calls without a
`sequence_index` are numbered from 0 in each record, so that those of a later record of
one session are taken for duplicates and not stored; the same happens when two entities of one target
fall back to positions.

*Mappings.* `RecordNormalizer` builds its engine without a `RegexExtractor`, so that every accepted
`regex_extract` fails on every value it is given (`MAPPING_CONTRACT.md` and the engine expect one in production);
`ValidMappingsRun` is about rules that find nothing, on which that operator does not run. A required parameter may be JSON
null: the validator looks at the key only (`mapping_validator.py:328`), and its checks return without an error
on a null (61, 70, 80, 87, 100, 108, 121-125, 137, 157; the group, line 148, is the exception). Null `sources`, `table` or `algorithm` fail on
every record, even where there is nothing to work on; null `to`, `format`, `from` or `pattern`, and a null `separator` of a
`concat`, fail on every value there is. `MAPPING_CONTRACT.md` (§4) has parameters validated before a mapping is applied. A parameter
that must be one of some choices, or the name of an operator, that is a list or an object makes `value in allowed` raise a
`TypeError`, where `validate` says "Never raises"; that error is left out, a `Malformed` value being merely refused. A cast with `on_error` `null` still fails for an infinity, and the `max_bytes` of a passthrough is
not applied. The profiler writes a name that ends in a newline unquoted, for `$` matches before it, and the path
does not parse. A new name is looked for in the 1000 newest mappings only.

*Assistant and wizard.* A preview that was asked for one mapping is displayed after another was selected, and enables the
launch, unless the user waits. What is typed while a save is in flight is cleared by its answer. A PATCH of a
proposal writes back the rationale it read. `sanitize_samples` is called with no samples. An `UNAUTHENTICATED`
answer to a request sent with an old token drops the token of a later login: `SignedInStays` excludes logins that
were answered while another request was under way.

*Read side.* The end of a point of the activity chart is the next midnight, inclusive, so that a session at
midnight is in the lists of two days; a point for an unknown model carries no filter on models; the bounds of
a day replace a narrower period of the request: `PointsReplay` says which rows a replay shows, `dto/dashboard.py`
says exactly those behind the point. The average of tokens per session leaves out sessions with only one
direction known, its coverage counts them; `output_tokens` of a point of the activity or
of the models chart travels with a coverage that counts `input_tokens` only. The page of a list and its total are two statements, so that
an old total can end a list early without a sign of it; events inserted before the offset while a timeline is
paged are not shown (`TimelineMissesNothing` is about those that were there when the page was opened).

## 7. Not modelled

The issue list and status page of an import (`ImportTracking` in the pages) only read; so do the sessions and quality
pages. The seed command is one more client and worker of `ImportQueue`: it claims whatever row is the
oldest, which need not be its own. Adapters and prompts of the providers are outside what the
repository decides, beyond what `Proposals` says of their answers. HTTP schemas, error
bodies, settings and migrations are declarations without a state of their own. Display and layout
are left out.

In the modelled parts: raw records, their missing fields and three views that nothing here reads; the links
from calls to referentials and several data sources in `ImportBatches`; statistics of the profiler; the regular
expressions of the sanitizer, which are one predicate on words; the loading of the file and of its profile in the
wizard; the detail of the agent's tools, which only read.

## 8. Plan

Done: `ImportRun`, `ImportQueue`, `TraceStore`, `ImportBatches`, `MappingVersions`, `MappingHistory`, `ImportWizard`, `ContentStore`,
`FileUploads`, `Proposals`, `MappingStudio`, `UserSessions`, the pure functions with `ImportPreview`,
`TraceQueries`; proofs of the queue, the batches, the mappings,
the uploads, the wizard, the accounts, the proposals, the preview and the read side.

Left: `ImportTracking` and the seed command; the two statements of every paged
list, as the timeline has them.
