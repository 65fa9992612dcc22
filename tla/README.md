# A TLA+ model of openreading-core

OpenReading turns documents into one normalized response by calling one of some
eighteen document backends, alone, by a strategy, in a batch, from a CLI, a
Python API, an HTTP server or an MCP server. Most of the code maps data: vendor
payloads, schemas, metrics, text. This project models the rest, the parts in
which several processes, tasks or threads share state that outlives them, and
where a crash, a retry or an unlucky order could lose a document, pay twice or
contradict an answer already given.

Paths below are relative to `src/src/openreading/` unless they say otherwise.

- [1. The system](#1-the-system)
- [2. Modules and the code](#2-modules-and-the-code)
- [3. Runs, bounds and fairness](#3-runs-bounds-and-fairness)
- [4. Proofs](#4-proofs)
- [5. Where the code and its documents part](#5-where-the-code-and-its-documents-part)
- [6. What is only model-checked, and what is not modelled](#6-what-is-only-model-checked-and-what-is-not-modelled)
- [7. Plan](#7-plan)

Run a model with `tlc -workers 2 -config MCImportJobs_bound.cfg MCImportJobs`,
check a proof with `tlapm ImportJobsProofs.tla`.

## 1. The system

| Component | State it keeps | Operations | What is hard | What makes it correct |
|---|---|---|---|---|
| Import jobs (`artifacts/jobs.py`) | a directory per job: `status.json`, `request.json`, `process.json`, `cancel`, `supervisor.lock`; an admission lock per input grant | `start`, `get`, `cancel`, `list`; the detached supervisor | clients and supervisors in different processes, each of which may be killed; PID reuse; recovery racing publication | admission bounds processes; one import per source; no working supervisor is disowned; a terminal record is final and agrees with the store; every job ends |
| Artifact store and import (`artifacts/service.py`, `store.py`, `worker.py`) | `staging/`, `documents/<grant>/`, `.import.lock`, a parser process | `import_document`, the sweep, `load_artifact`, `size` | kills and power losses between write, fsync, rename and fsync; cancellation; the space limit | visible documents are complete; a receipt is durable; staging is swept but never under an import; the limit holds |
| Warm worker (`artifacts/supervisor.py`) | one process group, one pipe, one lock, one idle timer | `run`, `run_staged`, `close`, the timer | a stale timer racing a run, replies left in the pipe, descendants that must die, signals refused | an accepted answer is the one this run's worker completed; a timer stops only an idle worker; nothing outlives its generation; an idle worker ends |
| Exports (`artifacts/delivery.py`) | content-addressed files, locked temporaries | `save_export`, the sweep | a sweep racing a writer | an export is complete or absent |
| Run ledger (`ledger/`) | an append-only JSONL journal with a counter, blobs, a header | `exec` (dispatch or replay), `append`, `get`, resume | a torn line, records glued to it, the order of payload and record, resumes | a settled call is never made again; each process is told the same; a run can be completed |
| Strategy engine (`strategies/engine.py`) | the chain of pending evaluations, retained answers, pages in hand; tasks of one event loop, an in-flight count | `cascade`, paged cascade, `route`, `decide`, `use`, `parallel`, leaves with retries and gates | retained answers, errors and deadlines in nested nodes; a race of branches, hedges, shadows, losers to cancel; the same walk after a resume | the answer is the one the outcomes determine; a resume retraces the walk; pages are stitched whole; the earliest success wins and wins again, none is lost, losers stop |
| Server jobs (`server/app.py`) | an in-memory dict of job records, a drive lock per record | POST, GET, DELETE `/v1/jobs`, webhooks, the sweep | awaits between check and insert, a worker thread that changes a shared Job, redelivered webhooks | caps, one drive per job, outcomes stick, no unread result is swept |
| Poll driver (`router/driver.py`) | attempts and next poll time of a Job | `await_result` | slices, consecutive faults | a job that outlives a slice is not failed |
| Plan executor and cache (`router/executor.py`, `cache.py`) | an LRU with TTL shared by threads, a trail per read | `execute_plan`, `get`, `put` | fallback after each class of failure; a file edited between its identification, its upload and a replay | an answer is a whole result of the content asked for or a newer one; a trail is the read's own |
| Uploads (`server/uploads.py`) | part names seen, bytes counted, a spool file | decoding while bytes arrive | any order of parts, cut anywhere, a spool that fails to write or to close | what is accepted is well formed and stored whole, what is well formed is not refused, no spool is left |
| Requests, routing and policy (`server/app.py`, `api.py`, `router/`, `strategies/prune.py`) | a policy merged from file and defaults, a scope per key | parse, batch, submit; planning, pruning, compiling | one scope held at four places: the door, the plan, the compiled tree, the last call | no backend is called that scope or policy forbids; a refusal and an error are told apart; a batch answers every document |
| Batch (`batch/`) | a slot per item | `run_batch` | a thread pool, one failing item | results in input order, failures isolated |
| Reading (`artifacts/document.py`, `search.py`) | a plan of fragments per artifact, kept by one service | `get_document`, `search`, cursors | two readers share the cached plan; the document is imported again between pages | a reader who follows cursors is told everything of one import, once, or is refused |
| MCP server (`mcp_server/`) | the pending selection, pages on disk | tools, `select_documents` | a thread writes pages while its call is cancelled or dies | a page handed out is whole and leads to the rest; what is given up leaves nothing |
| CLI signals (`cli/app.py`) | the handlers of SIGTERM and SIGINT, the stop they claimed | `parse`, `batch`, `resume` | a signal in any frame of the main thread, two signals, a task that swallows its cancellation | a stop is obeyed with its own exit code and a stopped run can be resumed without calling again |
| Run identity (`ledger/header.py`, `api.py`) | a header with two hashes and the pinned backends | arming, `resume_run` | the configuration is edited between two processes | a resume reaches no backend its run could not reach, and replays what is the plan's own |
| Adapters (`adapters/`) | the vendor's job behind a Job | `submit`, `poll`, `normalize`, `resolve_webhook`, `cancel` | statuses the table does not name, a fetch that fails after the job ended, pages of a result | a success has the whole payload; a job ends once |
| The rest (other commands of `cli/`, `comparison/`, `evals/`, `derive/`, `types/`, `schemas/`, `liveness.py`, `credentials.py`, `config.py`, ...) | configuration | data in, data out | little that tests do not reach | unit tests |

How they interact. The MCP tools call import jobs; a job's supervisor calls the
import service, which holds the import lock of the store and runs a parser
process. The API, the CLI and the server compile a strategy and walk it with the
engine; every leaf goes through the ledger's `exec`, which calls an adapter
through the poll driver, or replays what the journal has. The server's named
jobs skip the engine and drive an adapter's Job with the poll driver directly.

`PROJECT.json` lists the hazards at the lines where they bite, each with the
properties that watch it, or a note why none does.

## 2. Modules and the code

Every specification names its actions for the code's steps; `PROJECT.json`,
`map`, gives the lines of each definition.

**ImportPromise** is what a client of the import tools may rely on, without
processes, locks or files: a bounded set of pending jobs, one per source, each
resolved at most once. A job can be withdrawn before its caller was told of it,
when the launch fails.

**ImportJobs** implements it. Clients (`pc`, `op`, `cur`, `todo`, `active`) are
threads in any process: `start` takes the admission lock, scans every record,
resolves abandoned ones on the way, and launches; `get` and `cancel` observe one
record and may resolve it. The record of a job is `status`, `request`,
`process`, `cancelled`; `supervisor` is where its detached process is in `_run`.
One action is one durable step, so a kill (`LauncherDies`, `SupervisorDies`) can
fall between any two. `pidReused` makes a dead supervisor look alive,
`LoseIdentity` makes `process.json` unreadable; `GraceExpires` is the sixty
seconds of `IDENTITY_GRACE_SECONDS`. A remote parser's upload and result are
separate steps (`Submit`, `ReceiveResult`): the external service is not in the
repository and is modelled from `jobs.py` and `tests/test_artifact_execution.py`.
`Promise` maps a record to what a client can be told.

**ArtifactStore** is `import_document` under the import lock: sweep, make a
staging directory, copy, look the document up, parse, check the room, write the
files, fsync, rename, fsync. `synced`, `sealed` and `durable` say which contents
and which directory entries a `PowerLoss` cannot take; a kill ends an importer
and leaves its parser running until `ParserExits`. `temporary` and `walk` are
another process's file under the root and what a measurement made of it
(`OtherWriters`). Simplified: the room is measured once per import, where the
code measures it before the copy, before the parse and before the manifest;
`rmtree` does not fail. `receipts` says of each document whether imports have returned a
receipt for it and, when they have, whether the documents directory was synced since its
rename: before the receipt of the import that published it (`SyncDocuments`), maybe not
before that of one that found it in place (`Reuse`, which syncs nothing). The store's own directories are taken as they are: the first
start makes them without an fsync of their parents (`store.py:99-117`).

**LedgerSteps** names the steps of a run and what can come of them. **StepLedger**
is `InlineExecutor.exec` over `JsonlJournal` and
`LocalFsBlobStore`. `StartProcess` opens the journal and counts its parsable lines;
`Exec` replays a recorded outcome or appends an attempt; a call returns, its
payload is written, its record appended. A `Kill` during an append tears the
line in one of the ways `Tears` lists: the record is lost, it lacks its newline,
or it ends inside a character. What is appended next is glued to such a line.
Steps are called in any order and concurrently, which covers every strategy. An
fsync of the journal is taken to make its name durable too.

**ParallelRace** is a `parallel:` node with `pick: fastest` on the real clock. Which
node a run is about is a variable that never changes, `race`: how many branches, which
of them are hedged, shadows or cascades, what becomes of the losers, whether a ledger
is armed. Branches are leaves (one call in a thread, counted by `inflight`), cascades of
rungs (not counted) and hedged ones; some are shadows. `journal` is the ledger,
reduced to what StepLedger shows of it: an outcome is on record when it is known
and is replayed from there. The process can die anywhere and be resumed. `asked`
are the branches whose backend was asked to cancel.

**ServerJobs** is the job store of one server process. Handlers run on one event
loop, so an action is a handler up to its next await: a POST is `Admit`
(admission, sweep), `SubmitRemote` or `SubmitInline` (in a thread), `Store`; a
GET is `Read`, or `StartDrive`, any number of polls in a worker thread that
changes the shared Job in place, and `FinishDrive`, `SliceExpires` or
`DriveRaises`. `Sweep` is what a request that does nothing else does. `Age`,
`BecomeDue` and `BackendEnds` are time and the backend. A webhook delivered when
no record is held is a 404 and changes nothing. A finished payload either can be
normalized or cannot, each time it is metered. Only the owner of a job reaches
it, which `told` and `deleted` assume. The store is lost on a restart; that is
documented and not modelled.

**WarmWorker** is one importer's parser between documents. `run` holds the lock
from beginning to end and is cut at every read of the control pipe; the worker
process takes its job, announces stages and pages and answers; its native code
may print a stray line, leave a child behind or exit (`Stray`, `Crash`: external).
The idle timer is armed, fires and then waits for the lock, in three steps, so a
timer that lost the race is a state of its own. Simplified: a stop is one action,
because it is done under the lock.

**ExportDelivery** is `save_export` by any number of processes: take the
directory's lock, sweep entry by entry (open, try the entry's own lock, unlink),
create and lock a temporary, release, write, fsync, link or compare, fsync the
directory, unlink. A `Kill` releases flocks; a `PowerLoss` may drop or bring back
entries that were not synced and cuts contents that were not. The directory itself stays;
section 5 has the one that was just made.

**UploadDecode** is the multipart decoder as the callbacks of Starlette's parser
reach it (external: the tokenizer). `sent` is what the client sent so far, the
other variables are the decoder's; `Decode` is the verdict and the closing of the
spool.

**BackendJobs** is the adapters' side of the port: the status table of each
polled vendor (`ChunkrPoll` and the others), the fetch of the result after it,
Textract's pages, webhooks, cancel, and `await_result` around them with its
budget of faults and its deadline. A vendor's job (`remote`) ends in any status, named by
its adapter or not (`EndStatuses`). Reducto, Azure and Textract take a status they do not
name for success (`TakesUnknown`), and their answer is then what the vendor gives of such
a job (`Payloads`): nothing, or of Textract the pages up to where it stops sending tokens.

**PlanExecutor** EXTENDS it: `execute_plan` walks a chain over BackendJobs, with
the cache before each call and the store after it. `file` is the version of the
document now, `version` the one an adapter read, `key` the one the read was
identified by; `Edit` may fall anywhere between. A payload that cannot be normalized, or
whose cost cannot be told, sends the read on to the next backend (`NormalizeFails`). In a
response, `ver` and `ended` are a history for the property: the version that was read and
the status the vendor's job had ended in.

**StrategyWalk** is the evaluator as a stack machine: a frame per pending
`_eval_` call, `ret` the Outcome handed up. A cascade keeps its best deficient
answer (`best`), obeys gates, `on_error`, its budget; a paged cascade asks each
rung for the pages still wanting and stitches them; a route asks facts, a
decision asks the engine or an LLM; a leaf is one call or its replay from
`records`, the ledger's. Budgets nest, so one number says which deadlines are over:
`overdue` is the outermost evaluation whose deadline went by (`TimePasses`), and all
below it are. `ResumeWalk` is the death of the process and its resume: the records
stay and the stack starts again. `InterruptCall` is a stop during a leaf's call, which is
journalled `cancelled` before the process ends (`inline.py:294-317`), and which the
resumed walk takes for a skip (`engine.py:2291-2301`). A rung of a paged cascade may
answer with a document that has no pages; it then ends the cascade (2028-2050). A
parallel node is one call here, whose gates never ask for a review and whose branches are
not interrupted. **WalkTrees** holds the strategies TLC walks; the module itself is
parameterised by any `Tree` that is well compiled.

**RequestDispatch** is a request from the door of an endpoint to the backends it
reaches: `Door` is what `parse`, `submit_job` and `batch_endpoint` refuse before
anything runs, `Route` and `ExplicitFallback` the chain of the router, `Pruned` and
`Concrete` the compilation of a strategy for a scope, `RunNamed`, `RunChain` and
`RunLeaf` the three ways `run_request` goes, and `Assemble` the answer. A document is
bytes, a URL or malformed. Before anything is called a URL is fetched, or its address is
checked when the backends fetch it themselves, and either may fail (`NotHad`: `api.py`
612-618, 686, 819-822). A strategy is
a sequence of numbered nodes. What pruning leaves of it is the largest set of nodes that
stand by one another (`Survivors`), and what it names is what its root leads to
(`ReachedFrom`); the code recurses for both, and MCSafety writes those recursions down
and compares them with the sets for every strategy and scope of its run. The documents of a batch run in a pool of `req.pool` workers, in any order. Simplified:
a named job of `/v1/jobs` answers as a parse does (what becomes of it afterwards is
ServerJobs); a walk calls the backends its tree names in any order, each at most
once; the named path has no scope check of its own in the code, so the door alone
holds it.

**RetainedReading** is `get_document`, `search` and their cursors. A document is the
sequence of its nodes in the order they are written, measured in bytes of JSON: a node
says how many of those after it are in it, a text what its first characters take. What
`_fragments` yields is given as sets: the nodes that fit and are in nothing that does
(`WholeNodes`), the boxes and texts that are cut (`DividedNodes`), the places where the
pieces of a text begin (`PieceStarts`), put in order by `InOrder`; MCSafety compares that
with the code's recursion for its documents. `Filled` measures a reply, and `PageEnds` are
the places where one may end. A call loads the import, takes the service's plan or makes
one (`Load`, `KeepPlan`), and answers (`GivePage`); `Reimport` falls anywhere between.

**SelectionHandoff** is `select_documents`: one pending selection, the dialog and
the copies of its provider (external), the thread that publishes pages, and the
call that waits for it, is cancelled, runs out of time or fails at any await
(`InterruptSelect`). A page is named by the place of its first receipt; which places
those are is defined by what overflows a page (`Begins`), not by the code's loop, and
MCSafety compares the two for every batch of up to four receipts. Only the death of the process is modelled: the directory of a
selection is not fsynced in its parent, and pages are for one session.

**StopSignals** is the main thread of `openreading parse`, `batch` and `resume` as a
chain of frames, each a stretch of code in which a signal has the same effect:
`Interrupt` unwinds it. Its handler is cut at the points where another signal can
arrive (`Sigterm`, `TakeOver`, `Delegate`); `asyncio.Runner`'s SIGINT handler and
its closing are external, from the standard library's documented behaviour. `notes`
is the run's ledger; the items of a batch keep their own and are not resumed,
`failed` counts them. The properties except the frames in which the code has no
protection (`Unsafe`), a second Ctrl-C (which asyncio turns into an immediate stop)
and a SIGINT the parent process ignores; section 5 says what happens then.

**ResumeIdentity** is what `_arm_ledger` writes and `resume_run` compares. `Compiled`
prunes a strategy by the caller's scope only: a leaf may name a backend outside
`policy.backends` (`prune.py:11`, `328-340`; `Router.route` never fills `dropped`).
`PlanHash` is the root; `ConfigHash` is the root, the policy and the descriptors of the
backends that take part, those of the policy and those the tree reaches, also below a
`use:` (`prune.py:265-272`). The header pins the descriptors of what the plan may
dispatch. `EditConf` changes the strategy, a named strategy, the policy or an adapter
between any two processes; `ReplayLeaf` finds a record by its place.

How they are composed. PlanExecutor EXTENDS BackendJobs and shares its state, and
StepLedger EXTENDS LedgerSteps. ServerJobs drives Jobs by the same `await_result`
rules but abstracts the vendor to `BackendEnds`. StrategyWalk's `records` are what
StepLedger promises a resume (`SettledIsTold`: every settled outcome, in order), and
that of ParallelRace, StopSignals and ResumeIdentity is the same; StrategyWalk leaves
a parallel node to ParallelRace, and RequestDispatch both the walk and the chain to
StrategyWalk and PlanExecutor. ArtifactStore is what ImportJobs calls `retained`
and RetainedReading `import`, and its parser is cold; WarmWorker is the warm one.
These compositions are by assumption: each side states as its input what the
other proves or checks of its output.

The modules ending in `Proofs` hold the proofs: one each for ImportJobs,
ArtifactStore and WarmWorker, ServerProofs for ServerJobs and RequestDispatch,
ExecutionProofs for StepLedger and
PlanExecutor, StrategyProofs for ParallelRace and StrategyWalk, ResumeProofs for
StopSignals and ResumeIdentity, and DeliveryProofs for ExportDelivery, UploadDecode,
SelectionHandoff and RetainedReading. The `MC` modules give constants
their values. Three of them put several modules under one run: **MCRecords** (jobs,
ledger, reads), **MCLiveness** (server, worker, run, import) and **MCSafety** (walk, race,
export, upload, dispatch, reading, selection, signals, server, identity). Their `part`
says which one a behaviour is about, and the others stay as they begin. The parts share
no variable and no action is common to two, so a state of the sum is a state of one
part, and checking the sum is checking each. A module whose theorems name a property is
EXTENDed there (MCRecords: ImportJobs, StepLedger, PlanExecutor; MCSafety: StrategyWalk,
ParallelRace, ServerJobs, ExportDelivery, UploadDecode, RequestDispatch, RetainedReading,
SelectionHandoff, StopSignals, ResumeIdentity;
MCLiveness: ImportJobs, WarmWorker), the others are INSTANCEs.

## 3. Runs, bounds and fairness

| Run | Instance | What it shows |
|---|---|---|
| `jobs_bound` | 2 clients, 2 jobs by a remote parser, 2 sources, bound 1, 1 death | `AdmissionBound`, `NeverDisowned`: the bound holds for processes; a slow or unreadable supervisor keeps its slot |
| `records` | jobs: 2 clients, 2 jobs, 1 source, bound 2, 1 death; ledger: 2 steps, 3 processes, every tear | `OneImportPerSource`, `OutcomeMatchesStore`, and the refinement `KeepsPromise`; `SettledCallsNeverRepeat`, `SettledIsTold`, `OkHasPayload` |
| | reads: 2 reads, one with the whole chain of 3, the other with less of it or of 1 (Pulse), 1 cache entry, 1 edit, 1 failing call or payload | `AnswersAreResults` |
| `store_crash` | 2 importers, 2 documents, room for 1, 3 directories, 2 crashes | `CompleteDocuments`, `SyncedReceiptsSurvive`, `StagingIsOwned`, `ParserUnderLock`, `StoreWithinLimit`, `LeftoversSwept` |
| `liveness` | server: 2 jobs (1 strategy), 2 GETs, cap 1, 2 submissions at once, 1 fault; worker: 2 generations, 2 runs, 1 mishap; run: 2 steps, 2 processes, power losses; import: 2 clients, 1 remote job, 2 deaths | `PolledJobsEnd`; `AcceptedIsCompleted`, `NoOrphans`, `TimerStopsOnlyIdle`, `IdleWorkersEnd`; `RunCompletes`; `SubmittedOnce`, `EveryJobEnds` |
| `safety` | walk: the strategies of WalkTrees, 2 pages, 3 grades, 1 deadline, 1 kill | `WalkAnswer`, `ResumeRetraces` |
| | race, 3 processes: a leaf, a hedge, a cascade of 2, a hedged shadow; 2 leaves and a shadow, losers cancelled or left to run; a leaf and a hedge without a ledger | `RaceIsWon` |
| | export: 3 writers of one content, 1 power loss | `ExportsLast` |
| | upload: 3 parts of up to 3 bytes | `UploadVerdict` |
| | dispatch: 4 strategies, 4 policies, 4 scopes, 3 backends, 1 or 2 documents (bytes, a URL, malformed), pools of 1 and 2 | `CallsStayInScope`, `OutcomesAreDue` |
| | reading: 2 readers, 2 documents with 2 imports each, replies of 40 bytes | `CursorsTellAll` |
| | selection: 2 calls, batches of 3 and 4 receipts, 1 death | `SelectionsAreWhole` |
| | signals: 5 commands, 2 rungs, 2 documents, 3 signals, 2 resumes | `StopsAreObeyed`, `StoppedCallsAreNotRepeated` |
| | server: 3 jobs (2 strategies), 2 GETs, cap 1, 2 submissions at once | `StoreBound`, `OneDrive`, `NotSweptUnheard`, `OutcomeSticks` |
| | identity: 2 roots, 2 bodies, 2 policies, 3 scopes, 2 edits, 3 processes | `NothingWiderIsReached`, `ReplaysAreOwn` |
| `jobs_abandoned` | 1 client, 1 job, 1 death | violated: see section 5 |
| `ledger_split` | 2 steps, tears inside a character | violated: see section 5 |
| `server_failed` | 1 job, 1 GET | violated: see section 5 |
| `backend_payload` | 1 read, any vendor, 2 failing calls | violated: see section 5 |
| `walk_replay` | one strategy, no deadline, 1 kill | violated: see section 5 |
| `race_stalls` | a primary and its hedge, no resume | violated: see section 5 |
| `resume_identity` | a root with a `use:`, 1 edit, 2 processes | violated: see section 5 |

`safety` and `jobs_bound` have 2.6 million states, `records` 2.2 million, `store_crash`
235,000 and `liveness` 153,000; each takes one to four minutes. Some
properties of `safety` join several of a module: `WalkAnswer` is `AnswerIsDue` and
`PagesAreStitched`, `ExportsLast` includes `SweepIsExact`, and `RaceIsWon` is
`WinnerIsEarliest`, `SuccessIsNotLost`, `LosersAreStopped` and `ResumeAgrees` of
ParallelRace.

Each property of a passing run is broken by a mutant of the specification (an
operator marked `\* mutant`, beside the one it would replace) that
stands for a plausible bug: an admission off by one, a recovery that does not
probe the supervisor's lock, a cancellation honoured after publication, a receipt
before the fsync, an ok record before its payload, a counter that starts again on
a resume, a winner in listed order, a drive that takes no lock, a failed job of a vendor read as one that has an
answer, a deadline
measured from submission (an error the code once had, BL-92), and so on.

**Bounds.** Two clients and two jobs are enough for every race of the job
protocol: each conflict is between two calls, or a call and a supervisor, over
one record or over the count; a bound of one makes the second start the one that
must be refused. One death reaches every step at which a process can die, two
let the launcher and then the supervisor (or the recovering client) die. Two
importers and two documents compete for room for one; three directories let both
work beside one leftover. Two steps put two appends in flight; three processes
let a second resume read what the first one damaged. Three branches have a
winner, a loser and a bystander; a third process shows a resume of a resume. Two
submissions overshoot a cap of one, and one hosted job is driven by two requests;
`MaxFaults` is 1 where the code has 120, so that a streak can be continued, reset
and exhausted. Two generations and two runs of a worker let everything stale
(timer, reply, child) meet its successor. Three writers are a sweeper, a writer
at work and one that died. Two reads with a cache of one entry fill, hit and
evict it, and one edit separates any two steps; one of them is free to try the whole
chain and the other is not, because two that are would only repeat each other. Two pages and three grades let
each rung of three improve one page and not the other. In the dispatch, a strategy
whose rungs are pruned one by one, one that is only a reference, a decision and a
circle meet every scope that leaves all, some or none of their backends, and two
documents in a pool of two finish in both orders. Two imports let a document change
under a cursor, and a text of multi-byte characters is cut at both caps. Batches of
three and four make two or three pages, so that a cancellation falls before, between and
after them. Three signals are one stop and two more that meet it. Two edits are one
that misleads a resume and one that hides it. Jobs by a remote parser take the longer
way through the supervisor, so `jobs_bound` has both of its jobs remote and `records`
both local. Every bound on a count
(`MaxCrashes`, `MaxStarts`, `MaxSubmits`, `MaxMishaps`, `MaxLosses`, `MaxTries`,
`MaxEdits`, `MaxChanges`, `MaxTicks`, `MaxKills`, `MaxParts`, `MaxSignals`, `MaxResumes`,
`MaxRuns`, `submissions < 2`) is a guard, and
those of the modules with proofs, all but the last, appear in the theorems as
arbitrary constants.

Symmetry is used where a run checks no liveness and the constants are
interchangeable. Deadlock is not checked where the system may stop: a run that
is complete, a race that is resolved, a server with all its POSTs made.

**Fairness**, and why the code justifies it:

- `ImportJobs`: weak for the steps of a client and of a supervisor (processes
  run; a conversion ends by its deadline, 45 s by default) and for the grace
  period (time); strong for taking the admission lock (`flock` wakes its waiters)
  and for somebody polling a job, without whom the code recovers nothing. The
  run has finitely many jobs: the import lock is polled every 0.1 s without a
  queue, and endless newcomers could starve a supervisor. A Docling profile may
  have no deadline; for it the conversion's end is an assumption.
- `ArtifactStore`: weak for an import's steps and for the exit of a parser (its
  own deadline), strong for taking the import lock (retried by the supervisor).
- `WarmWorker`: weak for the thread in `run` and the worker process (both are
  scheduled; extraction ends by its own deadline or its parser exits), for a timer
  that was armed (time) and for its callback once it fired: the lock it waits for
  is held by a run that ends.
- `StepLedger`: weak for `exec` and for starting again, which is the user who
  resumes a run.
- `ParallelRace` (only for `race_stalls`): weak for the event loop's own steps, opening,
  waking a branch, judging and resolving. Nothing is assumed of a backend, which may
  never answer.
- `ServerJobs`: weak for polls, ends of drives, expiry of slices, the backend
  and time; strong for a GET starting a drive, which says that the owner keeps
  asking: nothing else drives a polled job. No fairness is assumed of a poll's
  outcome: a poll may fail every time, and the job then ends by its fault budget.

## 4. Proofs

TLAPS proves the theorems below for any number of clients, jobs, documents,
steps, deaths and resumes. Each is `Spec => []P` or an action property, by an
inductive invariant that is listed in the module and was checked by TLC first.

| Module | Theorems | The argument |
|---|---|---|
| `ImportJobsProofs` | `TypeCorrect`, `AdmissionIsBounded`, `OneImport`, `RecoveryIsSafe`, `OutcomesAgree`, `OneSubmission`, `ResultsAreFinal`, `JobsKeepPromise` | `IInv`. A start that holds admission has counted every unresolved record but those it still has to visit (`ScanInv`), so there is room when it launches. A supervisor works only under its lock or with its launcher inside admission (`LockInv`, `LaunchInv`), so a client that got both has a dead one. A document is published only after the last point at which a supervisor can turn to "cancelled" (`RetainInv`). `JobsKeepPromise` maps every step to one of ImportPromise or to a stutter. |
| `ArtifactStoreProofs` | `StoreTypeCorrect`, `DocumentsAreComplete`, `SyncedReceiptsLast`, `StagingIsSafe`, `ParsersAreSupervised`, `StoreIsBounded` | `Core`. The directory of an import is its own and under the lock (`DirInv`, `LockInv`); what is renamed has been synced (`SyncInv`), so what is visible is complete now and after a power loss (`PublishedInv`), and an entry that was synced is permanent, and a receipt that counts as synced is for one (`DurableInv`). Room measured under the lock stays room until it is released (`RoomInv`). |
| `ExecutionProofs` | `LedgerTypeCorrect`, `CallsAreNotRepeated`, `SettledOutcomesAreTold`, `OutcomesAreUnique`, `OkRecordsHavePayloads`; `PlanTypeCorrect`, `AnswersAreOwn` | `IInv`. A call's attempt is appended before its outcome by the same process, so the outcome's line is never the one that joins a torn tail (`TailInv`, `InFlightInv`); an acknowledged outcome is therefore readable for ever (`KeptInv`), and what is readable is what is replayed (`ToldInv`). The payload is written before the record (`PayloadInv`). `PlanInv`, of the reads of a plan: a job that succeeded did not fail at its vendor and holds the whole result, unless it is Pulse's that lost it or one of the three adapters' that ended in a status they do not name (`JobInv`); a read drives a job of the backend it has come to, submitted after the read was identified, and its trail is the part of its chain that it has passed (`ReadInv`); what is cached is a result of the backend and the content that its key names, or of newer content (`CacheInv`). |
| `ServerProofs` | `ServerTypeCorrect`, `StoreIsCapped`, `DrivesExclude`, `NothingIsSweptUnheard`, `OutcomesStick`; `DispatchTypeCorrect`, `CallsAreScoped`, `OutcomesAreTold` | Of jobs, `Core` and `StoreBound`. A drive holds the lock of its job and drives only a job without an answer (`DriveInv`); an answer, once set, is what every later metering would set again (`AnswerInv`); a polled job becomes terminal only in the drive that will report it (`HeardInv`). A submission in flight was admitted below the cap, so records and submissions together are fewer than cap plus `MaxSubmits`. Of a request, `DispatchInv`: where each document is says what it was given (`DocInv`), and a status is the door's or is told when all is over (`StatusInv`). The nodes that pruning leaves stand by one another and are all that do (`SurvivorsStand`), so a compiled strategy reaches what it mentions and the scope allows (`CompiledIsWithin`); from the root of one that is pruned to nothing, every node it was sure to reach is pruned too (`NothingSurelyLeft`). The route has a place for each backend the lists permit (`RouteIsPermitted`), so the places a chain has yet to try and the backends it called make up what is in scope of it (a chain whose document could not be had has called none), and the door turns away only a request that has none (`DeniedHasNothing`). |
| `DeliveryProofs` | `ExportTypeCorrect`, `ExportsAreDurable`; `UploadTypeCorrect`, `UploadsAreJudged`; `SelectionTypeCorrect`, `SelectionsArriveWhole`; `PlansMakeUp`, `ReadingTypeCorrect`, `DocumentsAreToldWhole` | `ExportInv`. A writer holds the lock of its temporary from its creation until it unlinks it (`LockInv`), so a sweep takes only what nobody holds, and what was abandoned it has met or still has to look at (`SweepInv`). A temporary is synced before it is linked, so the inode behind a name is whole for ever (`WholeInv`); what was returned was linked and its entry synced (`PublishedInv`). `UploadInv`: as long as nothing failed, the parts are at most one file and one request within their limits (`PartsInv`); what failed by the client's doing never saw the closing boundary (`FailureInv`). `SelectionInv`: a call that ends has seen its thread end, and accepted only what the thread returned (`StageInv`); pages are written from the last to the first, so each is what the batch makes it and the one it names is there (`PagesInv`); what a call leaves on disk is what it tells (`EndInv`); what its caller has read is the batch up to the page its cursor names (`CallerInv`), by `PageIsPage`, a lemma on how pages divide a sequence; and `pending` is the one call under way (`OneInv`). Of a retained document: the places where pieces of a text begin are the least set that holds 0 and the end of each piece that begins in it, so no piece begins inside another and every character is in one (`PiecesTile`); a node is in exactly one outermost node that fits, or is cut (`NodesAreTold`, `FragmentsFollow`); fragments no two of which begin alike can be counted off, each at the place that has as many before it (`OrderIsWhole`): so a plan makes up its document (`PlansMakeUp`). `ReadingInv`: the plan kept is that of the import it names (`EntryInv`), a call goes by the plan of what it loaded (`CallInv`), and a cursor that binds the content stands at the end of what its reader was told of that content (`HeardInv`); half of a reply holds any one fragment, so a document's page is never empty (`PageIs`). |
| `WarmWorkerProofs` | `WorkerTypeCorrect`, `AcceptedAreCompleted`, `NoGenerationIsOrphaned`, `TimersStopOnlyIdle` | `WorkerInv`. Every line there is to read is of a job given so far, and says ok of the last one only if that was completed (`LinesInv`); a worker does no job that was not given, and the idle timer's token is the last job's (`CallInv`). |
| `ResumeProofs` | `SignalsTypeCorrect`, `StopsEndCommands`, `NoStepIsCalledTwice`; `IdentityTypeCorrect`, `NothingWiderIsEverReached`, `ReplaysAreTheirOwn` | `SignalsInv`. The handler and asyncio share SIGINT by a protocol: who holds it in which frame and what was counted (`HandlerInv`). A stop that came in a frame asyncio survives is handled, on its way, or was obeyed (`ObeyInv`). A call on record as attempted is in flight, or its process ends in a way the property excepts (`CallsInv`). `IdentityInv`, of a run and its resumes: the header is that of the configuration the run was armed with (`HeaderInv`), so a walk has its root, and is either the first process with its caller's plan or a resume that prunes for nobody and may call what the header pinned, under the descriptors of the header; it has passed only leaves it may call (`WalkInv`), which the strategy it was armed with names and the caller's scope allows (`PlanIsWithin`). A resume is not pruned for the caller's scope, and its places are counted with the rungs the caller never had; but as it stops at the first of them, the leaf it stands at has the place it has in the caller's plan (`NextStands`, by `PlaceIsSame`). So has the leaf of every record (`RecordInv`), and a place is that of one rung (`PlaceIsOnce`). |
| `StrategyProofs` | `RaceTypeCorrect`, `RacesAreWon`; `WalkTypes`, `WalkAnswers` (`AnswersAreDue` and `PagesStitched`), `WalkRetraces` | `RaceInv`, for every node of `Races`. A leaf that does not sleep first stands as its record has it, with its number (`TaskInv`), and a number is given once (`NumberInv`): so the success `Precedes` puts first was journalled first (`WinnerInv`), and what succeeds later has a higher number. A decided race has no loser that can still succeed and no live job that was not asked to stop (`DecidedInv`). When the walk leaves the node, every branch is on record (`ChosenInv`): later processes only replay, nothing is dispatched, and the earliest is the same one. Types and the one rung of a leaf are `BranchInv`. Of a walk, for every tree and any number of deadlines and deaths: each action is one of a few moves of the stack (`Moves`), and every frame is where its node can be (`ChainInv`). The paths of the calls grow in the order of a walk of the tree, so each is made once (`OrderInv`, `RecordsInv`). A cascade holds the best of what was retained below it in this process (`BestInv`), and what is handed up is of the last call or retained (`AnswerInv`, `KeptInv`, `GoodInv`). A paged cascade holds what its rungs brought, latest first, and asks for what failed (`PagesInv`, `AskedInv`). Where a walk that no deadline or decider turned goes next is a function of where it is and of the records it reads (`Goes`), so the records are of one trail of configurations from the first node (`TrailInv`); a resumed walk is at the place of that trail that its count of records names, so what it walks over is the records in order (`RetraceInv`). |

Assumptions: the named `ASSUME`s of the modules (finite sets, numbers, distinct model
values; `Raceable`: the special branches of a race are among its branches and a cascade
does not sleep; `Walkable`: each node holds what the schema lets through, and a step is
a node of the tree; `Requestable`: a strategy's nodes hold only nodes after them, as an
expression holds its parts, and a request is of one of the shapes the schema lets
through; `Readable`: the nodes in a node come right after it, more characters take no
fewer bytes, and a reply has room for its envelope, a cursor and a fragment). `SettledOutcomesAreTold` and `OkRecordsHavePayloads` assume
`PowerLosses = "no"`: the code does not fsync a payload (section 5).

Some properties are stated with the exception the code makes and not more:
`WinnerIsEarliest` for races without hedges, `ResumeAgrees` for leaves only,
`StopsAreObeyed` and `StoppedCallsAreNotRepeated` outside `Unsafe` frames,
`AnswersAreResults` but for a result that Pulse's job has lost and for jobs of three
adapters that ended in a status they do not name, `SyncedReceiptsSurvive` for the receipt
of a re-import that no sync has followed yet. Section 5 says what happens there. `SelectionsAreWhole` leaves out a call whose server died and a directory
that could not be removed, which `dead` and `rolled` mark.

Liveness under fairness and the refinement's liveness stay with TLC: the prover
has no `ENABLED`. Section 6 lists what else is checked only.

## 5. Where the code and its documents part

Seven runs expect a violation.

- `jobs_abandoned`: `jobs.py:214` makes the record's directory before
  `request.json` exists. A launcher killed in between leaves a record that
  nothing resolves or removes and that makes every later start of the grant
  answer busy, although `jobs.py:23` says "a launcher crash before identity
  publication no longer blocks every later import."
- `ledger_split`: records are written as raw UTF-8; a line torn inside a
  character raises `UnicodeDecodeError` in every resume, although
  `jsonl.py:51-53` says a truncated trailing line "is skipped, not fatal".
- `server_failed`: `_sweep_jobs` (`app.py:305`) asks whether the Job is
  terminal. A drive that raised leaves its Job running, so a job reported as
  failed is never swept and counts against both caps until it is deleted;
  `CHANGELOG.md:874-875` says "A finished job is swept after
  `OPENREADING_JOB_TTL_S`".
- `backend_payload`: Pulse's `poll` marks the job succeeded
  (`pulse/adapter.py:337`) before it fetches a result that is only a URL (338-339).
  When the fetch fails, `await_result` counts a fault and ends, because the job is
  terminal (`driver.py:98-102`), and an empty payload is normalized;
  `types/job.py:23` says of `raw` "populated on SUCCEEDED".
- `walk_replay`: a failed step is journalled with the name of its exception as its
  code (`inline.py:334`), which the replay raises again (76-91). `classify_error`
  (`engine.py:550-569`) reads `timeout`, `rate_limited`, `auth` and `invalid_input`
  from that code, so that a replayed failure may take another branch of `on_error`,
  although the rebuilt record is to raise "the same way a live failure would".
- `race_stalls`: a race is judged only when no launched leaf is in flight
  (`engine.py:1349`), so a success waits for every other branch that was launched and
  a stalled primary holds up the hedge that answered; `plain.py:23` says "the first
  success wins, the rest are cancelled" and `strategies/README.md:571-574`
  recommends a hedge for a primary that "sometimes stalls".
- `resume_identity`: `plan_hash` and `config_hash` are taken of the root, where a tree
  that `use:` refers to is a name (`api.py:1047`, `prune.py:188`, `272`); of the tree
  itself `config_hash` has only the descriptors of its backends (`265-271`). When it is
  edited so that it names the same backends in another order, or other backends that the
  policy lists anyway, the resume accepts the header and replays, by its place, the
  outcome of one backend for another; an edit that changes which backends take part is
  refused. `header.py:142-146` says that `plan_hash` "identifies the compiled tree
  that actually got walked".

The models also have the following behaviours. They were found with stronger
forms of the properties than the runs keep, and are the reason why those are
stated as they are.

- *A winner without a ledger.* With no ledger armed (the default) every
  `journal_seq` is None, and two successes in hand are decided by index
  (`engine.py:1357`), not "the first non-shadow success" (`engine.py:145`).
  `RaceIsWon` speaks of journalled successes.
- *A hedge on resume.* A hedge sleeps its `start_after` again before its replay
  (`engine.py:1250`); a primary journalled later can then win the resumed race.
  `ResumeAgrees`, in `RaceIsWon`, speaks of races of leaves without hedges.
- *A composite loser* publishes no job (`engine.py:1225`), so its backend is not
  asked to stop. `LosersAreStopped`, in `RaceIsWon`, speaks of leaves.
- *A glued record.* An append after a torn line joins it (`jsonl.py:44`). A
  `skipped` record, which has no attempt before it, can be lost so, and its step is
  dispatched on the next resume. A record that lacks only its newline is
  replayed once and then spoiled by the first append. `SettledCallsNeverRepeat`
  speaks of calls whose outcome was acknowledged.
- *Numbers on a second resume.* The counter is the number of parsable lines, so
  a spoiled record's number is given again by later resumes.
- *A payload lost to a power failure.* `localfs.py:56` does not fsync.
- *A reused receipt.* An import that finds its document in the store returns a receipt at
  once (`service.py:288-291`) and syncs nothing. When the import that renamed it there
  died, or failed, before the fsync of the documents directory (376), a power loss can take
  a document that a receipt was returned for, although `service.py:5` says "A successful
  receipt follows file and directory fsync." `SyncedReceiptsSurvive` speaks of such a
  receipt from the next sync of the directory on, or from a power loss that left the
  document there.
- *A directory just made.* `directory(create=True)` (`artifacts/intake.py:36-50`) makes
  the directories of a grant, and those above them, and syncs none of their parents. A
  power loss can take a whole directory with what was synced in it: the first documents
  of a grant and the first export. ArtifactStore and ExportDelivery take the directories
  as there, so `SyncedReceiptsSurvive` and `ExportsLast` say nothing of that loss.
- *Failed though retained.* A supervisor that dies between the publication and its last
  status leaves a job that the recovery calls failed (`jobs.py:327`), although the
  document is in the store. `OutcomeMatchesStore` and ImportPromise speak of `cancelled`
  and `succeeded`.
- *A selection that is given up.* `selection_pages.py:7` says its pages are deleted before
  the provider's copies are rolled back; the code does it after, and so does
  SelectionHandoff. `SelectionsAreWhole` speaks of what is left in the end.
- *A measurement disturbed.* `Store.size` walks the root without a lock; a
  temporary removed under it fails the import with `storage_limit`
  (`store.py:130`, `service.py:378`).
- *The cap of the job store* is checked before the awaits of a submission
  (`app.py:1490`); `StoreBound` states by how much it can be passed.
- *A retained answer that is dropped.* The laws of the engine's header say that a
  retained deficient answer is kept until something better comes (`engine.py:79-80`,
  `111-113`). It is dropped when a later step errs and `on_error` says fail (2112,
  2153-2159), and when a nested cascade or an ungated parallel node returns a
  deficient answer of its own (2135). `WalkAnswer` speaks of the answers that are
  returned.
- *A deadline between steps.* The header's account of the budget (`engine.py:283-290`)
  leaves out that a cascade checks its deadline before each step (2098), and a
  resume measures every deadline from its own start.
- *Attempted backends.* `ctx.attempted` is said to prevent a second run of a
  backend (`engine.py:107-109`, 337); it is written and never read.
- *A resume without its decider.* A resume hands no LLM decider over, so a
  decision that was not journalled is taken by the engine; `turns` records it.
- *Statuses a table does not name.* Reducto, Azure and Textract take an unknown
  status as success (`reducto/adapter.py:449-455`,
  `azure_document_intelligence/adapter.py:359-371`, `aws_textract/adapter.py:463-490`),
  so their answer may be the first pages of a result, or empty, and it is cached as it
  is: `AnswersAreResults` has the exception, with `ended # "done"`; the webhook handlers of Chunkr (403-426), Reducto (477-507) and
  OpenOCR (309-332) finish a job whatever the status of the task.
- *A slow webhook job.* The TTL counts from creation; a webhook job that
  finishes later is swept by the very GET that asks for it. `NotSweptUnheard`
  speaks of polled jobs.
- *A strategy with nothing left.* A strategy whose root is only `use:` references
  compiles although the trees they name are pruned to nothing, and ends exhausted
  (502), not refused (403) as `app.py:683-685` has it. `OutcomesAreDue` lets a walk
  with nothing to call end so.
- *A stopped resume.* `cmd_resume` (`cli/app.py:470-518`) does not catch the
  interrupt, so it exits 143 without a word about the run it leaves
  (`cli/__init__.py:1713`, `app.py:3464-3466`); so does a stop between the arming of
  a run and the moment its id is known to the command, and one while it prints.
- *Two stops.* A SIGTERM after a Ctrl-C, while the runner closes or a pool is joined,
  exits 143, where `cli/__init__.py:1722` and following say 130. `StopsAreObeyed`
  allows either.
- *A stop without protection.* A stop while asyncio's own cleanup runs leaves a loop
  marked as running, or surfaces in its finalizers; the frames are `Unsafe`.
- *A stopped batch* with more than one worker runs the documents it has not begun
  before the stop takes effect (`runner.py:161-174`).
- *A step that was stopped* is journalled "cancelled" and replayed as a skip
  (`engine.py:2291-2303`): a run of one rung that was stopped resumes to "exhausted".
  `StoppedCallsAreNotRepeated` states the half that holds.
- *Resumable, it says.* A run over a URL prints that it can be resumed (`app.py:247`),
  and the resume refuses it for its missing payload. A header torn by a kill
  (`header.py:120`) makes the resume fail.
- *The scope of a caller* is pinned, not hashed, and a resume prunes for nobody. When the
  scope left a rung of the root out, the root a resume compiles is another and it ends in
  a mismatch; when only a rung below a `use:` is out of scope, and the policy lists its
  backend, the hashes are the same and the resume ends in a refusal at the call.

## 6. What is only model-checked, and what is not modelled

Only model-checked: all liveness (`EveryJobEnds`, `LeftoversSwept`,
`RunCompletes`, `PolledJobsEnd`, `IdleWorkersEnd`), which rests on fairness and ENABLED.
Every invariant of a passing run is proved. What stays with TLC besides is that sets the
modules define are what the code's recursions and loops make: the pruning of strategies
(RequestDispatch), the cutting of documents (RetainedReading) and the pages of a batch
(SelectionHandoff), which MCSafety compares on its instances; what a recursion computes for
every input needs induction over data, which is out of the prover's reach.

Not modelled, and why (each also a component of `PROJECT.json`): comparison, evals,
derive, types and schemas are data conversions over texts and floating point,
without state; the other commands of the CLI, configuration, liveness probes and
credentials are single-threaded and read mostly; the languages strategies are written
in are sequential rewritings of a tree.

Inside modelled components: the wording of errors, progress reports, elapsed
times, authentication, the ledger's sanitizer, the expansion of a batch's
directories, the ranking of hits, paging of lists, the mapping of a vendor's payload to a document, the scores by which `pick:
best` and merges choose, a temporary NuExtract project that outlives a submission
that failed.

## 7. Plan

Done, in this order: ImportPromise and ImportJobs with proofs and refinement,
ArtifactStore with proofs, StepLedger with proofs, ParallelRace, ServerJobs with
proofs, WarmWorker, BackendJobs and PlanExecutor, StrategyWalk, ExportDelivery,
UploadDecode, RequestDispatch, RetainedReading, SelectionHandoff, StopSignals,
ResumeIdentity.

Proved since: ExportDelivery, UploadDecode, WarmWorker, StopSignals, ParallelRace,
PlanExecutor with BackendJobs, SelectionHandoff, ResumeIdentity, StrategyWalk,
RequestDispatch and RetainedReading.

Next: **Selection** (`_select_best`, `_merge_fields`, `_vote_field`) against a
reference definition.
