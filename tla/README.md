# Formal models of BitSwan

This directory holds the TLA+ models of the BitSwan repository (`src/`). It has three parts:

- the specifications, which model the application governor (`asab/application.py`), the file source (`bspump/file/fileabcsource.py`), the time-window analyzer (`bspump/analyzer/`), the web sources and sinks (`bspump/http/web/server.py`) and the git library provider's pull (`asab/library/providers/git.py`);
- the TLC configurations, which model-check them on small instances;
- the TLAPS proof modules for the safety of the governor, the file source, the time window, the web gate and the serial git pull, and for the file source's refinement of the abstract `FileClaims` specification.

`PROJECT.json` holds the machine-readable inventory:

- the components;
- every run and what it checks;
- the mutants that show each property can fail;
- the map from each definition to the source lines it translates;
- the findings;
- the hazards;
- the theorems.

## 1. The system

BitSwan is a stream-processing framework built on an asab-style application core. Everything runs on **one asyncio event loop in one thread**. Concurrency is therefore cooperative: a task or callback runs without interruption from one `await` to the next.

| Part | Source | What it does |
|---|---|---|
| Application governor | `asab/application.py` | Three phases on the loop. `__init__` runs the init governor (publish `init`). `run()` clears `StopEvent` and runs the run governor: publish `run`, then `wait_for(StopEvent.wait(), tick_period)`, publishing `tick` on every timeout. When the wait ends, `run()` runs the exit governor (publish `exit`) and closes the loop. `stop()` sets `StopEvent`; SIGINT and SIGTERM call it, and so do components. |
| PubSub, Pipeline, Timer, Config | not under `src/` | Modelled from `spec.md` where needed. PubSub is a synchronous fan-out by exact topic. A Pipeline has ready and error states, and `set_error` under `stop_on_errors`. |
| Source / Processor bases | `bspump/abcproc.py` | `Source.process` raises when the pipeline is not ready. |
| FileABCSource | `bspump/file/fileabcsource.py` | A health check (`main`, later a `call_soon`) picks a file with `_glob_scan` and starts a `_read_file` task for it. That task waits for `Pipeline.ready()` and locks the file by renaming it to `-locked`. It then opens and reads the file, and finalises it by post mode: `delete`, `move` (rename to `-processed`) or `stop` (rename back and call `App.stop()`). When the file could not be read, it is renamed to `-failed`, or back to its name under `stop`. Several sources may watch one directory; the rename is the only lock. |
| Analyzer, TimeWindowAnalyzer | `bspump/analyzer/*.py` | Forward every event and analyse it. A time window of columns is advanced by a timer at a quarter of the resolution, keeping a margin of a quarter column. |
| Web sources and sinks | `bspump/http/web/server.py` | An aiohttp handler puts the request and a response future into the pipeline, then awaits the future. A web sink at the end of the pipeline resolves it. `gate_response` adds a secret check. Form fields render and validate HTML forms. |
| GitLibraryProvider | `asab/library/providers/git.py` | Clone or fetch a library repository, and pull it periodically on `Application.tick/60!`. |
| jsonbytes, metrics http, utils, setup, examples | | Stateless conversions, one HTTP POST, helpers, packaging. |

### How the parts interact

- The governor's topics drive the components. A component subscribes a callback to a topic, and PubSub calls it synchronously inside `publish`.
- `stop()` is the only way the governor leaves the run phase. FileABCSource calls it under `post=stop`.
- Source tasks run only while the loop runs, which means during the run and exit governors.

### What makes it hard

- **Interleaving and stale state.** A source task picks its file in one loop step and renames it in another, after an `await`. Two sources on one directory race on that rename.
- **Partial failure.** Every step of `_read_file` has its own failure path, and each one leaves the file and the pipeline in a different state.
- **Liveness through callbacks.** Progress through a directory depends on each read scheduling the next health check. A periodic rescan depends on the topic names lining up.
- **Shutdown.** The loop is closed without waiting for pending tasks.
- **Request handlers in flight.** Web handlers of several clients interleave at every `await`. They share a source's `self.fields`, and each waits on a future that only the end of the pipeline resolves.

## 2. Modules

### `Governor.tla`: application.py

The state is as follows:

- `phase` is the main thread's position: `init`, `initialized`, `running`, `exiting` or `closed`.
- `stopEvent` is `StopEvent`.
- `ticks` counts the ticks.
- `published` is a ghost history of the topics.
- `services` and `modules` are `Services` and `Modules`.

There is one action per operation:

| Action | Models |
|---|---|
| `InitTimeGovernor` | `init_time_governor` |
| `Run` | the start of `run()` and of the run governor |
| `Tick` | a `wait_for` timeout |
| `StopObservedByRun` | the wait ending because the event is set |
| `ExitTimeGovernor` | the exit governor and `Loop.close` |
| `Stop` | `stop()` |
| `RegisterService` | `register_service` |
| `AddModule` | `add_module` |

`stop()` runs only while the loop runs, because signal handlers and components are loop callbacks. Registering a service under a taken name raises `KeyError` and changes nothing, so it is not a step.

### `FileSource.tla`: fileabcsource.py under the governor

This module EXTENDS `Governor`. Governor steps leave the source state unchanged, except `Tick`, which also fans out to the subscribers of `tick`. There are none, because the source subscribes to `Application.tick/10!`. The state is as follows:

- `disk` maps each file to the name it has now: absent, present, locked, processed, failed or deleted.
- `pipeline` is the state of each source's pipeline: built, ready or error.
- `started` records that `main()` has run.
- `future` is `self._future` and where its task is: none, await_ready, reading, ok or raised.
- `target` is the file that task was started for.
- `rescan` records a pending `call_soon(_on_health_check)`.
- `reads` is a ghost count of completed reads, saturated at 2.

The actions split `_read_file` at its awaits. Each action is one uninterrupted run of loop code:

| Action | Models |
|---|---|
| `StartSource` | `main()` |
| `ScheduledHealthCheck` | the `call_soon` callback |
| `LockFile` | from the resume after `Pipeline.ready()` to the start of `read`, with the not-found, rename-error and open-error branches |
| `ReadSucceeded` | the return of `read`, the flush and finalisation by post mode, and the rescan |
| `ReadFailed` | `read` raising, the rename to `-failed` or back, and re-raising |

A pending task is never restarted by a health check, and a done one is collected. `HealthCheck` is the body of `_on_health_check`, and every action that calls it includes it.

A few definitions are modelled from `spec.md`, because their code is not under `src/`:

- `_glob_scan` returns some file with its original name, or None.
- The pipeline's bootstrap (`PipelineReady`).
- A stage error (`StageError`).
- PubSub's fan-out.

They are marked `spec_modelled` in the map. `Faults` enables the error paths (rename, open, read, finalise, stage).

### `FileClaims.tla`: what the `-locked` rename promises

`FileClaims` is the abstract specification of the file lock, with no tasks, futures, pipelines or governor. Its state is each file's `name` (absent, visible, claimed, done, failed) and its `holder`, the set of sources reading it. It has three actions:

- `Arrive`: a file appears.
- `Claim(s, f)`: an idle source claims a visible file. It either starts a read (`holder = {s}`) or leaves the claim without a reader.
- `Release(s, f)`: only the reader ends a claim. The file becomes done, failed, visible again (post=stop) or stays claimed (a failed finalising rename).

Done and failed files never change again. A claim without a reader is never released. This is the `-locked` file left by an open failure (`fileabcsource.py:114`), and the spec states it rather than hides it.

`FileSource` implements `FileClaims` under the mapping `FC`:

- `name` is `ClaimName(disk[f])`: present is visible, locked is claimed, processed and deleted are done.
- `holder` is `Readers(f)`, the sources whose future is reading `f`.

`ImplementsFileClaims == FC!ClaimsSpec` is checked as a PROPERTY by filesource_race, and proved in `FileSourceProofs`. Under the mapping:

- `LockFile`'s rename is a `Claim`;
- the ends of `read` are `Release`s;
- health checks, pipeline steps and governor steps are stutters.

### `TimeWindow.tla`: timewindowanalyzer.py and analyzer.py

The clock is an integer `now`, counted in fine units. `Resolution` is the column width in those units, and a multiple of 4, so the code's float test `dt > 0.25` is exact as `4*(Start - target) > Resolution`.

The matrix (`TimeWindowMatrix`, spec 4.4, not under `src/`) is reduced to two things:

- `start`, the `TimeWindow.Start` that `advance` compares with. It is the upper edge of the newest column, because the loop ends only if `add_column` moves it forward.
- `counts`, one counter per column.

The asab Timer fires every `Resolution/4`, restarts itself, and runs `_on_tick` up to `Lateness` units late. `_on_tick` reads the clock, and `advance` then runs its loop with one action per iteration:

| Action | Models |
|---|---|
| `OnTick` | the timer firing and `target_ts = time.time()` |
| `AddColumn` | one `add_column()` while the margin is not reached |
| `AdvanceDone` | the `break` |
| `Process(ts)` | `Analyzer.process` evaluating an accepted event into its column |

The clock does not move during `advance`, because it is synchronous.

### `WebServer.tla`: server.py

One web source per route kind in `Routes` (plain route, protected route, form, protected form, JWT form) serves the requests in `Requests`. A request's input is abstracted to five things:

- its route;
- where its secret is (query or Bearer) and whether it is right;
- its method;
- whether its body is JSON and has its form's fields;
- which of the `Variants` forms it was filled in from.

Per request, `pc` follows the handler, `fut` the response future and `ev` the event in the pipeline. `fields` is each form source's `self.fields`.

| Action | Models |
|---|---|
| `Arrive(r)` | aiohttp dispatching a request to the route |
| `HandleRoute(r)` | `WebRouteSource.handle_request`: `await self.process(...)`, or a 500 when the pipeline is not ready |
| `HandleProtectedRoute(r)` | `ProtectedWebRouteSource.handle_request`: `gate_response` with the configured string as `test_secret` |
| `HandleFormGet(r)` | `WebFormSource.handle_request`, behind the gate for the protected ones: regenerate `self.fields`, render (the JWT form re-reads `query["secret"]`) |
| `HandleFormPost(r)` | `handle_post`: the gate (protected form), JSON, field presence and `clean`, then `clean_and_process`'s `self.process`, in the code's order (`PostOutcome`). `JWTWebFormSource` overrides it without a gate: JSON, then the decoding of `query["secret"]` (KeyError 500, undecodable 400), then the fields (`JWTPostOutcome`) |
| `Deliver(r)` | the end of the pipeline: `WebSink.process` resolving the future (a no-op with an error on a cancelled one), or, with `Faults`, a stage or the sink raising or dropping the event |
| `Respond(r)` | `return await response_future` |
| `Disconnect(r)` | the client leaving: aiohttp cancels the handler and its future |
| `PipelineReady(k)` | the bootstrap of route `k`'s pipeline (spec 4.3) |

With `StopOnErrors = False` (server.py:86), a failing stage leaves the pipeline ready, so the pipeline has no error state here. How the stages and the sink run is spec-modelled: a failure there simply loses the event. An event lost with `StopOnErrors = False` leaves its handler awaiting the future with no timeout, until the client leaves (server.py:110). `AnsweredUnlessLost` checks that this is the only way a handler is left waiting. Validation against `self.fields` is abstracted to `FieldsAccept`. A static list and the form a body was filled in from judge it correctly. No fields (a callable before any GET) accept anything. Another client's form may accept or reject it.

### `GitLibrary.tla`: git.py

`pull()` is split at its two awaits. Each caller of `pull()` (the periodic pull and any other coroutine) has a `pc`. Commits are numbered in the order they reach the remote. `workdir` is the commit merged into the working directory, and `lastCommit` is `self.LastCommit`.

| Action | Models |
|---|---|
| `GitInit` | `__init__` up to `_check_remote`: `LastCommit` is `None`, and the working directory holds the remote HEAD, just cloned or cached by an earlier run (`boot`) |
| `CheckRemote` | `_check_remote`: fetch and record the remote HEAD as `LastCommit`, or, with `Faults`, `SystemExit` |
| `UpdateCachedClone` | the cached path's second `fetch` and `merge`, which leave `LastCommit` alone |
| `RemoteCommit` | a push to the remote (environment) |
| `StartPull(c)` | a call of `pull()` handing `fetch` to the proactor |
| `Fetch(c)` | `fetch` in a pool thread: the remote HEAD, or, with `Faults`, an exception out of `pull()` |
| `FetchReturned(c)` | `pull()` resuming: return if `commit_id == LastCommit`, else record it and hand `merge` to the proactor |
| `Merge(c)` | `merge` in a pool thread, or, with `Faults`, raising; `pull()` ends either way |

Pushes may land between any two of these steps, start-up included. On a fresh clone, a push between `clone_repository` and `_check_remote` leaves `LastCommit` naming a commit the working directory does not hold. `pull()` then returns early until the next push (hazard git.py:59). On a cached clone, a push between the two fetches leaves `LastCommit` behind until the next pull (hazard git.py:66). Neither moves `LastCommit` back, so the Git run's property does not catch them. They are recorded as hazards with TLC's trace described, not as runs.

## 3. Runs

| Run | cfg | Expect | Shows |
|---|---|---|---|
| governor_lifecycle | MCGovernor.cfg | pass | Subscribers see `init`, `run`, ticks, `exit` in that order, each lifecycle topic once (`Lifecycle`). The run phase ends only on `stop()` (`ExitOnlyOnStop`). A `stop()` while running always leads to `closed` (`StopTerminates`). |
| governor_stop_lost | MCGovernorStopLost.cfg | violation | `StopIsPermanent`: a `stop()` during the init governor is cleared by `run()` (application.py:89). |
| filesource_race | MCFileSourceRace.cfg | pass | Two sources with every fault enabled, one configured with an unknown post value (which falls back to move) and one with post=stop, which renames files back. The lock is exclusive, and a file is read only while it is `-locked` (`ExclusiveRead`), through renames back, failures and a `stop()` during reads. The whole model implements `FileClaims` (`ImplementsFileClaims`). |
| filesource_drain | MCFileSourceDrain.cfg | pass | With no faults, two sources (post=delete and post=move) empty a directory of three files through the `call_soon` chain, lost races included (`DirectoryDrained`), and no file is read twice (`ReadAtMostOnce`). |
| filesource_new_files | MCFileSourceNewFiles.cfg | violation | `NewFilesEventuallyRead`: with ticks as fair as the run governor's `wait_for` timeout, a file present while a tick is still to come is never read once the sources are idle, because the health check is subscribed to `Application.tick/10!` and the governor publishes `tick`. With the topic set to `tick` the property holds on the same model, so the topic alone causes the violation. |
| filesource_locked_at_exit | MCFileSourceLockedAtExit.cfg | violation | `NoLockedFileAfterExit`: a `stop()` during a read closes the loop with the file still `-locked`. |
| timewindow_on_time | MCTimeWindow.cfg | pass | With an on-time timer, once advanced, the window has a column for the present and for every event up to (columns - 5/4) resolutions old (`WindowCoversRecent`). |
| timewindow_late_timer | MCTimeWindowLate.cfg | violation | The same property with the timer task one unit (1/8 column) late. The clock passes the window's edge, because the timer period equals the margin. Spec 4.4 claims one cycle of delay is absorbed. |
| web_serving | MCWebServerServing.cfg | pass | A plain and a protected route, and a protected and a JWT form, on one server with static fields, failing stages and leaving clients. Only requests with the right secret and a valid body reach a pipeline (`PipelineSeesOnlyValidRequests`). Every request is answered, or given up by its client, unless a stage lost its event (`AnsweredUnlessLost`). A not-ready pipeline, and a sink failing on a cancelled future, never leave a handler waiting. |
| web_valid_secret_refused | MCWebServerSecret.cfg | violation | `ValidSecretServed`, violated in two ways. `ProtectedWebRouteSource` calls its secret string, so a right secret gets a 500 (server.py:152). A JWT sent as Bearer passes the gate, then `query["secret"]` raises KeyError (server.py:608, 623). |
| web_generated_fields | MCWebServerGeneratedFields.cfg | violation | `PipelineSeesOnlyValidRequests`: with a fields callable, a POST is checked against the last GET's form, or against no fields before any GET (server.py:434). |
| git_pull_concurrent | MCGitLibraryConcurrent.cfg | violation | `LastCommitNeverBack`, an action property: `pull()`, documented as the equivalent of `git pull`, never moves `LastCommit` back. Two overlapping `pull()` calls break it while the remote receives commits. The pull whose older fetch returns last sets `LastCommit` back to the older commit, while the other merges the newer one (git.py:84). |

### Bounds

- **Governor.** At most 3 ticks, 2 modules, 1 service name and 2 service objects. This covers a stop in every phase, ticks before and after it, and a taken name.
- **TimeWindow.** Resolution 8 (timer period 2), 2 columns, a clock up to 20, and events up to 6 units old, which is the largest age the margin allows. This covers every alignment of the window's edge against the timer, several wraps of the columns, and an edge exactly at the margin. That is where an off-by-one comparison (`>=`) fails.
- **FileSource.** 2 sources and 2 files (3 for draining), 1 tick (2 for the new-files run, so that a file can arrive while a tick is still to come), and no modules. Two sources are the smallest case with a lock race. Two files let one source hold a file while the other picks the next one. Three files are needed for a missing rescan to strand a file. The `reads` counter saturates at 2, which is all `ReadAtMostOnce` can tell apart.

- **GitLibrary.** 2 callers with one pull each and 2 pushes. That is the smallest case where two pulls' fetches return different commits and their results are applied in either order.
- **WebServer.** 2 requests, and 1 or 2 generated forms. The passing run serves four of the five source kinds; the unprotected form differs from the protected one only by the gate, and the generated-fields run exercises it. Two requests are the smallest case where one client's GET changes the fields another's POST is checked against, and where one request is answered while the other is cancelled or lost. Every secret position, method and body kind is enumerated.

Deadlock checking is off in these runs: `closed` is the end of the process, and a source with nothing to read is idle by design.

### Fairness

Weak fairness is assumed only for work the asyncio loop has already been handed and will run:

- the three governors' steps, and `run()` being called after `__init__`;
- a tick while the application runs, its stop event is clear and the bound allows one, in the FileSource model only: the run governor's `wait_for` times out every `tick_period` (application.py:157-160);
- `main()` once a pipeline starts;
- a pending `call_soon`;
- a task resuming once the pipeline is ready;
- a read completing;
- the pipeline's bootstrap;
- a web handler, a stage and the sink once their request or event is there, and a handler resuming on a resolved future.

Outside FileSource, ticks carry no fairness, because no property there depends on them. `stop()`, new files, requests, client disconnections and faults are the environment's choice and carry no fairness.

### Mutants

Each property of a passing run is broken by a plausible bug in a mapped definition (`PROJECT.json`, `mutants`):

- a lock that ignores `FileNotFoundError` (it breaks `ExclusiveRead` and the refinement);
- post=move renaming the file back;
- a missing `call_soon` after a read;
- `break`/`continue` swapped in the run governor;
- a future never resolved;
- misnamed topics;
- a sink resolving a future other than the event's;
- a gate that trusts Bearer tokens untested;

The violation runs have no mutants: each shows one property failing on the code as written.

## 4. Proofs

`GovernorProofs.tla` proves three theorems for every value of the constants:

- `GovTypeCorrect`: `GovSpec => []GovTypeOK`.
- `GovSafety`: `GovSpec => [](Lifecycle /\ ExitOnlyOnStop)`.
- `GovExitOnlyOnStop`: `GovSpec => []ExitOnlyOnStop`, the invariant of the governor run on its own, taken from `GovSafety`.

`Lifecycle` alone is not inductive. A `Run` step from a state that satisfies `Lifecycle` but has `ticks > 0` in phase `initialized` would give a history of the wrong length. The inductive invariant `GovIInv` therefore adds two things:

- the type invariant;
- `TicksBeforeRun`: there are no ticks before `run()`.

The proof has one step per action and, under it, one step for each conjunct the action changes. It rests on `AppendProperties` from `SequenceTheorems`, and on a lemma `ExpectedTopicOpen`: while the loop is open, the expected topics at the old positions are unchanged by an append. The only assumption is `GovernorAssumption`: the bounds are naturals, and `NoService` is not a service.

`TimeWindowProofs.tla` proves two theorems:

- `TwTypeCorrect`;
- `WindowCovered`: for every resolution that is a multiple of 4, every column count and every event age with `4*MaxEventAge <= (4*Columns - 5)*Resolution`, a timer with `Lateness = 0` gives `TwSpec => []WindowCoversRecent`.

The inductive invariant `TwIInv` says four things:

- While `advance` runs, its target is the present and the timer has just been restarted.
- The timer is never overdue by more than `Lateness`.
- When idle, the edge is at most 5/4 of a column ahead.
- After an advance, the edge lies strictly after the next firing and at most one column beyond it.

The two bounds of the last conjunct are exactly the two edges of `WindowCoversRecent`. The late-timer run shows that the hypothesis `Lateness = 0` cannot be dropped.

`WebServerProofs.tla` proves two theorems for any requests and any set of route kinds:

- `WsTypeCorrect`.
- `GateSound`: with static fields (`~GenerateFields`), `WsSpec => []PipelineSeesOnlyValidRequests`.

The property alone is not inductive, for two reasons. An `Arrive` could rewrite the input of a request already in the pipeline. A form source could hold fields generated for another form. The inductive invariant `GateIInv` therefore adds that every injected request has arrived, and that every form source still holds its static list. Two lemmas carry the argument:

- `PostPasses`: a POST that reaches the pipeline had the right secret (checked by the gate, or by the JWT form's own decoding) and a body the fields accept.
- `InjectKeeps` / `RefuseKeeps`: a handler that injects a valid request, or refuses one, keeps the invariant.

The generated-fields run shows that the hypothesis cannot be dropped.

`GitLibraryProofs.tla` proves two theorems, under `GitConstants` (the bounds are naturals, at least one commit):

- `GitTypeCorrect`.
- `SerialPullsNeverBack`: with `SerialPulls` (a single caller of `pull()`), `GitSpec => LastCommitNeverBack`. The theorem covers both start-up paths, pushes between any two steps, and failing fetches and merges.

`LastCommitNeverBack` is an action property, and a step can move `LastCommit` back only by recording an older commit. The inductive invariant `NeverBackIInv` bounds what can be recorded:

- `LastCommit` and every fetched `commit_id` are at most the remote HEAD, which only grows.
- No pull runs before `__init__` has finished, so `_check_remote` never overtakes a fetched id.
- With a single caller, a fetched `commit_id` is at least `LastCommit`, because `LastCommit` last changed before that fetch.

`NeverBackStep` derives the action property from the invariant one action at a time. The run git_pull_concurrent shows that the single-caller hypothesis cannot be dropped.

`FileSourceProofs.tla` proves four theorems for any sources, files, post settings and fault switch, under `FileSourceAssumption`:

- `FsTypeCorrect`: `FsSpec => []FsTypeOK`. It rests on the governor's `GovTypeStep`, through a lemma that every FileSource step is a governor step or a stutter.
- `ExclusiveReadHolds`: `FsSpec => []ExclusiveRead`.
- `ReadAtMostOnceHolds`: with no source on post=stop (`NoStopPost`), `FsSpec => []ReadAtMostOnce`.
- `FileClaimsRefinement`: `FsSpec => ImplementsFileClaims`.

`ExclusiveRead` alone is not inductive, because a task awaiting `ready()` may hold a target that is not a file. The inductive invariant `FsIInv` has four conjuncts:

- the type invariant;
- `PendingTarget`: a pending future's target is a file;
- `ReadersLocked`: a reading future's file is `-locked`;
- `OneReader`: at most one source reads a file.

`LockFile` keeps `OneReader`, because it only turns a *present* file into a read one, and no reader holds a present file. `ReadAtMostOnce` adds `ReadOnce`: a file read to the end is processed, deleted or still `-locked`, and nobody reads it. Post=stop breaks this by renaming the file back, so the theorem takes `NoStopPost` as a hypothesis. The drain run is an instance of it.

The refinement proof maps the initial state to `ClaimsInit`. It then shows, under `FsIInv` in both states, that every step is a `Claim`, a `Release`, an `Arrive` or a stutter of `<<name, holder>>`, one lemma per action. It ends with PTL.

### Only model-checked

These stay with TLC:

- the liveness properties (`StopTerminates`, `DirectoryDrained`, `AnsweredUnlessLost`). TLAPS cannot prove them, because they need ENABLED and reasoning under fairness;
- the properties of the violation runs (`StopIsPermanent`, `NewFilesEventuallyRead`, `NoLockedFileAfterExit`, `WindowCoversRecent` with a late timer, `ValidSecretServed`, `PipelineSeesOnlyValidRequests` with generated fields, `LastCommitNeverBack` with two callers). They fail on the code as written, and each has a counterexample trace instead of a proof.

## 5. Not modelled yet, and the plan

1. **Done:** Governor, FileSource, and the governor proofs.
2. **Done:** TimeWindow (clock-driven). Left: `clock_driven=False`, where concrete analyzers outside `src/` call `advance`, and the window before the first timer firing, since `__init__` does not advance it (hazard `timewindowanalyzer.py:87`).
3. **Done:** WebServer: every route and form handler, the gate, the sinks, cancellation, lost events, and the gate proof. Left: `WebServerConnection` start-up, and fan-out stages resolving one future twice.
4. **Done:** GitLibrary: both start-up paths, `pull`, `fetch`, `merge`, the concurrent-pull finding and the serial-pull proof. Left: a run that shows the start-up windows (`git.py:59`, `git.py:66`), and the periodic pull's topic (`git.py:74`), which needs GitLibrary composed with Governor.
5. **Done:** refinement of `FileClaims` by `FileSource`, checked and proved.
6. **Done:** the proofs of `FsTypeOK`, `ExclusiveRead` and `ReadAtMostOnce` (without post=stop) for every number of sources and files.

Not modelled, and why:

- form field rendering, `restructure_data` and HTML formatting, which are presentation (validation is abstracted in `FieldsAccept`);
- `jsonbytes`, `utils.py` and the metrics POST, which are stateless conversions and single I/O calls;
- `setup.py`, the Kafka re-exports and the example.
