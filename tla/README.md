# A verification model of ClipSaver (Vidora)

ClipSaver is a Flutter application (`app/`, called Vidora in its own text) that
downloads media the user may download, keeps a library of it and converts it,
and a NestJS server (`server/`) that decides what may be downloaded. This
directory holds TLA+ modules that model the parts of it where order, failure and
interleaving matter, the TLC configurations that check them on small instances,
and proofs, checked by TLAPS, of the most important results for every instance.
Paths below are relative to `src/` unless they name a file of this directory.

Contents: [the system](#the-system), [the plan](#the-plan),
[the modules](#the-modules), [the runs](#the-runs), [the bounds](#the-bounds),
[fairness](#fairness), [the proofs](#the-proofs),
[where the code does not keep its comments](#where-the-code-does-not-keep-its-comments),
[what is left out](#what-is-left-out).

## The system

Everything in the app runs on one Dart event loop: a handler is atomic up to its
next `await`, and whatever is read before an `await` may be stale after it. The
SQLite database (drift) lives behind an isolate that serves statements in the
order they were issued. The server is a Node process with one event loop as
well, with Postgres and Redis behind it and possibly several replicas of it.

| Component | State | Operations | Interacts with |
|---|---|---|---|
| Download lifecycle (`downloads/domain`) | a task's state, retries, byte counts | `transitionTo`, `withProgress`, `copyWith` | used by manager and engine |
| Download manager (`downloads/application/download_manager.dart`) | `_running`, `_stopRequested`, `_resumeRequested`, `_pumping`, `_disposed` | enqueue, pause, resume, cancel, retry, pauseAll, resumeAll, clearFinished, restoreQueue, dispose, the pump, the backoff | table, engine, Downloads screen |
| Download engine (`download_engine.dart`) | `_active`: the stop intent and the handle of each transfer | `run`, `pause`, `cancel` | transport, file system, `onUpdate` saves to the table |
| Transport (`dio_download_transport.dart`) | none | `open` with a range, 416 and header handling | the origin |
| File system (`core/storage/io_download_file_system.dart`) | part files, finished files | sizeOf, delete, rename, append | the disk |
| Download table (`drift_download_repository.dart`) | rows ordered by (finished, priority, createdAt) | enqueue, save, findById, all, clearFinished | the drift isolate |
| Enqueue (`enqueue_download_use_case.dart`) | none | builds the task of an (item, format) | manager |
| Converter (`features/converter`) | `_running`, `_pumping`, the in-memory jobs, `_running`/`_canceled` of the process runner | enqueue, cancel, retry, clearFinished, dispose, the pump, FFmpeg runs | library files |
| Library (`features/library`, `core/storage/search_index.dart`) | library rows, FTS5 index rows | save, rename, tags, favorite, trash, restore, purge, reconcile | file system, search |
| Search (`features/search`) | query and results on screen | debounced search, suggestions, facets | FTS5 index, library |
| Analysis in the app (`features/analyze`, `core/network`) | phase of the screen, history rows, retry counter of a request | analyze, retry, history | server |
| Premium (`features/premium`) | entitlements in force | buy, restore, refresh | store, server billing |
| Settings (`features/settings`) | one JSON row | load, apply | table |
| Intelligence (`features/intelligence`) | none | pure detectors over the library | library |
| Server auth (`server/src/modules/auth`) | users, refresh tokens in families | register, login, refresh, logout | Postgres |
| Server analysis (`modules/analysis`, `modules/eligibility`) | cache entries, queue jobs | analyze through a job queue | Redis, origins |
| Server billing (`modules/billing`) | one entitlement per account, in memory | redeem, status | stores |
| Server health, config | the timers of the checks under way | live, ready | Postgres, Redis |
| UI, theme, routing, l10n, generated code, platform runners, prototype, deploy, CI | - | - | - |

What is hard, and what makes each part correct:

* **Manager, engine and table together** (the core). The pump awaits a listing,
  then starts a task of it with no further look at the table; every engine step
  saves the engine's own copy over whatever the row holds by then; `pause` and
  `cancel` decide between engine and table by `_running`, which also holds tasks
  the engine no longer, or never, knows about (the backoff). Correct means: never
  more runs than slots; no queued task is left beside a free slot (a trigger that
  arrives during a pump is dropped); no starvation; a row says "downloading" only
  while something can still correct it; a paused download stays paused until the
  user resumes it; a canceled one stays canceled; a restart leaves nothing stuck.
* **The bytes of one download.** A part file outlives attempts, process deaths and
  changes of the resource at the origin. Correct means: it is always the
  beginning of one version of the resource as long as there is one version; the
  counts saved agree with it; what appears at the destination appears whole, in
  one step, and before the row says `done`.
* **Converter.** The same pump over an in-memory map, whose futures are complete
  when they are awaited, so the gaps that make the download manager hard are not
  there; what is left is the process: a cancel may arrive before it starts, while
  it starts, or after it ended, and enqueueing a pair (entry, target) again
  replaces the job of a conversion that is running; and the output path comes from
  the source path and the target, so jobs of two entries may write to one file.
  Correct means: one process per job, a cancel is never lost, no job waits beside a
  free slot, and what is shown completed has its output, with the settings shown.
* **Library and index.** `save` writes row and index row in one transaction, but
  the operations read the entry before it; purge selects before its transaction;
  opening the screen starts reconcile and purge side by side
  (`app/lib/features/library/presentation/library_view.dart:34`). Correct means:
  the index holds exactly the entries that are not trashed; what is in the trash
  stays there until it is restored or its days are over; no update is lost that
  did not overlap another.
* **Analysis on screen, search.** An answer that arrives late must not replace the
  answer to a newer question.
* **Auth.** Check-then-create on registration; refresh tokens rotate by read,
  revoke, create, in three statements. Correct means: one live token per family,
  nothing live in a revoked family, no session closed by another, and an e-mail
  that always leads to the same account.
* **Analysis on the server.** Two requests for one URL share a job; failures are
  said not to be cached, while the queue keeps failed jobs; jobs are retained, runs
  stall and are given to another worker, and an origin may never end its page.
  Correct means: one probe for concurrent requests; the eligibility rules reach
  every verdict; no answer is older than one given before; every request ends.
* **Billing.** Verify, find, upsert in three steps. Correct means: a transaction
  belongs to one account, what is granted is one the store stands behind, and a
  plan only runs out.
* **Health.** Checks race timers, probes overlap. Correct means: an answer in the
  time of one check, and `ok` only on the word of every dependency.

`PROJECT.json` lists these under "components" (with what is modelled) and, line by
line, under "hazards".

## The plan

The order is that of importance to the user. Rows 1 to 11 are done.

| # | Module | Models | Composes | Abstract specification | Runs |
|---|---|---|---|---|---|
| 1 | `DownloadStates` | lifecycle as data | - | - | through 2 and 3 |
| 2 | `DownloadQueue`, `DownloadCancel` | manager, engine control, table | 1 | - | `queue_safety`, `queue_liveness`, four findings |
| 3 | `DownloadTransfer` | bytes, transport, files | 1 | `Delivery` | `transfer`, `open_throws` |
| 4 | `Converter` | manager and FFmpeg process runner | - | - | `app` |
| 5 | `LibraryIndex` | rows, index, trash, purge, reconcile | - | the index as a function of the rows | `app` |
| 6 | `Sessions` | accounts, token families, access tokens | `ServerClock` | - | `server_safety` |
| 7 | `Eligibility`, `AnalysisJobs` | rules; job queue, workers, cache, probe | each other | - | `server_safety`, `server_liveness`, `page_status` |
| 8 | `Entitlements`, `Billing` | verifiers and plan; redeem and stores | each other, `ServerClock` | - | `server_safety` |
| 9 | `Readiness` | probes, checks, timers | `ServerClock` | - | `server_liveness` |
| 10 | `DownloadQueue_proofs`, `Sessions_proofs`, `Analysis_proofs`, `Billing_proofs`, `Readiness_proofs` | - | 2, 6, 7, 8, 9 | - | proofs |
| 11 | `DownloadTransfer_proofs`, `LibraryIndex_proofs`, `Converter_proofs` | - | 3, 5, 4 | `Delivery` | proofs |
| 12 | analysis on screen, search, store purchases in the app | answers that arrive late | - | the newest question is answered | 1 |

Every safety property that a passing run checks is now also a theorem. Worth stating
and proving next: the rules of `Eligibility` for a link with an owner and what
`ResolveEntitlement` makes of several subscriptions, as lemmas about the operators;
and the life of one download, of one library entry and of one conversion as
abstract specifications, implemented by the modules that have many of each.

## The modules

### DownloadStates

The states, the transition matrix (`download_state.dart:61-71`) and the retry
budget of `DownloadTask.transitionTo` as operators: `CanMove(task, next)` is the
test, `Moved(task, next)` the effect, which counts `failed -> queued` as a retry.
A task is reduced to its state and its retries.

### DownloadQueue

| Variable | Code |
|---|---|
| `rows` | the download table, one row per id, `Absent` for none |
| `before` | the order of `createdAt`, which ranks the listing (`drift_download_repository.dart:88-98`) |
| `running`, `stopRequested`, `resumeRequested`, `pumping`, `disposed` | the manager's fields of those names |
| `eng` | one attempt per running task: how far `_transfer` got, the engine's copy of the task, the intent of `_ActiveTransfer`; the phases `backoff` and `requeueing` are `_scheduleRetry` |
| `calls` | table calls whose continuation has not run, oldest first |
| `woken`, `parked` | history, read by no guard: a pump ran since the process started; a pause ended the last run and no resume came since |

Statements are applied when they are issued and queries carry the answer they
will get, because the isolate serves them in order; what a continuation sees is
therefore the rows of the moment of the call and the manager's fields of the
moment it runs. This is where the interesting interleavings come from.

| Action | Code |
|---|---|
| `Pump(cs)` in the handlers, `PumpStarts`, `PumpEnds` | `_pump`, `_nextRunnable`, the synchronous beginning of `_run` |
| `Opens`, `OpenFails`, `Progresses`, `Completes`, `Breaks`, `Overshoots`, `OvershotFails`, `Pauses`, `DropsPart`, `Cancels`, `Verifies`, `IntegrityFails` | `_transfer`, one action per stretch between awaits |
| `Throws` | an exception out of `run` (a file operation, the entity's constructor): only the `finally` blocks act |
| `Fail`, `EndsAs`, `Finish` | `_fail`, the return of `run`, the `finally` of `_run` with its pump |
| `BackoffElapses`, `RereadAnswered`, `RequeuedAnswered` | `_scheduleRetry` between its awaits |
| `Enqueue`, `EnqueueAnswered`, `StopTask`, `StopAnswered`, `Resume`, `ResumeAnswered`, `Retry`, `RetryAnswered`, `RetriedAnswered` | the operations, cut at their awaits |
| `BulkStart`, `PauseNext`, `ResumeNext` | `pauseAll`, `resumeAll` |
| `RestoreQueue`, `RestoreNext`, `RestoreEnds` | `restoreQueue`, called whenever the Downloads screen is built |
| `ClearFinished`, `Dispose`, `Crash` | `clearFinished`, `dispose`, the death of the process |

`DownloadCancel` adds one history variable to it: the downloads a cancel was asked
for. `MCDownloadQueue` adds the symmetry of the ids.

### DownloadTransfer and Delivery

`DownloadTransfer` follows one download through all its attempts with its bytes.
A byte is `<<version, position>>`, so a file that mixes two versions of the
resource, or has bytes at the wrong place, differs from every version. `origin`
is the version now served, `row` the saved state and counts, `part` and `dest`
the files, `att` the attempt (the engine's copy, the bytes received, what the
stream still holds, the digest published). `readings` are the rows the manager's
handlers have read and not yet acted on: `PumpReads`, `RestoreReads`, `RetryReads`
and `StopReads` ask, under the conditions of the code (only `StopReads` looks
whether an attempt runs, as `pause` and `cancel` look at `_running`), and `Start`
and `Acts` follow at any later time, on the row that was read, whatever the row or
the attempt has become. `restoreQueue` may so write `paused` over a download that
is done. `Forgets` is a handler that finds nothing to do. `Answers(r)` is what
`DioDownloadTransport.open` makes of the origin's answer: the whole resource, the
range, or 416, with or without a length and a digest; for a 416 without
`Content-Range` the length is computed from the error page, which is why wrong
totals are among the answers. `Dies` loses bytes not yet flushed.

`Delivery` states what the user is promised, without bytes on the way: states move
along the matrix, the file appears in one step while an attempt verifies, and
`done` is only said after that. One thing may happen out of turn (`Late`): somebody
who read a state that is no longer the state acts on it, and a former state comes
back, also over `done`; even then nothing becomes `verifying` or `done`, and the
file is not touched. `DownloadTransfer` implements it (`DeliveryKept`) under the
mapping `st` = the engine's copy while an attempt runs and the row otherwise,
`out` = the destination, `ready` = renamed but not yet `done`, `overtaken` = a
reading is older than the row, or the row of a running attempt was written over.

### Converter

| Variable | Code (`app/lib/features/converter/`) |
|---|---|
| `maxConcurrent`, `disposed` | the manager's fields; a limit below one is one |
| `jobs`, `before` | the map of `InMemoryConverterRepository` and its order of insertion, which ranks the queued jobs |
| `runs` | the futures of `_run`, with the job each was started with; `_running` holds those that are not "none" |
| `canceled` | `_canceled` of `ProcessMediaConverter` |
| `output` | external: the file at each output path: the job and the settings it was last opened by, whether another process wrote to it then, and whether it is finished |

`OutputPath` gives the path of a job with its settings (`ConversionJob.outputPath`):
two jobs may have one.

The futures of the repository complete in microtasks, so an event runs to its next
wait for a process before any other: `Pump` is part of `Enqueue`, `Retry` and
`EndsAs`, which every end of a run goes through, and takes in one step what its
loop takes one after the other: as many of the waiting as there are free slots, the
earliest inserted first (`FirstOf`). `ProcessStarts`, `StartFails`,
`Progresses`, `ProcessExits` and `Settles` are the stretches of
`ProcessMediaConverter.run` between its waits: the start, a line of progress, the
exit code, the end of both streams; `StreamsFail` is the path on which what a
process printed does not decode: `run` throws, and only the `finally` of the manager
frees the slot and pumps. A cancel (`CancelRunning`, or `CancelQueued`
for a job without a run) may come between any two of them.

### LibraryIndex

| Variable | Code (`app/lib/features/library/`, `app/lib/core/storage/`) |
|---|---|
| `rows`, `index` | `library_entry_rows` and `library_search`, of which status, trash date and title are kept; of the index, all lines of each entry |
| `tx` | the transaction under way: the tables as its statements see them, and which statement comes next for each entry |
| `pending` | the operations between their read and their transaction, in the order in which the isolate will serve them |
| `passes` | each `ReconcileLibraryFilesUseCase` under way: what it listed and has not looked at, what it found |
| `files` | external: whose file exists |

`Transition` is `_transition` up to its `save`, `PurgeSelects` is
`purgeExpiredTrash` up to its transaction. `Begins` opens the transaction of the
oldest operation; its statements, each awaited, are `PutsRow`, `RemovesLine` and
`InsertsLine`, for a purge entry by entry (`Turn`); `Commits` makes them visible.
Between any two of them `WriteFails` rolls back or `Dies` ends the process. What
agrees in the end is therefore the work of the statements and of the transaction
around them: with the row written outside of it, `IndexAgrees` is violated.
Queries wait while a transaction is open. `PassLists`, `PassLooks`, `PassMarks`
and `PassEnds` are a reconciliation cut at its awaits. Operations of different
entries meet only in the queue of the isolate and in a purge. `steady` and
`crowded` are histories: what nothing else touched since a pass listed it, and
what another operation was about to write when this one read.

### ServerClock, Sessions

| Variable | Code (`server/src/modules/auth/`) |
|---|---|
| `durable` | Postgres or the in-memory repositories (`auth.module.ts`) |
| `users`, `tokens` | the rows, by position and by number of issue |
| `handlers` | what each request of `AuthService` at work awaits, and the locals it has read |
| `known`, `access` | what went out to clients: refresh tokens, and until when the access tokens of a family pass the guard |
| `forked`, `deadline` | histories: families rotated twice at once; when access to a revoked family must be over |

One action per awaited call: `RegisterFinds`, `RegisterCreates`; `LoginFinds`,
`LoginCompares`; `RefreshFinds`, `RefreshFindsUser`, `RefreshRevokes`,
`KillsFamily`; `LogoutFinds`, `LogoutRevokes`; `Issues` and `Answers` are
`issuePair`. `Fails` rejects any of them, `Restart` ends the process. Every
request may come in at any time, on any replica. `ServerClock` is the clock that
`Sessions`, `Billing` and `Readiness` read.

### Eligibility, AnalysisJobs

`Eligibility` has the rules of `modules/eligibility/domain` as operators:
`CheckUrlSafety`, `DetectLicense`, the four adapters and `Evaluate` with the order
the service applies them in. `AnalysisJobs` is the way to a verdict:

| Variable | Code (`server/src/modules/analysis/`) |
|---|---|
| `queued` | whether `REDIS_URL` is set, and with it the executor (`analysis.module.ts`) |
| `jobs` | external: the BullMQ job under the hash of each link |
| `runs` | each call of `AnalysisService.analyze`, in a worker or, without Redis, in its request: the call it awaits and the verdict it holds |
| `cache`, `requests` | `AnalysisCache`; the HTTP requests that wait |
| `origin` | external: what the origin of each link would show |
| `newest`, `wentBack`, `excused`, `refused` | histories: the newest verdict answered, links answered with an older one later, links two runs of which nothing kept apart, verdicts whose page was answered with 401, 402 or 403 |

`Asks`, `HearsOfJob`, `GivesUp` are `execute` (the job, `waitUntilFinished`, its
timeout); `WorkerTakes`, `ReadsCache`, `HeadAnswers`, `PageAnswers`, `BodyArrives`,
`Stores`, `Finishes`, `CallFails` and `RequestFails` are `analyze` and the probe,
cut at their awaits. `WorkerDies`, `LosesLock`, `JobRemoved`, `EntryExpires`,
`ProcessRestarts` and `OriginChanges` are what may happen to them. BullMQ is
modelled by what the code asks of it: an id that exists is not added again, a
stalled job runs once more, only the owner of the lock ends the job.

### Entitlements, Billing

`Entitlements` has what the verifiers make of a store's answer (`VerifyApple`,
`VerifyGoogle`, `VerifyStripe`: the set of purchases, one or none) and
`ResolveEntitlement`. `Billing` redeems:

| Variable | Code (`server/src/modules/billing/`) |
|---|---|
| `store`, `events` | external: each subscription bought, its id and end; how often they changed |
| `held` | the map of the entitlements repository, by account |
| `redeems` | each redeem at work: after `verify`, after `findByTransaction` |
| `raced` | history: transactions two redeems of which were between search and upsert |

`RedeemVerifies`, `RedeemFinds`, `RedeemUpserts` are the three calls of `redeem`;
`status` is `status`. `StoreRenews`, `StoreDeclines`, `StoreCancels`, `StoreLapses`
are what subscriptions do meanwhile, `BillingRestart` empties the map.

### Readiness

`calls` and `checks` are the calls of `HealthService.ready` and their `runOne`s,
`timers` the timer each check races, `reports` what is answered, `dependency` how
each dependency is (answers, answers wrongly, says nothing). `Ready` arms
everything at once, `CheckAnswers` and `CheckTimesOut` settle a check, `Reports`
combines them, `ProbeReads` takes the answer away. `vouched` is a history: who
answered rightly during this very call.

### MCServer, MCApp

`MCServer` puts the four server components into one specification for TLC, and
`MCApp` the two of the app. The components of each share no state, so a behaviour
is of one of them (`looked`) while the others rest in an initial state: the checks
are those of each component by itself, without the product of their states.

## The runs

| Run | Question | Result |
|---|---|---|
| `queue_safety` | Slots, wake-ups, orphan rows and pauses, under all interleavings of two downloads, the operations, exceptions, disposal and process death | holds |
| `queue_liveness` | Is every queued download eventually served? | holds |
| `transfer` | Are the bytes, the counts and the delivered file right over attempts, deaths, changes of the resource and handlers that act on rows read before? Is `Delivery` implemented? | holds |
| `server_safety` | Sessions, entitlements and verdicts under all interleavings of requests at their awaits, failing calls, restarts, store changes, lost locks and expiring entries | holds |
| `server_liveness` | Is every analysis request and every readiness probe answered, and in time, when origins and dependencies may fall silent for ever? | holds |
| `app` | Conversions requested, canceled, retried and replaced; library operations, purge and two reconciliations over the same rows | holds |
| `cancel_race` | Is `canceled` terminal? | violated |
| `restore_stuck` | Does a restore leave nothing in flight? | violated |
| `resume_lost` | Is a resumed download started while a slot is free? | violated |
| `cancel_backoff` | Does a cancel during the backoff end it? | violated |
| `open_throws` | Are failures returned and never thrown? | violated |
| `page_status` | Is a barrier in the status of a page detected? | violated |

The properties that hold:

* `SlotBound`: downloads running, backoff included, never exceed the slots. The
  check is made before a listing is awaited; that it still holds afterwards rests
  on there being at most one pump.
* `NoLostWakeup`: while a slot is free, a queued download that may run has a pump
  on its way, although triggers during a pump are dropped.
* `OnlyFaultsOrphan`: only an exception or the death of the process leaves a row
  in flight with no run behind it; no handler of the manager does, not even the
  restore while downloads run.
* `PausedUntilResumed`: no permission to resume outlives the run it was given for.
* `Served`: no starvation, see [fairness](#fairness).
* `PartIsBeginning`, `CountsAgree`, `RenamesWhole`, `DeliveryKept`: see the module.
  `RenamesWhole` says exactly when the renamed file is a whole version: with a
  published digest, or with a known length and an origin that did not change. The
  remaining case, a change of the resource between attempts with no digest, can
  deliver a mixture of versions that has the right length; the code has no way to
  notice (it sends no `If-Range`), and the property's condition says so.

* `OneLive`, `ClosedStaysClosed`, `NoFalseAlarm`, `StableLogin` (server, sessions):
  a session has one token that works unless two refreshes read a live token of it
  before either revoked it; what was closed while no refresh was under way stays
  closed, access tokens included; a step closes only the session it is about; the
  account behind an e-mail does not change, even where two registrations raced.
* `OneProbe`, `NeverGoesBack`, `GoldenRule` (analysis): one run of a link at a time
  unless a worker lost its lock; no answer older than one given before the request
  came; no eligible verdict, through job, cache and answer, over a barrier that the
  status of the answer to HEAD, a paywall flag or a DRM marker showed. The status of
  the page itself is not looked at: `page_status`.
* `JobsStart`, `Answered`: every job is taken and every request ends, unless every
  worker (without Redis: the request itself) reads a body that never ends.
* `HeldOnce`, `GrantBacked`, `PlanOnlyLapses` (billing): two accounts hold one
  transaction only after a race between search and upsert; what is granted is
  backed by a subscription in use at that moment, under its id and for its time;
  without a redeem a plan goes premium, grace, free and never back.
* `ReportInTime`, `OkMeansAll`, `Reported` (health): an answer within the time of
  one check, with no timer left behind; `ok` on the word of every dependency.
* `OneProcess`, `SlotsUsed`, `CompletedIsWhole`, `CanceledStops` (converter): no
  second process of a job; as many conversions as there are slots and no job waiting
  beside a free one; `completed` only with an output that is whole and of the
  settings shown, unless another job wrote to the same path; a cancel ends the run,
  wherever it meets it. A request made during a run is answered with that run.
* `IndexAgrees`, `StaleOnlyIfCrowded`, `TrashKept`, `PassTellsTruth` (library): the
  index has the one line each row should have, also when a save or a purge is cut
  between its statements; a write is made of the row it is written over,
  and the trash is left only by a restore or after its days, both unless another
  operation on the entry was under way; a finished reconciliation shows what it
  alone touched as the files are.

Where a property names an exception ("unless"), the exception is a behaviour of
the code that the run reaches: without it the property is violated.

Every property of a passing run is also checked to fail on a plausible bug in the
code, listed under "mutants" in `PROJECT.json`. The mutated definitions stand
beside the originals, under names such as `PumpUnguarded` or `RefreshKeeps`; the
specifications do not use them.

## The bounds

* `Tasks`: two downloads. A wake-up, a slot or a position in the listing is lost
  to one other download; the properties speak of one task at a time against the
  rest. The violations that need only one task use one.
* `MaxConcurrent`: one slot in the passing runs, where two downloads compete;
  `resume_lost` has two, the smallest number with which a pump can list while a
  run ends. The properties are proved for every number.
* `MaxRetries`: one (the code has five): attempts before and at the end of the
  budget both occur. `DownloadTransfer` uses none: there a failed row is queued
  again regardless of the budget, which is `DownloadQueue`'s business.
* `MaxCalls`: one call of the user may be pending at a time, beside the calls the
  manager makes for itself (pump, reread, requeue), which are not bounded. A user
  operation therefore interleaves with pump, engine and backoff at each of its
  awaits; two operations of the user do not overlap, except that a bulk operation
  holds its place while it goes through its tasks. The proofs do not depend on it.
* Transfers: two versions, of two and three bytes: chunks of one byte and more,
  a shorter and a longer replacement, a part file before, at and after the end.
  Two readings of the row may be waiting (`MaxReadings`): a cancel beside the
  pump that starts the download, a restore beside either; and none is made while
  another of a former row is still waiting (`MaxFormer` = 0). The theorems hold for
  any values of both.
* Symmetry of the ids is used in `queue_safety` only, which checks no liveness.
* `server_safety`. Two requests at a time (`Handlers`, `Redeems`, `Requests`): every
  race in these components is between two. Three tokens: a login and two rotations
  of one token, or two sessions of which one is rotated. One moment of time
  (`SessionsEnd`): before and at an expiry. Four subscriptions, two of them with
  one store, since Apple answers with all of a customer's at once, and two
  accounts, with one change in the stores (`MaxEvents`) and time over the whole
  grace window. One link, two workers, two evaluations, so that an older and a
  newer verdict exist, and one change of the origin between them; the origins
  shown (`Shown`) have each barrier once, and none. The theorems hold without
  these bounds.
* `server_liveness`. Two links and one worker: one request may wait behind the
  body of the other. One evaluation, so that a request may also fail. Two
  indicators and time for two timeouts in a row.
* `app`. Two jobs with two settings, one slot and two (`Limits` holds 0, which
  becomes one); with one of its settings the second job shares the output path of
  the first (`AppOutput`). One library entry: entries meet only in the queue of the isolate
  and in a purge; two titles, two reconciliations, two operations between read and
  write, and two days with one day of retention.
* Symmetry in `server_safety`: requests of any kind are handlers of one name, and
  accounts differ in what they hold only. No liveness is checked there.

## Fairness

`LiveSpec` assumes weak fairness of answers (the isolate answers each call), of
the backoff timer, and of the steps of each attempt: a connection is accepted or
refused and a stream ends. The last one is an assumption about the network: `dio`
is created without a receive timeout (`dio_download_transport.dart:15`), and with
one slot an origin that never closes its stream holds it for ever. Strong fairness
is not needed. The user is not fair: `Served` speaks of behaviours in which the
user at some point enqueues no more (each enqueue of an older id writes a fresh
row and starts a new life of it, with a full budget); resuming, retrying, pausing
and canceling may go on. It rests on the creation order of the listing, on the
budget and on the pump of each `finally`. `LiveSpec` excludes exceptions, restores
and bulk operations, disposal and the end of the process: a row orphaned by an
exception or a restore over a running download is another matter
(`OnlyFaultsOrphan`, hazards).

`FairAnalysis`: timers run out and Redis answers (weak fairness), and workers take
jobs in the order they were added, so none is passed over for ever (strong
fairness of a link being taken, which stands for the queue's order). Nothing makes
an origin answer or a body end. `FairReadiness`: time passes (strong, since a new
probe may disable the tick for a moment), timers fire and continuations run; no
dependency has to say anything. `FairConverter`: a process starts or fails to, a
killed one ends, and the streams of one that ended do, well or not (weak fairness of
the three together, per job: a run is at one of them at a time); a conversion that
was not canceled may run for ever.

## The proofs

`DownloadQueue_proofs` proves, for any finite set of downloads, any positive
number of slots, any budget and any `MaxCalls`:

| Theorem | States |
|---|---|
| `TypeInvariant`, `TypeCorrect` | `Spec => []TypeOK` |
| `SlotInvariant`, `SlotsBounded` | `Spec => []SlotBound` |
| `WakeupsKept` | `Spec => []NoLostWakeup` |
| `PausedStaysPaused` | `Spec => PausedUntilResumed` |
| `OrphansAreFaults` | `Spec => OnlyFaultsOrphan` |

from the assumptions the modules name: `MaxRetriesAssumption` and
`QueueAssumption`.

* *Types.* `TypeOK` is not inductive: `Moved` counts a retry when it leaves
  `failed`, so the engine's copy of a task stays within the budget only because no
  attempt at work holds a failed one. The strengthening is
  `TypeInv == TypeOK /\ EngineWorks`, and `EngineWorks` says just that.
* *Slots.* `SlotInv` adds to the bound that at most one pump awaits a listing, that
  it does so only while `pumping` is set, and that a slot is free while it does:
  between the check and the answer `running` can only shrink.
* *Wake-ups.* `WakeInv` adds, to `NoLostWakeup`, that `pumping` means a listing is
  awaited, and `Covers`: whatever is queued in the table is either shown as queued
  by the awaited listing or has a later pump on its way. A trigger may be dropped
  during a pump because the handler that queued the row wrote it before it
  triggered: `enqueue`, `retry` and the backoff pump only after their save is
  answered, and the call awaiting that answer comes after the listing that missed
  the row. The same argument fails for a resume, which writes nothing: see
  `resume_lost`.
* *Pauses* (`PermitInv`). No task is both parked and permitted to resume: a resume
  takes it from the one set to the other, and the `finally` of a run withdraws the
  permission in the step that parks.
* *Orphans* (`FlightInv`). An attempt exists only of a running task; from the
  backoff until it is requeued the row of the task is at rest; and the two calls a
  run awaits there belong to an attempt that is being requeued, one call to each,
  so the answer to such a call never ends the run of somebody else.

Bytes, library and conversions are proved in modules of their own, for any
versions and lengths, any entries, titles, reconciliations and retention, any jobs,
settings and limits, from `TransferAssumption`, `LibraryAssumption` and
`ConverterAssumption`:

| Module | Theorems |
|---|---|
| `DownloadTransfer_proofs` | `TransferTypeCorrect`, `PartBegins` (`PartIsBeginning`), `CountsAlwaysAgree` (`CountsAgree`), `WholeIsRenamed` (`RenamesWhole`), `DeliveryImplemented` (`DeliveryKept`) |
| `LibraryIndex_proofs` | `LibraryTypeCorrect`, `SearchAgrees` (`IndexAgrees`), `StaleWritesAreCrowded` (`StaleOnlyIfCrowded`), `TrashIsKept` (`TrashKept`), `PassesTellTruth` (`PassTellsTruth`) |
| `Converter_proofs` | `ConverterTypeCorrect`, `SlotsAreUsed` (`SlotsUsed`), `CompletedAreWhole` (`CompletedIsWhole`), `OneProcessEach` (`OneProcess`) |

* *Bytes* (`TransferInv`). That the part file is a beginning of the version served
  is preserved only if the open stream goes on where the file ends (`OneVersion`,
  with `Follows`) and its digest is of that version; `Counts` ties the engine's
  counters to the file while it is written, and the counts of every row read to each
  other, `Checked` keeps what the verification
  saw true until the rename. `TotalsFit` is what makes an announced length enough:
  while the origin serves one version no length on record, or read from it, is below
  its size, so a file that reached it is whole. `RenamesWhole` follows at the rename from `Checked`,
  `OneVersion` and `TotalsFit`.
* *Delivery*. Initial states map to initial states, and every step to a `Move` of
  the state the user sees, to `Publish` (the rename), to `Deliver` (`done` after
  it), to `BreakOff` (an attempt that vanishes), to `Again` (enqueued anew), to
  `Late`, or to a stutter. `ActsDeliver` is the case of a handler that acts on what
  it read: a `Move` when the row is still that, `Late` when it is not, and a stutter
  over an attempt at work. `RowFollows` says which states can stand on the row of a
  running download, none of them verified or done without the engine: that is what
  lets the row take over when the attempt is over.
* *Library* (`LibraryInv`). An operation writes what it computed from a row it read
  earlier. `SeenIsSo` says that what it read alone is still there, and that nobody
  before it in the queue writes that entry; `OpsLawful` that what it is about to
  write is lawful for what it read; together they give `TrashKept` and
  `StaleOnlyIfCrowded`. For a reconciliation, `LeftAlone` says that only the pass
  itself is about to write what it was alone with, and `PassKnows` how far it got
  with each such entry: still listed and unchanged, looked at and as the file is, or
  about to be marked so. `OneMarking` and `ListedOnce` keep one pass from being in
  two of these at once. `Transacted` is what `IndexAgrees` needs besides: `Partway`
  says, for each entry, what its row and lines are in the open transaction before
  each statement, so that at the last one they are what the operation was to write,
  and outside of it nothing has moved (`CommitsWrite`, `StatementsShowNothing`).
* *Conversions* (`ConverterInv`). A pump starts from jobs and runs no state shows,
  so the parts of the invariant are operators of these (`Fit`, `Shows`), and the
  lemma `PumpKeeps` says once, for all its callers, that a pump which starts from
  what is in order ends in order, with the slots used. What is said of an output is said of each path: `Opened` and
  `Made` follow who opened it last and whether that process was alone, which is
  where the exception of `CompletedIsWhole` comes from. The order of insertion is a
  relation: what a filtered sequence holds is an induction the provers do not make.

The server is proved module by module, for any sets of requests, workers, links,
accounts, indicators and any lifetimes, from the named assumptions
(`SessionsAssumption`, `AnalysisAssumption`, `BillingAssumption`,
`EntitlementsAssumption`, `ReadinessAssumption`); what the bounds of the counters
cut off is not covered.

| Module | Theorems |
|---|---|
| `Sessions_proofs` | `SessionsTypeCorrect`, `OneLiveToken` (`OneLive`), `ClosedForGood` (`ClosedStaysClosed`), `NoOtherCloses` (`NoFalseAlarm`), `LoginStable` (`StableLogin`) |
| `Analysis_proofs` | `AnalysisTypeCorrect`, `OneProbeAtATime` (`OneProbe`), `VerdictsNeverGoBack` (`NeverGoesBack`), `GoldenRuleKept` (`GoldenRule`) |
| `Billing_proofs` | `BillingTypeCorrect`, `OneHolder` (`HeldOnce`), `GrantsBacked` (`GrantBacked`), `PlansLapse` (`PlanOnlyLapses`) |
| `Readiness_proofs` | `ReadinessTypeCorrect`, `ReportsInTime` (`ReportInTime`), `OkIsVouched` (`OkMeansAll`) |

* *Sessions* (`SessionsInv`). "At most one live token" is not inductive: a rotation
  that is about to create must know that nothing of the family is live, and one
  that is about to revoke that the live token is its own. `One(f)` says so of every
  family that was never rotated twice at once, and that it has at most one rotation
  under way; `Closed(f)` adds to `ClosedStaysClosed` that no access token lives
  longer than its lifetime from now, since a family may be closed at any moment.
* *Analysis* (`AnalysisInv`). `JobOwned`: a run holds the lock of its job, or its
  link is marked; `InlineAlone` and `InlineAsked` say the same of requests without
  Redis. From them one link has one run (`Alone`), and so between the store and the
  end of a run nobody else moves the cache or the answers. `KeptFresh` and
  `RunsFresh` then order the numbers: what was answered, what the job keeps, what
  the cache keeps. `UnsafeUnread` is needed because a refused link is answered
  without ever being numbered.
* *The golden rule* rests on `EvaluateBarriers`, a lemma about `Evaluate` for every
  context without an owner, and `ProbeBarriers`, that each barrier an origin can
  show reaches the context.
* *Billing* (`BillingInv`). `RecordsBacked`: provider and product follow from the
  transaction; `SearchHolds`: who is about to upsert an unmarked transaction is
  its only possible holder; `RacesNoted`: two of them are marked. That a verifier
  grants only what is in use (`AppleGrants`, `GoogleGrants`, `StripeGrants`) needs
  `StoreKeepsIds`, for Google's choice between two line items.
* *Readiness* (`ReadyInv`). Who is still asked has a timer set for the end of its
  call's time, no timer is overdue, and a healthy check was vouched for.

Only model-checked: liveness (`Served`, `JobsStart`, `Answered`, `Reported`,
`CanceledStops`), out of the prover's reach as is all that rests on fairness, and
the violations of the next section, which are counterexamples.

## Where the code does not keep its comments

Paths below `app/lib/features/downloads/`, unless they begin with `server/`.

* `cancel_race`: "Canceled by the user. Terminal." (`domain/download_state.dart:43`).
  `cancel` of a queued download reads its row (`application/download_manager.dart:207`);
  the pump's listing, made before, is answered in between and starts it; the cancel
  then writes `canceled` and the running attempt writes its states over it.
* `restore_stuck`: "anything that was mid-flight when the process died is re-queued"
  (`application/download_manager.dart:86`). A process that dies while it verifies
  leaves `completed` or `verifying`, which the restore does not look at (lines
  98-99) and which have no way on.
* `resume_lost`: "Starts as many queued/paused-resumable tasks as the limit allows"
  (`application/download_manager.dart:233`). With two slots. A row can come to say
  `paused` over an attempt that is still opening: `restoreQueue`, called again with
  the screen, writes it over a download that was resumed, or a pause that was read
  before an exception ended one run is saved after the pump began the next. The
  user pauses that download, which reaches the engine, and resumes it, for which
  `findById` reads the `paused` row. Before it is answered the attempt opens and
  saves `downloading`, the other run ends and its pump lists the table, and the
  attempt sees the pause and ends. Its trigger and that of the resume both return at
  line 236, and the listing shows the row downloading: the resumed download stays
  paused beside a free slot.
* `cancel_backoff`: "Re-read: the user may have canceled while we were waiting."
  (`application/download_manager.dart:289`). During the backoff the task is in
  `_running`, so `cancel` only tells the engine, which has forgotten it.
* `open_throws`: "Failures are returned, never thrown"
  (`infrastructure/download_engine.dart:69`). A part file that outgrew the total on
  record, answered without a length, makes `copyWith` keep the old total and the
  entity's constructor throws (`domain/download_task.dart:50`); the row stays in
  flight.
* `page_status`: "It detects barriers (401/403, paywall flags, DRM markers)"
  (`server/src/modules/analysis/http-metadata-probe.ts:7`). Only the status of the
  answer to HEAD is compared (lines 33-38); the page is read whatever its status
  (lines 52-53). An origin that answers HEAD with 200 and the page with 401, 402 or
  403 can be granted.

Others were met while modelling; no run is spent on them, but each is a behaviour
of the models unless it says otherwise:

* "Cancels a transfer; the partial file is discarded by the engine."
  (`application/download_manager.dart:145`): a download that does not run is canceled
  in the table, and its part file stays (`Acts`).
* A conversion whose output does not decode frees its slot and leaves its job
  `converting` for ever, unless the job is requested anew or canceled: `run` throws
  out of `Future.wait`
  (`app/lib/features/converter/infrastructure/process_media_converter.dart:89`).
* Two conversions whose sources differ in their extension only, or two entries with
  one source, write to one output path
  (`app/lib/features/converter/domain/conversion_job.dart:134-141`), with two slots
  at once; what is then shown completed is what the last of them left.
* A conversion writes straight to its output path, with `-y`
  (`app/lib/features/converter/`): a canceled run leaves a partial file there,
  while `application/ffmpeg_command_builder.dart:25-26` speaks of "a temporary path"
  and `infrastructure/in_memory_converter_repository.dart:5-6` of "a temporary file
  that is discarded on abort". A request for a pair that is being converted is lost
  without a word when the run ends, since the run saves its own job over it.
* Two library operations that overlap, from the user, a reconciliation or a purge,
  can lose one another: a marking can take an entry out of the trash again, a purge
  can delete an entry just restored (`StaleOnlyIfCrowded` says exactly when). A
  purge removes rows, not files.
* Two refreshes at once leave a family with two live tokens, and a refresh that has
  read its row before a logout issues a live token after it
  (`server/src/modules/auth/auth.service.ts:86-104`). The in-memory users accept two
  accounts of one e-mail.
* A failed analysis is "deliberately not cached"
  (`server/src/modules/analysis/analysis.service.ts:75-77`), but the failed job is
  kept and answers the next request for the link. The 502 of the service becomes a
  plain failure on its way through the queue. The body of a page is read without a
  timeout.
* `user_owned`, `official_api` and `open_license` are rules the HTTP probe never
  feeds: it reports no platform, no owner and no formats
  (`server/src/modules/analysis/metadata-probe.ts:42-56`).
* Entitlements are kept in the memory of each replica, of which production has at
  least three (`deploy/k8s/overlays/production/scale.yaml:8`), and are gone with a
  restart. Upsert is by account: a shorter purchase replaces a longer one, and the
  transaction it replaced is free for another account. Apple's answers always count
  as renewing (`server/src/modules/billing/apple-verifier.ts:118-120`), so a
  canceled one gets the grace window that `domain/entitlement.ts:103-105` refuses.


## What is left out

* Failing statements of the download table. `save` returns them as values and most
  callers ignore them (`unawaited(_repository.save(...))`); see the hazards.
* Two downloads that share a part file: the file name is built from title and
  container only (`enqueue_download_use_case.dart:73-84`).
* `setMaxConcurrent`, and a manager rebuilt over the same engine: nothing in
  `app/lib` causes either (`providers.dart:127` and `:187` are constants).
* `priority`, always 0 in the app; names, titles, failure texts, progress display.
* What an old copy of a task, saved over an enqueued row, does to its `createdAt`:
  the order is kept per id.
* FFmpeg's command line, a pure function of the request; the progress of a
  conversion as a number.
* In the library: `setTags`, which goes the way of `rename`, and the columns no
  guard reads. Nothing in the app adds entries yet: `Save` is the contract of the
  repository. Search itself (FTS5) is a query over `index`.
* In the server: the contents of passwords, claims and receipts, rate limits,
  validation of requests, redirects followed by the probe, the reading of markers
  and license declarations out of a page, messages and restrictions of a verdict;
  for how long a kept job or a cache entry lasts (it may end at any moment);
  parsing the configuration, wiring, logging.
* Analysis on screen, search results on screen, store purchases, settings: one
  request at a time from one screen, planned next. The detectors of
  `features/intelligence` are pure functions over text, which unit tests reach well.
* Widgets, theme, routing, localisation, generated code, platform runners, the HTML
  prototype, deployment and CI hold no protocol of their own.
