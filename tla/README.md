# A TLA+ model of pepeuchiacluster

These modules model the parts of the repository where order, failure and time
matter: the control plane that hands missions to workers, its HTTP server, the
independent worker that recovers from its own crashes and asks permission over a
shared channel, the executor that reads model catalogues within budgets, the
archive of its checkpoints, the cache that a 304 revalidates, the imports and
batches that go into two databases, the controller of the isolated bench, and
the files under the control plane with their backup. TLC checks each module on
small instances; TLAPS proves their invariants, action properties and refinements
for every value of the constants.

Paths below are relative to `src/`.

## The system

| Component | State it keeps | Operations |
|---|---|---|
| **Control plane** (`control_plane/service.py`, `execution.py`, `capabilities.py`) | SQLite rows: missions, one task each, attempts with a lease, results, a ledger of operation identifiers | create, approve, cancel, retry, claim, finish, state, expire, recover |
| **Worker registry** (`worker_registry.py`, `auth.py`) | identities with a status and a credential epoch; credential files | enroll, rotate, revoke (offline or online), authenticate, authorize |
| **Workspace** (`workspace.py`) | files, numbered versions, content-addressed objects | upload, publish a result by compare-and-set, list, download |
| **Storage** (`storage.py`, `__main__.py`) | the data directory, its lock, its migrations | initialise, migrate, open exclusively, transaction |
| **HTTP server** (`http_api.py`, `http_io.py`) | connection slots | accept, authenticate, dispatch, respond, time out |
| **Backup** (`backup.py`) | a copy with a manifest | create, inspect, restore with all identities revoked |
| **Independent worker** (`pepeuch_worker/`) | `run.json`, a journal of one claim; a lock | run, recover |
| **Isolation verification** (`pepeuch_worker/verif*.py`, `pilot/worker_isolation/`) | a session pinned to a context, a writer and a policy | check, assess, serve one decision |
| **Source execution** (`database/poc/discovery_execution.py`) | budgets of one run | execute a source with retries |
| **Checkpoints, manual runs** (`discovery_checkpoints.py`, `manual_discovery_run.py`) | immutable checkpoint files | save, load, run, resume |
| **Validated cache** (`validated_discovery_cache.py`, `discovery_provenance.py`) | an entry with its validators and provenance, kept by the caller; the issuers' keys | make, validate, reuse on a 304, emit |
| **Snapshots and imports** (`discovery_cache.py`, `emit_discovery_import.py`, `incremental_import_plan.py`) | the rows of two discovery caches | make a snapshot, plan, import under a guard |
| **Confirmed batches** (`confirmed_sql_batches.py`, `isolated_bench_ingestion.py`) | receipts in a database, a journal | deliver, confirm, resume |
| **Web console** (`web/app.js`) | the operator's key in the page, a refresh under way | log in, refresh every two seconds, log out |
| **Database bench** (`isolated_docker_bench.py`, `isolated_bench_runtime.py`) | two containers, the objects on record, a monitor's thread | create or reuse, start, run the stages, stop |

How they interact. Workers and the console call the control plane over HTTP, a
thread per request, at most 16 at once; every handler ends in SQLite
transactions opened with `BEGIN IMMEDIATE`, so transactions are serial but
handlers are not: `cancel`, `retry` and `finish` commit an expiry first and open
their own transaction later, and every worker call authenticates before its
transaction and is authorized again inside it. Maintenance commands and the
server exclude each other through `app/backend.lock`. A worker's only shared
state with the backend is what its calls carry; successive processes of one
worker also inherit one socket to the verification controller. The manual run
calls the source executor once per source and archives each success as a
checkpoint. A snapshot becomes a generated script for each of two database
engines. The bench's controller and its monitor are threads of one process, and
nothing keeps two controllers of one campaign apart.

What is hard: the gaps between those transactions; leases that expire only when
somebody calls; answers that are late, lost or sent by a process that has since
died; crashes between a computation and its journal; credentials rotated while
the backend is down; a decision that an earlier process asked for; a slot that
must come back whatever a client does; answers that overtake each other; imports
that interleave and break off; a `finally` that must stop what was started; wall clocks that step back; budgets that run out while
the code is still planning how to spend them. `PROJECT.json` lists every such
hazard with its line and the properties aimed at it.

What makes each part correct:

* control plane: a mission is in one state in all its rows; at most one worker
  holds it and a worker holds at most one; ended attempts never change; a
  document appears exactly with the completion and overwrites nothing unseen;
  recovery always commits; leases end.
* worker: an attempt is computed at most once; work that is held is never
  forgotten; the journal never contradicts what the backend accepted.
* source execution: the server's Retry-After is honoured, nothing leaves or is
  published after the budget, an operation that is not idempotent runs once,
  every run ends.
* batches: one plan is applied, in order, each batch once; an interrupted
  delivery can always be resumed.
* installation: an unfinished backup or restore is refused, wherever it was
  interrupted; a restored directory trusts no key but its own.
* manual runs: a visible checkpoint is complete; what was reported can be
  resumed, and only by a run of the same scope.
* HTTP server: nothing is dispatched that did not arrive whole and in time; every
  slot comes back, and only once; the installation's lock outlives every handler.
* verification: a worker acts only on a permit that answers the check it has just
  made, from whoever permitted first.
* validated cache: what is reused is what the source had; a withdrawn key ends
  the use of what it vouched for.
* imports: snapshots are taken whole; a row is only replaced by a later one; the
  same observation may be imported again.
* bench: what runs is on record; what has finished is stopped; what is verified
  went through all of its stages.

## Modules

### `MissionContract`
What the control plane promises of missions: a life cycle, one holder, one
document. It has no attempts, leases, credentials, calls or restarts.

### `ControlPlane`
One action is one committed transaction. The rows of `migrations/0001.sql` and
`0002.sql` are the variables `missions`, `tasks`, `attempts`, `results`,
`version` (of `resultat.md`, the one document missions publish) and `workers`;
`up` and `clock` are the process and `time.time`; `calls` holds the requests a
thread has begun and not finished.

| Action | Code |
|---|---|
| `CreateMission`, `Approve` | `_create_mission`; `approve` with the coordinator's routing. "approved" exists only inside the transaction |
| `AdminBegin`, then `Cancel` or `Retry` | `cancel`, `retry`: `expire()` commits, then the effect |
| `ClaimBegin`, then `ClaimNothing` or `ClaimTask` | authentication; then authorization, fencing of overdue attempts and the claim, in one transaction |
| `FinishBegin`, then `Finish` | authentication and `expire()`; then the transaction of `finish` |
| `CallEnds` | any refusal, busy database or duplicate: the request ends and nothing changed |
| `Expire` | the reads that expire leases: `state`, `nodes`, `get_mission`, `list_missions`, `dashboard` |
| `Upload`, `RevokeWorker` | `upload`, `revoke_worker` (revocation and fencing are one transaction) |
| `Stop`, `Start` | the process ends, in order or not; `ControlPlane.__init__` ends with `recover()` |
| `EnrollWorker`, `RotateWorker` | the maintenance commands, possible only while the server is down; they do not recover |
| `Tick` | time passes, or the wall clock is set back |

`CanFence` is the guard `_transition` puts on every fence: an exception there
rolls the whole transaction back. Missions and workers are numbered in the
order the code sorts them by (`created_at, id`). A `result_sha256` is identified
with the status it digests. Replaying an operation identifier returns the
stored response and changes nothing, so it is a stuttering step here; the
ledger itself is in `WorkerRun`.

### `Console`
The page of `web/app.js` beside the control plane, because it is the only caller
that asks without anybody's doing: the backend has no timer, and a lease that is
over ends when a request finds it overdue. `credential` is the operator's key,
`refreshing` the flag that keeps `refresh()` single, `asked` its reads under way.
`LogIn`, `Poll` (the `setInterval`), `Lock` and `ClosePage` are the page's events,
`Answered` the reads that expire leases, `Unanswered` the `catch` and `finally` of
a refresh the backend did not answer. Three reads are one, and a log-in is one step.

### `WorkerRun`
`IndependentRunner.run_once` and its recovery. A worker action ends at a journal
write, at a call or at a check of its permit, so `Exit`, possible anywhere, is a
crash at every boundary that matters; it also stands for a refused or timed-out
call and a check that fails. `disk` is `run.json`, `mem` the journal in memory. Calls stay on
`wire` after their process is gone and may be processed or dropped at any later
time; answers reach only the process that asked, or are lost. The backend is reduced to
one mission's attempts, the ledger of claims, the epoch and whether it is up:
`ServeClaim` returns the stored response for a known identifier. A save is one
step: `private_io.save` writes a temporary file, syncs it, renames it and syncs
the directory.

The verification channel is a socket that every process of the worker inherits.
`authority` is who permits now, the controller with its policy and the context
of the process as one value; `pinned` the authority that the running session took
on its first permit; `requests` what was asked on the channel and not read, each
with its decision once there is one, oldest first: a process that gives up leaves
its request for the next one to read.

| Action | Code |
|---|---|
| `AskPermit`, `ReadDecision` | `VerificationSession.check`: the request, and what `transfer` and `validate_decision` make of the first decision in the stream |
| `RunNew`, `RunRecover`, `Execute`, `SendFinish` | the acts: the claim's journal, the computation, the publication. Each needs a check of its own that passed (`MayAct`), and anything may happen between the two |
| `AuthorityMoves` | the controller comes, goes or changes policy, or the context moves, at any moment |
| `ControllerDecides`, `DecisionLapses` | a decision, late or never, and its two seconds |

A permit is looked at when it is read and not kept, as in the code: the act it
allows may come after it has lapsed or been withdrawn, and a computation takes
as long as the call's limit. `check = "free"` is an application test, which has no
session. Today's controller only denies (`serve_diagnostic`); the permits modelled
are those of the interface that the session is written for. `since` is a history
variable: who permitted at some moment since the check under way asked.

### `SourceExecution`
`execute_source` around an opaque operation. An action ends where the code calls
out: the operation, a request's callback, the wait. Time passes inside every
action; a reading of the monotonic clock may also fail or go backwards, which
the code treats alike. The operation may swallow what `request` raises, use a
context kept from an earlier attempt, overrun its time or raise anything.
Errors are reduced to the classes `classify_error` tells apart: an HTTP status
that may be listed as transient, with one of the four outcomes of
`parse_retry_after`; a transport error; anything final. `notBefore` is a history
variable, the latest time a Retry-After handed to the executor has named. The
wall clock is taken to agree with the monotonic one, since a date cannot be
honoured otherwise. `execute_sources` runs sources one after the other with
separate budgets, so one source stands for all.

### `LoadedPrefix` and `ConfirmedBatches`
`LoadedPrefix` is what a delivery promises: a database adopts one plan and takes
its batches in order. `ConfirmedBatches` is how it is kept: `deliver` of
`confirmed_sql_batches.py` under the database side of
`isolated_bench_ingestion.py` (a unique manifest, receipts inserted in the
transaction of their batch) and the journal of `isolated_bench_runtime.py`.
`manifest`, `receipts` and `data` are the database; `wire` and `answer` the
connection; the rest is the delivery that runs, and the journal it leaves. A write that was sent may be executed,
refused or lost at any later time, by then perhaps of a process that is gone;
its answer may be lost separately. `Begin` starts a delivery of any plan once
the one before has ended.

### `Installation`
Three directories: a source, its backup, and the directory restored from it.
Each has the files that are visible (`now`), those whose names an fsync has made
durable (`lasting`), the content of its index, and whether a transaction's
journal is beside it (`hot`).

| Action | Code |
|---|---|
| `InitDirectory`, `InitFiles`, `InitMarker` | the first half of `Store.__init__`, on an absent or empty directory |
| `Open`, `Close` | the lock, SQLite's rollback, `migrate_index`; `serve` also reads the administrator's token |
| `BeginPublish`, `PlaceObject`, `SyncObjects`, `CommitVersion` | `_object` inside the transaction of `_publish` |
| `WriteKey`, `SyncKey`, `CommitKey`, `Revoke` | `_credential` inside `enroll` and `rotate`; `revoke` |
| `BeginBackup` to `EndBackup` | `create_backup` under `offline`, file by file; `Inspected` is `inspect_backup` |
| `BeginRestore` to `EndRestore` | `restore_backup`; `Retire` is its one transaction |
| `Dies` | a process is killed or its command raises, anywhere; the index may be left in the middle of a commit |
| `PowerLoss` | the disk of one directory keeps what lasts and any part of the rest; the directory a destination was made in is never synced, so a destination may be gone altogether |

A file's content is never torn, because `write_new` syncs it before the code
goes on. The index starts new or as the first release left it, whose migration
seeds `fake-cpu` with `secrets/worker.token`.

### `HttpServer`
`LocalServer` and `Handler` of `http_api.py` over `DeadlineInput`, the clients on
the loopback, and the end of `serve`. A request is a line, its headers and a few
pieces of body, and what the server will refuse in it; a reply is a head and a
body. `free` is the semaphore, `phase` and `left` a handler thread and the
seconds its request still has, `link` and `verdict` the client's side.

| Action | Code |
|---|---|
| `Connect`, `Send`, `GetReply`, `GiveUp` | `LocalClient.call` or any other program: it may send a piece, stop, or leave |
| `ProcessRequest`, `StartThread`, `StartFails`, `ServeOn` | `process_request` in the thread that accepts |
| `Receive`, `TimesOut`, `EndOfInput` | `DeadlineInput.readline`, `read` and `remaining`, under `Handler.handle_one_request` and `Handler._handle` |
| `RefuseFraming` | `Handler.handle_one_request` for the line and the headers, the first half of `Handler._handle` |
| `Handle`, `Decode` | `Handler._handle`: static files, authentication, the body |
| `Dispatch` | `API.dispatch`, and the `except` clauses of `Handler._handle` around it: a `TimeoutError` of the operation itself is answered 408 after it ran |
| `Respond`, `Release` | `Handler._respond`; the `finally` of `LocalServer.process_request_thread` |
| `Interrupt`, `CloseService` | Ctrl-C or SIGTERM in the accepting thread, wherever it is; `server_close`, which joins the handlers, then `service.close` |

### `GuardedCache` and `DiscoveryImport`
`GuardedCache` is what an import promises: a snapshot is taken whole or not at
all, and a row only makes way for a later observation of its key.
`DiscoveryImport` is how the generated scripts keep it. The PostgreSQL script is
run statement by statement (`Stage`, `LockTable`, `Guard`, `Commit`) by sessions
that interleave and may lose their connection anywhere; the SurrealDB import is
one transaction of the engine, which is external. `Collect` is `make_snapshot`;
`PlanImport` and `PlanApplies` are the plan of `incremental_import_plan.py` and
the condition its actions carry, which nothing in the repository executes: the
model compares it with the generated guard.

Instants are counted in ticks finer than a microsecond, because they are not one
thing: a snapshot keeps the digits of `captured_at`, `observation_time` truncates
to microseconds (`Truncated`), PostgreSQL's `timestamptz` rounds to them
(`Rounded`, applied where `COPY` fills the staging table), and SurrealDB keeps all
digits of the row and compares them with the truncated instant
(`StaleOrConflictingSu`). `Microsecond` is odd, so that none lies half-way.

### `Revalidation`
The contracts of `validated_discovery_cache.py` and `discovery_provenance.py` in
the hands of a caller, which the repository leaves to its user: it keeps one
entry, has several conditional requests under way for different contexts, and
hears their answers in any order, while the source changes and keys are
withdrawn. `MakeCache`, `ValidateCache`, `ReuseNotModified` and `EmitProtected`
are the code; `Send`, `Answer`, `Store`, `Reuse`, `Protect` and `GiveUp` its
caller and the source, external. An HMAC is its key and what it covers.

### `BenchCampaign`
`main` of `isolated_docker_bench.py`: from `preflight` through `create`, the
start of both engines, `Monitor`, the stages of `run` and `finally`, each call
that may raise a step of its own, with `Fail` for whatever is raised. Attempts
follow each other or overlap. `box` is the two containers, `recorded`
`objects.json`, `thread`, `ending` and `failed` the monitor. What a stage
computes is reduced to whether it could: both engines must answer throughout.

### `ManualRun`
Runs of `run_manual` that share one archive directory. `place`, `plan`, `todo`
and `entry` are a run's variables, `events` what its caller has been told, which
outlives it. `files` are the checkpoints that have their final name; `named` and
`synced` say whose name and whose content is on the disk; `lock` is
`.writer.lock`.

| Action | Code |
|---|---|
| `Begin` | everything before the first source: `load_checkpoint` and the scope and age of every resume descriptor |
| `Reuse`, `Fails`, `Observe` | one source: reused, or `execute_source` and its outcome. An observation is dated when it was made, or by its fixture, in which case two runs make the same checkpoint |
| `Lock`, `Found`, `Missing`, `Write`, `Sync`, `Rename`, `Flush` | `save_checkpoint`, step by step |
| `Report`, `Complete` | `on_event` and the end of the run |
| `Dies` | killed, or anything raises: the lock is taken, the file differs, an observation is of the future, a callback fails |
| `PowerLoss` | names that no fsync followed may go, contents that none did are damaged |

### Values and proofs
`MCControlPlane`, `MCManualRun`, `MCDiscoveryImport`, `MCRevalidation`,
`MCBenchCampaign`, `MCHttpServer` and `MCConsole` hold values for TLC, and the symmetry of sets
that nothing in their module tells apart. Runs with a temporal property of
fairness use none.

`ControlPlaneProofs`, `WorkerRunProofs`, `SourceExecutionProofs`,
`ConfirmedBatchesProofs`, `DiscoveryImportProofs`, `InstallationProofs`,
`BenchCampaignProofs` and `HttpServerProofs` extend the modules of their names.
Two of them extend a second component and prove its theorems as well:
`SourceExecutionProofs` those of `ManualRun`, whose observations are executions of
a source; `DiscoveryImportProofs` those of `Revalidation`, the other way a cache is
kept current. These two components prefix the names that every module has
(`RunSpec`, `CacheSpec`), so that both specifications are in scope.

## What is checked

| Run | Instance | Properties |
|---|---|---|
| `races` | one mission, two workers, two calls in flight, two attempts, two versions, two epochs, a clock that may step back | `LockStep`, `ActiveIsCurrent`, `NoLostUpdate`, `CompletedHasDocument`, `EndedAttemptsStand`, `ImplementsContract` |
| `fleet` | two missions, two workers of two capabilities, one attempt each, a console, a clock that may step back, fairness | `OneAttemptPerWorker`, `LeaseEnds` |
| `http` | two clients, one slot, six kinds of request, fairness | `SlotsConserved`, `ServiceOutlivesHandlers`, `DispatchIsWhole`, `SlotsComeBack` |
| `worker_run` | two claims, two attempts, three epochs, three processes, two authorities, three unread decisions | `NeverRecomputed`, `NothingForgotten`, `AcceptedAsWritten`, `PermittedAnew` |
| `source` | three attempts, two requests, five seconds, waits up to two, fairness | `RetryAfterHonoured`, `NothingAfterTheBudget`, `Terminates` |
| `checkpoints` | two runs, two sources, two contexts, two times, one power loss | `VisibleIsWhole`, `ReportedLoads`, `EventsInScope` |
| `revalidation` | two contexts, three versions of two revisions, one issuer, two requests under way | `ReusedIsCurrent`, `HandedOutIsTrusted` |
| `imports` | two snapshots over three keys and two scopes, three instants, one of them finer than a microsecond, two sessions | `CheckedIsCurrent`, `PlansAreAdmitted`, `TakesWholeSnapshots` |
| `batches` | three deliveries, plans of up to three batches | `AlwaysResumable`, `VerifiedIsComplete`, `JournalHolds`, `LoadsOnePlanInOrder` |
| `bench` | two attempts, two engines, two stages, one signal, one kill, one change of history | `RunningIsRecorded`, `FinishedIsStopped`, `VerifiedIsWhole` |
| `bench_left_running` | one attempt, no fault of the process | `StoppedInFinally`, violated: see Findings |
| `installation` | one content, `fake-cpu`, two epochs and the two after a restore, new or first-release source, one power loss | `TypeOK`, `MarkerComesLast`, `RestoredNeedsNewKeys`, `ReportedStands`, `ActiveKeyLasts`, `VersionsHaveObjects` |

All but the one of `bench_left_running` hold. What they say:

* `LockStep`: six handlers write the mission, task and attempt rows in separate
  statements; the rows nevertheless agree after every transaction.
* `ActiveIsCurrent`: while the backend serves, an active attempt belongs to an
  active identity under the credential it was claimed with.
* `CompletedHasDocument`: what `verify_index` of `backup.py` demands of a copy
  holds of the live index at every moment.
* `NoLostUpdate`: a published document replaced exactly the version its worker
  was handed.
* `EndedAttemptsStand`: no late, duplicated or conflicting call changes an
  attempt that has ended.
* `OneAttemptPerWorker`, `ImplementsContract`: no worker holds two missions,
  and every step is one the mission contract allows. The refinement maps
  `holder` to the worker of a mission's last attempt while it is active, and
  `delivered` to the versions its results name.
* `LeaseEnds`: every active attempt ends, whatever its worker does or fails to do,
  if from some moment on an operator stays logged in at a console, the backend is
  never down for good and the wall clock is not set back any more. Each of the
  three is needed: TLC refutes the property without any one of them. With nobody
  asking, an overdue attempt stays active; that is the code, not a choice of the
  model.
* `NeverRecomputed`: an attempt is computed at most once, as
  `docs/architecture/WORKER_CONTRACT_B53.md` requires.
* `NothingForgotten`: an attempt that is active while the backend serves is the
  one the worker's journal leads to, under a credential it can still use.
* `AcceptedAsWritten`: a recovery cannot contradict a finish that is still on its way.
* `PermittedAnew`: no decision serves a second act. Whenever a verified process
  takes up a journal, computes or publishes, the authority that its session holds
  to permitted at some moment after the check of this very act had asked, whatever
  decisions for earlier processes the stream still held; and a session never holds
  to another. It does not say that the permit still stands: between the check and
  the act it may be withdrawn.
* `DispatchIsWhole`: an operation runs only for a request that arrived whole,
  every piece before the deadline, from a known client. `SlotsConserved`:
  every slot that is not free is held by one handler that still lives, so none is
  lost and none given back twice, though two threads may give one back.
  `SlotsComeBack`: a slot comes back
  whatever its client does or leaves undone. `ServiceOutlivesHandlers`: the lock
  that excludes maintenance commands is not given back while a handler lives.
* `TakesWholeSnapshots`: each engine's cache implements `GuardedCache`.
  `CheckedIsCurrent`: what the guard found stays true until its session commits.
  `PlansAreAdmitted`: for captures to the microsecond, a plan whose expectations the
  rows meet is never refused by the guard of either engine, which decide staleness
  in words of their own. Finer captures are a known limit.
* `ReusedIsCurrent`: a snapshot handed out for a 304 is what the source had for
  that account when it answered. `HandedOutIsTrusted`: a key withdrawn after an
  entry was stored ends its use.
* `RunningIsRecorded`: wherever an attempt is lost, the next one knows the
  containers that may run. `FinishedIsStopped`: when all attempts have reported
  without a stop error, nothing runs, even if they overlapped.
  `VerifiedIsWhole`: VERIFIED means every stage, and stopped containers.
* `LoadsOnePlanInOrder`: whatever is interrupted, lost or executed late, a
  database takes the batches of one plan, in order, each once (refinement of
  `LoadedPrefix`).
* `AlwaysResumable`: what an interrupted delivery leaves is an exact prefix that
  the next delivery of the plan accepts. `VerifiedIsComplete`: a delivery that
  returns has left the whole plan there. `JournalHolds`: the journal names only
  committed batches, and none twice.
* `MarkerComesLast`: a backup or a restored directory that would be accepted is
  whole, wherever its command was killed and, for a source that the first release
  made (see Bounds), wherever the power failed, and its index is not a copy of
  half a transaction. `ReportedStands`: what a command reported survives a power
  loss, unless the whole destination is gone with its parent's entry.
* `RestoredNeedsNewKeys`: no key of the source, and not the new `worker.token`
  that a migration would make valid, is of any use after a restore.
* `ActiveKeyLasts`: the key of an identity that the registry calls active is on
  the disk. The token of a migrated `fake-cpu` is exempt: `Store.__init__` syncs
  no directory, so an installation that was never backed up owes its durability
  to the file system.
* `VersionsHaveObjects`: a committed version has its object, as long as only
  processes die (see Known limits).
* `VisibleIsWhole`: a file with a checkpoint's name has its content, even after a
  power loss; otherwise it could neither be loaded nor written again.
* `ReportedLoads`: a checkpoint that a run wrote and reported can be loaded ever
  after; one that it found in place, as long as the power never fails.
* `EventsInScope`: reports are of the run's own context and not of its future,
  and what was reused was young enough, though the archive holds everybody's.
* `RetryAfterHonoured`: no request leaves before the time the last Retry-After
  named. `NothingAfterTheBudget`: nothing leaves and nothing is published once the
  time is spent. `Terminates`: every run ends, though a retry may cost no time.

For every property `PROJECT.json` names a mutant: a plausible bug, written next
to the definition it would change, under which TLC finds the property violated.

### Findings
`bench_left_running`: `docs/audit/CHECKPOINT_20261028_PHASES_0_3.md` (line 189)
has the controller stop its two containers in `finally`. `Monitor`'s thread is
started after the main thread's first sample; when that sample raises (a guard
of the host, an engine that exited), `finally` calls `monitor.close()`, which
joins a thread that was never started. `RuntimeError` leaves `finally` before
`stop`: the containers go on, and no `result.json` is written. The next attempt
refuses them as unexpectedly running, and its own `finally` stops them.

### Known limits
Behaviours of the code that the models show and that no property forbids,
because nothing in the repository promises otherwise, or only with conditions:

* `_object` (`workspace.py:59`) takes an object it finds in place for durable. If
  the process that renamed it died before its own fsync of the directory, a
  version may be committed whose object a power loss then takes.
  `VersionsHaveObjects` is stated as long as the power never fails.
* `save_checkpoint` (`discovery_checkpoints.py:107`) reports a checkpoint it finds
  in place without syncing the directory; `ReportedLoads` makes the same exception.
* A `create` of the bench that is lost before `objects.json` leaves
  `surreal.private.env`, made exclusively: every later attempt fails on it.
* A rotation that crashes between the new key's file and its commit leaves the
  file, made exclusively, and later rotations of that identity are refused.
* A mission queued for a worker that is then revoked stays queued.
* After one late decision the channel that a worker's processes inherit is one
  answer behind, and every later check is refused: it fails safe, and needs a new
  channel.
* A permit withdrawn after the check does not stop the computation or the call it
  was checked for.
* A 408 may come after the operation has run, if the operation itself raised
  `TimeoutError`.
* Nothing ends an overdue attempt while nobody asks.
* A snapshot whose `captured_at` is finer than a microsecond, which
  `validate_snapshot` accepts, cannot be imported into SurrealDB twice, although
  `database/poc/REPLAY_GUARD_PHASE3.md` (line 18) makes the same instant and content
  an idempotent replay: `emit_discovery_import.py` truncates the incoming instant
  (line 40), stores the snapshot's own digits (line 47) and compares the two with
  nanoseconds (line 129), so the row looks newer than the snapshot it came from.
  Nothing in the repository makes such an instant today: `make_snapshot` defaults to
  whole seconds, and any other is given by its caller.
* A recovery under another authority publishes a result computed under the first:
  a session is pinned per process.
* The caches of the two engines may differ when imports reach them in different
  orders, and an instant is the caller's, not the order of the provider's changes.

### Bounds
`MaxMissions`, `MaxWorkers`, `MaxAttempts`, `MaxEpoch`, `MaxClock`, `MaxClaims`,
`MaxRuns`, `MaxAuthority`, `MaxUnread`, `MaxTime`, `MaxBatches`, `MaxSnapshots`,
`Instants`, `MaxBody`, `MaxTries`, `MaxSignals`, `MaxKills`, `MaxChanges` and `MaxOutages` are
bounds of the models; `SlotCount`, `MaxConnections`, `IoSeconds`, `VersionLimit`,
`LeaseSeconds`, `AttemptSeconds`, `MaxRequests`, `TotalSeconds`, `SurrealRecords`
and the like are the code's own limits made small.

* `races`: two attempts are enough for a late answer to meet a newer attempt, two
  calls in flight for every pair of handlers to interleave, two epochs for a
  revocation or a rotation between a claim and its answer (one followed by the
  other needs a third, which `worker_run` has and the theorems do not bound), two
  versions for an upload to come between a claim and its publication. The second worker lets a late finish of one meet
  the attempt of the other, and an identity be enrolled after the first claims.
  `ImplementsContract` is checked over both attempts; `ContractIsKept` proves it for
  any number of missions, workers and attempts.
* `fleet`: two missions and two workers for routing and the one-attempt rule, two
  leases that may end together, one epoch. A mission is claimed at most once here
  (a retry queues it again and nothing more): later attempts, and credentials that
  change, are `races`' subject. The clock may be set back at any moment.
* `worker_run`: three processes allow a claim, a crash, a recovery that crashes too
  and another, or a second claim; three requests, so that two dead processes leave
  their decisions to a third, which checks twice before its claim; two authorities,
  one that follows another.
* `http`: one slot for two clients makes refusals and reuse happen; a body of one
  piece is where a deadline falls between headers and body.
* `source`: three attempts within five seconds reach every early return; the
  backoff is 0, so that waits are what Retry-After and jitter make them (0 to 2
  seconds) and a retry may cost no time.
* `batches`: three deliveries let two dead ones leave late writes for a third;
  plans of three batches have a first, a middle and a last.
* `imports`: two snapshots of different instants or contents, any number of times;
  of three ticks to a microsecond, instants 3 and 6 are whole ones and 5 is
  truncated to the one and rounded to the other;
  a third key is one that neither needs to observe; SurrealDB's budget holds two
  records, so that a snapshot may exceed it.
* `revalidation`: two versions of one revision are what validators tell apart and
  revisions do not; a third declares another revision and no validator.
* `bench`: two attempts, so that one may follow or meet another; two stages, so that
  one may be skipped.
* `installation`: one content published again under its own name is the
  interesting case; a rotation stands for every new credential (with `Workers`
  empty no other identity is enrolled); the power fails at most once, since each
  loss is judged by what it leaves, and only with the first release's source, to
  keep the run within minutes; no command starts on the source once a restore
  has begun, because the restore reads only the backup.

### Fairness
`ConsoleSpec` assumes that time passes, that the page's timer fires, and that of
the reads the console repeats every two seconds (`web/app.js:181`) some are
answered if the backend is up again and again; each may fail. It assumes nothing
of workers, of operators, who may log in or not, log out or close the page, or of
whoever starts the backend. What must hold for leases to end is a premise of the
property, `Attended`, and the run says nothing of a system where it does not hold.
Leases are bounded in the code too: `LeaseSeconds` never exceeds `AttemptSeconds`.
`SourceExecution!FairSpec` assumes that the executor runs on, that callbacks and
waits return, and that an operation does not go on with requests for ever;
the docstring of `AttemptContext` says the executor cannot preempt them.
`HttpServer!FairSpec` assumes that threads are scheduled, that a thread that is
started starts or fails, and that the clock moves. Nothing is assumed of a
client: it may be silent for ever. Nor is a write assumed to succeed; a socket's
own timeout ends it, which is `Respond`'s third case.
`WorkerRun`, `BenchCampaign` and `Installation` have no liveness: their recovery
is a manual operation.

## What is proved

Every invariant and action property of every passing run, and every refinement,
is also a theorem, for all values of the constants that satisfy the module's
assumption; so are the type invariants, which the runs therefore do not repeat,
except `Installation`'s.

`ControlPlaneProofs` proves, for any number of missions, workers, attempts,
slots, versions and any leases, the invariants of `races`, `RecoveryNeverBlocked`
and `OneAttemptPerWorker`, and `EndedAttemptsStand` as an action property. The only
assumption is `ConstantsAssumption` of `ControlPlane`.

* `TypeCorrect` is inductive as it stands.
* `RowsStayInLockStep` is inductive on top of it: `RowsAgree` ties the mission,
  its task and its last attempt together, with one lemma per action and
  `RowsFrame` for the missions an action does not touch. That exactly the last
  attempt of an active mission is active is the fact everything else uses.
* `RecoveryIsNeverBlocked` follows from it without induction: an active attempt
  makes its mission active, and a mission has one last attempt. The same lemma
  discharges the guard of every fence. Were it false, the backend could not start.
* `EndedAttemptsNeverChange` needs only that actions write active attempts or
  the next one, which `RowsAgree` says is still unused.
* `OneAttemptAtATime`, `ActiveAttemptsAreCurrent`, `CompletionDelivers` and
  `UpdatesAreNotLost` are each inductive together with the two before;
  `CompletedHasDocument` needs that the author of a result is the last attempt
  of a mission that can no longer move.
* `ContractIsKept` is the refinement of `MissionContract`. `Holders` and
  `Delivered` name what its two derived variables stand for, and each kind of step
  has a lemma: `FenceContract` (a fence takes missions back), `AdministerContract`
  (an operator's move leaves every holder), `ClaimContract` (an assignment, with
  the overdue leases taken back in the same transaction) and `FinishContract` (the
  document and the completion together, under a version nobody has). It needs
  `LockStep` and `Documents`, because a mission's holder is its last attempt's
  worker, and no result of a mission precedes its completion.

`WorkerRunProofs` proves all four properties of `worker_run`, from
`BoundsAssumption`, for any number of claims, attempts, epochs, processes and
authorities and requests. None of the three invariants is inductive alone. `IInv` adds what
ties the worker to the backend across processes: `Journaled` (a process holds the
journal that is on disk, but for a result not yet written), `Claimed` (each
attempt answers one claim, and the claims before the journal's are all
answered), `OnTheWire` (a call of an earlier process says nothing that the journal
does not, except a result that a cancellation has overtaken), `Answered`,
`Accepted` and `Computing`. Two lemmas carry most steps: `DoneIInv` for the steps
that end a journal, `WriteIInv` for those that write a result. `PermitInv`
is the strengthening for `PermittedAnew`, on top of the types: a running process has
at most one request of its own on the channel, only while its check waits, and what
that request was answered is among those who permitted since (`since`); that a permit
that has passed its check is one of those too then holds until the act, whatever moves
in between.

`SourceExecutionProofs` proves, for every policy, `TypeOK`, `AttemptedOnce`,
`WaitFits`, `RetryAfterHonoured` and `NothingAfterTheBudget`, from
`PolicyAssumption`. The inductive invariant `IInv` adds `Counted` (an attempt is
counted before the operation is called, and only an idempotent task plans a
second one) and `TimeKnown` (where a request may follow, the server's time has
come; while a wait is planned, it is at most what the error asks for from now).
`BackoffType` bounds the recursive backoff; its induction goes through sets (a
set of counterexamples has a least element), because the library's induction
theorems take an operator the provers cannot instantiate.

It also proves all properties of `checkpoints` for any sources, contexts and runs
and any number of power losses. The inductive invariant `RunInv` has three parts
besides the types: `FilesWhole` (names are given to synced content only, and the
name found free under the lock stays free until the rename), `EventsKept` (an
event's checkpoint has its name on the disk, or the power has not failed and
nothing is ever removed) and `PlanScope` (what a run holds was in its scope when it
was chosen, and its plan does not change).

`ConfirmedBatchesProofs` proves, for any plans, any number of deliveries and any
length, that `ConfirmedBatches` implements `LoadedPrefix` (`DeliveryLoadsOnePlan`),
and `AlwaysResumable`, `VerifiedIsComplete` and `JournalHolds`. The inductive
invariant says that the rows and receipts of a database are a prefix of the plan
its manifest names, that a delivery past its manifest loads that very plan, and
that what it has confirmed is committed; a late write then either repeats a
receipt, and the engine refuses it, or is the next batch of the same plan.

`DiscoveryImportProofs` proves, for any keys, snapshots and sessions, that each
engine's cache implements `GuardedCache` (`BothEnginesRefine`), that the guard's
answer is stable until the commit, and that plans are admitted, whatever the
instants and however many ticks a microsecond has. `Locked` is the
strengthening: a session past `LOCK TABLE` is the one that has the lock.

It also proves both properties of `revalidation`. The invariant `CacheInv` says
that an entry's validators are those of its snapshot and its provenance of its
request's context (`EntryBound`), and that a 304 is about the validators that
were sent (`UnmodifiedBound`): validators within one context then name one version.

`HttpServerProofs` proves, for any number of slots, connections and seconds,
`DispatchIsWhole`, `ServiceOutlivesHandlers` and `SlotsConserved`. `Turn` says whose thread the main thread is starting, `Told`
what each handler's phase says about the pieces read and the reply.

`InstallationProofs` proves all six properties of `installation`, from
`ConstantsAssumption`, for any identities and contents, either release of the
source, and any number of keys, process deaths and power losses. The invariant
`IInv` describes each directory at each step of the three commands:

* `Typed`: each directory is `Sound`, that is, nothing lasts that is not there and
  no file is in a missing subdirectory, and what a process works on is what it
  began with (`Working`).
* `SourceInv`: the key of an active identity lasts, the migrated token apart, and
  until the power fails each version has its object.
* `BackupInv`: until the manifest the source does not move and the backup has only
  what is the source's; with it, it has everything, and what was copied lasts.
  A reported backup keeps its subdirectories and its manifest.
* `RestoreInv`: until the marker the backup that was inspected stands; no identity
  is active once `Retire` has run; from the marker on, everything the directory
  needs lasts, and so do the keys it then issues.

Beyond the types, no property is inductive alone: that a marker comes last needs to know
at every earlier step which files have been copied and which of them last, and
that needs the backup to stand still, the source's index not to be in the middle
of a transaction, and the index copied to be the one whose objects are copied. A
power loss is one lemma for all steps: it takes nothing that lasts, every command
ends, and each part of `IInv` but those about jobs speaks of what lasts, of an
index that is only reset with its file, or of a time before the first power loss.
The power loss of a destination's parent takes a whole directory at once, which is
why everything said of a directory is conditional on its manifest or marker, or on
its being there. In the model, `Remains` and `Revoke` name the parts they change
one by one, and nested updates name their record rather than `@`: those are the
forms the prover can look into.

`BenchCampaignProofs` proves the three properties of `bench`, from
`BoundsAssumption`, for any attempts, any engines and stages, and any number of
signals and kills. `FinishedIsStopped` looks at all attempts at once, and no
attempt knows of the others. The strengthening says who will answer for what runs:
`RunningIsOwed` has each running engine owed a stop by an attempt that knows the
containers and has not yet passed it in `finally`, or one that was lost or
reported a `stop_error` (`Owes`). A step of one attempt leaves the debts of the
others (`OtherOwes`) and its own until it has stopped that engine (`DebtIsKept`);
the only step that starts an engine makes its own attempt owe the stop.
`KnownIsRecorded` and `Knows` say that whoever may start an engine has
`objects.json`; `Staged` and `Verdict` follow one attempt's progress for
`VerifiedIsWhole`. TLC checked this invariant, and `Installation`'s, on the
instances of the runs before they were proved.

Model-checked only: liveness (`LeaseEnds`, `Terminates`, `SlotsComeBack`), which
needs fairness and ENABLED and is beyond the prover; and the finding, which is a
counterexample.

## What is not modelled

`PROJECT.json` lists every component with its status and reason. Inside the
modelled components:

* Workspace: several files, quotas and staging. One document and its versions
  carry the compare-and-set.
* HTTP: parsing, routing and the values of headers are data. A second Ctrl-C while
  the server joins its handlers is not modelled: it would close the service under
  them. A connection that the main thread has cut takes no more replies, while
  what had arrived may still be read.
* Verification: what an observation contains (`assess`), the diagnostic verifier
  and the pilot's probes are I/O and data. The length of a decision's two
  seconds is not measured: `DecisionLapses` may end them at any moment before the
  reading.
* Imports: the text of the scripts, and how they encode values (an empty
  `source_revision` becomes NULL through CSV).
* Bench: the workloads and their measurements; a docker command that ends after
  its caller. A monitor that trips after the final check leaves VERIFIED standing,
  as in the code. An attempt whose `finally` was left by an
  exception is exempt from `FinishedIsStopped`; `StoppedInFinally` is about it.
* Console: the views, the forms and their operation identifiers.
* The adapters of the providers, the importers of the proof of concept and the
  read-only benchmarks translate text; machine
  provisioning acts outside the repository; the archived prototype is superseded.

What could still be added: `compare_snapshots` and the
merge of several sources as operators against reference definitions.
