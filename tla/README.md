# A TLA+ verification of image-bed

image-bed is an image hosting server in Go: HTTP handlers store uploads, a pool of workers turns
each image into a thumbnail, a WebP and an AVIF variant, and readers are served the best variant
there is, through caches. Most of what can go wrong in it without a test noticing happens between
goroutines: tasks, requests, a periodic sweeper, the shutdown path, cache fills and crashes all write
the same rows, files and entries. This directory models those parts, one module per component.

| file | what it is |
| --- | --- |
| `VariantLifecycle.tla` | abstract: the life of one row of `image_variants`, whoever writes it |
| `VariantPipeline.tla` | detailed: tasks, converter, sweeper, shutdown, crash and time |
| `JobsOnce.tla` | abstract: what the worker pool promises of a job |
| `WorkerPool.tla` | detailed: submission, channel, workers, semaphore, shutdown |
| `ReadCache.tla` | what is cached of one image, its readers and its writers |
| `ImageStore.tla` | image rows, originals, variant files and temp files |
| `Albums.tla` | an album, its images, and the cached pages of the list |
| `ConfigStorage.tla` | storage configurations and the registry of providers |
| `Settings.tla` | settings in the table and in the cache of the configuration |
| `Sessions.tla` | login, refresh, logout, change of password |
| `ImageServing.tla` | which file answers a request and how it is sent |
| `ClientLimits.tla` | the rate limit of a client address |
| `Backup.tla`, `Migration.tla` | the commands backup, restore and migrate |
| `VariantPipeline_proofs.tla` | proofs: the inductive invariant of the pipeline |
| `VariantLifecycle_proofs.tla` | proofs: the pipeline implements `VariantLifecycle`; statuses, registry, permits |
| `Services_proofs.tla` | proofs about `WorkerPool`, `ReadCache` and both together |
| `Configuration_proofs.tla` | proofs about `ConfigStorage` and `Settings` |
| `Requests_proofs.tla` | proofs about `Sessions`, `ClientLimits`, `ImageServing` and `Albums` |
| `ImageStore_proofs.tla` | proofs about `ImageStore` |
| `Commands_proofs.tla` | proofs about `Backup` and `Migration` |
| `Server_proofs.tla` | proofs: the composed server implements its parts, and its types |
| `MCVariantPipeline.tla`, `Pipeline*.cfg` | instances of the pipeline for TLC |
| `MCServices.tla`, `Services.cfg` | the worker pool and the cache of an image |
| `MCServer.tla`, `Server.cfg` | all other parts |
| `SettingsRefused.cfg`, `MigrationOverwrite.cfg` | two findings, on their modules directly |
| `PROJECT.json` | components, runs, mutants, source map, findings, hazards, theorems |

Paths below are relative to the repository.

## Inventory

| component | state it keeps | operations | hard behaviour | what makes it correct |
| --- | --- | --- | --- | --- |
| pipeline task, `internal/worker/pipeline_task.go` | `acquiredVariants`, results, the context | `Execute`, `runPipeline`, `finalize`, heartbeat | many exits, panics, a context shorter than the work, rows written by others meanwhile | every claimed row is settled or given back; no row is taken from a task in time; permits balance |
| converter, `internal/image/converter.go` | none but its locals | `triggerConversion`, `failPendingVariantsOnSubmitFailure`, `markImageProcessing` | acts on what it read before; its updates come after the task was submitted | a refused submission hurts nobody else; the image's status agrees with the work |
| variant rows, `database/repo/images/variant_repository.go` | status, retry count, `next_retry_at`, `updated_at`, soft delete | one conditional update each | concurrent writers, no transactions | a row only moves along its life |
| image status, `database/repo/images/images_repository.go` | `variant_status`, `updated_at` | `UpdateVariantStatus`, the stale updates, the shutdown reset | written last by whoever is last | a success is backed by a row; Processing ends |
| sweeper, `internal/worker/sweeper.go` | none | `sweepOnce` every interval | reads, then updates row by row; re-triggers in the middle | abandoned rows come back, held rows are left alone |
| worker pool, `internal/worker/worker.go` | channel, semaphore, in-flight registry, counters | `Submit`, `worker`, `ShutdownContext`, leases | full queue, close against send, draining with a deadline | no task lost or run twice; the registry says what is owed |
| `serve`, `cmd/serve.go` | shutdown sequence | stop sweeper, drain, reset in-flight rows | the deadline passes while tasks still run | nothing processing is left behind |
| image store, `internal/image/write_service.go`, `delete_service.go` | image rows, files | upload, dedup by hash, restore, delete | upload against delete of the same content | a row's file exists; a file without rows goes away |
| read path, `internal/image/read_service.go`, `variant_service.go` | none, caches | metadata, negotiation, lazy trigger | asynchronous cache fill against invalidation | a deleted image does not come back from the cache |
| cache, `cache/` | entries, album list version | get, set, delete, version | read-modify-write of the version | an old list is not served after a change |
| configuration, `config/db/` | rows, cached copies, subscribers | load, update, invalidate | load-then-set against update; shared mutable copies | readers see the last settings saved |
| storage registry, `storage/storage.go` | providers by id | init, add, remove, default | copy-on-write swaps | the default exists; a provider in use is not swapped for a stale one |
| sessions, `internal/auth/`, `database/repo/accounts/` | device rows, API keys | login, refresh, logout, change of password | two refreshes with one token; a refresh against a logout | what was ended stays ended, the cookie works |
| albums, `internal/albums/`, `database/repo/albums/` | albums and memberships | CRUD | checks outside the transaction; cached lists | no dangling members; lists agree with the tables |
| dashboard, random, user | small caches | reads | stale copies | bounded staleness |
| image serving, `api/handler/images/`, `utils/format/` | the response | redirect, cache, sendfile, stream, reader | each way may fail after the one before it has sent something; files go meanwhile | an answer is one image or one error |
| HTTP API and middleware, `api/` | limiters | routing, limits, authentication | limiters evicted while a request holds one | eviction gives nobody more requests |
| tools, `cmd/` | none | backup, restore, migrate, clean | no transactions; the command dies halfway, the server writes meanwhile | restore inverts backup; a migration without error is complete |
| libvips bindings, utilities, documents | none | conversions | C memory | outside the reach of a model |

Interaction. A view or an upload runs `TriggerConversion`, which inserts the missing variant rows as
`pending`, submits one task with the IDs of those that are ready, and marks the image Processing. A
worker takes the task, claims each row with a compare-and-set from `pending` to `processing`,
registers itself among the in-flight tasks, takes a permit of the semaphore and starts a heartbeat
that refreshes `updated_at`. It generates the variants, settles each row (`completed`, `failed`,
soft-deleted when skipped), writes the image's status, and on the way out gives back whatever it has
not settled. The sweeper treats a `processing` row not refreshed for 15 minutes as abandoned: back to
`pending` with a retry charged, or `failed` at the third; it re-triggers those images and repairs the
status of the others. The shutdown path waits for the pool and at the deadline resets what the
registry lists. Readers use the image's status to decide whether to look for variants at all.

## `VariantPipeline`

State and code:

| variable | code |
| --- | --- |
| `row[<<i, k>>]` | the row of `image_variants`: `st` status, `gone` soft delete, `retry` retry_count, `hold` that next_retry_at is in the future, `age` time since updated_at |
| `image[i]` | `variant_status` and the age of `updated_at` of the row of `images` |
| `task[t]` | a task from the channel to its end: `pc` where in `Execute`, `vs` the variant IDs it was given, `tracked` acquiredVariants, `res` the non-nil results, `bad` hasFailed, `mark` the variants `markVariantFailed` has still to be called for, `ctx` the age of its context |
| `lease[t]` | its entry in the registry of in-flight tasks |
| `slots` | permits taken from the processing semaphore |
| `call[c]` | one `triggerConversion` on a request goroutine or on the sweeper's |
| `sweep` | the locals of `sweepOnce` |
| `shutdown` | the locals of the shutdown path of `serve` |
| `restarts`, `faults` | how often the process died, how many statements were refused |

One action is one database statement, or one step in memory, of one goroutine; between two actions
of a goroutine every other one may run. The actions of a task follow `Execute`: `Start`, `Acquire` or
`AcquireFails` per variant, `Register`, `TakeSlot` or `SlotTimeout`, `GetFile`, `Thumbnail`,
`LoadImage`, `FullVariant` (WebP, then AVIF), `Save` per result, `SetStatus`, `Finalize` per tracked
row, `Finish`; `MarkFailed` is each call of `markVariantFailed` and `Panic` the exit through
`recover`. A call does `Trigger`, `Prepare` or `PrepareFails` per variant, then `Submit` and
`MarkProcessing`, or `Reject`, `AbortRow` per row and `AbortImage`. The sweep does `BeginSweep` (the
SELECT), `RecoverRow` per row read, `SweepTrigger` per image, `MarkStaleProcessingAsFailed`,
`ResetStaleProcessingToNone`, or `SweepError`. Shutdown does `ClosePool`, `DrainDeadline`,
`ResetVariantsToPending`, `ResetProcessingVariantStatus` and `Restart`, which is also a crash at any
moment. `Tick` is time.

Abstractions, and why they are harmless:

- Time is counted in units. `Tick` ages rows and contexts together, and every heartbeat that is
  alive, and is not refused by the database, refreshes what it touches within the unit, since its
  period (4 min) is shorter than the unit. What matters is the order heartbeat < context (10 min) <
  stale threshold (15 min); the proofs use `CtxTimeout < StaleThreshold` and no more. Only the age of
  `processing` rows is ever read, so the others are kept at the maximum.
- An encoder is one choice among `Outcomes`: a result, a skip, an error or a panic; work of any
  length is any number of ticks before its action.
- The channel is a set of `queued` tasks with the capacity `QueueCap`: the order of tasks changes no
  property here. `Reject` is always possible, because other work fills the queue and memory may stay
  over its limit. Trigger calls that run on pool workers are goroutines of their own, which allows
  more interleavings than the pool does.
- A refused statement (`Refused`) stands for any database error, counted by `MaxFaults`. The 5 s
  context of a call may expire at any time after the submission attempt, at no such cost.
- The settings do not change during a task. WebP is skipped when the image exceeds `max_dimension`,
  and then AVIF is not kept either (`big`).
- Images are those that pass the GIF and size filters of `triggerConversion`.
- A sweep that finds nothing stale changes nothing and is left out. The image statements of a sweep
  use a cutoff; `sweep.old` is the set of images older than it.
- Deletion of cache entries when a task ends is in `ReadCache`, deletion of images in `ImageStore`.

`VariantLifecycle` says what a row may do, in seven actions without tasks or time.
`VariantPipeline` maps `life` to the status, or `deleted` when the row is soft-deleted, and `tries`
to the retry count; `LifecycleSpec` is the refinement, checked as a property.

## `WorkerPool` and `JobsOnce`

| variable | code (`internal/worker/worker.go`) |
| --- | --- |
| `submit[j]` | where the call `Submit(j)` is: waiting for memory, sent, counted, refused |
| `channel`, `isClosed`, `chanClosed`, `doneCh` | `taskCh`, the flag of the compare-and-swap, `close(taskCh)`, the WaitGroup's channel |
| `worker[w]` | a worker goroutine and its job |
| `permits`, `stats`, `outcome` | the processing semaphore, the counters, how a job ended |
| `stopper[s]` | a call of `ShutdownContext` |

The flag is read before the wait for memory and the send comes after it, so the channel may be closed
in between: the send then panics and `Submit` recovers and refuses (`Send`). A job may submit others
from its body (`Parent`), one call at a time, and may take a permit (`Heavy`). A job that never
returns is not modelled: every task of the program has a context. `JobsOnce` says that a job is
refused or runs once; `JobPhase` is the mapping.

## `ReadCache`

The database is a version of the image's row and one of its list of variants; a cache entry is the
version it holds. `reader`, `flight`, `leader` and `fill` are `GetImageMetadata`: two probes of the
empty-value marker around the one of the entry, the shared call, the database query, and the goroutine that
caches the result after the call has returned. `writer` is a change of the row or the variants and
the cache calls that follow it, one at a time: upload with its warm-up, change of visibility,
deletion, end of a conversion, and the changes of the status that leave the cache alone. An entry is
`late` when it was overtaken before it was stored; nothing in the code prevents that, and the entry
lives until it expires. `EntriesAreCurrent` and `MarkerIsTrue` say that there is no other kind of
stale entry, and `CacheConverges` that a late one ends. Expiry may come at any time. Calls of the cache
itself are taken to succeed: a deletion that the cache refuses, which the code logs, leaves an entry
that is as stale as a late one and ends like it, so the two safety properties speak of a cache
that answers. Only the warm-up may be refused, by the pool (`missed`).

## `ImageStore`

`rows` is the table `images` in the order of its key, `files` and `vfiles` the originals and the
variant files in the storage, `temp` the temp file of a request and who has to remove it. `upload`,
`job` and `delete` hold the locals of `processAndSaveImage`, of a background conversion and of a
deletion. An upload is `ReceivePart` (or `RejectRequest`), `FindByHash`, `FindDeletedByHash`, the
tests for reuse, then sharing, restoring or writing and inserting, with `UndoSaveFile`, and
`SubmitConversion`, which hands the temp file over; `EndUpload` is the deferred cleanup. A deletion is
the ownership check of a single one, the transaction, per image the variants' files and rows, per
path the count of references and the removal of the file. One variant stands for all; retries of the
pipeline are in `VariantPipeline`. Rows of one content share the identifier, because it is the first
twelve characters of the hash for every user.

Statements and file operations fail up to `MaxErrors` times. Four failures cost more than the request:
the write of a file, the removal that undoes it, the count of references and the removal after it are
logged or ignored, and leave the original behind. `left` has the paths where that happened since the file was last
written; `NoFileIsForgotten` is about all others.

## `Albums`

One album, its `members`, the user's images that are `present`, and the cached pages by version. Every
handler reads what it checks before its transaction (`FetchForEdit`), the transaction checks the album
again, and the list is invalidated afterwards by a read and a write of the version
(`ReadVersionToIncrement`, `StoreVersion`). `content` counts what the list shows. A page is `late`
when it was overtaken before its version was read, `again` when the version went down (an expired key,
or two increments that overlap); the property is about all others.

## `ConfigStorage` and `Settings`

`ConfigStorage` has the rows `conf`, the `registry` of providers, and the admin handlers as chains of
statements and registry operations: creation with its rollback, update, deletion behind a count of
images (`CountImages`, then the provider, then the row), change of the default, enabling. A row that
cannot be read is deleted without a count, and keeps its provider. Uploads take a provider and insert
a row later. `Start` is a crash and a start at any time, with the choice of the default.
Two ghosts say what the code leaves open, each set by the one step that does. `overtaken` has the storages
whose images lost the provider to a race: a handler is `late` when an image was inserted after its count,
and only the removal of a late handler, an insertion after the removal, and a start that does not
load the storage add to it. `excused` has the rows left without a provider by a failure: a provider
that could not be created, a rollback or a deletion that was refused.

`Settings` is the row, the cached value and the goroutines between them, for the transfer mode, the
image processing settings and the list of storages, which the code caches in three different ways.
The image processing settings are cached by pointer: a handler that `holds` the cached object edits
it in place. A change clears the entry of its own kind (`ClearsFor`): the one of the transfer mode
sets and clears its entry and then has `ClearCache` clear that of the storages, not the image
processing settings; only enabling and disabling a storage clear all three.

## `Sessions`

`session[d]` is the token in the row of device `d`, `cookie[b]` what a browser has, `tab[t]` a request
in flight. A refresh looks its token up and rotates it in a transaction of its own; a logout clears
the cookies first, looks the device up when it has only a token (`FindDevice`), and deletes the row by
what it was sent, so that with a token it leaves a row whose token was rotated since; a change of
password stores and then revokes. Any statement may fail. `raced` marks the sessions that survive their end: a
login or a rotation had passed its check, the token was rotated behind the logout, or the deletion was
refused, in which case the password is changed and the sessions live. A later revocation that succeeds
takes the mark away. `crossed` marks browsers that refreshed twice at once or lost an answer. The
properties say that these are the only exceptions.

## `ImageServing`

One request: the variant that is chosen (`SelectFile`, with `Negotiate` and `Thumbnail` for the rules
of the Accept header and of thumbnails), and then the chain of ways to send it, each falling through
to the next: `DirectURL`, `StorageProvider`, `FromCache`, `BySendfile`, `ByStreaming`, `ByReader`, and
again from the start for the original when a variant cannot be read. `status` and `body` are what has
been sent and cannot be taken back. Files are deleted meanwhile (`FileGoes`), and the storage fails up
to `MaxGlitches` times. A stream that breaks off in the middle is `broken`: `ByStreaming` falls through
and the next way appends to it, and a reader that fails once the header is out (`ReaderBreaks`) cuts the body
short behind a status of 200.

## `ClientLimits`

`shard[c]` is the limiter of a client, `limiter[o]` its tokens and when it was last seen, `asking[q]`
a request between getting the limiter and asking it. Cleaning up and a full shard evict what was not
seen for `ExpireTime`. `allowance` is a bucket that is never evicted; `LimitIsKept` compares with it.
The assumption on the constants, that an evicted bucket would be full by then, holds for the
defaults (half a token a second, 5 tokens, 10 minutes, and two more of that kind).

## `Backup` and `Migration`

`Backup` has an image as its rows in the four tables that hang together, with deleted rows keeping
their keys; a backup reads table by table while the server writes, a restore truncates and inserts
batch by batch and sets the sequence, each may die, and the archive may go to an empty database. Both
commands log most errors and report a success. A table that cannot be read is `cut`: any part of it may be in
the archive. A batch is refused as a whole, for a key in use or any other error, and the next one is
tried, so a restored table gets any subset of the rows whose keys are free; it is `faulted` if a row
is missing for another reason than its key. So is the sequence if it cannot be set.

`Migration` copies the tables row by row with a conflict strategy, images in pages by offset, links
at the end; a run may die and be started again on what it has left, with deletions in the source. An
error is kept in `failed`, or with `--on-conflict=error` ends the run, but for those the code drops: the tables
in `Tolerated` are passed over when they cannot be read (`unread`), and a link whose checks fail is
passed over with a warning (`warned`).

## Properties

Each says what several goroutines together must not bring about; the comment over its definition
names the races the code leaves open and the property excuses.

- Pipeline. `StaleMeansAbandoned`: a row the sweeper lists is never in the hands of a task whose
  context lives. `ProcessingIsOwned`: a `processing` row has a task that will settle it, unless the
  process died or a statement was refused. `SlotsMatchHolders`: the permits taken are those of the
  tasks between `Acquire` and `Release`. `RegistryMirrorsTasks`: the registry lists exactly what each
  registered task still owes. `SuccessIsBacked`: an image that says Completed or ThumbnailCompleted
  has a row of that kind that was made, and at worst settled otherwise by somebody else since.
  `LifecycleSpec`: every step of every actor on a row is a step of `VariantLifecycle`.
  `ProcessingIsTransient`, `ImageProcessingIsTransient`: neither a row nor an image stays Processing
  for ever. `IndInv` is the inductive invariant of the proofs, checked before it was proved.
- Pool. `JobsRunOnce`: `WorkerPool` implements `JobsOnce`. `GracefulMeansDrained`: a shutdown that
  says it was graceful has left nothing behind. `CountersReconcile`: the counters account for every
  job at every moment. `PoolDrains`: a pool that is told to stop drains.
- Cache of an image. `EntriesAreCurrent`, `MarkerIsTrue`, `CacheConverges`.
- Image store. `NoFileIsForgotten`: at rest, every original has a live row.
  `OnlyLateRowsLoseFiles`: a deletion takes the file from no row that was there when it counted.
  `VariantLossNeedsSharing`: a completed variant has its file unless a row on the same path was
  deleted. `TempFilesEnd`, `OneOwnerOfTempFile`: temp files are removed once and in the end.
- Albums. `PagesAreCurrent`, `DeletedAlbumsAreEmpty`, `DanglingNeedsOverlap`.
- Configuration. `DefaultIsLoaded`, `ImagesHaveStorage`, `RowsAreLoaded`, `CachedSettingsAreCurrent`.
- Sessions. `EndedSessionsStayEnded`, `CookieIsLive`.
- Serving. `AnswerIsOneImage`, `OriginalCoversVariant`. Limits: `LimitIsKept`.
- Commands. `RestoreIsExact`, `FinishedMeansMigrated`.

## Runs

| run | instance | shows |
| --- | --- | --- |
| `ownership` | thumbnail, 2 tasks, 2 tries, no fault or restart | the race of two tasks, a caller and the sweeper for one row: type, staleness, ownership, permits, refinement (about 965 000 states) |
| `crash` | thumbnail and WebP, 1 task, 1 restart | the inductive invariant, the registry and the image's status across shutdown, crash and restart (about 1.6 million states) |
| `kinds` | WebP and AVIF, 1 task, 1 refused statement | registry and refinement when any one statement fails and any encoder skips (about 1.1 million states) |
| `liveness` | WebP, 1 task, 1 restart, 1 refused statement, fairness | rows and images leave Processing (about 253 000 states) |
| `long_task` | WebP, 1 task | finding: a task that outlives its context is swept while running |
| `force_fail` | WebP, 1 task | finding: a rejected call fails another task's row |
| `late_mark` | WebP, 1 task, long timeouts | finding: the status of a finished task is overwritten |
| `skipped` | WebP, 1 task, skips, fairness | finding: an image stays Processing for ever |
| `services` | the pool; the cache of one image with five casts; fairness | safety, refinement and liveness of both (about 210 000 states) |
| `server` | every other part, with its casts | the properties of nine modules (about 2 million states) |
| `settings_refused` | 2 changers, 1 loader | finding: a refused change is in effect |
| `overwrite` | 1 row, 1 run | finding: overwriting loses the row |

Deadlock is checked in the runs of the pipeline. `services`, `server` and the two findings on single
modules say CHECK_DEADLOCK FALSE: a pool that has drained, a request that is answered, a bound that
is used up are ends and not deadlocks. That the pool never gets stuck is `PoolDrains`. No run
replaces a definition.

`services` and `server` hold several parts that share no variable. A step of one part commutes with
every step of another, so each behaviour plays one part, chosen with its *cast* in the initial state.
A cast is the set of goroutines that take part; where all of them at once are too many states, several
casts split the questions:

| part | casts | why these |
| --- | --- | --- |
| pool | all of 2 workers, 2 stoppers, 3 jobs (an upload that submits a conversion, a sweep), channel of 1, 1 permit | a full channel, a job that waits in a body, both outcomes of the swap |
| cache | 2 writers; 2 readers and a writer; a reader and 2 writers, for the row and for the list | the shared call and its successor; writers that cross; up to 3 versions |
| store | 2 uploads and a deletion; an upload and 2 deletions; an upload, a conversion and a deletion; an upload and a deletion with midnight, cleaning and a failing operation | 2 users, 1 content, 2 rows: a row of one's own, a shared one, a deleted one |
| albums | a lister and 2 editors without deletions of images; a lister and an editor; 2 editors | increments that overlap with a page being stored; adding against deleting |
| config | 2 administrators; an administrator and an upload with 2 failures; 2 rows | two changes of the default; a deletion past its count |
| settings | 1 loader, 2 changers, 4 changes | a load between two changes; an edit of an object that was replaced |
| sessions | 2 tabs, 2 browsers, 3 tokens, 1 change of password | tabs of one browser or of two |
| serving | all requests, 2 failures | both fall-backs may fail |
| limits | 2 clients, 2 requests, 4 limiters, burst 2, 1 token a tick | a limiter held by a request after its eviction, a full shard |
| backup | 2 images, 2 writes, one table or the sequence that meets an error | an image deleted after it was written, one in the archive only |
| migration | 2 images with the same or different identifiers, 1 row per plain table, pages of 1, 2 runs; a run that has met an error dies | a run on what another has left |

Bounds of the pipeline. One image is enough for the row properties: tasks and calls of different images touch
different rows and share only the semaphore and the queue, whose fullness is already a free choice
(`Reject`) or filled by two tasks of one image. Two tasks are needed for the race on a claim and for
a permit to be missing (`MaxConcurrentImages = 1`); two kinds for a task that has claimed one variant
and not the other, and for the AVIF rules that depend on WebP. The one caller and the sweeper make
two concurrent calls. `MaxRetries` is 2 where the row must be both recovered and exhausted, and 1
where the space must stay small: one sweep then fails the row. `CtxTimeout = 1` and
`StaleThreshold = 2` keep the order of the constants; `late_mark` uses 4 and 5 so that the
counterexample cannot come from a stale row. One restart covers a crash in each state and what
follows it. `MaxFaults = 1` lets each statement be the one that fails, in `kinds`
and in `liveness`; `ownership` and `crash` are about other hazards and have none.
`Workers = 2` is at least the number of tasks, so a queued task can always start. Only the
proofs speak of larger instances.

Every property of a passing run has a mutant in `PROJECT.json`: a small change of one mapped
definition, of a kind a maintainer could make, that TLC refutes under the same configuration. The
mutants are the operators whose comment begins with "Mutant", and no part of a specification.

## Fairness

`FairSpec` assumes weak fairness of time, of the sweep (a ticker in a goroutine of its own), of each
call and each task (goroutines that do not wait for anything but time, a permit or the database), and
of a shutdown once it has begun. Nobody has to view an image, and nobody has to crash. A task's
steps are one weakly fair action: the Go scheduler runs a goroutine that can run, but chooses none of
its branches. `ImageProcessingIsTransient` holds for variants that are made or fail and fails with
skips; the two runs `liveness` and `skipped` show both sides.

`PoolFairness`: a call of `Submit` that has begun goes on, since it waits for memory at most 30 s and
never for the channel; a worker that has something to do does it; so does the goroutine that waits for
the workers, and a shutdown, whose context ends. Nobody has to submit or to stop. `CacheFairness`: the
leader of a shared call, a fill, a list that was fetched and a writer go on, and every entry and
marker expires, because each is set with a time to live. Nobody has to read or to write. The other
modules have safety properties only.

## What is proved

### `VariantPipeline_proofs`

It proves, for any sets of images, tasks and callers and any values of the
limits allowed by `PipelineAssumption` (kinds among the three, positive limits, the context
shorter than the stale threshold, the sweeper's call apart from the others):

- `Invariance`: `Spec => []IndInv`
- `TypeCorrect`: `Spec => []TypeOK`
- `StaleImpliesAbandoned`: `Spec => []StaleMeansAbandoned`
- `ProcessingHasOwner`: `Spec => []ProcessingIsOwned`

The tasks need not be finite in number, and nothing else is assumed.

The argument. Neither safety property is inductive. That a stale row has no owner in time needs
the link between the two clocks, `ClaimsAreYoung`: a row a task claimed is no older than its context,
because the claim sets its age to 0 after the context was created and each unit of time ages both;
with `CtxTimeout < StaleThreshold` a task in time then owns no stale row. That a processing row has
an owner needs `TasksAreCoherent`: variants are tracked only while a task runs, the failures of
`markVariantFailed` are over before the deferred calls, and `finalize` visits all that is tracked.
Retry counts stay in their type because of `RetriesLeft`: a row that can still be recovered
has a try left, also for a row recovered from a count read earlier. `IndInv` is the conjunction of
these with `TypeOK` and `ProcessingIsOwned`.

The proof has one lemma for the types of all steps (`TypeStep`) and then one per group of actions.
What a step does to a row is summed up as leaving it, settling it or claiming it (`RowEffect`), and
`EffectsSuffice` says, once, that steps with such effects keep the invariant when the tasks keep
hold of what they have not settled; each action then only has to be shown to have the effect. `Tick`
is the exception, and is proved by itself.

### `VariantLifecycle_proofs`

It builds on `IndInv`, without further assumptions:

- `LifecycleImplemented`: `Spec => LifecycleSpec`, the refinement of `VariantLifecycle`
- `SuccessHasBacking`: `Spec => []SuccessIsBacked`
- `RegistryIsExact`: `Spec => []RegistryMirrorsTasks`
- `PermitsAreHeld`: `Spec => []SlotsMatchHolders`

The refinement maps `life` and `tries` to `Life` and `Tries`, read off the rows. Most steps map by
themselves, once one knows that the IDs they update by belong to rows that were inserted, and that a
count the sweep has read is still that of a row it may recover: this is `RowsAreKnown`. It needs
`TasksFollow`, what the locals of `Execute` say at each point: an image over `max_dimension` makes no
WebP and no AVIF, and WebP once visited was made, skipped or failed. `SuccessIsBacked` rests on the same
facts and two more: a result that `finalize` has saved is at an end (`ResultsAreBacked`), and so is what
the status of an image promises (`StatusesBacked`); ends do not come undone, by the refinement.

For the registry, `Moves` sums up what a step does to a task's lease and its permit; one lemma per group
of actions shows it, and the count of the holders goes up or down by one with the set. `PermitInv` adds
that this set is finite, which holds at the start and is kept, so the set of tasks may be infinite.

### `Services_proofs`

The pool, from `PoolAssumption` (a capacity and permits of at least one, at least one worker, as
`NewPool` makes sure of, and a parent for each job):

- `PoolInvariance`: `PoolSpec => []PoolInv`
- `PoolRunsJobsOnce`: `PoolSpec => JobsRunOnce`, the refinement of `JobsOnce`
- `GracefulShutdownDrains`: `PoolSpec => []GracefulMeansDrained`
- `CountersAlwaysReconcile`: `PoolSpec => []CountersReconcile`

`PoolInv` is where each job is: in the channel once or on one worker (`JobsInOnePlace`), only when it
was sent (`PlacedWereSent`), and once it is in neither, ended (`GoneHaveEnded`). An exited worker has
seen the closed channel empty (`ExitedMeansDrained`), and since nobody sends to a closed channel it
stays so. The refinement then goes action by action: each step changes the phase of one job by a step
of `JobsOnce`, or none. The counters need a second invariant, `CountInv`, on top of the first: the
sets that are counted are finite, and a job that has ended is nowhere any more, so that it is not
counted twice.

The cache of an image, for any readers, writers and versions, from `CacheAssumption` (the bound on the
versions is at least 1, the version a row is inserted with):

- `CacheStaysCurrent`: `CacheSpec => []EntriesAreCurrent`
- `MarkerStaysTrue`: `CacheSpec => []MarkerIsTrue`

The properties speak of the moment when every writer has returned; `CacheInv` says what holds on the way
there. An entry that is out of date has a writer that will drop or replace it (`ImageIsCurrent`,
`ListIsCurrent`), and the entry of a deleted image waits for the deletion itself, the only writer that
is sure to drop it: an update that it overtook rereads the row, finds none and leaves the entry alone.
A marker that was true before the upload waits for the upload's warm-up
(`MarkerGoes`). `VersionsAreReal` bounds what is on its way into the cache by what the database has.

Both together: `ServicesAreTheirParts` shows that `MCServices` implements both specifications,
`Spec => PoolSpec /\ CacheSpec`, so each of these theorems holds of the system the run checks, and
`ServicesTypes` gives `Spec => []TypeOK`.

### `Configuration_proofs`

`ConfigStorage`, for any administrators and uploads:

- `ConfigInvariance`: `ConfigSpec => []ConfigInv`
- `DefaultStaysLoaded`, `ImagesKeepStorage`, `RowsGetLoaded`: `ConfigSpec` implies each of
  `[]DefaultIsLoaded`, `[]ImagesHaveStorage`, `[]RowsAreLoaded`

`RowsAreLoaded` speaks of rest, so it needs what holds on the way there: `UnloadedIsPending`, a row
without a provider has a handler that will load it or take the row away. For the images it is
`RemovalsAreKnown`: a handler that is about to remove the provider of a storage with images is late,
because its count found none.

`Settings`, for any loads and changes:

- `SettingsTypes`: `SettingsSpec => []SettingsTypeOK`
- `SettingsStayCurrent`: `SettingsSpec => []CachedSettingsAreCurrent`

The core is `StaleIsAboutToGo`: a cached value that is not the table's has a change that will set it or
clear it, or is excused. The types are not immediate, because a write takes the number after the one
in the table: `ChangesAreCounted` says that the numbers written and the changes still to write
are together no more than the changes begun, which are bounded.

### `Requests_proofs`

`Sessions`, for any browsers and tabs:

- `SessionInvariance`: `SessionSpec => []SafeInv`
- `EndedStayEnded`: `SessionSpec => []EndedSessionsStayEnded`
- `CookiesStayLive`: `SessionSpec => []CookieIsLive`

The first property is inductive once a rotation is known to have a row or a device that was raced
over (`RotationsHaveRows`) and nothing is known of devices not yet made (`DevicesExist`). The second is
not even close: a cookie is stale while its answer is on the way. `CookieIsReplaced` says that this is
the only way to be stale, `AnswersAreLive` that the answer is good, and `DevicesHaveOneBrowser` that
whoever else rotates the token is a tab of the same browser, so that `crossed` names it.

`ClientLimits`: `LimitInvariance` and `EvictionsGiveNothing` (`[]LimitIsKept`), for any rates
that satisfy `LimitAssumption`, which is about the constants only: an evicted bucket would be full. The
invariant compares a limiter with the bucket that is never evicted (`LimiterWithinAllowance`), and the
one that is evicted has been unseen for so long that the other is full (`WithoutLimiterFull`); a
request that holds a limiter has kept it in the shard (`RequestsHoldCurrent`).

`ImageServing`: `ServingInvariance`, `AnswersAreOneImage` (`[]AnswerIsOneImage`) and
`OriginalsCover` (`[]OriginalCoversVariant`), for any number of failures. The invariant says that every
way that falls through has sent nothing (`NothingSentYet`) and that an error has one of four reasons
(`ErrorsHaveReasons`).

`Albums`, for any images, requests and bounds: `AlbumInvariance`, `DeletedAlbumsStayEmpty`
(`[]DeletedAlbumsAreEmpty`), `DanglingMembersOverlapped` (`[]DanglingNeedsOverlap`) and
`PagesStayCurrent` (`[]PagesAreCurrent`). The invariant adds `PickedWereThere`: the images a handler
looked up were there or were marked when they went. The pages need one of their own, `PagesFollow`:
a page, in the cache or on its way, that is not what the albums are has a version that has passed, or
that an editor is still to pass (`Owed`). Two editors that read the same version write the same next one,
and it is past the pages stored before either: this is why a lost increment does no harm.

### `ImageStore_proofs`

For any users, contents, uploads, deletions and conversions, and any bounds:

- `StoreTypes`: `StoreSpec => []StoreTypeOK`
- `TempFilesAreRemoved`: `StoreSpec => []TempFilesEnd`
- `TempFilesHaveOneOwner`: `StoreSpec => []OneOwnerOfTempFile`
- `FilesAreTakenFromLateRows`: `StoreSpec => OnlyLateRowsLoseFiles`, an action property
- `FilesAreNotForgotten`: `StoreSpec => []NoFileIsForgotten`
- `VariantsAreLostBySharing`: `StoreSpec => []VariantLossNeedsSharing`

Four invariants, each on top of the first. `KnownInv` is the types, with `RowsAreKnown` (whoever holds a
primary key holds one of the table, and what a deletion goes through is deleted) and `TempsHaveOwners`,
which says for each point of an upload whether the request or a conversion answers for the temp file.
`CountedRowsAreGone` is what the action property needs: between the count of the references and the
removal of the file, what is live on its path has a key greater than all that were counted, because the
count found none and a deleted row does not come back. `FilesAreRemembered` is `NoFileIsForgotten` away
from rest, for the files that are not `left`: a stored original without a live row has an upload that is about to insert one or to take
the file back, or a deletion that still has the row among its references or is about to remove the
file. That two deletions of rows on one path cannot each leave the file to the other is the heart of it.
`VariantsAreThere` extends the last property to the conversion that has saved its file and not yet the
row.

### `Commands_proofs`

`Backup`, for any images and edits:

- `BackupTypes`: `BackupSpec => []BackupTypeOK`
- `RestoresAreExact`: `BackupSpec => []RestoreIsExact`

`BackupInv` follows the tables that are left: the archive holds, of what the backup has passed, what the
tables held when it began, but for what is `cut` (`ArchiveIsExact`); the tables a restore has not come
to are empty and those it has come to hold the archive, but for what is `faulted` (`EmptiedIsEmpty`). Once the
sequence is set the next key is free (`NextKeyIsFree`), for which the keys in use must have a greatest one (`KeysAreBounded`).

`Migration`, for any tables, links, batch size and number of runs:

- `MigrationTypes`: `MigrationSpec => []MigrationTypeOK`
- `FinishedIsMigrated`: `MigrationSpec => []FinishedMeansMigrated`

Pages by `OFFSET` must neither skip a row nor end early: the lemma `PositionsHaveNoGaps` shows that the
positions of the rows left in the source have none between them, so a page that is empty is the last
(`LastPage`). `MigrationInv` then says of the tables a run has passed, and of the rows of the current
table before the offset and out of the batch, that they are live in the target (`PlainTablesAreLive`,
`ImagesAreLive`) and linked (`LinksAreMade`), unless the run has failed or deletions have shifted the
pages, and but for what is `unread` or `warned`.

### `Server_proofs`

`ServerIsItsParts` shows that `MCServer`, whatever its casts, takes only steps of its nine
specifications, `Spec => StoreSpec /\ ... /\ LimitSpec`, so every theorem above about a part holds of the
system the run `server` checks. `ServerTypes` gives `Spec => []TypeOK`, which joins the types of the nine.

### How they were found, and what is left to TLC

Each inductive invariant went to TLC before it was proved: those of the pipeline and the services on small
instances of their modules, those of the nine parts together on the instance of the run `server` (module
`Server_proofs`, 1 975 825 states, explored to the end), all but `KeysAreBounded`, which quantifies
over all numbers.

Every safety property of a passing run is a theorem. Only model-checked are the liveness properties
(`ProcessingIsTransient`, `ImageProcessingIsTransient`, `PoolDrains`, `CacheConverges`), since fairness
and `ENABLED` are beyond the proof system; and the six runs that expect a violation are counterexamples of TLC. Bounds such as
`MaxRows` or `MaxEdits` are parameters of the theorems, which hold for every value of them. What
the composed modules say of their parts is that they only take steps of them; how far their casts
explore a part is a question of the runs.

## Where the code and its comments part

1. `TouchProcessing` is documented to keep the sweeper from taking long-running tasks for stale work
   (`database/repo/images/variant_repository.go:158-159`), but the heartbeat ends with the 10 minute
   context of the task, which the encoders do not watch (run `long_task`).
2. `ForceUpdateFailed` is documented for variants not yet processing (same file, line 148), but a
   rejected call applies it to rows as it read them before (run `force_fail`).
3. Processing means that a variant is being processed (`database/models/image.go:13`), but
   `markImageProcessing` runs after the submission and overwrites the status of a task that has
   finished (run `late_mark`); the sweeper then resets the image to None, and its completed
   variants are not used.
4. `ResetStaleProcessingToNone` is documented to reset images with no remaining processing variants
   (`database/repo/images/images_repository.go:321-322`), but it also counts soft-deleted rows, which
   keep the status they were deleted in (run `skipped`).

5. `Validate` states the limits of the image processing settings
   (`config/db/image_processing_config.go:100-101`), but the handler writes the request into the
   cached object before it validates (`api/handler/admin/conversion_handler.go:107-159`), so a refused
   value is in effect until a later change (run `settings_refused`).
6. `--on-conflict=overwrite` is documented to replace existing data (`cmd/migrate.go:36`), but the
   row is soft-deleted and then created with the same key, which fails, so the target has lost it
   (run `overwrite`).

## Not modelled

- Reads that change nothing: `query_service.go`, the handlers that only list or show, the dashboard
  and the random image, each one statement behind a small cache that expires. API keys: single
  statements. Events of the configuration: nobody subscribes.
- `clean` without `--temp-only`: it stops on a storage that was never initialised
  (`cmd/clean.go:129`).
- Restoring users, devices and tokens: those batches go to gorm as untyped maps, and what it makes of
  them is outside this repository.
- `ConcurrencyLimiter`: the router mounts two of them, one before the API and one before images
  and thumbnails (`api/core/server.go:129-130`, `api/core/router.go:94`, `:127`, `:138`, `:168`). Each tries a
  semaphore before the handlers, refuses the request when it is full, and releases in a deferred
  call. It never waits and no other part sees it. `SimpleRateLimiter`: no route uses it.
- Providers over the network, libvips, TLS, HTTP decoding, pages and documents: input and output,
  foreign code or generated files. Where a module depends on them their outcome is a choice.
- The atomicity of one SQL statement and of a transaction is assumed of the database.

Some hazards in `PROJECT.json` have no property; each has a note with the reason, in most cases that
the code makes no promise there: a row claimed anew between a sweep's read and its update, a variant
whose skip is for good, a heartbeat that touches one row more.

## Plan

Done: the pipeline; the pool, the cache, the store, albums, configuration, sessions, serving, limits
and the commands, with their runs; every safety property of a passing run as a theorem, both
refinements, and the composed systems as implementations of their parts.

Left, most useful first: a bound on the retries charged to a row that is recovered twice; two images
in the instances of the pipeline; an abstract specification of the read path (an atomic cache) for
`ReadCache` to implement; the same for the store, with originals as reference counts.
