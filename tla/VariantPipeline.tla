-------------------------- MODULE VariantPipeline --------------------------
(***************************************************************************)
(* The variant pipeline of the image bed: the converter that queues work,  *)
(* the pool tasks that turn an image into its thumbnail, WebP and AVIF     *)
(* variants, the sweeper that recovers abandoned rows, and the shutdown    *)
(* path, all of them writing the same rows of image_variants and images.   *)
(*                                                                         *)
(* One action is one database statement, or one step in memory, of one     *)
(* goroutine.  Time is counted in units (Tick): the order of the 4 minute  *)
(* heartbeat, the 10 minute task context and the 15 minute stale threshold *)
(* is what matters, not their lengths.                                     *)
(***************************************************************************)
EXTENDS Naturals, FiniteSets

CONSTANTS
    Images,               \* images that pass the GIF and size filters
    Kinds,                \* the variants the settings enable
    Tasks,                \* slots for pipeline tasks that exist at once
    Callers,              \* goroutines that may run TriggerConversion
    Sweeper,              \* the sweeper's own TriggerConversionFromSweeper
    Workers,              \* pool worker goroutines
    QueueCap,             \* capacity of the pool's channel
    MaxConcurrentImages,  \* capacity of the processing semaphore
    MaxRetries,           \* staleMaxRetries
    CtxTimeout,           \* life of a task's context, in time units
    StaleThreshold,       \* staleThreshold, in time units
    Outcomes,             \* what an encoder may return: "ok", "skip", "err"
    MaxRestarts,          \* bound: crashes and restarts of the process
    MaxFaults             \* bound: statements the database refuses

ASSUME PipelineAssumption ==
    /\ Images # {}
    /\ Kinds \subseteq {"thumb", "webp", "avif"}
    /\ Sweeper \notin Callers
    /\ Outcomes \subseteq {"ok", "skip", "err"}
    /\ Workers \in Nat \ {0}
    /\ QueueCap \in Nat \ {0}
    /\ MaxConcurrentImages \in Nat \ {0}
    /\ MaxRetries \in Nat \ {0}
    /\ CtxTimeout \in Nat \ {0}
    /\ StaleThreshold \in Nat
    /\ CtxTimeout < StaleThreshold
    /\ MaxRestarts \in Nat
    /\ MaxFaults \in Nat

VARIABLES
    row,       \* row[<<i, k>>]: the row of image_variants
    image,     \* image[i]: variant_status and age of the row of images
    task,      \* task[t]: the locals of ImagePipelineTask.Execute
    lease,     \* lease[t]: the task's entry in inFlightTasks
    slots,     \* permits taken from the processing semaphore
    call,      \* call[c]: the locals of one triggerConversion
    sweep,     \* the locals of sweepOnce
    shutdown,  \* the locals of the shutdown path of serve
    restarts,  \* restarts so far
    faults     \* refused statements so far

vars == <<row, image, task, lease, slots, call, sweep, shutdown, restarts, faults>>

---------------------------------------------------------------------------
\* Values

Variants == Images \X Kinds
Triggers == Callers \cup {Sweeper}

RowStatus == {"absent", "pending", "processing", "completed", "failed"}
ImageStatus == {"none", "processing", "thumbnailCompleted", "completed", "failed"}

Row == [st : RowStatus, gone : BOOLEAN, retry : 0 .. MaxRetries,
        hold : BOOLEAN, age : 0 .. StaleThreshold]
Image == [status : ImageStatus, age : 0 .. StaleThreshold]

\* Where a task is in Execute.  Slotted: it holds a permit of the semaphore.
Slotted == {"file", "thumb", "load", "full", "save"}
Running == Slotted \cup {"acquire", "slot", "giveup", "finalize"}

Task == [pc : Running \cup {"free", "queued"}, img : Images,
         vs : SUBSET Kinds,       \* the variant IDs the task was given
         todo : SUBSET Kinds,     \* what the current loop has still to visit
         mark : SUBSET Kinds,     \* variants about to be marked failed
         tracked : SUBSET Kinds,  \* acquiredVariants
         res : SUBSET Kinds,      \* non-nil results
         big : BOOLEAN,           \* the image exceeds max_dimension
         bad : BOOLEAN,           \* hasFailed
         panic : BOOLEAN,         \* finalize recovered a panic
         ctx : 0 .. CtxTimeout]   \* age of the task's context

Lease == [held : BOOLEAN, kinds : SUBSET Kinds]

Call == [pc : {"idle", "prepare", "mark", "abort"}, img : Images,
         todo : SUBSET Kinds, ready : SUBSET Kinds]

Sweep == [pc : {"idle", "rows", "trigger", "fail", "reset"},
          todo : SUBSET (Variants \X (0 .. MaxRetries - 1)),  \* staleVariants
          retried : SUBSET Images,  \* retriedImageIDs
          queue : SUBSET Images,    \* those not yet re-triggered
          old : SUBSET Images]      \* images with updated_at before the cutoff

Shutdown == [phase : {"up", "closed", "rows", "images", "exiting"},
             rows : SUBSET Variants, images : SUBSET Images]

\* A row of images in a status; only the age of a Processing one is ever read.
Marked(s) == [status |-> s, age |-> IF s = "processing" THEN 0 ELSE StaleThreshold]

SomeImage == CHOOSE i \in Images : TRUE

AbsentRow == [st |-> "absent", gone |-> FALSE, retry |-> 0, hold |-> FALSE, age |-> StaleThreshold]
FreeTask == [pc |-> "free", img |-> SomeImage, vs |-> {}, todo |-> {}, mark |-> {},
             tracked |-> {}, res |-> {}, big |-> FALSE, bad |-> FALSE,
             panic |-> FALSE, ctx |-> 0]
NoLease == [held |-> FALSE, kinds |-> {}]
IdleCall == [pc |-> "idle", img |-> SomeImage, todo |-> {}, ready |-> {}]
IdleSweep == [pc |-> "idle", todo |-> {}, retried |-> {}, queue |-> {}, old |-> {}]
Up == [phase |-> "up", rows |-> {}, images |-> {}]

TypeOK ==
    /\ row \in [Variants -> Row]
    /\ image \in [Images -> Image]
    /\ task \in [Tasks -> Task]
    /\ lease \in [Tasks -> Lease]
    /\ slots \in Nat
    /\ call \in [Triggers -> Call]
    /\ sweep \in Sweep
    /\ shutdown \in Shutdown
    /\ restarts \in 0 .. MaxRestarts
    /\ faults \in 0 .. MaxFaults

Init ==
    /\ row = [v \in Variants |-> AbsentRow]
    /\ image = [i \in Images |-> Marked("none")]
    /\ task = [t \in Tasks |-> FreeTask]
    /\ lease = [t \in Tasks |-> NoLease]
    /\ slots = 0
    /\ call = [c \in Triggers |-> IdleCall]
    /\ sweep = IdleSweep
    /\ shutdown = Up
    /\ restarts = 0
    /\ faults = 0

---------------------------------------------------------------------------
\* The tables.  The soft-delete scope of every query hides rows that are gone.

IsProcessing(v) == row[v].st = "processing" /\ ~row[v].gone
IsPending(v) == row[v].st = "pending" /\ ~row[v].gone

\* The columns each statement of the repositories assigns.  Only the updated_at
\* of a processing row is ever read: every other row is left as old as can be.
InState(r, s) == [r EXCEPT !.st = s, !.age = IF s = "processing" THEN 0 ELSE StaleThreshold]

\* Mutant: updated_at is not refreshed by the claim.
ClaimedOldMutant(r) == [r EXCEPT !.st = "processing", !.hold = FALSE]

Claimed(r) == [InState(r, "processing") EXCEPT !.hold = FALSE]
Completed(r) == [InState(r, "completed") EXCEPT !.retry = 0, !.hold = FALSE]
Failed(r) == [InState(r, "failed") EXCEPT !.hold = FALSE]
RolledBack(r, s) == InState(r, s)
Deleted(r) == [r EXCEPT !.gone = TRUE, !.hold = FALSE, !.age = StaleThreshold]
ResetPending(r) == [InState(r, "pending") EXCEPT !.hold = FALSE]
\* Mutant: the retry limit is forgotten.
RecoveredForeverMutant(r, retry) ==
    [InState(r, "pending") EXCEPT !.retry = retry + 1, !.hold = TRUE]

\* Mutant: the limit is off by one.
RecoveredOnceMoreMutant(r, retry) ==
    IF retry + 1 > MaxRetries
    THEN [Failed(r) EXCEPT !.retry = retry + 1]
    ELSE [InState(r, "pending") EXCEPT !.retry = retry + 1, !.hold = TRUE]

Recovered(r, retry) ==
    IF retry + 1 >= MaxRetries
    THEN [Failed(r) EXCEPT !.retry = retry + 1]
    ELSE [InState(r, "pending") EXCEPT !.retry = retry + 1, !.hold = TRUE]

SetImage(i, s) == image' = [image EXCEPT ![i] = Marked(s)]

\* A statement reaches the database, or is refused with an error.
Accepted == UNCHANGED faults
Refused == faults < MaxFaults /\ faults' = faults + 1

\* The pipeline visits thumbnail, WebP and AVIF in this order.
First(S) == IF "thumb" \in S THEN "thumb" ELSE IF "webp" \in S THEN "webp" ELSE "avif"

---------------------------------------------------------------------------
\* A pipeline task: ImagePipelineTask.Execute

Others == <<call, sweep, shutdown, restarts>>

At(t, k) == <<task[t].img, k>>

Go(t, new) == task' = [task EXCEPT ![t] = new]

\* Mutant: a release is not passed on to the registry.
SyncForgottenMutant(t, kinds) == UNCHANGED lease

\* syncInFlightTracking: the lease follows acquiredVariants.
Sync(t, kinds) ==
    lease' = [lease EXCEPT ![t].kinds = IF lease[t].held THEN kinds ELSE @]

\* A worker takes the task off the channel and Execute creates its context.
Start(t) ==
    /\ task[t].pc = "queued"
    /\ Cardinality({u \in Tasks : task[u].pc \in Running}) < Workers
    /\ Go(t, [task[t] EXCEPT !.pc = "acquire", !.todo = task[t].vs, !.ctx = 0])
    /\ UNCHANGED <<row, image, lease, slots, faults, Others>>

\* UpdateStatusCAS(pending -> processing) of the next variant.
Acquire(t) ==
    /\ task[t].pc = "acquire" /\ task[t].todo # {}
    /\ LET k == First(task[t].todo) IN
       /\ IsPending(At(t, k))
       /\ Accepted
       /\ row' = [row EXCEPT ![At(t, k)] = Claimed(@)]
       /\ Go(t, [task[t] EXCEPT !.todo = @ \ {k}, !.tracked = @ \cup {k}])
    /\ UNCHANGED <<image, lease, slots, Others>>

\* Mutant: what was claimed before the refused claim is not handed to finalize.
AcquireFailsMutant(t) ==
    /\ task[t].pc = "acquire" /\ task[t].todo # {}
    /\ ~IsPending(At(t, First(task[t].todo))) /\ Accepted
    /\ Go(t, [task[t] EXCEPT !.pc = "finalize", !.todo = {}, !.tracked = {}])
    /\ UNCHANGED <<row, image, lease, slots, Others>>

\* Another actor owns the variant, or the statement failed: the early return.
AcquireFails(t) ==
    /\ task[t].pc = "acquire" /\ task[t].todo # {}
    /\ \/ ~IsPending(At(t, First(task[t].todo))) /\ Accepted
       \/ Refused
    /\ Go(t, [task[t] EXCEPT !.pc = "finalize", !.todo = task[t].tracked])
    /\ UNCHANGED <<row, image, lease, slots, Others>>

\* beginInFlightTask
Register(t) ==
    /\ task[t].pc = "acquire" /\ task[t].todo = {}
    /\ lease' = [lease EXCEPT ![t] = [held |-> TRUE, kinds |-> task[t].tracked]]
    /\ Go(t, [task[t] EXCEPT !.pc = "slot"])
    /\ UNCHANGED <<row, image, slots, faults, Others>>

\* touchProcessingState: what one heartbeat of each task in T refreshes.
Touches(T, v) ==
    IsProcessing(v) /\ \E t \in T : v[1] = task[t].img /\ v[2] \in task[t].tracked
TouchesImage(T, i) ==
    image[i].status = "processing" /\ \E t \in T : task[t].img = i

\* semaphore.Acquire, and the first touch of startProcessingHeartbeat.
TakeSlot(t) ==
    /\ task[t].pc = "slot"
    /\ slots < MaxConcurrentImages
    /\ slots' = slots + 1
    /\ \/ /\ Accepted
          /\ row' = [v \in Variants |->
                       IF Touches({t}, v) THEN [row[v] EXCEPT !.age = 0] ELSE row[v]]
          /\ image' = [i \in Images |->
                         IF TouchesImage({t}, i) THEN [image[i] EXCEPT !.age = 0] ELSE image[i]]
       \/ Refused /\ UNCHANGED <<row, image>>
    /\ Go(t, [task[t] EXCEPT !.pc = "file"])
    /\ UNCHANGED <<lease, Others>>

\* The context ends first: every variant of the task is to be marked failed.
SlotTimeout(t) ==
    /\ task[t].pc = "slot" /\ task[t].ctx = CtxTimeout
    /\ Go(t, [task[t] EXCEPT !.pc = "giveup", !.mark = task[t].vs, !.bad = TRUE])
    /\ UNCHANGED <<row, image, lease, slots, faults, Others>>

\* markVariantFailed: UpdateFailed only matches a processing row; when it
\* matches none the variant stays tracked.
MarkFailed(t) ==
    /\ task[t].mark # {}
    /\ LET k == First(task[t].mark) IN
       \/ /\ IsProcessing(At(t, k)) /\ Accepted
          /\ row' = [row EXCEPT ![At(t, k)] = Failed(@)]
          /\ Go(t, [task[t] EXCEPT !.mark = @ \ {k}, !.tracked = @ \ {k}])
          /\ Sync(t, task[t].tracked \ {k})
       \/ /\ (~IsProcessing(At(t, k)) /\ Accepted) \/ Refused
          /\ Go(t, [task[t] EXCEPT !.mark = @ \ {k}])
          /\ UNCHANGED <<row, lease>>
    /\ UNCHANGED <<image, slots, Others>>

\* getProcessingFilePath: the local file, or a download that may fail.
GetFile(t) ==
    /\ task[t].pc = "file"
    /\ \/ Go(t, [task[t] EXCEPT !.pc = IF "thumb" \in task[t].vs THEN "thumb" ELSE "load"])
       \/ /\ "err" \in Outcomes
          /\ Go(t, [task[t] EXCEPT !.pc = "save", !.mark = task[t].vs, !.bad = TRUE])
    /\ UNCHANGED <<row, image, lease, slots, faults, Others>>

\* Mutant: the registry does not learn of the deletion.
SkipVariantUnsyncedMutant(t, k, new) ==
    /\ Accepted
    /\ row' = [row EXCEPT ![At(t, k)] = Deleted(@)]
    /\ Go(t, [new EXCEPT !.tracked = @ \ {k}])
    /\ UNCHANGED lease

\* deleteTrackedVariant: the soft delete matches the row whatever its status;
\* a refused delete leaves the variant tracked.
SkipVariant(t, k, new) ==
    \/ /\ Accepted
       /\ row' = [row EXCEPT ![At(t, k)] = Deleted(@)]
       /\ Go(t, [new EXCEPT !.tracked = @ \ {k}])
       /\ Sync(t, task[t].tracked \ {k})
    \/ /\ Refused
       /\ Go(t, new)
       /\ UNCHANGED <<row, lease>>

\* generateThumbnail, and the switch on what it returns.
Thumbnail(t) ==
    /\ task[t].pc = "thumb" /\ task[t].mark = {}
    /\ LET next == IF task[t].vs = {"thumb"} THEN "save" ELSE "load"
       IN \/ /\ "ok" \in Outcomes /\ Accepted
             /\ Go(t, [task[t] EXCEPT !.res = {"thumb"}, !.pc = next,
                         !.todo = IF next = "save" THEN {"thumb"} ELSE {}])
             /\ UNCHANGED <<row, lease>>
          \/ /\ "err" \in Outcomes /\ Accepted
             /\ Go(t, [task[t] EXCEPT !.mark = {"thumb"}, !.bad = TRUE, !.pc = next])
             /\ UNCHANGED <<row, lease>>
          \/ /\ "skip" \in Outcomes
             /\ SkipVariant(t, "thumb", [task[t] EXCEPT !.pc = next])
    /\ UNCHANGED <<image, slots, Others>>

\* LoadImageFromFile for WebP and AVIF; a failure marks both, and the code
\* still goes on to generate them.
LoadImage(t) ==
    /\ task[t].pc = "load" /\ task[t].mark = {}
    /\ LET full == task[t].vs \ {"thumb"}
       IN \/ Go(t, [task[t] EXCEPT !.pc = "full", !.todo = full])
          \/ /\ "err" \in Outcomes
             /\ Go(t, [task[t] EXCEPT !.pc = "full", !.todo = full, !.mark = full,
                                      !.bad = TRUE])
    /\ UNCHANGED <<row, image, lease, slots, faults, Others>>

\* The loop over WebP and AVIF ends in saveVariantResults.
Visited(t, k, res) ==
    LET rest == task[t].todo \ {k}
    IN [task[t] EXCEPT !.res = res, !.pc = IF rest = {} THEN "save" ELSE "full",
                       !.todo = IF rest = {} THEN res ELSE rest]

\* An AVIF error counts only when no WebP was asked for.
Required(t, k) == k # "avif" \/ "webp" \notin task[t].vs

\* generateWebP and generateAVIF.  WebP is skipped when the image exceeds
\* max_dimension, and AVIF is then skipped as well.
FullVariant(t) ==
    /\ task[t].pc = "full" /\ task[t].mark = {} /\ task[t].todo # {}
    /\ LET k == First(task[t].todo)
           next == Visited(t, k, task[t].res)
       IN \/ /\ "ok" \in Outcomes /\ ~task[t].big /\ Accepted
             /\ Go(t, Visited(t, k, task[t].res \cup {k}))
             /\ UNCHANGED <<row, lease>>
          \/ /\ "err" \in Outcomes /\ Accepted
             /\ Go(t, [next EXCEPT !.mark = {k}, !.bad = @ \/ Required(t, k)])
             /\ UNCHANGED <<row, lease>>
          \/ /\ "skip" \in Outcomes
             /\ SkipVariant(t, k, [next EXCEPT !.big = @ \/ k = "webp"])
    /\ UNCHANGED <<image, slots, Others>>

\* Mutant: UpdateCompleted without its condition on the status.
SaveAnyStatusMutant(t) ==
    /\ task[t].pc = "save" /\ task[t].mark = {} /\ task[t].todo # {}
    /\ LET k == First(task[t].todo) IN
       /\ row' = [row EXCEPT ![At(t, k)] = Completed(@)]
       /\ Go(t, [task[t] EXCEPT !.todo = @ \ {k}, !.tracked = @ \ {k}])
       /\ Sync(t, task[t].tracked \ {k})
    /\ Accepted
    /\ UNCHANGED <<image, slots, Others>>

\* Mutant: the error of UpdateCompleted is ignored.
SaveUncheckedMutant(t) ==
    /\ task[t].pc = "save" /\ task[t].mark = {} /\ task[t].todo # {}
    /\ LET k == First(task[t].todo) IN
       /\ \/ IsProcessing(At(t, k)) /\ Accepted /\ row' = [row EXCEPT ![At(t, k)] = Completed(@)]
          \/ ((~IsProcessing(At(t, k)) /\ Accepted) \/ Refused) /\ UNCHANGED row
       /\ Go(t, [task[t] EXCEPT !.todo = @ \ {k}, !.tracked = @ \ {k}])
       /\ Sync(t, task[t].tracked \ {k})
    /\ UNCHANGED <<image, slots, Others>>

\* saveVariantResults: UpdateCompleted of the next result; when it matches no
\* processing row, or fails, the variant is marked failed instead.
Save(t) ==
    /\ task[t].pc = "save" /\ task[t].mark = {} /\ task[t].todo # {}
    /\ LET k == First(task[t].todo) IN
       \/ /\ IsProcessing(At(t, k)) /\ Accepted
          /\ row' = [row EXCEPT ![At(t, k)] = Completed(@)]
          /\ Go(t, [task[t] EXCEPT !.todo = @ \ {k}, !.tracked = @ \ {k}])
          /\ Sync(t, task[t].tracked \ {k})
       \/ /\ (~IsProcessing(At(t, k)) /\ Accepted) \/ Refused
          /\ Go(t, [task[t] EXCEPT !.todo = @ \ {k}, !.mark = {k},
                                   !.bad = @ \/ Required(t, k)])
          /\ UNCHANGED <<row, lease>>
    /\ UNCHANGED <<image, slots, Others>>

\* resolveImageVariantStatus
Resolve(res) ==
    IF {"webp", "avif"} \cap res # {} THEN "completed"
    ELSE IF "thumb" \in res THEN "thumbnailCompleted" ELSE "none"

\* Mutant: Release is deferred before Acquire has succeeded.
UnwindReleaseMutant(t, new) ==
    /\ Go(t, [new EXCEPT !.pc = "finalize", !.todo = new.tracked])
    /\ lease' = [lease EXCEPT ![t] = NoLease]
    /\ slots' = IF slots > 0 THEN slots - 1 ELSE slots

\* semaphore.Release, which never blocks.
Released == IF slots > 0 THEN slots - 1 ELSE slots

\* The deferred calls that run before finalize: Release of the semaphore, when
\* it was acquired, and Release of the lease.
Unwind(t, new) ==
    /\ Go(t, [new EXCEPT !.pc = "finalize", !.todo = new.tracked])
    /\ lease' = [lease EXCEPT ![t] = NoLease]
    /\ slots' = IF task[t].pc \in Slotted THEN Released ELSE slots

\* The image's status: Failed after any failure, else what the results say.
SetStatus(t) ==
    /\ task[t].pc \in {"save", "giveup"} /\ task[t].mark = {} /\ task[t].todo = {}
    /\ \/ /\ Accepted
          /\ SetImage(task[t].img, IF task[t].bad THEN "failed" ELSE Resolve(task[t].res))
       \/ /\ Refused
          /\ UNCHANGED image
    /\ Unwind(t, task[t])
    /\ UNCHANGED <<row, Others>>

\* A panic while a variant is generated.
Panic(t) ==
    /\ "err" \in Outcomes
    /\ task[t].pc \in {"thumb", "load", "full"} /\ task[t].mark = {}
    /\ Unwind(t, [task[t] EXCEPT !.panic = TRUE])
    /\ UNCHANGED <<row, image, faults, Others>>

\* Mutant: after a panic only the image is failed.
FinalizeNoPanicMutant(t) ==
    /\ task[t].pc = "finalize" /\ task[t].todo # {}
    /\ LET k == First(task[t].todo)
       IN /\ row' = IF IsProcessing(At(t, k)) /\ ~task[t].panic
                    THEN [row EXCEPT ![At(t, k)] = RolledBack(@, "pending")] ELSE row
          /\ Go(t, [task[t] EXCEPT !.todo = @ \ {k}, !.tracked = @ \ {k}])
    /\ Accepted
    /\ UNCHANGED <<image, lease, slots, Others>>

\* Mutant: the rollback is unconditional.
FinalizeBlindMutant(t) ==
    /\ task[t].pc = "finalize" /\ task[t].todo # {}
    /\ LET k == First(task[t].todo)
       IN /\ row' = [row EXCEPT ![At(t, k)] =
                        RolledBack(@, IF task[t].panic THEN "failed" ELSE "pending")]
          /\ Go(t, [task[t] EXCEPT !.todo = @ \ {k}, !.tracked = @ \ {k}])
    /\ Accepted
    /\ UNCHANGED <<image, lease, slots, Others>>

\* finalize: whatever is still tracked and still processing goes back to
\* pending, or to failed after a panic.
Finalize(t) ==
    /\ task[t].pc = "finalize" /\ task[t].todo # {}
    /\ LET k == First(task[t].todo)
           to == IF task[t].panic THEN "failed" ELSE "pending"
       IN /\ \/ /\ IsProcessing(At(t, k)) /\ Accepted
                /\ row' = [row EXCEPT ![At(t, k)] = RolledBack(@, to)]
             \/ /\ (~IsProcessing(At(t, k)) /\ Accepted) \/ Refused
                /\ UNCHANGED row
          /\ Go(t, [task[t] EXCEPT !.todo = @ \ {k}, !.tracked = @ \ {k}])
    /\ UNCHANGED <<image, lease, slots, Others>>

\* Execute returns; after a panic finalize also fails the image.
Finish(t) ==
    /\ task[t].pc = "finalize" /\ task[t].todo = {}
    /\ \/ /\ task[t].panic /\ Accepted
          /\ SetImage(task[t].img, "failed")
       \/ /\ task[t].panic => Refused
          /\ ~task[t].panic => Accepted
          /\ UNCHANGED image
    /\ Go(t, FreeTask)
    /\ UNCHANGED <<row, lease, slots, Others>>

TaskStep(t) ==
    \/ Start(t) \/ Acquire(t) \/ AcquireFails(t) \/ Register(t)
    \/ TakeSlot(t) \/ SlotTimeout(t) \/ MarkFailed(t) \/ GetFile(t)
    \/ Thumbnail(t) \/ LoadImage(t) \/ FullVariant(t) \/ Save(t)
    \/ SetStatus(t) \/ Panic(t) \/ Finalize(t) \/ Finish(t)

---------------------------------------------------------------------------
\* triggerConversion

CallOnly == <<task, lease, slots, sweep, shutdown, restarts>>

Say(c, new) == call' = [call EXCEPT ![c] = new]

Calling(i) == [pc |-> "prepare", img |-> i, todo |-> Kinds, ready |-> {}]

\* A view, or an upload of a file that exists.
Trigger(c, i) ==
    /\ call[c].pc = "idle"
    /\ Say(c, Calling(i))
    /\ UNCHANGED <<row, image, faults, CallOnly>>

\* UpsertPending hides deleted rows from its SELECT, and its INSERT meets them
\* in the unique index: a deleted row can be neither read nor replaced.
Upserted(r) == IF r.st = "absent" THEN InState(r, "pending") ELSE r

\* variantReadyForSubmit: only the sweeper ignores next_retry_at.
Ready(c, r) == r.st = "pending" /\ (c = Sweeper \/ ~r.hold)

\* UpsertPending and variantReadyForSubmit of the next enabled kind; when none
\* is ready in the end the call returns.
Prepare(c) ==
    /\ call[c].pc = "prepare" /\ call[c].todo # {}
    /\ LET k == First(call[c].todo)
           v == <<call[c].img, k>>
           r == Upserted(row[v])
           ready == call[c].ready \cup (IF Ready(c, r) THEN {k} ELSE {})
           rest == call[c].todo \ {k}
       IN /\ ~row[v].gone
          /\ row' = [row EXCEPT ![v] = r]
          /\ Say(c, IF rest = {} /\ ready = {} THEN IdleCall
                    ELSE [call[c] EXCEPT !.todo = rest, !.ready = ready])
    /\ Accepted
    /\ UNCHANGED <<image, CallOnly>>

\* What is left to do: fail the rows that were ready, then the image.
Aborting(c) == [IdleCall EXCEPT !.pc = "abort", !.img = call[c].img, !.todo = call[c].ready]

\* An error from UpsertPending, before or after its INSERT: what was prepared
\* so far is abandoned.
PrepareFails(c) ==
    /\ call[c].pc = "prepare" /\ call[c].todo # {}
    /\ LET v == <<call[c].img, First(call[c].todo)>> IN
       \/ row[v].gone /\ Accepted /\ UNCHANGED row
       \/ Refused /\ row' \in {row, [row EXCEPT ![v] = Upserted(@)]}
    /\ Say(c, IF call[c].ready = {} THEN IdleCall
              ELSE Aborting(c))
    /\ UNCHANGED <<image, CallOnly>>

\* Pool.Submit puts the task in the channel.
Submit(c, t) ==
    /\ call[c].pc = "prepare" /\ call[c].todo = {}
    /\ shutdown.phase = "up"
    /\ Cardinality({u \in Tasks : task[u].pc = "queued"}) < QueueCap
    /\ task[t].pc = "free"
    /\ task' = [task EXCEPT ![t] = [FreeTask EXCEPT !.pc = "queued",
                  !.img = call[c].img, !.vs = call[c].ready]]
    /\ Say(c, [IdleCall EXCEPT !.pc = "mark", !.img = call[c].img])
    /\ UNCHANGED <<row, image, faults, lease, slots, sweep, shutdown, restarts>>

\* Pool.Submit returns false: the pool is closed, the channel is full of this
\* or other work, or memory stayed over the limit for 30 s.
Reject(c) ==
    /\ call[c].pc = "prepare" /\ call[c].todo = {}
    /\ Say(c, Aborting(c))
    /\ UNCHANGED <<row, image, faults, CallOnly>>

\* markImageProcessing, after the submission: unconditional, unless the caller's
\* copy of the image, which may be old, says Processing already; lost when the
\* call's 5 s context has expired.
MarkProcessing(c) ==
    /\ call[c].pc = "mark"
    /\ SetImage(call[c].img, "processing") \/ UNCHANGED image
    /\ Say(c, IdleCall)
    /\ UNCHANGED <<row, faults, CallOnly>>

\* failPendingVariantsOnSubmitFailure: ForceUpdateFailed on each prepared row,
\* whatever its status has become; lost when the context has expired.
ForceFailed(r) == IF r.gone THEN r ELSE Failed(r)

AbortRow(c) ==
    /\ call[c].pc = "abort" /\ call[c].todo # {}
    /\ LET k == First(call[c].todo)
           v == <<call[c].img, k>>
       IN /\ \/ row' = [row EXCEPT ![v] = ForceFailed(@)]
             \/ UNCHANGED row
          /\ Say(c, [call[c] EXCEPT !.todo = @ \ {k}])
    /\ UNCHANGED <<image, faults, CallOnly>>

AbortImage(c) ==
    /\ call[c].pc = "abort" /\ call[c].todo = {}
    /\ SetImage(call[c].img, "failed") \/ UNCHANGED image
    /\ Say(c, IdleCall)
    /\ UNCHANGED <<row, faults, CallOnly>>

CallStep(c) ==
    \/ Prepare(c) \/ PrepareFails(c)
    \/ \E t \in Tasks : Submit(c, t)
    \/ Reject(c) \/ MarkProcessing(c) \/ AbortRow(c) \/ AbortImage(c)

---------------------------------------------------------------------------
\* sweepOnce

SweepOnly == <<task, lease, slots, shutdown, restarts>>

IsStale(v) == IsProcessing(v) /\ row[v].age >= StaleThreshold
IsStaleImage(i) == image[i].status = "processing" /\ image[i].age >= StaleThreshold

StaleRows == {<<v, row[v].retry>> : v \in {w \in Variants : IsStale(w)}}
StaleImages == {i \in Images : IsStaleImage(i)}

\* Where the sweep goes once the rows in todo are left to recover.
Sweeping(todo, retried, old) ==
    IF todo # {}
    THEN [pc |-> "rows", todo |-> todo, retried |-> retried, queue |-> {}, old |-> old]
    ELSE [pc |-> "trigger", todo |-> {}, retried |-> retried, queue |-> retried, old |-> old]

\* Mutant: only the rows of images that say Processing are looked at.
BeginSweepByImageMutant ==
    /\ sweep.pc = "idle" /\ shutdown.phase = "up"
    /\ StaleImages # {}
    /\ sweep' = Sweeping(StaleRows, {}, StaleImages)
    /\ UNCHANGED <<row, image, call, faults, SweepOnly>>

\* RecoverStaleProcessing reads the stale rows; the cutoff for the images is
\* taken at the same time.  A sweep that finds nothing stale changes nothing.
BeginSweep ==
    /\ sweep.pc = "idle" /\ shutdown.phase = "up"
    /\ StaleRows # {} \/ StaleImages # {}
    /\ sweep' = Sweeping(StaleRows, {}, StaleImages)
    /\ UNCHANGED <<row, image, call, faults, SweepOnly>>

\* RecoverStaleProcessing, one row: conditional on processing alone.  The retry
\* count is the one read; the image counts as retried even if no row matched.
RecoverRow(v, retry) ==
    /\ sweep.pc = "rows" /\ <<v, retry>> \in sweep.todo
    /\ Accepted
    /\ row' = IF IsProcessing(v) THEN [row EXCEPT ![v] = Recovered(@, retry)] ELSE row
    /\ sweep' = Sweeping(sweep.todo \ {<<v, retry>>},
                         sweep.retried \cup (IF retry + 1 >= MaxRetries THEN {} ELSE {v[1]}),
                         sweep.old)
    /\ UNCHANGED <<image, call, SweepOnly>>

\* The image is read afresh and its conversion triggered on this goroutine; an
\* image that cannot be read is passed over.
SweepTrigger(i) ==
    /\ sweep.pc = "trigger" /\ i \in sweep.queue /\ call[Sweeper].pc = "idle"
    /\ \/ Accepted /\ Say(Sweeper, Calling(i))
       \/ Refused /\ UNCHANGED call
    /\ sweep' = [sweep EXCEPT !.queue = @ \ {i}]
    /\ UNCHANGED <<row, image, SweepOnly>>

\* The sub-selects of the image updates name the table, not the model: they see
\* deleted rows too.
HasRow(i, s) == \E k \in Kinds : row[<<i, k>>].st = s

MarkStaleProcessingAsFailed ==
    /\ sweep.pc = "trigger" /\ sweep.queue = {} /\ call[Sweeper].pc = "idle"
    /\ Accepted
    /\ image' = [i \in Images |->
                   IF /\ i \in sweep.old \ sweep.retried /\ IsStaleImage(i)
                      /\ ~HasRow(i, "processing") /\ HasRow(i, "failed")
                   THEN Marked("failed") ELSE image[i]]
    /\ sweep' = [sweep EXCEPT !.pc = "reset"]
    /\ UNCHANGED <<row, call, SweepOnly>>

\* Mutant: an image with a completed variant is not reset.
ResetUnlessCompletedMutant ==
    /\ sweep.pc = "reset"
    /\ Accepted
    /\ image' = [i \in Images |->
                   IF /\ i \in sweep.old \ sweep.retried /\ IsStaleImage(i)
                      /\ ~HasRow(i, "processing") /\ ~HasRow(i, "completed")
                   THEN Marked("none") ELSE image[i]]
    /\ sweep' = IdleSweep
    /\ UNCHANGED <<row, call, SweepOnly>>

ResetStaleProcessingToNone ==
    /\ sweep.pc = "reset"
    /\ Accepted
    /\ image' = [i \in Images |->
                   IF /\ i \in sweep.old \ sweep.retried /\ IsStaleImage(i)
                      /\ ~HasRow(i, "processing")
                   THEN Marked("none") ELSE image[i]]
    /\ sweep' = IdleSweep
    /\ UNCHANGED <<row, call, SweepOnly>>

\* A statement of the sweep fails, or its context was cancelled at shutdown.
SweepError ==
    /\ \/ sweep.pc = "rows"
       \/ sweep.pc = "trigger" /\ sweep.queue = {} /\ call[Sweeper].pc = "idle"
       \/ sweep.pc = "reset"
    /\ (shutdown.phase # "up" /\ Accepted) \/ Refused
    /\ sweep' = IF sweep.pc = "trigger" THEN [sweep EXCEPT !.pc = "reset"] ELSE IdleSweep
    /\ UNCHANGED <<row, image, call, SweepOnly>>

SweepStep ==
    \/ BeginSweep
    \/ \E s \in sweep.todo : RecoverRow(s[1], s[2])
    \/ \E i \in Images : SweepTrigger(i)
    \/ MarkStaleProcessingAsFailed \/ ResetStaleProcessingToNone \/ SweepError

---------------------------------------------------------------------------
\* Shutdown, crash, time

Still == <<row, image, task, lease, slots, call, sweep>>

\* serve stops the sweeper and closes the pool: ShutdownContext.
ClosePool ==
    /\ shutdown.phase = "up" /\ restarts < MaxRestarts
    /\ shutdown' = [Up EXCEPT !.phase = "closed"]
    /\ UNCHANGED <<Still, restarts, faults>>

Registered == {t \in Tasks : lease[t].held}

\* The deadline passes before the pool has drained: CurrentInFlightTasks.
DrainDeadline ==
    /\ shutdown.phase = "closed"
    /\ \E t \in Tasks : task[t].pc # "free"
    /\ shutdown' =
         [phase |-> "rows",
          rows |-> UNION {{At(t, k) : k \in lease[t].kinds} : t \in Registered},
          images |-> {task[t].img : t \in Registered}]
    /\ UNCHANGED <<Still, restarts, faults>>

\* ResetVariantsToPending; an error skips the image reset.
ResetVariantsToPending ==
    /\ shutdown.phase = "rows"
    /\ \/ /\ Accepted
          /\ row' = [v \in Variants |-> IF v \in shutdown.rows /\ IsProcessing(v)
                                        THEN ResetPending(row[v]) ELSE row[v]]
          /\ shutdown' = [shutdown EXCEPT !.phase = "images", !.rows = {}]
       \/ /\ Refused
          /\ shutdown' = [Up EXCEPT !.phase = "exiting"]
          /\ UNCHANGED row
    /\ UNCHANGED <<image, task, lease, slots, call, sweep, restarts>>

ResetProcessingVariantStatus ==
    /\ shutdown.phase = "images"
    /\ \/ /\ Accepted
          /\ image' = [i \in Images |->
                         IF i \in shutdown.images /\ image[i].status = "processing"
                         THEN Marked("none") ELSE image[i]]
       \/ Refused /\ UNCHANGED image
    /\ shutdown' = [Up EXCEPT !.phase = "exiting"]
    /\ UNCHANGED <<row, task, lease, slots, call, sweep, restarts>>

\* The process ends, by a crash or at the end of serve, and starts again: only
\* the tables survive.
Restart ==
    /\ restarts < MaxRestarts
    /\ restarts' = restarts + 1
    /\ task' = [t \in Tasks |-> FreeTask]
    /\ lease' = [t \in Tasks |-> NoLease]
    /\ slots' = 0
    /\ call' = [c \in Triggers |-> IdleCall]
    /\ sweep' = IdleSweep
    /\ shutdown' = Up
    /\ UNCHANGED <<row, image, faults>>

\* next_retry_at passes.
RetryWindowEnds(v) ==
    /\ row[v].hold
    /\ row' = [row EXCEPT ![v].hold = FALSE]
    /\ UNCHANGED <<image, task, lease, slots, call, sweep, shutdown, restarts, faults>>

\* The heartbeat goroutine of a task ends with the task's context.
Beating == {t \in Tasks : task[t].pc \in Slotted /\ task[t].ctx < CtxTimeout}

Older(n, limit) == IF n < limit THEN n + 1 ELSE n

\* updated_at after a unit of time.
Aged(v, beat) ==
    [row[v] EXCEPT !.age = IF Touches(beat, v) THEN 0 ELSE Older(@, StaleThreshold)]
AgedImage(i, beat) ==
    [image[i] EXCEPT !.age = IF TouchesImage(beat, i) THEN 0 ELSE Older(@, StaleThreshold)]

\* A unit of time: contexts and rows age; a heartbeat, more frequent than the
\* unit, keeps what it touches young, unless the database refuses it.  An image
\* touched since the sweep took its cutoff is no longer older than that cutoff.
Tick ==
    /\ \E beat \in SUBSET Beating :
          /\ (beat = Beating /\ Accepted) \/ (beat # Beating /\ Refused)
          /\ row' = [v \in Variants |-> Aged(v, beat)]
          /\ image' = [i \in Images |-> AgedImage(i, beat)]
    /\ task' = [t \in Tasks |->
                  IF task[t].pc \in Running
                  THEN [task[t] EXCEPT !.ctx = Older(@, CtxTimeout)] ELSE task[t]]
    /\ sweep' = [sweep EXCEPT !.old = @ \cap StaleImages]
    /\ UNCHANGED <<lease, slots, call, shutdown, restarts>>

ShutdownStep ==
    \/ ClosePool \/ DrainDeadline \/ ResetVariantsToPending
    \/ ResetProcessingVariantStatus \/ Restart

Next ==
    \/ \E t \in Tasks : TaskStep(t)
    \/ \E c \in Callers, i \in Images : Trigger(c, i)
    \/ \E c \in Triggers : CallStep(c)
    \/ SweepStep
    \/ ShutdownStep
    \/ \E v \in Variants : RetryWindowEnds(v)
    \/ Tick

Spec == Init /\ [][Next]_vars

\* The ticker fires, a goroutine that can run does, and a process that is
\* shutting down ends.  Nobody is obliged to view an image or to crash.
Fairness ==
    /\ WF_vars(Tick)
    /\ WF_vars(SweepStep)
    /\ \A c \in Triggers : WF_vars(CallStep(c))
    /\ \A t \in Tasks : WF_vars(TaskStep(t))
    /\ WF_vars(shutdown.phase # "up" /\ ShutdownStep)

FairSpec == Spec /\ Fairness

---------------------------------------------------------------------------
\* Safety

Owns(t, v) == task[t].pc \in Running /\ v[1] = task[t].img /\ v[2] \in task[t].tracked
InTime(t) == task[t].ctx < CtxTimeout

\* What the sweeper lists as stale is never in the hands of a task whose
\* context is alive, however the claim, the heartbeat and the clock interleave
\* (RecoverStaleProcessing against Execute).
StaleMeansAbandoned ==
    \A v \in Variants, t \in Tasks : IsStale(v) /\ InTime(t) => ~Owns(t, v)

\* No row is left processing with no task that will finish it or give it back,
\* whichever way Execute returns and whoever else wrote the row meanwhile,
\* unless the process died or the database refused a statement (finalize).
ProcessingIsOwned ==
    \A v \in Variants :
        IsProcessing(v) => \/ \E t \in Tasks : Owns(t, v)
                           \/ restarts > 0 \/ faults > 0

\* The registry the shutdown reset reads lists exactly the variants a registered
\* task still has to answer for, after every release (syncInFlightTracking).
RegistryMirrorsTasks ==
    \A t \in Tasks :
        /\ lease[t].held <=> task[t].pc \in Slotted \cup {"slot", "giveup"}
        /\ lease[t].held => lease[t].kinds = task[t].tracked

\* Every exit from Execute, panics included, returns the permit it took and no
\* other, so never more than MaxConcurrentImages images are decoded at once.
SlotsMatchHolders ==
    /\ slots = Cardinality({t \in Tasks : task[t].pc \in Slotted})
    /\ slots <= MaxConcurrentImages

\* A status that tells readers to look for variants (SelectBestVariant) is backed
\* by a row of that kind: made, or made and then failed or deleted by somebody
\* else, never one still to come.
SuccessIsBacked ==
    \A i \in Images :
        LET over(k) == row[<<i, k>>].gone \/ row[<<i, k>>].st \in {"completed", "failed"}
        IN /\ image[i].status = "completed" => \E k \in Kinds \ {"thumb"} : over(k)
           /\ image[i].status = "thumbnailCompleted" => over("thumb")

\* What VariantLifecycle sees of a row.
Life == [v \in Variants |-> IF row[v].gone THEN "deleted" ELSE row[v].st]
Tries == [v \in Variants |-> row[v].retry]
Lifecycle == INSTANCE VariantLifecycle WITH life <- Life, tries <- Tries

\* Whatever tasks, callers, sweeps and resets do to a row, each of its steps is
\* one that VariantLifecycle allows: it is inserted once, claimed only while
\* pending, completed only while processing, charged a retry only by a sweep.
LifecycleSpec == Lifecycle!Spec

---------------------------------------------------------------------------
\* The invariant behind StaleMeansAbandoned and ProcessingIsOwned

\* A task tracks variants only while it runs, makes a thumbnail only if it was
\* asked for one, is done with markVariantFailed before the deferred calls run,
\* and in finalize visits every variant it still tracks.
TasksAreCoherent ==
    \A t \in Tasks :
        /\ task[t].pc \notin Running => task[t].tracked = {}
        /\ task[t].pc = "thumb" => "thumb" \in task[t].vs
        /\ task[t].mark # {} => task[t].pc \in {"giveup", "load", "full", "save"}
        /\ task[t].pc = "finalize" => task[t].todo = task[t].tracked

\* A row that can still be processed has a retry left.
RetriesLeft ==
    \A v \in Variants :
        row[v].st \in {"absent", "pending", "processing"} => row[v].retry < MaxRetries

\* While a task is in time, the rows it claimed are no older than its context.
ClaimsAreYoung ==
    \A t \in Tasks, v \in Variants :
        Owns(t, v) /\ IsProcessing(v) /\ InTime(t) => row[v].age <= task[t].ctx

\* Together they are inductive: the rows, the tasks that hold them and the clock
\* stay consistent through every step of every actor.
IndInv ==
    /\ TypeOK
    /\ TasksAreCoherent
    /\ RetriesLeft
    /\ ClaimsAreYoung
    /\ ProcessingIsOwned

---------------------------------------------------------------------------
\* Liveness

\* Every processing row is freed in the end: by its task, or by the sweeper when
\* the process died or the statement that would have freed it was refused.
ProcessingIsTransient ==
    \A v \in Variants : IsProcessing(v) ~> ~IsProcessing(v)

\* An image does not stay Processing for ever (sweepOnce: "Remaining stale images
\* without failed variants can return to none").
ImageProcessingIsTransient ==
    \A i \in Images : image[i].status = "processing" ~> image[i].status # "processing"

---------------------------------------------------------------------------
\* What comments of the code say of it, and the code does not do

\* TouchProcessing keeps rows fresh "so the sweeper does not mistake long-running
\* tasks for stale work": no stale row is in the hands of a task that has its
\* permit and started its heartbeat.
SweeperSparesRunningWork ==
    \A v \in Variants, t \in Tasks :
        IsStale(v) => ~(task[t].pc \in Slotted /\ Owns(t, v))

\* ForceUpdateFailed is "for a failure before submission, when the variant is not
\* yet processing": it takes no row from a task, nor a finished one.
ForceFailOnlyBeforeProcessing ==
    [][\A c \in Triggers : AbortRow(c) =>
          \A v \in Variants : row'[v] # row[v] => IsPending(v)]_vars

\* ImageVariantStatusProcessing means "a variant is being processed": an image
\* whose variants are all completed, and that nobody works on, does not have it.
ProcessingImageHasWork ==
    \A i \in Images :
        /\ \A k \in Kinds : row[<<i, k>>].st = "completed"
        /\ \A t \in Tasks : task[t].pc = "free" \/ task[t].img # i
        /\ \A c \in Triggers : call[c].pc = "idle" \/ call[c].img # i
        => image[i].status # "processing"
=============================================================================
