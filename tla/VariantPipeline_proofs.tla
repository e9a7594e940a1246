----------------------- MODULE VariantPipeline_proofs -----------------------
(***************************************************************************)
(* IndInv is an inductive invariant of VariantPipeline, for any number of  *)
(* images, tasks and callers and any bounds; type correctness, and the two *)
(* safety properties it contains or implies, follow.                       *)
(***************************************************************************)
EXTENDS VariantPipeline, TLAPS

---------------------------------------------------------------------------
\* Operators

\* The next kind visited is one of those left to visit (the order of Execute).
LEMMA FirstIn ==
    ASSUME NEW S \in SUBSET Kinds, S # {}
    PROVE  First(S) \in S
  <1>1. PICK k \in S : TRUE
    OBVIOUS
  <1>2. k \in {"thumb", "webp", "avif"}
    BY PipelineAssumption
  <1> QED BY <1>1, <1>2 DEF First

\* A row stays well formed when a status is set: InState.
LEMMA InStateType ==
    ASSUME NEW r \in Row, NEW s \in RowStatus
    PROVE  InState(r, s) \in Row
  <1>1. 0 \in 0 .. StaleThreshold /\ StaleThreshold \in 0 .. StaleThreshold
    BY PipelineAssumption
  <1>2. \A a \in 0 .. StaleThreshold : [r EXCEPT !.st = s, !.age = a] \in Row
    BY DEF Row
  <1> QED BY <1>1, <1>2 DEF InState

\* Each statement of the repositories leaves a well-formed row.
LEMMA RowTypes ==
    ASSUME NEW r \in Row
    PROVE  /\ Claimed(r) \in Row
           /\ Completed(r) \in Row
           /\ Failed(r) \in Row
           /\ RolledBack(r, "pending") \in Row /\ RolledBack(r, "failed") \in Row
           /\ Deleted(r) \in Row
           /\ ResetPending(r) \in Row
           /\ Upserted(r) \in Row
           /\ ForceFailed(r) \in Row
           /\ \A n \in 0 .. MaxRetries - 1 : Recovered(r, n) \in Row
  <1>1. \A s \in RowStatus : InState(r, s) \in Row
    BY InStateType
  <1>2. \A q \in Row : [q EXCEPT !.hold = FALSE] \in Row
    BY DEF Row
  <1>3. \A q \in Row, n \in 0 .. MaxRetries, b \in BOOLEAN :
            /\ [q EXCEPT !.retry = n, !.hold = b] \in Row
            /\ [q EXCEPT !.retry = n] \in Row
    BY DEF Row
  <1>4. 0 \in 0 .. MaxRetries /\ StaleThreshold \in 0 .. StaleThreshold
    BY PipelineAssumption
  <1>5. Claimed(r) \in Row /\ Failed(r) \in Row /\ ResetPending(r) \in Row
    BY <1>1, <1>2 DEF Claimed, Failed, ResetPending, RowStatus
  <1>6. Completed(r) \in Row
    BY <1>1, <1>3, <1>4 DEF Completed, RowStatus
  <1>7. RolledBack(r, "pending") \in Row /\ RolledBack(r, "failed") \in Row
    BY <1>1 DEF RolledBack, RowStatus
  <1>8. Deleted(r) \in Row
    BY <1>4 DEF Deleted, Row
  <1>9. Upserted(r) \in Row /\ ForceFailed(r) \in Row
    BY <1>1, <1>5 DEF Upserted, ForceFailed, RowStatus
  <1>10. ASSUME NEW n \in 0 .. MaxRetries - 1 PROVE Recovered(r, n) \in Row
    <2>1. n + 1 \in 0 .. MaxRetries
      BY PipelineAssumption
    <2> QED BY <1>1, <1>3, <1>5, <2>1 DEF Recovered, RowStatus
  <1> QED BY <1>5, <1>6, <1>7, <1>8, <1>9, <1>10

\* Every status an action gives an image makes a well-formed record.
LEMMA MarkedType ==
    ASSUME NEW s \in ImageStatus
    PROVE  Marked(s) \in Image
  BY PipelineAssumption DEF Marked, Image

\* The values from which tasks, leases and calls start are well formed.
LEMMA StartTypes ==
    /\ AbsentRow \in Row
    /\ FreeTask \in Task
    /\ NoLease \in Lease
    /\ IdleCall \in Call
    /\ IdleSweep \in Sweep
    /\ Up \in Shutdown
  <1>1. SomeImage \in Images
    BY PipelineAssumption DEF SomeImage
  <1>2. AbsentRow \in Row
    BY PipelineAssumption DEF AbsentRow, Row, RowStatus
  <1>3. FreeTask \in Task
    BY <1>1, PipelineAssumption DEF FreeTask, Task
  <1>4. NoLease \in Lease /\ IdleCall \in Call
    BY <1>1 DEF NoLease, Lease, IdleCall, Call
  <1>5. IdleSweep \in Sweep /\ Up \in Shutdown
    BY DEF IdleSweep, Sweep, Up, Shutdown
  <1> QED BY <1>2, <1>3, <1>4, <1>5

---------------------------------------------------------------------------
\* The initial state

LEMMA InitInv == Init => IndInv
  <1> SUFFICES ASSUME Init PROVE IndInv
    OBVIOUS
  <1>1. TypeOK
    BY StartTypes, MarkedType, PipelineAssumption DEF Init, TypeOK, ImageStatus
  <1>2. TasksAreCoherent
    BY DEF Init, TasksAreCoherent, FreeTask, Running, Slotted
  <1>3. RetriesLeft
    BY PipelineAssumption DEF Init, RetriesLeft, AbsentRow
  <1>4. ClaimsAreYoung /\ ProcessingIsOwned
    BY DEF Init, ClaimsAreYoung, ProcessingIsOwned, IsProcessing, AbsentRow
  <1> QED BY <1>1, <1>2, <1>3, <1>4 DEF IndInv

---------------------------------------------------------------------------
\* Type correctness of a task's steps

\* What every step of Execute uses: the record it starts from, the rows it may
\* write, and the types of what it writes.
LEMMA TaskContext ==
    ASSUME TypeOK, NEW t \in Tasks
    PROVE  /\ task[t] \in Task
           /\ task[t].img \in Images
           /\ task[t].vs \in SUBSET Kinds /\ task[t].todo \in SUBSET Kinds
           /\ task[t].mark \in SUBSET Kinds /\ task[t].tracked \in SUBSET Kinds
           /\ task[t].res \in SUBSET Kinds
           /\ task[t].bad \in BOOLEAN /\ task[t].big \in BOOLEAN
           /\ \A k \in Kinds : At(t, k) \in Variants /\ row[At(t, k)] \in Row
           /\ \A new \in Task : Go(t, new) => task' \in [Tasks -> Task]
           /\ \A v \in Variants, r \in Row :
                 row' = [row EXCEPT ![v] = r] => row' \in [Variants -> Row]
           /\ \A S \in SUBSET Kinds : Sync(t, S) => lease' \in [Tasks -> Lease]
           /\ \A s \in ImageStatus :
                 SetImage(task[t].img, s) => image' \in [Images -> Image]
           /\ Accepted \/ Refused => faults' \in 0 .. MaxFaults
  <1>1. task[t] \in Task
    BY DEF TypeOK
  <1>2. /\ task[t].img \in Images
        /\ task[t].vs \in SUBSET Kinds /\ task[t].todo \in SUBSET Kinds
        /\ task[t].mark \in SUBSET Kinds /\ task[t].tracked \in SUBSET Kinds
        /\ task[t].res \in SUBSET Kinds
        /\ task[t].bad \in BOOLEAN /\ task[t].big \in BOOLEAN
    BY <1>1 DEF Task
  <1>3. \A k \in Kinds : At(t, k) \in Variants /\ row[At(t, k)] \in Row
    BY <1>2 DEF At, Variants, TypeOK
  <1>4. \A new \in Task : Go(t, new) => task' \in [Tasks -> Task]
    BY DEF Go, TypeOK
  <1>5. \A v \in Variants, r \in Row :
            row' = [row EXCEPT ![v] = r] => row' \in [Variants -> Row]
    BY DEF TypeOK
  <1>6. ASSUME NEW S \in SUBSET Kinds, Sync(t, S) PROVE lease' \in [Tasks -> Lease]
    <2>1. lease[t] \in Lease
      BY DEF TypeOK
    <2>2. IF lease[t].held THEN S \in SUBSET Kinds ELSE lease[t].kinds \in SUBSET Kinds
      BY <2>1 DEF Lease
    <2>3. \A T \in SUBSET Kinds : [lease[t] EXCEPT !.kinds = T] \in Lease
      BY <2>1 DEF Lease
    <2> QED BY <1>6, <2>2, <2>3 DEF Sync, TypeOK
  <1>7. \A s \in ImageStatus : SetImage(task[t].img, s) => image' \in [Images -> Image]
    BY <1>2, MarkedType DEF SetImage, TypeOK
  <1>8. Accepted \/ Refused => faults' \in 0 .. MaxFaults
    BY PipelineAssumption DEF Accepted, Refused, TypeOK
  <1> QED BY <1>1, <1>2, <1>3, <1>4, <1>5, <1>6, <1>7, <1>8

\* Until it holds its permit: claims, registration, the semaphore.
LEMMA ClaimTypes ==
    ASSUME TypeOK, NEW t \in Tasks,
           Start(t) \/ Acquire(t) \/ AcquireFails(t) \/ Register(t)
              \/ TakeSlot(t) \/ SlotTimeout(t)
    PROVE  TypeOK'
  <1> USE TaskContext
  <1>1. CASE Start(t)
    <2>1. 0 \in 0 .. CtxTimeout
      BY PipelineAssumption
    <2>2. [task[t] EXCEPT !.pc = "acquire", !.todo = task[t].vs, !.ctx = 0] \in Task
      BY <2>1 DEF Task, Running, Slotted
    <2> QED BY <1>1, <2>2 DEF Start, TypeOK, Others
  <1>2. CASE Acquire(t)
    <2> DEFINE k == First(task[t].todo)
    <2>1. k \in Kinds
      BY <1>2, FirstIn DEF Acquire
    <2>2. [task[t] EXCEPT !.todo = @ \ {k}, !.tracked = @ \cup {k}] \in Task
      BY <2>1 DEF Task
    <2>3. Claimed(row[At(t, k)]) \in Row
      BY <2>1, RowTypes
    <2> QED BY <1>2, <2>1, <2>2, <2>3 DEF Acquire, TypeOK, Others
  <1>3. CASE AcquireFails(t)
    <2>1. [task[t] EXCEPT !.pc = "finalize", !.todo = task[t].tracked] \in Task
      BY DEF Task, Running
    <2> QED BY <1>3, <2>1 DEF AcquireFails, TypeOK, Others
  <1>4. CASE Register(t)
    <2>1. [task[t] EXCEPT !.pc = "slot"] \in Task
      BY DEF Task, Running
    <2>2. [held |-> TRUE, kinds |-> task[t].tracked] \in Lease
      BY DEF Lease
    <2> QED BY <1>4, <2>1, <2>2 DEF Register, TypeOK, Others
  <1>5. CASE TakeSlot(t)
    <2>1. [task[t] EXCEPT !.pc = "file"] \in Task
      BY DEF Task, Running, Slotted
    <2>2. 0 \in 0 .. StaleThreshold
      BY PipelineAssumption
    <2>3. \A r \in Row : [r EXCEPT !.age = 0] \in Row
      BY <2>2 DEF Row
    <2>4. \A m \in Image : [m EXCEPT !.age = 0] \in Image
      BY <2>2 DEF Image
    <2>5. row' \in [Variants -> Row] /\ image' \in [Images -> Image]
      BY <1>5, <2>3, <2>4 DEF TakeSlot, TypeOK
    <2> QED BY <1>5, <2>1, <2>5 DEF TakeSlot, TypeOK, Others
  <1>6. CASE SlotTimeout(t)
    <2>1. [task[t] EXCEPT !.pc = "giveup", !.mark = task[t].vs, !.bad = TRUE] \in Task
      BY DEF Task, Running
    <2> QED BY <1>6, <2>1 DEF SlotTimeout, TypeOK, Others
  <1> QED BY <1>1, <1>2, <1>3, <1>4, <1>5, <1>6

\* While it holds its permit: runPipeline and the markVariantFailed calls.
LEMMA WorkTypes ==
    ASSUME TypeOK, TasksAreCoherent, NEW t \in Tasks,
           MarkFailed(t) \/ GetFile(t) \/ Thumbnail(t) \/ LoadImage(t)
              \/ FullVariant(t) \/ Save(t)
    PROVE  TypeOK'
  <1> USE TaskContext
  <1>s. ASSUME NEW k \in Kinds, NEW new \in Task, SkipVariant(t, k, new)
        PROVE  /\ row' \in [Variants -> Row] /\ task' \in [Tasks -> Task]
               /\ lease' \in [Tasks -> Lease] /\ faults' \in 0 .. MaxFaults
    <2>1. [new EXCEPT !.tracked = @ \ {k}] \in Task
      BY DEF Task
    <2>2. Deleted(row[At(t, k)]) \in Row
      BY RowTypes
    <2> QED BY <1>s, <2>1, <2>2 DEF SkipVariant, TypeOK
  <1>1. CASE MarkFailed(t)
    <2> DEFINE k == First(task[t].mark)
    <2>1. k \in Kinds
      BY <1>1, FirstIn DEF MarkFailed
    <2>2. /\ [task[t] EXCEPT !.mark = @ \ {k}, !.tracked = @ \ {k}] \in Task
          /\ [task[t] EXCEPT !.mark = @ \ {k}] \in Task
      BY <2>1 DEF Task
    <2>3. Failed(row[At(t, k)]) \in Row
      BY <2>1, RowTypes
    <2> QED BY <1>1, <2>1, <2>2, <2>3 DEF MarkFailed, TypeOK, Others
  <1>2. CASE GetFile(t)
    <2>1. /\ \A p \in {"thumb", "load"} : [task[t] EXCEPT !.pc = p] \in Task
          /\ [task[t] EXCEPT !.pc = "save", !.mark = task[t].vs, !.bad = TRUE] \in Task
      BY DEF Task, Running, Slotted
    <2> QED BY <1>2, <2>1 DEF GetFile, TypeOK, Others
  <1>3. CASE Thumbnail(t)
    <2> DEFINE next == IF task[t].vs = {"thumb"} THEN "save" ELSE "load"
               left == IF next = "save" THEN {"thumb"} ELSE {}
    <2>1. "thumb" \in Kinds
      BY <1>3 DEF Thumbnail, TasksAreCoherent
    <2>2. left \in SUBSET Kinds /\ next \in {"save", "load"}
      BY <2>1
    <2>3. /\ [task[t] EXCEPT !.res = {"thumb"}, !.pc = next, !.todo = left] \in Task
          /\ [task[t] EXCEPT !.mark = {"thumb"}, !.bad = TRUE, !.pc = next] \in Task
          /\ [task[t] EXCEPT !.pc = next] \in Task
      BY <2>1, <2>2 DEF Task, Running, Slotted
    <2>4. CASE SkipVariant(t, "thumb", [task[t] EXCEPT !.pc = next])
      BY <1>3, <1>s, <2>1, <2>3, <2>4 DEF Thumbnail, TypeOK, Others
    <2> QED BY <1>3, <2>3, <2>4 DEF Thumbnail, TypeOK, Others
  <1>4. CASE LoadImage(t)
    <2> DEFINE full == task[t].vs \ {"thumb"}
    <2>1. /\ [task[t] EXCEPT !.pc = "full", !.todo = full] \in Task
          /\ [task[t] EXCEPT !.pc = "full", !.todo = full, !.mark = full, !.bad = TRUE] \in Task
      BY DEF Task, Running, Slotted
    <2> QED BY <1>4, <2>1 DEF LoadImage, TypeOK, Others
  <1>5. CASE FullVariant(t)
    <2> DEFINE k == First(task[t].todo)
               next == Visited(t, k, task[t].res)
    <2>1. k \in Kinds
      BY <1>5, FirstIn DEF FullVariant
    <2>2. ASSUME NEW R \in SUBSET Kinds PROVE Visited(t, k, R) \in Task
      <3> DEFINE rest == task[t].todo \ {k}
                 p == IF rest = {} THEN "save" ELSE "full"
                 left == IF rest = {} THEN R ELSE rest
      <3>1. p \in {"save", "full"} /\ left \in SUBSET Kinds
        BY <2>2
      <3>2. [task[t] EXCEPT !.res = R, !.pc = p, !.todo = left] \in Task
        BY <3>1 DEF Task, Running, Slotted
      <3> QED BY <3>2 DEF Visited
    <2>3. next \in Task /\ Visited(t, k, task[t].res \cup {k}) \in Task
      BY <2>1, <2>2
    <2>4. \A b \in BOOLEAN : /\ [next EXCEPT !.mark = {k}, !.bad = b] \in Task
                            /\ [next EXCEPT !.big = b] \in Task
      BY <2>1, <2>3 DEF Task
    <2>5. /\ (next.bad \/ Required(t, k)) \in BOOLEAN
          /\ (next.big \/ k = "webp") \in BOOLEAN
      BY <2>3 DEF Task
    <2>6. /\ [next EXCEPT !.mark = {k}, !.bad = @ \/ Required(t, k)] \in Task
          /\ [next EXCEPT !.big = @ \/ k = "webp"] \in Task
      BY <2>4, <2>5
    <2>7. CASE SkipVariant(t, k, [next EXCEPT !.big = @ \/ k = "webp"])
      BY <1>5, <1>s, <2>1, <2>6, <2>7 DEF FullVariant, TypeOK, Others
    <2> QED BY <1>5, <2>3, <2>6, <2>7 DEF FullVariant, TypeOK, Others
  <1>6. CASE Save(t)
    <2> DEFINE k == First(task[t].todo)
    <2>1. k \in Kinds
      BY <1>6, FirstIn DEF Save
    <2>2. /\ [task[t] EXCEPT !.todo = @ \ {k}, !.tracked = @ \ {k}] \in Task
          /\ \A b \in BOOLEAN :
                [task[t] EXCEPT !.todo = @ \ {k}, !.mark = {k}, !.bad = b] \in Task
      BY <2>1 DEF Task
    <2>3. (task[t].bad \/ Required(t, k)) \in BOOLEAN
      OBVIOUS
    <2>4. Completed(row[At(t, k)]) \in Row
      BY <2>1, RowTypes
    <2> QED BY <1>6, <2>1, <2>2, <2>3, <2>4 DEF Save, TypeOK, Others
  <1> QED BY <1>1, <1>2, <1>3, <1>4, <1>5, <1>6

\* On its way out: the image's status, the deferred calls, finalize.
LEMMA LeaveTypes ==
    ASSUME TypeOK, NEW t \in Tasks,
           SetStatus(t) \/ Panic(t) \/ Finalize(t) \/ Finish(t)
    PROVE  TypeOK'
  <1> USE TaskContext
  <1>u. ASSUME NEW new \in Task, Unwind(t, new)
        PROVE  /\ task' \in [Tasks -> Task] /\ lease' \in [Tasks -> Lease]
               /\ slots' \in Nat
    <2>1. [new EXCEPT !.pc = "finalize", !.todo = new.tracked] \in Task
      BY DEF Task, Running
    <2>2. slots' \in Nat
      BY <1>u DEF Unwind, Released, TypeOK
    <2> QED BY <1>u, <2>1, <2>2, StartTypes DEF Unwind, TypeOK
  <1>1. CASE SetStatus(t)
    <2>1. (IF task[t].bad THEN "failed" ELSE Resolve(task[t].res)) \in ImageStatus
      BY DEF Resolve, ImageStatus
    <2>2. image' \in [Images -> Image] /\ faults' \in 0 .. MaxFaults
      BY <1>1, <2>1 DEF SetStatus, TypeOK
    <2> QED BY <1>1, <1>u, <2>2 DEF SetStatus, TypeOK, Others
  <1>2. CASE Panic(t)
    <2>1. [task[t] EXCEPT !.panic = TRUE] \in Task
      BY DEF Task
    <2> QED BY <1>2, <1>u, <2>1 DEF Panic, TypeOK, Others
  <1>3. CASE Finalize(t)
    <2> DEFINE k == First(task[t].todo)
               to == IF task[t].panic THEN "failed" ELSE "pending"
    <2>1. k \in Kinds
      BY <1>3, FirstIn DEF Finalize
    <2>2. [task[t] EXCEPT !.todo = @ \ {k}, !.tracked = @ \ {k}] \in Task
      BY DEF Task
    <2>3. RolledBack(row[At(t, k)], to) \in Row
      BY <2>1, RowTypes
    <2> QED BY <1>3, <2>1, <2>2, <2>3 DEF Finalize, TypeOK, Others
  <1>4. CASE Finish(t)
    <2>1. "failed" \in ImageStatus
      BY DEF ImageStatus
    <2> QED BY <1>4, <2>1, StartTypes DEF Finish, TypeOK, Others
  <1> QED BY <1>1, <1>2, <1>3, <1>4

---------------------------------------------------------------------------
\* Type correctness of the other actors' steps

\* triggerConversion
LEMMA CallTypes ==
    ASSUME TypeOK, NEW c \in Triggers, CallStep(c)
    PROVE  TypeOK'
  <1>1. /\ call[c] \in Call /\ call[c].img \in Images
        /\ call[c].todo \in SUBSET Kinds /\ call[c].ready \in SUBSET Kinds
    BY DEF TypeOK, Call
  <1>2. \A new \in Call : Say(c, new) => call' \in [Triggers -> Call]
    BY DEF Say, TypeOK
  <1>3. \A k \in Kinds : /\ <<call[c].img, k>> \in Variants
                        /\ row[<<call[c].img, k>>] \in Row
    BY <1>1 DEF Variants, TypeOK
  <1>4. \A v \in Variants, r \in Row :
            row' = [row EXCEPT ![v] = r] => row' \in [Variants -> Row]
    BY DEF TypeOK
  <1>5. Accepted \/ Refused => faults' \in 0 .. MaxFaults
    BY PipelineAssumption DEF Accepted, Refused, TypeOK
  <1>6. IdleCall \in Call /\ Aborting(c) \in Call /\ [IdleCall EXCEPT !.pc = "mark", !.img = call[c].img] \in Call
    BY <1>1, StartTypes DEF Aborting, IdleCall, Call
  <1>7. \A s \in ImageStatus : SetImage(call[c].img, s) => image' \in [Images -> Image]
    BY <1>1, MarkedType DEF SetImage, TypeOK
  <1>8. \A S, R \in SUBSET Kinds : /\ [call[c] EXCEPT !.todo = S, !.ready = R] \in Call
                                  /\ [call[c] EXCEPT !.todo = S] \in Call
    BY <1>1 DEF Call
  <1>9. call[c].todo # {} => First(call[c].todo) \in Kinds
    BY <1>1, FirstIn
  <1>10. CASE Prepare(c)
    <2> DEFINE k == First(call[c].todo)
               r == Upserted(row[<<call[c].img, k>>])
               ready == call[c].ready \cup (IF Ready(c, r) THEN {k} ELSE {})
               rest == call[c].todo \ {k}
    <2>1. k \in Kinds
      BY <1>9, <1>10 DEF Prepare
    <2>2. r \in Row
      BY <1>3, <2>1, RowTypes
    <2>3. ready \in SUBSET Kinds /\ rest \in SUBSET Kinds
      BY <1>1, <2>1
    <2>4. [call[c] EXCEPT !.todo = rest, !.ready = ready] \in Call
      BY <1>8, <2>3
    <2>5. /\ Say(c, IF rest = {} /\ ready = {} THEN IdleCall
                    ELSE [call[c] EXCEPT !.todo = rest, !.ready = ready])
          /\ row' = [row EXCEPT ![<<call[c].img, k>>] = r]
          /\ Accepted /\ UNCHANGED <<image, CallOnly>>
      BY <1>10 DEF Prepare
    <2>6. call' \in [Triggers -> Call]
      BY <1>2, <1>6, <2>4, <2>5
    <2>7. row' \in [Variants -> Row] /\ faults' \in 0 .. MaxFaults
      BY <1>3, <1>4, <1>5, <2>1, <2>2, <2>5
    <2> QED BY <2>5, <2>6, <2>7 DEF TypeOK, CallOnly
  <1>11. CASE PrepareFails(c)
    <2> DEFINE v == <<call[c].img, First(call[c].todo)>>
    <2>1. v \in Variants /\ Upserted(row[v]) \in Row
      BY <1>3, <1>9, <1>11, RowTypes DEF PrepareFails
    <2>2. row' \in [Variants -> Row] /\ faults' \in 0 .. MaxFaults
      BY <1>4, <1>5, <1>11, <2>1 DEF PrepareFails, TypeOK
    <2>3. call' \in [Triggers -> Call]
      BY <1>2, <1>6, <1>11 DEF PrepareFails
    <2> QED BY <1>11, <2>2, <2>3 DEF PrepareFails, TypeOK, CallOnly
  <1>12. ASSUME NEW t \in Tasks, Submit(c, t) PROVE TypeOK'
    <2>1. [FreeTask EXCEPT !.pc = "queued", !.img = call[c].img, !.vs = call[c].ready] \in Task
      BY <1>1, StartTypes DEF Task
    <2> QED BY <1>2, <1>6, <1>12, <2>1 DEF Submit, TypeOK
  <1>13. CASE Reject(c)
    BY <1>2, <1>6, <1>13 DEF Reject, TypeOK, CallOnly
  <1>14. CASE MarkProcessing(c)
    <2>1. image' \in [Images -> Image]
      BY <1>7, <1>14 DEF MarkProcessing, ImageStatus, TypeOK
    <2> QED BY <1>2, <1>6, <1>14, <2>1 DEF MarkProcessing, TypeOK, CallOnly
  <1>15. CASE AbortRow(c)
    <2> DEFINE k == First(call[c].todo)
               v == <<call[c].img, k>>
    <2>1. v \in Variants /\ ForceFailed(row[v]) \in Row
      BY <1>3, <1>9, <1>15, RowTypes DEF AbortRow
    <2>2. row' \in [Variants -> Row]
      BY <1>4, <1>15, <2>1 DEF AbortRow, TypeOK
    <2>3. [call[c] EXCEPT !.todo = @ \ {k}] \in Call
      BY <1>1, <1>8
    <2>4. call' \in [Triggers -> Call]
      BY <1>2, <1>15, <2>3 DEF AbortRow
    <2> QED BY <1>15, <2>2, <2>4 DEF AbortRow, TypeOK, CallOnly
  <1>16. CASE AbortImage(c)
    <2>1. image' \in [Images -> Image]
      BY <1>7, <1>16 DEF AbortImage, ImageStatus, TypeOK
    <2> QED BY <1>2, <1>6, <1>16, <2>1 DEF AbortImage, TypeOK, CallOnly
  <1> QED BY <1>10, <1>11, <1>12, <1>13, <1>14, <1>15, <1>16 DEF CallStep

\* sweepOnce
LEMMA SweepTypes ==
    ASSUME TypeOK, RetriesLeft, SweepStep
    PROVE  TypeOK'
  <1>1. /\ sweep \in Sweep /\ sweep.retried \in SUBSET Images
        /\ sweep.todo \in SUBSET (Variants \X (0 .. MaxRetries - 1))
        /\ sweep.queue \in SUBSET Images /\ sweep.old \in SUBSET Images
    BY DEF TypeOK, Sweep
  <1>2. Accepted \/ Refused => faults' \in 0 .. MaxFaults
    BY PipelineAssumption DEF Accepted, Refused, TypeOK
  <1>3. ASSUME NEW T \in SUBSET (Variants \X (0 .. MaxRetries - 1)),
               NEW R \in SUBSET Images, NEW O \in SUBSET Images
        PROVE  Sweeping(T, R, O) \in Sweep
    BY DEF Sweeping, Sweep
  <1>4. \A s \in {"none", "failed"} : Marked(s) \in Image
    BY MarkedType DEF ImageStatus
  <1>5. CASE BeginSweep
    <2>1. \A v \in Variants : IsStale(v) => row[v].retry \in 0 .. MaxRetries - 1
      <3> TAKE v \in Variants
      <3> HAVE IsStale(v)
      <3>1. row[v].retry \in Nat /\ row[v].retry < MaxRetries
        BY PipelineAssumption DEF TypeOK, Row, RetriesLeft, IsStale, IsProcessing
      <3> QED BY <3>1, PipelineAssumption
    <2>2. StaleRows \in SUBSET (Variants \X (0 .. MaxRetries - 1))
      BY <2>1 DEF StaleRows
    <2>3. StaleImages \in SUBSET Images
      BY DEF StaleImages
    <2> QED BY <1>3, <1>5, <2>2, <2>3 DEF BeginSweep, TypeOK, SweepOnly
  <1>6. ASSUME NEW s \in sweep.todo, RecoverRow(s[1], s[2]) PROVE TypeOK'
    <2>1. s[1] \in Variants /\ s[2] \in 0 .. MaxRetries - 1 /\ s[1][1] \in Images
      BY <1>1 DEF Variants
    <2>2. Recovered(row[s[1]], s[2]) \in Row
      BY <2>1, RowTypes DEF TypeOK
    <2>3. row' \in [Variants -> Row]
      BY <1>6, <2>1, <2>2 DEF RecoverRow, TypeOK
    <2>4. sweep' \in Sweep
      <3>1. sweep.todo \ {<<s[1], s[2]>>} \in SUBSET (Variants \X (0 .. MaxRetries - 1))
        BY <1>1
      <3>2. sweep.retried \cup (IF s[2] + 1 >= MaxRetries THEN {} ELSE {s[1][1]}) \in SUBSET Images
        BY <1>1, <2>1
      <3> QED BY <1>1, <1>3, <1>6, <3>1, <3>2 DEF RecoverRow
    <2> QED BY <1>2, <1>6, <2>3, <2>4 DEF RecoverRow, TypeOK, SweepOnly
  <1>7. ASSUME NEW i \in Images, SweepTrigger(i) PROVE TypeOK'
    <2>1. Calling(i) \in Call
      BY DEF Calling, Call
    <2>2. call' \in [Triggers -> Call] /\ faults' \in 0 .. MaxFaults
      BY <1>2, <1>7, <2>1 DEF SweepTrigger, Say, TypeOK
    <2>3. [sweep EXCEPT !.queue = @ \ {i}] \in Sweep
      BY <1>1 DEF Sweep
    <2> QED BY <1>7, <2>2, <2>3 DEF SweepTrigger, TypeOK, SweepOnly
  <1>8. CASE MarkStaleProcessingAsFailed
    <2>1. [sweep EXCEPT !.pc = "reset"] \in Sweep
      BY <1>1 DEF Sweep
    <2>2. image' \in [Images -> Image]
      BY <1>4, <1>8 DEF MarkStaleProcessingAsFailed, TypeOK
    <2> QED BY <1>2, <1>8, <2>1, <2>2 DEF MarkStaleProcessingAsFailed, TypeOK, SweepOnly
  <1>9. CASE ResetStaleProcessingToNone
    <2>1. image' \in [Images -> Image]
      BY <1>4, <1>9 DEF ResetStaleProcessingToNone, TypeOK
    <2> QED BY <1>2, <1>9, <2>1, StartTypes DEF ResetStaleProcessingToNone, TypeOK, SweepOnly
  <1>10. CASE SweepError
    <2>1. [sweep EXCEPT !.pc = "reset"] \in Sweep
      BY <1>1 DEF Sweep
    <2> QED BY <1>2, <1>10, <2>1, StartTypes DEF SweepError, TypeOK, SweepOnly
  <1> QED BY <1>5, <1>6, <1>7, <1>8, <1>9, <1>10 DEF SweepStep

\* serve's shutdown, a crash and the clock
LEMMA WorldTypes ==
    ASSUME TypeOK, ShutdownStep \/ Tick \/ (\E v \in Variants : RetryWindowEnds(v))
    PROVE  TypeOK'
  <1>1. Accepted \/ Refused => faults' \in 0 .. MaxFaults
    BY PipelineAssumption DEF Accepted, Refused, TypeOK
  <1>2. shutdown \in Shutdown /\ \A p \in {"closed", "exiting"} : [Up EXCEPT !.phase = p] \in Shutdown
    BY StartTypes DEF TypeOK, Shutdown
  <1>3. CASE ClosePool
    BY <1>2, <1>3 DEF ClosePool, TypeOK, Still
  <1>4. CASE DrainDeadline
    <2>1. \A t \in Registered : \A k \in lease[t].kinds : At(t, k) \in Variants
      BY DEF Registered, TypeOK, Lease, Task, At, Variants
    <2>2. UNION {{At(t, k) : k \in lease[t].kinds} : t \in Registered} \in SUBSET Variants
      BY <2>1
    <2>3. {task[t].img : t \in Registered} \in SUBSET Images
      BY DEF Registered, TypeOK, Task
    <2>4. shutdown' \in Shutdown
      BY <1>4, <2>2, <2>3 DEF DrainDeadline, Shutdown
    <2> QED BY <1>4, <2>4 DEF DrainDeadline, TypeOK, Still
  <1>5. CASE ResetVariantsToPending
    <2>1. row' \in [Variants -> Row]
      BY <1>5, RowTypes DEF ResetVariantsToPending, TypeOK
    <2>2. [shutdown EXCEPT !.phase = "images", !.rows = {}] \in Shutdown
      BY <1>2 DEF Shutdown
    <2> QED BY <1>1, <1>2, <1>5, <2>1, <2>2 DEF ResetVariantsToPending, TypeOK
  <1>6. CASE ResetProcessingVariantStatus
    <2>1. Marked("none") \in Image
      BY MarkedType DEF ImageStatus
    <2>2. image' \in [Images -> Image]
      BY <1>6, <2>1 DEF ResetProcessingVariantStatus, TypeOK
    <2> QED BY <1>1, <1>2, <1>6, <2>2 DEF ResetProcessingVariantStatus, TypeOK
  <1>7. CASE Restart
    BY <1>7, StartTypes, PipelineAssumption DEF Restart, TypeOK
  <1>8. ASSUME NEW v \in Variants, RetryWindowEnds(v) PROVE TypeOK'
    <2>1. [row[v] EXCEPT !.hold = FALSE] \in Row
      BY DEF TypeOK, Row
    <2> QED BY <1>8, <2>1 DEF RetryWindowEnds, TypeOK
  <1>9. CASE Tick
    <2>1. /\ \A n \in 0 .. StaleThreshold : Older(n, StaleThreshold) \in 0 .. StaleThreshold
          /\ \A n \in 0 .. CtxTimeout : Older(n, CtxTimeout) \in 0 .. CtxTimeout
          /\ 0 \in 0 .. StaleThreshold
      BY PipelineAssumption DEF Older
    <2>2. PICK beat \in SUBSET Beating :
              /\ (beat = Beating /\ Accepted) \/ (beat # Beating /\ Refused)
              /\ row' = [v \in Variants |-> Aged(v, beat)]
              /\ image' = [i \in Images |-> AgedImage(i, beat)]
      BY <1>9 DEF Tick
    <2>3. \A v \in Variants : Aged(v, beat) \in Row
      <3> TAKE v \in Variants
      <3> DEFINE a == IF Touches(beat, v) THEN 0 ELSE Older(row[v].age, StaleThreshold)
      <3>1. row[v] \in Row /\ row[v].age \in 0 .. StaleThreshold
        BY DEF TypeOK, Row
      <3>2. a \in 0 .. StaleThreshold
        BY <2>1, <3>1
      <3>3. [row[v] EXCEPT !.age = a] \in Row
        BY <3>1, <3>2 DEF Row
      <3> QED BY <3>3 DEF Aged
    <2>4. \A i \in Images : AgedImage(i, beat) \in Image
      <3> TAKE i \in Images
      <3> DEFINE a == IF TouchesImage(beat, i) THEN 0 ELSE Older(image[i].age, StaleThreshold)
      <3>1. image[i] \in Image /\ image[i].age \in 0 .. StaleThreshold
        BY DEF TypeOK, Image
      <3>2. a \in 0 .. StaleThreshold
        BY <2>1, <3>1
      <3>3. [image[i] EXCEPT !.age = a] \in Image
        BY <3>1, <3>2 DEF Image
      <3> QED BY <3>3 DEF AgedImage
    <2>5. \A t \in Tasks : [task[t] EXCEPT !.ctx = Older(@, CtxTimeout)] \in Task
      <3> TAKE t \in Tasks
      <3>1. task[t] \in Task /\ task[t].ctx \in 0 .. CtxTimeout
        BY DEF TypeOK, Task
      <3>2. \A n \in 0 .. CtxTimeout : [task[t] EXCEPT !.ctx = n] \in Task
        BY <3>1 DEF Task
      <3> QED BY <2>1, <3>1, <3>2
    <2>6. [sweep EXCEPT !.old = @ \cap StaleImages] \in Sweep
      BY DEF TypeOK, Sweep
    <2>7. row' \in [Variants -> Row] /\ image' \in [Images -> Image] /\ faults' \in 0 .. MaxFaults
      BY <1>1, <2>2, <2>3, <2>4
    <2>8. task' \in [Tasks -> Task] /\ sweep' \in Sweep
      BY <1>9, <2>5, <2>6 DEF Tick, TypeOK
    <2> QED BY <1>9, <2>7, <2>8 DEF Tick, TypeOK
  <1> QED BY <1>3, <1>4, <1>5, <1>6, <1>7, <1>8, <1>9 DEF ShutdownStep

\* Every step of every actor keeps the types.
LEMMA TypeStep ==
    ASSUME TypeOK, TasksAreCoherent, RetriesLeft, Next
    PROVE  TypeOK'
  <1>1. ASSUME NEW t \in Tasks, TaskStep(t) PROVE TypeOK'
    BY <1>1, ClaimTypes, WorkTypes, LeaveTypes DEF TaskStep
  <1>2. ASSUME NEW c \in Callers, NEW i \in Images, Trigger(c, i) PROVE TypeOK'
    <2>1. Calling(i) \in Call /\ c \in Triggers
      BY DEF Calling, Call, Triggers
    <2> QED BY <1>2, <2>1 DEF Trigger, Say, TypeOK, CallOnly
  <1> QED BY <1>1, <1>2, CallTypes, SweepTypes, WorldTypes DEF Next

---------------------------------------------------------------------------
\* What a step does to the rows and to the tasks that hold them

\* The row leaves processing, or stays out of it, with its retries in order.
Settles(v) ==
    /\ row'[v].gone \/ row'[v].st # "processing"
    /\ row'[v].st \in {"absent", "pending", "processing"} => row'[v].retry < MaxRetries

\* The row is claimed, and somebody holds it in the next state.
IsClaimed(v) ==
    /\ IsPending(v)
    /\ row'[v] = Claimed(row[v])
    /\ \E t \in Tasks : Owns(t, v)'

\* At most the updated_at of the row is refreshed, or its next_retry_at passes.
Stays(v) ==
    /\ row'[v].st = row[v].st /\ row'[v].gone = row[v].gone
    /\ row'[v].retry = row[v].retry
    /\ row'[v].age \in {0, row[v].age}

RowEffect(v) == Stays(v) \/ Settles(v) \/ IsClaimed(v)

\* A task does not let go of a row that stays processing, unless a statement
\* was refused.
Keeps(t, v) == Owns(t, v) /\ IsProcessing(v)' => Owns(t, v)' \/ faults' > 0

\* A row in the hands of a task was so before, with a context of the same age,
\* or has just been written.
Holds(t, v) ==
    Owns(t, v)' => \/ Owns(t, v) /\ task'[t].ctx = task[t].ctx
                   \/ row'[v].age = 0

\* Nothing that was counted is forgotten.
Counts == (restarts > 0 => restarts' > 0) /\ (faults > 0 => faults' > 0)

\* A step of these effects preserves the invariant: every step but the crash and
\* the clock is one.
LEMMA EffectsSuffice ==
    ASSUME IndInv, TypeOK', TasksAreCoherent', Counts,
           \A v \in Variants : RowEffect(v),
           \A t \in Tasks, v \in Variants : Keeps(t, v) /\ Holds(t, v)
    PROVE  IndInv'
  <1>1. RetriesLeft'
    <2> SUFFICES ASSUME NEW v \in Variants,
                        row'[v].st \in {"absent", "pending", "processing"}
                 PROVE  row'[v].retry < MaxRetries
      BY DEF RetriesLeft
    <2>1. row[v] \in Row
      BY DEF IndInv, TypeOK
    <2>2. CASE Stays(v)
      BY <2>1, <2>2 DEF Stays, IndInv, RetriesLeft
    <2>3. CASE Settles(v)
      BY <2>3 DEF Settles
    <2>4. CASE IsClaimed(v)
      BY <2>1, <2>4 DEF IsClaimed, IsPending, Claimed, InState, IndInv, RetriesLeft, Row
    <2> QED BY <2>2, <2>3, <2>4 DEF RowEffect
  <1>2. ClaimsAreYoung'
    <2> SUFFICES ASSUME NEW t \in Tasks, NEW v \in Variants,
                        Owns(t, v)', IsProcessing(v)', InTime(t)'
                 PROVE  row'[v].age <= task'[t].ctx
      BY DEF ClaimsAreYoung
    <2>1. row[v] \in Row /\ 0 <= task'[t].ctx
      BY PipelineAssumption DEF IndInv, TypeOK, Task
    <2>2. CASE row'[v].age = 0
      BY <2>1, <2>2
    <2>3. CASE IsClaimed(v)
      BY <2>1, <2>2, <2>3 DEF IsClaimed, Claimed, InState, Row
    <2>4. CASE Stays(v) /\ Owns(t, v) /\ task'[t].ctx = task[t].ctx
      BY <2>2, <2>4 DEF Stays, IndInv, ClaimsAreYoung, IsProcessing, InTime
    <2>5. ~Settles(v)
      BY DEF Settles, IsProcessing
    <2> QED BY <2>2, <2>3, <2>4, <2>5 DEF RowEffect, Holds
  <1>3. ProcessingIsOwned'
    <2> SUFFICES ASSUME NEW v \in Variants, IsProcessing(v)',
                        ~(restarts' > 0), ~(faults' > 0)
                 PROVE  \E t \in Tasks : Owns(t, v)'
      BY DEF ProcessingIsOwned
    <2>1. row[v] \in Row
      BY DEF IndInv, TypeOK
    <2>2. CASE IsClaimed(v)
      BY <2>2 DEF IsClaimed
    <2>3. CASE Stays(v)
      <3>1. IsProcessing(v)
        BY <2>3 DEF Stays, IsProcessing
      <3>2. PICK t \in Tasks : Owns(t, v)
        BY <3>1 DEF IndInv, ProcessingIsOwned, Counts
      <3> QED BY <3>2 DEF Keeps
    <2>4. ~Settles(v)
      BY DEF Settles, IsProcessing
    <2> QED BY <2>2, <2>3, <2>4 DEF RowEffect
  <1> QED BY <1>1, <1>2, <1>3 DEF IndInv

\* A row that leaves processing with a retry left, or stays out of it.
Settled(r) ==
    /\ r.gone \/ r.st # "processing"
    /\ r.st \in {"absent", "pending", "processing"} => r.retry < MaxRetries

\* Every statement but the claim leaves the row settled (the repositories).
LEMMA StatementsSettle ==
    ASSUME NEW r \in Row,
           r.st \in {"absent", "pending", "processing"} => r.retry < MaxRetries
    PROVE  /\ Settled(Completed(r)) /\ Settled(Failed(r)) /\ Settled(Deleted(r))
           /\ r.st = "processing" =>
                 /\ Settled(ResetPending(r))
                 /\ Settled(RolledBack(r, "pending")) /\ Settled(RolledBack(r, "failed"))
           /\ Upserted(r) = r \/ Settled(Upserted(r))
           /\ ForceFailed(r) = r \/ Settled(ForceFailed(r))
           /\ \A n \in 0 .. MaxRetries - 1 : Settled(Recovered(r, n))
  <1> USE DEF Row
  <1>1. \A s \in {"pending", "completed", "failed"} :
           /\ InState(r, s).st = s /\ InState(r, s).retry = r.retry
           /\ InState(r, s) \in Row
    <2> SUFFICES ASSUME NEW s \in {"pending", "completed", "failed"}
                 PROVE  /\ InState(r, s).st = s /\ InState(r, s).retry = r.retry
                        /\ InState(r, s) \in Row
      OBVIOUS
    <2>1. InState(r, s) \in Row
      BY InStateType DEF RowStatus
    <2>2. \A a : /\ [r EXCEPT !.st = s, !.age = a].st = s
                /\ [r EXCEPT !.st = s, !.age = a].retry = r.retry
      OBVIOUS
    <2> QED BY <2>1, <2>2 DEF InState
  <1>2. Settled(Completed(r)) /\ Settled(Failed(r))
    BY <1>1 DEF Completed, Failed, Settled
  <1>3. Settled(Deleted(r))
    BY DEF Deleted, Settled
  <1>4. r.st = "processing" =>
           /\ Settled(ResetPending(r))
           /\ Settled(RolledBack(r, "pending")) /\ Settled(RolledBack(r, "failed"))
    BY <1>1 DEF ResetPending, RolledBack, Settled
  <1>5. Upserted(r) = r \/ Settled(Upserted(r))
    BY <1>1 DEF Upserted, Settled
  <1>6. ForceFailed(r) = r \/ Settled(ForceFailed(r))
    BY <1>2 DEF ForceFailed
  <1>7. ASSUME NEW n \in 0 .. MaxRetries - 1 PROVE Settled(Recovered(r, n))
    <2>1. CASE n + 1 >= MaxRetries
      BY <1>1, <2>1 DEF Recovered, Failed, Settled
    <2>2. CASE ~(n + 1 >= MaxRetries)
      <3>1. n + 1 < MaxRetries
        BY <2>2, PipelineAssumption
      <3> QED BY <1>1, <2>2, <3>1 DEF Recovered, Settled
    <2> QED BY <2>1, <2>2
  <1> QED BY <1>2, <1>3, <1>4, <1>5, <1>6, <1>7

\* The row is not processing any more.
Freed(v) == row'[v].gone \/ row'[v].st # "processing"

\* When one statement writes one row, and settles it, every row is accounted for.
LEMMA OneRow ==
    ASSUME IndInv, NEW v \in Variants, NEW r \in Row, r = row[v] \/ Settled(r),
           row' = [row EXCEPT ![v] = r]
    PROVE  /\ \A w \in Variants : RowEffect(w)
           /\ Settled(r) => Freed(v)
  <1>1. \A w \in Variants : row'[w] = IF w = v THEN r ELSE row[w]
    BY DEF IndInv, TypeOK
  <1> QED BY <1>1 DEF RowEffect, Stays, Settles, Settled, Freed

\* What TasksAreCoherent asks of one task.
Coherent(r) ==
    /\ r.pc \notin Running => r.tracked = {}
    /\ r.pc = "thumb" => "thumb" \in r.vs
    /\ r.mark # {} => r.pc \in {"giveup", "load", "full", "save"}
    /\ r.pc = "finalize" => r.todo = r.tracked

\* A step of one task that claims nothing preserves the invariant when the task
\* stays coherent, and every row it lets go of has left processing or could not
\* be written.
LEMMA TaskSuffices ==
    ASSUME IndInv, TypeOK', NEW t \in Tasks, NEW new \in Task,
           Go(t, new), Coherent(new), Accepted \/ Refused, restarts' = restarts,
           new.tracked \subseteq task[t].tracked,
           new.tracked # {} => new.img = task[t].img /\ new.ctx = task[t].ctx,
           \A v \in Variants : RowEffect(v),
           \A k \in task[t].tracked \ new.tracked : Freed(At(t, k)) \/ faults' > 0
    PROVE  IndInv'
  <1> USE DEF IndInv
  <1>1. \A u \in Tasks : task'[u] = IF u = t THEN new ELSE task[u]
    BY DEF Go, TypeOK
  <1>2. TasksAreCoherent'
    BY <1>1 DEF TasksAreCoherent, Coherent
  <1>3. Counts
    BY DEF Counts, Accepted, Refused, TypeOK
  <1>4. task[t] \in Task /\ (task[t].tracked # {} => task[t].pc \in Running)
    BY DEF TypeOK, TasksAreCoherent
  <1>5. ASSUME NEW u \in Tasks, NEW v \in Variants PROVE Holds(u, v) /\ Keeps(u, v)
    <2>1. CASE u # t
      BY <1>1, <2>1 DEF Holds, Keeps, Owns
    <2>2. CASE u = t
      <3>1. Holds(t, v)
        BY <1>1, <1>4 DEF Holds, Owns
      <3>2. CASE v[2] \in new.tracked
        BY <1>1, <2>2, <3>1, <3>2 DEF Keeps, Owns, Coherent
      <3>3. CASE v[2] \notin new.tracked
        <4>1. SUFFICES ASSUME Owns(t, v), IsProcessing(v)' PROVE faults' > 0
          BY <2>2, <3>1 DEF Keeps
        <4>2. task[t].img = v[1] /\ v[2] \in task[t].tracked \ new.tracked
          BY <3>3, <4>1 DEF Owns
        <4>3. v = <<v[1], v[2]>>
          BY DEF Variants
        <4> QED BY <4>1, <4>2, <4>3 DEF At, Freed, IsProcessing
      <3> QED BY <2>2, <3>1, <3>2, <3>3
    <2> QED BY <2>1, <2>2
  <1> QED BY <1>2, <1>3, <1>5, EffectsSuffice

\* A step that leaves the tasks alone preserves the invariant when it settles
\* every row it writes.
LEMMA RowsSuffice ==
    ASSUME IndInv, TypeOK', UNCHANGED <<task, restarts>>, Accepted \/ Refused,
           \A v \in Variants : RowEffect(v)
    PROVE  IndInv'
  <1>1. TasksAreCoherent'
    BY DEF IndInv, TasksAreCoherent
  <1>2. Counts
    BY DEF Counts, Accepted, Refused, IndInv, TypeOK
  <1>3. \A t \in Tasks, v \in Variants : Keeps(t, v) /\ Holds(t, v)
    BY DEF Keeps, Holds, Owns
  <1> QED BY <1>1, <1>2, <1>3, EffectsSuffice

---------------------------------------------------------------------------
\* The steps of a task preserve the invariant

\* What every step of Execute uses: its task is coherent, rows that are left
\* alone have no effect, and a row of the task has a retry left while it may run.
LEMMA TaskFacts ==
    ASSUME IndInv, NEW t \in Tasks
    PROVE  /\ Coherent(task[t])
           /\ \A v \in Variants : row[v] \in Row
           /\ \A v \in Variants :
                 row[v].st \in {"absent", "pending", "processing"} => row[v].retry < MaxRetries
           /\ UNCHANGED row => \A v \in Variants : RowEffect(v)
  BY DEF IndInv, TypeOK, TasksAreCoherent, Coherent, RetriesLeft, RowEffect, Stays

\* A claim: the row becomes the task's, as young as can be.
LEMMA AcquireInv ==
    ASSUME IndInv, TypeOK', NEW t \in Tasks, Acquire(t)
    PROVE  IndInv'
  <1> USE DEF IndInv
  <1>0. TypeOK /\ task[t] \in Task /\ task[t].todo \in SUBSET Kinds
    BY TaskContext
  <1>1. PICK k \in Kinds : k = First(task[t].todo)
    BY <1>0, FirstIn DEF Acquire
  <1>2. PICK v \in Variants : v = At(t, k)
    BY <1>0, TaskContext
  <1> DEFINE new == [task[t] EXCEPT !.todo = @ \ {k}, !.tracked = @ \cup {k}]
  <1>3. /\ v[1] = task[t].img /\ v[2] = k
        /\ task[t].pc = "acquire" /\ task[t].todo # {}
        /\ IsPending(v) /\ Accepted /\ Go(t, new)
        /\ row' = [row EXCEPT ![v] = Claimed(row[v])]
        /\ restarts' = restarts
    BY <1>1, <1>2 DEF Acquire, At, Others
  <1>4. \A u \in Tasks : task'[u] = IF u = t THEN new ELSE task[u]
    <2>1. \A n : Go(t, n) => \A u \in Tasks : task'[u] = IF u = t THEN n ELSE task[u]
      BY DEF Go, TypeOK
    <2> QED BY <1>3, <2>1
  <1>5. /\ new.pc = "acquire" /\ new.img = task[t].img /\ new.ctx = task[t].ctx
        /\ new.mark = task[t].mark /\ new.tracked = task[t].tracked \cup {k}
    BY <1>0, <1>3 DEF Task
  <1>6. \A w \in Variants : row'[w] = IF w = v THEN Claimed(row[w]) ELSE row[w]
    BY <1>3 DEF TypeOK
  <1>7. Claimed(row[v]).age = 0
    <2>1. row[v] \in Row
      BY DEF TypeOK
    <2>2. [row[v] EXCEPT !.st = "processing", !.age = 0].age = 0
      BY <2>1 DEF Row
    <2>3. InState(row[v], "processing") \in Row /\ InState(row[v], "processing").age = 0
      BY <2>1, <2>2, InStateType DEF InState, RowStatus
    <2> QED BY <2>3 DEF Claimed, Row
  <1>8. TasksAreCoherent'
    BY <1>3, <1>4, <1>5 DEF TasksAreCoherent, Running
  <1>9. Counts
    BY <1>3 DEF Counts, Accepted
  <1>10. Owns(t, v)'
    BY <1>3, <1>4, <1>5 DEF Owns, Running
  <1>11. \A w \in Variants : RowEffect(w)
    BY <1>3, <1>6, <1>10 DEF RowEffect, Stays, IsClaimed
  <1>12. ASSUME NEW u \in Tasks, NEW w \in Variants PROVE Keeps(u, w) /\ Holds(u, w)
    <2>1. CASE u # t
      BY <1>4, <2>1 DEF Keeps, Holds, Owns
    <2>2. CASE u = t
      <3>1. Keeps(t, w)
        BY <1>4, <1>5 DEF Keeps, Owns, Running
      <3>2. CASE w[2] = k /\ w[1] = task[t].img
        <4>1. w = v
          BY <1>3, <3>2 DEF Variants
        <4> QED BY <1>6, <1>7, <2>2, <3>1, <4>1 DEF Holds
      <3>3. CASE ~(w[2] = k /\ w[1] = task[t].img)
        BY <1>3, <1>4, <1>5, <2>2, <3>1, <3>3 DEF Holds, Owns, Running
      <3> QED BY <3>2, <3>3
    <2> QED BY <2>1, <2>2
  <1> QED BY <1>8, <1>9, <1>11, <1>12, EffectsSuffice

\* The other steps before the pipeline runs.
LEMMA ClaimInv ==
    ASSUME IndInv, TypeOK', NEW t \in Tasks,
           Start(t) \/ AcquireFails(t) \/ Register(t) \/ TakeSlot(t) \/ SlotTimeout(t)
    PROVE  IndInv'
  <1> USE TaskFacts, TaskContext
  <1>0. TypeOK /\ task[t] \in Task /\ Coherent(task[t])
    BY DEF IndInv
  <1>1. CASE Start(t)
    <2> DEFINE new == [task[t] EXCEPT !.pc = "acquire", !.todo = task[t].vs, !.ctx = 0]
    <2>1. new \in Task
      <3>1. 0 \in 0 .. CtxTimeout
        BY PipelineAssumption
      <3> QED BY <1>0, <3>1 DEF Task, Running, Slotted
    <2>2. task[t].tracked = {} /\ new.tracked = {} /\ Coherent(new)
      BY <1>0, <1>1 DEF Start, Coherent, Task, Running, Slotted
    <2>3. Go(t, new) /\ Accepted /\ restarts' = restarts /\ UNCHANGED row
      BY <1>1 DEF Start, Accepted, Others
    <2> QED BY <2>1, <2>2, <2>3, TaskSuffices
  <1>2. CASE AcquireFails(t)
    <2> DEFINE new == [task[t] EXCEPT !.pc = "finalize", !.todo = task[t].tracked]
    <2>1. /\ new \in Task /\ new.tracked = task[t].tracked
          /\ new.img = task[t].img /\ new.ctx = task[t].ctx
      BY <1>0 DEF Task, Running
    <2>2. Coherent(new)
      BY <1>0, <1>2 DEF AcquireFails, Coherent, Task, Running
    <2>3. Go(t, new) /\ (Accepted \/ Refused) /\ restarts' = restarts /\ UNCHANGED row
      BY <1>2 DEF AcquireFails, Others
    <2> QED BY <2>1, <2>2, <2>3, TaskSuffices
  <1>3. CASE Register(t)
    <2> DEFINE new == [task[t] EXCEPT !.pc = "slot"]
    <2>1. /\ new \in Task /\ new.tracked = task[t].tracked
          /\ new.img = task[t].img /\ new.ctx = task[t].ctx
      BY <1>0 DEF Task, Running
    <2>2. Coherent(new)
      BY <1>0, <1>3 DEF Register, Coherent, Task, Running
    <2>3. Go(t, new) /\ Accepted /\ restarts' = restarts /\ UNCHANGED row
      BY <1>3 DEF Register, Accepted, Others
    <2> QED BY <2>1, <2>2, <2>3, TaskSuffices
  <1>4. CASE TakeSlot(t)
    <2> DEFINE new == [task[t] EXCEPT !.pc = "file"]
    <2>1. /\ new \in Task /\ new.tracked = task[t].tracked
          /\ new.img = task[t].img /\ new.ctx = task[t].ctx
      BY <1>0 DEF Task, Running, Slotted
    <2>2. Coherent(new)
      BY <1>0, <1>4 DEF TakeSlot, Coherent, Task, Running, Slotted
    <2>3. Go(t, new) /\ (Accepted \/ Refused) /\ restarts' = restarts
      BY <1>4 DEF TakeSlot, Others
    <2>4. \A v \in Variants : RowEffect(v)
      <3>1. \A v \in Variants : row'[v] \in {row[v], [row[v] EXCEPT !.age = 0]}
        BY <1>4 DEF TakeSlot
      <3> QED BY <3>1 DEF RowEffect, Stays, Row
    <2> QED BY <2>1, <2>2, <2>3, <2>4, TaskSuffices
  <1>5. CASE SlotTimeout(t)
    <2> DEFINE new == [task[t] EXCEPT !.pc = "giveup", !.mark = task[t].vs, !.bad = TRUE]
    <2>1. /\ new \in Task /\ new.tracked = task[t].tracked
          /\ new.img = task[t].img /\ new.ctx = task[t].ctx
      BY <1>0 DEF Task, Running
    <2>2. Coherent(new)
      BY <1>0, <1>5 DEF SlotTimeout, Coherent, Task, Running
    <2>3. Go(t, new) /\ Accepted /\ restarts' = restarts /\ UNCHANGED row
      BY <1>5 DEF SlotTimeout, Accepted, Others
    <2> QED BY <2>1, <2>2, <2>3, TaskSuffices
  <1> QED BY <1>1, <1>2, <1>3, <1>4, <1>5

\* deleteTrackedVariant: the row is gone, or the task still tracks it.
LEMMA SkipInv ==
    ASSUME IndInv, TypeOK', NEW t \in Tasks, NEW k \in Kinds, NEW new \in Task,
           SkipVariant(t, k, new), restarts' = restarts,
           new.tracked = task[t].tracked, new.img = task[t].img, new.ctx = task[t].ctx,
           new.pc \in {"load", "full", "save"}
    PROVE  IndInv'
  <1> USE TaskFacts, TaskContext
  <1>0. TypeOK
    BY DEF IndInv
  <1>1. PICK v \in Variants : v = At(t, k)
    BY <1>0
  <1>2. CASE /\ Accepted /\ row' = [row EXCEPT ![v] = Deleted(row[v])]
             /\ Go(t, [new EXCEPT !.tracked = @ \ {k}])
    <2> DEFINE next == [new EXCEPT !.tracked = @ \ {k}]
    <2>1. /\ next \in Task /\ next.tracked = task[t].tracked \ {k}
          /\ next.img = task[t].img /\ next.ctx = task[t].ctx
      BY DEF Task
    <2>2. Coherent(next)
      BY DEF Coherent, Task, Running, Slotted
    <2>3. Deleted(row[v]) \in Row /\ Settled(Deleted(row[v]))
      BY RowTypes, StatementsSettle
    <2>4. (\A w \in Variants : RowEffect(w)) /\ Freed(v)
      BY <1>2, <2>3, OneRow
    <2>5. \A j \in task[t].tracked \ next.tracked : Freed(At(t, j))
      BY <1>1, <2>1, <2>4
    <2> QED BY <1>2, <2>1, <2>2, <2>4, <2>5, TaskSuffices
  <1>3. CASE Refused /\ Go(t, new) /\ UNCHANGED row
    <2>1. Coherent(new)
      BY DEF Coherent, Task, Running, Slotted
    <2> QED BY <1>3, <2>1, TaskSuffices
  <1> QED BY <1>1, <1>2, <1>3 DEF SkipVariant

\* markVariantFailed and saveVariantResults: the variant is let go of only when
\* its row was written.
LEMMA WriteInv ==
    ASSUME IndInv, TypeOK', NEW t \in Tasks, MarkFailed(t) \/ Save(t)
    PROVE  IndInv'
  <1> USE TaskFacts, TaskContext
  <1>0. TypeOK /\ task[t] \in Task /\ Coherent(task[t])
    BY DEF IndInv
  <1>1. CASE MarkFailed(t)
    <2>1. PICK k \in Kinds : k = First(task[t].mark)
      BY <1>0, <1>1, FirstIn DEF MarkFailed
    <2>2. PICK v \in Variants : v = At(t, k)
      BY <1>0
    <2>3. restarts' = restarts /\ task[t].mark # {}
      BY <1>1 DEF MarkFailed, Others
    <2>4. CASE /\ IsProcessing(v) /\ Accepted
               /\ row' = [row EXCEPT ![v] = Failed(row[v])]
               /\ Go(t, [task[t] EXCEPT !.mark = @ \ {k}, !.tracked = @ \ {k}])
      <3> DEFINE new == [task[t] EXCEPT !.mark = @ \ {k}, !.tracked = @ \ {k}]
      <3>1. /\ new \in Task /\ new.tracked = task[t].tracked \ {k}
            /\ new.img = task[t].img /\ new.ctx = task[t].ctx
        BY <1>0 DEF Task
      <3>2. Coherent(new)
        BY <1>0, <2>3 DEF Coherent, Task, Running, Slotted
      <3>3. Failed(row[v]) \in Row /\ Settled(Failed(row[v]))
        BY RowTypes, StatementsSettle
      <3>4. (\A w \in Variants : RowEffect(w)) /\ Freed(v)
        BY <2>4, <3>3, OneRow
      <3>5. \A j \in task[t].tracked \ new.tracked : Freed(At(t, j))
        BY <2>2, <3>1, <3>4
      <3> QED BY <2>3, <2>4, <3>1, <3>2, <3>4, <3>5, TaskSuffices
    <2>5. CASE /\ Accepted \/ Refused
               /\ Go(t, [task[t] EXCEPT !.mark = @ \ {k}]) /\ UNCHANGED row
      <3> DEFINE new == [task[t] EXCEPT !.mark = @ \ {k}]
      <3>1. /\ new \in Task /\ new.tracked = task[t].tracked
            /\ new.img = task[t].img /\ new.ctx = task[t].ctx
        BY <1>0 DEF Task
      <3>2. Coherent(new)
        BY <1>0, <2>3 DEF Coherent, Task, Running, Slotted
      <3> QED BY <2>3, <2>5, <3>1, <3>2, TaskSuffices
    <2> QED BY <1>1, <2>1, <2>2, <2>4, <2>5 DEF MarkFailed
  <1>2. CASE Save(t)
    <2>1. PICK k \in Kinds : k = First(task[t].todo)
      BY <1>0, <1>2, FirstIn DEF Save
    <2>2. PICK v \in Variants : v = At(t, k)
      BY <1>0
    <2>3. restarts' = restarts /\ task[t].pc = "save"
      BY <1>2 DEF Save, Others
    <2>4. CASE /\ IsProcessing(v) /\ Accepted
               /\ row' = [row EXCEPT ![v] = Completed(row[v])]
               /\ Go(t, [task[t] EXCEPT !.todo = @ \ {k}, !.tracked = @ \ {k}])
      <3> DEFINE new == [task[t] EXCEPT !.todo = @ \ {k}, !.tracked = @ \ {k}]
      <3>1. /\ new \in Task /\ new.tracked = task[t].tracked \ {k}
            /\ new.img = task[t].img /\ new.ctx = task[t].ctx
        BY <1>0 DEF Task
      <3>2. Coherent(new)
        BY <1>0, <2>3 DEF Coherent, Task, Running, Slotted
      <3>3. Completed(row[v]) \in Row /\ Settled(Completed(row[v]))
        BY RowTypes, StatementsSettle
      <3>4. (\A w \in Variants : RowEffect(w)) /\ Freed(v)
        BY <2>4, <3>3, OneRow
      <3>5. \A j \in task[t].tracked \ new.tracked : Freed(At(t, j))
        BY <2>2, <3>1, <3>4
      <3> QED BY <2>3, <2>4, <3>1, <3>2, <3>4, <3>5, TaskSuffices
    <2>5. ASSUME NEW b \in BOOLEAN, Accepted \/ Refused, UNCHANGED row,
                 Go(t, [task[t] EXCEPT !.todo = @ \ {k}, !.mark = {k}, !.bad = b])
          PROVE  IndInv'
      <3> DEFINE new == [task[t] EXCEPT !.todo = @ \ {k}, !.mark = {k}, !.bad = b]
      <3>1. /\ new \in Task /\ new.tracked = task[t].tracked
            /\ new.img = task[t].img /\ new.ctx = task[t].ctx
        BY <1>0 DEF Task
      <3>2. Coherent(new)
        BY <1>0, <2>3 DEF Coherent, Task, Running, Slotted
      <3> QED BY <2>3, <2>5, <3>1, <3>2, TaskSuffices
    <2>6. (task[t].bad \/ Required(t, k)) \in BOOLEAN
      OBVIOUS
    <2> QED BY <1>2, <2>1, <2>2, <2>4, <2>5, <2>6 DEF Save
  <1> QED BY <1>1, <1>2

\* runPipeline up to the results: nothing is released but what is deleted.
LEMMA WorkInv ==
    ASSUME IndInv, TypeOK', NEW t \in Tasks,
           GetFile(t) \/ Thumbnail(t) \/ LoadImage(t) \/ FullVariant(t)
    PROVE  IndInv'
  <1> USE TaskFacts, TaskContext
  <1>0. TypeOK /\ task[t] \in Task /\ Coherent(task[t])
    BY DEF IndInv
  <1>q. ASSUME NEW new \in Task, Go(t, new), Accepted \/ Refused, UNCHANGED row,
               restarts' = restarts, new.tracked = task[t].tracked,
               new.img = task[t].img, new.ctx = task[t].ctx,
               new.pc \in {"thumb", "load", "full", "save"},
               new.pc = "thumb" => "thumb" \in new.vs /\ new.mark = {}
        PROVE  IndInv'
    <2>1. Coherent(new)
      BY <1>q DEF Coherent, Running, Slotted
    <2> QED BY <1>q, <2>1, TaskSuffices
  <1>1. CASE GetFile(t)
    <2>1. /\ Accepted /\ restarts' = restarts /\ UNCHANGED row
          /\ task[t].mark = {}
      BY <1>0, <1>1 DEF GetFile, Accepted, Others, Coherent
    <2>2. CASE Go(t, [task[t] EXCEPT !.pc = IF "thumb" \in task[t].vs THEN "thumb" ELSE "load"])
      <3> DEFINE p == IF "thumb" \in task[t].vs THEN "thumb" ELSE "load"
      <3>1. \A q \in {"thumb", "load"} : LET new == [task[t] EXCEPT !.pc = q] IN
               /\ new \in Task /\ new.pc = q /\ new.tracked = task[t].tracked
               /\ new.img = task[t].img /\ new.ctx = task[t].ctx
               /\ new.vs = task[t].vs /\ new.mark = task[t].mark
        BY <1>0 DEF Task, Running, Slotted
      <3>2. p \in {"thumb", "load"} /\ (p = "thumb" => "thumb" \in task[t].vs)
        OBVIOUS
      <3> QED BY <1>q, <2>1, <2>2, <3>1, <3>2
    <2>3. CASE Go(t, [task[t] EXCEPT !.pc = "save", !.mark = task[t].vs, !.bad = TRUE])
      <3> DEFINE new == [task[t] EXCEPT !.pc = "save", !.mark = task[t].vs, !.bad = TRUE]
      <3>1. /\ new \in Task /\ new.pc = "save" /\ new.tracked = task[t].tracked
            /\ new.img = task[t].img /\ new.ctx = task[t].ctx
        BY <1>0 DEF Task, Running, Slotted
      <3> QED BY <1>q, <2>1, <2>3, <3>1
    <2> QED BY <1>1, <2>2, <2>3 DEF GetFile
  <1>2. CASE Thumbnail(t)
    <2>1. PICK p \in {"save", "load"} : p = IF task[t].vs = {"thumb"} THEN "save" ELSE "load"
      OBVIOUS
    <2>2. PICK left \in SUBSET Kinds : left = IF p = "save" THEN {"thumb"} ELSE {}
      BY <1>0, <1>2 DEF Thumbnail, Coherent
    <2>3. "thumb" \in Kinds /\ restarts' = restarts
      BY <1>0, <1>2 DEF Thumbnail, Coherent, Others
    <2>4. CASE /\ Accepted /\ UNCHANGED row
               /\ Go(t, [task[t] EXCEPT !.res = {"thumb"}, !.pc = p, !.todo = left])
      <3> DEFINE new == [task[t] EXCEPT !.res = {"thumb"}, !.pc = p, !.todo = left]
      <3>1. /\ new \in Task /\ new.pc = p /\ new.tracked = task[t].tracked
            /\ new.img = task[t].img /\ new.ctx = task[t].ctx
        BY <1>0, <2>3 DEF Task, Running, Slotted
      <3> QED BY <1>q, <2>3, <2>4, <3>1
    <2>5. CASE /\ Accepted /\ UNCHANGED row
               /\ Go(t, [task[t] EXCEPT !.mark = {"thumb"}, !.bad = TRUE, !.pc = p])
      <3> DEFINE new == [task[t] EXCEPT !.mark = {"thumb"}, !.bad = TRUE, !.pc = p]
      <3>1. /\ new \in Task /\ new.pc = p /\ new.tracked = task[t].tracked
            /\ new.img = task[t].img /\ new.ctx = task[t].ctx
        BY <1>0, <2>3 DEF Task, Running, Slotted
      <3> QED BY <1>q, <2>3, <2>5, <3>1
    <2>6. CASE SkipVariant(t, "thumb", [task[t] EXCEPT !.pc = p])
      <3> DEFINE new == [task[t] EXCEPT !.pc = p]
      <3>1. /\ new \in Task /\ new.pc = p /\ new.tracked = task[t].tracked
            /\ new.img = task[t].img /\ new.ctx = task[t].ctx
        BY <1>0 DEF Task, Running, Slotted
      <3> QED BY <2>3, <2>6, <3>1, SkipInv
    <2> QED BY <1>2, <2>1, <2>2, <2>4, <2>5, <2>6 DEF Thumbnail
  <1>3. CASE LoadImage(t)
    <2> DEFINE full == task[t].vs \ {"thumb"}
    <2>1. Accepted /\ restarts' = restarts /\ UNCHANGED row
      BY <1>3 DEF LoadImage, Accepted, Others
    <2>2. CASE Go(t, [task[t] EXCEPT !.pc = "full", !.todo = full])
      <3> DEFINE new == [task[t] EXCEPT !.pc = "full", !.todo = full]
      <3>1. /\ new \in Task /\ new.pc = "full" /\ new.tracked = task[t].tracked
            /\ new.img = task[t].img /\ new.ctx = task[t].ctx
        BY <1>0 DEF Task, Running, Slotted
      <3> QED BY <1>q, <2>1, <2>2, <3>1
    <2>3. CASE Go(t, [task[t] EXCEPT !.pc = "full", !.todo = full, !.mark = full, !.bad = TRUE])
      <3> DEFINE new == [task[t] EXCEPT !.pc = "full", !.todo = full, !.mark = full, !.bad = TRUE]
      <3>1. /\ new \in Task /\ new.pc = "full" /\ new.tracked = task[t].tracked
            /\ new.img = task[t].img /\ new.ctx = task[t].ctx
        BY <1>0 DEF Task, Running, Slotted
      <3> QED BY <1>q, <2>1, <2>3, <3>1
    <2> QED BY <1>3, <2>2, <2>3 DEF LoadImage
  <1>4. CASE FullVariant(t)
    <2>1. PICK k \in Kinds : k = First(task[t].todo)
      BY <1>0, <1>4, FirstIn DEF FullVariant
    <2>2. restarts' = restarts
      BY <1>4 DEF FullVariant, Others
    <2>3. ASSUME NEW R \in SUBSET Kinds
          PROVE  \E r \in Task :
                    /\ r = Visited(t, k, R) /\ r.pc \in {"full", "save"}
                    /\ r.tracked = task[t].tracked
                    /\ r.img = task[t].img /\ r.ctx = task[t].ctx
      <3> DEFINE rest == task[t].todo \ {k}
      <3>1. PICK p \in {"save", "full"} : p = IF rest = {} THEN "save" ELSE "full"
        OBVIOUS
      <3>2. PICK left \in SUBSET Kinds : left = IF rest = {} THEN R ELSE rest
        BY <1>0
      <3> DEFINE r == [task[t] EXCEPT !.res = R, !.pc = p, !.todo = left]
      <3>3. r = Visited(t, k, R)
        BY <3>1, <3>2 DEF Visited
      <3>4. /\ r \in Task /\ r.pc \in {"full", "save"} /\ r.tracked = task[t].tracked
            /\ r.img = task[t].img /\ r.ctx = task[t].ctx
        BY <1>0 DEF Task, Running, Slotted
      <3> QED BY <3>3, <3>4
    <2>4. PICK next \in Task :
             /\ next = Visited(t, k, task[t].res) /\ next.pc \in {"full", "save"}
             /\ next.tracked = task[t].tracked
             /\ next.img = task[t].img /\ next.ctx = task[t].ctx
      BY <1>0, <2>3
    <2>5. CASE /\ Accepted /\ UNCHANGED row
               /\ Go(t, Visited(t, k, task[t].res \cup {k}))
      <3>1. PICK made \in Task :
               /\ made = Visited(t, k, task[t].res \cup {k}) /\ made.pc \in {"full", "save"}
               /\ made.tracked = task[t].tracked
               /\ made.img = task[t].img /\ made.ctx = task[t].ctx
        <4>1. task[t].res \cup {k} \in SUBSET Kinds
          BY <1>0
        <4> QED BY <2>3, <4>1
      <3> QED BY <1>q, <2>2, <2>5, <3>1
    <2>6. ASSUME NEW b \in BOOLEAN, Accepted, UNCHANGED row,
                 Go(t, [next EXCEPT !.mark = {k}, !.bad = b])
          PROVE  IndInv'
      <3> DEFINE new == [next EXCEPT !.mark = {k}, !.bad = b]
      <3>1. /\ new \in Task /\ new.pc = next.pc /\ new.tracked = next.tracked
            /\ new.img = next.img /\ new.ctx = next.ctx
        BY DEF Task
      <3> QED BY <1>q, <2>2, <2>4, <2>6, <3>1
    <2>7. ASSUME NEW g \in BOOLEAN, SkipVariant(t, k, [next EXCEPT !.big = g])
          PROVE  IndInv'
      <3> DEFINE new == [next EXCEPT !.big = g]
      <3>1. /\ new \in Task /\ new.pc = next.pc /\ new.tracked = next.tracked
            /\ new.img = next.img /\ new.ctx = next.ctx
        BY DEF Task
      <3> QED BY <2>2, <2>4, <2>7, <3>1, SkipInv
    <2>8. /\ (next.bad \/ Required(t, k)) \in BOOLEAN
          /\ (next.big \/ k = "webp") \in BOOLEAN
      BY DEF Task
    <2> QED BY <1>4, <2>1, <2>4, <2>5, <2>6, <2>7, <2>8 DEF FullVariant
  <1> QED BY <1>1, <1>2, <1>3, <1>4

\* The way out of Execute: finalize visits all that is still tracked, and lets
\* go of a row once it is not processing or could not be written.
LEMMA LeaveInv ==
    ASSUME IndInv, TypeOK', NEW t \in Tasks,
           SetStatus(t) \/ Panic(t) \/ Finalize(t) \/ Finish(t)
    PROVE  IndInv'
  <1> USE TaskFacts, TaskContext
  <1>0. TypeOK /\ task[t] \in Task /\ Coherent(task[t])
    BY DEF IndInv
  <1>u. ASSUME NEW from \in Task, Unwind(t, from), from.mark = {},
               from.tracked = task[t].tracked, from.img = task[t].img,
               from.ctx = task[t].ctx, Accepted \/ Refused,
               restarts' = restarts, UNCHANGED row
        PROVE  IndInv'
    <2> DEFINE new == [from EXCEPT !.pc = "finalize", !.todo = from.tracked]
    <2>1. /\ new \in Task /\ new.pc = "finalize" /\ new.tracked = task[t].tracked
          /\ new.todo = new.tracked /\ new.mark = {}
          /\ new.img = task[t].img /\ new.ctx = task[t].ctx
      BY <1>u DEF Task, Running
    <2>2. Coherent(new)
      BY <2>1 DEF Coherent, Running
    <2> QED BY <1>u, <2>1, <2>2, TaskSuffices DEF Unwind
  <1>1. CASE SetStatus(t)
    BY <1>0, <1>1, <1>u DEF SetStatus, Others
  <1>2. CASE Panic(t)
    <2> DEFINE from == [task[t] EXCEPT !.panic = TRUE]
    <2>1. /\ from \in Task /\ from.mark = task[t].mark /\ from.tracked = task[t].tracked
          /\ from.img = task[t].img /\ from.ctx = task[t].ctx
      BY <1>0 DEF Task
    <2>2. /\ Unwind(t, from) /\ task[t].mark = {} /\ Accepted
          /\ restarts' = restarts /\ UNCHANGED row
      BY <1>2 DEF Panic, Accepted, Others
    <2> QED BY <1>u, <2>1, <2>2
  <1>3. CASE Finalize(t)
    <2>1. PICK k \in Kinds : k = First(task[t].todo)
      BY <1>0, <1>3, FirstIn DEF Finalize
    <2>2. PICK v \in Variants : v = At(t, k)
      BY <1>0
    <2>3. PICK to \in {"pending", "failed"} : to = IF task[t].panic THEN "failed" ELSE "pending"
      OBVIOUS
    <2> DEFINE new == [task[t] EXCEPT !.todo = @ \ {k}, !.tracked = @ \ {k}]
    <2>4. restarts' = restarts /\ task[t].pc = "finalize" /\ Go(t, new)
      BY <1>3, <2>1 DEF Finalize, Others
    <2>5. /\ new \in Task /\ new.tracked = task[t].tracked \ {k}
          /\ new.img = task[t].img /\ new.ctx = task[t].ctx
      BY <1>0 DEF Task
    <2>6. Coherent(new)
      BY <1>0, <2>4 DEF Coherent, Task, Running, Slotted
    <2>7. CASE /\ IsProcessing(v) /\ Accepted
               /\ row' = [row EXCEPT ![v] = RolledBack(row[v], to)]
      <3>1. RolledBack(row[v], to) \in Row /\ Settled(RolledBack(row[v], to))
        BY <2>7, RowTypes, StatementsSettle DEF IsProcessing
      <3>2. (\A w \in Variants : RowEffect(w)) /\ Freed(v)
        BY <2>7, <3>1, OneRow
      <3>3. \A j \in task[t].tracked \ new.tracked : Freed(At(t, j))
        BY <2>2, <2>5, <3>2
      <3> QED BY <2>4, <2>5, <2>6, <2>7, <3>2, <3>3, TaskSuffices
    <2>8. CASE ((~IsProcessing(v) /\ Accepted) \/ Refused) /\ UNCHANGED row
      <3>1. \A j \in task[t].tracked \ new.tracked : Freed(At(t, j)) \/ faults' > 0
        <4>1. CASE ~IsProcessing(v)
          BY <2>2, <2>5, <2>8, <4>1 DEF Freed, IsProcessing
        <4>2. CASE Refused
          BY <1>0, <4>2 DEF Refused, TypeOK
        <4> QED BY <2>8, <4>1, <4>2
      <3> QED BY <2>4, <2>5, <2>6, <2>8, <3>1, TaskSuffices
    <2> QED BY <1>3, <2>1, <2>2, <2>3, <2>7, <2>8 DEF Finalize
  <1>4. CASE Finish(t)
    <2>1. /\ Accepted \/ Refused
          /\ restarts' = restarts /\ UNCHANGED row /\ Go(t, FreeTask)
          /\ task[t].tracked = {}
      BY <1>0, <1>4 DEF Finish, Others, Coherent
    <2>2. FreeTask \in Task /\ FreeTask.tracked = {} /\ Coherent(FreeTask)
      BY StartTypes DEF FreeTask, Coherent, Running, Slotted
    <2> QED BY <2>1, <2>2, TaskSuffices
  <1> QED BY <1>1, <1>2, <1>3, <1>4

\* Every step of a task.
LEMMA TaskInv ==
    ASSUME IndInv, TypeOK', NEW t \in Tasks, TaskStep(t)
    PROVE  IndInv'
  BY AcquireInv, ClaimInv, WorkInv, WriteInv, LeaveInv DEF TaskStep

---------------------------------------------------------------------------
\* The steps of the other actors preserve the invariant

\* triggerConversion inserts, submits, or fails: it never claims a row.
LEMMA CallInv ==
    ASSUME IndInv, TypeOK', NEW c \in Triggers, CallStep(c)
    PROVE  IndInv'
  <1>0. TypeOK /\ call[c] \in Call /\ call[c].img \in Images /\ call[c].todo \in SUBSET Kinds
    BY DEF IndInv, TypeOK, Call
  <1>1. \A v \in Variants :
           /\ row[v] \in Row
           /\ row[v].st \in {"absent", "pending", "processing"} => row[v].retry < MaxRetries
    BY DEF IndInv, TypeOK, RetriesLeft
  <1>2. UNCHANGED row => \A v \in Variants : RowEffect(v)
    BY DEF RowEffect, Stays
  <1>3. call[c].todo # {} => <<call[c].img, First(call[c].todo)>> \in Variants
    BY <1>0, FirstIn DEF Variants
  <1>4. CASE Prepare(c) \/ PrepareFails(c) \/ AbortRow(c)
    <2>1. PICK v \in Variants : v = <<call[c].img, First(call[c].todo)>>
      BY <1>3, <1>4 DEF Prepare, PrepareFails, AbortRow
    <2>2. UNCHANGED <<task, restarts>> /\ (Accepted \/ Refused)
      BY <1>4 DEF Prepare, PrepareFails, AbortRow, CallOnly, Accepted
    <2>3. \/ UNCHANGED row
          \/ row' = [row EXCEPT ![v] = Upserted(row[v])]
          \/ row' = [row EXCEPT ![v] = ForceFailed(row[v])]
      BY <1>4, <2>1 DEF Prepare, PrepareFails, AbortRow
    <2>4. /\ Upserted(row[v]) \in Row /\ (Upserted(row[v]) = row[v] \/ Settled(Upserted(row[v])))
          /\ ForceFailed(row[v]) \in Row
          /\ ForceFailed(row[v]) = row[v] \/ Settled(ForceFailed(row[v]))
      BY <1>1, RowTypes, StatementsSettle
    <2>5. \A w \in Variants : RowEffect(w)
      BY <1>2, <2>3, <2>4, OneRow
    <2> QED BY <2>2, <2>5, RowsSuffice
  <1>5. ASSUME NEW t \in Tasks, Submit(c, t) PROVE IndInv'
    <2> DEFINE new == [FreeTask EXCEPT !.pc = "queued", !.img = call[c].img, !.vs = call[c].ready]
    <2>1. new \in Task /\ new.tracked = {} /\ Coherent(new)
      <3>1. call[c].ready \in SUBSET Kinds
        BY <1>0 DEF Call
      <3> QED BY <1>0, <3>1, StartTypes DEF FreeTask, Task, Coherent, Running, Slotted
    <2>2. task[t].tracked = {}
      BY <1>5 DEF Submit, IndInv, TasksAreCoherent, Running, Slotted
    <2>3. Go(t, new) /\ Accepted /\ restarts' = restarts /\ UNCHANGED row
      BY <1>5 DEF Submit, Go, Accepted
    <2> QED BY <1>2, <2>1, <2>2, <2>3, TaskSuffices
  <1>6. CASE Reject(c) \/ MarkProcessing(c) \/ AbortImage(c)
    <2>1. UNCHANGED <<task, restarts>> /\ Accepted /\ UNCHANGED row
      BY <1>6 DEF Reject, MarkProcessing, AbortImage, CallOnly, Accepted
    <2> QED BY <1>2, <2>1, RowsSuffice
  <1> QED BY <1>4, <1>5, <1>6 DEF CallStep

\* sweepOnce takes rows out of processing, at the cost of a retry.
LEMMA SweepInv ==
    ASSUME IndInv, TypeOK', SweepStep
    PROVE  IndInv'
  <1>0. TypeOK
    BY DEF IndInv
  <1>1. UNCHANGED <<task, restarts>> /\ (Accepted \/ Refused)
    BY DEF SweepStep, BeginSweep, RecoverRow, SweepTrigger, MarkStaleProcessingAsFailed,
           ResetStaleProcessingToNone, SweepError, SweepOnly, Accepted
  <1>2. CASE UNCHANGED row
    BY <1>1, <1>2, RowsSuffice DEF RowEffect, Stays
  <1>3. ASSUME NEW s \in sweep.todo, RecoverRow(s[1], s[2]) PROVE IndInv'
    <2>1. s[1] \in Variants /\ s[2] \in 0 .. MaxRetries - 1
      BY <1>0 DEF TypeOK, Sweep
    <2>2. PICK v \in Variants, n \in 0 .. MaxRetries - 1 : v = s[1] /\ n = s[2]
      BY <2>1
    <2>3. row[v] \in Row
      BY <1>0 DEF TypeOK
    <2>4. Recovered(row[v], n) \in Row /\ Settled(Recovered(row[v], n))
      BY <2>3, RowTypes, StatementsSettle DEF IndInv, RetriesLeft
    <2>5. UNCHANGED row \/ row' = [row EXCEPT ![v] = Recovered(row[v], n)]
      BY <1>3, <2>2 DEF RecoverRow
    <2>6. \A w \in Variants : RowEffect(w)
      BY <2>4, <2>5, OneRow DEF RowEffect, Stays
    <2> QED BY <1>1, <2>6, RowsSuffice
  <1> QED BY <1>2, <1>3 DEF SweepStep, BeginSweep, SweepTrigger,
                             MarkStaleProcessingAsFailed, ResetStaleProcessingToNone, SweepError

\* The shutdown reset gives processing rows back; a crash loses the tasks, and
\* is remembered in restarts.
LEMMA ShutdownInv ==
    ASSUME IndInv, TypeOK', ShutdownStep
    PROVE  IndInv'
  <1>0. TypeOK /\ (UNCHANGED row => \A v \in Variants : RowEffect(v))
    BY DEF IndInv, RowEffect, Stays
  <1>1. CASE ClosePool \/ DrainDeadline \/ ResetProcessingVariantStatus
    <2>1. UNCHANGED <<row, task, restarts>> /\ (Accepted \/ Refused)
      BY <1>1 DEF ClosePool, DrainDeadline, ResetProcessingVariantStatus, Still, Accepted
    <2> QED BY <1>0, <2>1, RowsSuffice
  <1>2. CASE ResetVariantsToPending
    <2>1. UNCHANGED <<task, restarts>> /\ (Accepted \/ Refused)
      BY <1>2 DEF ResetVariantsToPending
    <2>2. ASSUME NEW v \in Variants PROVE RowEffect(v)
      <3>1. row'[v] = row[v] \/ (row'[v] = ResetPending(row[v]) /\ row[v].st = "processing")
        BY <1>2 DEF ResetVariantsToPending, IsProcessing
      <3>2. row[v].st = "processing" => Settled(ResetPending(row[v]))
        BY <1>0, StatementsSettle DEF TypeOK, IndInv, RetriesLeft
      <3> QED BY <3>1, <3>2 DEF RowEffect, Stays, Settles, Settled
    <2> QED BY <2>1, <2>2, RowsSuffice
  <1>3. CASE Restart
    <2>1. \A t \in Tasks : task'[t] = FreeTask
      BY <1>3 DEF Restart
    <2>2. /\ FreeTask.pc = "free" /\ FreeTask.tracked = {} /\ FreeTask.mark = {}
      BY DEF FreeTask
    <2>3. TasksAreCoherent'
      BY <2>1, <2>2 DEF TasksAreCoherent, Running, Slotted
    <2>4. RetriesLeft'
      BY <1>3 DEF Restart, IndInv, RetriesLeft
    <2>5. ClaimsAreYoung'
      BY <2>1, <2>2 DEF ClaimsAreYoung, Owns
    <2>6. restarts' > 0
      BY <1>0, <1>3, PipelineAssumption DEF Restart, TypeOK
    <2> QED BY <2>3, <2>4, <2>5, <2>6 DEF IndInv, ProcessingIsOwned
  <1> QED BY <1>1, <1>2, <1>3 DEF ShutdownStep

\* A unit of time ages a row and the context of the task that claimed it alike,
\* and a heartbeat only makes the row younger.
LEMMA TickInv ==
    ASSUME IndInv, TypeOK', Tick
    PROVE  IndInv'
  <1>1. PICK beat \in SUBSET Beating :
            /\ Accepted \/ Refused
            /\ row' = [v \in Variants |-> Aged(v, beat)]
    BY DEF Tick
  <1>2. /\ \A t \in Tasks : task'[t] = IF task[t].pc \in Running
                                       THEN [task[t] EXCEPT !.ctx = Older(@, CtxTimeout)]
                                       ELSE task[t]
        /\ restarts' = restarts
    BY DEF Tick
  <1>3. ASSUME NEW t \in Tasks
        PROVE  /\ task'[t].pc = task[t].pc /\ task'[t].img = task[t].img
               /\ task'[t].vs = task[t].vs /\ task'[t].todo = task[t].todo
               /\ task'[t].mark = task[t].mark /\ task'[t].tracked = task[t].tracked
               /\ task[t].pc \in Running => task'[t].ctx = Older(task[t].ctx, CtxTimeout)
    <2>1. task[t] \in Task
      BY DEF IndInv, TypeOK
    <2>2. \A n : LET r == [task[t] EXCEPT !.ctx = n] IN
             /\ r.pc = task[t].pc /\ r.img = task[t].img /\ r.vs = task[t].vs
             /\ r.todo = task[t].todo /\ r.mark = task[t].mark
             /\ r.tracked = task[t].tracked /\ r.ctx = n
      BY <2>1 DEF Task
    <2>3. PICK n : n = Older(task[t].ctx, CtxTimeout)
      OBVIOUS
    <2>4. CASE task[t].pc \in Running
      <3>1. task'[t] = [task[t] EXCEPT !.ctx = n]
        BY <1>2, <2>3, <2>4
      <3> QED BY <2>2, <2>3, <3>1
    <2> QED BY <1>2, <2>4
  <1>4. ASSUME NEW v \in Variants
        PROVE  /\ row'[v].st = row[v].st /\ row'[v].gone = row[v].gone
               /\ row'[v].retry = row[v].retry
               /\ row'[v].age = 0 \/ row'[v].age = Older(row[v].age, StaleThreshold)
    <2>1. row[v] \in Row
      BY DEF IndInv, TypeOK
    <2>2. \A n : LET r == [row[v] EXCEPT !.age = n] IN
             /\ r.st = row[v].st /\ r.gone = row[v].gone
             /\ r.retry = row[v].retry /\ r.age = n
      BY <2>1 DEF Row
    <2>3. row'[v] = Aged(v, beat)
      BY <1>1
    <2> QED BY <2>2, <2>3 DEF Aged
  <1>5. TasksAreCoherent'
    BY <1>3 DEF IndInv, TasksAreCoherent
  <1>6. RetriesLeft'
    BY <1>4 DEF IndInv, RetriesLeft
  <1>7. \A t \in Tasks, v \in Variants :
            (Owns(t, v)' <=> Owns(t, v)) /\ (IsProcessing(v)' <=> IsProcessing(v))
    BY <1>3, <1>4 DEF Owns, IsProcessing
  <1>8. ClaimsAreYoung'
    <2> SUFFICES ASSUME NEW t \in Tasks, NEW v \in Variants,
                        Owns(t, v)', IsProcessing(v)', InTime(t)'
                 PROVE  row'[v].age <= task'[t].ctx
      BY DEF ClaimsAreYoung
    <2>1. Owns(t, v) /\ IsProcessing(v) /\ task[t].pc \in Running
      BY <1>7 DEF Owns
    <2>2. /\ task[t].ctx \in 0 .. CtxTimeout /\ task'[t].ctx \in 0 .. CtxTimeout
          /\ row[v].age \in 0 .. StaleThreshold /\ row'[v].age \in 0 .. StaleThreshold
      BY DEF IndInv, TypeOK, Task, Row
    <2>3. task'[t].ctx = Older(task[t].ctx, CtxTimeout) /\ task'[t].ctx < CtxTimeout
      BY <1>3, <2>1 DEF InTime
    <2>4. task[t].ctx < CtxTimeout /\ task'[t].ctx = task[t].ctx + 1
      BY <2>2, <2>3, PipelineAssumption DEF Older
    <2>5. row[v].age <= task[t].ctx
      BY <2>1, <2>4 DEF IndInv, ClaimsAreYoung, InTime
    <2>6. row'[v].age = 0 \/ row'[v].age <= row[v].age + 1
      BY <1>4, <2>2, PipelineAssumption DEF Older
    <2> QED BY <2>2, <2>4, <2>5, <2>6, PipelineAssumption
  <1>9. ProcessingIsOwned'
    <2>1. faults > 0 => faults' > 0
      BY <1>1 DEF Accepted, Refused, IndInv, TypeOK
    <2> SUFFICES ASSUME NEW v \in Variants, IsProcessing(v)',
                        ~(restarts' > 0), ~(faults' > 0)
                 PROVE  \E t \in Tasks : Owns(t, v)'
      BY DEF ProcessingIsOwned
    <2>2. ~(restarts > 0) /\ ~(faults > 0)
      BY <1>2, <2>1
    <2>3. IsProcessing(v)
      BY <1>4 DEF IsProcessing
    <2>4. PICK t \in Tasks : Owns(t, v)
      BY <2>2, <2>3 DEF IndInv, ProcessingIsOwned
    <2> QED BY <1>7, <2>4
  <1> QED BY <1>5, <1>6, <1>8, <1>9 DEF IndInv

\* Every step of every actor preserves the invariant.
LEMMA StepInv ==
    ASSUME IndInv, [Next]_vars
    PROVE  IndInv'
  <1>1. CASE UNCHANGED vars
    BY <1>1 DEF vars, IndInv, TypeOK, TasksAreCoherent, RetriesLeft, ClaimsAreYoung,
                ProcessingIsOwned, Owns, InTime, IsProcessing
  <1>2. CASE Next
    <2>1. TypeOK'
      BY <1>2, TypeStep DEF IndInv
    <2>2. ASSUME NEW c \in Callers, NEW i \in Images, Trigger(c, i) PROVE IndInv'
      BY <2>1, <2>2, RowsSuffice DEF Trigger, CallOnly, Accepted, RowEffect, Stays
    <2>3. ASSUME NEW v \in Variants, RetryWindowEnds(v) PROVE IndInv'
      <3>1. UNCHANGED <<task, restarts>> /\ Accepted
        BY <2>3 DEF RetryWindowEnds, Accepted
      <3>2. row' = [row EXCEPT ![v].hold = FALSE]
        BY <2>3 DEF RetryWindowEnds
      <3>3. \A w \in Variants : Stays(w)
        BY <3>2 DEF Stays, IndInv, TypeOK, Row
      <3> QED BY <2>1, <3>1, <3>3, RowsSuffice DEF RowEffect
    <2> QED BY <1>2, <2>1, <2>2, <2>3, TaskInv, CallInv, SweepInv, ShutdownInv, TickInv
            DEF Next
  <1> QED BY <1>1, <1>2

---------------------------------------------------------------------------
\* Theorems

\* Whatever tasks, callers, sweeps, resets, crashes and the clock do, and in
\* whatever order, the rows, the tasks that hold them and the ages stay
\* consistent: IndInv is an invariant of the pipeline.
THEOREM Invariance == Spec => []IndInv
  <1>1. Init => IndInv
    BY InitInv
  <1>2. IndInv /\ [Next]_vars => IndInv'
    BY StepInv
  <1> QED BY <1>1, <1>2, PTL DEF Spec

\* Every variable keeps its type; in particular no row is charged more retries
\* than staleMaxRetries.
THEOREM TypeCorrect == Spec => []TypeOK
  <1>1. IndInv => TypeOK
    BY DEF IndInv
  <1> QED BY <1>1, Invariance, PTL

\* A task whose context is alive has no stale row: the sweeper never recovers a
\* row from under a task in time, for any timeout below the stale threshold.
THEOREM StaleImpliesAbandoned == Spec => []StaleMeansAbandoned
  <1>1. IndInv => StaleMeansAbandoned
    <2> SUFFICES ASSUME IndInv, NEW v \in Variants, NEW t \in Tasks,
                        IsStale(v), InTime(t), Owns(t, v)
                 PROVE  FALSE
      BY DEF StaleMeansAbandoned
    <2>1. row[v].age <= task[t].ctx
      BY DEF IndInv, ClaimsAreYoung, IsStale
    <2>2. row[v].age \in 0 .. StaleThreshold /\ task[t].ctx \in 0 .. CtxTimeout
      BY DEF IndInv, TypeOK, Row, Task
    <2> QED BY <2>1, <2>2, PipelineAssumption DEF IsStale, InTime
  <1> QED BY <1>1, Invariance, PTL

\* Unless the process died or the database refused a statement, every row that
\* is processing has a task that answers for it, whichever way Execute returns.
THEOREM ProcessingHasOwner == Spec => []ProcessingIsOwned
  <1>1. IndInv => ProcessingIsOwned
    BY DEF IndInv
  <1> QED BY <1>1, Invariance, PTL
=============================================================================
