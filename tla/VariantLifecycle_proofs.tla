---------------------- MODULE VariantLifecycle_proofs -----------------------
(***************************************************************************)
(* What the invariant of VariantPipeline leads to, for any tasks, callers  *)
(* and bounds. VariantPipeline implements VariantLifecycle: whatever       *)
(* tasks, callers, sweeps and resets do to a row, its life is the one      *)
(* promised, and the status of an image never promises a variant still to  *)
(* come. And what a task takes besides rows, its entry in the registry of  *)
(* tasks in flight and its permit, it gives back.                          *)
(***************************************************************************)
EXTENDS VariantPipeline_proofs, FiniteSetTheorems

-----------------------------------------------------------------------------
(***************************************************************************)
(* Lives of rows.                                                          *)
(***************************************************************************)

Formats == {"webp", "avif"}

\* What the locals of a task say at each point of Execute: what it has made so
\* far, that an image over max_dimension has no WebP and no AVIF, and that WebP,
\* once visited, was made, skipped or failed.
MadeInOrder(r) ==
    /\ r.pc \in {"queued", "acquire", "slot", "file", "thumb"} => r.res = {} /\ ~r.big
    /\ r.pc = "load" => r.res \subseteq {"thumb"} /\ ~r.big
    /\ r.pc = "full" => r.todo \subseteq r.vs \ {"thumb"}
    /\ r.pc = "full" /\ "webp" \in r.todo => r.res \cap Formats = {}
FailuresCount(r) ==
    /\ r.pc = "giveup" => r.bad
    /\ r.pc \in {"full", "save"} /\ r.big => r.res \cap Formats = {}
    /\ /\ r.pc \in {"full", "save"} /\ "webp" \in r.vs
       /\ r.pc = "full" => "webp" \notin r.todo
       => "webp" \in r.res \/ r.big \/ r.bad
TasksFollow == \A t \in Tasks : MadeInOrder(task[t]) /\ FailuresCount(task[t])

\* Every row a task, a call or the sweep has in hand was inserted, and a row
\* that can still be processed has the retries the sweep has read.
TasksKnowRows == \A t \in Tasks : \A k \in task[t].vs : Life[At(t, k)] # "absent"
CallsKnowRows ==
    \A c \in Triggers :
        /\ \A k \in call[c].ready : Life[<<call[c].img, k>>] # "absent"
        /\ call[c].pc = "abort" =>
              \A k \in call[c].todo : Life[<<call[c].img, k>>] # "absent"
Open == {"absent", "pending", "processing"}
SweepKnowsRetries ==
    \A s \in sweep.todo : Life[s[1]] \in Open => Tries[s[1]] = s[2]
RowsAreKnown == TasksFollow /\ TasksKnowRows /\ CallsKnowRows /\ SweepKnowsRetries

---------------------------------------------------------------------------
\* The refinement mapping

LifeOf(r) == IF r.gone THEN "deleted" ELSE r.st

LEMMA Mapped ==
    ASSUME NEW v \in Variants
    PROVE  Life[v] = LifeOf(row[v]) /\ Tries[v] = row[v].retry
  BY DEF Life, Tries, LifeOf

\* The statements on one row.
LEMMA OneLife ==
    ASSUME TypeOK, NEW v \in Variants, NEW r, row' = [row EXCEPT ![v] = r]
    PROVE  /\ Life' = [Life EXCEPT ![v] = LifeOf(r)]
           /\ Tries' = [Tries EXCEPT ![v] = r.retry]
  <1>1. row \in [Variants -> Row]
    BY DEF TypeOK
  <1> QED BY <1>1 DEF Life, Tries, LifeOf

\* Steps that leave status, deletion and retry count of every row alone.
LEMMA SameLives ==
    ASSUME \A v \in Variants : /\ row'[v].st = row[v].st /\ row'[v].gone = row[v].gone
                               /\ row'[v].retry = row[v].retry
    PROVE  UNCHANGED <<Life, Tries>>
  BY DEF Life, Tries

\* What each statement makes of a row.
LEMMA LivesOfStatements ==
    ASSUME NEW r \in Row
    PROVE  /\ ~r.gone => /\ LifeOf(Claimed(r)) = "processing"
                         /\ LifeOf(Completed(r)) = "completed"
                         /\ LifeOf(Failed(r)) = "failed"
                         /\ LifeOf(RolledBack(r, "pending")) = "pending"
                         /\ LifeOf(RolledBack(r, "failed")) = "failed"
                         /\ LifeOf(ResetPending(r)) = "pending"
                         /\ LifeOf(Upserted(r)) = IF r.st = "absent" THEN "pending" ELSE r.st
           /\ r.gone => LifeOf(Upserted(r)) = "deleted"
           /\ LifeOf(Deleted(r)) = "deleted"
           /\ LifeOf(r) \in {"absent", "pending", "processing", "completed", "failed", "deleted"}
           /\ LifeOf(r) = "deleted" <=> r.gone
           /\ Completed(r).retry = 0
           /\ Claimed(r).retry = r.retry /\ Failed(r).retry = r.retry
           /\ RolledBack(r, "pending").retry = r.retry /\ RolledBack(r, "failed").retry = r.retry
           /\ ResetPending(r).retry = r.retry /\ Upserted(r).retry = r.retry
           /\ Deleted(r).retry = r.retry
  <1>2. r.gone \in BOOLEAN /\ r.st \in RowStatus
    BY DEF Row
  <1>3. Deleted(r).gone = TRUE /\ Deleted(r).retry = r.retry
    BY DEF Row, Deleted
  <1>4. \A s : /\ InState(r, s).st = s /\ InState(r, s).gone = r.gone /\ InState(r, s).retry = r.retry
               /\ [InState(r, s) EXCEPT !.hold = FALSE].st = s
               /\ [InState(r, s) EXCEPT !.hold = FALSE].gone = r.gone
               /\ [InState(r, s) EXCEPT !.hold = FALSE].retry = r.retry
               /\ [InState(r, s) EXCEPT !.retry = 0, !.hold = FALSE].st = s
               /\ [InState(r, s) EXCEPT !.retry = 0, !.hold = FALSE].gone = r.gone
               /\ [InState(r, s) EXCEPT !.retry = 0, !.hold = FALSE].retry = 0
    BY DEF InState, Row
  <1>5. LifeOf(Upserted(r)) = IF r.gone THEN "deleted" ELSE IF r.st = "absent" THEN "pending" ELSE r.st
    BY <1>4 DEF Upserted, LifeOf
  <1>6. Upserted(r).retry = r.retry
    BY <1>4 DEF Upserted
  <1>7. LifeOf(r) \in {"absent", "pending", "processing", "completed", "failed", "deleted"}
        /\ (LifeOf(r) = "deleted" <=> r.gone) /\ LifeOf(Deleted(r)) = "deleted"
    BY <1>2, <1>3 DEF LifeOf, RowStatus
  <1>8. ~r.gone => /\ LifeOf(Claimed(r)) = "processing"
                   /\ LifeOf(Completed(r)) = "completed"
                   /\ LifeOf(Failed(r)) = "failed"
                   /\ LifeOf(RolledBack(r, "pending")) = "pending"
                   /\ LifeOf(RolledBack(r, "failed")) = "failed"
                   /\ LifeOf(ResetPending(r)) = "pending"
    BY <1>4 DEF LifeOf, Claimed, Completed, Failed, RolledBack, ResetPending
  <1>9. /\ Completed(r).retry = 0
        /\ Claimed(r).retry = r.retry /\ Failed(r).retry = r.retry
        /\ RolledBack(r, "pending").retry = r.retry /\ RolledBack(r, "failed").retry = r.retry
        /\ ResetPending(r).retry = r.retry
    BY <1>4 DEF Claimed, Completed, Failed, RolledBack, ResetPending
  <1> QED BY <1>3, <1>5, <1>6, <1>7, <1>8, <1>9

---------------------------------------------------------------------------
\* Each statement takes a step of VariantLifecycle

\* Every step but the sweep's recovery of a row.
Gently ==
    \/ UNCHANGED <<Life, Tries>>
    \/ \E v \in Variants : \/ Lifecycle!Create(v) \/ Lifecycle!Claim(v) \/ Lifecycle!Complete(v)
                           \/ Lifecycle!Fail(v) \/ Lifecycle!Delete(v)
    \/ \E S \in SUBSET Variants : Lifecycle!GiveBack(S)

LEMMA StatementSteps ==
    ASSUME TypeOK, NEW v \in Variants
    PROVE  /\ IsPending(v) /\ row' = [row EXCEPT ![v] = Claimed(@)] => Gently
           /\ IsProcessing(v) /\ row' = [row EXCEPT ![v] = Completed(@)] => Gently
           /\ IsProcessing(v) /\ row' = [row EXCEPT ![v] = Failed(@)] => Gently
           /\ IsProcessing(v) /\ row' = [row EXCEPT ![v] = RolledBack(@, "failed")] => Gently
           /\ IsProcessing(v) /\ row' = [row EXCEPT ![v] = RolledBack(@, "pending")] => Gently
           /\ Life[v] # "absent" /\ row' = [row EXCEPT ![v] = Deleted(@)] => Gently
           /\ Life[v] # "absent" /\ row' = [row EXCEPT ![v] = ForceFailed(@)] => Gently
           /\ row' = [row EXCEPT ![v] = Upserted(@)] => Gently
  <1> DEFINE r == row[v]
  <1>1. r \in Row /\ Life[v] = LifeOf(r) /\ Tries[v] = r.retry
    BY Mapped DEF TypeOK
  <1>2. /\ IsPending(v) => Life[v] = "pending" /\ ~r.gone
        /\ IsProcessing(v) => Life[v] = "processing" /\ ~r.gone
    BY <1>1 DEF IsPending, IsProcessing, LifeOf
  <1>3. /\ Life \in [Variants -> {"absent", "pending", "processing", "completed", "failed", "deleted"}]
        /\ Tries \in [Variants -> 0 .. MaxRetries]
    <2>1. \A w \in Variants :
             Life[w] \in {"absent", "pending", "processing", "completed", "failed", "deleted"}
      BY LivesOfStatements, Mapped DEF TypeOK
    <2>2. \A w \in Variants : Tries[w] \in 0 .. MaxRetries
      BY Mapped DEF TypeOK, Row
    <2> QED BY <2>1, <2>2 DEF Life, Tries
  <1>4. ASSUME NEW q, row' = [row EXCEPT ![v] = q]
        PROVE  /\ Life' = [Life EXCEPT ![v] = LifeOf(q)]
               /\ Tries' = [Tries EXCEPT ![v] = q.retry]
               /\ q.retry = r.retry => Tries' = Tries
               /\ LifeOf(q) = Life[v] => Life' = Life
    <2>1. /\ Life' = [Life EXCEPT ![v] = LifeOf(q)]
          /\ Tries' = [Tries EXCEPT ![v] = q.retry]
      BY <1>4, OneLife
    <2>2. q.retry = r.retry => Tries' = Tries
      BY <1>1, <1>3, <2>1
    <2>3. LifeOf(q) = Life[v] => Life' = Life
      BY <1>3, <2>1
    <2> QED BY <2>1, <2>2, <2>3
  <1> HIDE DEF r
  <1>5. ~r.gone => /\ LifeOf(Claimed(r)) = "processing"
                   /\ LifeOf(Completed(r)) = "completed"
                   /\ LifeOf(Failed(r)) = "failed"
                   /\ LifeOf(RolledBack(r, "pending")) = "pending"
                   /\ LifeOf(RolledBack(r, "failed")) = "failed"
    BY <1>1, LivesOfStatements
  <1>6. /\ Completed(r).retry = 0
        /\ Claimed(r).retry = r.retry /\ Failed(r).retry = r.retry
        /\ RolledBack(r, "pending").retry = r.retry /\ RolledBack(r, "failed").retry = r.retry
        /\ Upserted(r).retry = r.retry
        /\ Deleted(r).retry = r.retry /\ LifeOf(Deleted(r)) = "deleted"
        /\ LifeOf(r) = "deleted" <=> r.gone
    BY <1>1, LivesOfStatements
  <1>6a. LifeOf(Upserted(r)) = IF Life[v] = "absent" THEN "pending" ELSE Life[v]
    <2>1. /\ ~r.gone => LifeOf(Upserted(r)) = IF r.st = "absent" THEN "pending" ELSE r.st
          /\ r.gone => LifeOf(Upserted(r)) = "deleted"
      BY <1>1, LivesOfStatements
    <2> QED BY <1>1, <2>1 DEF LifeOf
  <1>7. ASSUME IsPending(v), row' = [row EXCEPT ![v] = Claimed(r)] PROVE Gently
    <2>1. Life' = [Life EXCEPT ![v] = "processing"] /\ Tries' = Tries
      BY <1>2, <1>4, <1>5, <1>6, <1>7
    <2> QED BY <1>2, <1>7, <2>1 DEF Gently, Lifecycle!Claim
  <1>8. ASSUME IsProcessing(v), row' = [row EXCEPT ![v] = Completed(r)] PROVE Gently
    <2>1. Life' = [Life EXCEPT ![v] = "completed"] /\ Tries' = [Tries EXCEPT ![v] = 0]
      BY <1>2, <1>4, <1>5, <1>6, <1>8
    <2> QED BY <1>2, <1>8, <2>1 DEF Gently, Lifecycle!Complete
  <1>9. ASSUME Life[v] \in {"pending", "processing", "completed", "failed"}, ~r.gone, 
               \/ row' = [row EXCEPT ![v] = Failed(r)]
               \/ row' = [row EXCEPT ![v] = RolledBack(r, "failed")]
        PROVE  Gently
    <2>1. Life' = [Life EXCEPT ![v] = "failed"] /\ Tries' = Tries
      BY <1>4, <1>5, <1>6, <1>9
    <2> QED BY <1>9, <2>1 DEF Gently, Lifecycle!Fail, Lifecycle!Live
  <1>10. ASSUME IsProcessing(v), row' = [row EXCEPT ![v] = RolledBack(r, "pending")] PROVE Gently
    <2>1. Life' = [Life EXCEPT ![v] = "pending"] /\ Tries' = Tries
      BY <1>2, <1>4, <1>5, <1>6, <1>10
    <2>2. Life' = [w \in Variants |-> IF w \in {v} THEN "pending" ELSE Life[w]]
      BY <1>3, <2>1
    <2>3. Lifecycle!GiveBack({v})
      BY <1>2, <1>10, <2>1, <2>2 DEF Lifecycle!GiveBack
    <2> QED BY <2>3 DEF Gently
  <1>11. ASSUME Life[v] # "absent", row' = [row EXCEPT ![v] = Deleted(r)] PROVE Gently
    <2>1. Life' = [Life EXCEPT ![v] = "deleted"] /\ Tries' = Tries
      BY <1>4, <1>6, <1>11
    <2>2. CASE Life[v] = "deleted"
      BY <1>3, <2>1, <2>2 DEF Gently
    <2>3. CASE Life[v] # "deleted"
      BY <1>3, <1>11, <2>1, <2>3 DEF Gently, Lifecycle!Delete, Lifecycle!Live
    <2> QED BY <2>2, <2>3
  <1>12. ASSUME Life[v] # "absent", row' = [row EXCEPT ![v] = ForceFailed(r)] PROVE Gently
    <2>1. CASE r.gone
      <3>1. ForceFailed(r) = r
        BY <2>1 DEF ForceFailed
      <3>2. Life' = Life /\ Tries' = Tries
        BY <1>1, <1>4, <1>12, <3>1
      <3> QED BY <3>2 DEF Gently
    <2>2. CASE ~r.gone
      <3>1. ForceFailed(r) = Failed(r) /\ Life[v] # "deleted"
        BY <1>1, <1>6, <2>2 DEF ForceFailed
      <3>2. Life[v] \in {"pending", "processing", "completed", "failed"}
        BY <1>3, <1>12, <3>1
      <3> QED BY <1>9, <1>12, <2>2, <3>1, <3>2
    <2> QED BY <2>1, <2>2
  <1>13. ASSUME row' = [row EXCEPT ![v] = Upserted(r)] PROVE Gently
    <2>1. /\ Tries' = Tries /\ Life' = [Life EXCEPT ![v] = LifeOf(Upserted(r))]
          /\ Life[v] # "absent" => Life' = Life
      BY <1>4, <1>6, <1>6a, <1>13
    <2>2. CASE Life[v] = "absent"
      BY <1>6a, <2>1, <2>2 DEF Gently, Lifecycle!Create
    <2>3. CASE Life[v] # "absent"
      BY <2>1, <2>3 DEF Gently
    <2> QED BY <2>2, <2>3
  <1>14. IsProcessing(v) => Life[v] \in {"pending", "processing", "completed", "failed"} /\ ~r.gone
    BY <1>2
  <1> QED BY <1>7, <1>8, <1>9, <1>10, <1>11, <1>12, <1>13, <1>14 DEF r

\* RecoverRow charges the retry count it has read, which is the row's own.
LEMMA RecoverSteps ==
    ASSUME TypeOK, NEW v \in Variants, IsProcessing(v),
           row' = [row EXCEPT ![v] = Recovered(@, row[v].retry)]
    PROVE  Lifecycle!Recover(v)
  <1> DEFINE r == row[v]
  <1>1. r \in Row /\ Life[v] = "processing" /\ Tries[v] = r.retry /\ ~r.gone
    BY Mapped DEF TypeOK, IsProcessing, LifeOf
  <1>2. /\ Life' = [Life EXCEPT ![v] = LifeOf(Recovered(r, r.retry))]
        /\ Tries' = [Tries EXCEPT ![v] = Recovered(r, r.retry).retry]
    BY OneLife
  <1> HIDE DEF r
  <1>3. \A s, a, h, n : /\ [r EXCEPT !.st = s, !.age = a, !.retry = n, !.hold = h].st = s
                        /\ [r EXCEPT !.st = s, !.age = a, !.retry = n, !.hold = h].gone = r.gone
                        /\ [r EXCEPT !.st = s, !.age = a, !.retry = n, !.hold = h].retry = n
                        /\ [r EXCEPT !.st = s, !.age = a, !.hold = h, !.retry = n].st = s
                        /\ [r EXCEPT !.st = s, !.age = a, !.hold = h, !.retry = n].gone = r.gone
                        /\ [r EXCEPT !.st = s, !.age = a, !.hold = h, !.retry = n].retry = n
    BY <1>1 DEF Row
  <1>4. /\ Recovered(r, r.retry).gone = r.gone /\ Recovered(r, r.retry).retry = r.retry + 1
        /\ Recovered(r, r.retry).st = IF r.retry + 1 >= MaxRetries THEN "failed" ELSE "pending"
    BY <1>1, <1>3 DEF Recovered, Failed, InState
  <1> QED BY <1>1, <1>2, <1>4 DEF Lifecycle!Recover, LifeOf
---------------------------------------------------------------------------
\* Every action takes such a step

LEMMA SameRows == UNCHANGED row => Gently
  BY DEF Gently, Life, Tries

LEMMA TaskGently ==
    ASSUME IndInv, TasksFollow, TasksKnowRows, NEW t \in Tasks, TaskStep(t)
    PROVE  Gently
  <1>1. /\ TypeOK /\ task[t] \in Task /\ task[t].todo \in SUBSET Kinds
        /\ task[t].mark \in SUBSET Kinds /\ task[t].vs \in SUBSET Kinds
        /\ \A k \in Kinds : At(t, k) \in Variants
        /\ task[t].pc = "thumb" => "thumb" \in task[t].vs
    BY TaskContext DEF IndInv, TasksAreCoherent
  <1>2. ASSUME UNCHANGED row PROVE Gently
    BY <1>2, SameRows
  <1>3. ASSUME NEW k \in task[t].vs, NEW new, SkipVariant(t, k, new) PROVE Gently
    <2>1. At(t, k) \in Variants /\ Life[At(t, k)] # "absent"
      BY <1>1 DEF TasksKnowRows
    <2> QED BY <1>1, <1>2, <1>3, <2>1, StatementSteps DEF SkipVariant
  <1>4. CASE Acquire(t)
    <2> DEFINE v == At(t, First(task[t].todo))
    <2>1. v \in Variants
      BY <1>1, <1>4, FirstIn DEF Acquire
    <2>2. IsPending(v) /\ row' = [row EXCEPT ![v] = Claimed(@)]
      BY <1>4 DEF Acquire
    <2> HIDE DEF v
    <2> QED BY <1>1, <2>1, <2>2, StatementSteps
  <1>5. CASE TakeSlot(t)
    <2>1. CASE UNCHANGED row
      BY <1>2, <2>1
    <2>2. CASE row' = [v \in Variants |->
                       IF Touches({t}, v) THEN [row[v] EXCEPT !.age = 0] ELSE row[v]]
      <3>1. ASSUME NEW v \in Variants
            PROVE  /\ row'[v].st = row[v].st /\ row'[v].gone = row[v].gone
                   /\ row'[v].retry = row[v].retry
        <4>1. row[v] \in Row
          BY <1>1 DEF TypeOK
        <4>2. /\ [row[v] EXCEPT !.age = 0].st = row[v].st
              /\ [row[v] EXCEPT !.age = 0].gone = row[v].gone
              /\ [row[v] EXCEPT !.age = 0].retry = row[v].retry
          BY <4>1 DEF Row
        <4> QED BY <2>2, <4>2
      <3> QED BY <3>1, SameLives DEF Gently
    <2> QED BY <1>5, <2>1, <2>2 DEF TakeSlot
  <1>6. CASE MarkFailed(t)
    <2> DEFINE v == At(t, First(task[t].mark))
    <2>1. v \in Variants
      BY <1>1, <1>6, FirstIn DEF MarkFailed
    <2>2. \/ IsProcessing(v) /\ row' = [row EXCEPT ![v] = Failed(@)]
          \/ UNCHANGED row
      BY <1>6 DEF MarkFailed
    <2> HIDE DEF v
    <2> QED BY <1>1, <1>2, <2>1, <2>2, StatementSteps
  <1>7. CASE Thumbnail(t)
    <2> DEFINE new == [task[t] EXCEPT !.pc = IF task[t].vs = {"thumb"} THEN "save" ELSE "load"]
    <2>1. SkipVariant(t, "thumb", new) \/ UNCHANGED row
      BY <1>7 DEF Thumbnail
    <2>2. "thumb" \in task[t].vs
      BY <1>1, <1>7 DEF Thumbnail
    <2> HIDE DEF new
    <2> QED BY <1>2, <1>3, <2>1, <2>2
  <1>8. CASE FullVariant(t)
    <2> DEFINE k == First(task[t].todo)
               new == [Visited(t, k, task[t].res) EXCEPT !.big = @ \/ k = "webp"]
    <2>1. k \in task[t].vs
      BY <1>1, <1>8, FirstIn DEF FullVariant, TasksFollow, MadeInOrder
    <2>2. SkipVariant(t, k, new) \/ UNCHANGED row
      BY <1>8 DEF FullVariant
    <2> HIDE DEF new, k
    <2> QED BY <1>2, <1>3, <2>1, <2>2
  <1>9. CASE Save(t)
    <2> DEFINE v == At(t, First(task[t].todo))
    <2>1. v \in Variants
      BY <1>1, <1>9, FirstIn DEF Save
    <2>2. \/ IsProcessing(v) /\ row' = [row EXCEPT ![v] = Completed(@)]
          \/ UNCHANGED row
      BY <1>9 DEF Save
    <2> HIDE DEF v
    <2> QED BY <1>1, <1>2, <2>1, <2>2, StatementSteps
  <1>10. CASE Finalize(t)
    <2> DEFINE v == At(t, First(task[t].todo))
    <2>1. v \in Variants
      BY <1>1, <1>10, FirstIn DEF Finalize
    <2>2. \/ IsProcessing(v) /\ row' = [row EXCEPT ![v] = RolledBack(@, "failed")]
          \/ IsProcessing(v) /\ row' = [row EXCEPT ![v] = RolledBack(@, "pending")]
          \/ UNCHANGED row
      BY <1>10 DEF Finalize
    <2> HIDE DEF v
    <2> QED BY <1>1, <1>2, <2>1, <2>2, StatementSteps
  <1>11. ASSUME \/ Start(t) \/ AcquireFails(t) \/ Register(t) \/ SlotTimeout(t) \/ GetFile(t)
                \/ LoadImage(t) \/ SetStatus(t) \/ Panic(t) \/ Finish(t)
         PROVE  Gently
    BY <1>2, <1>11 DEF Start, AcquireFails, Register, SlotTimeout, GetFile, LoadImage, SetStatus,
       Panic, Finish
  <1> QED BY <1>4, <1>5, <1>6, <1>7, <1>8, <1>9, <1>10, <1>11 DEF TaskStep

LEMMA CallGently ==
    ASSUME TypeOK, CallsKnowRows, NEW c \in Triggers, CallStep(c)
    PROVE  Gently
  <1> DEFINE k == First(call[c].todo)
             v == <<call[c].img, k>>
  <1>1. /\ call[c].img \in Images /\ call[c].todo \in SUBSET Kinds
        /\ call[c].todo # {} => k \in call[c].todo /\ v \in Variants
    <2>1. call[c].img \in Images /\ call[c].todo \in SUBSET Kinds
      BY DEF TypeOK, Call
    <2> QED BY <2>1, FirstIn DEF Variants
  <1>2. ASSUME UNCHANGED row PROVE Gently
    BY <1>2, SameRows
  <1>3. ASSUME v \in Variants, row' = [row EXCEPT ![v] = Upserted(@)] PROVE Gently
    BY <1>3, StatementSteps
  <1>4. CASE Prepare(c)
    <2>1. row' = [row EXCEPT ![v] = Upserted(row[v])] /\ v \in Variants
      BY <1>1, <1>4 DEF Prepare
    <2> QED BY <1>3, <2>1
  <1>5. CASE PrepareFails(c)
    <2>1. row' \in {row, [row EXCEPT ![v] = Upserted(@)]} /\ v \in Variants
      BY <1>1, <1>5 DEF PrepareFails
    <2> QED BY <1>2, <1>3, <2>1
  <1>6. CASE AbortRow(c)
    <2>1. v \in Variants /\ Life[v] # "absent"
      BY <1>1, <1>6 DEF AbortRow, CallsKnowRows
    <2>2. row' = [row EXCEPT ![v] = ForceFailed(@)] \/ UNCHANGED row
      BY <1>6 DEF AbortRow
    <2> QED BY <1>2, <2>1, <2>2, StatementSteps
  <1>7. ASSUME Reject(c) \/ MarkProcessing(c) \/ AbortImage(c) \/ \E t \in Tasks : Submit(c, t)
        PROVE  Gently
    BY <1>2, <1>7 DEF Reject, MarkProcessing, AbortImage, Submit
  <1> QED BY <1>4, <1>5, <1>6, <1>7 DEF CallStep

\* A sweep recovers rows one by one; its other steps leave every row alone.
LEMMA SweepSteps ==
    ASSUME TypeOK, SweepKnowsRetries, SweepStep
    PROVE  \/ Gently
           \/ \E s \in sweep.todo : Lifecycle!Recover(s[1]) /\ RecoverRow(s[1], s[2])
  <1>1. ASSUME NEW s \in sweep.todo, RecoverRow(s[1], s[2])
        PROVE  Gently \/ Lifecycle!Recover(s[1])
    <2>1. s[1] \in Variants
      BY DEF TypeOK, Sweep
    <2>2. CASE IsProcessing(s[1])
      <3>1. Life[s[1]] = "processing" /\ Tries[s[1]] = row[s[1]].retry
        BY <2>1, <2>2, Mapped DEF IsProcessing, LifeOf
      <3>2. s[2] = row[s[1]].retry
        BY <3>1 DEF SweepKnowsRetries, Open
      <3>3. row' = [row EXCEPT ![s[1]] = Recovered(@, row[s[1]].retry)]
        BY <1>1, <2>2, <3>2 DEF RecoverRow
      <3> QED BY <2>1, <2>2, <3>3, RecoverSteps
    <2>3. CASE ~IsProcessing(s[1])
      BY <1>1, <2>3, SameRows DEF RecoverRow
    <2> QED BY <2>2, <2>3
  <1>2. ASSUME \/ BeginSweep \/ (\E i \in Images : SweepTrigger(i)) \/ MarkStaleProcessingAsFailed
               \/ ResetStaleProcessingToNone \/ SweepError
        PROVE  Gently
    BY <1>2, SameRows DEF BeginSweep, SweepTrigger, MarkStaleProcessingAsFailed,
       ResetStaleProcessingToNone, SweepError
  <1> QED BY <1>1, <1>2 DEF SweepStep

\* The shutdown reset gives back, in one statement, all the rows it finds.
LEMMA ResetGently ==
    ASSUME TypeOK, ResetVariantsToPending
    PROVE  Gently
  <1> DEFINE S == {v \in Variants : v \in shutdown.rows /\ IsProcessing(v)}
  <1>1. CASE row' = [v \in Variants |-> IF v \in shutdown.rows /\ IsProcessing(v)
                                        THEN ResetPending(row[v]) ELSE row[v]]
    <2>1. \A v \in S : Life[v] = "processing" /\ ~row[v].gone /\ row[v] \in Row
      BY Mapped DEF IsProcessing, LifeOf, TypeOK
    <2>2. \A v \in S : /\ LifeOf(ResetPending(row[v])) = "pending"
                       /\ ResetPending(row[v]).retry = row[v].retry
      BY <2>1, LivesOfStatements
    <2>3. \A v \in Variants : Life'[v] = LifeOf(row'[v]) /\ Tries'[v] = row'[v].retry
      BY DEF Life, Tries, LifeOf
    <2>4. \A v \in Variants : /\ Life'[v] = IF v \in S THEN "pending" ELSE Life[v]
                              /\ Tries'[v] = Tries[v]
      BY <1>1, <2>2, <2>3, Mapped
    <2>5. Life' = [v \in Variants |-> IF v \in S THEN "pending" ELSE Life[v]] /\ Tries' = Tries
      BY <2>4 DEF Life, Tries
    <2>6. Lifecycle!GiveBack(S)
      BY <2>1, <2>5 DEF Lifecycle!GiveBack
    <2> QED BY <2>6 DEF Gently
  <1>2. CASE UNCHANGED row
    BY <1>2, SameRows
  <1> QED BY <1>1, <1>2 DEF ResetVariantsToPending

\* Retry windows and the clock change nothing that VariantLifecycle sees.
LEMMA TimeGently ==
    ASSUME TypeOK, Tick \/ \E v \in Variants : RetryWindowEnds(v)
    PROVE  UNCHANGED <<Life, Tries>>
  <1>1. \A r \in Row : \A a, h : /\ [r EXCEPT !.age = a].st = r.st /\ [r EXCEPT !.hold = h].st = r.st
                                 /\ [r EXCEPT !.age = a].gone = r.gone
                                 /\ [r EXCEPT !.hold = h].gone = r.gone
                                 /\ [r EXCEPT !.age = a].retry = r.retry
                                 /\ [r EXCEPT !.hold = h].retry = r.retry
    BY DEF Row
  <1>2. \A v \in Variants : row[v] \in Row
    BY DEF TypeOK
  <1>3. CASE Tick
    <2>1. PICK beat : row' = [v \in Variants |-> Aged(v, beat)]
      BY <1>3 DEF Tick
    <2>2. \A v \in Variants : /\ Aged(v, beat).st = row[v].st /\ Aged(v, beat).gone = row[v].gone
                              /\ Aged(v, beat).retry = row[v].retry
      BY <1>1, <1>2 DEF Aged
    <2> QED BY <2>1, <2>2, SameLives
  <1>4. ASSUME NEW v \in Variants, RetryWindowEnds(v) PROVE UNCHANGED <<Life, Tries>>
    <2>1. row' = [row EXCEPT ![v] = [row[v] EXCEPT !.hold = FALSE]] /\ row \in [Variants -> Row]
      BY <1>4 DEF RetryWindowEnds, TypeOK
    <2>2. \A w \in Variants : /\ row'[w].st = row[w].st /\ row'[w].gone = row[w].gone
                              /\ row'[w].retry = row[w].retry
      BY <1>1, <1>2, <2>1
    <2> QED BY <2>2, SameLives
  <1> QED BY <1>3, <1>4

LEMMA OthersGently ==
    ASSUME TypeOK, ShutdownStep \/ Tick \/ (\E v \in Variants : RetryWindowEnds(v))
                      \/ UNCHANGED vars \/ \E c \in Callers, i \in Images : Trigger(c, i)
    PROVE  Gently
  <1>1. ASSUME UNCHANGED row PROVE Gently
    BY <1>1, SameRows
  <1>2. CASE ShutdownStep
    BY <1>1, <1>2, ResetGently DEF ShutdownStep, ClosePool, DrainDeadline, Still,
       ResetProcessingVariantStatus, Restart
  <1>3. CASE UNCHANGED vars
    BY <1>1, <1>3 DEF vars
  <1>4. ASSUME NEW c \in Callers, NEW i \in Images, Trigger(c, i) PROVE Gently
    BY <1>1, <1>4 DEF Trigger
  <1>5. CASE Tick \/ \E v \in Variants : RetryWindowEnds(v)
    BY <1>5, TimeGently DEF Gently
  <1> QED BY <1>2, <1>3, <1>4, <1>5

---------------------------------------------------------------------------
\* What a step of the table leaves true

\* A row that was inserted stays; one whose work is over stays over.
Ended == {"completed", "failed", "deleted"}

LEMMA LivesGoOn ==
    ASSUME Gently \/ \E v \in Variants : Lifecycle!Recover(v)
    PROVE  /\ [Lifecycle!Next]_(Lifecycle!vars)
           /\ \A w \in Variants : Life[w] # "absent" => Life'[w] # "absent"
           /\ \A w \in Variants : Life[w] \in Ended => Life'[w] \in Ended
  <1>1. [Lifecycle!Next]_(Lifecycle!vars)
    BY DEF Gently, Lifecycle!Next, Lifecycle!vars
  <1>2. /\ Life = [v \in Variants |-> Life[v]]
        /\ Tries = [v \in Variants |-> Tries[v]]
    BY DEF Life, Tries
  <1> SUFFICES ASSUME NEW w \in Variants
               PROVE  /\ Life[w] # "absent" => Life'[w] # "absent"
                      /\ Life[w] \in Ended => Life'[w] \in Ended
    BY <1>1
  <1>3. CASE UNCHANGED <<Life, Tries>>
    BY <1>3
  <1>4. ASSUME NEW v \in Variants,
               \/ Lifecycle!Create(v) \/ Lifecycle!Claim(v) \/ Lifecycle!Complete(v)
               \/ Lifecycle!Fail(v) \/ Lifecycle!Delete(v) \/ Lifecycle!Recover(v)
        PROVE  (Life[w] # "absent" => Life'[w] # "absent") /\ (Life[w] \in Ended => Life'[w] \in Ended)
    BY <1>2, <1>4 DEF Ended, Lifecycle!Create, Lifecycle!Claim, Lifecycle!Complete, Lifecycle!Fail,
       Lifecycle!Delete, Lifecycle!Recover, Lifecycle!Live
  <1>5. ASSUME NEW S \in SUBSET Variants, Lifecycle!GiveBack(S)
        PROVE  (Life[w] # "absent" => Life'[w] # "absent") /\ (Life[w] \in Ended => Life'[w] \in Ended)
    BY <1>2, <1>5 DEF Ended, Lifecycle!GiveBack
  <1> QED BY <1>3, <1>4, <1>5 DEF Gently

\* Only a recovery charges a retry to a row that can still be processed.
LEMMA RetriesStay ==
    ASSUME Gently, NEW w \in Variants
    PROVE  Life'[w] \in Open => Life[w] \in Open /\ Tries'[w] = Tries[w]
  <1>1. /\ Life = [v \in Variants |-> Life[v]]
        /\ Tries = [v \in Variants |-> Tries[v]]
    BY DEF Life, Tries
  <1>2. CASE UNCHANGED <<Life, Tries>>
    BY <1>2
  <1>3. ASSUME NEW v \in Variants,
               \/ Lifecycle!Create(v) \/ Lifecycle!Claim(v) \/ Lifecycle!Complete(v)
               \/ Lifecycle!Fail(v) \/ Lifecycle!Delete(v)
        PROVE  Life'[w] \in Open => Life[w] \in Open /\ Tries'[w] = Tries[w]
    BY <1>1, <1>3 DEF Open, Lifecycle!Create, Lifecycle!Claim, Lifecycle!Complete, Lifecycle!Fail,
       Lifecycle!Delete, Lifecycle!Live
  <1>4. ASSUME NEW S \in SUBSET Variants, Lifecycle!GiveBack(S)
        PROVE  Life'[w] \in Open => Life[w] \in Open /\ Tries'[w] = Tries[w]
    BY <1>1, <1>4 DEF Open, Lifecycle!GiveBack
  <1> QED BY <1>2, <1>3, <1>4 DEF Gently

\* The same of every step of the pipeline.
LEMMA LifeStep ==
    ASSUME IndInv, RowsAreKnown, [Next]_vars
    PROVE  \/ Gently
           \/ \E s \in sweep.todo : Lifecycle!Recover(s[1]) /\ RecoverRow(s[1], s[2])
  <1>1. ASSUME NEW c \in Triggers, CallStep(c) PROVE Gently
    BY <1>1, CallGently DEF IndInv, RowsAreKnown
  <1> QED BY <1>1, TaskGently, SweepSteps, OthersGently DEF IndInv, RowsAreKnown, Next

LEMMA LivesStay ==
    ASSUME IndInv, RowsAreKnown, [Next]_vars
    PROVE  /\ [Lifecycle!Next]_(Lifecycle!vars)
           /\ \A w \in Variants : Life[w] # "absent" => Life'[w] # "absent"
           /\ \A w \in Variants : Life[w] \in Ended => Life'[w] \in Ended
  <1>1. sweep.todo \subseteq Variants \X (0 .. MaxRetries - 1)
    BY DEF IndInv, TypeOK, Sweep
  <1>2. Gently \/ \E v \in Variants : Lifecycle!Recover(v)
    BY <1>1, LifeStep
  <1> QED BY <1>2, LivesGoOn

---------------------------------------------------------------------------
\* What a task's own step makes of its locals

\* A variant that the step has saved is over, or does not count.
Saves(t) ==
    \/ task'[t].bad \/ task'[t].res \subseteq task'[t].todo
    \/ /\ task[t].pc = "save" /\ task[t].bad = task'[t].bad /\ task[t].res = task'[t].res
       /\ \A k \in task[t].todo \ task'[t].todo :
             Life'[At(t, k)] \in Ended \/ (k = "avif" /\ "webp" \in task[t].vs)

Follows(t) ==
    /\ \A u \in Tasks \ {t} : task'[u] = task[u]
    /\ MadeInOrder(task'[t]) /\ FailuresCount(task'[t])
    /\ \/ task'[t].vs = task[t].vs /\ task'[t].img = task[t].img
       \/ task'[t].vs = {}
    /\ task'[t].pc = "save" => /\ Saves(t)
                               /\ task'[t].vs = task[t].vs /\ task'[t].img = task[t].img

LEMMA FollowContext ==
    ASSUME TypeOK, TasksFollow, NEW t \in Tasks
    PROVE  /\ task[t] \in Task /\ MadeInOrder(task[t]) /\ FailuresCount(task[t])
           /\ \A new : Go(t, new) => task'[t] = new /\ \A u \in Tasks \ {t} : task'[u] = task[u]
           /\ \A k \in Kinds : k \in {"thumb", "webp", "avif"}
  BY PipelineAssumption DEF TypeOK, TasksFollow, Go

\* Only what a task has to mark or still tracks changes.
LEMMA SameWork ==
    ASSUME TypeOK, TasksFollow, NEW t \in Tasks, NEW new, Go(t, new),
           new.pc = task[t].pc, new.img = task[t].img, new.vs = task[t].vs,
           new.todo = task[t].todo, new.res = task[t].res, new.big = task[t].big,
           new.bad = task[t].bad
    PROVE  Follows(t)
  BY FollowContext DEF Follows, MadeInOrder, FailuresCount, Saves

LEMMA Entering ==
    ASSUME TypeOK, TasksFollow, NEW t \in Tasks,
           Start(t) \/ Acquire(t) \/ AcquireFails(t) \/ Register(t) \/ TakeSlot(t)
              \/ SlotTimeout(t) \/ GetFile(t) \/ LoadImage(t)
    PROVE  Follows(t)
  <1>0. /\ task[t] \in Task /\ MadeInOrder(task[t]) /\ FailuresCount(task[t])
        /\ \A new : Go(t, new) => task'[t] = new /\ \A u \in Tasks \ {t} : task'[u] = task[u]
    BY FollowContext
  <1>1. ASSUME NEW new, Go(t, new), new.img = task[t].img, new.vs = task[t].vs,
               new.res = task[t].res, new.big = task[t].big, new.pc # "save",
               MadeInOrder(new), FailuresCount(new)
        PROVE  Follows(t)
    BY <1>0, <1>1 DEF Follows
  <1>2. CASE Start(t)
    <2> DEFINE new == [task[t] EXCEPT !.pc = "acquire", !.todo = task[t].vs, !.ctx = 0]
    <2>1. Go(t, new) /\ task[t].pc = "queued"
      BY <1>2 DEF Start
    <2>2. /\ new.img = task[t].img /\ new.vs = task[t].vs /\ new.res = task[t].res
          /\ new.big = task[t].big /\ new.pc = "acquire"
      BY <1>0 DEF Task
    <2> HIDE DEF new
    <2>3. MadeInOrder(new) /\ FailuresCount(new)
      BY <1>0, <2>1, <2>2 DEF MadeInOrder, FailuresCount
    <2> QED BY <1>1, <2>1, <2>2, <2>3
  <1>3. CASE Acquire(t)
    <2> DEFINE k == First(task[t].todo)
               new == [task[t] EXCEPT !.todo = @ \ {k}, !.tracked = @ \cup {k}]
    <2>1. Go(t, new) /\ task[t].pc = "acquire"
      BY <1>3 DEF Acquire
    <2>2. /\ new.img = task[t].img /\ new.vs = task[t].vs /\ new.res = task[t].res
          /\ new.big = task[t].big /\ new.pc = "acquire"
      BY <1>0, <2>1 DEF Task
    <2> HIDE DEF new
    <2>3. MadeInOrder(new) /\ FailuresCount(new)
      BY <1>0, <2>1, <2>2 DEF MadeInOrder, FailuresCount
    <2> QED BY <1>1, <2>1, <2>2, <2>3
  <1>4. CASE AcquireFails(t) \/ Register(t) \/ TakeSlot(t)
    <2>1. PICK new : /\ Go(t, new)
                     /\ \/ new = [task[t] EXCEPT !.pc = "finalize", !.todo = task[t].tracked]
                        \/ task[t].pc = "acquire" /\ new = [task[t] EXCEPT !.pc = "slot"]
                        \/ task[t].pc = "slot" /\ new = [task[t] EXCEPT !.pc = "file"]
      BY <1>4 DEF AcquireFails, Register, TakeSlot
    <2>2. /\ new.img = task[t].img /\ new.vs = task[t].vs /\ new.res = task[t].res
          /\ new.big = task[t].big
          /\ \/ new.pc = "finalize"
             \/ task[t].pc \in {"acquire", "slot"} /\ new.pc \in {"slot", "file"}
      BY <1>0, <2>1 DEF Task
    <2>3. MadeInOrder(new) /\ FailuresCount(new)
      BY <1>0, <2>2 DEF MadeInOrder, FailuresCount
    <2> QED BY <1>1, <2>1, <2>2, <2>3
  <1>5. CASE SlotTimeout(t)
    <2> DEFINE new == [task[t] EXCEPT !.pc = "giveup", !.mark = task[t].vs, !.bad = TRUE]
    <2>1. Go(t, new)
      BY <1>5 DEF SlotTimeout
    <2>2. /\ new.img = task[t].img /\ new.vs = task[t].vs /\ new.res = task[t].res
          /\ new.big = task[t].big /\ new.pc = "giveup" /\ new.bad
      BY <1>0 DEF Task
    <2> HIDE DEF new
    <2>3. MadeInOrder(new) /\ FailuresCount(new)
      BY <2>2 DEF MadeInOrder, FailuresCount
    <2> QED BY <1>1, <2>1, <2>2, <2>3
  <1>6. CASE GetFile(t)
    <2> DEFINE next == IF "thumb" \in task[t].vs THEN "thumb" ELSE "load"
               on == [task[t] EXCEPT !.pc = next]
               out == [task[t] EXCEPT !.pc = "save", !.mark = task[t].vs, !.bad = TRUE]
    <2>1. task[t].pc = "file" /\ (Go(t, on) \/ Go(t, out)) /\ next \in {"thumb", "load"}
      BY <1>6 DEF GetFile
    <2>2. /\ on.img = task[t].img /\ on.vs = task[t].vs /\ on.res = task[t].res
          /\ on.big = task[t].big /\ on.pc = next
          /\ out.img = task[t].img /\ out.vs = task[t].vs /\ out.res = task[t].res
          /\ out.big = task[t].big /\ out.pc = "save" /\ out.bad
      BY <1>0 DEF Task
    <2> HIDE DEF next, on, out
    <2>3. CASE Go(t, on)
      <3>1. MadeInOrder(on) /\ FailuresCount(on)
        BY <1>0, <2>1, <2>2 DEF MadeInOrder, FailuresCount
      <3> QED BY <1>1, <2>1, <2>2, <2>3, <3>1
    <2>4. CASE Go(t, out)
      <3>1. MadeInOrder(out) /\ FailuresCount(out)
        BY <1>0, <2>1, <2>2 DEF MadeInOrder, FailuresCount
      <3> QED BY <1>0, <2>2, <2>4, <3>1 DEF Follows, Saves
    <2> QED BY <2>1, <2>3, <2>4
  <1>7. CASE LoadImage(t)
    <2> DEFINE full == task[t].vs \ {"thumb"}
               on == [task[t] EXCEPT !.pc = "full", !.todo = full]
               worse == [task[t] EXCEPT !.pc = "full", !.todo = full, !.mark = full, !.bad = TRUE]
    <2>1. task[t].pc = "load" /\ (Go(t, on) \/ Go(t, worse))
      BY <1>7 DEF LoadImage
    <2>2. /\ on.img = task[t].img /\ on.vs = task[t].vs /\ on.res = task[t].res
          /\ on.big = task[t].big /\ on.pc = "full" /\ on.todo = full
          /\ worse.img = task[t].img /\ worse.vs = task[t].vs /\ worse.res = task[t].res
          /\ worse.big = task[t].big /\ worse.pc = "full" /\ worse.todo = full
      BY <1>0 DEF Task
    <2>3. \A new \in {on, worse} : MadeInOrder(new) /\ FailuresCount(new)
      <3> HIDE DEF on, worse
      <3> QED BY <1>0, <2>1, <2>2 DEF MadeInOrder, FailuresCount, Formats
    <2> HIDE DEF on, worse
    <2> QED BY <1>1, <2>1, <2>2, <2>3
  <1> QED BY <1>2, <1>3, <1>4, <1>5, <1>6, <1>7

\* The two steps of SkipVariant: the row is deleted, or the deletion is refused.
LEMMA SkipFollows ==
    ASSUME TypeOK, TasksFollow, NEW t \in Tasks, NEW k, NEW new \in Task,
           SkipVariant(t, k, new), MadeInOrder(new), FailuresCount(new),
           new.vs = task[t].vs, new.img = task[t].img,
           new.pc = "save" => new.bad \/ new.res \subseteq new.todo
    PROVE  Follows(t)
  <1> DEFINE less == [new EXCEPT !.tracked = @ \ {k}]
  <1>1. /\ less.pc = new.pc /\ less.img = new.img /\ less.vs = new.vs /\ less.todo = new.todo
        /\ less.res = new.res /\ less.big = new.big /\ less.bad = new.bad
    BY DEF Task
  <1>2. Go(t, new) \/ Go(t, less)
    BY DEF SkipVariant
  <1> HIDE DEF less
  <1>3. MadeInOrder(less) /\ FailuresCount(less)
    BY <1>1 DEF MadeInOrder, FailuresCount
  <1>4. CASE Go(t, new)
    BY <1>4, FollowContext DEF Follows, Saves
  <1>5. CASE Go(t, less)
    BY <1>1, <1>3, <1>5, FollowContext DEF Follows, Saves
  <1> QED BY <1>2, <1>4, <1>5

LEMMA ThumbnailFollows ==
    ASSUME TypeOK, TasksFollow, NEW t \in Tasks, Thumbnail(t)
    PROVE  Follows(t)
  <1> DEFINE next == IF task[t].vs = {"thumb"} THEN "save" ELSE "load"
             left == IF next = "save" THEN {"thumb"} ELSE {}
             ok == [task[t] EXCEPT !.res = {"thumb"}, !.pc = next, !.todo = left]
             err == [task[t] EXCEPT !.mark = {"thumb"}, !.bad = TRUE, !.pc = next]
             skip == [task[t] EXCEPT !.pc = next]
  <1>1. /\ task[t] \in Task /\ MadeInOrder(task[t]) /\ FailuresCount(task[t])
        /\ \A new : Go(t, new) => task'[t] = new /\ \A u \in Tasks \ {t} : task'[u] = task[u]
    BY FollowContext
  <1>2. /\ task[t].pc = "thumb"
        /\ Go(t, ok) \/ Go(t, err) \/ SkipVariant(t, "thumb", skip)
    BY DEF Thumbnail
  <1>3. /\ next \in {"save", "load"}
        /\ next = "save" => task[t].vs = {"thumb"} /\ left = {"thumb"}
    OBVIOUS
  <1>4. task[t].res = {} /\ ~task[t].big
    BY <1>1, <1>2 DEF MadeInOrder
  <1>5. skip \in Task
    BY <1>1, <1>3 DEF Task, Running, Slotted
  <1> HIDE DEF next, left
  <1>6. /\ ok.pc = next /\ ok.img = task[t].img /\ ok.vs = task[t].vs /\ ok.todo = left
        /\ ok.res = {"thumb"} /\ ok.big = task[t].big
        /\ err.pc = next /\ err.img = task[t].img /\ err.vs = task[t].vs
        /\ err.res = task[t].res /\ err.big = task[t].big /\ err.bad
        /\ skip.pc = next /\ skip.img = task[t].img /\ skip.vs = task[t].vs
        /\ skip.res = task[t].res /\ skip.big = task[t].big
    BY <1>1 DEF Task
  <1>7. \A new \in {ok, err, skip} : MadeInOrder(new) /\ FailuresCount(new)
    <2> HIDE DEF ok, err, skip
    <2> QED BY <1>3, <1>4, <1>6 DEF MadeInOrder, FailuresCount, Formats
  <1> HIDE DEF ok, err, skip
  <1>8. ASSUME NEW new \in {ok, err}, Go(t, new) PROVE Follows(t)
    <2>1. new.pc = "save" => new.bad \/ new.res \subseteq new.todo
      BY <1>3, <1>6, <1>8
    <2> QED BY <1>1, <1>6, <1>7, <1>8, <2>1 DEF Follows, Saves
  <1>9. CASE SkipVariant(t, "thumb", skip)
    BY <1>4, <1>5, <1>6, <1>7, <1>9, SkipFollows
  <1> QED BY <1>2, <1>8, <1>9

LEMMA FullFollows ==
    ASSUME TypeOK, TasksFollow, NEW t \in Tasks, FullVariant(t)
    PROVE  Follows(t)
  <1> DEFINE k == First(task[t].todo)
             rest == task[t].todo \ {k}
             p == IF rest = {} THEN "save" ELSE "full"
             left(R) == IF rest = {} THEN R ELSE rest
             at(R) == Visited(t, k, R)
             next == at(task[t].res)
             ok == at(task[t].res \cup {k})
             err == [next EXCEPT !.mark = {k}, !.bad = @ \/ Required(t, k)]
             skip == [next EXCEPT !.big = @ \/ k = "webp"]
  <1>1. /\ task[t] \in Task /\ MadeInOrder(task[t]) /\ FailuresCount(task[t])
        /\ \A new : Go(t, new) => task'[t] = new /\ \A u \in Tasks \ {t} : task'[u] = task[u]
    BY FollowContext
  <1>2. /\ task[t].pc = "full" /\ task[t].todo # {}
        /\ (Go(t, ok) /\ ~task[t].big) \/ Go(t, err) \/ SkipVariant(t, k, skip)
    BY DEF FullVariant
  <1>3. /\ k \in task[t].todo /\ k \in Formats /\ k \in Kinds /\ k \in task[t].vs
        /\ k # "webp" => "webp" \notin task[t].todo
    <2>1. task[t].todo \in SUBSET Kinds /\ task[t].todo \subseteq task[t].vs \ {"thumb"}
      BY <1>1, <1>2 DEF Task, MadeInOrder
    <2>2. k \in task[t].todo
      BY <1>2, <2>1, FirstIn
    <2> QED BY <2>1, <2>2, FollowContext DEF First, Formats
  <1>4. /\ task[t].big => task[t].res \cap Formats = {}
        /\ k = "webp" => task[t].res \cap Formats = {}
        /\ task[t].todo \subseteq task[t].vs \ {"thumb"}
        /\ "webp" \in task[t].vs /\ k # "webp" =>
              "webp" \in task[t].res \/ task[t].big \/ task[t].bad
    BY <1>1, <1>2, <1>3 DEF MadeInOrder, FailuresCount
  <1>5. ASSUME NEW R \in SUBSET Kinds
        PROVE  /\ at(R) \in Task
               /\ at(R).pc = p /\ at(R).img = task[t].img /\ at(R).vs = task[t].vs
               /\ at(R).todo = left(R) /\ at(R).res = R /\ at(R).big = task[t].big
               /\ at(R).bad = task[t].bad
    <2>1. p \in {"save", "full"} /\ left(R) \in SUBSET Kinds
      BY <1>1 DEF Task
    <2>2. at(R) = [task[t] EXCEPT !.res = R, !.pc = p, !.todo = left(R)]
      BY DEF Visited
    <2> HIDE DEF p, left, at
    <2> QED BY <1>1, <2>1, <2>2 DEF Task, Running, Slotted
  <1>6. task[t].res \in SUBSET Kinds /\ (task[t].res \cup {k}) \in SUBSET Kinds
    BY <1>1, <1>3 DEF Task
  <1>7. /\ next \in Task /\ next.pc = p /\ next.img = task[t].img /\ next.vs = task[t].vs
        /\ next.todo = left(task[t].res) /\ next.res = task[t].res /\ next.big = task[t].big
        /\ next.bad = task[t].bad
        /\ ok.pc = p /\ ok.img = task[t].img /\ ok.vs = task[t].vs
        /\ ok.todo = left(task[t].res \cup {k}) /\ ok.res = task[t].res \cup {k}
        /\ ok.big = task[t].big /\ ok.bad = task[t].bad
    BY <1>5, <1>6
  <1>8. /\ p \in {"save", "full"} /\ (p = "full" <=> rest # {})
        /\ \A R : p = "save" => left(R) = R
        /\ \A R : p = "full" => left(R) = rest
        /\ "webp" \notin rest /\ rest \subseteq task[t].vs \ {"thumb"}
    BY <1>3, <1>4
  <1> HIDE DEF p, left, at, rest
  <1>9. (next.big \/ k = "webp") \in BOOLEAN
    BY <1>7 DEF Task
  <1>10. \A b \in BOOLEAN :
            LET q == [next EXCEPT !.big = b]
            IN  /\ q \in Task /\ q.pc = next.pc /\ q.img = next.img /\ q.vs = next.vs
                /\ q.todo = next.todo /\ q.res = next.res /\ q.bad = next.bad /\ q.big = b
    BY <1>7 DEF Task
  <1>11. /\ skip \in Task /\ skip.pc = p /\ skip.img = task[t].img /\ skip.vs = task[t].vs
         /\ skip.todo = left(task[t].res) /\ skip.res = task[t].res
         /\ skip.big = (next.big \/ k = "webp") /\ skip.bad = task[t].bad
    BY <1>7, <1>9, <1>10
  <1>12. /\ err.pc = p /\ err.img = task[t].img /\ err.vs = task[t].vs
         /\ err.todo = left(task[t].res) /\ err.res = task[t].res /\ err.big = task[t].big
         /\ err.bad = (next.bad \/ Required(t, k))
    BY <1>7 DEF Task
  <1> HIDE DEF ok, err, skip, next, k
  <1>13. CASE Go(t, ok) /\ ~task[t].big
    <2>1. MadeInOrder(ok) /\ FailuresCount(ok)
      BY <1>3, <1>4, <1>7, <1>8, <1>13 DEF MadeInOrder, FailuresCount, Formats
    <2>2. ok.pc = "save" => ok.res \subseteq ok.todo
      BY <1>7, <1>8
    <2> QED BY <1>1, <1>7, <1>13, <2>1, <2>2 DEF Follows, Saves
  <1>14. CASE Go(t, err)
    <2>1. MadeInOrder(err) /\ FailuresCount(err)
      BY <1>3, <1>4, <1>7, <1>8, <1>12 DEF MadeInOrder, FailuresCount, Formats, Required
    <2>2. err.pc = "save" => err.res \subseteq err.todo
      BY <1>8, <1>12
    <2> QED BY <1>1, <1>12, <1>14, <2>1, <2>2 DEF Follows, Saves
  <1>15. CASE SkipVariant(t, k, skip)
    <2>1. MadeInOrder(skip) /\ FailuresCount(skip)
      BY <1>3, <1>4, <1>7, <1>8, <1>11 DEF MadeInOrder, FailuresCount, Formats
    <2>2. skip.pc = "save" => skip.res \subseteq skip.todo
      BY <1>8, <1>11
    <2> QED BY <1>11, <1>15, <2>1, <2>2, SkipFollows
  <1> QED BY <1>2, <1>13, <1>14, <1>15

LEMMA SaveFollows ==
    ASSUME TypeOK, TasksFollow, NEW t \in Tasks, Save(t)
    PROVE  Follows(t)
  <1> DEFINE k == First(task[t].todo)
             v == At(t, k)
             done == [task[t] EXCEPT !.todo = @ \ {k}, !.tracked = @ \ {k}]
             fails == [task[t] EXCEPT !.todo = @ \ {k}, !.mark = {k}, !.bad = @ \/ Required(t, k)]
  <1>1. /\ task[t] \in Task /\ MadeInOrder(task[t]) /\ FailuresCount(task[t])
        /\ \A new : Go(t, new) => task'[t] = new /\ \A u \in Tasks \ {t} : task'[u] = task[u]
    BY FollowContext
  <1>2. /\ task[t].pc = "save" /\ task[t].todo # {}
        /\ \/ /\ IsProcessing(v) /\ Go(t, done)
              /\ row' = [row EXCEPT ![v] = Completed(row[v])]
           \/ Go(t, fails)
    BY DEF Save
  <1>3. v \in Variants
    BY <1>1, <1>2, FirstIn, TaskContext
  <1>4. /\ done.pc = "save" /\ done.img = task[t].img /\ done.vs = task[t].vs
        /\ done.todo = task[t].todo \ {k} /\ done.res = task[t].res
        /\ done.big = task[t].big /\ done.bad = task[t].bad
        /\ fails.pc = "save" /\ fails.img = task[t].img /\ fails.vs = task[t].vs
        /\ fails.todo = task[t].todo \ {k} /\ fails.res = task[t].res
        /\ fails.big = task[t].big /\ fails.bad = (task[t].bad \/ Required(t, k))
    BY <1>1, <1>2 DEF Task
  <1> HIDE DEF done, fails
  <1>5. /\ MadeInOrder(done) /\ FailuresCount(done)
        /\ MadeInOrder(fails) /\ FailuresCount(fails)
    BY <1>1, <1>2, <1>4 DEF MadeInOrder, FailuresCount
  <1>6. CASE IsProcessing(v) /\ Go(t, done) /\ row' = [row EXCEPT ![v] = Completed(row[v])]
    <2>1. row[v] \in Row /\ ~row[v].gone
      BY <1>3, <1>6 DEF TypeOK, IsProcessing
    <2>2. Life' = [Life EXCEPT ![v] = LifeOf(Completed(row[v]))]
      BY <1>3, <1>6, OneLife
    <2>3. LifeOf(Completed(row[v])) = "completed"
      BY <2>1, LivesOfStatements
    <2>4. Life'[v] = "completed"
      BY <1>3, <2>2, <2>3 DEF Life
    <2>5. Life'[v] \in Ended
      BY <2>4 DEF Ended
    <2>6. \A j \in task[t].todo \ task'[t].todo : j = k
      BY <1>1, <1>4, <1>6
    <2>7. Saves(t)
      BY <1>1, <1>2, <1>4, <1>6, <2>5, <2>6 DEF Saves
    <2> QED BY <1>1, <1>4, <1>5, <1>6, <2>7 DEF Follows
  <1>7. CASE Go(t, fails)
    <2>1. Saves(t)
      <3>1. CASE Required(t, k)
        BY <1>1, <1>4, <1>7, <3>1 DEF Saves
      <3>2. CASE ~Required(t, k)
        <4>1. task'[t].bad = task[t].bad
          BY <1>1, <1>4, <1>7, <3>2 DEF Task
        <4>2. \A j \in task[t].todo \ task'[t].todo : j = k
          BY <1>1, <1>4, <1>7
        <4> QED BY <1>1, <1>2, <1>4, <1>7, <3>2, <4>1, <4>2 DEF Saves, Required
      <3> QED BY <3>1, <3>2
    <2> QED BY <1>1, <1>4, <1>5, <1>7, <2>1 DEF Follows
  <1> QED BY <1>2, <1>6, <1>7

LEMMA LeavingFollows ==
    ASSUME TypeOK, TasksFollow, NEW t \in Tasks,
           MarkFailed(t) \/ SetStatus(t) \/ Panic(t) \/ Finalize(t) \/ Finish(t)
    PROVE  Follows(t)
  <1>1. /\ task[t] \in Task /\ MadeInOrder(task[t]) /\ FailuresCount(task[t])
        /\ \A new : Go(t, new) => task'[t] = new /\ \A u \in Tasks \ {t} : task'[u] = task[u]
    BY FollowContext
  <1>2. CASE MarkFailed(t)
    <2> DEFINE k == First(task[t].mark)
               less == [task[t] EXCEPT !.mark = @ \ {k}, !.tracked = @ \ {k}]
               same == [task[t] EXCEPT !.mark = @ \ {k}]
    <2>1. Go(t, less) \/ Go(t, same)
      BY <1>2 DEF MarkFailed
    <2>2. /\ less.pc = task[t].pc /\ less.img = task[t].img /\ less.vs = task[t].vs
          /\ less.todo = task[t].todo /\ less.res = task[t].res /\ less.big = task[t].big
          /\ less.bad = task[t].bad
          /\ same.pc = task[t].pc /\ same.img = task[t].img /\ same.vs = task[t].vs
          /\ same.todo = task[t].todo /\ same.res = task[t].res /\ same.big = task[t].big
          /\ same.bad = task[t].bad
      BY <1>1 DEF Task
    <2> HIDE DEF less, same
    <2> QED BY <2>1, <2>2, SameWork
  <1>3. ASSUME NEW new \in Task, Unwind(t, new), new.vs = task[t].vs, new.img = task[t].img
        PROVE  Follows(t)
    <2> DEFINE out == [new EXCEPT !.pc = "finalize", !.todo = new.tracked]
    <2>1. Go(t, out)
      BY <1>3 DEF Unwind
    <2>2. out.pc = "finalize" /\ out.vs = task[t].vs /\ out.img = task[t].img
      BY <1>3 DEF Task
    <2> HIDE DEF out
    <2> QED BY <1>1, <2>1, <2>2 DEF Follows, MadeInOrder, FailuresCount
  <1>4. CASE SetStatus(t)
    BY <1>1, <1>3, <1>4 DEF SetStatus
  <1>5. CASE Panic(t)
    <2> DEFINE new == [task[t] EXCEPT !.panic = TRUE]
    <2>1. new \in Task /\ new.vs = task[t].vs /\ new.img = task[t].img /\ Unwind(t, new)
      BY <1>1, <1>5 DEF Panic, Task
    <2> HIDE DEF new
    <2> QED BY <1>3, <2>1
  <1>6. CASE Finalize(t)
    <2> DEFINE k == First(task[t].todo)
               new == [task[t] EXCEPT !.todo = @ \ {k}, !.tracked = @ \ {k}]
    <2>1. Go(t, new) /\ task[t].pc = "finalize"
      BY <1>6 DEF Finalize
    <2>2. new.pc = "finalize" /\ new.vs = task[t].vs /\ new.img = task[t].img
      BY <1>1, <2>1 DEF Task
    <2> HIDE DEF new
    <2> QED BY <1>1, <2>1, <2>2 DEF Follows, MadeInOrder, FailuresCount
  <1>7. CASE Finish(t)
    BY <1>1, <1>7 DEF Finish, FreeTask, Follows, MadeInOrder, FailuresCount
  <1> QED BY <1>2, <1>4, <1>5, <1>6, <1>7

LEMMA TaskFollows ==
    ASSUME TypeOK, TasksFollow, NEW t \in Tasks, TaskStep(t)
    PROVE  Follows(t)
  BY Entering, ThumbnailFollows, FullFollows, SaveFollows, LeavingFollows DEF TaskStep

---------------------------------------------------------------------------
\* The rows in hand stay known

\* What a step does to the locals of the tasks: at most one task moves, or one
\* starts, or all end, or their contexts grow older.
Queued(c, t) == [FreeTask EXCEPT !.pc = "queued", !.img = call[c].img, !.vs = call[c].ready]
SameButAge(u) ==
    /\ task'[u].pc = task[u].pc /\ task'[u].img = task[u].img /\ task'[u].vs = task[u].vs
    /\ task'[u].todo = task[u].todo /\ task'[u].res = task[u].res
    /\ task'[u].big = task[u].big /\ task'[u].bad = task[u].bad

\* The image statuses that promise nothing.
Promises(i) == image[i].status \in {"thumbnailCompleted", "completed"}

LEMMA OthersMove ==
    ASSUME TypeOK, [Next]_vars
    PROVE  \/ \E t \in Tasks : TaskStep(t)
           \/ /\ \/ \A u \in Tasks : SameButAge(u)
                 \/ \E c \in Triggers, t \in Tasks :
                       /\ Submit(c, t) /\ task'[t] = Queued(c, t)
                       /\ \A u \in Tasks \ {t} : task'[u] = task[u]
                 \/ task' = [t \in Tasks |-> FreeTask]
              /\ \A i \in Images : Promises(i)' => image'[i].status = image[i].status
  <1> DEFINE Quiet == \A i \in Images : Promises(i)' => image'[i].status = image[i].status
             Same == \A u \in Tasks : SameButAge(u)
  <1>1. ASSUME UNCHANGED task PROVE Same
    BY <1>1 DEF SameButAge
  <1>2. ASSUME UNCHANGED image PROVE Quiet
    BY <1>2
  <1>3. \A s \in {"none", "processing", "failed"} : Marked(s).status = s
    BY DEF Marked
  <1>4. ASSUME NEW s \in {"none", "processing", "failed"}, NEW i \in Images, SetImage(i, s)
        PROVE  Quiet
    <2>1. image \in [Images -> Image] /\ image' = [image EXCEPT ![i] = Marked(s)]
      BY <1>4 DEF SetImage, TypeOK
    <2>2. \A j \in Images : image'[j] = IF j = i THEN Marked(s) ELSE image[j]
      BY <2>1
    <2> QED BY <1>3, <2>2 DEF Promises
  <1>5. CASE UNCHANGED vars
    BY <1>1, <1>2, <1>5 DEF vars
  <1>6. ASSUME NEW c \in Callers, NEW i \in Images, Trigger(c, i) PROVE Same /\ Quiet
    BY <1>1, <1>2, <1>6 DEF Trigger, CallOnly
  <1>7. ASSUME NEW c \in Triggers, NEW t \in Tasks, Submit(c, t)
        PROVE  /\ task'[t] = Queued(c, t) /\ \A u \in Tasks \ {t} : task'[u] = task[u]
               /\ Quiet
    BY <1>2, <1>7 DEF Submit, Queued, TypeOK
  <1>8. ASSUME NEW c \in Triggers, \/ Prepare(c) \/ PrepareFails(c) \/ Reject(c)
                                  \/ MarkProcessing(c) \/ AbortRow(c) \/ AbortImage(c)
        PROVE  Same /\ Quiet
    <2>1. call[c].img \in Images
      BY DEF TypeOK, Call
    <2>2. UNCHANGED task
      BY <1>8 DEF Prepare, PrepareFails, Reject, MarkProcessing, AbortRow, AbortImage, CallOnly
    <2>3. \/ UNCHANGED image \/ SetImage(call[c].img, "processing") \/ SetImage(call[c].img, "failed")
      BY <1>8 DEF Prepare, PrepareFails, Reject, MarkProcessing, AbortRow, AbortImage, CallOnly
    <2> QED BY <1>1, <1>2, <1>4, <2>1, <2>2, <2>3
  <1>9. CASE SweepStep
    <2>1. UNCHANGED task
      BY <1>9 DEF SweepStep, BeginSweep, RecoverRow, SweepTrigger, MarkStaleProcessingAsFailed,
         ResetStaleProcessingToNone, SweepError, SweepOnly
    <2>2. \/ UNCHANGED image
          \/ \A i \in Images : image'[i] \in {Marked("failed"), Marked("none"), image[i]}
      BY <1>9 DEF SweepStep, BeginSweep, RecoverRow, SweepTrigger, MarkStaleProcessingAsFailed,
         ResetStaleProcessingToNone, SweepError
    <2> QED BY <1>1, <1>2, <1>3, <2>1, <2>2 DEF Promises
  <1>10. CASE ShutdownStep
    <2>1. UNCHANGED task \/ task' = [t \in Tasks |-> FreeTask]
      BY <1>10 DEF ShutdownStep, ClosePool, DrainDeadline, ResetVariantsToPending,
         ResetProcessingVariantStatus, Restart, Still
    <2>2. \/ UNCHANGED image \/ \A i \in Images : image'[i] \in {Marked("none"), image[i]}
      BY <1>10 DEF ShutdownStep, ClosePool, DrainDeadline, ResetVariantsToPending,
         ResetProcessingVariantStatus, Restart, Still
    <2> QED BY <1>1, <1>2, <1>3, <2>1, <2>2 DEF Promises
  <1>11. ASSUME NEW v \in Variants, RetryWindowEnds(v) PROVE Same /\ Quiet
    BY <1>1, <1>2, <1>11 DEF RetryWindowEnds
  <1>12. CASE Tick
    <2>1. PICK beat : image' = [i \in Images |-> AgedImage(i, beat)]
      BY <1>12 DEF Tick
    <2>2. \A i \in Images : AgedImage(i, beat).status = image[i].status
      BY DEF AgedImage, TypeOK, Image
    <2>3. task' = [t \in Tasks |->
                  IF task[t].pc \in Running
                  THEN [task[t] EXCEPT !.ctx = Older(@, CtxTimeout)] ELSE task[t]]
      BY <1>12 DEF Tick
    <2>4. Same
      <3> SUFFICES ASSUME NEW u \in Tasks PROVE SameButAge(u)
        OBVIOUS
      <3>1. task[u] \in Task
        BY DEF TypeOK
      <3>2. \A n : LET q == [task[u] EXCEPT !.ctx = n]
                   IN  /\ q.pc = task[u].pc /\ q.img = task[u].img /\ q.vs = task[u].vs
                       /\ q.todo = task[u].todo /\ q.res = task[u].res
                       /\ q.big = task[u].big /\ q.bad = task[u].bad
        BY <3>1 DEF Task
      <3> QED BY <2>3, <3>2 DEF SameButAge
    <2> QED BY <2>1, <2>2, <2>4
  <1> QED BY <1>5, <1>6, <1>7, <1>8, <1>9, <1>10, <1>11, <1>12 DEF Next, CallStep

LEMMA TasksStay ==
    ASSUME IndInv, RowsAreKnown, [Next]_vars
    PROVE  TasksFollow' /\ TasksKnowRows'
  <1>0. /\ TypeOK /\ TasksFollow /\ TasksKnowRows /\ CallsKnowRows
        /\ \A w \in Variants : Life[w] # "absent" => Life'[w] # "absent"
    BY LivesStay DEF IndInv, RowsAreKnown
  <1>1. \A u \in Tasks : \A k \in task[u].vs : Life'[At(u, k)] # "absent"
    <2>1. \A u \in Tasks : \A k \in task[u].vs : At(u, k) \in Variants
      BY <1>0, TaskContext
    <2> QED BY <1>0, <2>1 DEF TasksKnowRows
  <1> DEFINE Good(u) == /\ MadeInOrder(task'[u]) /\ FailuresCount(task'[u])
                        /\ \A k \in task'[u].vs : Life'[<<task'[u].img, k>>] # "absent"
  <1>2. SUFFICES ASSUME NEW u \in Tasks PROVE Good(u)
    BY DEF TasksFollow, TasksKnowRows, At
  <1>3. MadeInOrder(task[u]) /\ FailuresCount(task[u])
    BY <1>0 DEF TasksFollow
  <1>4. ASSUME task'[u] = task[u] \/ SameButAge(u) PROVE Good(u)
    BY <1>1, <1>3, <1>4 DEF SameButAge, MadeInOrder, FailuresCount, At
  <1>5. ASSUME NEW t \in Tasks, TaskStep(t) PROVE Good(u)
    <2>1. Follows(t)
      BY <1>0, <1>5, TaskFollows
    <2>2. CASE u = t
      BY <1>1, <2>1, <2>2 DEF Follows, At
    <2>3. CASE u # t
      BY <1>4, <2>1, <2>3 DEF Follows
    <2> QED BY <2>2, <2>3
  <1>6. ASSUME NEW c \in Triggers, NEW t \in Tasks, task'[t] = Queued(c, t),
               \A w \in Tasks \ {t} : task'[w] = task[w]
        PROVE  Good(u)
    <2>1. call[c] \in Call
      BY <1>0 DEF TypeOK
    <2>2. \A k \in call[c].ready : Life'[<<call[c].img, k>>] # "absent"
      BY <1>0, <2>1 DEF CallsKnowRows, Call, Variants
    <2>3. /\ Queued(c, t).pc = "queued" /\ Queued(c, t).img = call[c].img
          /\ Queued(c, t).vs = call[c].ready /\ Queued(c, t).res = {} /\ ~Queued(c, t).big
      BY DEF Queued, FreeTask
    <2>4. CASE u = t
      BY <1>6, <2>2, <2>3, <2>4 DEF MadeInOrder, FailuresCount
    <2>5. CASE u # t
      BY <1>4, <1>6, <2>5
    <2> QED BY <2>4, <2>5
  <1>7. ASSUME task' = [t \in Tasks |-> FreeTask] PROVE Good(u)
    <2>1. task'[u] = FreeTask
      BY <1>7
    <2> QED BY <2>1 DEF FreeTask, MadeInOrder, FailuresCount
  <1> QED BY <1>0, <1>4, <1>5, <1>6, <1>7, OthersMove

\* What a call has in hand after its own step.
LEMMA CallKnows ==
    ASSUME TypeOK, CallsKnowRows, NEW c \in Triggers, CallStep(c),
           \A w \in Variants : Life[w] # "absent" => Life'[w] # "absent"
    PROVE  /\ \A d \in Triggers \ {c} : call'[d] = call[d]
           /\ \A k \in call'[c].ready : Life'[<<call'[c].img, k>>] # "absent"
           /\ call'[c].pc = "abort" => 
                 \A k \in call'[c].todo : Life'[<<call'[c].img, k>>] # "absent"
  <1>1. /\ call[c] \in Call /\ call[c].img \in Images
        /\ call[c].todo \in SUBSET Kinds /\ call[c].ready \in SUBSET Kinds
    BY DEF TypeOK, Call
  <1>2. /\ \A k \in call[c].ready : Life'[<<call[c].img, k>>] # "absent"
        /\ call[c].pc = "abort" => \A k \in call[c].todo : Life'[<<call[c].img, k>>] # "absent"
    BY <1>1 DEF CallsKnowRows, Variants
  <1>3. \A new : Say(c, new) => call'[c] = new /\ \A d \in Triggers \ {c} : call'[d] = call[d]
    BY DEF Say, TypeOK
  <1>4. CASE Prepare(c)
    <2> DEFINE k == First(call[c].todo)
               v == <<call[c].img, k>>
               r == Upserted(row[v])
               ready == call[c].ready \cup (IF Ready(c, r) THEN {k} ELSE {})
               rest == call[c].todo \ {k}
               new == [call[c] EXCEPT !.todo = rest, !.ready = ready]
    <2>1. /\ call[c].pc = "prepare" /\ ~row[v].gone /\ row' = [row EXCEPT ![v] = r]
          /\ Say(c, IdleCall) \/ Say(c, new)
      BY <1>4 DEF Prepare
    <2>2. v \in Variants
      BY <1>1, <1>4, FirstIn DEF Prepare, Variants
    <2>3. Ready(c, r) => Life'[v] # "absent"
      <3>1. Life' = [Life EXCEPT ![v] = LifeOf(r)]
        BY <2>1, <2>2, OneLife
      <3>2. Life'[v] = LifeOf(r)
        BY <2>2, <3>1 DEF Life
      <3> QED BY <3>2 DEF Ready, LifeOf
    <2>4. new.pc = "prepare" /\ new.img = call[c].img /\ new.ready = ready
      BY <1>1, <2>1 DEF Call
    <2> HIDE DEF new
    <2>5. CASE Say(c, IdleCall)
      BY <1>3, <2>5 DEF IdleCall
    <2>6. CASE Say(c, new)
      BY <1>2, <1>3, <2>3, <2>4, <2>6
    <2> QED BY <2>1, <2>5, <2>6
  <1>5. CASE PrepareFails(c) \/ Reject(c)
    <2>1. Say(c, IdleCall) \/ Say(c, Aborting(c))
      BY <1>5 DEF PrepareFails, Reject
    <2>2. /\ Aborting(c).img = call[c].img /\ Aborting(c).todo = call[c].ready
          /\ Aborting(c).ready = {}
      BY DEF Aborting, IdleCall
    <2>3. CASE Say(c, IdleCall)
      BY <1>3, <2>3 DEF IdleCall
    <2>4. CASE Say(c, Aborting(c))
      BY <1>2, <1>3, <2>2, <2>4
    <2> QED BY <2>1, <2>3, <2>4
  <1>6. CASE AbortRow(c)
    <2> DEFINE k == First(call[c].todo)
               new == [call[c] EXCEPT !.todo = @ \ {k}]
    <2>1. call[c].pc = "abort" /\ Say(c, new)
      BY <1>6 DEF AbortRow
    <2>2. new.img = call[c].img /\ new.ready = call[c].ready /\ new.todo = call[c].todo \ {k}
      BY <1>1 DEF Call
    <2> HIDE DEF new
    <2> QED BY <1>2, <1>3, <2>1, <2>2
  <1>7. CASE MarkProcessing(c) \/ AbortImage(c) \/ \E t \in Tasks : Submit(c, t)
    <2>1. Say(c, IdleCall) \/ Say(c, [IdleCall EXCEPT !.pc = "mark", !.img = call[c].img])
      BY <1>7 DEF MarkProcessing, AbortImage, Submit
    <2>2. IdleCall.ready = {} /\ IdleCall.pc = "idle"
          /\ [IdleCall EXCEPT !.pc = "mark", !.img = call[c].img].ready = {}
          /\ [IdleCall EXCEPT !.pc = "mark", !.img = call[c].img].pc = "mark"
      BY DEF IdleCall
    <2> QED BY <1>3, <2>1, <2>2
  <1> QED BY <1>4, <1>5, <1>6, <1>7 DEF CallStep

LEMMA CallsStay ==
    ASSUME IndInv, RowsAreKnown, [Next]_vars
    PROVE  CallsKnowRows'
  <1>0. /\ TypeOK /\ CallsKnowRows
        /\ \A w \in Variants : Life[w] # "absent" => Life'[w] # "absent"
    BY LivesStay DEF IndInv, RowsAreKnown
  <1> DEFINE Good(d) == /\ \A k \in call'[d].ready : Life'[<<call'[d].img, k>>] # "absent"
                        /\ call'[d].pc = "abort" => 
                              \A k \in call'[d].todo : Life'[<<call'[d].img, k>>] # "absent"
  <1> SUFFICES ASSUME NEW d \in Triggers PROVE Good(d)
    BY DEF CallsKnowRows
  <1>1. ASSUME call'[d] = call[d] PROVE Good(d)
    <2>1. call[d] \in Call
      BY <1>0 DEF TypeOK
    <2> QED BY <1>0, <1>1, <2>1 DEF CallsKnowRows, Call, Variants
  <1>2. ASSUME NEW new, NEW c \in Triggers, Say(c, new), new.ready = {}, new.pc # "abort"
        PROVE  Good(d)
    BY <1>0, <1>1, <1>2 DEF Say, TypeOK
  <1>3. \A i : Calling(i).ready = {} /\ Calling(i).pc = "prepare"
    BY DEF Calling
  <1>4. ASSUME UNCHANGED call PROVE Good(d)
    BY <1>1, <1>4
  <1>5. ASSUME NEW t \in Tasks, TaskStep(t) PROVE Good(d)
    BY <1>4, <1>5 DEF TaskStep, Start, Acquire, AcquireFails, Register, TakeSlot, SlotTimeout,
       MarkFailed, GetFile, Thumbnail, LoadImage, FullVariant, Save, SetStatus, Panic, Finalize,
       Finish, Others
  <1>6. ASSUME NEW c \in Triggers, CallStep(c) PROVE Good(d)
    BY <1>0, <1>1, <1>6, CallKnows
  <1>7. ASSUME NEW c \in Callers, NEW i \in Images, Trigger(c, i) PROVE Good(d)
    BY <1>2, <1>3, <1>7 DEF Trigger, Triggers
  <1>8. CASE SweepStep
    <2>1. ASSUME NEW i \in Images, SweepTrigger(i) PROVE Good(d)
      BY <1>2, <1>3, <1>4, <2>1 DEF SweepTrigger, Triggers
    <2> QED BY <1>4, <1>8, <2>1 DEF SweepStep, BeginSweep, RecoverRow,
            MarkStaleProcessingAsFailed, ResetStaleProcessingToNone, SweepError
  <1>9. CASE ShutdownStep
    <2>1. CASE Restart
      BY <2>1 DEF Restart, IdleCall
    <2> QED BY <1>4, <1>9, <2>1 DEF ShutdownStep, ClosePool, DrainDeadline,
            ResetVariantsToPending, ResetProcessingVariantStatus, Still
  <1>10. ASSUME Tick \/ UNCHANGED vars \/ \E v \in Variants : RetryWindowEnds(v) PROVE Good(d)
    BY <1>4, <1>10 DEF Tick, RetryWindowEnds, vars
  <1> QED BY <1>5, <1>6, <1>7, <1>8, <1>9, <1>10 DEF Next

\* Only the query of a new sweep puts rows on its list.
LEMMA SweepShrinks ==
    ASSUME TypeOK, [Next]_vars, ~BeginSweep
    PROVE  sweep'.todo \subseteq sweep.todo
  <1>1. ASSUME UNCHANGED sweep PROVE sweep'.todo \subseteq sweep.todo
    BY <1>1
  <1>2. \A S, R, O : Sweeping(S, R, O).todo = S
    BY DEF Sweeping
  <1>3. IdleSweep.todo = {}
    BY DEF IdleSweep
  <1>4. /\ \A q : [sweep EXCEPT !.queue = q].todo = sweep.todo
        /\ \A q : [sweep EXCEPT !.pc = q].todo = sweep.todo
        /\ \A q : [sweep EXCEPT !.old = q].todo = sweep.todo
    BY DEF TypeOK, Sweep
  <1>5. ASSUME NEW t \in Tasks, TaskStep(t) PROVE UNCHANGED sweep
    BY <1>5 DEF TaskStep, Start, Acquire, AcquireFails, Register, TakeSlot, SlotTimeout,
       MarkFailed, GetFile, Thumbnail, LoadImage, FullVariant, Save, SetStatus, Panic, Finalize,
       Finish, Others
  <1>6. ASSUME NEW c \in Triggers, CallStep(c) PROVE UNCHANGED sweep
    BY <1>6 DEF CallStep, Prepare, PrepareFails, Submit, Reject, MarkProcessing, AbortRow,
       AbortImage, CallOnly
  <1>7. CASE SweepStep
    <2>1. ASSUME NEW s \in sweep.todo, RecoverRow(s[1], s[2])
          PROVE  sweep'.todo \subseteq sweep.todo
      BY <1>2, <2>1 DEF RecoverRow
    <2>2. ASSUME \/ \E i \in Images : SweepTrigger(i)
                 \/ MarkStaleProcessingAsFailed \/ ResetStaleProcessingToNone \/ SweepError
          PROVE  sweep'.todo \subseteq sweep.todo
      BY <1>3, <1>4, <2>2 DEF SweepTrigger, MarkStaleProcessingAsFailed,
         ResetStaleProcessingToNone, SweepError
    <2> QED BY <1>7, <2>1, <2>2 DEF SweepStep
  <1>8. CASE ShutdownStep
    BY <1>1, <1>3, <1>8 DEF ShutdownStep, ClosePool, DrainDeadline, ResetVariantsToPending,
       ResetProcessingVariantStatus, Restart, Still
  <1>9. ASSUME NEW c \in Callers, NEW i \in Images, Trigger(c, i) PROVE UNCHANGED sweep
    BY <1>9 DEF Trigger, CallOnly
  <1>10. ASSUME UNCHANGED vars \/ \E v \in Variants : RetryWindowEnds(v) PROVE UNCHANGED sweep
    BY <1>10 DEF RetryWindowEnds, vars
  <1>11. CASE Tick
    BY <1>4, <1>11 DEF Tick
  <1> QED BY <1>1, <1>5, <1>6, <1>7, <1>8, <1>9, <1>10, <1>11 DEF Next

LEMMA SweepStays ==
    ASSUME IndInv, RowsAreKnown, [Next]_vars
    PROVE  SweepKnowsRetries'
  <1>0. /\ TypeOK /\ SweepKnowsRetries
        /\ sweep.todo \subseteq Variants \X (0 .. MaxRetries - 1)
    BY DEF IndInv, RowsAreKnown, TypeOK, Sweep
  <1>1. CASE BeginSweep
    <2>1. sweep'.todo = StaleRows /\ UNCHANGED row
      BY <1>1 DEF BeginSweep, Sweeping
    <2>2. \A s \in StaleRows : s[1] \in Variants /\ s[2] = row[s[1]].retry
      BY DEF StaleRows
    <2>3. \A s \in sweep'.todo : Tries'[s[1]] = s[2]
      BY <2>1, <2>2 DEF Tries
    <2> QED BY <2>3 DEF SweepKnowsRetries
  <1>2. CASE ~BeginSweep /\ Gently
    BY <1>0, <1>2, SweepShrinks, RetriesStay DEF SweepKnowsRetries
  <1>3. ASSUME NEW s \in sweep.todo, Lifecycle!Recover(s[1]), RecoverRow(s[1], s[2])
        PROVE  SweepKnowsRetries'
    <2>1. sweep'.todo = sweep.todo \ {s}
      <3>1. s = <<s[1], s[2]>>
        BY <1>0
      <3> QED BY <1>3, <3>1 DEF RecoverRow, Sweeping
    <2>2. /\ Life = [v \in Variants |-> Life[v]]
          /\ Tries = [v \in Variants |-> Tries[v]]
      BY DEF Life, Tries
    <2>3. \A w \in Variants \ {s[1]} : Life'[w] = Life[w] /\ Tries'[w] = Tries[w]
      BY <1>3, <2>2 DEF Lifecycle!Recover
    <2>4. Life[s[1]] = "processing"
      BY <1>3 DEF Lifecycle!Recover
    <2>5. ASSUME NEW e \in sweep.todo, e[1] = s[1] PROVE e = s
      <3>1. Tries[s[1]] = e[2] /\ Tries[s[1]] = s[2]
        BY <1>0, <2>4, <2>5 DEF SweepKnowsRetries, Open
      <3>2. e = <<e[1], e[2]>> /\ s = <<s[1], s[2]>>
        BY <1>0
      <3> QED BY <2>5, <3>1, <3>2
    <2> QED BY <1>0, <2>1, <2>3, <2>5 DEF SweepKnowsRetries
  <1> QED BY <1>1, <1>2, <1>3, LifeStep

LEMMA KnownInit == Init => RowsAreKnown
  <1> SUFFICES ASSUME Init PROVE RowsAreKnown
    OBVIOUS
  <1>1. TasksFollow /\ TasksKnowRows
    BY DEF Init, TasksFollow, TasksKnowRows, FreeTask, MadeInOrder, FailuresCount
  <1>2. CallsKnowRows /\ SweepKnowsRetries
    BY DEF Init, CallsKnowRows, SweepKnowsRetries, IdleCall, IdleSweep
  <1> QED BY <1>1, <1>2 DEF RowsAreKnown

LEMMA RowsStayKnown == Spec => [](IndInv /\ RowsAreKnown)
  <1>1. IndInv /\ RowsAreKnown /\ [Next]_vars => RowsAreKnown'
    BY TasksStay, CallsStay, SweepStays DEF RowsAreKnown
  <1> QED BY <1>1, KnownInit, Invariance, PTL DEF Spec

---------------------------------------------------------------------------
\* Theorems

\* Every step of every task, caller, sweep and reset is, for the rows, one that
\* VariantLifecycle allows, or none: inserted once, claimed only while pending,
\* completed only while processing, charged a retry only by a sweep.
THEOREM LifecycleImplemented == Spec => LifecycleSpec
  <1>1. Init => Lifecycle!Init
    <2> SUFFICES ASSUME Init PROVE Lifecycle!Init
      OBVIOUS
    <2>1. \A v \in Variants : row[v].st = "absent" /\ row[v].gone = FALSE /\ row[v].retry = 0
      BY DEF Init, AbsentRow
    <2>2. Life = [v \in Variants |-> "absent"] /\ Tries = [v \in Variants |-> 0]
      BY <2>1 DEF Life, Tries
    <2> QED BY <2>2 DEF Lifecycle!Init
  <1>2. IndInv /\ RowsAreKnown /\ [Next]_vars => [Lifecycle!Next]_(Lifecycle!vars)
    BY LivesStay
  <1> QED BY <1>1, <1>2, RowsStayKnown, PTL DEF Spec, LifecycleSpec, Lifecycle!Spec

---------------------------------------------------------------------------
\* The status of an image

\* The results a task has saved, or found ended, when it has done so.
ResultsAreBacked ==
    \A t \in Tasks : task[t].pc = "save" /\ ~task[t].bad =>
        \A k \in task[t].res \ task[t].todo :
            Life[At(t, k)] \in Ended \/ (k = "avif" /\ "webp" \in task[t].vs)

LEMMA ResultsStayBacked ==
    ASSUME IndInv, RowsAreKnown, ResultsAreBacked, [Next]_vars
    PROVE  ResultsAreBacked'
  <1>0. /\ TypeOK /\ TasksFollow
        /\ \A w \in Variants : Life[w] \in Ended => Life'[w] \in Ended
        /\ \A u \in Tasks : \A k \in task[u].res : At(u, k) \in Variants
    BY LivesStay, TaskContext DEF IndInv, RowsAreKnown
  <1> DEFINE Good(u) == task'[u].pc = "save" /\ ~task'[u].bad =>
                           \A k \in task'[u].res \ task'[u].todo :
                               \/ Life'[<<task'[u].img, k>>] \in Ended
                               \/ (k = "avif" /\ "webp" \in task'[u].vs)
  <1> SUFFICES ASSUME NEW u \in Tasks PROVE Good(u)
    BY DEF ResultsAreBacked, At
  <1>1. ASSUME task'[u] = task[u] \/ SameButAge(u) PROVE Good(u)
    BY <1>0, <1>1 DEF SameButAge, ResultsAreBacked, At
  <1>2. ASSUME NEW t \in Tasks, TaskStep(t) PROVE Good(u)
    <2>1. Follows(t)
      BY <1>0, <1>2, TaskFollows
    <2>2. CASE u = t
      <3>1. SUFFICES ASSUME task'[t].pc = "save", ~task'[t].bad,
                            NEW k \in task'[t].res \ task'[t].todo
                     PROVE  \/ Life'[At(t, k)] \in Ended
                            \/ (k = "avif" /\ "webp" \in task[t].vs)
        BY <2>1, <2>2 DEF Follows, At
      <3>2. /\ task[t].pc = "save" /\ ~task[t].bad /\ k \in task[t].res
            /\ \A j \in task[t].todo \ task'[t].todo :
                  Life'[At(t, j)] \in Ended \/ (j = "avif" /\ "webp" \in task[t].vs)
        BY <2>1, <3>1 DEF Follows, Saves
      <3>3. CASE k \in task[t].todo
        BY <3>1, <3>2, <3>3
      <3>4. CASE k \notin task[t].todo
        BY <1>0, <3>1, <3>2, <3>4 DEF ResultsAreBacked
      <3> QED BY <3>3, <3>4
    <2>3. CASE u # t
      BY <1>1, <2>1, <2>3 DEF Follows
    <2> QED BY <2>2, <2>3
  <1>3. ASSUME NEW c \in Triggers, NEW t \in Tasks, task'[t] = Queued(c, t),
               \A w \in Tasks \ {t} : task'[w] = task[w]
        PROVE  Good(u)
    BY <1>1, <1>3 DEF Queued, FreeTask
  <1>4. ASSUME task' = [t \in Tasks |-> FreeTask] PROVE Good(u)
    BY <1>4 DEF FreeTask
  <1> QED BY <1>0, <1>1, <1>2, <1>3, <1>4, OthersMove

\* What the status says, in terms of the lives of the rows.
StatusBacked(i, s) ==
    /\ s = "completed" => \E k \in Kinds \ {"thumb"} : Life[<<i, k>>] \in Ended
    /\ s = "thumbnailCompleted" => "thumb" \in Kinds /\ Life[<<i, "thumb">>] \in Ended
StatusesBacked == \A i \in Images : StatusBacked(i, image[i].status)

LEMMA BackedLives == TypeOK /\ StatusesBacked => SuccessIsBacked
  <1> SUFFICES ASSUME TypeOK, StatusesBacked PROVE SuccessIsBacked
    OBVIOUS
  <1>1. \A i \in Images, k \in Kinds : 
           Life[<<i, k>>] \in Ended =>
              row[<<i, k>>].gone \/ row[<<i, k>>].st \in {"completed", "failed"}
    <2>1. \A v \in Variants : Life[v] = LifeOf(row[v]) /\ row[v].st \in RowStatus
      BY Mapped DEF TypeOK, Row
    <2> QED BY <2>1 DEF Variants, LifeOf, Ended, RowStatus
  <1> QED BY <1>1 DEF StatusesBacked, StatusBacked, SuccessIsBacked

\* The status a task gives its image at the end of runPipeline.
LEMMA ResolveBacked ==
    ASSUME TypeOK, TasksFollow, ResultsAreBacked, NEW t \in Tasks,
           task[t].pc = "save", task[t].todo = {}, ~task[t].bad
    PROVE  StatusBacked(task[t].img, Resolve(task[t].res))
  <1>1. /\ FailuresCount(task[t]) /\ task[t].res \in SUBSET Kinds
        /\ \A k \in task[t].res :
              Life[<<task[t].img, k>>] \in Ended \/ (k = "avif" /\ "webp" \in task[t].vs)
    BY TaskContext DEF TasksFollow, ResultsAreBacked, At
  <1>2. CASE {"webp", "avif"} \cap task[t].res # {}
    <2>1. ~task[t].big
      BY <1>1, <1>2 DEF FailuresCount, Formats
    <2>2. "webp" \in task[t].vs => "webp" \in task[t].res
      BY <1>1, <2>1 DEF FailuresCount
    <2>3. CASE "webp" \in task[t].res
      BY <1>1, <1>2, <2>3 DEF StatusBacked, Resolve
    <2>4. CASE "webp" \notin task[t].res
      BY <1>1, <1>2, <2>2, <2>4 DEF StatusBacked, Resolve
    <2> QED BY <2>3, <2>4
  <1>3. CASE {"webp", "avif"} \cap task[t].res = {}
    BY <1>1, <1>3 DEF StatusBacked, Resolve
  <1> QED BY <1>2, <1>3

LEMMA StatusesStayBacked ==
    ASSUME IndInv, RowsAreKnown, ResultsAreBacked, StatusesBacked, [Next]_vars
    PROVE  StatusesBacked'
  <1>0. /\ TypeOK /\ TasksFollow /\ image \in [Images -> Image]
        /\ \A w \in Variants : Life[w] \in Ended => Life'[w] \in Ended
    BY LivesStay DEF IndInv, RowsAreKnown, TypeOK
  <1> DEFINE Good(i) ==
        /\ image'[i].status = "completed" => \E k \in Kinds \ {"thumb"} : Life'[<<i, k>>] \in Ended
        /\ image'[i].status = "thumbnailCompleted" =>
              "thumb" \in Kinds /\ Life'[<<i, "thumb">>] \in Ended
  <1> SUFFICES ASSUME NEW i \in Images PROVE Good(i)
    BY DEF StatusesBacked, StatusBacked
  <1>1. ASSUME NEW s, StatusBacked(i, s), image'[i].status = s PROVE Good(i)
    BY <1>0, <1>1 DEF StatusBacked, Variants
  <1>2. ASSUME image'[i].status = image[i].status PROVE Good(i)
    BY <1>1, <1>2 DEF StatusesBacked
  <1>3. ASSUME image'[i].status \notin {"thumbnailCompleted", "completed"} PROVE Good(i)
    BY <1>3
  <1>4. ASSUME NEW t \in Tasks, TaskStep(t) PROVE Good(i)
    <2>0. task[t].img \in Images
      BY <1>0, TaskContext
    <2>1. ASSUME NEW s, SetImage(task[t].img, s)
          PROVE  image'[i].status = IF i = task[t].img THEN s ELSE image[i].status
      BY <1>0, <2>0, <2>1 DEF SetImage, Marked
    <2>2. CASE SetStatus(t)
      <3>1. CASE UNCHANGED image
        BY <1>2, <3>1
      <3>2. CASE SetImage(task[t].img, IF task[t].bad THEN "failed" ELSE Resolve(task[t].res))
        <4>1. CASE i # task[t].img
          BY <1>2, <2>1, <3>2, <4>1
        <4>2. CASE task[t].bad
          BY <1>2, <1>3, <2>1, <3>2, <4>2
        <4>3. CASE i = task[t].img /\ ~task[t].bad
          <5>1. task[t].pc = "save" /\ task[t].todo = {}
            BY <1>0, <2>2, <4>3 DEF SetStatus, TasksFollow, FailuresCount
          <5>2. image'[i].status = Resolve(task[t].res)
            BY <2>1, <3>2, <4>3
          <5> QED BY <1>0, <1>1, <4>3, <5>1, <5>2, ResolveBacked
        <4> QED BY <4>1, <4>2, <4>3
      <3> QED BY <2>2, <3>1, <3>2 DEF SetStatus
    <2>3. CASE Finish(t)
      BY <1>2, <1>3, <2>1, <2>3 DEF Finish
    <2>4. CASE TakeSlot(t)
      <3>1. \A q : [image[i] EXCEPT !.age = q].status = image[i].status
        BY <1>0 DEF Image
      <3>2. image'[i] \in {image[i], [image[i] EXCEPT !.age = 0]}
        BY <2>4 DEF TakeSlot
      <3> QED BY <1>2, <3>1, <3>2
    <2> QED BY <1>2, <1>4, <2>2, <2>3, <2>4 DEF TaskStep, Start, Acquire, AcquireFails, Register,
            SlotTimeout, MarkFailed, GetFile, Thumbnail, LoadImage, FullVariant, Save, Panic, Finalize
  <1>5. CASE \A j \in Images : Promises(j)' => image'[j].status = image[j].status
    BY <1>2, <1>3, <1>5 DEF Promises
  <1> QED BY <1>0, <1>4, <1>5, OthersMove

\* An image's status promises readers no variant that is still to come: the row
\* of a kind it promises was made, failed or deleted, in whatever order tasks,
\* calls, sweeps and resets write the two tables.
THEOREM SuccessHasBacking == Spec => []SuccessIsBacked
  <1>1. Init => ResultsAreBacked /\ StatusesBacked
    BY DEF Init, ResultsAreBacked, StatusesBacked, StatusBacked, FreeTask, Marked
  <1>2. IndInv /\ RowsAreKnown /\ ResultsAreBacked /\ StatusesBacked /\ [Next]_vars
           => ResultsAreBacked' /\ StatusesBacked'
    BY ResultsStayBacked, StatusesStayBacked
  <1>3. IndInv /\ StatusesBacked => SuccessIsBacked
    BY BackedLives DEF IndInv
  <1> QED BY <1>1, <1>2, <1>3, RowsStayKnown, PTL DEF Spec

-----------------------------------------------------------------------------
(***************************************************************************)
(* Registry and permits. A task's entry in the registry says at every      *)
(* moment what the task has still to answer for, and the permits taken are *)
(* those of the tasks that decode an image.                                *)
(***************************************************************************)

Registering == Slotted \cup {"slot", "giveup"}
Decoding == {t \in Tasks : task[t].pc \in Slotted}

\* What a step of task t does to its lease and to the permits.
Moves(t) ==
    /\ \A u \in Tasks \ {t} : task'[u] = task[u] /\ lease'[u] = lease[u]
    /\ lease'[t].held <=> task'[t].pc \in Registering
    /\ lease'[t].held => lease'[t].kinds = task'[t].tracked
    /\ \/ (task'[t].pc \in Slotted <=> task[t].pc \in Slotted) /\ slots' = slots
       \/ /\ task[t].pc \notin Slotted /\ task'[t].pc \in Slotted
          /\ slots < MaxConcurrentImages /\ slots' = slots + 1
       \/ /\ task[t].pc \in Slotted /\ task'[t].pc \notin Slotted
          /\ slots' = Released

LEMMA MovesContext ==
    ASSUME IndInv, RegistryMirrorsTasks, NEW t \in Tasks
    PROVE  /\ task \in [Tasks -> Task] /\ lease \in [Tasks -> Lease]
           /\ task[t] \in Task /\ lease[t] \in Lease
           /\ lease[t].held <=> task[t].pc \in Registering
           /\ lease[t].held => lease[t].kinds = task[t].tracked
           /\ task[t].mark # {} => task[t].pc \in {"giveup", "load", "full", "save"}
           /\ \A new : Go(t, new) => /\ task'[t] = new
                                     /\ \A u \in Tasks \ {t} : task'[u] = task[u]
           /\ \A S : Sync(t, S) => /\ \A u \in Tasks \ {t} : lease'[u] = lease[u]
                                   /\ lease'[t].held = lease[t].held
                                   /\ lease[t].held => lease'[t].kinds = S
  <1>1. task \in [Tasks -> Task] /\ lease \in [Tasks -> Lease] /\ task[t] \in Task /\ lease[t] \in Lease
    BY DEF IndInv, TypeOK
  <1>2. /\ lease[t].held <=> task[t].pc \in Registering
        /\ lease[t].held => lease[t].kinds = task[t].tracked
    BY DEF RegistryMirrorsTasks, Registering
  <1>3. task[t].mark # {} => task[t].pc \in {"giveup", "load", "full", "save"}
    BY DEF IndInv, TasksAreCoherent
  <1>4. \A new : Go(t, new) => /\ task'[t] = new
                               /\ \A u \in Tasks \ {t} : task'[u] = task[u]
    BY <1>1 DEF Go
  <1>5. \A S : Sync(t, S) => /\ \A u \in Tasks \ {t} : lease'[u] = lease[u]
                             /\ lease'[t].held = lease[t].held
                             /\ lease[t].held => lease'[t].kinds = S
    BY <1>1 DEF Sync, Lease
  <1> QED BY <1>1, <1>2, <1>3, <1>4, <1>5

\* Steps that neither register nor take or return a permit.
LEMMA KeepMoves ==
    ASSUME IndInv, RegistryMirrorsTasks, NEW t \in Tasks, NEW new, Go(t, new),
           UNCHANGED <<lease, slots>>,
           new.pc \in Registering <=> task[t].pc \in Registering,
           new.pc \in Slotted <=> task[t].pc \in Slotted,
           task[t].pc \in Registering => new.tracked = task[t].tracked
    PROVE  Moves(t)
  <1> QED BY MovesContext DEF Moves

LEMMA SyncMoves ==
    ASSUME IndInv, RegistryMirrorsTasks, NEW t \in Tasks, NEW new, NEW S, Go(t, new), Sync(t, S),
           UNCHANGED slots,
           task[t].pc \in Registering, new.pc \in Registering,
           new.pc \in Slotted <=> task[t].pc \in Slotted,
           new.tracked = S
    PROVE  Moves(t)
  <1> QED BY MovesContext DEF Moves

LEMMA ClaimMoves ==
    ASSUME IndInv, RegistryMirrorsTasks, NEW t \in Tasks,
           Start(t) \/ Acquire(t) \/ AcquireFails(t) \/ Register(t)
              \/ TakeSlot(t) \/ SlotTimeout(t)
    PROVE  Moves(t)
  <1>1. task[t] \in Task
    BY MovesContext
  <1>2. CASE Start(t)
    <2> DEFINE new == [task[t] EXCEPT !.pc = "acquire", !.todo = task[t].vs, !.ctx = 0]
    <2>1. Go(t, new) /\ task[t].pc = "queued" /\ UNCHANGED <<lease, slots>>
      BY <1>2 DEF Start
    <2>2. new.pc = "acquire"
      BY <1>1 DEF Task
    <2> QED BY <2>1, <2>2, KeepMoves DEF Registering, Slotted
  <1>3. CASE Acquire(t)
    <2> DEFINE k == First(task[t].todo)
               new == [task[t] EXCEPT !.todo = @ \ {k}, !.tracked = @ \cup {k}]
    <2>1. Go(t, new) /\ task[t].pc = "acquire" /\ UNCHANGED <<lease, slots>>
      BY <1>3 DEF Acquire
    <2>2. new.pc = "acquire"
      BY <1>1, <2>1 DEF Task
    <2> QED BY <2>1, <2>2, KeepMoves DEF Registering, Slotted
  <1>4. CASE AcquireFails(t)
    <2> DEFINE new == [task[t] EXCEPT !.pc = "finalize", !.todo = task[t].tracked]
    <2>1. Go(t, new) /\ task[t].pc = "acquire" /\ UNCHANGED <<lease, slots>>
      BY <1>4 DEF AcquireFails
    <2>2. new.pc = "finalize"
      BY <1>1 DEF Task
    <2> QED BY <2>1, <2>2, KeepMoves DEF Registering, Slotted
  <1>5. CASE Register(t)
    <2> DEFINE new == [task[t] EXCEPT !.pc = "slot"]
    <2>1. /\ Go(t, new) /\ task[t].pc = "acquire" /\ UNCHANGED slots
          /\ lease' = [lease EXCEPT ![t] = [held |-> TRUE, kinds |-> task[t].tracked]]
      BY <1>5 DEF Register
    <2>2. new.pc = "slot" /\ new.tracked = task[t].tracked
      BY <1>1 DEF Task
    <2>3. lease'[t] = [held |-> TRUE, kinds |-> task[t].tracked]
          /\ \A u \in Tasks \ {t} : lease'[u] = lease[u]
      BY <2>1, MovesContext
    <2> HIDE DEF new
    <2> QED BY <2>1, <2>2, <2>3, MovesContext DEF Moves, Registering, Slotted
  <1>6. CASE TakeSlot(t)
    <2> DEFINE new == [task[t] EXCEPT !.pc = "file"]
    <2>1. /\ Go(t, new) /\ task[t].pc = "slot" /\ UNCHANGED lease
          /\ slots < MaxConcurrentImages /\ slots' = slots + 1
      BY <1>6 DEF TakeSlot
    <2>2. new.pc = "file" /\ new.tracked = task[t].tracked
      BY <1>1 DEF Task
    <2> HIDE DEF new
    <2> QED BY <2>1, <2>2, MovesContext DEF Moves, Registering, Slotted
  <1>7. CASE SlotTimeout(t)
    <2> DEFINE new == [task[t] EXCEPT !.pc = "giveup", !.mark = task[t].vs, !.bad = TRUE]
    <2>1. Go(t, new) /\ task[t].pc = "slot" /\ UNCHANGED <<lease, slots>>
      BY <1>7 DEF SlotTimeout
    <2>2. new.pc = "giveup" /\ new.tracked = task[t].tracked
      BY <1>1 DEF Task
    <2> QED BY <2>1, <2>2, KeepMoves DEF Registering, Slotted
  <1> QED BY <1>2, <1>3, <1>4, <1>5, <1>6, <1>7

LEMMA SkipMoves ==
    ASSUME IndInv, RegistryMirrorsTasks, NEW t \in Tasks, NEW k, NEW new \in Task,
           SkipVariant(t, k, new), UNCHANGED slots,
           task[t].pc \in Slotted, new.pc \in Slotted, new.tracked = task[t].tracked
    PROVE  Moves(t)
  <1>1. CASE Go(t, new) /\ UNCHANGED lease
    BY <1>1, KeepMoves DEF Registering
  <1>2. CASE Go(t, [new EXCEPT !.tracked = @ \ {k}]) /\ Sync(t, task[t].tracked \ {k})
    <2> DEFINE less == [new EXCEPT !.tracked = @ \ {k}]
    <2>1. less.pc = new.pc /\ less.tracked = task[t].tracked \ {k}
      BY DEF Task
    <2> HIDE DEF less
    <2>2. Go(t, less)
      BY <1>2 DEF less
    <2> QED BY <1>2, <2>1, <2>2, SyncMoves DEF Registering
  <1> QED BY <1>1, <1>2 DEF SkipVariant

LEMMA WorkMoves ==
    ASSUME IndInv, RegistryMirrorsTasks, NEW t \in Tasks,
           MarkFailed(t) \/ GetFile(t) \/ Thumbnail(t) \/ LoadImage(t)
              \/ FullVariant(t) \/ Save(t)
    PROVE  Moves(t)
  <1>1. task[t] \in Task /\ (task[t].mark # {} => task[t].pc \in {"giveup", "load", "full", "save"})
    BY MovesContext
  <1>2. CASE MarkFailed(t)
    <2> DEFINE k == First(task[t].mark)
               less == [task[t] EXCEPT !.mark = @ \ {k}, !.tracked = @ \ {k}]
               same == [task[t] EXCEPT !.mark = @ \ {k}]
    <2>1. /\ less.pc = task[t].pc /\ less.tracked = task[t].tracked \ {k}
          /\ same.pc = task[t].pc /\ same.tracked = task[t].tracked
      BY <1>1 DEF Task
    <2>2. task[t].pc \in {"giveup", "load", "full", "save"} /\ UNCHANGED slots
      BY <1>1, <1>2 DEF MarkFailed
    <2>3. \/ Go(t, less) /\ Sync(t, task[t].tracked \ {k})
          \/ Go(t, same) /\ UNCHANGED lease
      BY <1>2 DEF MarkFailed
    <2> HIDE DEF less, same
    <2>4. CASE Go(t, less) /\ Sync(t, task[t].tracked \ {k})
      BY <2>1, <2>2, <2>4, SyncMoves DEF Registering, Slotted
    <2>5. CASE Go(t, same) /\ UNCHANGED lease
      BY <2>1, <2>2, <2>5, KeepMoves
    <2> QED BY <2>3, <2>4, <2>5
  <1>3. CASE GetFile(t)
    <2> DEFINE next == IF "thumb" \in task[t].vs THEN "thumb" ELSE "load"
               on == [task[t] EXCEPT !.pc = next]
               bad == [task[t] EXCEPT !.pc = "save", !.mark = task[t].vs, !.bad = TRUE]
    <2>1. /\ on.pc \in {"thumb", "load"} /\ on.tracked = task[t].tracked
          /\ bad.pc = "save" /\ bad.tracked = task[t].tracked
      BY <1>1 DEF Task
    <2>2. task[t].pc = "file" /\ UNCHANGED <<lease, slots>> /\ (Go(t, on) \/ Go(t, bad))
      BY <1>3 DEF GetFile
    <2> HIDE DEF on, bad
    <2> QED BY <2>1, <2>2, KeepMoves DEF Registering, Slotted
  <1>4. CASE Thumbnail(t)
    <2> DEFINE next == IF task[t].vs = {"thumb"} THEN "save" ELSE "load"
               left == IF next = "save" THEN {"thumb"} ELSE {}
               ok == [task[t] EXCEPT !.res = {"thumb"}, !.pc = next, !.todo = left]
               err == [task[t] EXCEPT !.mark = {"thumb"}, !.bad = TRUE, !.pc = next]
               skip == [task[t] EXCEPT !.pc = next]
    <2>1. next \in {"save", "load"}
      OBVIOUS
    <2>2. /\ ok.pc = next /\ ok.tracked = task[t].tracked
          /\ err.pc = next /\ err.tracked = task[t].tracked
          /\ skip.pc = next /\ skip.tracked = task[t].tracked
      BY <1>1 DEF Task
    <2>3. skip \in Task
      BY <1>1, <2>1 DEF Task, Running, Slotted
    <2>4. /\ task[t].pc = "thumb" /\ UNCHANGED slots
          /\ \/ (Go(t, ok) \/ Go(t, err)) /\ UNCHANGED lease
             \/ SkipVariant(t, "thumb", skip)
      BY <1>4 DEF Thumbnail
    <2> HIDE DEF next, left, ok, err, skip
    <2>5. CASE (Go(t, ok) \/ Go(t, err)) /\ UNCHANGED lease
      BY <2>1, <2>2, <2>4, <2>5, KeepMoves DEF Registering, Slotted
    <2>6. CASE SkipVariant(t, "thumb", skip)
      BY <2>1, <2>2, <2>3, <2>4, <2>6, SkipMoves DEF Slotted
    <2> QED BY <2>4, <2>5, <2>6
  <1>5. CASE LoadImage(t)
    <2> DEFINE full == task[t].vs \ {"thumb"}
               on == [task[t] EXCEPT !.pc = "full", !.todo = full]
               bad == [task[t] EXCEPT !.pc = "full", !.todo = full, !.mark = full, !.bad = TRUE]
    <2>1. /\ on.pc = "full" /\ on.tracked = task[t].tracked
          /\ bad.pc = "full" /\ bad.tracked = task[t].tracked
      BY <1>1 DEF Task
    <2>2. task[t].pc = "load" /\ UNCHANGED <<lease, slots>> /\ (Go(t, on) \/ Go(t, bad))
      BY <1>5 DEF LoadImage
    <2> HIDE DEF on, bad
    <2> QED BY <2>1, <2>2, KeepMoves DEF Registering, Slotted
  <1>6. CASE FullVariant(t)
    <2> DEFINE k == First(task[t].todo)
               next == Visited(t, k, task[t].res)
               ok == Visited(t, k, task[t].res \cup {k})
               err == [next EXCEPT !.mark = {k}, !.bad = @ \/ Required(t, k)]
               skip == [next EXCEPT !.big = @ \/ k = "webp"]
    <2>1. k \in Kinds
      BY <1>1, <1>6, FirstIn DEF FullVariant, Task
    <2>2. ASSUME NEW R \in SUBSET Kinds
          PROVE  /\ Visited(t, k, R) \in Task
                 /\ Visited(t, k, R).pc \in {"save", "full"}
                 /\ Visited(t, k, R).tracked = task[t].tracked
      <3> DEFINE rest == task[t].todo \ {k}
                 p == IF rest = {} THEN "save" ELSE "full"
                 left == IF rest = {} THEN R ELSE rest
      <3>1. p \in {"save", "full"} /\ left \in SUBSET Kinds
        BY <1>1 DEF Task
      <3>2. Visited(t, k, R) = [task[t] EXCEPT !.res = R, !.pc = p, !.todo = left]
        BY DEF Visited
      <3> HIDE DEF p, left
      <3> QED BY <1>1, <3>1, <3>2 DEF Task, Running, Slotted
    <2>3. task[t].res \in SUBSET Kinds /\ (task[t].res \cup {k}) \in SUBSET Kinds
      BY <1>1, <2>1 DEF Task
    <2>4. /\ next \in Task /\ next.pc \in {"save", "full"} /\ next.tracked = task[t].tracked
          /\ ok.pc \in {"save", "full"} /\ ok.tracked = task[t].tracked
      BY <2>2, <2>3
    <2>5. (next.big \/ k = "webp") \in BOOLEAN
      BY <2>4 DEF Task
    <2>6. \A b \in BOOLEAN : /\ [next EXCEPT !.big = b] \in Task
                             /\ [next EXCEPT !.big = b].pc = next.pc
                             /\ [next EXCEPT !.big = b].tracked = next.tracked
      BY <2>4 DEF Task
    <2>7. skip \in Task /\ skip.pc = next.pc /\ skip.tracked = next.tracked
      BY <2>5, <2>6
    <2>8. err.pc = next.pc /\ err.tracked = next.tracked
      BY <2>4 DEF Task
    <2>9. /\ task[t].pc = "full" /\ UNCHANGED slots
          /\ \/ (Go(t, ok) \/ Go(t, err)) /\ UNCHANGED lease
             \/ SkipVariant(t, k, skip)
      BY <1>6 DEF FullVariant
    <2> HIDE DEF next, ok, err, skip, k
    <2>10. CASE (Go(t, ok) \/ Go(t, err)) /\ UNCHANGED lease
      BY <2>4, <2>8, <2>9, <2>10, KeepMoves DEF Registering, Slotted
    <2>11. CASE SkipVariant(t, k, skip)
      BY <2>4, <2>7, <2>9, <2>11, SkipMoves DEF Slotted
    <2> QED BY <2>9, <2>10, <2>11
  <1>7. CASE Save(t)
    <2> DEFINE k == First(task[t].todo)
               done == [task[t] EXCEPT !.todo = @ \ {k}, !.tracked = @ \ {k}]
               bad == [task[t] EXCEPT !.todo = @ \ {k}, !.mark = {k}, !.bad = @ \/ Required(t, k)]
    <2>1. /\ done.pc = task[t].pc /\ done.tracked = task[t].tracked \ {k}
          /\ bad.pc = task[t].pc /\ bad.tracked = task[t].tracked
      BY <1>1 DEF Task
    <2>2. /\ task[t].pc = "save" /\ UNCHANGED slots
          /\ \/ Go(t, done) /\ Sync(t, task[t].tracked \ {k})
             \/ Go(t, bad) /\ UNCHANGED lease
      BY <1>7 DEF Save
    <2> HIDE DEF done, bad
    <2>3. CASE Go(t, done) /\ Sync(t, task[t].tracked \ {k})
      BY <2>1, <2>2, <2>3, SyncMoves DEF Registering, Slotted
    <2>4. CASE Go(t, bad) /\ UNCHANGED lease
      BY <2>1, <2>2, <2>4, KeepMoves DEF Registering, Slotted
    <2> QED BY <2>2, <2>3, <2>4
  <1> QED BY <1>2, <1>3, <1>4, <1>5, <1>6, <1>7

LEMMA UnwindMoves ==
    ASSUME IndInv, RegistryMirrorsTasks, NEW t \in Tasks, NEW new \in Task, Unwind(t, new)
    PROVE  Moves(t)
  <1> DEFINE out == [new EXCEPT !.pc = "finalize", !.todo = new.tracked]
  <1>1. out.pc = "finalize"
    BY DEF Task
  <1>2. /\ Go(t, out)
        /\ lease' = [lease EXCEPT ![t] = NoLease]
        /\ slots' = IF task[t].pc \in Slotted THEN Released ELSE slots
    BY DEF Unwind
  <1> HIDE DEF out
  <1>3. lease'[t] = NoLease /\ \A u \in Tasks \ {t} : lease'[u] = lease[u]
    BY <1>2, MovesContext
  <1>4. task'[t].pc = "finalize" /\ \A u \in Tasks \ {t} : task'[u] = task[u]
    BY <1>1, <1>2, MovesContext
  <1>5. "finalize" \notin Registering /\ "finalize" \notin Slotted
    BY DEF Registering, Slotted
  <1> QED BY <1>2, <1>3, <1>4, <1>5 DEF Moves, NoLease

LEMMA LeaveMoves ==
    ASSUME IndInv, RegistryMirrorsTasks, NEW t \in Tasks,
           SetStatus(t) \/ Panic(t) \/ Finalize(t) \/ Finish(t)
    PROVE  Moves(t)
  <1>1. task[t] \in Task
    BY MovesContext
  <1>2. CASE SetStatus(t)
    BY <1>1, <1>2, UnwindMoves DEF SetStatus
  <1>3. CASE Panic(t)
    <2>1. [task[t] EXCEPT !.panic = TRUE] \in Task
      BY <1>1 DEF Task
    <2> QED BY <1>3, <2>1, UnwindMoves DEF Panic
  <1>4. CASE Finalize(t)
    <2> DEFINE k == First(task[t].todo)
               new == [task[t] EXCEPT !.todo = @ \ {k}, !.tracked = @ \ {k}]
    <2>1. Go(t, new) /\ task[t].pc = "finalize" /\ UNCHANGED <<lease, slots>>
      BY <1>4 DEF Finalize
    <2>2. new.pc = "finalize"
      BY <1>1, <2>1 DEF Task
    <2> HIDE DEF new
    <2> QED BY <2>1, <2>2, KeepMoves DEF Registering, Slotted
  <1>5. CASE Finish(t)
    <2>1. Go(t, FreeTask) /\ task[t].pc = "finalize" /\ UNCHANGED <<lease, slots>>
      BY <1>5 DEF Finish
    <2>2. FreeTask.pc = "free"
      BY DEF FreeTask
    <2> QED BY <2>1, <2>2, KeepMoves DEF Registering, Slotted
  <1> QED BY <1>2, <1>3, <1>4, <1>5

---------------------------------------------------------------------------
\* Every step

\* The permits of the semaphore, with what the removal of a holder needs.
PermitInv == SlotsMatchHolders /\ IsFiniteSet(Decoding)

LEMMA MovesInv ==
    ASSUME IndInv, RegistryMirrorsTasks, PermitInv, NEW t \in Tasks, Moves(t)
    PROVE  RegistryMirrorsTasks' /\ PermitInv'
  <1>1. RegistryMirrorsTasks'
    <2> SUFFICES ASSUME NEW u \in Tasks
                 PROVE  /\ lease'[u].held <=> task'[u].pc \in Registering
                        /\ lease'[u].held => lease'[u].kinds = task'[u].tracked
      BY DEF RegistryMirrorsTasks, Registering
    <2>1. CASE u = t
      BY <2>1 DEF Moves
    <2>2. CASE u # t
      BY <2>2 DEF Moves, RegistryMirrorsTasks, Registering
    <2> QED BY <2>1, <2>2
  <1>2. IsFiniteSet(Decoding) /\ slots = Cardinality(Decoding) /\ slots <= MaxConcurrentImages
    BY DEF PermitInv, SlotsMatchHolders, Decoding
  <1>3. slots \in Nat /\ MaxConcurrentImages \in Nat
    BY PipelineAssumption DEF IndInv, TypeOK
  <1>4. IsFiniteSet(Decoding') /\ slots' = Cardinality(Decoding') /\ slots' <= MaxConcurrentImages
    <2>1. CASE (task'[t].pc \in Slotted <=> task[t].pc \in Slotted) /\ slots' = slots
      <3>1. Decoding' = Decoding
        BY <2>1 DEF Decoding, Moves
      <3> QED BY <1>2, <2>1, <3>1
    <2>2. CASE /\ task[t].pc \notin Slotted /\ task'[t].pc \in Slotted
               /\ slots < MaxConcurrentImages /\ slots' = slots + 1
      <3>1. Decoding' = Decoding \cup {t} /\ t \notin Decoding
        BY <2>2 DEF Decoding, Moves
      <3>2. IsFiniteSet(Decoding') /\ Cardinality(Decoding') = Cardinality(Decoding) + 1
        BY <1>2, <3>1, FS_AddElement
      <3> QED BY <1>2, <1>3, <2>2, <3>2
    <2>3. CASE /\ task[t].pc \in Slotted /\ task'[t].pc \notin Slotted
               /\ slots' = Released
      <3>1. Decoding' = Decoding \ {t} /\ t \in Decoding
        BY <2>3 DEF Decoding, Moves
      <3>2. IsFiniteSet(Decoding') /\ Cardinality(Decoding') = Cardinality(Decoding) - 1
        BY <1>2, <3>1, FS_RemoveElement
      <3>3. Cardinality(Decoding') \in Nat
        BY <3>2, FS_CardinalityType
      <3> QED BY <1>2, <1>3, <2>3, <3>2, <3>3 DEF Released
    <2> QED BY <2>1, <2>2, <2>3 DEF Moves
  <1> QED BY <1>1, <1>4 DEF PermitInv, SlotsMatchHolders, Decoding

\* Nobody but a task touches its lease or a permit; a restart starts afresh.
LEMMA OthersInv ==
    ASSUME IndInv, RegistryMirrorsTasks, PermitInv, UNCHANGED <<lease, slots>>,
           \A t \in Tasks : \/ task'[t].pc = task[t].pc /\ task'[t].tracked = task[t].tracked
                            \/ task[t].pc = "free" /\ task'[t].pc = "queued"
    PROVE  RegistryMirrorsTasks' /\ PermitInv'
  <1>1. RegistryMirrorsTasks'
    <2> SUFFICES ASSUME NEW u \in Tasks
                 PROVE  /\ lease[u].held <=> task'[u].pc \in Registering
                        /\ lease[u].held => lease[u].kinds = task'[u].tracked
      BY DEF RegistryMirrorsTasks, Registering
    <2>1. /\ lease[u].held <=> task[u].pc \in Registering
          /\ lease[u].held => lease[u].kinds = task[u].tracked
      BY DEF RegistryMirrorsTasks, Registering
    <2>2. "free" \notin Registering /\ "queued" \notin Registering
      BY DEF Registering, Slotted
    <2> QED BY <2>1, <2>2
  <1>2. Decoding' = Decoding
    BY DEF Decoding, Slotted
  <1> QED BY <1>1, <1>2 DEF PermitInv, SlotsMatchHolders, Decoding

LEMMA RestartInv ==
    ASSUME Restart
    PROVE  RegistryMirrorsTasks' /\ PermitInv'
  <1>1. /\ task' = [t \in Tasks |-> FreeTask] /\ lease' = [t \in Tasks |-> NoLease] /\ slots' = 0
    BY DEF Restart
  <1>2. RegistryMirrorsTasks'
    BY <1>1 DEF RegistryMirrorsTasks, FreeTask, NoLease, Slotted
  <1>3. Decoding' = {}
    BY <1>1 DEF Decoding, FreeTask, Slotted
  <1>4. IsFiniteSet(Decoding') /\ Cardinality(Decoding') = 0
    BY <1>3, FS_EmptySet
  <1> QED BY <1>1, <1>2, <1>4, PipelineAssumption DEF PermitInv, SlotsMatchHolders, Decoding

LEMMA RegistryStep ==
    ASSUME IndInv, RegistryMirrorsTasks, PermitInv, [Next]_vars
    PROVE  RegistryMirrorsTasks' /\ PermitInv'
  <1>0. task \in [Tasks -> Task]
    BY DEF IndInv, TypeOK
  <1>1. ASSUME UNCHANGED <<task, lease, slots>> PROVE RegistryMirrorsTasks' /\ PermitInv'
    BY <1>1, OthersInv
  <1>2. CASE UNCHANGED vars
    BY <1>1, <1>2 DEF vars
  <1>3. ASSUME NEW t \in Tasks, TaskStep(t) PROVE RegistryMirrorsTasks' /\ PermitInv'
    BY <1>3, ClaimMoves, WorkMoves, LeaveMoves, MovesInv DEF TaskStep
  <1>4. ASSUME NEW c \in Callers, NEW i \in Images, Trigger(c, i)
        PROVE  RegistryMirrorsTasks' /\ PermitInv'
    BY <1>1, <1>4 DEF Trigger, CallOnly
  <1>5. ASSUME NEW c \in Triggers, CallStep(c) PROVE RegistryMirrorsTasks' /\ PermitInv'
    <2>1. ASSUME NEW t \in Tasks, Submit(c, t) PROVE RegistryMirrorsTasks' /\ PermitInv'
      <3>1. UNCHANGED <<lease, slots>>
        BY <2>1 DEF Submit
      <3>2. /\ task[t].pc = "free"
            /\ task' = [task EXCEPT ![t] = [FreeTask EXCEPT !.pc = "queued",
                          !.img = call[c].img, !.vs = call[c].ready]]
        BY <2>1 DEF Submit
      <3>3. task'[t].pc = "queued" /\ \A u \in Tasks \ {t} : task'[u] = task[u]
        BY <1>0, <3>2 DEF FreeTask
      <3> QED BY <3>1, <3>2, <3>3, OthersInv
    <2> QED BY <1>1, <1>5, <2>1 DEF CallStep, Prepare, PrepareFails, Reject, MarkProcessing, AbortRow,
               AbortImage, CallOnly
  <1>6. CASE SweepStep
    BY <1>1, <1>6 DEF SweepStep, BeginSweep, RecoverRow, SweepTrigger, MarkStaleProcessingAsFailed,
       ResetStaleProcessingToNone, SweepError, SweepOnly
  <1>7. CASE ShutdownStep
    BY <1>1, <1>7, RestartInv DEF ShutdownStep, ClosePool, DrainDeadline, ResetVariantsToPending,
       ResetProcessingVariantStatus, Still
  <1>8. ASSUME NEW v \in Variants, RetryWindowEnds(v) PROVE RegistryMirrorsTasks' /\ PermitInv'
    BY <1>1, <1>8 DEF RetryWindowEnds
  <1>9. CASE Tick
    <2>1. UNCHANGED <<lease, slots>>
          /\ task' = [t \in Tasks |->
                  IF task[t].pc \in Running
                  THEN [task[t] EXCEPT !.ctx = Older(@, CtxTimeout)] ELSE task[t]]
      BY <1>9 DEF Tick
    <2>2. ASSUME NEW t \in Tasks
          PROVE  task'[t].pc = task[t].pc /\ task'[t].tracked = task[t].tracked
      <3>1. task[t] \in Task
        BY <1>0
      <3>2. /\ [task[t] EXCEPT !.ctx = Older(@, CtxTimeout)].pc = task[t].pc
            /\ [task[t] EXCEPT !.ctx = Older(@, CtxTimeout)].tracked = task[t].tracked
        BY <3>1 DEF Task
      <3> QED BY <2>1, <3>2
    <2> QED BY <2>1, <2>2, OthersInv
  <1> QED BY <1>2, <1>3, <1>4, <1>5, <1>6, <1>7, <1>8, <1>9 DEF Next

LEMMA RegistryInit == Init => RegistryMirrorsTasks /\ PermitInv
  <1> SUFFICES ASSUME Init PROVE RegistryMirrorsTasks /\ PermitInv
    OBVIOUS
  <1>1. /\ task = [t \in Tasks |-> FreeTask] /\ lease = [t \in Tasks |-> NoLease] /\ slots = 0
    BY DEF Init
  <1>2. RegistryMirrorsTasks
    BY <1>1 DEF RegistryMirrorsTasks, FreeTask, NoLease, Slotted
  <1>3. Decoding = {}
    BY <1>1 DEF Decoding, FreeTask, Slotted
  <1>4. IsFiniteSet(Decoding) /\ Cardinality(Decoding) = 0
    BY <1>3, FS_EmptySet
  <1> QED BY <1>1, <1>2, <1>4, PipelineAssumption DEF PermitInv, SlotsMatchHolders, Decoding

LEMMA RegistryAndPermits == Spec => [](RegistryMirrorsTasks /\ PermitInv)
  <1>1. IndInv /\ RegistryMirrorsTasks /\ PermitInv /\ [Next]_vars
           => RegistryMirrorsTasks' /\ PermitInv'
    BY RegistryStep
  <1> QED BY <1>1, RegistryInit, Invariance, PTL DEF Spec

\* The registry lists what the tasks in flight still answer for.
THEOREM RegistryIsExact == Spec => []RegistryMirrorsTasks
  <1> QED BY RegistryAndPermits, PTL

\* Every permit taken is one of a task that decodes an image, and there are no
\* more than the semaphore has, whichever way tasks end.
THEOREM PermitsAreHeld == Spec => []SlotsMatchHolders
  <1>1. PermitInv => SlotsMatchHolders
    BY DEF PermitInv
  <1> QED BY <1>1, RegistryAndPermits, PTL

=============================================================================
