----------------------------- MODULE MCServices ------------------------------
(***************************************************************************)
(* Two services of the server that share no variable, the worker pool and  *)
(* the cache of an image.  They are checked one at a time: a step of one   *)
(* commutes with every step of the other, so interleaving them shows       *)
(* nothing more.  The cache is checked with several casts, that is sets of *)
(* goroutines that take part.                                              *)
(***************************************************************************)
EXTENDS WorkerPool, ReadCache, TLC

CONSTANTS upload, convert, sweep, r1, r2, w1, w2

\* A job of a request that submits another one (upload, then conversion), and
\* one that comes from elsewhere.
MCJobs == {upload, convert, sweep}
MCParent == (upload :> Request) @@ (convert :> upload) @@ (sweep :> Request)
MCHeavy == {convert, sweep}

\* Who takes part: the pool, or goroutines around the cache with what they read.
VARIABLE cast

PoolOnly == [who |-> {}, read |-> "nothing"]
Casts == {PoolOnly,
          [who |-> {w1, w2}, read |-> "nothing"],
          [who |-> {r1, r2, w1}, read |-> "image"],
          [who |-> {r1, w1, w2}, read |-> "image"],
          [who |-> {r1, w1, w2}, read |-> "list"]}

vars == <<poolVars, cacheVars, cast>>

Init == PoolInit /\ CacheInit /\ cast \in Casts

\* Readers of the image meet writers of its row; readers of the list of variants
\* meet writers of all kinds.  Two writers alone have a version more.
RowWrite(w) == InsertImage(w) \/ UpdateImage(w) \/ DeleteImage(w) \/ ChangeStatusOnly(w)
MayWrite(w) ==
    /\ IF cast.read = "image" THEN RowWrite(w) ELSE BeginWrite(w)
    /\ cast.read # "nothing" => db'.image < MaxVersion /\ db'.list < MaxVersion

PoolPart == cast = PoolOnly /\ PoolNext /\ UNCHANGED cacheVars
CachePart ==
    /\ cast # PoolOnly
    /\ \/ cast.read = "image" /\ \E r \in Readers \cap cast.who : ReadImage(r)
       \/ cast.read = "list" /\ \E r \in Readers \cap cast.who : ReadList(r)
       \/ \E w \in Writers \cap cast.who : MayWrite(w) \/ FinishWrite(w)
       \/ Expire
    /\ UNCHANGED poolVars

Next == (PoolPart \/ CachePart) /\ UNCHANGED cast

Spec == Init /\ [][Next]_vars /\ PoolFairness /\ CacheFairness

TypeOK == PoolTypeOK /\ CacheTypeOK
=============================================================================
