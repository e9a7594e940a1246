---------------------------- MODULE WorkerPool ------------------------------
(***************************************************************************)
(* The worker pool (internal/worker/worker.go): a buffered channel, worker *)
(* goroutines that recover from panics, a Submit that waits for memory and *)
(* never blocks on the channel, and a shutdown that closes the channel     *)
(* under the feet of submitters and drains it up to a deadline.            *)
(*                                                                         *)
(* A job may submit further jobs while it runs (the tasks of the upload    *)
(* service trigger conversions), and some jobs hold a permit of the image  *)
(* processing semaphore.                                                   *)
(***************************************************************************)
EXTENDS Naturals, Sequences, FiniteSets

CONSTANTS
    Jobs,          \* the functions handed to Submit
    Heavy,         \* those that take a permit of the semaphore
    Parent,        \* Parent[j]: the job that submits j, or Request
    Request,       \* stands for a goroutine outside the pool
    PoolWorkers,   \* worker goroutines
    NoJob,         \* an idle worker's job
    ChanCap,       \* capacity of taskCh
    Permits,       \* MaxConcurrentImages
    Stoppers       \* goroutines that call ShutdownContext

ASSUME PoolAssumption ==
    /\ Heavy \subseteq Jobs
    /\ Request \notin Jobs
    /\ NoJob \notin Jobs
    /\ Parent \in [Jobs -> Jobs \cup {Request}]
    /\ PoolWorkers # {}
    /\ ChanCap \in Nat \ {0}
    /\ Permits \in Nat \ {0}

VARIABLES
    submit,      \* submit[j]: where the call Submit(j) is
    channel,     \* taskCh
    isClosed,    \* the flag set by the winner of the compare-and-swap
    chanClosed,  \* close(taskCh) has happened
    worker,      \* worker[w]: its job and where it is
    outcome,     \* outcome[j]: how job j ended
    permits,     \* permits taken from the processing semaphore
    stats,       \* submittedCount, executedCount, failedCount
    doneCh,      \* doneCh is closed: every worker has returned
    stopper      \* stopper[s]: where its ShutdownContext is

poolVars == <<submit, channel, isClosed, chanClosed, worker, outcome,
              permits, stats, doneCh, stopper>>

\* "sent" is the moment between the send and submittedCount.Add.
SubmitState == {"new", "waiting", "sent", "accepted", "refused"}
\* "taken" is the moment between the receive and executedCount.Add.
WorkerState == {"idle", "taken", "body", "permit", "exited"}
StopperState == {"idle", "won", "waiting", "graceful", "deadline"}

PoolTypeOK ==
    /\ submit \in [Jobs -> SubmitState]
    /\ channel \in Seq(Jobs) /\ Len(channel) <= ChanCap
    /\ isClosed \in BOOLEAN
    /\ chanClosed \in BOOLEAN
    /\ worker \in [PoolWorkers -> [job : Jobs \cup {NoJob}, at : WorkerState]]
    /\ outcome \in [Jobs -> {"none", "returned", "panicked"}]
    /\ permits \in 0 .. Permits
    /\ stats \in [submitted : Nat, executed : Nat, failed : Nat]
    /\ doneCh \in BOOLEAN
    /\ stopper \in [Stoppers -> StopperState]

PoolInit ==
    /\ submit = [j \in Jobs |-> "new"]
    /\ channel = <<>>
    /\ isClosed = FALSE
    /\ chanClosed = FALSE
    /\ worker = [w \in PoolWorkers |-> [job |-> NoJob, at |-> "idle"]]
    /\ outcome = [j \in Jobs |-> "none"]
    /\ permits = 0
    /\ stats = [submitted |-> 0, executed |-> 0, failed |-> 0]
    /\ doneCh = FALSE
    /\ stopper = [s \in Stoppers |-> "idle"]

---------------------------------------------------------------------------
\* Submit

\* The goroutine of j is one of a request, or the body of the job that
\* submits it; a body makes its calls one after the other.
CanCall(j) ==
    \/ Parent[j] = Request
    \/ /\ \E w \in PoolWorkers :
             worker[w].job = Parent[j] /\ worker[w].at \in {"body", "permit"}
       /\ \A k \in Jobs : Parent[k] = Parent[j] => submit[k] \notin {"waiting", "sent"}

\* The body of j is not inside a call of Submit of its own.
CallsDone(j) == \A k \in Jobs : Parent[k] = j => submit[k] \notin {"waiting", "sent"}

PoolKeep == UNCHANGED <<isClosed, chanClosed, doneCh, stopper>>

BeginSubmit(j) ==
    /\ submit[j] = "new"
    /\ CanCall(j)
    /\ submit' = [submit EXCEPT ![j] = IF isClosed THEN "refused" ELSE "waiting"]
    /\ UNCHANGED <<channel, worker, outcome, permits, stats>>
    /\ PoolKeep

\* waitForMemory: memory stays over the limit for backpressureTimeout.
MemoryTimeout(j) ==
    /\ submit[j] = "waiting"
    /\ submit' = [submit EXCEPT ![j] = "refused"]
    /\ UNCHANGED <<channel, worker, outcome, permits, stats>>
    /\ PoolKeep

\* Mutant: counted before the channel is asked, also when it is full.
SendCountingFirst(j) ==
    /\ submit[j] = "waiting"
    /\ IF chanClosed \/ Len(channel) = ChanCap
         THEN /\ submit' = [submit EXCEPT ![j] = "refused"]
              /\ stats' = [stats EXCEPT !.submitted = @ + 1]
              /\ UNCHANGED channel
         ELSE /\ submit' = [submit EXCEPT ![j] = "sent"]
              /\ channel' = Append(channel, j)
              /\ UNCHANGED stats
    /\ UNCHANGED <<worker, outcome, permits>>
    /\ PoolKeep

\* Mutant: a full channel grows.
SendUnbounded(j) ==
    /\ submit[j] = "waiting"
    /\ IF chanClosed
         THEN /\ submit' = [submit EXCEPT ![j] = "refused"]
              /\ UNCHANGED channel
         ELSE /\ submit' = [submit EXCEPT ![j] = "sent"]
              /\ channel' = Append(channel, j)
    /\ UNCHANGED <<worker, outcome, permits, stats>>
    /\ PoolKeep

\* The select after the wait, which may be long after isClosed was read.  A
\* send on the closed channel panics and the deferred recover refuses the job;
\* a full channel takes the default branch.
Send(j) ==
    /\ submit[j] = "waiting"
    /\ IF chanClosed \/ Len(channel) = ChanCap
         THEN /\ submit' = [submit EXCEPT ![j] = "refused"]
              /\ UNCHANGED channel
         ELSE /\ submit' = [submit EXCEPT ![j] = "sent"]
              /\ channel' = Append(channel, j)
    /\ UNCHANGED <<worker, outcome, permits, stats>>
    /\ PoolKeep

CountSubmitted(j) ==
    /\ submit[j] = "sent"
    /\ submit' = [submit EXCEPT ![j] = "accepted"]
    /\ stats' = [stats EXCEPT !.submitted = @ + 1]
    /\ UNCHANGED <<channel, worker, outcome, permits>>
    /\ PoolKeep

---------------------------------------------------------------------------
\* Workers

\* range over taskCh: a closed channel is drained before the loop ends.
Take(w) ==
    /\ worker[w].at = "idle"
    /\ channel # <<>>
    /\ worker' = [worker EXCEPT ![w] = [job |-> Head(channel), at |-> "taken"]]
    /\ channel' = Tail(channel)
    /\ UNCHANGED <<submit, outcome, permits, stats>>
    /\ PoolKeep

\* executeTaskWithRecovery counts the job, then calls it.
BeginJob(w) ==
    /\ worker[w].at = "taken"
    /\ worker' = [worker EXCEPT ![w].at = "body"]
    /\ stats' = [stats EXCEPT !.executed = @ + 1]
    /\ UNCHANGED <<submit, channel, outcome, permits>>
    /\ PoolKeep

\* ImageProcessingSemaphore.Acquire; a job whose context expires goes on to
\* its end without the permit (EndJob).
AcquirePermit(w) ==
    /\ worker[w].at = "body"
    /\ worker[w].job \in Heavy
    /\ permits < Permits
    /\ worker' = [worker EXCEPT ![w].at = "permit"]
    /\ permits' = permits + 1
    /\ UNCHANGED <<submit, channel, outcome, stats>>
    /\ PoolKeep

\* Mutant: a job that panics goes back into the channel.
EndJobRetrying(w) ==
    /\ worker[w].at \in {"body", "permit"}
    /\ CallsDone(worker[w].job)
    /\ \E how \in {"returned", "panicked"} :
          /\ outcome' = [outcome EXCEPT ![worker[w].job] = how]
          /\ stats' = [stats EXCEPT !.failed = IF how = "panicked" THEN @ + 1 ELSE @]
          /\ channel' = IF how = "panicked" /\ Len(channel) < ChanCap
                          THEN Append(channel, worker[w].job) ELSE channel
    /\ worker' = [worker EXCEPT ![w] = [job |-> NoJob, at |-> "idle"]]
    /\ permits' = IF worker[w].at = "permit" THEN permits - 1 ELSE permits
    /\ UNCHANGED submit
    /\ PoolKeep

\* The job returns, or panics and is recovered from; its deferred Release
\* gives back a permit it holds.  Either way the worker goes on.
EndJob(w) ==
    /\ worker[w].at \in {"body", "permit"}
    /\ CallsDone(worker[w].job)
    /\ \E how \in {"returned", "panicked"} :
          /\ outcome' = [outcome EXCEPT ![worker[w].job] = how]
          /\ stats' = [stats EXCEPT !.failed = IF how = "panicked" THEN @ + 1 ELSE @]
    /\ worker' = [worker EXCEPT ![w] = [job |-> NoJob, at |-> "idle"]]
    /\ permits' = IF worker[w].at = "permit" THEN permits - 1 ELSE permits
    /\ UNCHANGED <<submit, channel>>
    /\ PoolKeep

\* Mutant: a worker that sees the channel closed leaves what is in it.
ExitWorkerAtOnce(w) ==
    /\ worker[w].at = "idle"
    /\ chanClosed
    /\ worker' = [worker EXCEPT ![w].at = "exited"]
    /\ UNCHANGED <<submit, channel, outcome, permits, stats>>
    /\ PoolKeep

ExitWorker(w) ==
    /\ worker[w].at = "idle"
    /\ chanClosed
    /\ channel = <<>>
    /\ worker' = [worker EXCEPT ![w].at = "exited"]
    /\ UNCHANGED <<submit, channel, outcome, permits, stats>>
    /\ PoolKeep

\* The goroutine of NewPool that waits for the WaitGroup.
CloseDone ==
    /\ \A w \in PoolWorkers : worker[w].at = "exited"
    /\ ~ doneCh
    /\ doneCh' = TRUE
    /\ UNCHANGED <<submit, channel, worker, outcome, permits, stats,
                   isClosed, chanClosed, stopper>>

---------------------------------------------------------------------------
\* ShutdownContext, called by the shutdown path of serve and by Stop

PoolRest == UNCHANGED <<submit, channel, worker, outcome, permits, stats, doneCh>>

\* One caller wins the compare-and-swap and has the channel to close.
BeginStop(s) ==
    /\ stopper[s] = "idle"
    /\ stopper' = [stopper EXCEPT ![s] = IF isClosed THEN "waiting" ELSE "won"]
    /\ isClosed' = TRUE
    /\ UNCHANGED chanClosed
    /\ PoolRest

\* Mutant: the winner closes the channel only if it finds it empty.
CloseIfEmpty(s) ==
    /\ stopper[s] = "won"
    /\ stopper' = [stopper EXCEPT ![s] = "waiting"]
    /\ chanClosed' = (channel = <<>>)
    /\ UNCHANGED isClosed
    /\ PoolRest

CloseChannel(s) ==
    /\ stopper[s] = "won"
    /\ stopper' = [stopper EXCEPT ![s] = "waiting"]
    /\ chanClosed' = TRUE
    /\ UNCHANGED isClosed
    /\ PoolRest

StopGraceful(s) ==
    /\ stopper[s] = "waiting"
    /\ doneCh
    /\ stopper' = [stopper EXCEPT ![s] = "graceful"]
    /\ UNCHANGED <<isClosed, chanClosed>>
    /\ PoolRest

StopDeadline(s) ==
    /\ stopper[s] = "waiting"
    /\ stopper' = [stopper EXCEPT ![s] = "deadline"]
    /\ UNCHANGED <<isClosed, chanClosed>>
    /\ PoolRest

---------------------------------------------------------------------------
SubmitStep(j) == BeginSubmit(j) \/ MemoryTimeout(j) \/ Send(j) \/ CountSubmitted(j)
WorkerStep(w) ==
    Take(w) \/ BeginJob(w) \/ AcquirePermit(w) \/ EndJob(w) \/ ExitWorker(w)
StopStep(s) == BeginStop(s) \/ CloseChannel(s) \/ StopGraceful(s) \/ StopDeadline(s)

PoolNext ==
    \/ \E j \in Jobs : SubmitStep(j)
    \/ \E w \in PoolWorkers : WorkerStep(w)
    \/ CloseDone
    \/ \E s \in Stoppers : StopStep(s)

PoolSpec == PoolInit /\ [][PoolNext]_poolVars

\* Nobody has to submit or to stop; once begun, a call goes on, and a worker
\* with something to do does it: goroutines that wait for nothing but time.
PoolFairness ==
    /\ \A j \in Jobs :
          WF_poolVars(MemoryTimeout(j) \/ Send(j) \/ CountSubmitted(j))
    /\ \A w \in PoolWorkers : WF_poolVars(WorkerStep(w))
    /\ WF_poolVars(CloseDone)
    /\ \A s \in Stoppers :
          WF_poolVars(CloseChannel(s) \/ StopGraceful(s) \/ StopDeadline(s))

PoolFairSpec == PoolSpec /\ PoolFairness

---------------------------------------------------------------------------
\* Properties

Busy == {w \in PoolWorkers : worker[w].at \in {"taken", "body", "permit"}}
InChannel(j) == \E i \in 1 .. Len(channel) : channel[i] = j
OnWorker(j) == \E w \in PoolWorkers : worker[w].job = j

\* What JobsOnce calls the state of a job.
JobPhase(j) ==
    CASE submit[j] \in {"new", "waiting"} -> "new"
      [] submit[j] = "refused" -> "refused"
      [] submit[j] \in {"sent", "accepted"} /\ OnWorker(j) -> "running"
      [] submit[j] \in {"sent", "accepted"} /\ InChannel(j) -> "pending"
      [] OTHER -> "ended"

Once == INSTANCE JobsOnce WITH phase <- [j \in Jobs |-> JobPhase(j)]

\* A refused job never runs and an accepted one runs exactly once: through a
\* full channel, a close between the check of isClosed and the send, panics,
\* jobs that submit jobs, and a drain that is given up.
JobsRunOnce == Once!OnceSpec

\* ShutdownContext says "Stopped gracefully" only when nothing that was ever
\* accepted is left: the channel is empty, no worker has a job, and no call
\* that is still inside Submit can get one in.
GracefulMeansDrained ==
    (\E s \in Stoppers : stopper[s] = "graceful") =>
        /\ channel = <<>>
        /\ Busy = {}
        /\ \A j \in Jobs : submit[j] \in {"sent", "accepted"} => outcome[j] # "none"

\* The counters of GetStats account for every job, at every moment: what was
\* sent, counted or not, is in the channel, on its way or executed.
CountersReconcile ==
    /\ stats.submitted + Cardinality({j \in Jobs : submit[j] = "sent"})
         = stats.executed + Len(channel)
             + Cardinality({w \in PoolWorkers : worker[w].at = "taken"})
    /\ stats.failed = Cardinality({j \in Jobs : outcome[j] = "panicked"})

\* Nothing waits for ever on anything: with the workers stuck behind the
\* semaphore, memory and each other's submissions, a pool that is told to
\* stop still drains.
PoolDrains == isClosed ~> doneCh
=============================================================================
