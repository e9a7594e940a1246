-------------------------- MODULE Services_proofs ---------------------------
(***************************************************************************)
(* The two services in memory, for any jobs and workers and for any        *)
(* readers and writers: the pool runs every job it accepts once, and the   *)
(* cache of images answers with what the database holds.                   *)
(***************************************************************************)
EXTENDS MCServices, FiniteSetTheorems, TLAPS

-----------------------------------------------------------------------------
(***************************************************************************)
(* WorkerPool. It implements JobsOnce, a graceful shutdown has drained it, *)
(* and its counters account for every job, for any number of jobs, workers *)
(* and shutdowns and any capacities.                                       *)
(***************************************************************************)

Acc == {"sent", "accepted"}
WorkerRecord == [job : Jobs \cup {NoJob}, at : WorkerState]

\* A worker has a job from the moment it takes one to the job's end.
WorkersHoldJobs ==
    \A w \in PoolWorkers : worker[w].job = NoJob <=> worker[w].at \in {"idle", "exited"}

\* A job is in one place: once in the channel, or on one worker.
JobsInOnePlace ==
    /\ \A w, v \in PoolWorkers : worker[w].job = worker[v].job /\ worker[w].job # NoJob => w = v
    /\ \A i, k \in 1 .. Len(channel) : channel[i] = channel[k] => i = k
    /\ \A w \in PoolWorkers, i \in 1 .. Len(channel) : worker[w].job # channel[i]

\* What is in one of these places was sent.
PlacedWereSent ==
    \A j \in Jobs : InChannel(j) \/ OnWorker(j) => submit[j] \in Acc

\* What was sent and is in neither has ended.
GoneHaveEnded ==
    \A j \in Jobs : submit[j] \in Acc /\ ~ InChannel(j) /\ ~ OnWorker(j) => outcome[j] # "none"

\* A worker leaves a closed channel, and an empty one, which stays empty.
ExitedMeansDrained ==
    \A w \in PoolWorkers : worker[w].at = "exited" => chanClosed /\ channel = <<>>

DoneMeansExited ==
    /\ doneCh => \A w \in PoolWorkers : worker[w].at = "exited"
    /\ \A s \in Stoppers : stopper[s] = "graceful" => doneCh

\* The permits taken are those of the jobs that hold one.
Holders == {w \in PoolWorkers : worker[w].at = "permit"}
PermitsMatch == IsFiniteSet(Holders) /\ permits = Cardinality(Holders)

PoolInv ==
    /\ PoolTypeOK
    /\ WorkersHoldJobs
    /\ JobsInOnePlace
    /\ PlacedWereSent
    /\ GoneHaveEnded
    /\ ExitedMeansDrained
    /\ DoneMeansExited
    /\ PermitsMatch

---------------------------------------------------------------------------
\* Sequences

LEMMA AppendedJob ==
    ASSUME NEW s \in Seq(Jobs), NEW j \in Jobs
    PROVE  /\ Append(s, j) \in Seq(Jobs)
           /\ Len(Append(s, j)) = Len(s) + 1
           /\ Len(s) \in Nat
           /\ \A i \in 1 .. Len(s) : Append(s, j)[i] = s[i] /\ s[i] \in Jobs
           /\ Append(s, j)[Len(s) + 1] = j
           /\ \A k : (\E i \in 1 .. Len(Append(s, j)) : Append(s, j)[i] = k)
                        <=> k = j \/ (\E i \in 1 .. Len(s) : s[i] = k)
  <1>1. /\ Append(s, j) \in Seq(Jobs) /\ Len(Append(s, j)) = Len(s) + 1 /\ Len(s) \in Nat
        /\ \A i \in 1 .. Len(s) : Append(s, j)[i] = s[i] /\ s[i] \in Jobs
        /\ Append(s, j)[Len(s) + 1] = j
    OBVIOUS
  <1>2. 1 .. Len(s) + 1 = (1 .. Len(s)) \cup {Len(s) + 1}
    BY <1>1
  <1> QED BY <1>1, <1>2

LEMMA HeadAndTail ==
    ASSUME NEW s \in Seq(Jobs), s # <<>>
    PROVE  /\ Head(s) \in Jobs /\ Head(s) = s[1] /\ 1 \in 1 .. Len(s)
           /\ Tail(s) \in Seq(Jobs)
           /\ Len(s) \in Nat /\ Len(Tail(s)) = Len(s) - 1
           /\ \A i \in 1 .. Len(Tail(s)) : Tail(s)[i] = s[i + 1] /\ i + 1 \in 1 .. Len(s)
           /\ \A i \in 1 .. Len(s) : i # 1 => i - 1 \in 1 .. Len(Tail(s)) /\ Tail(s)[i - 1] = s[i]
  <1>1. /\ Head(s) \in Jobs /\ Head(s) = s[1] /\ Tail(s) \in Seq(Jobs)
        /\ Len(s) \in Nat /\ Len(s) # 0 /\ Len(Tail(s)) = Len(s) - 1
    OBVIOUS
  <1>2. \A i \in 1 .. Len(s) - 1 : Tail(s)[i] = s[i + 1]
    OBVIOUS
  <1> QED BY <1>1, <1>2

---------------------------------------------------------------------------
\* Steps that leave channel and workers alone

LEMMA SubmitOnlyInv ==
    ASSUME PoolInv, UNCHANGED <<channel, worker, outcome, permits>>,
           submit' \in [Jobs -> SubmitState],
           \A j \in Jobs : submit'[j] \in Acc <=> submit[j] \in Acc,
           stats' \in [submitted : Nat, executed : Nat, failed : Nat],
           chanClosed => chanClosed', chanClosed' \in BOOLEAN, isClosed' \in BOOLEAN,
           doneCh' \in BOOLEAN, stopper' \in [Stoppers -> StopperState],
           DoneMeansExited'
    PROVE  PoolInv'
  <1>1. PoolTypeOK'
    BY DEF PoolInv, PoolTypeOK
  <1>2. PlacedWereSent' /\ GoneHaveEnded'
    BY DEF PoolInv, PlacedWereSent, GoneHaveEnded, InChannel, OnWorker
  <1>3. WorkersHoldJobs' /\ JobsInOnePlace' /\ ExitedMeansDrained' /\ PermitsMatch'
    BY DEF PoolInv, WorkersHoldJobs, JobsInOnePlace, ExitedMeansDrained, PermitsMatch, Holders
  <1> QED BY <1>1, <1>2, <1>3 DEF PoolInv

LEMMA SubmitterInv ==
    ASSUME PoolInv, NEW j \in Jobs, BeginSubmit(j) \/ MemoryTimeout(j) \/ CountSubmitted(j)
    PROVE  PoolInv'
  <1>1. UNCHANGED <<channel, worker, outcome, permits, isClosed, chanClosed, doneCh, stopper>>
    BY DEF BeginSubmit, MemoryTimeout, CountSubmitted, PoolKeep
  <1>2. /\ submit' \in [Jobs -> SubmitState]
        /\ \A k \in Jobs : submit'[k] \in Acc <=> submit[k] \in Acc
    BY DEF BeginSubmit, MemoryTimeout, CountSubmitted, PoolInv, PoolTypeOK, SubmitState, Acc
  <1>3. stats' \in [submitted : Nat, executed : Nat, failed : Nat]
    BY DEF BeginSubmit, MemoryTimeout, CountSubmitted, PoolInv, PoolTypeOK
  <1>4. DoneMeansExited'
    BY <1>1 DEF PoolInv, DoneMeansExited
  <1> QED BY <1>1, <1>2, <1>3, <1>4, SubmitOnlyInv DEF PoolInv, PoolTypeOK

LEMMA StopperInv ==
    ASSUME PoolInv, NEW s \in Stoppers, StopStep(s)
    PROVE  PoolInv'
  <1>1. UNCHANGED <<submit, channel, worker, outcome, permits, stats, doneCh>>
    BY DEF StopStep, BeginStop, CloseChannel, StopGraceful, StopDeadline, PoolRest
  <1>2. /\ chanClosed => chanClosed'
        /\ chanClosed' \in BOOLEAN /\ isClosed' \in BOOLEAN
        /\ stopper' \in [Stoppers -> StopperState]
        /\ \A r \in Stoppers : stopper'[r] = "graceful" => stopper[r] = "graceful" \/ doneCh
    BY DEF StopStep, BeginStop, CloseChannel, StopGraceful, StopDeadline, PoolInv, PoolTypeOK,
           StopperState
  <1>3. DoneMeansExited'
    BY <1>1, <1>2 DEF PoolInv, DoneMeansExited
  <1> QED BY <1>1, <1>2, <1>3, SubmitOnlyInv DEF PoolInv, PoolTypeOK

LEMMA DoneInv ==
    ASSUME PoolInv, CloseDone
    PROVE  PoolInv'
  <1>1. UNCHANGED <<submit, channel, worker, outcome, permits, stats, isClosed, chanClosed, stopper>>
        /\ doneCh' = TRUE /\ \A w \in PoolWorkers : worker[w].at = "exited"
    BY DEF CloseDone
  <1>2. DoneMeansExited'
    BY <1>1 DEF PoolInv, DoneMeansExited
  <1> QED BY <1>1, <1>2, SubmitOnlyInv DEF PoolInv, PoolTypeOK

---------------------------------------------------------------------------
\* The send

\* What a send that is accepted does: chanClosed may be set right after it, and
\* then the job is drained with the others.
LEMMA SendInv ==
    ASSUME PoolInv, NEW j \in Jobs, Send(j)
    PROVE  PoolInv'
  <1>1. UNCHANGED <<worker, outcome, permits, stats, isClosed, chanClosed, doneCh, stopper>>
    BY DEF Send, PoolKeep
  <1>2. submit[j] = "waiting" /\ submit \in [Jobs -> SubmitState]
    BY DEF Send, PoolInv, PoolTypeOK
  <1>3. DoneMeansExited'
    BY <1>1 DEF PoolInv, DoneMeansExited
  <1>4. CASE chanClosed \/ Len(channel) = ChanCap
    <2>1. submit' = [submit EXCEPT ![j] = "refused"] /\ UNCHANGED channel
      BY <1>4 DEF Send
    <2>2. /\ submit' \in [Jobs -> SubmitState]
          /\ \A k \in Jobs : submit'[k] \in Acc <=> submit[k] \in Acc
      BY <1>2, <2>1 DEF SubmitState, Acc
    <2> QED BY <1>1, <1>3, <2>1, <2>2, SubmitOnlyInv DEF PoolInv, PoolTypeOK
  <1>5. CASE ~ (chanClosed \/ Len(channel) = ChanCap)
    <2>1. submit' = [submit EXCEPT ![j] = "sent"] /\ channel' = Append(channel, j)
      BY <1>5 DEF Send
    <2>2. channel \in Seq(Jobs) /\ Len(channel) <= ChanCap /\ ChanCap \in Nat
      BY PoolAssumption DEF PoolInv, PoolTypeOK
    <2>3. /\ channel' \in Seq(Jobs) /\ Len(channel') = Len(channel) + 1 /\ Len(channel) \in Nat
          /\ \A i \in 1 .. Len(channel) : channel'[i] = channel[i]
          /\ channel'[Len(channel) + 1] = j
      BY <2>1, <2>2, AppendedJob
    <2>4. \A k \in Jobs : InChannel(k)' <=> k = j \/ InChannel(k)
      BY <2>1, <2>2, AppendedJob DEF InChannel
    <2>5. \A k \in Jobs : OnWorker(k)' <=> OnWorker(k)
      BY <1>1 DEF OnWorker
    <2>6. ~ InChannel(j) /\ ~ OnWorker(j)
      BY <1>2 DEF PoolInv, PlacedWereSent, Acc
    <2>7. PoolTypeOK'
      BY <1>1, <1>2, <1>5, <2>1, <2>2, <2>3 DEF PoolInv, PoolTypeOK, SubmitState
    <2>8. PlacedWereSent' /\ GoneHaveEnded'
      BY <1>1, <1>2, <2>1, <2>4, <2>5 DEF PoolInv, PlacedWereSent, GoneHaveEnded, Acc
    <2>9. JobsInOnePlace'
      <3>1. \A i, k \in 1 .. Len(channel') : channel'[i] = channel'[k] => i = k
        BY <2>3, <2>6 DEF PoolInv, JobsInOnePlace, InChannel
      <3>2. \A w \in PoolWorkers, i \in 1 .. Len(channel') : worker[w].job # channel'[i]
        BY <2>3, <2>6 DEF PoolInv, JobsInOnePlace, OnWorker
      <3> QED BY <1>1, <3>1, <3>2 DEF PoolInv, JobsInOnePlace
    <2>10. WorkersHoldJobs' /\ PermitsMatch'
      BY <1>1 DEF PoolInv, WorkersHoldJobs, PermitsMatch, Holders
    <2>11. ExitedMeansDrained'
      BY <1>1, <1>5 DEF PoolInv, ExitedMeansDrained
    <2> QED BY <1>3, <2>7, <2>8, <2>9, <2>10, <2>11 DEF PoolInv
  <1> QED BY <1>4, <1>5

---------------------------------------------------------------------------
\* Workers

LEMMA TakeInv ==
    ASSUME PoolInv, NEW w \in PoolWorkers, Take(w)
    PROVE  PoolInv'
  <1> DEFINE j == Head(channel)
  <1>1. /\ worker[w].at = "idle" /\ channel # <<>>
        /\ worker' = [worker EXCEPT ![w] = [job |-> j, at |-> "taken"]]
        /\ channel' = Tail(channel)
        /\ UNCHANGED <<submit, outcome, permits, stats, isClosed, chanClosed, doneCh, stopper>>
    BY DEF Take, PoolKeep
  <1>2. /\ channel \in Seq(Jobs) /\ Len(channel) <= ChanCap /\ ChanCap \in Nat
        /\ worker \in [PoolWorkers -> WorkerRecord]
    BY PoolAssumption DEF PoolInv, PoolTypeOK, WorkerRecord
  <1>3. /\ j \in Jobs /\ j = channel[1] /\ 1 \in 1 .. Len(channel)
        /\ channel' \in Seq(Jobs)
        /\ Len(channel) \in Nat /\ Len(channel') = Len(channel) - 1
        /\ \A i \in 1 .. Len(channel') : channel'[i] = channel[i + 1] /\ i + 1 \in 1 .. Len(channel)
        /\ \A i \in 1 .. Len(channel) :
              i # 1 => i - 1 \in 1 .. Len(channel') /\ channel'[i - 1] = channel[i]
    BY <1>1, <1>2, HeadAndTail
  <1> HIDE DEF j
  <1>4. worker[w].job = NoJob /\ j # NoJob
    BY <1>1, <1>3, PoolAssumption DEF PoolInv, WorkersHoldJobs
  <1>5. InChannel(j) /\ submit[j] \in Acc
    BY <1>3 DEF PoolInv, PlacedWereSent, InChannel
  <1>6. \A k \in Jobs : OnWorker(k)' <=> k = j \/ OnWorker(k)
    BY <1>1, <1>2, <1>4, PoolAssumption DEF OnWorker
  <1>7. \A k \in Jobs : InChannel(k)' <=> InChannel(k) /\ k # j
    <2> SUFFICES ASSUME NEW k \in Jobs PROVE InChannel(k)' <=> InChannel(k) /\ k # j
      OBVIOUS
    <2>1. ASSUME InChannel(k)' PROVE InChannel(k) /\ k # j
      <3>1. PICK i \in 1 .. Len(channel') : channel'[i] = k
        BY <2>1 DEF InChannel
      <3>2. channel[i + 1] = k /\ i + 1 \in 1 .. Len(channel) /\ i + 1 # 1
        BY <1>3, <3>1
      <3> QED BY <3>2, <1>3 DEF InChannel, PoolInv, JobsInOnePlace
    <2>2. ASSUME InChannel(k), k # j PROVE InChannel(k)'
      <3>1. PICK i \in 1 .. Len(channel) : channel[i] = k
        BY <2>2 DEF InChannel
      <3>2. i # 1
        BY <2>2, <3>1, <1>3
      <3> QED BY <3>1, <3>2, <1>3 DEF InChannel
    <2> QED BY <2>1, <2>2
  <1>8. PoolTypeOK'
    BY <1>1, <1>2, <1>3 DEF PoolInv, PoolTypeOK, WorkerRecord, WorkerState
  <1>9. WorkersHoldJobs'
    BY <1>1, <1>2, <1>4 DEF PoolInv, WorkersHoldJobs
  <1>10. JobsInOnePlace'
    <2>1. \A v \in PoolWorkers : v # w => worker'[v] = worker[v] /\ worker[v].job # j
      BY <1>1, <1>2, <1>3 DEF PoolInv, JobsInOnePlace
    <2>2. worker'[w].job = j
      BY <1>1, <1>2
    <2>3. \A i \in 1 .. Len(channel') : channel'[i] # j
      <3> SUFFICES ASSUME NEW i \in 1 .. Len(channel'), channel'[i] = j PROVE FALSE
        OBVIOUS
      <3>1. channel[i + 1] = channel[1] /\ i + 1 \in 1 .. Len(channel)
        BY <1>3
      <3>2. i + 1 = 1
        BY <3>1, <1>3 DEF PoolInv, JobsInOnePlace
      <3> QED BY <3>2
    <2>4. \A i, k \in 1 .. Len(channel') : channel'[i] = channel'[k] => i = k
      <3> SUFFICES ASSUME NEW i \in 1 .. Len(channel'), NEW k \in 1 .. Len(channel'),
                          channel'[i] = channel'[k]
                   PROVE  i = k
        OBVIOUS
      <3>1. i + 1 = k + 1
        BY <1>3 DEF PoolInv, JobsInOnePlace
      <3> QED BY <3>1, <1>3
    <2>5. \A v \in PoolWorkers, i \in 1 .. Len(channel') : worker'[v].job # channel'[i]
      BY <2>1, <2>2, <2>3, <1>3 DEF PoolInv, JobsInOnePlace
    <2>6. \A v, u \in PoolWorkers : worker'[v].job = worker'[u].job /\ worker'[v].job # NoJob => v = u
      BY <2>1, <2>2 DEF PoolInv, JobsInOnePlace
    <2> QED BY <2>4, <2>5, <2>6 DEF JobsInOnePlace
  <1>11. PlacedWereSent' /\ GoneHaveEnded'
    BY <1>1, <1>5, <1>6, <1>7 DEF PoolInv, PlacedWereSent, GoneHaveEnded
  <1>12. ExitedMeansDrained' /\ DoneMeansExited'
    BY <1>1, <1>2 DEF PoolInv, ExitedMeansDrained, DoneMeansExited
  <1>13. PermitsMatch'
    <2>1. Holders' = Holders
      BY <1>1, <1>2 DEF Holders
    <2> QED BY <1>1, <2>1 DEF PoolInv, PermitsMatch
  <1> QED BY <1>8, <1>9, <1>10, <1>11, <1>12, <1>13 DEF PoolInv

\* A worker that moves on with the job it has.
LEMMA SameJobInv ==
    ASSUME PoolInv, NEW w \in PoolWorkers, NEW s \in WorkerState,
           worker' = [worker EXCEPT ![w].at = s],
           worker[w].at \in {"idle", "exited"} <=> s \in {"idle", "exited"},
           worker[w].at # "exited",
           s = "exited" => chanClosed /\ channel = <<>>,
           UNCHANGED <<submit, channel, outcome, isClosed, chanClosed, doneCh, stopper>>,
           stats' \in [submitted : Nat, executed : Nat, failed : Nat],
           permits' \in 0 .. Permits, PermitsMatch'
    PROVE  PoolInv'
  <1>1. worker \in [PoolWorkers -> WorkerRecord]
    BY DEF PoolInv, PoolTypeOK, WorkerRecord
  <1>2. /\ worker' \in [PoolWorkers -> WorkerRecord]
        /\ \A v \in PoolWorkers : /\ worker'[v].job = worker[v].job
                                  /\ v # w => worker'[v] = worker[v]
        /\ worker'[w].at = s
    BY <1>1 DEF WorkerRecord
  <1>3. PoolTypeOK'
    BY <1>2 DEF PoolInv, PoolTypeOK, WorkerRecord
  <1>4. PlacedWereSent' /\ GoneHaveEnded'
    BY <1>2 DEF PoolInv, PlacedWereSent, GoneHaveEnded, InChannel, OnWorker
  <1>5. WorkersHoldJobs' /\ JobsInOnePlace'
    BY <1>2 DEF PoolInv, WorkersHoldJobs, JobsInOnePlace
  <1>6. ExitedMeansDrained' /\ DoneMeansExited'
    BY <1>2 DEF PoolInv, ExitedMeansDrained, DoneMeansExited
  <1> QED BY <1>3, <1>4, <1>5, <1>6 DEF PoolInv

LEMMA BeginJobInv ==
    ASSUME PoolInv, NEW w \in PoolWorkers, BeginJob(w)
    PROVE  PoolInv'
  <1>1. worker \in [PoolWorkers -> WorkerRecord]
    BY DEF PoolInv, PoolTypeOK, WorkerRecord
  <1>2. Holders' = Holders /\ UNCHANGED permits
    BY <1>1 DEF BeginJob, Holders, WorkerRecord
  <1>3. PermitsMatch' /\ permits' \in 0 .. Permits
    BY <1>2 DEF PoolInv, PoolTypeOK, PermitsMatch
  <1>4. stats' \in [submitted : Nat, executed : Nat, failed : Nat]
    BY DEF BeginJob, PoolInv, PoolTypeOK
  <1> QED BY <1>3, <1>4, SameJobInv DEF BeginJob, PoolKeep, WorkerState

LEMMA AcquireInv ==
    ASSUME PoolInv, NEW w \in PoolWorkers, AcquirePermit(w)
    PROVE  PoolInv'
  <1>1. worker \in [PoolWorkers -> WorkerRecord] /\ permits \in 0 .. Permits /\ Permits \in Nat
    BY PoolAssumption DEF PoolInv, PoolTypeOK, WorkerRecord
  <1>2. Holders' = Holders \cup {w} /\ w \notin Holders
    BY <1>1 DEF AcquirePermit, Holders, WorkerRecord
  <1>3. permits' = permits + 1 /\ permits < Permits
    BY DEF AcquirePermit
  <1>4. IsFiniteSet(Holders') /\ Cardinality(Holders') = Cardinality(Holders) + 1
    BY <1>2, FS_AddElement DEF PoolInv, PermitsMatch
  <1>5. PermitsMatch' /\ permits' \in 0 .. Permits
    BY <1>1, <1>3, <1>4 DEF PoolInv, PermitsMatch
  <1> QED BY <1>5, SameJobInv DEF AcquirePermit, PoolKeep, WorkerState, PoolInv, PoolTypeOK

LEMMA ExitInv ==
    ASSUME PoolInv, NEW w \in PoolWorkers, ExitWorker(w)
    PROVE  PoolInv'
  <1>1. worker \in [PoolWorkers -> WorkerRecord]
    BY DEF PoolInv, PoolTypeOK, WorkerRecord
  <1>2. Holders' = Holders /\ UNCHANGED permits
    BY <1>1 DEF ExitWorker, Holders, WorkerRecord
  <1>3. PermitsMatch' /\ permits' \in 0 .. Permits
    BY <1>2 DEF PoolInv, PoolTypeOK, PermitsMatch
  <1> QED BY <1>3, SameJobInv DEF ExitWorker, PoolKeep, WorkerState, PoolInv, PoolTypeOK

LEMMA EndJobInv ==
    ASSUME PoolInv, NEW w \in PoolWorkers, EndJob(w)
    PROVE  PoolInv'
  <1> DEFINE j == worker[w].job
  <1>1. /\ worker[w].at \in {"body", "permit"}
        /\ worker' = [worker EXCEPT ![w] = [job |-> NoJob, at |-> "idle"]]
        /\ permits' = IF worker[w].at = "permit" THEN permits - 1 ELSE permits
        /\ UNCHANGED <<submit, channel, isClosed, chanClosed, doneCh, stopper>>
    BY DEF EndJob, PoolKeep
  <1>2. PICK how \in {"returned", "panicked"} :
          /\ outcome' = [outcome EXCEPT ![j] = how]
          /\ stats' = [stats EXCEPT !.failed = IF how = "panicked" THEN @ + 1 ELSE @]
    BY DEF EndJob
  <1>3. /\ worker \in [PoolWorkers -> WorkerRecord]
        /\ outcome \in [Jobs -> {"none", "returned", "panicked"}]
        /\ stats \in [submitted : Nat, executed : Nat, failed : Nat]
        /\ permits \in 0 .. Permits /\ Permits \in Nat
    BY PoolAssumption DEF PoolInv, PoolTypeOK, WorkerRecord
  <1>4. j \in Jobs /\ j # NoJob /\ OnWorker(j)
    BY <1>1, <1>3, PoolAssumption DEF PoolInv, WorkersHoldJobs, OnWorker, WorkerRecord
  <1> HIDE DEF j
  <1>5. /\ worker'[w] = [job |-> NoJob, at |-> "idle"]
        /\ \A v \in PoolWorkers : v # w => worker'[v] = worker[v] /\ worker[v].job # j
    BY <1>1, <1>3, <1>4 DEF PoolInv, JobsInOnePlace, j
  <1>6. \A k \in Jobs : /\ OnWorker(k)' <=> OnWorker(k) /\ k # j
                        /\ InChannel(k)' <=> InChannel(k)
    <2>1. \A k \in Jobs : k # NoJob
      BY PoolAssumption
    <2> QED BY <1>1, <1>4, <1>5, <2>1 DEF OnWorker, InChannel, j
  <1>7. Holders' = Holders \ {w}
    BY <1>5 DEF Holders
  <1>8. PermitsMatch' /\ permits' \in 0 .. Permits
    <2>1. IsFiniteSet(Holders) /\ permits = Cardinality(Holders)
      BY DEF PoolInv, PermitsMatch
    <2>2. /\ IsFiniteSet(Holders')
          /\ Cardinality(Holders') = IF w \in Holders THEN permits - 1 ELSE permits
      BY <1>7, <2>1, FS_RemoveElement
    <2>3. Cardinality(Holders') \in Nat
      BY <2>2, FS_CardinalityType
    <2>4. permits' = Cardinality(Holders')
      BY <1>1, <2>2 DEF Holders
    <2> QED BY <1>1, <1>3, <2>2, <2>3, <2>4 DEF PermitsMatch
  <1>9. PoolTypeOK'
    <2>1. worker' \in [PoolWorkers -> WorkerRecord]
      BY <1>1, <1>3 DEF WorkerRecord, WorkerState
    <2>2. outcome' \in [Jobs -> {"none", "returned", "panicked"}]
      BY <1>2, <1>3
    <2>3. stats' \in [submitted : Nat, executed : Nat, failed : Nat]
      <3>1. stats.failed \in Nat /\ stats.failed + 1 \in Nat
        BY <1>3
      <3>2. CASE how = "panicked"
        BY <3>1, <3>2, <1>2, <1>3
      <3>3. CASE how # "panicked"
        BY <3>3, <1>2, <1>3
      <3> QED BY <3>2, <3>3
    <2> QED BY <1>1, <1>8, <2>1, <2>2, <2>3 DEF PoolInv, PoolTypeOK, WorkerRecord
  <1>10. WorkersHoldJobs' /\ JobsInOnePlace'
    <2>1. \A i \in 1 .. Len(channel) : channel[i] # NoJob
      BY PoolAssumption DEF PoolInv, PoolTypeOK
    <2> QED BY <1>1, <1>5, <2>1 DEF PoolInv, WorkersHoldJobs, JobsInOnePlace
  <1>11. PlacedWereSent' /\ GoneHaveEnded'
    BY <1>1, <1>2, <1>3, <1>4, <1>6 DEF PoolInv, PlacedWereSent, GoneHaveEnded
  <1>12. ExitedMeansDrained' /\ DoneMeansExited'
    BY <1>1, <1>5 DEF PoolInv, ExitedMeansDrained, DoneMeansExited
  <1> QED BY <1>8, <1>9, <1>10, <1>11, <1>12 DEF PoolInv

LEMMA PoolInitInv == PoolInit => PoolInv
  <1> SUFFICES ASSUME PoolInit PROVE PoolInv
    OBVIOUS
  <1>1. Holders = {} /\ IsFiniteSet(Holders) /\ Cardinality(Holders) = 0
    <2>1. Holders = {}
      BY DEF PoolInit, Holders
    <2> QED BY <2>1, FS_EmptySet
  <1>2. PoolTypeOK
    <2>1. <<>> \in Seq(Jobs) /\ Len(<<>>) = 0 /\ 0 <= ChanCap /\ 0 \in 0 .. Permits
      BY PoolAssumption
    <2>2. channel \in Seq(Jobs) /\ Len(channel) <= ChanCap /\ permits \in 0 .. Permits
      BY <2>1 DEF PoolInit
    <2>3. worker \in [PoolWorkers -> [job : Jobs \cup {NoJob}, at : WorkerState]]
      BY DEF PoolInit, WorkerState
    <2>4. /\ submit \in [Jobs -> SubmitState] /\ stopper \in [Stoppers -> StopperState]
          /\ outcome \in [Jobs -> {"none", "returned", "panicked"}]
          /\ stats \in [submitted : Nat, executed : Nat, failed : Nat]
      BY DEF PoolInit, SubmitState, StopperState
    <2> QED BY <2>2, <2>3, <2>4 DEF PoolInit, PoolTypeOK
  <1>3. \A j \in Jobs : ~ InChannel(j) /\ ~ OnWorker(j)
    BY PoolAssumption DEF PoolInit, InChannel, OnWorker
  <1> QED BY <1>1, <1>2, <1>3 DEF PoolInit, PoolInv, WorkersHoldJobs, JobsInOnePlace, PlacedWereSent,
             GoneHaveEnded, ExitedMeansDrained, DoneMeansExited, PermitsMatch, Acc

LEMMA PoolStepInv == PoolInv /\ [PoolNext]_poolVars => PoolInv'
  <1> SUFFICES ASSUME PoolInv, [PoolNext]_poolVars PROVE PoolInv'
    OBVIOUS
  <1>1. CASE UNCHANGED poolVars
    BY <1>1 DEF poolVars, PoolInv, PoolTypeOK, WorkersHoldJobs, JobsInOnePlace, PlacedWereSent,
       GoneHaveEnded, ExitedMeansDrained, DoneMeansExited, PermitsMatch, InChannel, OnWorker,
       Holders
  <1>2. ASSUME NEW j \in Jobs, SubmitStep(j) PROVE PoolInv'
    BY <1>2, SubmitterInv, SendInv DEF SubmitStep
  <1>3. ASSUME NEW w \in PoolWorkers, WorkerStep(w) PROVE PoolInv'
    BY <1>3, TakeInv, BeginJobInv, AcquireInv, EndJobInv, ExitInv DEF WorkerStep
  <1> QED BY <1>1, <1>2, <1>3, StopperInv, DoneInv DEF PoolNext

\* PoolInv holds whatever submitters, workers, panics and shutdowns do.
THEOREM PoolInvariance == PoolSpec => []PoolInv
  <1> QED BY PoolInitInv, PoolStepInv, PTL DEF PoolSpec

\* A shutdown that returns gracefully leaves the channel empty, every worker
\* without a job, and every job that was ever accepted with an outcome.
THEOREM GracefulShutdownDrains == PoolSpec => []GracefulMeansDrained
  <1>1. PoolInv => GracefulMeansDrained
    <2> SUFFICES ASSUME PoolInv, NEW s \in Stoppers, stopper[s] = "graceful"
                 PROVE  /\ channel = <<>>
                        /\ Busy = {}
                        /\ \A j \in Jobs : submit[j] \in {"sent", "accepted"} => outcome[j] # "none"
      BY DEF GracefulMeansDrained
    <2>1. \A w \in PoolWorkers : worker[w].at = "exited" /\ channel = <<>> /\ worker[w].job = NoJob
      BY DEF PoolInv, DoneMeansExited, ExitedMeansDrained, WorkersHoldJobs
    <2>2. channel = <<>> /\ Busy = {}
      BY <2>1, PoolAssumption DEF Busy
    <2>3. \A j \in Jobs : ~ InChannel(j) /\ ~ OnWorker(j)
      BY <2>1, <2>2, PoolAssumption DEF InChannel, OnWorker
    <2> QED BY <2>2, <2>3 DEF PoolInv, GoneHaveEnded, Acc
  <1> QED BY <1>1, PoolInvariance, PTL

---------------------------------------------------------------------------
\* Where a job is, before and after a step

LEMMA SendPlaces ==
    ASSUME PoolInv, NEW j \in Jobs, Send(j), ~ (chanClosed \/ Len(channel) = ChanCap)
    PROVE  /\ submit[j] = "waiting" /\ submit' = [submit EXCEPT ![j] = "sent"]
           /\ Len(channel) \in Nat /\ Len(channel') = Len(channel) + 1
           /\ \A k \in Jobs : /\ InChannel(k)' <=> k = j \/ InChannel(k)
                              /\ OnWorker(k)' <=> OnWorker(k)
           /\ ~ InChannel(j) /\ ~ OnWorker(j)
           /\ UNCHANGED <<worker, outcome, stats>>
  <1>1. /\ submit[j] = "waiting" /\ submit' = [submit EXCEPT ![j] = "sent"]
        /\ channel' = Append(channel, j) /\ UNCHANGED <<worker, outcome, stats>>
    BY DEF Send
  <1>2. /\ Len(channel) \in Nat /\ Len(channel') = Len(channel) + 1
        /\ \A k \in Jobs : InChannel(k)' <=> k = j \/ InChannel(k)
    BY <1>1, AppendedJob DEF InChannel, PoolInv, PoolTypeOK
  <1>3. \A k \in Jobs : OnWorker(k)' <=> OnWorker(k)
    BY <1>1 DEF OnWorker
  <1>4. ~ InChannel(j) /\ ~ OnWorker(j)
    BY <1>1 DEF PoolInv, PlacedWereSent, Acc
  <1> QED BY <1>1, <1>2, <1>3, <1>4

LEMMA TakePlaces ==
    ASSUME PoolInv, PoolInv', NEW w \in PoolWorkers, Take(w)
    PROVE  \E j \in Jobs :
              /\ InChannel(j) /\ ~ OnWorker(j) /\ submit[j] \in Acc
              /\ \A k \in Jobs : /\ OnWorker(k)' <=> k = j \/ OnWorker(k)
                                 /\ InChannel(k)' <=> InChannel(k) /\ k # j
  <1>1. /\ worker[w].at = "idle" /\ channel # <<>>
        /\ worker' = [worker EXCEPT ![w] = [job |-> Head(channel), at |-> "taken"]]
        /\ channel' = Tail(channel)
        /\ channel \in Seq(Jobs) /\ worker \in [PoolWorkers -> WorkerRecord]
    BY DEF Take, PoolInv, PoolTypeOK, WorkerRecord
  <1>2. PICK j \in Jobs : j = Head(channel)
    BY <1>1, HeadAndTail
  <1>3. /\ j = channel[1] /\ 1 \in 1 .. Len(channel)
        /\ \A i \in 1 .. Len(channel') : channel'[i] = channel[i + 1] /\ i + 1 \in 1 .. Len(channel)
        /\ \A i \in 1 .. Len(channel) :
              i # 1 => i - 1 \in 1 .. Len(channel') /\ channel'[i - 1] = channel[i]
    BY <1>1, <1>2, HeadAndTail
  <1>4. worker[w].job = NoJob /\ \A k \in Jobs : k # NoJob
    BY <1>1, PoolAssumption DEF PoolInv, WorkersHoldJobs
  <1>5. InChannel(j) /\ submit[j] \in Acc /\ ~ OnWorker(j)
    BY <1>3 DEF PoolInv, PlacedWereSent, JobsInOnePlace, InChannel, OnWorker
  <1>6. \A k \in Jobs : OnWorker(k)' <=> k = j \/ OnWorker(k)
    BY <1>1, <1>2, <1>4 DEF OnWorker
  <1>7. ASSUME NEW k \in Jobs PROVE InChannel(k)' <=> InChannel(k) /\ k # j
    <2>1. ASSUME InChannel(k)' PROVE InChannel(k)
      BY <2>1, <1>3 DEF InChannel
    <2>2. ASSUME InChannel(k)' PROVE k # j
      BY <2>2, <1>6 DEF PoolInv, JobsInOnePlace, InChannel, OnWorker
    <2>3. ASSUME InChannel(k), k # j PROVE InChannel(k)'
      <3>1. PICK i \in 1 .. Len(channel) : channel[i] = k
        BY <2>3 DEF InChannel
      <3>2. i # 1
        BY <2>3, <3>1, <1>3
      <3> QED BY <3>1, <3>2, <1>3 DEF InChannel
    <2> QED BY <2>1, <2>2, <2>3
  <1> QED BY <1>5, <1>6, <1>7

LEMMA EndPlaces ==
    ASSUME PoolInv, NEW w \in PoolWorkers, EndJob(w)
    PROVE  /\ worker[w].job \in Jobs /\ OnWorker(worker[w].job)
           /\ ~ InChannel(worker[w].job) /\ submit[worker[w].job] \in Acc
           /\ \A k \in Jobs : /\ OnWorker(k)' <=> OnWorker(k) /\ k # worker[w].job
                              /\ InChannel(k)' <=> InChannel(k)
  <1>1. /\ worker[w].at \in {"body", "permit"}
        /\ worker' = [worker EXCEPT ![w] = [job |-> NoJob, at |-> "idle"]]
        /\ UNCHANGED channel
        /\ worker \in [PoolWorkers -> WorkerRecord]
        /\ NoJob \notin Jobs
    BY PoolAssumption DEF EndJob, PoolInv, PoolTypeOK, WorkerRecord
  <1>2. worker[w].job \in Jobs
    BY <1>1 DEF PoolInv, WorkersHoldJobs, WorkerRecord
  <1>3. OnWorker(worker[w].job) /\ ~ InChannel(worker[w].job) /\ submit[worker[w].job] \in Acc
    BY <1>2 DEF OnWorker, InChannel, PoolInv, JobsInOnePlace, PlacedWereSent
  <1>4. \A v \in PoolWorkers : v # w => worker'[v] = worker[v] /\ worker[v].job # worker[w].job
    BY <1>1, <1>2 DEF PoolInv, JobsInOnePlace
  <1>5. worker'[w].job = NoJob
    BY <1>1
  <1>6. \A k \in Jobs : OnWorker(k)' <=> OnWorker(k) /\ k # worker[w].job
    BY <1>1, <1>4, <1>5 DEF OnWorker
  <1>7. \A k \in Jobs : InChannel(k)' <=> InChannel(k)
    BY <1>1 DEF InChannel
  <1> QED BY <1>2, <1>3, <1>6, <1>7

\* The steps of a worker that keeps its job.
LEMMA SamePlaces ==
    ASSUME PoolInv, NEW w \in PoolWorkers, BeginJob(w) \/ AcquirePermit(w) \/ ExitWorker(w)
    PROVE  /\ UNCHANGED <<submit, channel, outcome>>
           /\ \A k \in Jobs : /\ OnWorker(k)' <=> OnWorker(k)
                              /\ InChannel(k)' <=> InChannel(k)
  <1>1. worker \in [PoolWorkers -> WorkerRecord]
    BY DEF PoolInv, PoolTypeOK, WorkerRecord
  <1>2. UNCHANGED <<submit, channel, outcome>>
        /\ \A v \in PoolWorkers : worker'[v].job = worker[v].job
    BY <1>1 DEF BeginJob, AcquirePermit, ExitWorker, WorkerRecord
  <1> QED BY <1>2 DEF OnWorker, InChannel

---------------------------------------------------------------------------
\* The refinement

Phases == [j \in Jobs |-> JobPhase(j)]

LEMMA PhaseStep ==
    ASSUME NEW j \in Jobs, NEW from, NEW to, Phases[j] = from, Phases'[j] = to,
           \A k \in Jobs : k # j => Phases'[k] = Phases[k]
    PROVE  Phases' = [Phases EXCEPT ![j] = to] /\ Once!Becomes(j, from, to)
  <1>1. Phases' = [Phases EXCEPT ![j] = to]
    BY DEF Phases
  <1> QED BY <1>1 DEF Once!Becomes, Phases

LEMMA PhaseStutter ==
    ASSUME \A k \in Jobs : submit'[k] = submit[k]
                           \/ (submit[k] = "new" /\ submit'[k] = "waiting")
                           \/ (submit[k] = "sent" /\ submit'[k] = "accepted"),
           \A k \in Jobs : /\ OnWorker(k)' <=> OnWorker(k)
                           /\ InChannel(k)' <=> InChannel(k)
    PROVE  Phases' = Phases
  <1>1. ASSUME NEW k \in Jobs PROVE JobPhase(k)' = JobPhase(k)
    BY DEF JobPhase
  <1> QED BY <1>1 DEF Phases

LEMMA RefineSubmit ==
    ASSUME PoolInv, NEW j \in Jobs, SubmitStep(j)
    PROVE  Once!OnceNext \/ Phases' = Phases
  <1>1. submit \in [Jobs -> SubmitState]
    BY DEF PoolInv, PoolTypeOK
  <1>2. ASSUME UNCHANGED <<channel, worker>>, submit' = [submit EXCEPT ![j] = "refused"],
               submit[j] \in {"new", "waiting"}
        PROVE  Once!OnceNext
    <2>1. /\ Phases[j] = "new" /\ Phases'[j] = "refused"
          /\ \A k \in Jobs : k # j => Phases'[k] = Phases[k]
      BY <1>1, <1>2 DEF Phases, JobPhase, InChannel, OnWorker
    <2> QED BY <2>1, PhaseStep DEF Once!OnceNext, Once!Declined
  <1>3. ASSUME UNCHANGED <<channel, worker>>,
               \A k \in Jobs : submit'[k] = submit[k]
                               \/ (submit[k] = "new" /\ submit'[k] = "waiting")
                               \/ (submit[k] = "sent" /\ submit'[k] = "accepted")
        PROVE  Phases' = Phases
    BY <1>3, PhaseStutter DEF InChannel, OnWorker
  <1>4. CASE BeginSubmit(j)
    <2>1. submit[j] = "new" /\ UNCHANGED <<channel, worker>>
          /\ submit' = [submit EXCEPT ![j] = IF isClosed THEN "refused" ELSE "waiting"]
      BY <1>4 DEF BeginSubmit
    <2>2. CASE isClosed
      BY <2>1, <2>2, <1>2
    <2>3. CASE ~ isClosed
      <3>1. \A k \in Jobs : submit'[k] = submit[k] \/ (submit[k] = "new" /\ submit'[k] = "waiting")
        BY <1>1, <2>1, <2>3
      <3> QED BY <2>1, <3>1, <1>3
    <2> QED BY <2>2, <2>3
  <1>5. CASE MemoryTimeout(j)
    BY <1>2, <1>5 DEF MemoryTimeout
  <1>6. CASE CountSubmitted(j)
    <2>1. /\ UNCHANGED <<channel, worker>>
          /\ \A k \in Jobs : submit'[k] = submit[k]
                             \/ (submit[k] = "sent" /\ submit'[k] = "accepted")
      BY <1>1, <1>6 DEF CountSubmitted
    <2> QED BY <2>1, <1>3
  <1>7. CASE Send(j) /\ (chanClosed \/ Len(channel) = ChanCap)
    BY <1>2, <1>7 DEF Send
  <1>8. CASE Send(j) /\ ~ (chanClosed \/ Len(channel) = ChanCap)
    <2>1. /\ submit[j] = "waiting" /\ submit' = [submit EXCEPT ![j] = "sent"]
          /\ \A k \in Jobs : /\ InChannel(k)' <=> k = j \/ InChannel(k)
                             /\ OnWorker(k)' <=> OnWorker(k)
          /\ ~ OnWorker(j)
      BY <1>8, SendPlaces
    <2>2. /\ Phases[j] = "new" /\ Phases'[j] = "pending"
          /\ \A k \in Jobs : k # j => Phases'[k] = Phases[k]
      BY <1>1, <2>1 DEF Phases, JobPhase
    <2> QED BY <2>2, PhaseStep DEF Once!OnceNext, Once!Admitted
  <1> QED BY <1>4, <1>5, <1>6, <1>7, <1>8 DEF SubmitStep

LEMMA RefineWorker ==
    ASSUME PoolInv, PoolInv', NEW w \in PoolWorkers, WorkerStep(w)
    PROVE  Once!OnceNext \/ Phases' = Phases
  <1>1. CASE Take(w)
    <2>1. UNCHANGED submit
      BY <1>1 DEF Take
    <2>2. PICK j \in Jobs :
              /\ InChannel(j) /\ ~ OnWorker(j) /\ submit[j] \in Acc
              /\ \A k \in Jobs : /\ OnWorker(k)' <=> k = j \/ OnWorker(k)
                                 /\ InChannel(k)' <=> InChannel(k) /\ k # j
      BY <1>1, TakePlaces
    <2>3. /\ Phases[j] = "pending" /\ Phases'[j] = "running"
          /\ \A k \in Jobs : k # j => Phases'[k] = Phases[k]
      BY <2>1, <2>2 DEF Phases, JobPhase, Acc
    <2> QED BY <2>3, PhaseStep DEF Once!OnceNext, Once!Begun
  <1>2. CASE EndJob(w)
    <2> DEFINE j == worker[w].job
    <2>1. UNCHANGED submit
      BY <1>2 DEF EndJob
    <2>2. /\ j \in Jobs /\ OnWorker(j) /\ ~ InChannel(j) /\ submit[j] \in Acc
          /\ \A k \in Jobs : /\ OnWorker(k)' <=> OnWorker(k) /\ k # j
                             /\ InChannel(k)' <=> InChannel(k)
      BY <1>2, EndPlaces
    <2> HIDE DEF j
    <2>3. /\ Phases[j] = "running" /\ Phases'[j] = "ended"
          /\ \A k \in Jobs : k # j => Phases'[k] = Phases[k]
      BY <2>1, <2>2 DEF Phases, JobPhase, Acc
    <2> QED BY <2>2, <2>3, PhaseStep DEF Once!OnceNext, Once!Ended
  <1>3. CASE BeginJob(w) \/ AcquirePermit(w) \/ ExitWorker(w)
    <2>1. /\ \A k \in Jobs : submit'[k] = submit[k]
          /\ \A k \in Jobs : /\ OnWorker(k)' <=> OnWorker(k)
                             /\ InChannel(k)' <=> InChannel(k)
      BY <1>3, SamePlaces
    <2> QED BY <2>1, PhaseStutter
  <1> QED BY <1>1, <1>2, <1>3 DEF WorkerStep

LEMMA RefineNext ==
    ASSUME PoolInv, PoolInv', [PoolNext]_poolVars
    PROVE  Once!OnceNext \/ Phases' = Phases
  <1>1. ASSUME UNCHANGED <<submit, channel, worker>> PROVE Phases' = Phases
    <2>1. /\ \A k \in Jobs : submit'[k] = submit[k]
          /\ \A k \in Jobs : /\ OnWorker(k)' <=> OnWorker(k)
                             /\ InChannel(k)' <=> InChannel(k)
      BY <1>1 DEF InChannel, OnWorker
    <2> QED BY <2>1, PhaseStutter
  <1>2. CASE UNCHANGED poolVars
    BY <1>1, <1>2 DEF poolVars
  <1>3. CASE CloseDone
    BY <1>1, <1>3 DEF CloseDone
  <1>4. ASSUME NEW s \in Stoppers, StopStep(s) PROVE Phases' = Phases
    BY <1>1, <1>4 DEF StopStep, BeginStop, CloseChannel, StopGraceful, StopDeadline, PoolRest
  <1> QED BY <1>2, <1>3, <1>4, RefineSubmit, RefineWorker DEF PoolNext

\* WorkerPool implements JobsOnce: a job is refused and never runs, or is
\* accepted and runs exactly once.
THEOREM PoolRunsJobsOnce == PoolSpec => JobsRunOnce
  <1>1. PoolInit => Once!OnceInit
    BY DEF PoolInit, Once!OnceInit, JobPhase
  <1>2. PoolInv /\ PoolInv' /\ [PoolNext]_poolVars => [Once!OnceNext]_Phases
    BY RefineNext
  <1>3. [Once!OnceNext]_Phases => [Once!OnceNext]_([j \in Jobs |-> JobPhase(j)])
    BY DEF Phases
  <1> QED BY <1>1, <1>2, <1>3, PoolInvariance, PTL DEF PoolSpec, JobsRunOnce, Once!OnceSpec

---------------------------------------------------------------------------
\* The counters

SentJobs == {j \in Jobs : submit[j] = "sent"}
TakenWorkers == {w \in PoolWorkers : worker[w].at = "taken"}
PanickedJobs == {j \in Jobs : outcome[j] = "panicked"}

\* A job with an outcome is nowhere any more, so it gets no second one.
EndedAreGone ==
    \A j \in Jobs : outcome[j] # "none" =>
        submit[j] \in Acc /\ ~ InChannel(j) /\ ~ OnWorker(j)

CountInv ==
    /\ EndedAreGone
    /\ IsFiniteSet(SentJobs)
    /\ IsFiniteSet(TakenWorkers)
    /\ IsFiniteSet(PanickedJobs)
    /\ CountersReconcile

\* The two sums, over the sets they count.
LEMMA CountersAre ==
    CountersReconcile <=>
        /\ stats.submitted + Cardinality(SentJobs)
             = stats.executed + Len(channel) + Cardinality(TakenWorkers)
        /\ stats.failed = Cardinality(PanickedJobs)
  <1> QED BY DEF CountersReconcile, SentJobs, TakenWorkers, PanickedJobs

LEMMA CountTypes ==
    ASSUME PoolInv, CountInv
    PROVE  /\ stats.submitted \in Nat /\ stats.executed \in Nat /\ stats.failed \in Nat
           /\ stats \in [submitted : Nat, executed : Nat, failed : Nat]
           /\ Len(channel) \in Nat /\ channel \in Seq(Jobs)
           /\ Cardinality(SentJobs) \in Nat /\ Cardinality(TakenWorkers) \in Nat
           /\ Cardinality(PanickedJobs) \in Nat
           /\ submit \in [Jobs -> SubmitState]
           /\ worker \in [PoolWorkers -> WorkerRecord]
           /\ outcome \in [Jobs -> {"none", "returned", "panicked"}]
           /\ IsFiniteSet(SentJobs) /\ IsFiniteSet(TakenWorkers) /\ IsFiniteSet(PanickedJobs)
           /\ stats.submitted + Cardinality(SentJobs)
                = stats.executed + Len(channel) + Cardinality(TakenWorkers)
           /\ stats.failed = Cardinality(PanickedJobs)
  <1>1. /\ stats \in [submitted : Nat, executed : Nat, failed : Nat]
        /\ channel \in Seq(Jobs) /\ submit \in [Jobs -> SubmitState]
        /\ worker \in [PoolWorkers -> WorkerRecord]
        /\ outcome \in [Jobs -> {"none", "returned", "panicked"}]
    BY DEF PoolInv, PoolTypeOK, WorkerRecord
  <1>2. IsFiniteSet(SentJobs) /\ IsFiniteSet(TakenWorkers) /\ IsFiniteSet(PanickedJobs)
    BY DEF CountInv
  <1>3. /\ Cardinality(SentJobs) \in Nat /\ Cardinality(TakenWorkers) \in Nat
        /\ Cardinality(PanickedJobs) \in Nat
    BY <1>2, FS_CardinalityType
  <1>4. stats.submitted \in Nat /\ stats.executed \in Nat /\ stats.failed \in Nat /\ Len(channel) \in Nat
    BY <1>1
  <1> QED BY <1>1, <1>2, <1>3, <1>4, CountersAre DEF CountInv

\* Steps that move no job and count nothing.
LEMMA CountSame ==
    ASSUME PoolInv, CountInv, UNCHANGED <<channel, outcome, stats>>,
           SentJobs' = SentJobs, TakenWorkers' = TakenWorkers,
           \A k \in Jobs : submit[k] \in Acc => submit'[k] \in Acc,
           \A k \in Jobs : OnWorker(k)' <=> OnWorker(k)
    PROVE  CountInv'
  <1>1. EndedAreGone'
    BY DEF CountInv, EndedAreGone, InChannel
  <1>2. PanickedJobs' = PanickedJobs
    BY DEF PanickedJobs
  <1>3. CountersReconcile'
    BY <1>2, CountTypes DEF CountersReconcile, SentJobs, TakenWorkers, PanickedJobs
  <1> QED BY <1>1, <1>2, <1>3 DEF CountInv

LEMMA CountSubmit ==
    ASSUME PoolInv, CountInv, NEW j \in Jobs, SubmitStep(j)
    PROVE  CountInv'
  <1>1. submit \in [Jobs -> SubmitState]
    BY CountTypes
  <1>2. ASSUME UNCHANGED <<channel, worker, outcome, stats>>, submit[j] \in {"new", "waiting"},
               NEW to \in {"refused", "waiting"}, submit' = [submit EXCEPT ![j] = to]
        PROVE  CountInv'
    <2>1. SentJobs' = SentJobs /\ \A k \in Jobs : submit[k] \in Acc => submit'[k] \in Acc
      BY <1>1, <1>2 DEF SentJobs, Acc
    <2>2. TakenWorkers' = TakenWorkers /\ \A k \in Jobs : OnWorker(k)' <=> OnWorker(k)
      BY <1>2 DEF TakenWorkers, OnWorker
    <2> QED BY <1>2, <2>1, <2>2, CountSame
  <1>3. CASE BeginSubmit(j)
    BY <1>2, <1>3 DEF BeginSubmit
  <1>4. CASE MemoryTimeout(j)
    BY <1>2, <1>4 DEF MemoryTimeout
  <1>5. CASE Send(j) /\ (chanClosed \/ Len(channel) = ChanCap)
    BY <1>2, <1>5 DEF Send
  <1>6. CASE Send(j) /\ ~ (chanClosed \/ Len(channel) = ChanCap)
    <2>1. /\ submit[j] = "waiting" /\ submit' = [submit EXCEPT ![j] = "sent"]
          /\ Len(channel') = Len(channel) + 1
          /\ \A k \in Jobs : /\ InChannel(k)' <=> k = j \/ InChannel(k)
                             /\ OnWorker(k)' <=> OnWorker(k)
          /\ UNCHANGED <<worker, outcome, stats>>
      BY <1>6, SendPlaces
    <2>2. SentJobs' = SentJobs \cup {j} /\ j \notin SentJobs
      BY <1>1, <2>1 DEF SentJobs
    <2>3. IsFiniteSet(SentJobs') /\ Cardinality(SentJobs') = Cardinality(SentJobs) + 1
      BY <2>2, CountTypes, FS_AddElement
    <2>4. TakenWorkers' = TakenWorkers /\ PanickedJobs' = PanickedJobs
      BY <2>1 DEF TakenWorkers, PanickedJobs
    <2>5. EndedAreGone'
      BY <1>1, <2>1 DEF CountInv, EndedAreGone, Acc
    <2>6. CountersReconcile'
      <3>1. /\ stats.submitted + Cardinality(SentJobs')
                 = stats.submitted + Cardinality(SentJobs) + 1
            /\ stats.executed + Len(channel') + Cardinality(TakenWorkers)
                 = stats.executed + Len(channel) + Cardinality(TakenWorkers) + 1
        BY <2>1, <2>3, CountTypes
      <3>2. /\ stats'.submitted + Cardinality(SentJobs')
                 = stats'.executed + Len(channel') + Cardinality(TakenWorkers')
            /\ stats'.failed = Cardinality(PanickedJobs')
        BY <2>1, <2>4, <3>1, CountTypes
      <3> QED BY <3>2 DEF CountersReconcile, SentJobs, TakenWorkers, PanickedJobs
    <2> QED BY <2>3, <2>4, <2>5, <2>6, CountTypes DEF CountInv
  <1>7. CASE CountSubmitted(j)
    <2>1. /\ submit[j] = "sent" /\ submit' = [submit EXCEPT ![j] = "accepted"]
          /\ stats' = [stats EXCEPT !.submitted = @ + 1]
          /\ UNCHANGED <<channel, worker, outcome>>
      BY <1>7 DEF CountSubmitted
    <2>2. SentJobs' = SentJobs \ {j} /\ j \in SentJobs
      BY <1>1, <2>1 DEF SentJobs
    <2>3. IsFiniteSet(SentJobs') /\ Cardinality(SentJobs') = Cardinality(SentJobs) - 1
      BY <2>2, CountTypes, FS_RemoveElement
    <2>4. TakenWorkers' = TakenWorkers /\ PanickedJobs' = PanickedJobs
      BY <2>1 DEF TakenWorkers, PanickedJobs
    <2>5. EndedAreGone'
      BY <1>1, <2>1 DEF CountInv, EndedAreGone, Acc, InChannel, OnWorker
    <2>6. stats'.submitted = stats.submitted + 1 /\ stats'.executed = stats.executed
          /\ stats'.failed = stats.failed
      BY <2>1, CountTypes
    <2>7. CountersReconcile'
      <3>1. stats'.submitted + Cardinality(SentJobs') = stats.submitted + Cardinality(SentJobs)
        BY <2>3, <2>6, CountTypes
      <3>2. /\ stats'.submitted + Cardinality(SentJobs')
                 = stats'.executed + Len(channel') + Cardinality(TakenWorkers')
            /\ stats'.failed = Cardinality(PanickedJobs')
        BY <2>1, <2>4, <2>6, <3>1, CountTypes
      <3> QED BY <3>2 DEF CountersReconcile, SentJobs, TakenWorkers, PanickedJobs
    <2> QED BY <2>3, <2>4, <2>5, <2>7, CountTypes DEF CountInv
  <1> QED BY <1>3, <1>4, <1>5, <1>6, <1>7 DEF SubmitStep

LEMMA CountWorker ==
    ASSUME PoolInv, PoolInv', CountInv, NEW w \in PoolWorkers, WorkerStep(w)
    PROVE  CountInv'
  <1>1. worker \in [PoolWorkers -> WorkerRecord]
    BY CountTypes
  <1>2. CASE Take(w)
    <2>1. /\ channel # <<>> /\ channel' = Tail(channel) /\ worker[w].at = "idle"
          /\ worker' = [worker EXCEPT ![w] = [job |-> Head(channel), at |-> "taken"]]
          /\ UNCHANGED <<submit, outcome, stats>>
      BY <1>2 DEF Take
    <2>2. Len(channel') = Len(channel) - 1
      BY <2>1, CountTypes, HeadAndTail
    <2>3. TakenWorkers' = TakenWorkers \cup {w} /\ w \notin TakenWorkers
      BY <1>1, <2>1 DEF TakenWorkers
    <2>4. IsFiniteSet(TakenWorkers') /\ Cardinality(TakenWorkers') = Cardinality(TakenWorkers) + 1
      BY <2>3, CountTypes, FS_AddElement
    <2>5. SentJobs' = SentJobs /\ PanickedJobs' = PanickedJobs
      BY <2>1 DEF SentJobs, PanickedJobs
    <2>6. EndedAreGone'
      BY <1>2, <2>1, TakePlaces DEF CountInv, EndedAreGone
    <2>7. CountersReconcile'
      <3>1. Len(channel') + Cardinality(TakenWorkers') = Len(channel) + Cardinality(TakenWorkers)
        BY <2>2, <2>4, CountTypes
      <3>2. stats.executed + Len(channel') + Cardinality(TakenWorkers')
              = stats.executed + Len(channel) + Cardinality(TakenWorkers)
        BY <2>2, <2>4, <3>1, CountTypes
      <3>3. /\ stats'.submitted + Cardinality(SentJobs')
                 = stats'.executed + Len(channel') + Cardinality(TakenWorkers')
            /\ stats'.failed = Cardinality(PanickedJobs')
        BY <2>1, <2>5, <3>2, CountTypes
      <3> QED BY <3>3 DEF CountersReconcile, SentJobs, TakenWorkers, PanickedJobs
    <2> QED BY <2>4, <2>5, <2>6, <2>7, CountTypes DEF CountInv
  <1>3. CASE BeginJob(w)
    <2>1. /\ worker[w].at = "taken" /\ worker' = [worker EXCEPT ![w].at = "body"]
          /\ stats' = [stats EXCEPT !.executed = @ + 1]
          /\ UNCHANGED <<submit, channel, outcome>>
      BY <1>3 DEF BeginJob
    <2>2. TakenWorkers' = TakenWorkers \ {w} /\ w \in TakenWorkers
      BY <1>1, <2>1 DEF TakenWorkers, WorkerRecord
    <2>3. IsFiniteSet(TakenWorkers') /\ Cardinality(TakenWorkers') = Cardinality(TakenWorkers) - 1
      BY <2>2, CountTypes, FS_RemoveElement
    <2>4. SentJobs' = SentJobs /\ PanickedJobs' = PanickedJobs
      BY <2>1 DEF SentJobs, PanickedJobs
    <2>5. EndedAreGone'
      BY <1>3, <2>1, SamePlaces DEF CountInv, EndedAreGone
    <2>6. stats'.executed = stats.executed + 1 /\ stats'.submitted = stats.submitted
          /\ stats'.failed = stats.failed
      BY <2>1, CountTypes
    <2>7. CountersReconcile'
      <3>1. stats'.executed + Len(channel) + Cardinality(TakenWorkers')
              = stats.executed + Len(channel) + Cardinality(TakenWorkers)
        BY <2>3, <2>6, CountTypes
      <3>2. /\ stats'.submitted + Cardinality(SentJobs')
                 = stats'.executed + Len(channel') + Cardinality(TakenWorkers')
            /\ stats'.failed = Cardinality(PanickedJobs')
        BY <2>1, <2>4, <2>6, <3>1, CountTypes
      <3> QED BY <3>2 DEF CountersReconcile, SentJobs, TakenWorkers, PanickedJobs
    <2> QED BY <2>3, <2>4, <2>5, <2>7, CountTypes DEF CountInv
  <1>4. CASE AcquirePermit(w) \/ ExitWorker(w)
    <2>1. UNCHANGED <<submit, channel, outcome, stats>> /\ SentJobs' = SentJobs
      BY <1>4 DEF AcquirePermit, ExitWorker, SentJobs
    <2>2. TakenWorkers' = TakenWorkers
      BY <1>1, <1>4 DEF AcquirePermit, ExitWorker, TakenWorkers, WorkerRecord
    <2>3. \A k \in Jobs : OnWorker(k)' <=> OnWorker(k)
      BY <1>4, SamePlaces
    <2> QED BY <2>1, <2>2, <2>3, CountSame
  <1>5. CASE EndJob(w)
    <2> DEFINE j == worker[w].job
    <2>1. /\ worker[w].at \in {"body", "permit"}
          /\ worker' = [worker EXCEPT ![w] = [job |-> NoJob, at |-> "idle"]]
          /\ UNCHANGED <<submit, channel>>
      BY <1>5 DEF EndJob
    <2>2. PICK how \in {"returned", "panicked"} :
          /\ outcome' = [outcome EXCEPT ![j] = how]
          /\ stats' = [stats EXCEPT !.failed = IF how = "panicked" THEN @ + 1 ELSE @]
      BY <1>5 DEF EndJob
    <2>3. /\ j \in Jobs /\ OnWorker(j) /\ ~ InChannel(j) /\ submit[j] \in Acc
          /\ \A k \in Jobs : /\ OnWorker(k)' <=> OnWorker(k) /\ k # j
                             /\ InChannel(k)' <=> InChannel(k)
      BY <1>5, EndPlaces
    <2> HIDE DEF j
    <2>4. outcome[j] = "none"
      BY <2>3 DEF CountInv, EndedAreGone
    <2>5. EndedAreGone'
      BY <2>1, <2>2, <2>3, CountTypes DEF CountInv, EndedAreGone
    <2>6. SentJobs' = SentJobs /\ TakenWorkers' = TakenWorkers
      BY <1>1, <2>1 DEF SentJobs, TakenWorkers
    <2>7. /\ stats'.submitted = stats.submitted /\ stats'.executed = stats.executed
          /\ stats'.failed = IF how = "panicked" THEN stats.failed + 1 ELSE stats.failed
      BY <2>2, CountTypes
    <2>8. PanickedJobs' = IF how = "panicked" THEN PanickedJobs \cup {j} ELSE PanickedJobs
      <3>1. \A k \in Jobs : outcome'[k] = IF k = j THEN how ELSE outcome[k]
        BY <2>2, CountTypes
      <3> QED BY <2>3, <2>4, <3>1 DEF PanickedJobs
    <2>9. j \notin PanickedJobs
      BY <2>4 DEF PanickedJobs
    <2>10. IsFiniteSet(PanickedJobs') /\ stats'.failed = Cardinality(PanickedJobs')
      <3>1. /\ IsFiniteSet(PanickedJobs \cup {j})
            /\ Cardinality(PanickedJobs \cup {j}) = Cardinality(PanickedJobs) + 1
        BY <2>9, CountTypes, FS_AddElement
      <3>2. IsFiniteSet(PanickedJobs) /\ stats.failed = Cardinality(PanickedJobs)
        BY CountTypes
      <3> QED BY <2>7, <2>8, <3>1, <3>2
    <2>11. CountersReconcile'
      BY <2>1, <2>6, <2>7, <2>10, CountTypes DEF CountersReconcile, SentJobs, TakenWorkers, PanickedJobs
    <2> QED BY <2>5, <2>6, <2>10, <2>11, CountTypes DEF CountInv
  <1> QED BY <1>2, <1>3, <1>4, <1>5 DEF WorkerStep

LEMMA CountStep ==
    ASSUME PoolInv, PoolInv', CountInv, [PoolNext]_poolVars
    PROVE  CountInv'
  <1>1. ASSUME UNCHANGED <<submit, channel, worker, outcome, stats>> PROVE CountInv'
    <2>1. /\ SentJobs' = SentJobs /\ TakenWorkers' = TakenWorkers
          /\ \A k \in Jobs : submit[k] \in Acc => submit'[k] \in Acc
          /\ \A k \in Jobs : OnWorker(k)' <=> OnWorker(k)
      BY <1>1 DEF SentJobs, TakenWorkers, OnWorker
    <2> QED BY <1>1, <2>1, CountSame
  <1>2. CASE UNCHANGED poolVars
    BY <1>1, <1>2 DEF poolVars
  <1>3. CASE CloseDone
    BY <1>1, <1>3 DEF CloseDone
  <1>4. ASSUME NEW s \in Stoppers, StopStep(s) PROVE CountInv'
    BY <1>1, <1>4 DEF StopStep, BeginStop, CloseChannel, StopGraceful, StopDeadline, PoolRest
  <1> QED BY <1>2, <1>3, <1>4, CountSubmit, CountWorker DEF PoolNext

LEMMA CountInit == PoolInit => CountInv
  <1> SUFFICES ASSUME PoolInit PROVE CountInv
    OBVIOUS
  <1>1. SentJobs = {} /\ TakenWorkers = {} /\ PanickedJobs = {}
    BY DEF PoolInit, SentJobs, TakenWorkers, PanickedJobs
  <1>2. /\ IsFiniteSet(SentJobs) /\ Cardinality(SentJobs) = 0
        /\ IsFiniteSet(TakenWorkers) /\ Cardinality(TakenWorkers) = 0
        /\ IsFiniteSet(PanickedJobs) /\ Cardinality(PanickedJobs) = 0
    BY <1>1, FS_EmptySet
  <1>3. stats.submitted = 0 /\ stats.executed = 0 /\ stats.failed = 0 /\ Len(channel) = 0
    BY DEF PoolInit
  <1>4. CountersReconcile
    BY <1>2, <1>3 DEF CountersReconcile, SentJobs, TakenWorkers, PanickedJobs
  <1>5. EndedAreGone
    BY DEF PoolInit, EndedAreGone
  <1> QED BY <1>2, <1>4, <1>5 DEF CountInv

\* The counters of GetStats account for every job at every moment.
THEOREM CountersAlwaysReconcile == PoolSpec => []CountersReconcile
  <1>1. PoolInv /\ PoolInv' /\ CountInv /\ [PoolNext]_poolVars => CountInv'
    BY CountStep
  <1>2. CountInv => CountersReconcile
    BY DEF CountInv
  <1> QED BY <1>1, <1>2, CountInit, PoolInvariance, PTL DEF PoolSpec

-----------------------------------------------------------------------------
(***************************************************************************)
(* ReadCache. For any number of readers, writers and versions: once every  *)
(* writer has returned, an entry that was not stored late is what the      *)
(* database holds, and an image marked as missing is missing.              *)
(***************************************************************************)

---------------------------------------------------------------------------
\* What is cached of one image

\* A version of the row that was read while the image was there.
OfImage(v) ==
    /\ db.life # "unborn"
    /\ v <= db.image
    /\ db.life = "deleted" => v < db.image

\* What is on its way into the cache was in the database; the row of a deleted
\* image has a version nobody reads again.
VersionsAreReal ==
    /\ db.life = "unborn" => entry["image"].ver = 0
    /\ \A r \in Readers :
          /\ reader[r].pc = "store" => reader[r].ver <= db.list
          /\ flight[r].pc = "end" /\ flight[r].found => OfImage(flight[r].ver)
          /\ fill[r].pc # "none" => OfImage(fill[r].ver)
    /\ \A w \in Writers : writer[w].pc \in {"clear", "set"} => OfImage(writer[w].ver)

\* Somebody has still to drop or replace an entry that is not up to date; that
\* of a deleted image waits for the deletion itself.
ImageIsCurrent ==
    entry["image"].ver # 0 /\ ~ entry["image"].late =>
        \/ db.life = "live" /\ (entry["image"].ver = db.image \/ Owes("image") # {})
        \/ \E w \in Writers : writer[w].pc \in {"vrows", "vlist", "entry"}

ListIsCurrent ==
    entry["list"].ver # 0 /\ ~ entry["list"].late =>
        entry["list"].ver = db.list \/ Owes("list") # {}

\* The marker that was true before the upload is still to be cleared by it.
MarkerGoes ==
    marker = "true" /\ db.life = "live" =>
        missed \/ \E w \in Writers : writer[w].pc = "clear"

CacheInv == CacheTypeOK /\ VersionsAreReal /\ ImageIsCurrent /\ ListIsCurrent /\ MarkerGoes

ReaderRecord == [pc : ReaderPc, on : Readers \cup {NoReader}, ver : Versions]
FlightRecord == [pc : {"none", "query", "end"}, found : BOOLEAN, ver : Versions]
FillRecord == [pc : {"none", "clear", "set"}, ver : Versions]
WriterRecord == [pc : WriterPc, ver : Versions]
EntryRecord == [ver : Versions, late : BOOLEAN]
DbRecord == [life : {"unborn", "live", "deleted"}, image : Versions, list : Versions]

LEMMA CacheTyped ==
    ASSUME CacheTypeOK
    PROVE  /\ db \in DbRecord
           /\ entry \in [{"image", "list"} -> EntryRecord]
           /\ reader \in [Readers -> ReaderRecord]
           /\ flight \in [Readers -> FlightRecord]
           /\ fill \in [Readers -> FillRecord]
           /\ writer \in [Writers -> WriterRecord]
           /\ db.image \in Versions /\ db.list \in Versions
           /\ db.life \in {"unborn", "live", "deleted"}
  BY DEF CacheTypeOK, ReaderRecord, FlightRecord, FillRecord, WriterRecord, EntryRecord, DbRecord

LEMMA VersionsAreNumbers ==
    Versions \subseteq Nat /\ 0 \in Versions /\ \A v \in Versions : v < MaxVersion => v + 1 \in Versions
  BY CacheAssumption DEF Versions

LEMMA NothingCached ==
    /\ NoEntry \in EntryRecord /\ NoEntry.ver = 0
    /\ IdleReader \in ReaderRecord /\ IdleReader.pc = "idle"
    /\ NoFlight \in FlightRecord /\ NoFlight.pc = "none"
    /\ NoFill \in FillRecord /\ NoFill.pc = "none"
    /\ IdleWriter \in WriterRecord /\ IdleWriter.pc = "idle"
  BY VersionsAreNumbers DEF NoEntry, EntryRecord, IdleReader, ReaderRecord, ReaderPc, NoFlight,
     FlightRecord, NoFill, FillRecord, IdleWriter, WriterRecord, WriterPc

\* An entry that was put there is the present version or a late one.
LEMMA PutInCache ==
    ASSUME CacheTypeOK, NEW k \in {"image", "list"}, NEW v \in Versions, v <= db[k], Put(k, v)
    PROVE  /\ entry' \in [{"image", "list"} -> EntryRecord]
           /\ \A j \in {"image", "list"} \ {k} : entry'[j] = entry[j]
           /\ entry'[k].ver = v
           /\ entry'[k].late \/ entry'[k].ver = db[k]
  <1> DEFINE late == v < db[k]
  <1>1. db[k] \in Nat /\ v \in Nat
    BY CacheTyped, VersionsAreNumbers
  <1>2. late \/ v = db[k]
    BY <1>1
  <1>3. late \in BOOLEAN
    OBVIOUS
  <1>4. entry' = [entry EXCEPT ![k] = [ver |-> v, late |-> late]]
    BY DEF Put
  <1> HIDE DEF late
  <1>5. [ver |-> v, late |-> late] \in EntryRecord
    BY <1>3 DEF EntryRecord
  <1> QED BY <1>2, <1>3, <1>4, <1>5, CacheTyped

LEMMA DropFromEntries ==
    ASSUME CacheTypeOK, NEW k \in {"image", "list"}, Drop(k)
    PROVE  /\ entry' \in [{"image", "list"} -> EntryRecord]
           /\ \A j \in {"image", "list"} \ {k} : entry'[j] = entry[j]
           /\ entry'[k].ver = 0
  BY CacheTyped, NothingCached DEF Drop

---------------------------------------------------------------------------
\* Readers

\* What a step of a reader may put in the cache.
CachesImage == \/ entry'["image"] = entry["image"] \/ entry'["image"].ver = 0
               \/ OfImage(entry'["image"].ver) /\ (entry'["image"].late \/ entry'["image"].ver = db.image)
CachesList == \/ entry'["list"] = entry["list"] \/ entry'["list"].ver = 0
              \/ entry'["list"].late \/ entry'["list"].ver = db.list

\* A step of a reader leaves the database and the writers alone; what it puts in
\* the cache is present or late, and the marker it sets is late when the image
\* is there.
LEMMA ReaderStep ==
    ASSUME CacheInv, UNCHANGED <<db, missed, writer>>,
           reader' \in [Readers -> ReaderRecord], flight' \in [Readers -> FlightRecord],
           fill' \in [Readers -> FillRecord], leader' \in Readers \cup {NoReader},
           entry' \in [{"image", "list"} -> EntryRecord], CachesImage, CachesList,
           marker' \in {"none", "true", "late"},
           marker' = "true" => marker = "true" \/ db.life # "live",
           \A r \in Readers :
               /\ reader'[r].pc = "store" => reader'[r] = reader[r] \/ reader'[r].ver <= db.list
               /\ flight'[r].pc = "end" /\ flight'[r].found =>
                     flight'[r] = flight[r] \/ OfImage(flight'[r].ver)
               /\ fill'[r].pc # "none" =>
                     (fill[r].pc # "none" /\ fill'[r].ver = fill[r].ver) \/ OfImage(fill'[r].ver)
    PROVE  CacheInv'
  <1>1. CacheTypeOK'
    BY CacheTyped DEF CacheInv, CacheTypeOK, ReaderRecord, FlightRecord, FillRecord, EntryRecord
  <1>2. VersionsAreReal'
    <2>1. db.life = "unborn" => entry'["image"].ver = 0
      BY DEF CacheInv, VersionsAreReal, CachesImage, OfImage
    <2>2. ASSUME NEW r \in Readers
          PROVE  /\ reader'[r].pc = "store" => reader'[r].ver <= db.list
                 /\ flight'[r].pc = "end" /\ flight'[r].found => OfImage(flight'[r].ver)
                 /\ fill'[r].pc # "none" => OfImage(fill'[r].ver)
      BY DEF CacheInv, VersionsAreReal
    <2>3. \A w \in Writers : writer[w].pc \in {"clear", "set"} => OfImage(writer[w].ver)
      BY DEF CacheInv, VersionsAreReal
    <2> QED BY <2>1, <2>2, <2>3 DEF VersionsAreReal, OfImage
  <1>3. ImageIsCurrent'
    <2> SUFFICES ASSUME entry'["image"].ver # 0, ~ entry'["image"].late
                 PROVE  \/ db.life = "live" /\ (entry'["image"].ver = db.image \/ Owes("image") # {})
                        \/ \E w \in Writers : writer[w].pc \in {"vrows", "vlist", "entry"}
      BY DEF ImageIsCurrent, Owes
    <2>1. CASE entry'["image"] = entry["image"]
      BY <2>1 DEF CacheInv, ImageIsCurrent
    <2>2. CASE OfImage(entry'["image"].ver) /\ entry'["image"].ver = db.image
      <3>1. db.life = "live"
        <4>1. db.image \in Nat /\ db.life \in {"unborn", "live", "deleted"}
          BY CacheTyped, VersionsAreNumbers DEF CacheInv
        <4>2. ~ (db.image < db.image)
          BY <4>1
        <4> QED BY <2>2, <4>1, <4>2 DEF OfImage
      <3> QED BY <2>2, <3>1
    <2> QED BY <2>1, <2>2 DEF CachesImage
  <1>4. ListIsCurrent'
    BY DEF CacheInv, ListIsCurrent, CachesList, Owes
  <1>5. MarkerGoes'
    BY DEF CacheInv, MarkerGoes
  <1> QED BY <1>1, <1>2, <1>3, <1>4, <1>5 DEF CacheInv

LEMMA EntriesStay ==
    ASSUME CacheInv, UNCHANGED entry
    PROVE  entry' \in [{"image", "list"} -> EntryRecord] /\ CachesImage /\ CachesList
  BY CacheTyped DEF CacheInv, CachesImage, CachesList

LEMMA ReadImageInv ==
    ASSUME CacheInv, NEW r \in Readers, ReadImage(r)
    PROVE  CacheInv'
  <1>1. /\ db.image \in Versions /\ reader \in [Readers -> ReaderRecord]
        /\ flight \in [Readers -> FlightRecord] /\ fill \in [Readers -> FillRecord]
        /\ leader \in Readers \cup {NoReader} /\ marker \in {"none", "true", "late"}
        /\ db.image \in Nat /\ db.life \in {"unborn", "live", "deleted"}
    BY CacheTyped, VersionsAreNumbers DEF CacheInv, CacheTypeOK
  <1> USE NothingCached
  <1>2. CASE Probe(r)
    <2>1. reader' \in [Readers -> ReaderRecord] /\ \A q \in Readers : reader'[q].pc = "store" => reader'[q] = reader[q]
      <3>1. ASSUME NEW p \in {"get", "again", "join"}, ReaderGo(r, p)
            PROVE  reader' \in [Readers -> ReaderRecord] /\ \A q \in Readers : reader'[q].pc = "store" => reader'[q] = reader[q]
        BY <1>1, <3>1 DEF ReaderGo, ReaderRecord, ReaderPc
      <3>2. CASE ReaderEnds(r)
        BY <1>1, <3>2 DEF ReaderEnds
      <3> QED BY <1>2, <3>1, <3>2 DEF Probe, ProbeMarker, GetEntry, ProbeMarkerAgain
    <2>2. UNCHANGED <<db, entry, marker, missed, flight, leader, fill, writer>>
      BY <1>2 DEF Probe
    <2> QED BY <1>1, <2>1, <2>2, EntriesStay, ReaderStep
  <1>3. CASE JoinFlight(r)
    <2>1. UNCHANGED <<db, entry, marker, missed, fill, writer>>
      BY <1>3 DEF JoinFlight
    <2>2. ASSUME NEW q \in Readers, reader' = [reader EXCEPT ![r].pc = "wait", ![r].on = q]
          PROVE  /\ reader' \in [Readers -> ReaderRecord]
                 /\ \A m \in Readers : reader'[m].pc = "store" => reader'[m] = reader[m]
      BY <1>1, <2>2 DEF ReaderRecord, ReaderPc
    <2>3. /\ reader' \in [Readers -> ReaderRecord]
          /\ \A m \in Readers : reader'[m].pc = "store" => reader'[m] = reader[m]
      BY <1>1, <1>3, <2>2 DEF JoinFlight
    <2>4. /\ leader' \in Readers \cup {NoReader} /\ flight' \in [Readers -> FlightRecord]
          /\ \A m \in Readers : flight'[m].pc = "end" => flight'[m] = flight[m]
      <3>1. CASE UNCHANGED <<leader, flight>>
        BY <1>1, <3>1
      <3>2. CASE leader' = r /\ flight' = [flight EXCEPT ![r].pc = "query"]
        BY <1>1, <3>2 DEF FlightRecord
      <3> QED BY <1>3, <3>1, <3>2 DEF JoinFlight
    <2> QED BY <1>1, <2>1, <2>3, <2>4, EntriesStay, ReaderStep
  <1>4. CASE QueryImage(r)
    <2>1. UNCHANGED <<db, entry, marker, missed, reader, leader, fill, writer>>
      BY <1>4 DEF QueryImage
    <2> DEFINE live == db.life = "live"
    <2>2. live \in BOOLEAN /\ flight' = [flight EXCEPT ![r] = [pc |-> "end", found |-> live, ver |-> db.image]]
      BY <1>4 DEF QueryImage
    <2>3. live => OfImage(db.image)
      BY <1>1 DEF OfImage
    <2> HIDE DEF live
    <2>4. [pc |-> "end", found |-> live, ver |-> db.image] \in FlightRecord
      BY <1>1, <2>2 DEF FlightRecord
    <2>5. /\ flight' \in [Readers -> FlightRecord]
          /\ \A q \in Readers : flight'[q].pc = "end" /\ flight'[q].found =>
                flight'[q] = flight[q] \/ OfImage(flight'[q].ver)
      BY <1>1, <2>2, <2>3, <2>4
    <2> QED BY <1>1, <2>1, <2>5, EntriesStay, ReaderStep
  <1>5. CASE EndFlight(r)
    <2>1. UNCHANGED <<db, entry, missed, writer>> /\ flight[r].pc = "end"
      BY <1>5 DEF EndFlight
    <2>2. reader' \in [Readers -> ReaderRecord] /\ \A q \in Readers : reader'[q].pc = "store" => reader'[q] = reader[q]
      BY <1>1, <1>5 DEF EndFlight
    <2>3. /\ flight' \in [Readers -> FlightRecord] /\ leader' \in Readers \cup {NoReader}
          /\ \A q \in Readers : flight'[q].pc = "end" => flight'[q] = flight[q]
      BY <1>1, <1>5 DEF EndFlight
    <2>4. /\ marker' \in {"none", "true", "late"} /\ fill' \in [Readers -> FillRecord]
          /\ marker' = "true" => marker = "true" \/ db.life # "live"
          /\ \A q \in Readers : fill'[q].pc # "none" =>
                (fill[q].pc # "none" /\ fill'[q].ver = fill[q].ver) \/ OfImage(fill'[q].ver)
      <3>1. CASE flight[r].found
        <4>1. OfImage(flight[r].ver) /\ flight[r].ver \in Versions
          BY <1>1, <2>1, <3>1 DEF CacheInv, VersionsAreReal, FlightRecord
        <4>2. [pc |-> "clear", ver |-> flight[r].ver] \in FillRecord
          BY <4>1 DEF FillRecord
        <4>3. fill' = [fill EXCEPT ![r] = [pc |-> "clear", ver |-> flight[r].ver]] /\ UNCHANGED marker
          BY <1>5, <3>1 DEF EndFlight
        <4> QED BY <1>1, <4>1, <4>2, <4>3
      <3>2. CASE ~ flight[r].found
        BY <1>1, <1>5, <3>2 DEF EndFlight
      <3> QED BY <3>1, <3>2
    <2> QED BY <2>1, <2>2, <2>3, <2>4, EntriesStay, ReaderStep
  <1>6. CASE ForgetFlight(r)
    <2>1. UNCHANGED <<db, entry, marker, missed, flight, fill, writer>> /\ leader' = NoReader
      BY <1>6 DEF ForgetFlight
    <2>2. reader' \in [Readers -> ReaderRecord] /\ \A q \in Readers : reader'[q].pc = "store" => reader'[q] = reader[q]
      BY <1>1, <1>6 DEF ForgetFlight, ReaderEnds
    <2> QED BY <1>1, <2>1, <2>2, EntriesStay, ReaderStep
  <1>7. CASE FillImage(r)
    <2>1. UNCHANGED <<db, missed, reader, flight, leader, writer>>
      BY <1>7 DEF FillImage
    <2>2. CASE /\ fill[r].pc = "clear" /\ marker' = "none"
               /\ fill' = [fill EXCEPT ![r].pc = "set"] /\ UNCHANGED entry
      <3>1. /\ fill' \in [Readers -> FillRecord]
            /\ \A q \in Readers : fill'[q].pc # "none" => fill[q].pc # "none" /\ fill'[q].ver = fill[q].ver
        BY <1>1, <2>2 DEF FillRecord
      <3> QED BY <1>1, <2>1, <2>2, <3>1, EntriesStay, ReaderStep
    <2>3. CASE /\ fill[r].pc = "set" /\ Put("image", fill[r].ver)
               /\ fill' = [fill EXCEPT ![r] = NoFill] /\ UNCHANGED marker
      <3>1. OfImage(fill[r].ver) /\ fill[r].ver \in Versions
        BY <1>1, <2>3 DEF CacheInv, VersionsAreReal, FillRecord
      <3>2. /\ entry' \in [{"image", "list"} -> EntryRecord]
            /\ entry'["list"] = entry["list"]
            /\ entry'["image"].ver = fill[r].ver
            /\ entry'["image"].late \/ entry'["image"].ver = db.image
        BY <2>3, <3>1, PutInCache DEF OfImage, CacheInv
      <3>3. /\ fill' \in [Readers -> FillRecord]
            /\ \A q \in Readers : fill'[q].pc # "none" => fill'[q] = fill[q]
        BY <1>1, <2>3
      <3>4. CachesImage /\ CachesList
        BY <3>1, <3>2 DEF CachesImage, CachesList
      <3> QED BY <1>1, <2>1, <2>3, <3>2, <3>3, <3>4, ReaderStep
    <2> QED BY <1>7, <2>2, <2>3 DEF FillImage
  <1> QED BY <1>2, <1>3, <1>4, <1>5, <1>6, <1>7 DEF ReadImage

LEMMA ReadListInv ==
    ASSUME CacheInv, NEW r \in Readers, ReadList(r)
    PROVE  CacheInv'
  <1>1. /\ db.list \in Versions /\ db.list \in Nat /\ reader \in [Readers -> ReaderRecord]
        /\ flight \in [Readers -> FlightRecord] /\ fill \in [Readers -> FillRecord]
        /\ leader \in Readers \cup {NoReader} /\ marker \in {"none", "true", "late"}
    BY CacheTyped, VersionsAreNumbers DEF CacheInv, CacheTypeOK
  <1>2. UNCHANGED <<db, marker, missed, flight, leader, fill, writer>>
    BY DEF ReadList, GetList, FetchList, StoreList
  <1>3. CASE GetList(r)
    <2>1. /\ UNCHANGED entry /\ reader' \in [Readers -> ReaderRecord]
          /\ \A q \in Readers : reader'[q].pc = "store" => reader'[q] = reader[q]
      BY <1>1, <1>3 DEF GetList, ReaderGo, ReaderRecord, ReaderPc
    <2> QED BY <1>1, <1>2, <2>1, EntriesStay, ReaderStep
  <1>4. CASE FetchList(r)
    <2>1. /\ UNCHANGED entry /\ reader' \in [Readers -> ReaderRecord]
          /\ \A q \in Readers : reader'[q] = reader[q] \/ reader'[q].ver = db.list
      BY <1>1, <1>4 DEF FetchList, ReaderRecord, ReaderPc
    <2> QED BY <1>1, <1>2, <2>1, EntriesStay, ReaderStep
  <1>5. CASE StoreList(r)
    <2>1. reader[r].ver \in Versions /\ reader[r].ver <= db["list"] /\ Put("list", reader[r].ver)
      BY <1>1, <1>5 DEF StoreList, ReaderRecord, CacheInv, VersionsAreReal
    <2>2. /\ entry' \in [{"image", "list"} -> EntryRecord]
          /\ entry'["image"] = entry["image"]
          /\ entry'["list"].late \/ entry'["list"].ver = db.list
      BY <2>1, PutInCache DEF CacheInv
    <2>3. reader' \in [Readers -> ReaderRecord] /\ \A q \in Readers : reader'[q].pc = "store" => reader'[q] = reader[q]
      BY <1>1, <1>5, NothingCached DEF StoreList, ReaderEnds
    <2>4. CachesImage /\ CachesList
      BY <2>2 DEF CachesImage, CachesList
    <2> QED BY <1>1, <1>2, <2>2, <2>3, <2>4, ReaderStep
  <1> QED BY <1>3, <1>4, <1>5 DEF ReadList

LEMMA ExpireInv ==
    ASSUME CacheInv, Expire
    PROVE  CacheInv'
  <1>1. /\ UNCHANGED <<db, missed, reader, flight, leader, fill, writer>>
        /\ reader \in [Readers -> ReaderRecord]
        /\ flight \in [Readers -> FlightRecord] /\ fill \in [Readers -> FillRecord]
        /\ leader \in Readers \cup {NoReader} /\ marker \in {"none", "true", "late"}
    BY CacheTyped DEF CacheInv, CacheTypeOK, Expire
  <1>2. CASE UNCHANGED entry /\ marker' = "none"
    BY <1>1, <1>2, EntriesStay, ReaderStep
  <1>3. ASSUME NEW k \in {"image", "list"}, Drop(k), UNCHANGED marker
        PROVE  CacheInv'
    <2>1. entry' \in [{"image", "list"} -> EntryRecord] /\ CachesImage /\ CachesList
      BY <1>3, DropFromEntries DEF CacheInv, CachesImage, CachesList
    <2> QED BY <1>1, <1>3, <2>1, ReaderStep
  <1> QED BY <1>2, <1>3 DEF Expire

---------------------------------------------------------------------------
\* Writers

ImageOwers == {"reread", "clear", "set", "vrows", "vlist", "entry", "entryThenList"}
ListOwers == {"vlist", "status", "entryThenList", "markerThenList", "list"}
Deleting == {"vrows", "vlist", "entry"}

\* Only its own step moves a writer.
Turns(w, p) ==
    /\ writer' \in [Writers -> WriterRecord]
    /\ \A u \in Writers \ {w} : writer'[u] = writer[u]
    /\ writer'[w].pc = p

\* The image in the cache stays as good as it was, or somebody owes it.
OwesImage(w, p) ==
    \/ entry'["image"].ver = 0 \/ entry'["image"].late
    \/ db'.life = "live" /\ (entry'["image"].ver = db'.image \/ p \in ImageOwers)
    \/ p \in Deleting
    \/ /\ entry'["image"] = entry["image"] /\ db'.life = db.life /\ db'.image = db.image
       /\ db.life = "live" /\ writer[w].pc \in ImageOwers => p \in ImageOwers
       /\ writer[w].pc \in Deleting => p \in Deleting
OwesList(w, p) ==
    \/ entry'["list"].ver = 0 \/ entry'["list"].late \/ entry'["list"].ver = db'.list
    \/ p \in ListOwers
    \/ /\ entry'["list"] = entry["list"] /\ db'.list = db.list
       /\ writer[w].pc \in ListOwers => p \in ListOwers
OwesMarker(w, p) ==
    \/ marker' # "true" \/ db'.life # "live" \/ missed' \/ p = "clear"
    \/ /\ marker' = marker /\ db'.life = db.life /\ missed' = missed
       /\ writer[w].pc = "clear" => p = "clear"

\* OfImage, of the database after the step.
StillOfImage(v) ==
    /\ db'.life # "unborn" /\ v <= db'.image
    /\ db'.life = "deleted" => v < db'.image

\* The database only goes on.
DatabaseGoesOn ==
    /\ db' \in DbRecord
    /\ db.list <= db'.list
    /\ db.life # "unborn" => db'.life # "unborn" /\ db.image <= db'.image
    /\ db'.life = "deleted" => db.life = "deleted" \/ db.image < db'.image

LEMMA WriterStep ==
    ASSUME CacheInv, NEW w \in Writers, NEW p, Turns(w, p),
           UNCHANGED <<reader, flight, leader, fill>>, DatabaseGoesOn, missed' \in BOOLEAN,
           entry' \in [{"image", "list"} -> EntryRecord], marker' \in {"none", "true", "late"},
           p \in {"clear", "set"} => StillOfImage(writer'[w].ver),
           db'.life = "unborn" => entry'["image"].ver = 0,
           OwesImage(w, p), OwesList(w, p), OwesMarker(w, p)
    PROVE  CacheInv'
  <1>1. CacheTypeOK'
    BY DEF CacheInv, CacheTypeOK, DatabaseGoesOn, DbRecord, Turns, WriterRecord, EntryRecord
  <1>2. /\ \A r \in Readers : reader[r].ver \in Nat /\ flight[r].ver \in Nat /\ fill[r].ver \in Nat
        /\ \A u \in Writers : writer[u].ver \in Nat
        /\ db.image \in Nat /\ db.list \in Nat /\ db'.image \in Nat /\ db'.list \in Nat
        /\ db'.life \in {"unborn", "live", "deleted"}
    BY CacheTyped, VersionsAreNumbers DEF CacheInv, DatabaseGoesOn, DbRecord, ReaderRecord,
       FlightRecord, FillRecord, WriterRecord
  <1>3. ASSUME NEW v \in Nat, OfImage(v)
        PROVE  /\ db'.life # "unborn" /\ v <= db'.image
               /\ db'.life = "deleted" => v < db'.image
    BY <1>2, <1>3 DEF OfImage, DatabaseGoesOn
  <1>4. VersionsAreReal'
    <2>1. \A r \in Readers : reader[r].pc = "store" => reader[r].ver <= db'.list
      BY <1>2 DEF CacheInv, VersionsAreReal, DatabaseGoesOn
    <2>2. \A r \in Readers :
             /\ flight[r].pc = "end" /\ flight[r].found =>
                  /\ db'.life # "unborn" /\ flight[r].ver <= db'.image
                  /\ db'.life = "deleted" => flight[r].ver < db'.image
             /\ fill[r].pc # "none" =>
                  /\ db'.life # "unborn" /\ fill[r].ver <= db'.image
                  /\ db'.life = "deleted" => fill[r].ver < db'.image
      BY <1>2, <1>3 DEF CacheInv, VersionsAreReal
    <2>3. \A u \in Writers \ {w} : writer'[u].pc \in {"clear", "set"} =>
             /\ db'.life # "unborn" /\ writer'[u].ver <= db'.image
             /\ db'.life = "deleted" => writer'[u].ver < db'.image
      BY <1>2, <1>3 DEF CacheInv, VersionsAreReal, Turns
    <2>4. p \in {"clear", "set"} =>
             /\ db'.life # "unborn" /\ writer'[w].ver <= db'.image
             /\ db'.life = "deleted" => writer'[w].ver < db'.image
      BY DEF StillOfImage
    <2> QED BY <2>1, <2>2, <2>3, <2>4 DEF VersionsAreReal, OfImage, Turns
  <1>5. ImageIsCurrent'
    <2>1. ASSUME p \in ImageOwers PROVE Owes("image")' # {}
      BY <2>1 DEF Owes, ImageOwers, Turns
    <2>2. CASE p \in Deleting
      BY <2>2 DEF ImageIsCurrent, Turns, Deleting
    <2>3. CASE /\ entry'["image"] = entry["image"] /\ db'.life = db.life /\ db'.image = db.image
               /\ db.life = "live" /\ writer[w].pc \in ImageOwers => p \in ImageOwers
               /\ writer[w].pc \in Deleting => p \in Deleting
      <3> SUFFICES ASSUME entry["image"].ver # 0, ~ entry["image"].late,
                          ~ (db.life = "live" /\ entry["image"].ver = db.image)
                   PROVE  \/ db.life = "live" /\ Owes("image")' # {}
                          \/ \E u \in Writers : writer'[u].pc \in Deleting
        BY <2>3 DEF ImageIsCurrent, Deleting
      <3>1. CASE \E u \in Writers : writer[u].pc \in Deleting
        BY <2>3, <3>1 DEF Turns
      <3>2. CASE db.life = "live" /\ Owes("image") # {}
        <4>1. PICK u \in Writers : writer[u].pc \in ImageOwers
          BY <3>2 DEF Owes, ImageOwers
        <4>2. writer'[u].pc \in ImageOwers
          BY <2>3, <3>2, <4>1 DEF Turns
        <4> QED BY <3>2, <4>2 DEF Owes, ImageOwers
      <3> QED BY <3>1, <3>2 DEF CacheInv, ImageIsCurrent, Deleting
    <2> QED BY <2>1, <2>2, <2>3 DEF ImageIsCurrent, OwesImage
  <1>6. ListIsCurrent'
    <2>1. ASSUME p \in ListOwers PROVE Owes("list")' # {}
      BY <2>1 DEF Owes, ListOwers, Turns
    <2>2. CASE /\ entry'["list"] = entry["list"] /\ db'.list = db.list
               /\ writer[w].pc \in ListOwers => p \in ListOwers
      <3> SUFFICES ASSUME entry["list"].ver # 0, ~ entry["list"].late, entry["list"].ver # db.list
                   PROVE  Owes("list")' # {}
        BY <2>2 DEF ListIsCurrent
      <3>1. PICK u \in Writers : writer[u].pc \in ListOwers
        BY DEF CacheInv, ListIsCurrent, Owes, ListOwers
      <3>2. writer'[u].pc \in ListOwers
        BY <2>2, <3>1 DEF Turns
      <3> QED BY <3>2 DEF Owes, ListOwers
    <2> QED BY <2>1, <2>2 DEF ListIsCurrent, OwesList
  <1>7. MarkerGoes'
    BY DEF CacheInv, MarkerGoes, OwesMarker, Turns
  <1> QED BY <1>1, <1>4, <1>5, <1>6, <1>7 DEF CacheInv

LEMMA WriterTyped ==
    ASSUME CacheInv, NEW w \in Writers
    PROVE  /\ writer \in [Writers -> WriterRecord] /\ writer[w] \in WriterRecord
           /\ db \in DbRecord /\ db.image \in Versions /\ db.list \in Versions
           /\ db.image \in Nat /\ db.list \in Nat
           /\ db.life \in {"unborn", "live", "deleted"}
           /\ entry \in [{"image", "list"} -> EntryRecord]
           /\ marker \in {"none", "true", "late"} /\ missed \in BOOLEAN
           /\ writer[w].pc \in WriterPc /\ writer[w].ver \in Versions
           /\ db.life = "unborn" => entry["image"].ver = 0
  BY CacheTyped, VersionsAreNumbers DEF CacheInv, CacheTypeOK, WriterRecord, VersionsAreReal

\* A writer goes on with the version it holds, or with a new one, or ends.
LEMMA WriterTurns ==
    ASSUME CacheInv, NEW w \in Writers
    PROVE  /\ \A p \in WriterPc : WriterGo(w, p) => Turns(w, p) /\ writer'[w].ver = writer[w].ver
           /\ \A p \in WriterPc, v \in Versions :
                 writer' = [writer EXCEPT ![w] = [pc |-> p, ver |-> v]] =>
                    Turns(w, p) /\ writer'[w].ver = v
           /\ WriterEnds(w) => Turns(w, "idle")
           /\ UNCHANGED writer => Turns(w, writer[w].pc)
  BY WriterTyped, NothingCached DEF WriterGo, WriterEnds, Turns, WriterRecord

\* A write of the row, or of the variants.
LEMMA RowWritten ==
    ASSUME CacheInv, db.image < MaxVersion, NEW life \in {"live", "deleted"},
           db' = [db EXCEPT !.life = life, !.image = @ + 1],
           db.life = "live" \/ life = "live"
    PROVE  /\ DatabaseGoesOn /\ db'.life = life /\ db'.image = db.image + 1 /\ db'.list = db.list
  <1>1. db \in DbRecord /\ db.image \in Nat /\ db.list \in Nat /\ db.image + 1 \in Versions
    BY CacheTyped, VersionsAreNumbers DEF CacheInv
  <1>2. \A n \in Versions : LET d == [db EXCEPT !.life = life, !.image = n]
                            IN  d \in DbRecord /\ d.life = life /\ d.image = n /\ d.list = db.list
    BY <1>1 DEF DbRecord
  <1>3. db' \in DbRecord /\ db'.life = life /\ db'.image = db.image + 1 /\ db'.list = db.list
    BY <1>1, <1>2
  <1> QED BY <1>1, <1>3 DEF DatabaseGoesOn

LEMMA ImageWritten ==
    ASSUME CacheInv, db.life = "live", db.image < MaxVersion, db' = [db EXCEPT !.image = @ + 1]
    PROVE  /\ DatabaseGoesOn /\ db'.life = "live" /\ db'.image = db.image + 1 /\ db'.list = db.list
  BY CacheTyped, VersionsAreNumbers DEF CacheInv, DatabaseGoesOn, DbRecord

LEMMA ListWritten ==
    ASSUME CacheInv, db.list < MaxVersion, db' = [db EXCEPT !.list = @ + 1]
    PROVE  /\ DatabaseGoesOn /\ db'.life = db.life /\ db'.image = db.image /\ db'.list = db.list + 1
  BY CacheTyped, VersionsAreNumbers DEF CacheInv, DatabaseGoesOn, DbRecord

LEMMA NothingWritten ==
    ASSUME CacheInv, UNCHANGED db
    PROVE  /\ DatabaseGoesOn /\ db'.life = db.life /\ db'.image = db.image /\ db'.list = db.list
  <1>1. db \in DbRecord /\ db.image \in Nat /\ db.list \in Nat
    BY CacheTyped, VersionsAreNumbers DEF CacheInv
  <1> QED BY <1>1 DEF DatabaseGoesOn

LEMMA BeginWriteInv ==
    ASSUME CacheInv, NEW w \in Writers, BeginWrite(w)
    PROVE  CacheInv'
  <1> USE DEF CanWrite, WriterRest
  <1> USE WriterTyped
  <1>1. writer[w].pc = "idle" /\ UNCHANGED <<reader, flight, leader, fill, marker>>
    BY DEF BeginWrite, InsertImage, UpdateImage, DeleteImage, SaveResults, ChangeStatusOnly
  <1>2. CASE InsertImage(w)
    <2>1. /\ db.life = "unborn" /\ db' = [db EXCEPT !.life = "live", !.image = @ + 1]
          /\ db.image < MaxVersion /\ UNCHANGED entry
      BY <1>2 DEF InsertImage
    <2>2. DatabaseGoesOn /\ db'.life = "live" /\ db'.image = db.image + 1 /\ db'.list = db.list
      BY <2>1, RowWritten
    <2>4. CASE /\ writer' = [writer EXCEPT ![w] = [pc |-> "clear", ver |-> db.image + 1]]
               /\ UNCHANGED missed
      <3>1. db.image + 1 \in Versions
        BY <2>1, VersionsAreNumbers
      <3>2. Turns(w, "clear") /\ writer'[w].ver = db.image + 1
        BY <2>4, <3>1, WriterTurns DEF WriterPc
      <3>3. StillOfImage(writer'[w].ver)
        BY <2>2, <3>2 DEF StillOfImage
      <3>4. OwesImage(w, "clear") /\ OwesMarker(w, "clear")
        BY <2>2 DEF OwesImage, OwesMarker, ImageOwers
      <3>6. OwesList(w, "clear")
        BY <1>1, <2>1, <2>2 DEF OwesList, ListOwers
      <3> QED BY <1>1, <2>1, <2>2, <2>4, <3>2, <3>3, <3>4, <3>6, WriterStep
    <2>5. CASE missed' = TRUE /\ UNCHANGED writer
      <3>1. Turns(w, "idle")
        BY <1>1, <2>5, WriterTurns
      <3>2. OwesImage(w, "idle") /\ OwesMarker(w, "idle") /\ OwesList(w, "idle")
        BY <1>1, <2>1, <2>2, <2>5 DEF OwesImage, OwesMarker, OwesList, ListOwers
      <3> QED BY <1>1, <2>1, <2>2, <2>5, <3>1, <3>2, WriterStep
    <2> QED BY <1>2, <2>4, <2>5 DEF InsertImage
  <1>3. CASE UpdateImage(w)
    <2>1. Turns(w, "reread") /\ UNCHANGED <<entry, missed>>
      BY <1>3, WriterTurns DEF UpdateImage, WriterPc
    <2>2. DatabaseGoesOn /\ db'.life = "live" /\ db.life = "live" /\ db'.list = db.list
      BY <1>3, ImageWritten DEF UpdateImage
    <2>3. OwesImage(w, "reread") /\ OwesMarker(w, "reread") /\ OwesList(w, "reread")
      BY <1>1, <2>1, <2>2 DEF OwesImage, OwesMarker, OwesList, ImageOwers, ListOwers
    <2> QED BY <1>1, <2>1, <2>2, <2>3, WriterStep
  <1>4. CASE DeleteImage(w)
    <2>1. Turns(w, "vrows") /\ UNCHANGED <<entry, missed>>
      BY <1>4, WriterTurns DEF DeleteImage, WriterPc
    <2>2. DatabaseGoesOn /\ db'.life = "deleted" /\ db'.list = db.list
      BY <1>4, RowWritten DEF DeleteImage
    <2>3. OwesImage(w, "vrows") /\ OwesMarker(w, "vrows") /\ OwesList(w, "vrows")
      BY <1>1, <2>1, <2>2 DEF OwesImage, OwesMarker, OwesList, Deleting, ListOwers
    <2> QED BY <1>1, <2>1, <2>2, <2>3, WriterStep
  <1>5. CASE SaveResults(w)
    <2>1. Turns(w, "status") /\ UNCHANGED <<entry, missed>> /\ db.life # "unborn"
      BY <1>5, WriterTurns DEF SaveResults, WriterPc
    <2>2. DatabaseGoesOn /\ db'.life = db.life /\ db'.image = db.image
      BY <1>5, ListWritten DEF SaveResults
    <2>3. OwesImage(w, "status") /\ OwesMarker(w, "status") /\ OwesList(w, "status")
      BY <1>1, <2>1, <2>2 DEF OwesImage, OwesMarker, OwesList, ImageOwers, Deleting, ListOwers
    <2> QED BY <1>1, <2>1, <2>2, <2>3, WriterStep
  <1>6. CASE ChangeStatusOnly(w)
    <2>1. Turns(w, "idle") /\ UNCHANGED missed
      BY <1>1, <1>6, WriterTurns DEF ChangeStatusOnly
    <2>2. DatabaseGoesOn /\ db'.life = "live" /\ db.life = "live" /\ db'.list = db.list
      BY <1>6, ImageWritten DEF ChangeStatusOnly
    <2>3. /\ entry' \in [{"image", "list"} -> EntryRecord]
          /\ entry'["list"] = entry["list"]
          /\ entry'["image"].late \/ entry'["image"].ver = 0
      <3> DEFINE late == entry["image"].ver # 0
      <3>1. entry' = [entry EXCEPT !["image"].late = late]
        BY <1>6 DEF ChangeStatusOnly
      <3>2. late \in BOOLEAN /\ (late \/ entry["image"].ver = 0)
        OBVIOUS
      <3> HIDE DEF late
      <3> QED BY <3>1, <3>2 DEF EntryRecord
    <2>4. OwesImage(w, "idle") /\ OwesMarker(w, "idle") /\ OwesList(w, "idle")
      BY <1>1, <2>1, <2>2, <2>3 DEF OwesImage, OwesMarker, OwesList, ListOwers
    <2> QED BY <1>1, <2>1, <2>2, <2>3, <2>4, WriterStep
  <1> QED BY <1>2, <1>3, <1>4, <1>5, <1>6 DEF BeginWrite

LEMMA FinishWriteInv ==
    ASSUME CacheInv, NEW w \in Writers, FinishWrite(w)
    PROVE  CacheInv'
  <1> USE DEF CanWrite, WriterRest
  <1> USE WriterTyped
  <1>1. UNCHANGED <<reader, flight, leader, fill, missed>>
    BY DEF FinishWrite, RereadImage, CacheImage, DeleteVariants, UpdateStatus, DropFromCache
  <1>2. CASE RereadImage(w)
    <2>1. UNCHANGED <<db, entry, marker>> /\ writer[w].pc = "reread"
      BY <1>2 DEF RereadImage
    <2>2. CASE db.life = "live"
      <3>1. Turns(w, "clear") /\ writer'[w].ver = db.image
        BY <1>2, <2>2, WriterTurns DEF RereadImage, WriterPc
      <3>2. StillOfImage(writer'[w].ver)
        BY <2>1, <2>2, <3>1 DEF StillOfImage
      <3>3. OwesImage(w, "clear") /\ OwesMarker(w, "clear") /\ OwesList(w, "clear")
        BY <2>1, <2>2 DEF OwesImage, OwesMarker, OwesList, ImageOwers, ListOwers
      <3> QED BY <1>1, <2>1, <3>1, <3>2, <3>3, WriterStep, NothingWritten
    <2>3. CASE db.life # "live"
      <3>1. Turns(w, "idle")
        BY <1>2, <2>3, WriterTurns DEF RereadImage
      <3>2. OwesImage(w, "idle") /\ OwesMarker(w, "idle") /\ OwesList(w, "idle")
        BY <1>1, <2>1, <2>3 DEF OwesImage, OwesMarker, OwesList, ImageOwers, ListOwers, Deleting
      <3> QED BY <1>1, <2>1, <3>1, <3>2, WriterStep, NothingWritten
    <2> QED BY <2>2, <2>3
  <1>3. CASE CacheImage(w)
    <2>1. UNCHANGED db /\ writer[w].pc \in {"clear", "set"} /\ OfImage(writer[w].ver)
          /\ writer[w].ver \in Versions /\ writer[w].ver \in Nat
      BY <1>3, VersionsAreNumbers DEF CacheImage, CacheInv, VersionsAreReal
    <2>2. CASE writer[w].pc = "clear" /\ marker' = "none" /\ WriterGo(w, "set") /\ UNCHANGED entry
      <3>1. Turns(w, "set") /\ writer'[w].ver = writer[w].ver
        BY <2>2, WriterTurns DEF WriterPc
      <3>2. StillOfImage(writer'[w].ver)
        BY <2>1, <3>1 DEF StillOfImage, OfImage
      <3>3. OwesImage(w, "set") /\ OwesMarker(w, "set") /\ OwesList(w, "set")
        BY <2>1, <2>2 DEF OwesImage, OwesMarker, OwesList, ImageOwers, ListOwers, Deleting
      <3> QED BY <1>1, <2>1, <2>2, <3>1, <3>2, <3>3, WriterStep, NothingWritten
    <2>3. CASE writer[w].pc = "set" /\ Put("image", writer[w].ver) /\ WriterEnds(w) /\ UNCHANGED marker
      <3>1. Turns(w, "idle")
        BY <2>3, WriterTurns
      <3>2. /\ entry' \in [{"image", "list"} -> EntryRecord]
            /\ entry'["list"] = entry["list"] /\ entry'["image"].ver = writer[w].ver
            /\ entry'["image"].late \/ entry'["image"].ver = db.image
        BY <2>1, <2>3, PutInCache DEF OfImage, CacheInv
      <3>3. ~ (db.image < db.image)
        BY DEF OfImage
      <3>4. OwesImage(w, "idle") /\ db'.life # "unborn"
        BY <2>1, <3>2, <3>3 DEF OwesImage, OfImage
      <3>5. OwesMarker(w, "idle") /\ OwesList(w, "idle")
        BY <1>1, <2>1, <2>3, <3>2 DEF OwesMarker, OwesList, ListOwers
      <3> QED BY <1>1, <2>1, <2>3, <3>1, <3>2, <3>4, <3>5, WriterStep, NothingWritten
    <2> QED BY <1>3, <2>2, <2>3 DEF CacheImage
  <1>4. CASE DeleteVariants(w)
    <2>1. Turns(w, "vlist") /\ UNCHANGED <<entry, marker>> /\ writer[w].pc = "vrows"
      BY <1>4, WriterTurns DEF DeleteVariants, WriterPc
    <2>2. DatabaseGoesOn /\ db'.life = db.life /\ db'.image = db.image
      <3>1. CASE db["list"] < MaxVersion
        BY <1>4, <3>1, ListWritten DEF DeleteVariants
      <3>2. CASE ~ (db["list"] < MaxVersion)
        <4>1. db' = db
          BY <1>4, <3>2 DEF DeleteVariants, DbRecord
        <4> QED BY <4>1, NothingWritten
      <3> QED BY <3>1, <3>2
    <2>3. OwesImage(w, "vlist") /\ OwesMarker(w, "vlist") /\ OwesList(w, "vlist")
      BY <1>1, <2>1, <2>2 DEF OwesImage, OwesMarker, OwesList, Deleting, ListOwers
    <2> QED BY <1>1, <2>1, <2>2, <2>3, WriterStep
  <1>5. CASE UpdateStatus(w)
    <2>1. Turns(w, "entryThenList") /\ UNCHANGED <<entry, marker>> /\ writer[w].pc = "status"
      BY <1>5, WriterTurns DEF UpdateStatus, WriterPc
    <2>2. /\ DatabaseGoesOn /\ db'.life = db.life /\ db'.list = db.list
          /\ db.life = "live" \/ db'.image = db.image
      <3>1. CASE db.life = "live" /\ db["image"] < MaxVersion
        BY <1>5, <3>1, ImageWritten DEF UpdateStatus
      <3>2. CASE ~ (db.life = "live" /\ db["image"] < MaxVersion)
        <4>1. db' = db
          BY <1>5, <3>2 DEF UpdateStatus, DbRecord
        <4> QED BY <4>1, NothingWritten
      <3> QED BY <3>1, <3>2
    <2>3. OwesImage(w, "entryThenList") /\ OwesMarker(w, "entryThenList") /\ OwesList(w, "entryThenList")
      BY <1>1, <2>1, <2>2 DEF OwesImage, OwesMarker, OwesList, ImageOwers, Deleting, ListOwers
    <2> QED BY <1>1, <2>1, <2>2, <2>3, WriterStep
  <1>6. CASE DropFromCache(w)
    <2>1. UNCHANGED db
      BY <1>6 DEF DropFromCache
    <2>2. ASSUME NEW p \in WriterPc, writer[w].pc # p, p \notin {"clear", "set"},
                 IF p = "idle" THEN WriterEnds(w) ELSE WriterGo(w, p)
          PROVE  Turns(w, p)
      BY <2>2, WriterTurns
    <2>3. ASSUME NEW p \in WriterPc, p \notin {"clear", "set"}, Turns(w, p), writer[w].pc # "clear",
                 entry' \in [{"image", "list"} -> EntryRecord], marker' = marker \/ marker' = "none",
                 entry'["image"] = entry["image"] \/ entry'["image"].ver = 0,
                 OwesImage(w, p), OwesList(w, p)
          PROVE  CacheInv'
      <3>1. OwesMarker(w, p)
        BY <1>1, <2>1, <2>3 DEF OwesMarker
      <3> QED BY <1>1, <2>1, <2>3, <3>1, WriterStep, NothingWritten
    <2> USE DEF OwesImage, OwesList, ImageOwers, ListOwers, Deleting, WriterPc
    <2>4. CASE /\ writer[w].pc = "vlist" /\ WriterGo(w, "entry") /\ Drop("list") /\ UNCHANGED marker
      <3>1. /\ entry' \in [{"image", "list"} -> EntryRecord]
            /\ entry'["image"] = entry["image"] /\ entry'["list"].ver = 0
        BY <2>4, DropFromEntries DEF CacheInv
      <3>2. OwesImage(w, "entry") /\ OwesList(w, "entry") /\ Turns(w, "entry")
        BY <2>1, <2>2, <2>4, <3>1
      <3> QED BY <2>3, <2>4, <3>1, <3>2
    <2>5. CASE /\ writer[w].pc = "entry" /\ WriterGo(w, "marker") /\ Drop("image") /\ UNCHANGED marker
      <3>1. /\ entry' \in [{"image", "list"} -> EntryRecord]
            /\ entry'["list"] = entry["list"] /\ entry'["image"].ver = 0
        BY <2>5, DropFromEntries DEF CacheInv
      <3>2. OwesImage(w, "marker") /\ OwesList(w, "marker") /\ Turns(w, "marker")
        BY <2>1, <2>2, <2>5, <3>1
      <3> QED BY <2>3, <2>5, <3>1, <3>2
    <2>6. CASE /\ writer[w].pc = "marker" /\ WriterEnds(w) /\ marker' = "none" /\ UNCHANGED entry
      <3>1. OwesImage(w, "idle") /\ OwesList(w, "idle") /\ Turns(w, "idle")
        BY <2>1, <2>2, <2>6
      <3> QED BY <2>3, <2>6, <3>1
    <2>7. CASE /\ writer[w].pc = "entryThenList" /\ WriterGo(w, "markerThenList") /\ Drop("image")
               /\ UNCHANGED marker
      <3>1. /\ entry' \in [{"image", "list"} -> EntryRecord]
            /\ entry'["list"] = entry["list"] /\ entry'["image"].ver = 0
        BY <2>7, DropFromEntries DEF CacheInv
      <3>2. OwesImage(w, "markerThenList") /\ OwesList(w, "markerThenList") /\ Turns(w, "markerThenList")
        BY <2>1, <2>2, <2>7, <3>1
      <3> QED BY <2>3, <2>7, <3>1, <3>2
    <2>8. CASE /\ writer[w].pc = "markerThenList" /\ WriterGo(w, "list") /\ marker' = "none"
               /\ UNCHANGED entry
      <3>1. OwesImage(w, "list") /\ OwesList(w, "list") /\ Turns(w, "list")
        BY <2>1, <2>2, <2>8
      <3> QED BY <2>3, <2>8, <3>1
    <2>9. CASE /\ writer[w].pc = "list" /\ WriterEnds(w) /\ Drop("list") /\ UNCHANGED marker
      <3>1. /\ entry' \in [{"image", "list"} -> EntryRecord]
            /\ entry'["image"] = entry["image"] /\ entry'["list"].ver = 0
        BY <2>9, DropFromEntries DEF CacheInv
      <3>2. OwesImage(w, "idle") /\ OwesList(w, "idle") /\ Turns(w, "idle")
        BY <2>1, <2>2, <2>9, <3>1
      <3> QED BY <2>3, <2>9, <3>1, <3>2
    <2> QED BY <1>6, <2>4, <2>5, <2>6, <2>7, <2>8, <2>9 DEF DropFromCache
  <1> QED BY <1>2, <1>3, <1>4, <1>5, <1>6 DEF FinishWrite

---------------------------------------------------------------------------
\* Theorems

LEMMA CacheStart == CacheInit => CacheInv
  <1> SUFFICES ASSUME CacheInit PROVE CacheInv
    OBVIOUS
  <1>1. 0 \in Versions /\ 1 \in Versions
    BY CacheAssumption DEF Versions
  <1>2. CacheTypeOK
    BY <1>1, NothingCached DEF CacheInit, CacheTypeOK, EntryRecord, ReaderRecord, FlightRecord, FillRecord,
       WriterRecord
  <1> QED BY <1>2 DEF CacheInit, CacheInv, VersionsAreReal, ImageIsCurrent, ListIsCurrent, MarkerGoes,
          NoEntry, IdleReader, NoFlight, NoFill, IdleWriter

LEMMA CacheStays == CacheInv /\ UNCHANGED cacheVars => CacheInv'
  BY DEF CacheInv, CacheTypeOK, VersionsAreReal, OfImage, ImageIsCurrent, ListIsCurrent, MarkerGoes,
     Owes, cacheVars

LEMMA CacheInvariant == CacheSpec => []CacheInv
  <1>1. CacheInv /\ CacheNext => CacheInv'
    BY ReadImageInv, ReadListInv, BeginWriteInv, FinishWriteInv, ExpireInv DEF CacheNext
  <1> QED BY <1>1, CacheStart, CacheStays, PTL DEF CacheSpec

\* Once every writer has returned, what was cached in time is what the database
\* holds, for any number of readers and writers of an image: whoever changes the
\* row or the variants stays responsible for the entry until he has dropped or
\* replaced it, and the entry of a deleted image is the deletion's own.
THEOREM CacheStaysCurrent == CacheSpec => []EntriesAreCurrent
  <1>1. CacheInv => EntriesAreCurrent
    <2> SUFFICES ASSUME CacheInv, NEW k \in {"image", "list"},
                        entry[k].ver # 0, ~ entry[k].late, Owes(k) = {}
                 PROVE  /\ entry[k].ver = db[k]
                        /\ k = "image" => db.life = "live"
      BY DEF EntriesAreCurrent
    <2>1. CASE k = "image"
      <3>1. \A w \in Writers : writer[w].pc \notin {"vrows", "vlist", "entry"}
        BY <2>1 DEF Owes
      <3> QED BY <2>1, <3>1 DEF CacheInv, ImageIsCurrent
    <2>2. CASE k = "list"
      BY <2>2 DEF CacheInv, ListIsCurrent
    <2> QED BY <2>1, <2>2
  <1> QED BY <1>1, CacheInvariant, PTL

\* An image that was uploaded is not reported missing, for any number of
\* requests: a marker that was true before is cleared by the upload's warm-up.
THEOREM MarkerStaysTrue == CacheSpec => []MarkerIsTrue
  <1>1. CacheInv => MarkerIsTrue
    BY DEF CacheInv, MarkerGoes, MarkerIsTrue, Owes
  <1> QED BY <1>1, CacheInvariant, PTL

---------------------------------------------------------------------------
(***************************************************************************)
(* Both together.  MCServices lets one of the two play at a time, around   *)
(* the cache with a few goroutines: whatever it does is what each of the   *)
(* two specifications allows.                                              *)
(***************************************************************************)

LEMMA ServicesStep == [Next]_vars => [PoolNext]_poolVars /\ [CacheNext]_cacheVars
  <1> SUFFICES ASSUME [Next]_vars PROVE [PoolNext]_poolVars /\ [CacheNext]_cacheVars
    OBVIOUS
  <1>1. CASE PoolPart
    BY <1>1 DEF PoolPart
  <1>2. CASE CachePart
    <2>1. CacheNext
      BY <1>2 DEF CachePart, CacheNext, MayWrite, RowWrite, BeginWrite
    <2> QED BY <1>2, <2>1 DEF CachePart
  <1>3. CASE UNCHANGED vars
    BY <1>3 DEF vars
  <1> QED BY <1>1, <1>2, <1>3 DEF Next

\* The services are the pool and the cache side by side: what holds of either
\* for every value of its constants holds of both together.
THEOREM ServicesAreTheirParts == Spec => PoolSpec /\ CacheSpec
  <1>1. Init => PoolInit /\ CacheInit
    BY DEF Init
  <1> QED BY <1>1, ServicesStep, PTL DEF Spec, PoolSpec, CacheSpec

\* Every record of the pool and of the cache has its type.
THEOREM ServicesTypes == Spec => []TypeOK
  <1>1. PoolInv /\ CacheInv => TypeOK
    BY DEF PoolInv, CacheInv, TypeOK
  <1> QED BY <1>1, ServicesAreTheirParts, PoolInvariance, CacheInvariant, PTL

=============================================================================
