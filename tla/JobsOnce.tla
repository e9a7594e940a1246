------------------------------ MODULE JobsOnce ------------------------------
(***************************************************************************)
(* What the worker pool promises to those who hand it work: a job is       *)
(* either refused, and then never runs, or accepted, and then runs exactly *)
(* once.  Queues, workers, panics and shutdown are not mentioned;          *)
(* WorkerPool implements this specification.                               *)
(***************************************************************************)
CONSTANT Jobs

VARIABLE phase   \* phase[j]: what has become of job j

JobPhases == {"new", "refused", "pending", "running", "ended"}

OnceInit == phase = [j \in Jobs |-> "new"]

Becomes(j, from, to) ==
    /\ phase[j] = from
    /\ phase' = [phase EXCEPT ![j] = to]

Declined(j) == Becomes(j, "new", "refused")
Admitted(j) == Becomes(j, "new", "pending")
Begun(j) == Becomes(j, "pending", "running")
Ended(j) == Becomes(j, "running", "ended")

OnceNext == \E j \in Jobs :
    Declined(j) \/ Admitted(j) \/ Begun(j) \/ Ended(j)

OnceSpec == OnceInit /\ [][OnceNext]_phase
=============================================================================
