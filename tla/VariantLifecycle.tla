------------------------- MODULE VariantLifecycle -------------------------
(***************************************************************************)
(* What the variant table promises, whoever writes to it: the life of one  *)
(* row of image_variants.  Nothing here mentions tasks, the sweeper, the   *)
(* converter or time; VariantPipeline implements this specification.       *)
(***************************************************************************)
EXTENDS Naturals

CONSTANTS
    Variants,    \* the (image, format) pairs a row can exist for
    MaxRetries   \* staleMaxRetries: sweeps a row survives

VARIABLES
    life,   \* life[v]: status of the row, "absent" before it is inserted
    tries   \* tries[v]: retry_count

vars == <<life, tries>>

Live == {"pending", "processing", "completed", "failed"}

LifecycleTypeOK ==
    /\ life \in [Variants -> Live \cup {"absent", "deleted"}]
    /\ tries \in [Variants -> 0 .. MaxRetries]

Init ==
    /\ life = [v \in Variants |-> "absent"]
    /\ tries = [v \in Variants |-> 0]

---------------------------------------------------------------------------
\* A row is inserted once; a deleted row keeps its place for ever.
Create(v) ==
    /\ life[v] = "absent"
    /\ life' = [life EXCEPT ![v] = "pending"]
    /\ UNCHANGED tries

Claim(v) ==
    /\ life[v] = "pending"
    /\ life' = [life EXCEPT ![v] = "processing"]
    /\ UNCHANGED tries

Complete(v) ==
    /\ life[v] = "processing"
    /\ life' = [life EXCEPT ![v] = "completed"]
    /\ tries' = [tries EXCEPT ![v] = 0]

\* A task fails the row it holds; a rejected submission fails any live row.
Fail(v) ==
    /\ life[v] \in Live
    /\ life' = [life EXCEPT ![v] = "failed"]
    /\ UNCHANGED tries

\* A sweep of an abandoned row costs one retry, the last of them the row.
Recover(v) ==
    /\ life[v] = "processing"
    /\ tries' = [tries EXCEPT ![v] = @ + 1]
    /\ life' = [life EXCEPT ![v] =
                   IF tries[v] + 1 >= MaxRetries THEN "failed" ELSE "pending"]

\* Work given back without blame: a task's rollback or the shutdown reset.
GiveBack(S) ==
    /\ \A v \in S : life[v] = "processing"
    /\ life' = [v \in Variants |-> IF v \in S THEN "pending" ELSE life[v]]
    /\ UNCHANGED tries

Delete(v) ==
    /\ life[v] \in Live
    /\ life' = [life EXCEPT ![v] = "deleted"]
    /\ UNCHANGED tries

Next ==
    \/ \E v \in Variants :
          Create(v) \/ Claim(v) \/ Complete(v) \/ Fail(v) \/ Recover(v) \/ Delete(v)
    \/ \E S \in SUBSET Variants : GiveBack(S)

Spec == Init /\ [][Next]_vars
=============================================================================
