---------------------------- MODULE RunLifecycle ----------------------------
(***************************************************************************)
(* What the `runs` table promises to everything that only reads it: a run  *)
(* is queued, claimed (each claim is a new attempt), handed back when its  *)
(* claim lapsed, and finished at most once.  Workers, leases and time are  *)
(* left out; RunQueue is shown to implement this module.                   *)
(***************************************************************************)
EXTENDS Naturals

CONSTANT Runs

VARIABLES status,     \* runs.status, "absent" before the row is inserted
          attempts    \* runs.attempts

lifecycleVars == <<status, attempts>>

Finished == {"succeeded", "failed"}

RunStatus == {"absent", "queued", "running"} \cup Finished

TypeOK ==
  /\ status \in [Runs -> RunStatus]
  /\ attempts \in [Runs -> Nat]

Init ==
  /\ status = [r \in Runs |-> "absent"]
  /\ attempts = [r \in Runs |-> 0]

Enqueue(r) ==
  /\ status[r] = "absent"
  /\ status' = [status EXCEPT ![r] = "queued"]
  /\ UNCHANGED attempts

Claim(r) ==
  /\ status[r] = "queued"
  /\ status' = [status EXCEPT ![r] = "running"]
  /\ attempts' = [attempts EXCEPT ![r] = @ + 1]

\* Lapsed claims are handed back in batches.
Requeue(S) ==
  /\ \A r \in S : status[r] = "running"
  /\ status' = [r \in Runs |-> IF r \in S THEN "queued" ELSE status[r]]
  /\ UNCHANGED attempts

Finish(r, outcome) ==
  /\ status[r] = "running"
  /\ status' = [status EXCEPT ![r] = outcome]
  /\ UNCHANGED attempts

Next ==
  \/ \E r \in Runs : Enqueue(r) \/ Claim(r) \/ \E o \in Finished : Finish(r, o)
  \/ \E S \in SUBSET Runs : Requeue(S)

Spec == Init /\ [][Next]_lifecycleVars
=============================================================================
