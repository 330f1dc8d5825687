----------------------------- MODULE MCRunQueue -----------------------------
EXTENDS RunQueue, TLC

CONSTANTS t1, t2

\* Runs 1 and 3 belong to one tenant, the others to a second one.
TenantOfRun == [r \in Runs |-> IF r % 2 = 1 THEN t1 ELSE t2]

WorkerSymmetry == Permutations(Workers)
=============================================================================
