--------------------------- MODULE RunQueueProofs ---------------------------
(***************************************************************************)
(* Proofs about RunQueue, for any number of workers, runs and tenants, any *)
(* caps, crashes and lost leases.                                          *)
(***************************************************************************)
EXTENDS RunQueue, FiniteSetTheorems, TLAPS

\* The inductive invariant: a stale worker is recognised by its attempt only
\* because the lease columns follow the status and attempts never repeat.
IInv == TypeOK /\ LeaseMatchesStatus /\ UniqueClaims /\ CompletedAuditIsTrue

USE RunQueueAssumption

\* Before any run or claim exists, the invariant holds.
LEMMA InitInv == Init => IInv
  <1> SUFFICES ASSUME Init PROVE IInv
    OBVIOUS
  <1>1. TypeOK
    BY DEF Init, TypeOK, RunStatus, PC
  <1>2. LeaseMatchesStatus
    BY DEF Init, LeaseMatchesStatus
  <1>3. UniqueClaims /\ CompletedAuditIsTrue
    BY DEF Init, UniqueClaims, CompletedAuditIsTrue, Claimed
  <1> QED
    BY <1>1, <1>2, <1>3 DEF IInv

\* Steps that change no row of `runs` and no claim.
LEMMA EnvironmentInv ==
  ASSUME IInv, NEW r \in Runs, Enqueue(r) \/ Age(r) \/ Tick
  PROVE  IInv'
  <1> USE DEF IInv, rowVars, localVars, envVars
  <1>1. CASE Enqueue(r)
    <2>1. TypeOK'
      BY <1>1 DEF Enqueue, TypeOK, RunStatus
    <2>2. LeaseMatchesStatus'
      BY <1>1 DEF Enqueue, TypeOK, RunStatus, LeaseMatchesStatus
    <2>3. UniqueClaims'
      BY <1>1 DEF Enqueue, TypeOK, UniqueClaims, OwnsRow, RunStatus
    <2>4. CompletedAuditIsTrue'
      BY <1>1 DEF Enqueue, TypeOK, UniqueClaims, CompletedAuditIsTrue, Claimed
    <2> QED
      BY <2>1, <2>2, <2>3, <2>4
  <1>2. CASE Age(r)
    BY <1>2 DEF Age, TypeOK, LeaseMatchesStatus, UniqueClaims, OwnsRow, CompletedAuditIsTrue
  <1>3. CASE Tick
    <2>1. Cardinality(Overrun) \in Nat
      BY FS_Subset, FS_CardinalityType DEF Overrun
    <2>2. TypeOK'
      BY <1>3, <2>1 DEF Tick, TypeOK, Expired
    <2>3. LeaseMatchesStatus'
      <3>1. \A q \in Runs : lease_left[q] # NoLease => lease_left[q] \in Int
        BY DEF TypeOK
      <3>2. \A q \in Runs : (lease_left'[q] = NoLease) <=> (lease_left[q] = NoLease)
        BY <1>3, <3>1 DEF Tick, Expired
      <3> QED
        BY <1>3, <3>2 DEF Tick, LeaseMatchesStatus
    <2>4. UniqueClaims' /\ CompletedAuditIsTrue'
      BY <1>3 DEF Tick, UniqueClaims, OwnsRow, CompletedAuditIsTrue
    <2> QED
      BY <2>2, <2>3, <2>4
  <1> QED
    BY <1>1, <1>2, <1>3
-----------------------------------------------------------------------------
\* The statements that look for work: requeue_expired_runs, and the candidate
\* query with its two counts.
LEMMA SearchInv ==
  ASSUME IInv, NEW w \in Workers,
         \/ \E locked \in SUBSET Runs : RequeueExpired(w, locked) \/ SelectCandidates(w, locked)
         \/ CountGlobal(w) \/ CountTenant(w)
  PROVE  IInv'
  <1> USE DEF IInv, rowVars, localVars, envVars, Goto, EndCycle, Claimed, PC
  <1>1. CASE \E locked \in SUBSET Runs : RequeueExpired(w, locked)
    <2> PICK S \in SUBSET ExpiredRuns :
               /\ status' = [r \in Runs |-> IF r \in S THEN "queued" ELSE status[r]]
               /\ lease_owner' = [r \in Runs |-> IF r \in S THEN NoWorker ELSE lease_owner[r]]
               /\ lease_left' = [r \in Runs |-> IF r \in S THEN NoLease ELSE lease_left[r]]
      BY <1>1 DEF RequeueExpired
    <2>1. /\ pc[w] = "idle" /\ pc' = [pc EXCEPT ![w] = "select"]
          /\ UNCHANGED <<attempts, aged, audit, cand, run, att, crashes, overruns>>
      BY <1>1 DEF RequeueExpired
    <2>2. TypeOK'
      BY <2>1 DEF TypeOK, RunStatus
    <2>3. LeaseMatchesStatus'
      BY DEF TypeOK, LeaseMatchesStatus
    <2>4. UniqueClaims'
      BY <2>1 DEF TypeOK, UniqueClaims, OwnsRow
    <2>5. CompletedAuditIsTrue'
      <3>1. \A r \in Runs : status[r] = "succeeded" => status'[r] = "succeeded"
        BY DEF ExpiredRuns
      <3>2. \A e \in audit : e[2] \in Runs
        BY DEF TypeOK
      <3> QED
        BY <2>1, <3>1, <3>2 DEF TypeOK, UniqueClaims, CompletedAuditIsTrue
    <2> QED
      BY <2>2, <2>3, <2>4, <2>5
  <1>2. CASE \E locked \in SUBSET Runs : SelectCandidates(w, locked)
    <2> PICK locked \in SUBSET Runs : SelectCandidates(w, locked)
      BY <1>2
    <2>1. Candidates(locked) \in SUBSET ({0, 1} \X Runs)
      BY DEF Candidates, ClassRank
    <2>2. TypeOK'
      BY <2>1 DEF SelectCandidates, TypeOK
    <2>3. LeaseMatchesStatus' /\ UniqueClaims' /\ CompletedAuditIsTrue'
      BY DEF SelectCandidates, TypeOK, LeaseMatchesStatus, UniqueClaims, OwnsRow,
             CompletedAuditIsTrue
    <2> QED
      BY <2>2, <2>3
  <1>3. CASE CountGlobal(w)
    <2>1. TypeOK'
      BY <1>3 DEF CountGlobal, TypeOK
    <2>2. LeaseMatchesStatus' /\ CompletedAuditIsTrue'
      BY <1>3 DEF CountGlobal, TypeOK, LeaseMatchesStatus, CompletedAuditIsTrue
    <2>3. UniqueClaims'
      BY <1>3 DEF CountGlobal, TypeOK, UniqueClaims, OwnsRow
    <2> QED
      BY <2>1, <2>2, <2>3
  <1>4. CASE CountTenant(w)
    <2>1. TypeOK'
      BY <1>4 DEF CountTenant, TypeOK
    <2>2. LeaseMatchesStatus' /\ UniqueClaims' /\ CompletedAuditIsTrue'
      BY <1>4 DEF CountTenant, TypeOK, LeaseMatchesStatus, UniqueClaims, OwnsRow,
                  CompletedAuditIsTrue
    <2> QED
      BY <2>1, <2>2
  <1> QED
    BY <1>1, <1>2, <1>3, <1>4
-----------------------------------------------------------------------------
\* The conditional UPDATE of the claim: the new attempt is larger than any other
\* worker's attempt of the same run.
LEMMA ClaimInv ==
  ASSUME IInv, NEW w \in Workers, TryClaim(w)
  PROVE  IInv'
  <1> USE DEF IInv, rowVars, localVars, envVars, Goto, Claimed, PC
  <1>1. pc[w] = "update" /\ UNCHANGED <<audit, envVars>>
    BY DEF TryClaim
  <1>2. ASSUME NEW r \in Runs, Claimable(r), Goto(w, "audit_claimed"), ClaimRow(w, r)
        PROVE  IInv'
    <2> USE <1>1, <1>2 DEF ClaimRow
    <2>1. status[r] = "queued"
      BY DEF Claimable
    <2>2. TypeOK'
      <3>1. LeaseFor \in -1..LeaseFor
        BY RunQueueAssumption, SMT
      <3>2. attempts' \in [Runs -> Nat] /\ att' \in [Workers -> Nat]
        BY DEF TypeOK
      <3> QED
        BY <3>1, <3>2 DEF TypeOK, RunStatus
    <2>3. LeaseMatchesStatus'
      BY DEF TypeOK, LeaseMatchesStatus
    <2>4. UniqueClaims'
      <3>1. \A v \in Workers \ {w} :
              /\ pc'[v] = pc[v] /\ run'[v] = run[v] /\ att'[v] = att[v]
              /\ pc[v] \in Claimed => att[v] <= attempts[run[v]]
        BY DEF TypeOK, UniqueClaims
      <3>2. \A q \in Runs \ {r} : UNCHANGED <<status[q], attempts[q], lease_owner[q]>>
        BY DEF TypeOK
      <3>3. /\ run'[w] = r /\ att'[w] = attempts'[r] /\ attempts'[r] = attempts[r] + 1
            /\ lease_owner'[r] = w /\ attempts[r] \in Nat /\ attempts'[r] \in Nat
        BY DEF TypeOK
      <3>4. \A v \in Workers : att[v] \in Nat
        BY DEF TypeOK
      <3>5. \A v \in Workers : pc'[v] \in Claimed =>
              /\ run'[v] \in Runs
              /\ att'[v] <= attempts'[run'[v]]
              /\ OwnsRow(v)' => att'[v] = attempts'[run'[v]]
        BY <3>1, <3>2, <3>3, <3>4 DEF UniqueClaims, OwnsRow
      <3>6. \A v \in Workers \ {w} : pc[v] \in Claimed /\ run[v] = r => att[v] < att'[w]
        BY <3>1, <3>3, <3>4
      <3>7. \A u, v \in Workers :
              u # v /\ pc'[u] \in Claimed /\ pc'[v] \in Claimed /\ run'[u] = run'[v]
                => att'[u] # att'[v]
        BY <3>1, <3>3, <3>4, <3>6 DEF UniqueClaims
      <3> QED
        BY <3>5, <3>7 DEF UniqueClaims
    <2>5. CompletedAuditIsTrue'
      <3>1. \A e \in audit : e[1] = "run.completed" => e[2] \in Runs \ {r}
        BY <2>1 DEF TypeOK, CompletedAuditIsTrue
      <3>2. \A v \in Workers : pc'[v] = "audit_completed" =>
              v # w /\ pc[v] = "audit_completed" /\ run[v] \in Runs \ {r}
        BY <2>1 DEF TypeOK, CompletedAuditIsTrue, UniqueClaims
      <3>3. \A q \in Runs \ {r} : UNCHANGED <<status[q], attempts[q]>>
        BY DEF TypeOK
      <3>4. \A v \in Workers \ {w} : UNCHANGED <<run[v], att[v]>>
        BY DEF TypeOK
      <3> QED
        BY <3>1, <3>2, <3>3, <3>4 DEF CompletedAuditIsTrue
    <2> QED
      BY <2>2, <2>3, <2>4, <2>5
  <1>3. ASSUME NEW p \in cand[w], Goto(w, "pick"),
               cand' = [cand EXCEPT ![w] = @ \ {p}], UNCHANGED <<rowVars, run, att>>
        PROVE  IInv'
    <2>1. TypeOK'
      BY <1>1, <1>3 DEF TypeOK
    <2>2. LeaseMatchesStatus' /\ UniqueClaims' /\ CompletedAuditIsTrue'
      BY <1>1, <1>3 DEF TypeOK, LeaseMatchesStatus, UniqueClaims, OwnsRow, CompletedAuditIsTrue
    <2> QED
      BY <2>1, <2>2
  <1>4. \A p \in cand[w] : p[2] \in Runs
    BY DEF TypeOK
  <1> QED
    BY <1>2, <1>3, <1>4 DEF TryClaim

\* Renewing the lease changes nothing but the time the lease has left.
LEMMA RenewInv ==
  ASSUME IInv, NEW w \in Workers, RenewLease(w)
  PROVE  IInv'
  <1> USE DEF IInv, rowVars, localVars, envVars, Goto, Claimed, PC
  <1>1. TypeOK'
    BY DEF RenewLease, TypeOK
  <1>2. LeaseMatchesStatus'
    <2>1. LeaseFor # NoLease
      OBVIOUS
    <2> QED
      BY <2>1 DEF RenewLease, TypeOK, LeaseMatchesStatus
  <1>3. UniqueClaims' /\ CompletedAuditIsTrue'
    BY DEF RenewLease, TypeOK, UniqueClaims, OwnsRow, CompletedAuditIsTrue
  <1> QED
    BY <1>1, <1>2, <1>3

\* The audit events of a claim: they leave the rows alone, and only
\* AuditCompleted adds a completion.
LEMMA AuditInv ==
  ASSUME IInv, NEW w \in Workers,
         \/ AuditClaimed(w) \/ AuditRenewFailed(w) \/ AuditStarted(w)
         \/ AuditCompleted(w) \/ AuditFailed(w)
  PROVE  IInv'
  <1> USE DEF IInv, rowVars, localVars, envVars, Goto, EndCycle, Claimed, PC
  <1> USE DEF AuditClaimed, AuditRenewFailed, AuditStarted, AuditCompleted, AuditFailed
  <1>1. PICK event \in EventTypes : AppendAudit(w, event) /\ pc[w] \in Claimed
                  /\ (event = "run.completed" => pc[w] = "audit_completed")
    BY DEF EventTypes
  <1>2. run[w] \in Runs /\ att[w] \in Nat
    BY <1>1 DEF TypeOK, UniqueClaims
  <1>3. TypeOK'
    <2>1. audit' \subseteq (EventTypes \X Runs \X Nat)
      BY <1>1, <1>2 DEF TypeOK, AppendAudit
    <2>2. pc' \in [Workers -> PC]
      BY DEF TypeOK
    <2>3. /\ cand' \in [Workers -> SUBSET ({0, 1} \X Runs)]
          /\ run' \in [Workers -> Runs \cup {0}] /\ att' \in [Workers -> Nat]
      BY DEF TypeOK
    <2> QED
      BY <2>1, <2>2, <2>3 DEF TypeOK
  <1>4. LeaseMatchesStatus' /\ UniqueClaims'
    BY DEF TypeOK, LeaseMatchesStatus, UniqueClaims, OwnsRow
  <1>5. CompletedAuditIsTrue'
    BY <1>1, <1>2 DEF TypeOK, AppendAudit, CompletedAuditIsTrue
  <1> QED
    BY <1>3, <1>4, <1>5

\* mark_run_succeeded and mark_run_failed, with the bookkeeping around them.
LEMMA MarkInv ==
  ASSUME IInv, NEW w \in Workers,
         GiveUp(w) \/ Succeed(w) \/ FinalizeFailed(w) \/ Fail(w)
  PROVE  IInv'
  <1> USE DEF IInv, rowVars, localVars, envVars, Goto, EndCycle, Claimed, PC, Finished
  <1> USE DEF GiveUp, Succeed, FinalizeFailed, Fail
  <1>1. PICK outcome \in Finished : /\ MarkRun(w, outcome)
                                    /\ outcome = "succeeded" <=> pc[w] = "succeed"
    OBVIOUS
  <1>2. /\ pc[w] \in Claimed /\ pc[w] # "audit_completed"
        /\ UNCHANGED <<audit, envVars, attempts>> /\ run[w] \in Runs
    BY <1>1 DEF UniqueClaims, MarkRun
  <1>3. /\ \A q \in Runs \ {run[w]} : UNCHANGED <<status[q], lease_owner[q], lease_left[q]>>
        /\ IF OwnsRow(w)
           THEN status'[run[w]] = outcome /\ lease_owner'[run[w]] = NoWorker
                /\ lease_left'[run[w]] = NoLease
           ELSE UNCHANGED rowVars
    BY <1>1, <1>2 DEF TypeOK, MarkRun
  <1>4. \A v \in Workers \ {w} : UNCHANGED <<pc[v], run[v], att[v]>>
    BY DEF TypeOK
  <1>5. pc'[w] \in Claimed => UNCHANGED <<run[w], att[w]>>
    BY DEF TypeOK
  <1>6. TypeOK'
    <2>1. /\ status' \in [Runs -> RunStatus]
          /\ lease_owner' \in [Runs -> Workers \cup {NoWorker}]
          /\ lease_left' \in [Runs -> (-1..LeaseFor) \cup {NoLease}]
      BY <1>1 DEF MarkRun, TypeOK, RunStatus
    <2>2. pc' \in [Workers -> PC]
      BY DEF TypeOK
    <2>3. /\ cand' \in [Workers -> SUBSET ({0, 1} \X Runs)]
          /\ run' \in [Workers -> Runs \cup {0}] /\ att' \in [Workers -> Nat]
      BY DEF TypeOK
    <2> QED
      BY <1>2, <2>1, <2>2, <2>3 DEF TypeOK
  <1>7. LeaseMatchesStatus'
    BY <1>1, <1>3 DEF LeaseMatchesStatus
  <1>8. UniqueClaims'
    <2>1. \A v \in Workers : pc'[v] \in Claimed =>
            pc[v] \in Claimed /\ UNCHANGED <<run[v], att[v]>>
      BY <1>2, <1>4, <1>5
    <2>2. \A v \in Workers : pc'[v] \in Claimed /\ OwnsRow(v)' => OwnsRow(v)
      <3> SUFFICES ASSUME NEW v \in Workers, pc'[v] \in Claimed, OwnsRow(v)'
                   PROVE  OwnsRow(v)
        OBVIOUS
      <3>1. run'[v] = run[v] /\ run[v] \in Runs
        BY <2>1 DEF UniqueClaims
      <3>2. CASE run[v] = run[w]
        BY <1>1, <1>2, <1>3, <3>1, <3>2 DEF OwnsRow
      <3>3. CASE run[v] # run[w]
        BY <1>3, <3>1, <3>3 DEF OwnsRow
      <3> QED
        BY <3>2, <3>3
    <2>3. \A v \in Workers : pc'[v] \in Claimed =>
            /\ run'[v] \in Runs
            /\ att'[v] <= attempts'[run'[v]]
            /\ OwnsRow(v)' => att'[v] = attempts'[run'[v]]
      BY <1>2, <2>1, <2>2 DEF UniqueClaims
    <2>4. \A u, v \in Workers :
            u # v /\ pc'[u] \in Claimed /\ pc'[v] \in Claimed /\ run'[u] = run'[v]
              => att'[u] # att'[v]
      BY <2>1 DEF UniqueClaims
    <2> QED
      BY <2>3, <2>4 DEF UniqueClaims
  <1>9. CompletedAuditIsTrue'
    <2>1. \A q \in Runs : status[q] = "succeeded" => status'[q] = "succeeded"
      BY <1>2, <1>3 DEF OwnsRow
    <2>2. \A e \in audit : e[2] \in Runs
      BY DEF TypeOK
    <2>3. pc'[w] = "audit_completed" => pc[w] = "succeed" /\ OwnsRow(w)
      BY DEF TypeOK
    <2>4. pc'[w] = "audit_completed" =>
            status'[run'[w]] = "succeeded" /\ attempts'[run'[w]] = att'[w]
      BY <1>1, <1>2, <1>3, <1>5, <2>3 DEF UniqueClaims
    <2>5. \A v \in Workers \ {w} : pc'[v] = "audit_completed" =>
            run[v] \in Runs /\ status[run[v]] = "succeeded" /\ attempts[run[v]] = att[v]
      BY <1>4 DEF UniqueClaims, CompletedAuditIsTrue
    <2>6. \A e \in audit' :
            e[1] = "run.completed" => status'[e[2]] = "succeeded" /\ attempts'[e[2]] = e[3]
      BY <1>2, <2>1, <2>2 DEF CompletedAuditIsTrue
    <2>7. \A v \in Workers \ {w} : pc'[v] = "audit_completed" =>
            status'[run'[v]] = "succeeded" /\ attempts'[run'[v]] = att'[v]
      BY <1>2, <1>4, <2>1, <2>5
    <2> QED
      BY <2>4, <2>6, <2>7 DEF CompletedAuditIsTrue
  <1> QED
    BY <1>6, <1>7, <1>8, <1>9

\* Processing, and the end and the restart of a worker process.
LEMMA ProcessInv ==
  ASSUME IInv, NEW w \in Workers, Process(w) \/ Crash(w) \/ Restart(w)
  PROVE  IInv'
  <1> USE DEF IInv, rowVars, localVars, envVars, Goto, Claimed, PC
  <1>1. TypeOK'
    <2>1. CASE Process(w) \/ Restart(w)
      BY <2>1 DEF Process, Restart, TypeOK
    <2>2. CASE Crash(w)
      BY <2>2 DEF Crash, TypeOK
    <2> QED
      BY <2>1, <2>2
  <1>2. UNCHANGED <<status, attempts, lease_owner, lease_left, audit>>
    BY DEF Process, Crash, Restart
  <1>3. \A v \in Workers : pc'[v] \in Claimed =>
          /\ pc[v] \in Claimed /\ UNCHANGED <<run[v], att[v]>>
          /\ pc'[v] = "audit_completed" => pc[v] = "audit_completed"
    BY DEF Process, Crash, Restart, TypeOK
  <1>4. LeaseMatchesStatus'
    BY <1>2 DEF LeaseMatchesStatus
  <1>5. UniqueClaims'
    BY <1>2, <1>3 DEF UniqueClaims, OwnsRow
  <1>6. CompletedAuditIsTrue'
    BY <1>2, <1>3 DEF CompletedAuditIsTrue
  <1> QED
    BY <1>1, <1>4, <1>5, <1>6

\* Every step of the queue preserves the invariant.
LEMMA NextInv == IInv /\ [Next]_vars => IInv'
  <1> SUFFICES ASSUME IInv, [Next]_vars PROVE IInv'
    OBVIOUS
  <1>1. CASE UNCHANGED vars
    BY <1>1 DEF vars, rowVars, localVars, IInv, TypeOK, LeaseMatchesStatus, UniqueClaims,
                OwnsRow, CompletedAuditIsTrue
  <1>2. ASSUME NEW r \in Runs, Enqueue(r) \/ Age(r) PROVE IInv'
    BY <1>2, EnvironmentInv
  <1>3. CASE Tick
    <2> PICK r \in Runs : TRUE
      BY <1>3 DEF Tick
    <2> QED
      BY <1>3, EnvironmentInv
  <1>4. ASSUME NEW w \in Workers, Step(w) PROVE IInv'
    BY <1>4, SearchInv, ClaimInv, RenewInv, AuditInv, MarkInv, ProcessInv DEF Step
  <1>5. ASSUME NEW w \in Workers, Crash(w) \/ Restart(w) PROVE IInv'
    BY <1>5, ProcessInv
  <1> QED
    BY <1>1, <1>2, <1>3, <1>4, <1>5 DEF Next

\* The queue always satisfies the invariant: it is well typed, the lease columns
\* follow the status, claims are unique, completions are reported truthfully.
THEOREM InvHolds == Spec => []IInv
  BY InitInv, NextInv, PTL DEF Spec
-----------------------------------------------------------------------------
\* In every behaviour, every state is well typed.
THEOREM TypeCorrect == Spec => []TypeOK
  <1>1. IInv => TypeOK
    BY Zenon DEF IInv
  <1> QED
    BY <1>1, InvHolds, PTL

\* No two workers ever hold the same attempt of a run, and an owner works on the
\* attempt the row counts.
THEOREM ClaimsAreUnique == Spec => []UniqueClaims
  <1>1. IInv => UniqueClaims
    BY Zenon DEF IInv
  <1> QED
    BY <1>1, InvHolds, PTL

\* A recorded completion is the completion of the attempt that succeeded.
THEOREM CompletionsAreTrue == Spec => []CompletedAuditIsTrue
  <1>1. IInv => CompletedAuditIsTrue
    BY Zenon DEF IInv
  <1> QED
    BY <1>1, InvHolds, PTL

\* A worker's step leaves the rows alone, or claims a queued one, or changes the
\* one its claim is current for, or requeues expired ones.
LEMMA RowSteps ==
  ASSUME IInv, NEW w \in Workers, Step(w)
  PROVE  \/ UNCHANGED rowVars
         \/ \E r \in Runs : status[r] = "queued" /\ ClaimRow(w, r)
         \/ /\ OwnsRow(w) /\ pc[w] \in Claimed /\ pc'[w] # pc[w] /\ UNCHANGED attempts
            /\ \A r \in Runs \ {run[w]} : UNCHANGED <<status[r], lease_left[r]>>
            /\ \/ UNCHANGED status
               \/ \E o \in Finished : status' = [status EXCEPT ![run[w]] = o]
         \/ \E S \in SUBSET ExpiredRuns :
              /\ status' = [r \in Runs |-> IF r \in S THEN "queued" ELSE status[r]]
              /\ \A r \in Runs \ S : UNCHANGED lease_left[r]
              /\ UNCHANGED attempts
  <1> /\ status \in [Runs -> RunStatus] /\ pc \in [Workers -> PC]
      /\ cand \in [Workers -> SUBSET ({0, 1} \X Runs)]
      /\ lease_left \in [Runs -> (-1..LeaseFor) \cup {NoLease}]
    BY DEF IInv, TypeOK
  <1> USE DEF rowVars, Goto
  <1>1. CASE \E locked \in SUBSET Runs : RequeueExpired(w, locked)
    BY <1>1 DEF RequeueExpired, ExpiredRuns
  <1>2. CASE TryClaim(w)
    <2>1. \A p \in cand[w] : p[2] \in Runs
      OBVIOUS
    <2>2. UNCHANGED rowVars \/ \E p \in cand[w] : Claimable(p[2]) /\ ClaimRow(w, p[2])
      BY <1>2 DEF TryClaim
    <2> QED
      BY <2>1, <2>2 DEF Claimable
  <1>3. CASE RenewLease(w)
    BY <1>3 DEF RenewLease, Claimed
  <1>4. CASE GiveUp(w) \/ Succeed(w) \/ FinalizeFailed(w) \/ Fail(w)
    <2>1. MarkRun(w, "succeeded") \/ MarkRun(w, "failed")
      BY <1>4 DEF GiveUp, Succeed, FinalizeFailed, Fail
    <2>2. pc[w] \in Claimed /\ pc'[w] # pc[w]
      BY <1>4 DEF GiveUp, Succeed, FinalizeFailed, Fail, EndCycle, Claimed
    <2> QED
      BY <2>1, <2>2 DEF MarkRun, Finished
  <1>5. CASE \/ \E locked \in SUBSET Runs : SelectCandidates(w, locked)
             \/ CountGlobal(w) \/ CountTenant(w) \/ Process(w)
             \/ AuditClaimed(w) \/ AuditRenewFailed(w) \/ AuditStarted(w)
             \/ AuditCompleted(w) \/ AuditFailed(w)
    BY <1>5 DEF SelectCandidates, CountGlobal, CountTenant, Process, AuditClaimed,
                AuditRenewFailed, AuditStarted, AuditCompleted, AuditFailed
  <1> QED
    BY <1>1, <1>2, <1>3, <1>4, <1>5 DEF Step

\* Only the holder of the attempt a running row counts changes that row, apart
\* from time and the requeue of an expired lease.
LEMMA NextFenced ==
  ASSUME IInv, [Next]_vars, NEW r \in Runs
  PROVE  FencedWrite(r)
  <1> USE DEF rowVars
  <1> SUFFICES ASSUME status[r] = "running",
                      <<status[r], lease_left[r]>>' # <<status[r], lease_left[r]>>
               PROVE  \/ ByClaimant(r)
                      \/ status'[r] = "queued" /\ Expired(r)
                      \/ status'[r] = "running" /\ lease_left'[r] = lease_left[r] - 1
    BY DEF FencedWrite
  <1>1. CASE Tick
    BY <1>1 DEF Tick, IInv, LeaseMatchesStatus
  <1>2. ASSUME NEW q \in Runs, Enqueue(q) \/ Age(q) PROVE FALSE
    BY <1>2 DEF Enqueue, Age, IInv, TypeOK
  <1>3. ASSUME NEW w \in Workers, Step(w)
        PROVE  ByClaimant(r) \/ (status'[r] = "queued" /\ Expired(r))
    <2>1. CASE \E q \in Runs : status[q] = "queued" /\ ClaimRow(w, q)
      <3>1. status \in [Runs -> RunStatus] /\ lease_left \in [Runs -> (-1..LeaseFor) \cup {NoLease}]
        BY DEF IInv, TypeOK
      <3> QED
        BY <2>1, <3>1 DEF ClaimRow
    <2>2. CASE /\ OwnsRow(w) /\ pc[w] \in Claimed /\ pc'[w] # pc[w]
               /\ \A q \in Runs \ {run[w]} : UNCHANGED <<status[q], lease_left[q]>>
      BY <2>2 DEF ByClaimant, IInv, UniqueClaims
    <2>3. CASE \E S \in SUBSET ExpiredRuns :
                 /\ status' = [q \in Runs |-> IF q \in S THEN "queued" ELSE status[q]]
                 /\ \A q \in Runs \ S : UNCHANGED lease_left[q]
      BY <2>3 DEF ExpiredRuns
    <2> QED
      BY <1>3, <2>1, <2>2, <2>3, RowSteps
  <1>4. ASSUME NEW w \in Workers, Crash(w) \/ Restart(w) PROVE FALSE
    BY <1>4 DEF Crash, Restart
  <1>5. CASE UNCHANGED vars
    BY <1>5 DEF vars
  <1> QED
    BY <1>1, <1>2, <1>3, <1>4, <1>5 DEF Next

\* A worker that lost its lease never changes the row again: all writes to a
\* running row are made under the current claim.
THEOREM WritesAreFenced == Spec => FencedWrites
  <1>1. IInv /\ [Next]_vars => [\A r \in Runs : FencedWrite(r)]_vars
    BY NextFenced
  <1> QED
    BY <1>1, InvHolds, PTL DEF Spec, FencedWrites

\* A finished run keeps its status and its number of attempts.
LEMMA NextFinished ==
  ASSUME IInv, [Next]_vars, NEW r \in Runs, status[r] \in Finished
  PROVE  <<status[r], attempts[r]>>' = <<status[r], attempts[r]>>
  <1> USE DEF rowVars, Finished
  <1>1. ASSUME NEW q \in Runs, Enqueue(q) \/ Age(q)
        PROVE  <<status[r], attempts[r]>>' = <<status[r], attempts[r]>>
    BY <1>1 DEF Enqueue, Age, IInv, TypeOK
  <1>2. ASSUME NEW w \in Workers, Step(w)
        PROVE  <<status[r], attempts[r]>>' = <<status[r], attempts[r]>>
    <2>1. CASE \E q \in Runs : status[q] = "queued" /\ ClaimRow(w, q)
      BY <2>1 DEF ClaimRow, IInv, TypeOK
    <2>2. CASE /\ OwnsRow(w) /\ UNCHANGED attempts
               /\ \A q \in Runs \ {run[w]} : UNCHANGED <<status[q], lease_left[q]>>
      BY <2>2 DEF OwnsRow
    <2>3. CASE \E S \in SUBSET ExpiredRuns :
                 /\ status' = [q \in Runs |-> IF q \in S THEN "queued" ELSE status[q]]
                 /\ UNCHANGED attempts
      BY <2>3 DEF ExpiredRuns
    <2> QED
      BY <1>2, <2>1, <2>2, <2>3, RowSteps
  <1> QED
    BY <1>1, <1>2 DEF Next, Tick, Crash, Restart, vars

\* A finished run is finished for good.
THEOREM FinishedStays == Spec => FinishedForGood
  <1> DEFINE Keeps == \A r \in Runs : status[r] \in Finished
                        => <<status[r], attempts[r]>>' = <<status[r], attempts[r]>>
  <1>1. IInv /\ [Next]_vars => [Keeps]_vars
    BY NextFinished
  <1> QED
    BY <1>1, InvHolds, PTL DEF Spec, FinishedForGood
-----------------------------------------------------------------------------
\* Every step of the queue is a step of RunLifecycle, or leaves its state alone.
LEMMA LifecycleStep == IInv /\ [Next]_vars => [Lifecycle!Next]_<<status, attempts>>
  <1> SUFFICES ASSUME IInv, [Next]_vars
               PROVE  Lifecycle!Next \/ UNCHANGED <<status, attempts>>
    OBVIOUS
  <1> USE DEF rowVars, Lifecycle!Next
  <1>1. ASSUME NEW r \in Runs, Enqueue(r) PROVE Lifecycle!Enqueue(r)
    BY <1>1 DEF Enqueue, Lifecycle!Enqueue
  <1>2. ASSUME NEW w \in Workers, Step(w)
        PROVE  Lifecycle!Next \/ UNCHANGED <<status, attempts>>
    <2>1. ASSUME NEW r \in Runs, status[r] = "queued", ClaimRow(w, r)
          PROVE  Lifecycle!Claim(r)
      BY <2>1 DEF ClaimRow, Lifecycle!Claim
    <2>2. ASSUME OwnsRow(w), pc[w] \in Claimed, UNCHANGED attempts, NEW o \in Finished,
                 status' = [status EXCEPT ![run[w]] = o]
          PROVE  run[w] \in Runs /\ Lifecycle!Finish(run[w], o)
      BY <2>2 DEF IInv, UniqueClaims, OwnsRow, Lifecycle!Finish
    <2>3. ASSUME NEW S \in SUBSET ExpiredRuns, UNCHANGED attempts,
                 status' = [r \in Runs |-> IF r \in S THEN "queued" ELSE status[r]]
          PROVE  S \in SUBSET Runs /\ Lifecycle!Requeue(S)
      BY <2>3 DEF ExpiredRuns, Lifecycle!Requeue
    <2>4. Finished = Lifecycle!Finished
      BY DEF Finished, Lifecycle!Finished
    <2> QED
      BY <1>2, <2>1, <2>2, <2>3, <2>4, RowSteps
  <1>3. CASE \/ Tick \/ \E r \in Runs : Age(r)
             \/ \E w \in Workers : Crash(w) \/ Restart(w)
             \/ UNCHANGED vars
    BY <1>3 DEF Tick, Age, Crash, Restart, vars
  <1> QED
    BY <1>1, <1>2, <1>3 DEF Next

\* The queue, with its leases, races and crashes, implements the life cycle that
\* the rest of the system relies on.
THEOREM RefinesLifecycle == Spec => ImplementsLifecycle
  <1>1. Init => Lifecycle!Init
    BY DEF Init, Lifecycle!Init
  <1> QED
    BY <1>1, LifecycleStep, InvHolds, PTL
       DEF Spec, ImplementsLifecycle, Lifecycle!Spec, Lifecycle!lifecycleVars
=============================================================================
