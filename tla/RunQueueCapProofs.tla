------------------------- MODULE RunQueueCapProofs -------------------------
(***************************************************************************)
(* The caps of RunQueue: how far the global and the tenants' limits on     *)
(* running runs can be overshot, for any number of workers and runs.       *)
(***************************************************************************)
EXTENDS RunQueueProofs

USE RunQueueAssumption

\* The sets the caps count are finite, and a step that only shrinks them keeps
\* every bound on their sizes.
LEMMA ShrinkingSets ==
  ASSUME NEW A, NEW B, IsFiniteSet(A), IsFiniteSet(B),
         NEW A1 \in SUBSET A, NEW B1 \in SUBSET B, NEW n \in Int,
         Cardinality(A) + Cardinality(B) <= n
  PROVE  Cardinality(A1) + Cardinality(B1) <= n
  <1>1. /\ IsFiniteSet(A1) /\ IsFiniteSet(B1)
        /\ Cardinality(A1) <= Cardinality(A) /\ Cardinality(B1) <= Cardinality(B)
    BY FS_Subset
  <1>2. \A S \in {A, A1, B, B1} : Cardinality(S) \in Nat
    BY <1>1, FS_CardinalityType
  <1> QED
    BY <1>1, <1>2

\* A worker that moves from the set it passed to a claimed run changes no sum.
LEMMA MovingOne ==
  ASSUME NEW A, NEW B, IsFiniteSet(A), IsFiniteSet(B), NEW a, a \notin A, NEW b \in B,
         NEW n \in Int, Cardinality(A) + Cardinality(B) <= n
  PROVE  Cardinality(A \cup {a}) + Cardinality(B \ {b}) <= n
  <1>1. Cardinality(A \cup {a}) = Cardinality(A) + 1
    BY FS_AddElement
  <1>2. Cardinality(B \ {b}) = Cardinality(B) - 1
    BY FS_RemoveElement
  <1>3. Cardinality(A) \in Nat /\ Cardinality(B) \in Nat
    BY FS_CardinalityType
  <1> QED
    BY <1>1, <1>2, <1>3

\* What the caps and the sets they count are.
LEMMA CapFacts ==
  /\ GlobalCap \in Nat \ {0} /\ TenantCap \in Nat \ {0} /\ Cardinality(Workers) \in Nat
  /\ IsFiniteSet(Running) /\ IsFiniteSet(PassedGlobal)
  /\ \A t \in Tenants : IsFiniteSet(RunningOf(t)) /\ IsFiniteSet(PassedTenant(t))
  <1>1. GlobalCap \in Nat \ {0} /\ TenantCap \in Nat \ {0}
    BY DEF GlobalCap, TenantCap, AtLeastOne
  <1>2. IsFiniteSet(Running) /\ IsFiniteSet(PassedGlobal)
    BY FS_Subset DEF Running, PassedGlobal
  <1>3. \A t \in Tenants : RunningOf(t) \in SUBSET Running /\ PassedTenant(t) \in SUBSET Workers
    BY DEF RunningOf, PassedTenant
  <1>4. \A t \in Tenants : IsFiniteSet(RunningOf(t)) /\ IsFiniteSet(PassedTenant(t))
    BY <1>2, <1>3, FS_Subset
  <1> QED
    BY <1>1, <1>2, <1>4, FS_CardinalityType

\* Only a claim, which counts a new attempt, adds a running run.
LEMMA RunningGrows ==
  ASSUME IInv, [Next]_vars, UNCHANGED attempts
  PROVE  Running' \subseteq Running
  <1> USE DEF rowVars, Running
  <1>1. ASSUME NEW q \in Runs, Enqueue(q) \/ Age(q) PROVE Running' \subseteq Running
    BY <1>1 DEF Enqueue, Age, IInv, TypeOK
  <1>2. ASSUME NEW w \in Workers, Step(w) PROVE Running' \subseteq Running
    <2>1. CASE /\ OwnsRow(w) /\ pc[w] \in Claimed
               /\ \A q \in Runs \ {run[w]} : UNCHANGED <<status[q], lease_left[q]>>
      BY <2>1 DEF OwnsRow
    <2>2. CASE \E S \in SUBSET ExpiredRuns :
                 status' = [q \in Runs |-> IF q \in S THEN "queued" ELSE status[q]]
      BY <2>2
    <2>3. ASSUME NEW r \in Runs, ClaimRow(w, r) PROVE FALSE
      BY <2>3 DEF ClaimRow, IInv, TypeOK
    <2> QED
      BY <1>2, <2>1, <2>2, <2>3, RowSteps
  <1> QED
    BY <1>1, <1>2 DEF Next, Tick, Crash, Restart, vars
\* A claim turns a worker that had passed both counts into a running run.
LEMMA ClaimMoves ==
  ASSUME IInv, NEW w \in Workers, TryClaim(w), ~UNCHANGED attempts
  PROVE  \E p \in cand[w] :
           /\ IsNext(w, p) /\ p[2] \in Runs
           /\ p[2] \notin Running /\ Running' = Running \cup {p[2]}
           /\ pc[w] = "update" /\ pc' = [pc EXCEPT ![w] = "audit_claimed"]
           /\ cand' = [cand EXCEPT ![w] = {}]
  <1> PICK p \in cand[w] : IsNext(w, p) /\ Claimable(p[2])
                           /\ Goto(w, "audit_claimed") /\ ClaimRow(w, p[2])
    BY DEF TryClaim, rowVars
  <1>1. p[2] \in Runs
    BY DEF IInv, TypeOK
  <1>2. status \in [Runs -> RunStatus]
    BY DEF IInv, TypeOK
  <1>3. p[2] \notin Running /\ Running' = Running \cup {p[2]}
    BY <1>1, <1>2 DEF Running, Claimable, ClaimRow
  <1>4. pc[w] = "update" /\ cand' = [cand EXCEPT ![w] = {}]
    BY DEF TryClaim, ClaimRow
  <1> QED
    BY <1>1, <1>3, <1>4 DEF Goto

\* Workers pass the global count in CountGlobal only.
LEMMA GlobalPass ==
  ASSUME IInv, [Next]_vars, \A w \in Workers : ~TryClaim(w) /\ ~CountGlobal(w)
  PROVE  UNCHANGED attempts /\ PassedGlobal' \subseteq PassedGlobal
  <1> pc \in [Workers -> PC]
    BY DEF IInv, TypeOK
  <1> USE DEF rowVars, localVars, PassedGlobal, Goto, EndCycle
  <1>1. ASSUME NEW w \in Workers,
               \/ \E locked \in SUBSET Runs :
                    RequeueExpired(w, locked) \/ SelectCandidates(w, locked)
               \/ CountTenant(w) \/ RenewLease(w) \/ Process(w)
        PROVE  UNCHANGED attempts /\ PassedGlobal' \subseteq PassedGlobal
    <2>1. ASSUME NEW locked \in SUBSET Runs, RequeueExpired(w, locked)
          PROVE  UNCHANGED attempts /\ PassedGlobal' \subseteq PassedGlobal
      BY <2>1 DEF RequeueExpired
    <2>2. ASSUME NEW locked \in SUBSET Runs, SelectCandidates(w, locked)
          PROVE  UNCHANGED attempts /\ PassedGlobal' \subseteq PassedGlobal
      BY <2>2 DEF SelectCandidates
    <2>3. CASE CountTenant(w) \/ RenewLease(w) \/ Process(w)
      BY <2>3 DEF CountTenant, RenewLease, Process
    <2> QED
      BY <1>1, <2>1, <2>2, <2>3
  <1>2. ASSUME NEW w \in Workers,
               \/ AuditClaimed(w) \/ AuditRenewFailed(w) \/ AuditStarted(w)
               \/ AuditCompleted(w) \/ AuditFailed(w)
        PROVE  UNCHANGED attempts /\ PassedGlobal' \subseteq PassedGlobal
    BY <1>2 DEF AuditClaimed, AuditRenewFailed, AuditStarted, AuditCompleted, AuditFailed
  <1>3. ASSUME NEW w \in Workers, GiveUp(w) \/ Succeed(w) \/ FinalizeFailed(w) \/ Fail(w)
        PROVE  UNCHANGED attempts /\ PassedGlobal' \subseteq PassedGlobal
    BY <1>3 DEF GiveUp, Succeed, FinalizeFailed, Fail, MarkRun
  <1>4. ASSUME NEW w \in Workers, Crash(w) \/ Restart(w)
        PROVE  UNCHANGED attempts /\ PassedGlobal' \subseteq PassedGlobal
    BY <1>4 DEF Crash, Restart
  <1>5. CASE (\E r \in Runs : Enqueue(r) \/ Age(r)) \/ Tick \/ UNCHANGED vars
    BY <1>5 DEF Enqueue, Age, Tick, vars
  <1> QED
    BY <1>1, <1>2, <1>3, <1>4, <1>5 DEF Next, Step

\* Every step keeps the bound on running runs and workers about to claim.
LEMMA NextGlobalCap == IInv /\ GlobalCapBound /\ [Next]_vars => GlobalCapBound'
  <1> SUFFICES ASSUME IInv, GlobalCapBound, [Next]_vars PROVE GlobalCapBound'
    OBVIOUS
  <1> DEFINE Bound == GlobalCap - 1 + Cardinality(Workers)
  <1>1. /\ Bound \in Int /\ IsFiniteSet(Running) /\ IsFiniteSet(PassedGlobal)
        /\ Cardinality(Running) + Cardinality(PassedGlobal) <= Bound
    BY CapFacts DEF GlobalCapBound
  <1>2. ASSUME UNCHANGED attempts, PassedGlobal' \subseteq PassedGlobal PROVE GlobalCapBound'
    <2>1. Running' \subseteq Running
      BY <1>2, RunningGrows
    <2>2. Cardinality(Running') + Cardinality(PassedGlobal') <= Bound
      BY <1>1, <1>2, <2>1, ShrinkingSets
    <2> QED
      BY <2>2 DEF GlobalCapBound, GlobalCap, AtLeastOne
  <1>3. ASSUME NEW w \in Workers, CountGlobal(w) PROVE GlobalCapBound'
    <2>1. CASE Cardinality(Running) >= GlobalCap
      BY <1>2, <1>3, <2>1 DEF CountGlobal, PassedGlobal, EndCycle, Goto, rowVars, IInv, TypeOK
    <2>2. CASE ~(Cardinality(Running) >= GlobalCap)
      <3>1. Cardinality(PassedGlobal') <= Cardinality(Workers)
            /\ Cardinality(PassedGlobal') \in Nat
        BY FS_Subset, FS_CardinalityType DEF PassedGlobal
      <3>2. Running' = Running
        BY <1>3 DEF CountGlobal, Running, rowVars
      <3>3. Cardinality(Running) \in Nat
        BY <1>1, FS_CardinalityType
      <3>4. Cardinality(Running') + Cardinality(PassedGlobal') <= Bound
        BY <2>2, <3>1, <3>2, <3>3, CapFacts
      <3> QED
        BY <3>4 DEF GlobalCapBound, GlobalCap, AtLeastOne
    <2> QED
      BY <2>1, <2>2
  <1>4. ASSUME NEW w \in Workers, TryClaim(w) PROVE GlobalCapBound'
    <2>1. CASE UNCHANGED attempts
      <3>1. PassedGlobal' \subseteq PassedGlobal
        BY <1>4 DEF TryClaim, PassedGlobal, Goto, IInv, TypeOK
      <3> QED
        BY <1>2, <2>1, <3>1
    <2>2. CASE ~UNCHANGED attempts
      <3>1. PICK p \in cand[w] :
              /\ p[2] \notin Running /\ Running' = Running \cup {p[2]}
              /\ pc[w] = "update" /\ pc' = [pc EXCEPT ![w] = "audit_claimed"]
        BY <1>4, <2>2, ClaimMoves
      <3>2. w \in PassedGlobal /\ PassedGlobal' = PassedGlobal \ {w}
        BY <3>1 DEF PassedGlobal, IInv, TypeOK
      <3>3. Cardinality(Running') + Cardinality(PassedGlobal') <= Bound
        BY <1>1, <3>1, <3>2, MovingOne
      <3> QED
        BY <3>3 DEF GlobalCapBound, GlobalCap, AtLeastOne
    <2> QED
      BY <2>1, <2>2
  <1> QED
    BY <1>2, <1>3, <1>4, GlobalPass

\* The global cap is never overshot by more than the number of other workers.
THEOREM GlobalCapHolds == Spec => []GlobalCapBound
  <1>1. Init => GlobalCapBound
    <2> SUFFICES ASSUME Init PROVE GlobalCapBound
      OBVIOUS
    <2>1. Running = {} /\ PassedGlobal = {}
      BY DEF Init, Running, PassedGlobal
    <2> QED
      BY <2>1, CapFacts, FS_EmptySet DEF GlobalCapBound
  <1> QED
    BY <1>1, NextGlobalCap, InvHolds, PTL DEF Spec
-----------------------------------------------------------------------------
\* The candidates are tried one after the other: one of them is next.
LEMMA OneIsNext ==
  ASSUME IInv, NEW w \in Workers, NEW p, NEW q, IsNext(w, p), IsNext(w, q)
  PROVE  p = q
  <1>1. p \in {0, 1} \X Runs /\ q \in {0, 1} \X Runs
    BY DEF IsNext, IInv, TypeOK
  <1>2. p[1] \in Int /\ p[2] \in Int /\ q[1] \in Int /\ q[2] \in Int
    <2>1. p[1] \in {0, 1} /\ q[1] \in {0, 1} /\ p[2] \in Runs /\ q[2] \in Runs
      BY <1>1
    <2>2. p[1] \in Int /\ q[1] \in Int
      BY <2>1
    <2>3. \A r \in Runs : r \in Int
      OBVIOUS
    <2>4. p[2] \in Int /\ q[2] \in Int
      BY <2>1, <2>3, Zenon
    <2> QED
      BY <2>2, <2>4
  <1>3. ~(Before(p, q) /\ Before(q, p))
    BY <1>2 DEF Before
  <1> QED
    BY <1>3 DEF IsNext

\* Workers pass a tenant's count in CountTenant only.
LEMMA TenantPass ==
  ASSUME IInv, [Next]_vars, \A w \in Workers : ~TryClaim(w) /\ ~CountTenant(w),
         NEW t \in Tenants
  PROVE  UNCHANGED attempts /\ PassedTenant(t)' \subseteq PassedTenant(t)
  <1> pc \in [Workers -> PC] /\ cand \in [Workers -> SUBSET ({0, 1} \X Runs)]
    BY DEF IInv, TypeOK
  <1> USE DEF rowVars, localVars, Goto, EndCycle
  <1> DEFINE Good == /\ UNCHANGED attempts
                     /\ \A v \in Workers : pc'[v] = "update"
                          => pc[v] = "update" /\ cand'[v] = cand[v]
  <1>1. ASSUME NEW w \in Workers,
               \/ \E locked \in SUBSET Runs :
                    RequeueExpired(w, locked) \/ SelectCandidates(w, locked)
               \/ CountGlobal(w) \/ RenewLease(w) \/ Process(w)
        PROVE  Good
    <2>1. ASSUME NEW locked \in SUBSET Runs, RequeueExpired(w, locked)
          PROVE  Good
      BY <2>1 DEF RequeueExpired
    <2>2. ASSUME NEW locked \in SUBSET Runs, SelectCandidates(w, locked)
          PROVE  Good
      BY <2>2 DEF SelectCandidates
    <2>3. CASE CountGlobal(w) \/ RenewLease(w) \/ Process(w)
      BY <2>3 DEF CountGlobal, RenewLease, Process
    <2> QED
      BY <1>1, <2>1, <2>2, <2>3
  <1>2. ASSUME NEW w \in Workers,
               \/ AuditClaimed(w) \/ AuditRenewFailed(w) \/ AuditStarted(w)
               \/ AuditCompleted(w) \/ AuditFailed(w)
        PROVE  Good
    BY <1>2 DEF AuditClaimed, AuditRenewFailed, AuditStarted, AuditCompleted, AuditFailed
  <1>3. ASSUME NEW w \in Workers, GiveUp(w) \/ Succeed(w) \/ FinalizeFailed(w) \/ Fail(w)
        PROVE  Good
    BY <1>3 DEF GiveUp, Succeed, FinalizeFailed, Fail, MarkRun
  <1>4. ASSUME NEW w \in Workers, Crash(w) \/ Restart(w)
        PROVE  Good
    BY <1>4 DEF Crash, Restart
  <1>5. ASSUME (\E r \in Runs : Enqueue(r) \/ Age(r)) \/ Tick \/ UNCHANGED vars
        PROVE  Good
    BY <1>5 DEF Enqueue, Age, Tick, vars
  <1>6. Good
    BY <1>1, <1>2, <1>3, <1>4, <1>5 DEF Next, Step
  <1> QED
    BY <1>6 DEF PassedTenant, IsNext

\* Every step keeps the bound on a tenant's running runs and on the workers
\* about to claim one of them.
LEMMA NextTenantCap == IInv /\ TenantCapBound /\ [Next]_vars => TenantCapBound'
  <1> SUFFICES ASSUME IInv, TenantCapBound, [Next]_vars, NEW t \in Tenants
               PROVE  Cardinality(RunningOf(t)') + Cardinality(PassedTenant(t)')
                        <= TenantCap - 1 + Cardinality(Workers)
    BY DEF TenantCapBound, TenantCap, AtLeastOne
  <1> DEFINE Bound == TenantCap - 1 + Cardinality(Workers)
  <1> DEFINE Goal == Cardinality(RunningOf(t)') + Cardinality(PassedTenant(t)') <= Bound
  <1>1. /\ Bound \in Int /\ IsFiniteSet(RunningOf(t)) /\ IsFiniteSet(PassedTenant(t))
        /\ Cardinality(RunningOf(t)) + Cardinality(PassedTenant(t)) <= Bound
    BY CapFacts DEF TenantCapBound
  <1>2. ASSUME RunningOf(t)' \subseteq RunningOf(t), PassedTenant(t)' \subseteq PassedTenant(t)
        PROVE  Goal
    BY <1>1, <1>2, ShrinkingSets
  <1>3. ASSUME UNCHANGED attempts PROVE RunningOf(t)' \subseteq RunningOf(t)
    BY <1>3, RunningGrows DEF RunningOf
  <1>4. ASSUME NEW w \in Workers, CountTenant(w) PROVE Goal
    <2>1. RunningOf(t)' = RunningOf(t)
      BY <1>4 DEF CountTenant, RunningOf, Running, rowVars
    <2>2. CASE \E p \in cand[w] :
                 /\ IsNext(w, p) /\ TenantOf[p[2]] = t
                 /\ ~(Cardinality(RunningOf(t)) >= TenantCap)
      <3>1. /\ Cardinality(PassedTenant(t)') <= Cardinality(Workers)
            /\ Cardinality(PassedTenant(t)') \in Nat
        BY FS_Subset, FS_CardinalityType DEF PassedTenant
      <3>2. Cardinality(RunningOf(t)) \in Nat
        BY <1>1, FS_CardinalityType
      <3> QED
        BY <2>1, <2>2, <3>1, <3>2, CapFacts
    <2>3. CASE ~\E p \in cand[w] :
                 /\ IsNext(w, p) /\ TenantOf[p[2]] = t
                 /\ ~(Cardinality(RunningOf(t)) >= TenantCap)
      <3>1. \A v \in Workers \ {w} : UNCHANGED <<pc[v], cand[v]>>
        BY <1>4 DEF CountTenant, Goto, EndCycle, IInv, TypeOK
      <3>2. pc'[w] = "update" => /\ UNCHANGED cand
                                 /\ \E p \in cand[w] : /\ IsNext(w, p)
                                      /\ ~(Cardinality(RunningOf(TenantOf[p[2]])) >= TenantCap)
        BY <1>4 DEF CountTenant, Goto, EndCycle, IInv, TypeOK
      <3>3. w \notin PassedTenant(t)'
        <4> SUFFICES ASSUME pc'[w] = "update", NEW q \in cand[w], IsNext(w, q),
                            TenantOf[q[2]] = t
                     PROVE  FALSE
          BY <3>2 DEF PassedTenant, IsNext
        <4> QED
          BY <2>3, <3>2, OneIsNext
      <3>4. PassedTenant(t)' \subseteq PassedTenant(t)
        BY <3>1, <3>3 DEF PassedTenant, IsNext
      <3> QED
        BY <1>2, <2>1, <3>4
    <2> QED
      BY <2>2, <2>3
  <1>5. ASSUME NEW w \in Workers, TryClaim(w) PROVE Goal
    <2>1. /\ \A v \in Workers \ {w} : UNCHANGED <<pc[v], cand[v]>>
          /\ pc'[w] # "update"
      BY <1>5 DEF TryClaim, ClaimRow, Goto, IInv, TypeOK
    <2>2. PassedTenant(t)' = PassedTenant(t) \ {w}
      BY <2>1 DEF PassedTenant, IsNext
    <2>3. CASE UNCHANGED attempts
      BY <1>2, <1>3, <2>2, <2>3
    <2>4. CASE ~UNCHANGED attempts
      <3>1. PICK p \in cand[w] :
              /\ IsNext(w, p) /\ p[2] \in Runs /\ pc[w] = "update"
              /\ p[2] \notin Running /\ Running' = Running \cup {p[2]}
        BY <1>5, <2>4, ClaimMoves
      <3>2. CASE TenantOf[p[2]] = t
        <4>1. w \in PassedTenant(t)
          BY <3>1, <3>2 DEF PassedTenant
        <4>2. p[2] \notin RunningOf(t) /\ RunningOf(t)' = RunningOf(t) \cup {p[2]}
          BY <3>1, <3>2 DEF RunningOf
        <4> QED
          BY <1>1, <2>2, <4>1, <4>2, MovingOne
      <3>3. CASE TenantOf[p[2]] # t
        <4>1. RunningOf(t)' = RunningOf(t)
          BY <3>1, <3>3 DEF RunningOf
        <4> QED
          BY <1>2, <2>2, <4>1
      <3> QED
        BY <3>2, <3>3
    <2> QED
      BY <2>3, <2>4
  <1> QED
    BY <1>2, <1>3, <1>4, <1>5, TenantPass

\* No tenant's cap is ever overshot by more than the number of other workers.
THEOREM TenantCapHolds == Spec => []TenantCapBound
  <1>1. Init => TenantCapBound
    <2> SUFFICES ASSUME Init, NEW t \in Tenants
                 PROVE  Cardinality(RunningOf(t)) + Cardinality(PassedTenant(t))
                          <= TenantCap - 1 + Cardinality(Workers)
      BY DEF TenantCapBound
    <2>1. RunningOf(t) = {} /\ PassedTenant(t) = {}
      BY DEF Init, Running, RunningOf, PassedTenant
    <2> QED
      BY <2>1, CapFacts, FS_EmptySet
  <1> QED
    BY <1>1, NextTenantCap, InvHolds, PTL DEF Spec
=============================================================================
