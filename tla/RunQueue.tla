------------------------------ MODULE RunQueue ------------------------------
(***************************************************************************)
(* The run queue: the `runs` table, and the cycle by which any number of   *)
(* workers (worker/src/lib.rs, process_once_dual) requeue lapsed runs,     *)
(* claim one, renew its lease once, process it and record the outcome.     *)
(*                                                                         *)
(* Every SQL statement is one step; nothing spans two statements, because  *)
(* the code opens no transaction here.  Time is relative: lease_left[r] is *)
(* lease_expires_at - now(), which Tick decreases and which is kept at -1  *)
(* once the lease has expired.                                             *)
(***************************************************************************)
EXTENDS Integers, FiniteSets

CONSTANTS
  Runs,          \* run ids, numbered in the order of created_at
  Workers,       \* worker_id of every worker process
  Tenants,
  TenantOf,      \* runs.tenant_id
  BatchRuns,     \* runs whose input asks for queue_class "batch"
  NoWorker,      \* lease_owner IS NULL
  NoLease,       \* lease_expires_at IS NULL
  LeaseFor,      \* config.lease_for, in ticks
  ClaimLimit,    \* LIMIT of the candidate query
  RequeueLimit,  \* config.requeue_limit, at least 0
  GlobalMax,     \* config.claim_max_inflight_runs
  TenantMax,     \* config.trigger_tenant_max_inflight_runs
  Reliable,      \* workers that are restarted after every crash
  MaxCrashes,    \* bound: worker crashes explored
  MaxOverruns    \* bound: leases that expire under a worker that still runs

ASSUME RunQueueAssumption ==
  /\ Runs \subseteq Nat \ {0} /\ IsFiniteSet(Runs)
  /\ IsFiniteSet(Workers) /\ NoWorker \notin Workers
  /\ TenantOf \in [Runs -> Tenants]
  /\ BatchRuns \subseteq Runs
  /\ NoLease \notin Int
  /\ LeaseFor \in Nat \ {0}
  /\ ClaimLimit \in Nat \ {0} /\ RequeueLimit \in Nat
  /\ GlobalMax \in Int /\ TenantMax \in Int
  /\ Reliable \subseteq Workers
  /\ MaxCrashes \in Nat /\ MaxOverruns \in Nat

VARIABLES
  status, attempts, lease_owner, lease_left,  \* columns of `runs`
  aged,     \* batch runs created at least 15 minutes ago
  audit,    \* audit_events: <<event_type, run, attempt>>
  pc,       \* where each worker is in its cycle
  cand,     \* candidates left to try: <<class rank, run>>
  run,      \* the run a worker holds a claim on, 0 when none
  att,      \* attempts of the claimed record it holds
  crashes, overruns

rowVars == <<status, attempts, lease_owner, lease_left>>
localVars == <<cand, run, att>>
envVars == <<aged, crashes, overruns>>
vars == <<rowVars, aged, audit, pc, localVars, crashes, overruns>>

Finished == {"succeeded", "failed"}

RunStatus == {"absent", "queued", "running"} \cup Finished

\* Program counters of a worker that holds a claim.
Claimed == {"audit_claimed", "renew", "renew_failed", "give_up", "audit_started",
            "processing", "succeed", "audit_completed", "finalize_failed",
            "fail", "audit_failed"}

PC == {"down", "idle", "select", "count", "pick", "update"} \cup Claimed

EventTypes == {"run.claimed", "run.lease_renew_failed", "run.processing_started",
               "run.completed", "run.failed"}

TypeOK ==
  /\ status \in [Runs -> RunStatus]
  /\ attempts \in [Runs -> Nat]
  /\ lease_owner \in [Runs -> Workers \cup {NoWorker}]
  /\ lease_left \in [Runs -> (-1..LeaseFor) \cup {NoLease}]
  /\ aged \subseteq BatchRuns
  /\ audit \subseteq (EventTypes \X Runs \X Nat)
  /\ pc \in [Workers -> PC]
  /\ cand \in [Workers -> SUBSET ({0, 1} \X Runs)]
  /\ run \in [Workers -> Runs \cup {0}]
  /\ att \in [Workers -> Nat]
  /\ crashes \in Nat /\ overruns \in Nat

Init ==
  /\ status = [r \in Runs |-> "absent"]
  /\ attempts = [r \in Runs |-> 0]
  /\ lease_owner = [r \in Runs |-> NoWorker]
  /\ lease_left = [r \in Runs |-> NoLease]
  /\ aged = {}
  /\ audit = {}
  /\ pc = [w \in Workers |-> "idle"]
  /\ cand = [w \in Workers |-> {}]
  /\ run = [w \in Workers |-> 0]
  /\ att = [w \in Workers |-> 0]
  /\ crashes = 0 /\ overruns = 0
-----------------------------------------------------------------------------
(* The environment: requests that create runs, and time. *)

\* create_run: rows are inserted in the order of their created_at.
Enqueue(r) ==
  /\ status[r] = "absent"
  /\ \A q \in Runs : q < r => status[q] # "absent"
  /\ status' = [status EXCEPT ![r] = "queued"]
  /\ UNCHANGED <<attempts, lease_owner, lease_left, aged, audit, pc, localVars,
                 crashes, overruns>>

\* An unfinished batch run becomes 15 minutes old.
Age(r) ==
  /\ r \in BatchRuns \ aged
  /\ status[r] \in {"queued", "running"}
  /\ aged' = aged \cup {r}
  /\ UNCHANGED <<rowVars, audit, pc, localVars, crashes, overruns>>

Expired(r) == lease_left[r] # NoLease /\ lease_left[r] < 0

\* A live worker still works on the attempt that the row records.
Held(r) == \E w \in Workers : pc[w] \in Claimed /\ run[w] = r /\ lease_owner[r] = w

\* Leases that the next tick takes away from a worker that still runs.
Overrun == {r \in Runs : status[r] = "running" /\ lease_left[r] = 0 /\ Held(r)}

\* Time passes.  Only behaviours with at most MaxOverruns lost leases are explored;
\* in the code nothing limits them.
Tick ==
  /\ \E r \in Runs : lease_left[r] # NoLease /\ ~Expired(r)
  /\ overruns + Cardinality(Overrun) <= MaxOverruns
  /\ overruns' = overruns + Cardinality(Overrun)
  /\ lease_left' = [r \in Runs |-> IF lease_left[r] = NoLease \/ Expired(r)
                                   THEN lease_left[r] ELSE lease_left[r] - 1]
  /\ UNCHANGED <<status, attempts, lease_owner, aged, audit, pc, localVars, crashes>>
-----------------------------------------------------------------------------
(* process_once_dual, one SQL statement at a time. *)

Goto(w, label) == pc' = [pc EXCEPT ![w] = label]

\* The cycle ends: run_forever starts the next one.
EndCycle(w) ==
  /\ Goto(w, "idle")
  /\ cand' = [cand EXCEPT ![w] = {}]
  /\ run' = [run EXCEPT ![w] = 0]
  /\ att' = [att EXCEPT ![w] = 0]

\* Mutant: the requeue looks for leases that were never set.
ExpiredRunsUnset == {r \in Runs : status[r] = "running" /\ lease_left[r] = NoLease}

ExpiredRuns == {r \in Runs : status[r] = "running" /\ Expired(r)}

\* requeue_expired_runs: up to `limit` lapsed runs go back to the queue, of those
\* that no other statement holds locked.
RequeueExpired(w, locked) ==
  /\ pc[w] = "idle"
  /\ Goto(w, "select")
  /\ \E S \in SUBSET (ExpiredRuns \ locked) :
       /\ \/ Cardinality(S) = RequeueLimit
          \/ S = ExpiredRuns \ locked /\ Cardinality(S) < RequeueLimit
       /\ status' = [r \in Runs |-> IF r \in S THEN "queued" ELSE status[r]]
       /\ lease_owner' = [r \in Runs |-> IF r \in S THEN NoWorker ELSE lease_owner[r]]
       /\ lease_left' = [r \in Runs |-> IF r \in S THEN NoLease ELSE lease_left[r]]
  /\ UNCHANGED <<attempts, aged, audit, localVars, crashes, overruns>>

Claimable(r) == status[r] = "queued" /\ (lease_left[r] = NoLease \/ Expired(r))

\* ORDER BY class, created_at: an aged batch run ranks with the interactive ones.
ClassRank(r) == IF r \in BatchRuns \ aged THEN 1 ELSE 0

Before(p, q) == p[1] < q[1] \/ (p[1] = q[1] /\ p[2] < q[2])

\* The candidate query, which skips the rows another statement holds locked.
\* Its own row locks end with it, as it is not part of a transaction.
Candidates(locked) ==
  LET queue == {<<ClassRank(r), r>> : r \in {q \in Runs \ locked : Claimable(q)}}
  IN {p \in queue : Cardinality({q \in queue : Before(q, p)}) < ClaimLimit}

SelectCandidates(w, locked) ==
  /\ pc[w] = "select"
  /\ IF Candidates(locked) = {}
     THEN EndCycle(w)
     ELSE /\ Goto(w, "count")
          /\ cand' = [cand EXCEPT ![w] = Candidates(locked)]
          /\ UNCHANGED <<run, att>>
  /\ UNCHANGED <<rowVars, audit, envVars>>

AtLeastOne(n) == IF n < 1 THEN 1 ELSE n

GlobalCap == AtLeastOne(GlobalMax)

TenantCap == AtLeastOne(TenantMax)

\* Mutant of Running: finished runs count, too.
RunningEver == {r \in Runs : attempts[r] > 0}

Running == {r \in Runs : status[r] = "running"}

RunningOf(t) == {r \in Running : TenantOf[r] = t}

\* Mutant: the global cap is off by one.
CountGlobalOffByOne(w) ==
  /\ pc[w] = "count"
  /\ IF Cardinality(Running) > GlobalCap
     THEN EndCycle(w)
     ELSE Goto(w, "pick") /\ UNCHANGED localVars
  /\ UNCHANGED <<rowVars, audit, envVars>>

CountGlobal(w) ==
  /\ pc[w] = "count"
  /\ IF Cardinality(Running) >= GlobalCap
     THEN EndCycle(w)
     ELSE Goto(w, "pick") /\ UNCHANGED localVars
  /\ UNCHANGED <<rowVars, audit, envVars>>

IsNext(w, p) == p \in cand[w] /\ \A q \in cand[w] \ {p} : Before(p, q)

\* Mutant: the tenant's cap is off by one.
CountTenantOffByOne(w) ==
  /\ pc[w] = "pick"
  /\ IF cand[w] = {}
     THEN EndCycle(w)
     ELSE \E p \in cand[w] :
       /\ IsNext(w, p)
       /\ UNCHANGED <<run, att>>
       /\ IF Cardinality(RunningOf(TenantOf[p[2]])) > TenantCap
          THEN Goto(w, "pick") /\ cand' = [cand EXCEPT ![w] = @ \ {p}]
          ELSE Goto(w, "update") /\ UNCHANGED cand
  /\ UNCHANGED <<rowVars, audit, envVars>>

\* The loop over the candidates: count the tenant's running runs, then either
\* skip the candidate or go on to its conditional UPDATE.
CountTenant(w) ==
  /\ pc[w] = "pick"
  /\ IF cand[w] = {}
     THEN EndCycle(w)
     ELSE \E p \in cand[w] :
       /\ IsNext(w, p)
       /\ UNCHANGED <<run, att>>
       /\ IF Cardinality(RunningOf(TenantOf[p[2]])) >= TenantCap
          THEN Goto(w, "pick") /\ cand' = [cand EXCEPT ![w] = @ \ {p}]
          ELSE Goto(w, "update") /\ UNCHANGED cand
  /\ UNCHANGED <<rowVars, audit, envVars>>

\* Mutant: the claim does not count an attempt.
ClaimRowSameAttempt(w, r) ==
  /\ status' = [status EXCEPT ![r] = "running"]
  /\ UNCHANGED attempts
  /\ lease_owner' = [lease_owner EXCEPT ![r] = w]
  /\ lease_left' = [lease_left EXCEPT ![r] = LeaseFor]
  /\ cand' = [cand EXCEPT ![w] = {}]
  /\ run' = [run EXCEPT ![w] = r]
  /\ att' = [att EXCEPT ![w] = attempts[r]]

\* The claim's UPDATE takes the row, and the worker keeps the record it returns.
ClaimRow(w, r) ==
  /\ status' = [status EXCEPT ![r] = "running"]
  /\ attempts' = [attempts EXCEPT ![r] = @ + 1]
  /\ lease_owner' = [lease_owner EXCEPT ![r] = w]
  /\ lease_left' = [lease_left EXCEPT ![r] = LeaseFor]
  /\ cand' = [cand EXCEPT ![w] = {}]
  /\ run' = [run EXCEPT ![w] = r]
  /\ att' = [att EXCEPT ![w] = attempts[r] + 1]

\* Mutant: the UPDATE trusts the candidate query and checks the row no more.
TryClaimBlind(w) ==
  /\ pc[w] = "update"
  /\ \E p \in cand[w] :
       IsNext(w, p) /\ Goto(w, "audit_claimed") /\ ClaimRow(w, p[2])
  /\ UNCHANGED <<audit, envVars>>

TryClaim(w) ==
  /\ pc[w] = "update"
  /\ \E p \in cand[w] :
       /\ IsNext(w, p)
       /\ IF Claimable(p[2])
          THEN Goto(w, "audit_claimed") /\ ClaimRow(w, p[2])
          ELSE /\ Goto(w, "pick")
               /\ cand' = [cand EXCEPT ![w] = @ \ {p}]
               /\ UNCHANGED <<rowVars, run, att>>
  /\ UNCHANGED <<audit, envVars>>
-----------------------------------------------------------------------------
AppendAudit(w, event) == audit' = audit \cup {<<event, run[w], att[w]>>}

AuditClaimed(w) ==
  /\ pc[w] = "audit_claimed"
  /\ Goto(w, "renew")
  /\ AppendAudit(w, "run.claimed")
  /\ UNCHANGED <<rowVars, localVars, envVars>>

OwnsRow(w) == status[run[w]] = "running" /\ lease_owner[run[w]] = w

\* Mutant: the renewal extends the old expiry instead of setting a new one.
RenewLeaseExtends(w) ==
  /\ pc[w] = "renew"
  /\ IF OwnsRow(w) /\ lease_left[run[w]] # NoLease /\ lease_left[run[w]] > 0
     THEN /\ Goto(w, "audit_started")
          /\ lease_left' = [lease_left EXCEPT ![run[w]] = @ + LeaseFor]
     ELSE Goto(w, "renew_failed") /\ UNCHANGED lease_left
  /\ UNCHANGED <<status, attempts, lease_owner, audit, localVars, envVars>>

\* renew_run_lease: only an owner whose lease has not run out.
RenewLease(w) ==
  /\ pc[w] = "renew"
  /\ IF OwnsRow(w) /\ lease_left[run[w]] # NoLease /\ lease_left[run[w]] > 0
     THEN /\ Goto(w, "audit_started")
          /\ lease_left' = [lease_left EXCEPT ![run[w]] = LeaseFor]
     ELSE Goto(w, "renew_failed") /\ UNCHANGED lease_left
  /\ UNCHANGED <<status, attempts, lease_owner, audit, localVars, envVars>>

AuditRenewFailed(w) ==
  /\ pc[w] = "renew_failed"
  /\ Goto(w, "give_up")
  /\ AppendAudit(w, "run.lease_renew_failed")
  /\ UNCHANGED <<rowVars, localVars, envVars>>

\* Mutant: the lease columns are not cleared.
MarkRunKeepsLease(w, outcome) ==
  IF OwnsRow(w)
  THEN status' = [status EXCEPT ![run[w]] = outcome]
       /\ UNCHANGED <<attempts, lease_owner, lease_left>>
  ELSE UNCHANGED rowVars

\* Mutant: any worker may finish a running run.
MarkRunUnowned(w, outcome) ==
  IF status[run[w]] = "running"
  THEN /\ status' = [status EXCEPT ![run[w]] = outcome]
       /\ lease_owner' = [lease_owner EXCEPT ![run[w]] = NoWorker]
       /\ lease_left' = [lease_left EXCEPT ![run[w]] = NoLease]
       /\ UNCHANGED attempts
  ELSE UNCHANGED rowVars

\* Mutant: the row is found by its id alone.
MarkRunById(w, outcome) ==
  /\ status' = [status EXCEPT ![run[w]] = outcome]
  /\ lease_owner' = [lease_owner EXCEPT ![run[w]] = NoWorker]
  /\ lease_left' = [lease_left EXCEPT ![run[w]] = NoLease]
  /\ UNCHANGED attempts

\* mark_run_succeeded and mark_run_failed update the row only for its owner,
\* whether or not its lease has expired.
MarkRun(w, outcome) ==
  IF OwnsRow(w)
  THEN /\ status' = [status EXCEPT ![run[w]] = outcome]
       /\ lease_owner' = [lease_owner EXCEPT ![run[w]] = NoWorker]
       /\ lease_left' = [lease_left EXCEPT ![run[w]] = NoLease]
       /\ UNCHANGED attempts
  ELSE UNCHANGED rowVars

GiveUp(w) ==
  /\ pc[w] = "give_up"
  /\ MarkRun(w, "failed")
  /\ EndCycle(w)
  /\ UNCHANGED <<audit, envVars>>

AuditStarted(w) ==
  /\ pc[w] = "audit_started"
  /\ Goto(w, "processing")
  /\ AppendAudit(w, "run.processing_started")
  /\ UNCHANGED <<rowVars, localVars, envVars>>

\* process_claimed_run returns Ok or Err; RunExecution models its inside.
Process(w) ==
  /\ pc[w] = "processing"
  /\ \E next \in {"succeed", "fail"} : Goto(w, next)
  /\ UNCHANGED <<rowVars, audit, localVars, envVars>>

\* Mutant: whether the row was updated is not looked at.
SucceedUnchecked(w) ==
  /\ pc[w] = "succeed"
  /\ MarkRun(w, "succeeded")
  /\ Goto(w, "audit_completed")
  /\ UNCHANGED <<audit, localVars, envVars>>

Succeed(w) ==
  /\ pc[w] = "succeed"
  /\ MarkRun(w, "succeeded")
  /\ Goto(w, IF OwnsRow(w) THEN "audit_completed" ELSE "finalize_failed")
  /\ UNCHANGED <<audit, localVars, envVars>>

AuditCompleted(w) ==
  /\ pc[w] = "audit_completed"
  /\ AppendAudit(w, "run.completed")
  /\ EndCycle(w)
  /\ UNCHANGED <<rowVars, envVars>>

FinalizeFailed(w) ==
  /\ pc[w] = "finalize_failed"
  /\ MarkRun(w, "failed")
  /\ EndCycle(w)
  /\ UNCHANGED <<audit, envVars>>

\* Whether the row was updated is not looked at.
Fail(w) ==
  /\ pc[w] = "fail"
  /\ MarkRun(w, "failed")
  /\ Goto(w, "audit_failed")
  /\ UNCHANGED <<audit, localVars, envVars>>

AuditFailed(w) ==
  /\ pc[w] = "audit_failed"
  /\ AppendAudit(w, "run.failed")
  /\ EndCycle(w)
  /\ UNCHANGED <<rowVars, envVars>>
-----------------------------------------------------------------------------
(* A worker process ends anywhere: killed, or by a database error that     *)
(* process_once_dual returns and run_forever passes on.                    *)
Crash(w) ==
  /\ pc[w] # "down"
  /\ crashes < MaxCrashes
  /\ crashes' = crashes + 1
  /\ pc' = [pc EXCEPT ![w] = "down"]
  /\ cand' = [cand EXCEPT ![w] = {}]
  /\ run' = [run EXCEPT ![w] = 0]
  /\ att' = [att EXCEPT ![w] = 0]
  /\ UNCHANGED <<rowVars, aged, audit, overruns>>

Restart(w) ==
  /\ pc[w] = "down"
  /\ Goto(w, "idle")
  /\ UNCHANGED <<rowVars, audit, localVars, envVars>>

Step(w) ==
  \/ \E locked \in SUBSET Runs : RequeueExpired(w, locked) \/ SelectCandidates(w, locked)
  \/ CountGlobal(w) \/ CountTenant(w) \/ TryClaim(w)
  \/ AuditClaimed(w) \/ RenewLease(w) \/ AuditRenewFailed(w) \/ GiveUp(w)
  \/ AuditStarted(w) \/ Process(w)
  \/ Succeed(w) \/ AuditCompleted(w) \/ FinalizeFailed(w)
  \/ Fail(w) \/ AuditFailed(w)

Next ==
  \/ \E r \in Runs : Enqueue(r) \/ Age(r)
  \/ Tick
  \/ \E w \in Workers : Step(w) \/ Crash(w) \/ Restart(w)

Spec == Init /\ [][Next]_vars

\* A live worker goes on with its cycle, a reliable one is restarted, a row
\* lock lasts one statement, and time passes.
Fairness ==
  /\ \A w \in Workers : /\ WF_vars(Step(w))
                        /\ SF_vars(RequeueExpired(w, {})) /\ SF_vars(SelectCandidates(w, {}))
  /\ \A w \in Reliable : WF_vars(Restart(w))
  /\ WF_vars(Tick)

FairSpec == Spec /\ Fairness
-----------------------------------------------------------------------------
\* The lease columns are set exactly while a run is running, so requeue and
\* claim (which look at both columns) never meet a half-written lease.
LeaseMatchesStatus ==
  \A r \in Runs :
    /\ (status[r] = "running") <=> (lease_owner[r] # NoWorker)
    /\ (status[r] = "running") <=> (lease_left[r] # NoLease)

\* However claims race, no two workers hold the same attempt of a run, a worker
\* never holds an attempt the row has not counted yet, and the owner a row names
\* works on the very attempt the row counts (a stale claim never looks current).
UniqueClaims ==
  /\ \A w \in Workers : pc[w] \in Claimed =>
       /\ run[w] \in Runs
       /\ att[w] <= attempts[run[w]]
       /\ OwnsRow(w) => att[w] = attempts[run[w]]
  /\ \A v, w \in Workers :
       v # w /\ pc[v] \in Claimed /\ pc[w] \in Claimed /\ run[v] = run[w]
         => att[v] # att[w]

\* The step is one of a worker that holds the attempt the row counts.
ByClaimant(r) ==
  \E w \in Workers :
    pc[w] \in Claimed /\ run[w] = r /\ att[w] = attempts[r] /\ pc'[w] # pc[w]

FencedWrite(r) ==
  status[r] = "running" /\ <<status[r], lease_left[r]>>' # <<status[r], lease_left[r]>>
    => \/ ByClaimant(r)
       \/ status'[r] = "queued" /\ Expired(r)
       \/ status'[r] = "running" /\ lease_left'[r] = lease_left[r] - 1

\* A worker touches the row of a running run only under its current claim
\* (renew_run_lease, mark_run_succeeded, mark_run_failed): all else that happens
\* to such a row is time passing, or the requeue of an expired lease.
FencedWrites == [][\A r \in Runs : FencedWrite(r)]_vars

\* A finished run is never claimed, requeued or finished again, however late a
\* worker that lost its lease comes back.
FinishedForGood ==
  [][\A r \in Runs : status[r] \in Finished
       => <<status[r], attempts[r]>>' = <<status[r], attempts[r]>>]_vars

\* "run.completed" is recorded, and about to be recorded, only for the attempt
\* that made the run succeed: no stale worker reports a completion.
CompletedAuditIsTrue ==
  /\ \A e \in audit :
       e[1] = "run.completed" => status[e[2]] = "succeeded" /\ attempts[e[2]] = e[3]
  /\ \A w \in Workers :
       pc[w] = "audit_completed" => status[run[w]] = "succeeded" /\ attempts[run[w]] = att[w]

\* The caps are read in statements of their own, so several workers may pass
\* them together; but each worker at most once: the overshoot is bounded by the
\* number of the other workers, whatever crashes and expiries happen.
PassedGlobal == {w \in Workers : pc[w] \in {"pick", "update"}}

GlobalCapBound ==
  Cardinality(Running) + Cardinality(PassedGlobal) <= GlobalCap - 1 + Cardinality(Workers)

PassedTenant(t) ==
  {w \in Workers : pc[w] = "update" /\ \E p \in cand[w] : IsNext(w, p) /\ TenantOf[p[2]] = t}

TenantCapBound ==
  \A t \in Tenants :
    Cardinality(RunningOf(t)) + Cardinality(PassedTenant(t))
      <= TenantCap - 1 + Cardinality(Workers)

\* Nothing but a lease that runs out under a working worker keeps a queued run
\* from being finished: crashes, workers that never come back, rows another
\* statement holds locked and full caps do not.  (The lease is renewed once and
\* attempts are not limited, so a run that outlives its lease at every attempt
\* is handed on for ever; that is why the lost lease is an outcome here.)
EveryRunFinishes ==
  \A r \in Runs, n \in 0 .. MaxOverruns :
    (status[r] = "queued" /\ overruns = n) ~> (status[r] \in Finished \/ overruns > n)

\* The table keeps the promise of RunLifecycle.
Lifecycle == INSTANCE RunLifecycle

ImplementsLifecycle == Lifecycle!Spec

\* docs/ROADMAP.md:83: claims use lease semantics "to avoid duplicate execution":
\* no two workers process one run at the same time.
NoDuplicateExecution ==
  \A v, w \in Workers :
    v # w /\ pc[v] = "processing" /\ pc[w] = "processing" => run[v] # run[w]
=============================================================================
