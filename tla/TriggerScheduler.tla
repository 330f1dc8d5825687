-------------------------- MODULE TriggerScheduler --------------------------
(***************************************************************************)
(* Triggers: the tables triggers, trigger_events, trigger_runs and         *)
(* scheduler_leases, the dispatch part of every worker's cycle, and the    *)
(* API's requests that ingest, replay, fire, enable, disable and change.   *)
(*                                                                         *)
(* A dispatch is one transaction whose first statement reads a snapshot    *)
(* (candidate rows and inflight counts) and then locks one row, rechecking *)
(* the columns of the row but not the counts: Scan is the snapshot, Fire   *)
(* the lock, the writes and the commit.  Which of several due rows comes   *)
(* first is left open.  A run is named by its row in trigger_runs,         *)
(* <<trigger, dedupe_key>>; what happens to it later is RunQueue's matter, *)
(* here it is in flight until it finishes.  Runs that no trigger made are  *)
(* in the tenant's and the global count, too.                              *)
(*                                                                         *)
(* The locks and rechecks are PostgreSQL's.                                *)
(***************************************************************************)
EXTENDS Integers, FiniteSets, FiniteSetsExt

CONSTANTS
  Cron, Interval, Webhook,   \* the triggers of each trigger_type
  Tenants, TenantOf,         \* triggers.tenant_id
  Skip,          \* interval triggers with misfire_policy "skip"
  Ending,        \* cron triggers whose schedule ends at CronEnd
  CronEnd,
  Period,        \* interval_seconds, and the distance of cron times
  Jitter,        \* jitter_seconds
  Events, EventOf,           \* event_ids, and the trigger each is sent to
  PayloadOf,     \* the canonical payload of each event
  Oversized,     \* events whose payload exceeds MAX_EVENT_PAYLOAD_BYTES
  Keys,          \* dedupe keys "manual:<idempotency_key>"; an event_id may be one
  Callers,       \* requests for a manual fire under way at the same time
  Direct, DirectOf,          \* runs made by POST /v1/runs, and their tenants
  Workers, NoWorker, NoTrigger,
  StableId,      \* workers with a configured WORKER_ID
  Gone,          \* the id of a worker process that was replaced by another
  UseLease,      \* config.trigger_scheduler_lease_enabled
  MaxAttempts, TriggerMax, GlobalMax,
  TenantMax,     \* config.trigger_tenant_max_inflight_runs
  ManualTenantMax,           \* DEFAULT_TENANT_MAX_INFLIGHT_RUNS
  Togglable,     \* triggers that are enabled and disabled
  Patchable,     \* triggers whose configuration is changed
  Resent,        \* events that are sent again although they arrived
  Replayable,    \* events somebody asks to replay
  MaxCrashes,    \* bound: worker crashes explored
  MaxTime        \* bound: the clock

Scheduled == Cron \cup Interval

Triggers == Scheduled \cup Webhook

Slots == 0 .. (2 * MaxTime + 2 * Period + 2 * Jitter)

DedupeKeys == Slots \cup Events \cup Keys

ASSUME TriggerAssumption ==
  /\ IsFiniteSet(Triggers) /\ IsFiniteSet(Events) /\ IsFiniteSet(Keys) /\ IsFiniteSet(Workers)
  /\ IsFiniteSet(Callers) /\ IsFiniteSet(Direct) /\ DirectOf \in [Direct -> Tenants]
  /\ Cron \cap Interval = {} /\ Scheduled \cap Webhook = {}
  /\ (Events \cup Keys) \cap (Slots \cup Triggers) = {}
  /\ TenantOf \in [Triggers -> Tenants] /\ EventOf \in [Events -> Webhook]
  /\ Skip \subseteq Interval /\ Ending \subseteq Cron /\ Oversized \subseteq Events
  /\ NoWorker \notin Workers /\ Gone \notin Workers \cup {NoWorker}
  /\ StableId \subseteq Workers /\ NoTrigger \notin Triggers
  /\ Togglable \subseteq Triggers /\ Patchable \subseteq Scheduled
  /\ Replayable \subseteq Events /\ Resent \subseteq Events
  /\ Period \in Nat \ {0} /\ Jitter \in Nat /\ CronEnd \in Nat /\ MaxTime \in Nat
  /\ MaxAttempts \in Nat \ {0} /\ TriggerMax \in Nat \ {0}
  /\ TenantMax \in Int /\ ManualTenantMax \in Nat \ {0} /\ GlobalMax \in Nat
  /\ MaxCrashes \in Nat
  /\ UseLease \in BOOLEAN

VARIABLES
  now,
  enabled, broken,    \* triggers: status "enabled"; dead_lettered_at set
  next_fire,          \* triggers.next_fire_at
  patch,              \* per trigger, the next_fire_at a PATCH has computed; -1: none
  event_status, event_attempts,
  event_waits,        \* events whose next_attempt_at lies ahead
  arriving,           \* events whose trigger the API has checked, to be inserted ...
  replaying,          \* ... or to be replayed
  fired, failed,      \* trigger_runs with status 'created', 'failed'
  inflight,           \* the fired runs that are queued or running
  direct,             \* runs that no trigger made: "absent", "inflight", "finished"
  audited,            \* the fired runs with a run.created event
  owner, live,        \* the scheduler lease, and whether it has not expired
  request,            \* per caller, the run its transaction, which locks the trigger, will add
  pc, view, made,     \* workers: place, rows of the snapshot, run just created
  crashes

triggerVars == <<enabled, broken, next_fire, patch>>
eventVars == <<event_status, event_attempts, event_waits, arriving, replaying>>
runVars == <<fired, failed, inflight, direct, audited>>
leaseVars == <<owner, live>>
workerVars == <<pc, view, made>>
vars == <<now, triggerVars, eventVars, runVars, leaseVars, request, workerVars, crashes>>

FirePC == {"webhook_fire", "cron_fire", "interval_fire"}

PC == {"down", "idle", "lease", "webhook", "cron", "interval", "audit"} \cup FirePC

Rows == Triggers \cup Events

NoRun == <<NoTrigger, NoTrigger>>

TypeOK ==
  /\ now \in 0 .. MaxTime
  /\ enabled \subseteq Triggers /\ broken \subseteq Cron
  /\ next_fire \in [Triggers -> Slots] /\ patch \in [Triggers -> Slots \cup {-1}]
  /\ event_status \in [Events -> {"absent", "pending", "processed", "dead_lettered"}]
  /\ event_attempts \in [Events -> 0 .. MaxAttempts]
  /\ event_waits \subseteq Events
  /\ arriving \subseteq Events /\ replaying \subseteq Events
  /\ fired \subseteq (Triggers \X DedupeKeys) /\ failed \subseteq (Triggers \X DedupeKeys)
  /\ inflight \subseteq fired /\ audited \subseteq fired
  /\ direct \in [Direct -> {"absent", "inflight", "finished"}]
  /\ owner \in Workers \cup {NoWorker, Gone} /\ live \in BOOLEAN
  /\ request \in [Callers -> (Triggers \X Keys) \cup {NoRun}]
  /\ pc \in [Workers -> PC] /\ view \in [Workers -> SUBSET Rows]
  /\ made \in [Workers -> fired \cup {NoRun}]
  /\ crashes \in 0 .. MaxCrashes

\* The first fire time of the schedule after a moment, when it has one.
NextCron(after) == Period * (after \div Period + 1)

HasNext(c, after) == c \in Ending => NextCron(after) <= CronEnd

Init ==
  /\ now = 0
  /\ enabled = Triggers /\ broken = {}
  /\ next_fire = [t \in Triggers |-> IF t \in Scheduled THEN Period ELSE 0]
  /\ patch = [t \in Triggers |-> -1]
  /\ event_status = [e \in Events |-> "absent"]
  /\ event_attempts = [e \in Events |-> 0]
  /\ event_waits = {} /\ arriving = {} /\ replaying = {}
  /\ fired = {} /\ failed = {} /\ inflight = {} /\ audited = {}
  /\ direct = [d \in Direct |-> "absent"]
  /\ owner = NoWorker /\ live = FALSE
  /\ request = [u \in Callers |-> NoRun]
  /\ pc = [w \in Workers |-> "idle"] /\ view = [w \in Workers |-> {}]
  /\ made = [w \in Workers |-> NoRun]
  /\ crashes = 0
-----------------------------------------------------------------------------
(* Time, and the runs' own life. *)

Tick ==
  /\ now < MaxTime
  /\ now' = now + 1
  /\ UNCHANGED <<triggerVars, eventVars, runVars, leaseVars, request, workerVars, crashes>>

\* The 30 seconds before the next attempt pass.
RetryComesDue(e) ==
  /\ e \in event_waits
  /\ event_waits' = event_waits \ {e}
  /\ UNCHANGED <<now, triggerVars, event_status, event_attempts, arriving, replaying,
                 runVars, leaseVars, request, workerVars, crashes>>

\* lease_expires_at passes.
LeaseExpires ==
  /\ live
  /\ live' = FALSE
  /\ UNCHANGED <<now, triggerVars, eventVars, runVars, owner, request, workerVars, crashes>>

FinishRun(x) ==
  /\ x \in inflight
  /\ inflight' = inflight \ {x}
  /\ UNCHANGED <<now, triggerVars, eventVars, fired, failed, direct, audited, leaseVars,
                 request, workerVars, crashes>>

\* A run of the tenant that no trigger made, from its creation to its end.
CreateDirect(d) ==
  /\ direct[d] = "absent"
  /\ direct' = [direct EXCEPT ![d] = "inflight"]
  /\ UNCHANGED <<now, triggerVars, eventVars, fired, failed, inflight, audited, leaseVars,
                 request, workerVars, crashes>>

FinishDirect(d) ==
  /\ direct[d] = "inflight"
  /\ direct' = [direct EXCEPT ![d] = "finished"]
  /\ UNCHANGED <<now, triggerVars, eventVars, fired, failed, inflight, audited, leaseVars,
                 request, workerVars, crashes>>
-----------------------------------------------------------------------------
(* The API. *)

Available(t) == t \in enabled /\ t \notin broken

\* Mutant of Locked: the manual fire reads the trigger without FOR UPDATE.
LockedNever(t) == t \in {}

\* A manual fire holds the row of its trigger from its check to its commit.
Locked(t) == \E u \in Callers : request[u][1] = t

\* update_trigger_status, which leaves next_fire_at and dead_lettered_at alone.
SetStatus(t) ==
  /\ t \in Togglable /\ ~Locked(t)
  /\ enabled' = IF t \in enabled THEN enabled \ {t} ELSE enabled \cup {t}
  /\ UNCHANGED <<now, broken, next_fire, patch, eventVars, runVars, leaseVars, request,
                 workerVars, crashes>>

\* update_trigger_config reads the row and computes the next fire time from the
\* clock; without a next cron time the request fails.  (With a clock of whole
\* ticks a new interval slot may equal an old one; in the code the nanoseconds
\* differ.  Cron times are whole seconds there, too.)
PatchRead(t) ==
  /\ t \in Patchable /\ patch[t] = -1
  /\ t \in Cron => HasNext(t, now)
  /\ \E j \in 0 .. Jitter :
       patch' = [patch EXCEPT ![t] = j + IF t \in Cron THEN NextCron(now) ELSE now + Period]
  /\ UNCHANGED <<now, enabled, broken, next_fire, eventVars, runVars, leaseVars, request,
                 workerVars, crashes>>

\* ... and later writes every column.
PatchWrite(t) ==
  /\ patch[t] # -1 /\ ~Locked(t)
  /\ next_fire' = [next_fire EXCEPT ![t] = patch[t]]
  /\ patch' = [patch EXCEPT ![t] = -1]
  /\ UNCHANGED <<now, enabled, broken, eventVars, runVars, leaseVars, request, workerVars,
                 crashes>>

\* enqueue_trigger_event: the trigger is checked in one statement ...
IngestCheck(e) ==
  /\ e \notin arriving /\ (event_status[e] = "absent" \/ e \in Resent)
  /\ Available(EventOf[e])
  /\ arriving' = arriving \cup {e}
  /\ UNCHANGED <<now, triggerVars, event_status, event_attempts, event_waits, replaying, runVars,
                 leaseVars, request, workerVars, crashes>>

\* ... and the event inserted in the next, unless its id or its payload was
\* ever seen before (ON CONFLICT DO NOTHING on two unique indexes).
IngestInsert(e) ==
  /\ e \in arriving
  /\ arriving' = arriving \ {e}
  /\ IF \E d \in Events : /\ EventOf[d] = EventOf[e] /\ PayloadOf[d] = PayloadOf[e]
                          /\ event_status[d] # "absent"
     THEN UNCHANGED event_status
     ELSE event_status' = [event_status EXCEPT ![e] = "pending"]
  /\ UNCHANGED <<now, triggerVars, event_attempts, event_waits, replaying, runVars, leaseVars,
                 request, workerVars, crashes>>

\* A replay, too, checks the trigger first ...
ReplayCheck(e) ==
  /\ e \in Replayable \ replaying
  /\ Available(EventOf[e])
  /\ replaying' = replaying \cup {e}
  /\ UNCHANGED <<now, triggerVars, event_status, event_attempts, event_waits, arriving, runVars,
                 leaseVars, request, workerVars, crashes>>

\* Mutant of Replay: the status of the event is not looked at again.
ReplayAny(e) ==
  /\ e \in replaying
  /\ replaying' = replaying \ {e}
  /\ event_status' = [event_status EXCEPT ![e] = "pending"]
  /\ event_attempts' = [event_attempts EXCEPT ![e] = 0]
  /\ event_waits' = event_waits \ {e}
  /\ UNCHANGED <<now, triggerVars, arriving, runVars, leaseVars, request, workerVars, crashes>>

\* ... then requeue_dead_letter_trigger_event locks the event and checks it.
Replay(e) ==
  /\ e \in replaying
  /\ replaying' = replaying \ {e}
  /\ IF event_status[e] = "dead_lettered"
     THEN /\ event_status' = [event_status EXCEPT ![e] = "pending"]
          /\ event_attempts' = [event_attempts EXCEPT ![e] = 0]
          /\ event_waits' = event_waits \ {e}
     ELSE UNCHANGED <<event_status, event_attempts, event_waits>>
  /\ UNCHANGED <<now, triggerVars, arriving, runVars, leaseVars, request, workerVars, crashes>>

InflightOf(t) == {x \in inflight : x[1] = t}

\* Mutant of InflightOfTenant: finished runs count, too.
InflightOfTenantEver(n) ==
  {x \in fired : TenantOf[x[1]] = n} \cup {d \in Direct : direct[d] # "absent" /\ DirectOf[d] = n}

InflightOfTenant(n) ==
  {x \in inflight : TenantOf[x[1]] = n}
    \cup {d \in Direct : direct[d] = "inflight" /\ DirectOf[d] = n}

\* Workers count against their configured cap, at least 1; the API against a
\* constant of the code.
TenantCap == IF TenantMax < 1 THEN 1 ELSE TenantMax

\* Mutant of Room: off by one.
RoomInclusive(t, cap) ==
  /\ Cardinality(InflightOf(t)) <= TriggerMax
  /\ Cardinality(InflightOfTenant(TenantOf[t])) <= cap

Room(t, cap) ==
  /\ Cardinality(InflightOf(t)) < TriggerMax
  /\ Cardinality(InflightOfTenant(TenantOf[t])) < cap

\* fire_trigger_manually_with_limits locks the trigger, looks for its key and
\* counts; a known key or a full trigger ends the transaction.
ManualCheck(u, t, k) ==
  /\ request[u] = NoRun
  /\ Available(t) /\ ~Locked(t)
  /\ <<t, k>> \notin fired \cup failed
  /\ Room(t, ManualTenantMax)
  /\ request' = [request EXCEPT ![u] = <<t, k>>]
  /\ UNCHANGED <<now, triggerVars, eventVars, runVars, leaseVars, workerVars, crashes>>

\* The transaction commits the run and its ledger row.  (The API's audit events
\* that follow are not part of this module.)
ManualCommit(u) ==
  /\ request[u] \notin fired \cup failed \cup {NoRun}
  /\ request' = [request EXCEPT ![u] = NoRun]
  /\ fired' = fired \cup {request[u]}
  /\ inflight' = inflight \cup {request[u]}
  /\ UNCHANGED <<now, triggerVars, eventVars, failed, direct, audited, leaseVars, workerVars,
                 crashes>>

\* The transaction is lost, or the ledger's unique index rejects its row.
ManualAbort(u) ==
  /\ request[u] # NoRun
  /\ request' = [request EXCEPT ![u] = NoRun]
  /\ UNCHANGED <<now, triggerVars, eventVars, runVars, leaseVars, workerVars, crashes>>
-----------------------------------------------------------------------------
(* The dispatch part of process_once_dual. *)

Goto(w, label) == pc' = [pc EXCEPT ![w] = label]

\* The worker looks for due triggers while the runs in flight, of all tenants and
\* whoever made them, are below its global cap.
CheckInflight(w) ==
  /\ pc[w] = "idle"
  /\ Cardinality(inflight \cup {d \in Direct : direct[d] = "inflight"}) < GlobalMax
  /\ Goto(w, IF UseLease THEN "lease" ELSE "webhook")
  /\ UNCHANGED <<now, triggerVars, eventVars, runVars, leaseVars, request, view, made, crashes>>

\* Mutant of AcquireLease: a lease that has expired is not taken over.
AcquireLeaseOwn(w) ==
  /\ pc[w] = "lease"
  /\ IF owner \in {NoWorker, w}
     THEN owner' = w /\ live' = TRUE /\ Goto(w, "webhook")
     ELSE Goto(w, "idle") /\ UNCHANGED leaseVars
  /\ UNCHANGED <<now, triggerVars, eventVars, runVars, request, view, made, crashes>>

\* try_acquire_scheduler_lease: a free, an expired or the own lease.
AcquireLease(w) ==
  /\ pc[w] = "lease"
  /\ IF owner \in {NoWorker, w} \/ ~live
     THEN owner' = w /\ live' = TRUE /\ Goto(w, "webhook")
     ELSE Goto(w, "idle") /\ UNCHANGED leaseVars
  /\ UNCHANGED <<now, triggerVars, eventVars, runVars, request, view, made, crashes>>

TriggerOf(x) == IF x \in Events THEN EventOf[x] ELSE x

RowsOf == [webhook |-> Events, cron |-> Cron, interval |-> Interval]

\* The conditions on the columns of the locked rows.
Due(x) ==
  /\ Available(TriggerOf(x))
  /\ IF x \in Events THEN event_status[x] = "pending" /\ x \notin event_waits
                     ELSE next_fire[x] <= now

FireLabel == [webhook |-> "webhook_fire", cron |-> "cron_fire", interval |-> "interval_fire"]

\* The snapshot of a candidate query.
Scan(w, stage) ==
  /\ pc[w] = stage
  /\ view' = [view EXCEPT ![w] = {x \in RowsOf[stage] : Due(x) /\ Room(TriggerOf(x), TenantCap)}]
  /\ Goto(w, FireLabel[stage])
  /\ UNCHANGED <<now, triggerVars, eventVars, runVars, leaseVars, request, made, crashes>>

\* Another transaction may hold the row: SKIP LOCKED.
MayBeLocked(w, x) ==
  \/ Locked(TriggerOf(x))
  \/ \E v \in Workers \ {w} : pc[v] \in FirePC /\ \E y \in view[v] : TriggerOf(y) = TriggerOf(x)

Finish(w, label) ==
  /\ Goto(w, label)
  /\ view' = [view EXCEPT ![w] = {}]

\* No row is left: the next kind of trigger is looked at, or the dispatch ends.
NothingDue(w, stage, after) ==
  /\ pc[w] = FireLabel[stage]
  /\ \A x \in view[w] : ~Due(x) \/ MayBeLocked(w, x)
  /\ Finish(w, after)
  /\ UNCHANGED <<now, triggerVars, eventVars, runVars, leaseVars, request, made, crashes>>

\* Mutant of Locks: the conditions are not looked at again under the lock.
LocksUnchecked(w, stage, x) ==
  pc[w] = FireLabel[stage] /\ x \in view[w] /\ ~Locked(TriggerOf(x))

\* The dispatch locks the row, and with an event the row of its trigger, when
\* they still meet the conditions.
Locks(w, stage, x) ==
  pc[w] = FireLabel[stage] /\ x \in view[w] /\ Due(x) /\ ~Locked(TriggerOf(x))

\* The unique index on trigger_runs rejects the row: the transaction rolls back,
\* the error leaves process_once_dual and ends the worker.
Reject(w, x) ==
  /\ x \in fired \cup failed
  /\ Finish(w, "down")
  /\ UNCHANGED <<now, triggerVars, eventVars, runVars, leaseVars, request, made, crashes>>

\* A failed row in the ledger, and no run.
RecordFailure(w, x, after) ==
  /\ x \notin fired \cup failed
  /\ failed' = failed \cup {x}
  /\ Finish(w, after)
  /\ UNCHANGED <<fired, inflight, direct, audited, made>>

\* Mutant of CreateRun: no row in the ledger.
CreateRunUnrecorded(w, x) ==
  /\ x \notin fired \cup failed
  /\ inflight' = inflight \cup {x}
  /\ made' = [made EXCEPT ![w] = x]
  /\ Finish(w, "audit")
  /\ UNCHANGED <<fired, failed, direct, audited>>

\* Mutant of CreateRun: no run.created event.
CreateRunUnaudited(w, x) ==
  /\ x \notin fired \cup failed
  /\ fired' = fired \cup {x}
  /\ inflight' = inflight \cup {x}
  /\ Finish(w, "idle")
  /\ UNCHANGED <<failed, direct, audited, made>>

\* A queued run and its row in the ledger.
CreateRun(w, x) ==
  /\ x \notin fired \cup failed
  /\ fired' = fired \cup {x}
  /\ inflight' = inflight \cup {x}
  /\ made' = [made EXCEPT ![w] = x]
  /\ Finish(w, "audit")
  /\ UNCHANGED <<failed, direct, audited>>

FireEvent(w, e) ==
  LET x == <<EventOf[e], e>>
      dead == event_attempts[e] + 1 >= MaxAttempts
  IN
  /\ Locks(w, "webhook", e)
  /\ \/ Reject(w, x)
     \/ /\ event_attempts' = [event_attempts EXCEPT ![e] = @ + 1]
        /\ IF e \in Oversized
           THEN /\ RecordFailure(w, x, "cron")
                /\ event_status' = [event_status EXCEPT ![e] =
                                      IF dead THEN "dead_lettered" ELSE "pending"]
                /\ event_waits' = IF dead THEN event_waits ELSE event_waits \cup {e}
           ELSE /\ CreateRun(w, x)
                /\ event_status' = [event_status EXCEPT ![e] = "processed"]
                /\ UNCHANGED event_waits
        /\ UNCHANGED <<now, triggerVars, arriving, replaying, leaseVars, request, crashes>>

\* A slot after which the schedule has no time breaks the trigger.
FireCron(w, c) ==
  LET x == <<c, next_fire[c]>> IN
  /\ Locks(w, "cron", c)
  /\ \/ Reject(w, x)
     \/ /\ IF HasNext(c, next_fire[c])
           THEN /\ CreateRun(w, x)
                /\ \E j \in 0 .. Jitter :
                     next_fire' = [next_fire EXCEPT ![c] = NextCron(@) + j]
                /\ UNCHANGED broken
           ELSE /\ RecordFailure(w, x, "interval")
                /\ broken' = broken \cup {c}
                /\ UNCHANGED next_fire
        /\ UNCHANGED <<now, enabled, patch, eventVars, leaseVars, request, crashes>>

\* Mutant of FireInterval: a skipped slot stays due.
FireIntervalStays(w, i) ==
  LET x == <<i, next_fire[i]>>
      skip == i \in Skip /\ now - next_fire[i] >= Period
  IN
  /\ Locks(w, "interval", i)
  /\ \/ Reject(w, x)
     \/ /\ IF skip THEN RecordFailure(w, x, "idle") ELSE CreateRun(w, x)
        /\ \E j \in 0 .. Jitter :
             next_fire' = [next_fire EXCEPT ![i] = @ + IF skip THEN 0 ELSE Period + j]
        /\ UNCHANGED <<now, enabled, broken, patch, eventVars, leaseVars, request, crashes>>

FireInterval(w, i) ==
  LET x == <<i, next_fire[i]>>
      skip == i \in Skip /\ now - next_fire[i] >= Period
  IN
  /\ Locks(w, "interval", i)
  /\ \/ Reject(w, x)
     \/ /\ IF skip THEN RecordFailure(w, x, "idle") ELSE CreateRun(w, x)
        /\ \E j \in 0 .. Jitter :
             next_fire' = [next_fire EXCEPT ![i] = Period + j + IF skip THEN now ELSE @]
        /\ UNCHANGED <<now, enabled, broken, patch, eventVars, leaseVars, request, crashes>>

AuditCreated(w) ==
  /\ pc[w] = "audit"
  /\ audited' = audited \cup {made[w]}
  /\ made' = [made EXCEPT ![w] = NoRun]
  /\ Goto(w, "idle")
  /\ UNCHANGED <<now, triggerVars, eventVars, fired, failed, inflight, direct, leaseVars,
                 request, view, crashes>>

Crash(w) ==
  /\ pc[w] # "down" /\ crashes < MaxCrashes
  /\ crashes' = crashes + 1
  /\ made' = [made EXCEPT ![w] = NoRun]
  /\ Finish(w, "down")
  /\ UNCHANGED <<now, triggerVars, eventVars, runVars, leaseVars, request>>

\* Without a WORKER_ID the new process has a new id, which owns no lease.
Restart(w) ==
  /\ pc[w] = "down"
  /\ Goto(w, "idle")
  /\ owner' = IF owner = w /\ w \notin StableId THEN Gone ELSE owner
  /\ UNCHANGED <<now, triggerVars, eventVars, runVars, live, request, view, made, crashes>>

\* What the worker does next in its dispatch.
Dispatch(w) ==
  \/ CheckInflight(w) \/ AcquireLease(w)
  \/ Scan(w, "webhook") \/ NothingDue(w, "webhook", "cron")
  \/ Scan(w, "cron") \/ NothingDue(w, "cron", "interval")
  \/ Scan(w, "interval") \/ NothingDue(w, "interval", "idle")
  \/ \E e \in Events : FireEvent(w, e)
  \/ \E c \in Cron : FireCron(w, c)
  \/ \E i \in Interval : FireInterval(w, i)
  \/ AuditCreated(w)

Request ==
  \/ \E t \in Triggers : SetStatus(t) \/ PatchRead(t) \/ PatchWrite(t)
  \/ \E e \in Events : IngestCheck(e) \/ IngestInsert(e) \/ ReplayCheck(e) \/ Replay(e)
  \/ \E u \in Callers : \/ \E t \in Triggers, k \in Keys : ManualCheck(u, t, k)
                        \/ ManualCommit(u) \/ ManualAbort(u)
  \/ \E d \in Direct : CreateDirect(d)

Next ==
  \/ Tick \/ LeaseExpires
  \/ \E e \in Events : RetryComesDue(e)
  \/ \E x \in inflight : FinishRun(x)
  \/ \E d \in Direct : FinishDirect(d)
  \/ Request
  \/ \E w \in Workers : Dispatch(w) \/ Crash(w) \/ Restart(w)

Spec == Init /\ [][Next]_vars

\* No running worker owns the lease.
Orphaned == owner \notin {w \in Workers : pc[w] # "down"}

\* Workers go on and are restarted, runs finish, requests end, retry delays run
\* out, and so does a lease that nobody renews.  A due row is passed over only
\* while another transaction holds it, so it is not passed over for ever.
Fairness ==
  /\ \A w \in Workers : WF_vars(Dispatch(w)) /\ WF_vars(Restart(w))
  /\ \A e \in Events : /\ SF_vars(\E w \in Workers : FireEvent(w, e))
                        /\ WF_vars(RetryComesDue(e))
  /\ \A c \in Cron : SF_vars(\E w \in Workers : FireCron(w, c))
  /\ \A i \in Interval : SF_vars(\E w \in Workers : FireInterval(w, i))
  /\ WF_vars(\E x \in inflight : FinishRun(x)) /\ WF_vars(\E d \in Direct : FinishDirect(d))
  /\ \A u \in Callers : WF_vars(ManualCommit(u) \/ ManualAbort(u))
  /\ \A t \in Patchable : WF_vars(PatchWrite(t))
  /\ WF_vars(Orphaned /\ LeaseExpires)

FairSpec == Spec /\ Fairness
-----------------------------------------------------------------------------
\* Each slot that was fired, skipped or failed lies behind the schedule: no
\* slot can come due twice (the dedupe key of a schedule is its slot).  A PATCH
\* breaks this, see DueSlotPasses.
ScheduleAdvances ==
  \A x \in fired \cup failed :
    x[1] \in Scheduled /\ x[2] \in Slots => x[2] < next_fire[x[1]] \/ x[1] \in broken

\* An event is processed exactly when it has a run, dispatched however often and
\* by however many workers; a rejected one has a failed row and no run.  (A run
\* under an event_id that is also a manual key may come from a manual fire.)
EventRunsOnce ==
  \A e \in Events :
    /\ event_status[e] = "processed" => <<EventOf[e], e>> \in fired
    /\ <<EventOf[e], e>> \in fired => event_status[e] = "processed" \/ e \in Keys
    /\ event_status[e] = "dead_lettered" => <<EventOf[e], e>> \in failed

\* A trigger that is disabled or broken when a run of it is committed gets none:
\* a dispatch, which saw it enabled in its snapshot, looks again under the lock,
\* and a manual fire holds the lock since it looked.
OnlyAvailableFire ==
  [][\A x \in fired' \ fired : Available(x[1])]_vars

\* The key a manual fire found unused stays unused until it commits, although
\* the request is repeated meanwhile and workers dispatch an event with that id:
\* the lookup, the counts and the insert are statements of their own, under the
\* lock of the trigger.
ManualKeyStaysFree ==
  \A u \in Callers : request[u] \notin fired \cup failed

\* Runs of a trigger in flight, and those its lock holders and stale snapshots
\* may still add: the cap is overshot by at most one run per worker.
Viewers(t) == {w \in Workers : pc[w] \in FirePC /\ \E x \in view[w] : TriggerOf(x) = t}

TriggerCapBound ==
  \A t \in Triggers :
    Cardinality(InflightOf(t)) + Cardinality(Viewers(t))
      + Cardinality({u \in Callers : request[u][1] = t}) <= TriggerMax + Cardinality(Workers)

\* The tenant's runs that triggers made, and those that snapshots and manual
\* requests may still add.  No lock is held on the count, so each worker and each
\* request may add one to the larger of the two caps.
TenantCapBound ==
  \A n \in Tenants :
    Cardinality({x \in inflight : TenantOf[x[1]] = n})
      + Cardinality({w \in Workers : \E t \in Triggers : TenantOf[t] = n /\ w \in Viewers(t)})
      + Cardinality({u \in Callers : request[u] # NoRun /\ TenantOf[request[u][1]] = n})
    <= Max({TenantCap, ManualTenantMax}) - 1 + Cardinality(Workers) + Cardinality(Callers)

\* run.created is lost only by a crash, one event per crash.
LostAudits ==
  Cardinality({x \in fired : x[2] \notin Keys} \ (audited \cup {made[w] : w \in Workers}))
    <= crashes

\* An accepted event is processed or dead-lettered in the end, although a worker
\* dies with the scheduler lease and comes back under another id, and the caps
\* hold the event back for a while.  Where an oversized event has more than one
\* attempt this is not so, see OversizedDeadLettered.
EventsSettle ==
  \A e \in Events :
    (event_status[e] = "pending") ~> (event_status[e] \in {"processed", "dead_lettered"})

\* Every slot that comes due is fired, skipped or failed, and left behind,
\* although a worker dies with the scheduler lease.
DueSlotsHandled ==
  \A t \in Scheduled, s \in 0 .. MaxTime :
    (next_fire[t] = s /\ s <= now)
      ~> (<<t, s>> \in fired \cup failed /\ (next_fire[t] # s \/ t \in broken))

\* docs/ROADMAP.md:103: "worker dispatches due cron triggers into queued runs":
\* a slot does not stay due for ever.
DueSlotPasses ==
  \A t \in Scheduled, s \in 0 .. MaxTime :
    (next_fire[t] = s /\ s <= now) ~> (next_fire[t] # s \/ t \in broken)

\* docs/SESSION_HANDOFF.md:1020: "events above 64KB are rejected into
\* retry/dead-letter flow".
OversizedDeadLettered ==
  \A e \in Oversized : (event_status[e] = "pending") ~> (event_status[e] = "dead_lettered")

\* docs/ROADMAP.md:103: "worker dispatches due cron triggers into queued runs".
DueCronFires ==
  \A c \in Cron, s \in Slots :
    (next_fire[c] = s /\ s <= now) ~> (<<c, s>> \in fired)
=============================================================================
