# SecureAgnt: TLA+ verification

SecureAgnt runs agent recipes. An API process (`api/`) accepts runs and triggers,
any number of worker processes (`worker/`) carry them out, and all of them meet
in one database (`core/src/db.rs` for PostgreSQL, `core/src/db_worker_dual.rs`
for SQLite). There is no other channel between the processes: what one of them
relies on is a row another one wrote, possibly some time ago. That is where these
models look.

## The system

| Part | Source | State it keeps | Module |
| --- | --- | --- | --- |
| Run queue, worker cycle | `worker/src/lib.rs` 526-798, `core/src/db.rs` 3907-4152 | `runs`, audit events of the cycle | `RunQueue`, `RunLifecycle` |
| Trigger scheduler | `core/src/db.rs` 4154-5888, `worker/src/lib.rs` 571-623, `api/src/lib.rs` 4562-5216 | `triggers`, `trigger_events`, `trigger_runs`, `scheduler_leases` | `TriggerScheduler` |
| Run execution | `worker/src/lib.rs` 1003-1808 | `steps`, `action_requests`, `action_results` | planned |
| Run admission | `api/src/lib.rs` 2014-2152 | `runs.semantic_dedupe_key` | planned |
| SIEM delivery outbox | `core/src/db.rs` 3230-3865, `worker/src/lib.rs` 813-983 | `compliance_siem_delivery_outbox` | planned |
| Payments | `worker/src/lib.rs` 2126-3079, 3846-4107 | `payment_requests`, `payment_results`, route health | planned |
| LLM admission, budgets, cache | `worker/src/llm.rs`, `core/src/db.rs` 2640-2868 | lane slots, token usage, cache | planned |
| Message transport | `worker/src/lib.rs` 1895-2028 | outbox files | planned, with run execution |
| Audit tamper chain, purge | `migrations/0010_compliance_tamper_chain.sql`, `core/src/db.rs` 3064-3230 | hash chain, legal hold | planned |
| Memory plane | `core/src/db.rs`, `worker/src/lib.rs` 528-566 | memory records | planned |
| Policy, capabilities | `core/src/policy.rs`, `api/src/lib.rs` 12116-12170 | none (pure) | planned |
| Skill runner | `skillrunner/src/` | one child process | planned |
| Secrets | `core/src/secrets.rs` | cache | planned |
| Agent context, signers, local execution, redaction, storage | `core/src/`, `worker/src/` | files, sockets | not modelled: I/O with one party |
| API reads and reports, `agntctl`, skills, scripts | | none | not modelled: they change no shared state |

`PROJECT.json` lists the same parts with their status, the hazards of each at the
line where they bite, and the source lines behind every definition.

## Modules

### RunLifecycle and RunQueue

`RunLifecycle` is the promise of the `runs` table: a run is queued, claimed (each
claim counts an attempt), handed back, and finished at most once. `RunQueue` is
the code. The worker's cycle opens no transaction around its statements, so every
SQL statement is one step, and a worker has a program counter:

| Code | Actions |
| --- | --- |
| `create_run` | `Enqueue` |
| `requeue_expired_runs` | `RequeueExpired` |
| `claim_next_queued_run_with_limits` | `SelectCandidates`, `CountGlobal`, `CountTenant`, `TryClaim` |
| `process_once_dual` | `AuditClaimed`, `RenewLease`, `AuditRenewFailed`, `GiveUp`, `AuditStarted`, `Process`, `Succeed`, `AuditCompleted`, `FinalizeFailed`, `Fail`, `AuditFailed` |
| process exit, systemd restart | `Crash`, `Restart` |

`lease_left` is `lease_expires_at - now()`; `Tick` lets time pass. `SKIP LOCKED`
is a set of rows that happen to be locked while expired runs are requeued or the
candidates are selected.
`process_claimed_run` is one step, `Process`, that succeeds or fails. Worker ids
are taken to be distinct (`lease_owner` is the worker id). The statements are
PostgreSQL's. SQLite skips no locked rows, and its claim reads the claimed row back
in a `SELECT` of its own (`db_worker_dual.rs` 1127-1148), where PostgreSQL returns it
from the update; that extra step is not modelled.

### TriggerScheduler

The dispatch part of the worker's cycle, and the API requests on triggers. A
dispatch is a transaction under READ COMMITTED: `Scan` reads the snapshot
(candidate rows and inflight counts); `FireEvent`, `FireCron` and `FireInterval`
lock one row, recheck its columns (but not the counts, which PostgreSQL takes from
the snapshot again) and commit; `NothingDue` passes on to the next kind of trigger.
A row in the ledger `trigger_runs` is named by `<<trigger, dedupe_key>>`, and its
unique index is `Reject`: the transaction rolls back and the error ends the worker.
`PatchRead`/`PatchWrite`, `IngestCheck`/`IngestInsert` and `ReplayCheck`/`Replay`
are requests of two statements without a transaction around them;
`ManualCheck`/`ManualCommit`/`ManualAbort` is one transaction that holds the
trigger's row; several callers may be at it, with the same key. Event ids and manual
keys (`manual:<idempotency_key>`) share the ledger's key space, and nothing keeps
them apart, so `Events` and `Keys` may overlap. Workers count the tenant's runs
against their configured cap (`TenantMax`), manual requests against a constant of the
code (`ManualTenantMax`); the counts include runs that no trigger made
(`CreateDirect`, `FinishDirect`). Which due row comes first is left open, so the
results do not depend on `ORDER BY`. A run is in flight until `FinishRun`; its life is
`RunQueue`'s. A worker that is restarted has a new id unless it is in `StableId`
(`WORKER_ID` is set): a scheduler lease it held belongs to `Gone` then.

The locks are PostgreSQL's. SQLite's dispatch is a transaction without row locks that
reserves its row by a guarded update. For a schedule the guard repeats the slot, for
an event only the event's status (`db_worker_dual.rs` 2332-2341) and nothing about the
trigger. That variant is not modelled.

## Runs

| Run | Checks | Instance |
| --- | --- | --- |
| `queue_safety` | types, leases, unique claims, fencing, finality, true completions, global cap, `RunLifecycle` | 2 workers, 2 runs, 1 crash, 1 lease that expires under its worker |
| `queue_caps` | `TenantCapBound` | 3 runs, 2 tenants, 1 crash |
| `queue_live` | `EveryRunFinishes` | 1 run, 2 workers of which one need not come back, 1 crash, 2 leases that expire under their worker |
| `queue_wait` | `EveryRunFinishes` | 2 runs, global cap 1, 1 crash |
| `queue_duplicate` | violates `NoDuplicateExecution` | 1 run, 1 expired lease |
| `trigger_events` | types, one run per event, trigger cap, availability, lost audit events | 2 workers, 3 events (one oversized), manual fire, replay, an event sent twice, toggling, 1 crash |
| `trigger_schedule` | `ScheduleAdvances` | cron that ends, two intervals (one `skip`), jitter, lease, 1 crash, 2 ticks |
| `trigger_change` | `ManualKeyStaysFree`, `TenantCapBound` | trigger cap 2, a cron trigger that is changed, an event with 2 attempts, 2 callers, 2 manual keys (one the event's id), a run that no trigger made |
| `trigger_live` | `EventsSettle`, `DueSlotsHandled` | cron, 2 events (one oversized, 1 attempt), lease, 1 crash, new worker ids |
| `trigger_oversized` | violates `OversizedDeadLettered` | 1 oversized event, `max_attempts` 2 |
| `trigger_patch` | violates `DueSlotPasses` | 1 cron trigger, PATCH |
| `trigger_last_slot` | violates `DueCronFires` | 1 cron trigger whose schedule ends |

Bounds. Two workers suffice for every race between a current and a stale actor;
two runs (three with two tenants) let one block another; one crash or one lost
lease is what it takes to make a worker stale, and the theorems remove these bounds
for `RunQueue`'s safety. Two ticks give every schedule a second slot and a misfire.
`MaxCrashes`, `MaxOverruns`, `MaxTime`, `Togglable`, `Patchable`, `Resent`,
`Replayable` and `Direct` are the bounds on the environment. Only workers and callers
are permuted for symmetry, and not in runs with liveness properties.

`MaxOverruns` bounds how often a lease runs out while its worker lives: after that,
time waits for live workers. What lies behind the bound is real: a run that outlives
its lease at every attempt is handed on for ever, since the code has no limit on
attempts. `EveryRunFinishes` says what holds all the same: from any state in which a
run is queued, either it is finished or one more lease runs out under a live worker.
`queue_live` checks this before, between and after two such expiries. `MaxTime` stops
the clock, so no property says that a schedule catches up with it: a schedule moves
on one slot per dispatch, and when its runs take longer than its period it stays
behind. `DueSlotsHandled` says that each slot that comes due is handled.

Fairness. A live worker continues its loop (`run_forever`), systemd restarts it
(`Restart=on-failure` in `infra/systemd/secureagnt.service`; in `queue_live` and
`queue_wait` only one worker is restarted), time passes, retry delays end, runs
finish and requests end. A scheduler lease is sure to run out only while no running
worker owns it (`Orphaned`). Strong fairness is assumed where `SKIP LOCKED` may pass
over a row: a row is locked only while some transaction works on it, so it is not
locked each time somebody looks. Cron is looked at only when no webhook event was
dispatched, so `DueSlotsHandled` rests on there being finitely many events. Disabling
a trigger is not part of `trigger_live`: a disabled trigger rightly settles nothing;
nor are manual keys: an event whose id is the key of an earlier manual fire is
rejected for ever. Oversized events have one attempt there, see `trigger_oversized`.

### What the violations show

- `queue_duplicate`: the lease is renewed once, before processing. A run that takes
  longer is handed to another worker while the first still works on it. The
  first one's final update is refused (`FencedWrites`), its effects are not undone.
- `trigger_oversized`: each attempt at an oversized event inserts a failed ledger row
  under the event id, and the unique index admits one. From the second attempt on
  the dispatch is rolled back and the worker exits; the event stays pending.
- `trigger_patch`: a PATCH of a cron trigger that races its dispatch writes back the
  slot just fired. The ledger refuses a second run, and the trigger stays due with a
  worker exiting on every dispatch.
- `trigger_last_slot`: the last time of a schedule that ends is recorded as failed.

## Proofs

`RunQueueProofs` and, for the caps, `RunQueueCapProofs` prove for any number of runs,
workers, crashes and expiries, from `RunQueueAssumption` (finite sets, distinct null
values, a positive lease and claim limit):

- `TypeCorrect`, `ClaimsAreUnique`, `CompletionsAreTrue` from the inductive invariant
  `IInv == TypeOK /\ LeaseMatchesStatus /\ UniqueClaims /\ CompletedAuditIsTrue`.
  `UniqueClaims` is not inductive alone: that a claim raises the attempt above every
  attempt held needs the bound `att[w] <= attempts[run[w]]`, and that a completion is
  true needs that the owner of a row works on the attempt the row counts.
- `WritesAreFenced` and `FinishedStays`, action properties, from `IInv` and one lemma
  on what a worker's step may do to a row.
- `GlobalCapHolds`, `TenantCapHolds`: running runs plus workers that have passed the
  check stay within the cap plus the other workers. A claim moves one worker from the
  second set to the first.
- `RefinesLifecycle`: every step of `RunQueue` is a step of `RunLifecycle` or a stutter.

Only model-checked: everything about `TriggerScheduler`, and all liveness (fairness
is out of the prover's reach).

## Plan

1. `TriggerSchedulerProofs`: `EventRunsOnce`, `ScheduleAdvances` without PATCH, and
   `TriggerCapBound` for any instance.
2. `SiemOutbox`: claim, deliver, retry, dead letter, requeue; every record is settled,
   no delivered record is sent again, two workers and a crash.
3. `RunExecution`: steps and actions of one attempt after another, composed with
   `RunQueue`'s claims; an action result belongs to one attempt, no step of a finished
   run stays open.
4. `Payments`: idempotency key, budgets, route fallback and health; at most one
   settlement per key, the overshoot of a budget by concurrent runs, crash between
   request and result.
5. `LlmAdmission`: slots of a lane never exceed the limit, expired slots are reused,
   a late release frees no other holder's slot.
6. `RunAdmission` (dedupe and tenant limit), `AuditChain` (append, purge, verify),
   `MemoryPlane` (compaction and purge).
7. `Capabilities` and the skill runner's limits as operators checked against a
   reference definition.
8. An abstract `Outbox` that `SiemOutbox` and the event queue implement, with the
   refinements proved.
