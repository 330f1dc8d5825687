SPECIFICATION Spec
CONSTANTS
  Runs = {1, 2}
  Workers = {w1, w2}
  t1 = t1
  t2 = t2
  Tenants = {t1, t2}
  TenantOf <- TenantOfRun
  BatchRuns = {1}
  NoWorker = NoWorker
  NoLease = NoLease
  LeaseFor = 1
  ClaimLimit = 2
  RequeueLimit = 1
  GlobalMax = 1
  TenantMax = 1
  Reliable = {}
  MaxCrashes = 1
  MaxOverruns = 1
SYMMETRY WorkerSymmetry
INVARIANTS
  TypeOK
  LeaseMatchesStatus
  UniqueClaims
  CompletedAuditIsTrue
  GlobalCapBound
PROPERTIES
  FencedWrites
  FinishedForGood
  ImplementsLifecycle
