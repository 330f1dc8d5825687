SPECIFICATION Spec
CONSTANTS
  Runs = {1}
  Workers = {w1, w2}
  t1 = t1
  t2 = t2
  Tenants = {t1, t2}
  TenantOf <- TenantOfRun
  BatchRuns = {}
  NoWorker = NoWorker
  NoLease = NoLease
  LeaseFor = 1
  ClaimLimit = 1
  RequeueLimit = 1
  GlobalMax = 2
  TenantMax = 2
  Reliable = {}
  MaxCrashes = 0
  MaxOverruns = 1
SYMMETRY WorkerSymmetry
INVARIANTS
  NoDuplicateExecution
