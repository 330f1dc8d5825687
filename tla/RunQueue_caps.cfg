SPECIFICATION Spec
CONSTANTS
  Runs = {1, 2, 3}
  Workers = {w1, w2}
  t1 = t1
  t2 = t2
  Tenants = {t1, t2}
  TenantOf <- TenantOfRun
  BatchRuns = {}
  NoWorker = NoWorker
  NoLease = NoLease
  LeaseFor = 1
  ClaimLimit = 2
  RequeueLimit = 1
  GlobalMax = 2
  TenantMax = 1
  Reliable = {}
  MaxCrashes = 1
  MaxOverruns = 0
SYMMETRY WorkerSymmetry
INVARIANTS
  TenantCapBound
