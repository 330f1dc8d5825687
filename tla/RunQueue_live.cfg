SPECIFICATION FairSpec
CONSTANTS
  Runs = {1}
  Workers = {w1, w2}
  t1 = t1
  t2 = t2
  Tenants = {t1, t2}
  TenantOf <- TenantOfRun
  BatchRuns = {}
  NoWorker = NoWorker
  NoLease = NoLease
  LeaseFor = 1
  ClaimLimit = 1
  RequeueLimit = 1
  GlobalMax = 1
  TenantMax = 1
  Reliable = {w1}
  MaxCrashes = 1
  MaxOverruns = 2
PROPERTIES
  EveryRunFinishes
