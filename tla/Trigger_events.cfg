SPECIFICATION Spec
CONSTANTS
  n1 = n1
  h1 = h1
  Cron = {}
  Interval = {}
  Webhook = {h1}
  Tenants = {n1}
  TenantOf <- OneTenant
  Skip = {}
  Ending = {}
  CronEnd = 2
  Period = 1
  Jitter = 0
  Events = {e1, e2, e3}
  EventOf <- OneWebhook
  PayloadOf <- OwnPayload
  Oversized = {e3}
  Keys = {k1}
  Callers = {u1}
  Direct = {}
  DirectOf <- DirectOneTenant
  Workers = {w1, w2}
  NoWorker = NoWorker
  NoTrigger = NoTrigger
  StableId = {}
  Gone = Gone
  UseLease = FALSE
  MaxAttempts = 1
  TriggerMax = 1
  TenantMax = 1
  ManualTenantMax = 2
  GlobalMax = 3
  Togglable = {h1}
  Patchable = {}
  Resent = {e1}
  Replayable = {e1, e3}
  MaxCrashes = 1
  MaxTime = 0
SYMMETRY Symmetry
INVARIANTS
  TypeOK
  EventRunsOnce
  TriggerCapBound
  LostAudits
PROPERTIES
  OnlyAvailableFire
