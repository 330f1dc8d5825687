SPECIFICATION Spec
CONSTANTS
  n1 = n1
  h1 = h1
  Cron = {c1}
  Interval = {}
  Webhook = {h1}
  Tenants = {n1}
  TenantOf <- OneTenant
  Skip = {}
  Ending = {}
  CronEnd = 2
  Period = 1
  Jitter = 0
  Events = {e1}
  EventOf <- OneWebhook
  PayloadOf <- OwnPayload
  Oversized = {e1}
  Keys = {e1, k1}
  Callers = {u1, u2}
  Direct = {d1}
  DirectOf <- DirectOneTenant
  Workers = {w1, w2}
  NoWorker = NoWorker
  NoTrigger = NoTrigger
  StableId = {}
  Gone = Gone
  UseLease = FALSE
  MaxAttempts = 2
  TriggerMax = 2
  TenantMax = 1
  ManualTenantMax = 2
  GlobalMax = 3
  Togglable = {}
  Patchable = {c1}
  Resent = {}
  Replayable = {}
  MaxCrashes = 0
  MaxTime = 1
SYMMETRY Symmetry
INVARIANTS
  TenantCapBound
  ManualKeyStaysFree
