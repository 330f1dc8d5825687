SPECIFICATION FairSpec
CONSTANTS
  n1 = n1
  h1 = h1
  Cron = {c1}
  Interval = {}
  Webhook = {h1}
  Tenants = {n1}
  TenantOf <- OneTenant
  Skip = {}
  Ending = {}
  CronEnd = 2
  Period = 1
  Jitter = 0
  Events = {e1, e2}
  EventOf <- OneWebhook
  PayloadOf <- OwnPayload
  Oversized = {e2}
  Keys = {}
  Callers = {}
  Direct = {}
  DirectOf <- DirectOneTenant
  Workers = {w1, w2}
  NoWorker = NoWorker
  NoTrigger = NoTrigger
  StableId = {}
  Gone = Gone
  UseLease = TRUE
  MaxAttempts = 1
  TriggerMax = 1
  TenantMax = 1
  ManualTenantMax = 2
  GlobalMax = 2
  Togglable = {}
  Patchable = {}
  Resent = {}
  Replayable = {}
  MaxCrashes = 1
  MaxTime = 1
PROPERTIES
  EventsSettle
  DueSlotsHandled
