SPECIFICATION FairSpec
CONSTANTS
  n1 = n1
  h1 = h1
  Cron = {c1}
  Interval = {}
  Webhook = {}
  Tenants = {n1}
  TenantOf <- OneTenant
  Skip = {}
  Ending = {c1}
  CronEnd = 2
  Period = 1
  Jitter = 0
  Events = {}
  EventOf <- OneWebhook
  PayloadOf <- OwnPayload
  Oversized = {}
  Keys = {}
  Callers = {}
  Direct = {}
  DirectOf <- DirectOneTenant
  Workers = {w1, w2}
  NoWorker = NoWorker
  NoTrigger = NoTrigger
  StableId = {}
  Gone = Gone
  UseLease = FALSE
  MaxAttempts = 2
  TriggerMax = 1
  TenantMax = 1
  ManualTenantMax = 2
  GlobalMax = 3
  Togglable = {}
  Patchable = {}
  Resent = {}
  Replayable = {}
  MaxCrashes = 0
  MaxTime = 2
PROPERTIES
  DueCronFires
