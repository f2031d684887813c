\* Two overlapping actions that may stop, two operator retries, an endpoint that comes and goes.
CONSTANTS
  org = org
  w1 = w1
  w2 = w2
  Global = Global
  Scope <- OneOrganization
  EventType = {t1}
  Worker <- TwoWorkers
  Limit = 1
  MaxAttempts = 3
  InitialBackoff = 1
  MaxBackoff = 2
  JitterWindow = 0
  MaxActive = 1
  MaxEndpoints = 1
  MaxEvents = 1
  MaxRetries = 2
  MayCrash = TRUE
SPECIFICATION FairSpec
INVARIANTS TypeOK OneSender PostsBounded
PROPERTIES KeepsOutbox Settles
CHECK_DEADLOCK FALSE
