\* Two parallel requests; every leg of a trip takes at most one tick, the grace is three.
CONSTANTS
  u1 = u1
  i1 = i1
  User = {u1}
  Identity = {i1}
  IdentityUser <- OneUser
  NoIdentity = NoIdentity
  NoCredential = NoCredential
  Credential = {}
  SessionTtl = 9
  DontRememberTtl = 9
  RefreshTtl = 9
  DefaultSessionTtl = 9
  DefaultRefreshTtl = 9
  ImpersonationTtl = 1
  Grace = 3
  MaxGraceRedemptions = 4
  MaxLiveSessions = 4
  MaxScanRows = 8
  MaxMinted = 4
  MaxTime = 4
  MaxLag = 4
  Request = {r1, r2}
  MaxTrip = 1
  MayLose = FALSE
SPECIFICATION RefreshSpec
INVARIANTS KeepsSession
CHECK_DEADLOCK FALSE
