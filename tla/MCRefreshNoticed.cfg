\* Answers may be lost, sessions and tokens expire, and the scheduling is fair.
CONSTANTS
  u1 = u1
  i1 = i1
  User = {u1}
  Identity = {i1}
  IdentityUser <- OneUser
  NoIdentity = NoIdentity
  NoCredential = NoCredential
  Credential = {}
  SessionTtl = 1
  DontRememberTtl = 2
  RefreshTtl = 1
  DefaultSessionTtl = 1
  DefaultRefreshTtl = 1
  ImpersonationTtl = 1
  Grace = 1
  MaxGraceRedemptions = 2
  MaxLiveSessions = 2
  MaxScanRows = 4
  MaxMinted = 2
  MaxTime = 1
  MaxLag = 1
  Request = {r1, r2}
  MaxTrip = 1
  MayLose = TRUE
SPECIFICATION FairRefreshSpec
PROPERTIES DeadNoticed
CHECK_DEADLOCK FALSE
