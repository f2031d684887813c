\* Answers may be lost, sessions and tokens expire, a token may be replayed after its
\* window (Grace = 0), the lineage is ended in every way the code has.
CONSTANTS
  u1 = u1
  i1 = i1
  User = {u1}
  Identity = {i1}
  IdentityUser <- OneUser
  NoIdentity = NoIdentity
  NoCredential = NoCredential
  Credential = {}
  SessionTtl = 1
  DontRememberTtl = 2
  RefreshTtl = 2
  DefaultSessionTtl = 2
  DefaultRefreshTtl = 2
  ImpersonationTtl = 1
  Grace = 0
  MaxGraceRedemptions = 2
  MaxLiveSessions = 2
  MaxScanRows = 4
  MaxMinted = 3
  MaxTime = 1
  MaxLag = 1
  Request = {r1, r2}
  MaxTrip = 1
  MayLose = TRUE
SPECIFICATION FlowSpec
INVARIANTS FlowTypeOK EndedForGood
CHECK_DEADLOCK FALSE
