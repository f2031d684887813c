\* Every exported mutation, called with matching user and family; three pairs.
CONSTANTS
  u1 = u1
  u2 = u2
  i1 = i1
  i2 = i2
  User = {u1}
  Identity = {i1}
  IdentityUser <- OneUser
  NoIdentity = NoIdentity
  NoCredential = NoCredential
  Credential = {c1}
  SessionTtl = 2
  DontRememberTtl = 2
  RefreshTtl = 3
  DefaultSessionTtl = 2
  DefaultRefreshTtl = 3
  ImpersonationTtl = 2
  Grace = 1
  MaxGraceRedemptions = 1
  MaxLiveSessions = 2
  MaxScanRows = 2
  MaxMinted = 3
  MaxTime = 3
  MaxLag = 0
SPECIFICATION Spec
INVARIANTS TypeOK FamilyUniform SupersededSessionDead
PROPERTIES KeepsLineage DeadFamilyStaysDead
CHECK_DEADLOCK FALSE
