\* Impersonation shorter than the default session lifetime.
CONSTANTS
  u1 = u1
  u2 = u2
  i1 = i1
  i2 = i2
  User = {u1}
  Identity = {i1}
  IdentityUser <- OneUser
  NoIdentity = NoIdentity
  NoCredential = NoCredential
  Credential = {}
  SessionTtl = 2
  DontRememberTtl = 2
  RefreshTtl = 2
  DefaultSessionTtl = 2
  DefaultRefreshTtl = 2
  ImpersonationTtl = 1
  Grace = 1
  MaxGraceRedemptions = 1
  MaxLiveSessions = 2
  MaxScanRows = 4
  MaxMinted = 2
  MaxTime = 3
  MaxLag = 0
SPECIFICATION ProviderSpec
PROPERTIES ImpersonationCapped
CHECK_DEADLOCK FALSE
