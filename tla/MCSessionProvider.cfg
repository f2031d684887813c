\* What the providers call, lifetimes that differ and a lagging caller; a token's
\* redemptions are reached below the cap on live sessions.
CONSTANTS
  u1 = u1
  u2 = u2
  i1 = i1
  i2 = i2
  User = {u1}
  Identity = {i1}
  IdentityUser <- OneUser
  NoIdentity = NoIdentity
  NoCredential = NoCredential
  Credential = {}
  SessionTtl = 1
  DontRememberTtl = 1
  RefreshTtl = 2
  DefaultSessionTtl = 2
  DefaultRefreshTtl = 2
  ImpersonationTtl = 1
  Grace = 1
  MaxGraceRedemptions = 1
  MaxLiveSessions = 2
  MaxScanRows = 4
  MaxMinted = 4
  MaxTime = 2
  MaxLag = 1
SPECIFICATION ProviderSpec
INVARIANTS LiveSessionRefreshable TokenMintsBounded 
CHECK_DEADLOCK FALSE
