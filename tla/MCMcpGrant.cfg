\* Two overlapping requests, a client registered anew, and time that runs out.
CONSTANTS
  c = c
  k1 = k1
  k2 = k2
  r1 = r1
  r2 = r2
  Client <- OneClient
  Scope = {s1, s2}
  Code = {k1}
  Request <- TwoRequests
  None = None
  Lifetime = 2
  CodeLifetime = 1
  MaxTokens = 3
SPECIFICATION Spec
INVARIANTS TypeOK CodeSingleUse OneLine ScopesNarrow KeepsGrant
PROPERTIES ReplayEndsGrant KeepsLine
SYMMETRY AnyRequest
CHECK_DEADLOCK FALSE
