\* Two users, two addresses, two passwords, two overlapping actions.
SPECIFICATION Spec
CONSTANTS
  u1 = u1
  u2 = u2
  e1 = e1
  e2 = e2
  p1 = p1
  p2 = p2
  a1 = a1
  a2 = a2
  User = {u1, u2}
  Email = {e1, e2}
  Password = {p1, p2}
  Action = {a1, a2}
  OneTime = {"emailOtp"}
  NoEmail = NoEmail
  MaxLoad = 3
  MaxInserts = 3
SYMMETRY NameSymmetry
CHECK_DEADLOCK FALSE
INVARIANTS TypeOK PasswordKept VerifiedProven OneLiveCode VerifierSingleUse
PROPERTIES PasswordChangeSpendsCode CredentialStable
