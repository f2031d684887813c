\* Violation: a revoked device still skips the second factor.
SPECIFICATION Spec
CONSTANTS
  Request = {r1, r2}
  Slot = {s1}
  MaxAttempts = 1
  MaxDrawn = 2
  MaxChallenges = 1
  MaxDevices = 1
SYMMETRY RequestSymmetry
CHECK_DEADLOCK FALSE
PROPERTY RevokedDeviceRefused
