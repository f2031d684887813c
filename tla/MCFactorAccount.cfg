\* Every operation: enrolment, disabling and new codes race with sign-ins.
SPECIFICATION Spec
CONSTANTS
  Request = {r1, r2}
  Slot = {s1}
  MaxAttempts = 1
  MaxDrawn = 3
  MaxChallenges = 1
  MaxDevices = 1
SYMMETRY RequestSymmetry
CHECK_DEADLOCK FALSE
INVARIANTS TypeOK EnabledConfirmed
