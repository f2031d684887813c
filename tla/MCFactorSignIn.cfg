\* An enrolled account: concurrent verifications of its challenges.
SPECIFICATION SignInSpec
CONSTANTS
  Request = {r1, r2}
  Slot = {s1, s2}
  MaxAttempts = 2
  MaxDrawn = 1
  MaxChallenges = 2
  MaxDevices = 1
SYMMETRY RequestSymmetry
CHECK_DEADLOCK FALSE
INVARIANTS ChallengeSingleUse AttemptsBounded BackupCodeOnce BurntCodeOpens PasskeyChallengesEnd
