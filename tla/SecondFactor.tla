---------------------------- MODULE SecondFactor ----------------------------
(***************************************************************************)
(* The second factor of one account: enrolment, backup codes, the pending  *)
(* challenge that a sign-in returns instead of a session, and the devices  *)
(* that skip it.  The account also has a passkey, whose ceremony does not  *)
(* verify the user and so asks for the second factor too.                  *)
(*                                                                         *)
(* A server action runs its queries and mutations as separate              *)
(* transactions, each an action here; what it has read stays in its        *)
(* request, and may be stale when it is written back.                      *)
(*                                                                         *)
(* Secrets, sets of backup codes, challenges and trusted devices are named *)
(* by the order in which they were drawn.  Passwords are right, and the    *)
(* caller of an account action is signed in.                               *)
(***************************************************************************)
EXTENDS Integers, FiniteSets

CONSTANTS
  Request,        \* actions that can be under way at once
  Slot,           \* positions of the backup codes in a set
  MaxAttempts,    \* MAX_TWO_FACTOR_ATTEMPTS
  MaxDrawn,       \* bound: secrets and sets of backup codes
  MaxChallenges,  \* bound: challenges
  MaxDevices      \* bound: trusted devices

ASSUME AttemptsAssumption == MaxAttempts \in Nat
ASSUME RequestAssumption == IsFiniteSet(Request)
ASSUME BoundAssumption ==
  /\ {MaxChallenges, MaxDevices} \subseteq Nat
  /\ MaxDrawn \in Nat \ {0}

VARIABLES
  user,        \* the two-factor columns of the users row
  drawn,       \* how many secrets and sets of backup codes were drawn
  challenges,  \* authVerificationCodes of type two_factor_pending
  devices,     \* authVerificationCodes of type two_factor_trusted_device
  passkey,     \* the passkey is registered and not revoked
  request,     \* the actions under way
  opened,      \* history: sessions opened with each challenge
  used,        \* history: sessions opened with each backup code
  tried,       \* history: codes compared for each challenge
  confirmed,   \* history: secrets the user confirmed with a code
  off,         \* history: disabled, and no confirmation started since
  revoked      \* history: devices revoked by twoFactorDisable

account == <<user, drawn, passkey>>
tables == <<challenges, devices>>
history == <<opened, used, tried, confirmed, off, revoked>>
vars == <<account, tables, request, history>>

None == 0
Draw == 0..MaxDrawn
Challenge == 1..MaxChallenges
Device == 1..MaxDevices
Code == (1..MaxDrawn) \X Slot
NoCode == <<None, None>>

UserRow == [enabled : BOOLEAN, secret : Draw, codes : SUBSET Code]
NoFactor == [enabled |-> FALSE, secret |-> None, codes |-> {}]

\* A request: the step it is at, what the caller presented, the users row it read.
Idle == [pc |-> "idle", challenge |-> None, device |-> None, guess |-> None,
         code |-> NoCode, trust |-> FALSE, user |-> NoFactor]

Fresh == drawn + 1
CodesOf(d) == {d} \X Slot

(***************************************************************************)
(* The mutations.                                                          *)
(***************************************************************************)
setTwoFactor(enabled, secret, codes) ==
  user' = [enabled |-> enabled, secret |-> secret, codes |-> codes]

\* Mutant: the optional counter is read without its default.
NewRowUncounted(byPasskey) ==
  [consumed |-> FALSE, expired |-> FALSE, attempts |-> -1, passkey |-> byPasskey]

NewRow(byPasskey) ==
  [consumed |-> FALSE, expired |-> FALSE, attempts |-> 0, passkey |-> byPasskey]

\* A new code consumes the codes of its user and type that are left.
Created(table, byPasskey) ==
  LET new == Cardinality(DOMAIN table) + 1
  IN  [x \in DOMAIN table \cup {new} |->
         IF x = new THEN NewRow(byPasskey) ELSE [table[x] EXCEPT !.consumed = TRUE]]

Usable(c) == c \in DOMAIN challenges /\ ~challenges[c].consumed /\ ~challenges[c].expired

\* Mutant: one attempt too many.
CanReserveLate(c) == Usable(c) /\ challenges[c].attempts <= MaxAttempts

CanReserve(c) == Usable(c) /\ challenges[c].attempts < MaxAttempts

reserveVerificationAttempt(c) ==
  /\ CanReserve(c)
  /\ challenges' = [challenges EXCEPT ![c].attempts = @ + 1]

\* Mutant: the row is patched without being checked again.
CanConsumeBlind(c) == c \in DOMAIN challenges

CanConsume(c) == Usable(c)

consumeVerificationCode(c) == challenges' = [challenges EXCEPT ![c].consumed = TRUE]

\* Mutant: the code a query found is taken to be there still.
CanSpendBlind(code) == TRUE

CanSpend(code) == code \in user.codes

consumeBackupCode(code) == user' = [user EXCEPT !.codes = @ \ {code}]

Goto(r, pc) == request' = [request EXCEPT ![r].pc = pc]
Done(r) == request' = [request EXCEPT ![r] = Idle]

-----------------------------------------------------------------------------
(***************************************************************************)
(* signIn, from the query that returns the user and the account.           *)
(***************************************************************************)
signIn(r) ==
  /\ request[r] = Idle
  /\ \E d \in DOMAIN devices \cup {None} :
       request' = [request EXCEPT ![r] =
         [Idle EXCEPT !.pc = IF ~user.enabled THEN "open"
                             ELSE IF d = None THEN "challenge" ELSE "device",
                      !.device = d]]
  /\ UNCHANGED <<account, tables, history>>

\* The row is looked up by hash; consumedAt is not read.
LookUpDevice(r) ==
  /\ request[r].pc = "device"
  /\ LET d == request[r].device
     IN  Goto(r, IF devices[d].expired THEN "challenge" ELSE "open")
  /\ UNCHANGED <<account, tables, history>>

createChallenge(r) ==
  /\ request[r].pc = "challenge"
  /\ Cardinality(DOMAIN challenges) < MaxChallenges
  /\ challenges' = Created(challenges, FALSE)
  /\ Done(r)
  /\ UNCHANGED <<account, devices, history>>

(***************************************************************************)
(* twoFactorVerifyTOTP and twoFactorVerifyBackupCode on a challenge.  A    *)
(* guess is the secret the user's authenticator holds, or none.            *)
(***************************************************************************)
ReserveChallenge(r) ==
  /\ request[r] = Idle
  /\ \E c \in DOMAIN challenges, guess \in 0..drawn,
        code \in (1..drawn) \X Slot \cup {NoCode}, trust \in BOOLEAN :
       /\ guess = None \/ code = NoCode
       /\ reserveVerificationAttempt(c)
       /\ request' = [request EXCEPT ![r] =
            [Idle EXCEPT !.pc = "read", !.challenge = c, !.guess = guess,
                         !.code = code, !.trust = trust]]
  /\ UNCHANGED <<account, devices, history>>

ReadFactor(r) ==
  /\ request[r].pc = "read"
  /\ request' = [request EXCEPT ![r].pc = "compare", ![r].user = user]
  /\ UNCHANGED <<account, tables, history>>

\* verifyTwoFactorCode: whether the account has the factor enabled is not asked.
Matches(r) ==
  LET q == request[r]
  IN  \/ q.guess # None /\ q.guess = q.user.secret
      \/ q.code \in q.user.codes

\* Mutant: the backup code is burnt before the challenge is locked.
AfterBurning(q) ==
  CASE q.pc = "compare" /\ q.code # NoCode -> "spend"
    [] q.pc = "consume" -> "open"
    [] OTHER -> "consume"

\* The step that follows one that succeeded: the challenge is locked before
\* a backup code is burnt.
After(q) ==
  CASE q.pc = "compare" -> "consume"
    [] q.pc = "consume" /\ q.code # NoCode -> "spend"
    [] OTHER -> "open"

CompareCode(r) ==
  /\ request[r].pc = "compare"
  /\ IF Matches(r) THEN Goto(r, After(request[r])) ELSE Done(r)
  /\ tried' = [tried EXCEPT ![request[r].challenge] = @ + 1]
  /\ UNCHANGED <<account, tables, opened, used, confirmed, off, revoked>>

ConsumeChallenge(r) ==
  LET q == request[r]
  IN  /\ q.pc = "consume"
      /\ \/ /\ CanConsume(q.challenge)
            /\ consumeVerificationCode(q.challenge)
            /\ Goto(r, After(q))
         \/ /\ ~CanConsume(q.challenge)
            /\ Done(r)
            /\ UNCHANGED challenges
      /\ UNCHANGED <<account, devices, history>>

SpendBackupCode(r) ==
  LET q == request[r]
  IN  /\ q.pc = "spend"
      /\ \/ /\ CanSpend(q.code)
            /\ consumeBackupCode(q.code)
            /\ Goto(r, After(q))
         \/ /\ ~CanSpend(q.code)
            /\ Done(r)
            /\ UNCHANGED user
      /\ UNCHANGED <<drawn, passkey, tables, history>>

\* createSessionAndRefreshToken; a sign-in without a challenge ends here.
OpenSession(r) ==
  LET q == request[r]
  IN  /\ q.pc = "open"
      /\ opened' = [c \in Challenge |-> opened[c] + (IF c = q.challenge THEN 1 ELSE 0)]
      /\ used' = [code \in Code |-> used[code] + (IF code = q.code THEN 1 ELSE 0)]
      /\ IF q.trust THEN Goto(r, "trust") ELSE Done(r)
      /\ UNCHANGED <<account, tables, tried, confirmed, off, revoked>>

createTrustedDevice(r) ==
  /\ request[r].pc = "trust"
  /\ Cardinality(DOMAIN devices) < MaxDevices
  /\ devices' = Created(devices, FALSE)
  /\ Done(r)
  /\ UNCHANGED <<account, challenges, history>>

-----------------------------------------------------------------------------
(***************************************************************************)
(* Account actions.                                                        *)
(***************************************************************************)
\* Enrolment, first or repeated: off until confirmed.
twoFactorEnable ==
  /\ drawn < MaxDrawn
  /\ setTwoFactor(FALSE, Fresh, CodesOf(Fresh))
  /\ drawn' = Fresh
  /\ UNCHANGED <<passkey, tables, request, history>>

\* twoFactorVerifyTOTP with a session token: the users row is read, the code
\* compared, and the row written back.
ReadEnrolment(r) ==
  /\ request[r] = Idle
  /\ user.secret # None
  /\ request' = [request EXCEPT ![r] = [Idle EXCEPT !.pc = "confirm", !.user = user]]
  /\ confirmed' = confirmed \cup {user.secret}
  /\ off' = FALSE
  /\ UNCHANGED <<account, tables, opened, used, tried, revoked>>

\* Mutant: the flag is set on whatever the row holds now.
ConfirmFlagOnly(r) ==
  /\ request[r].pc = "confirm"
  /\ setTwoFactor(TRUE, user.secret, user.codes)
  /\ Done(r)
  /\ UNCHANGED <<drawn, passkey, tables, history>>

ConfirmEnrolment(r) ==
  /\ request[r].pc = "confirm"
  /\ setTwoFactor(TRUE, request[r].user.secret, request[r].user.codes)
  /\ Done(r)
  /\ UNCHANGED <<drawn, passkey, tables, history>>

\* twoFactorDisable, two mutations.
twoFactorDisable(r) ==
  /\ request[r] = Idle
  /\ setTwoFactor(FALSE, None, {})
  /\ Goto(r, "revoke")
  /\ off' = TRUE
  /\ UNCHANGED <<drawn, passkey, tables, opened, used, tried, confirmed, revoked>>

RevokeDevices(r) ==
  /\ request[r].pc = "revoke"
  /\ devices' = [d \in DOMAIN devices |-> [devices[d] EXCEPT !.consumed = TRUE]]
  /\ revoked' = DOMAIN devices
  /\ Done(r)
  /\ UNCHANGED <<account, challenges, opened, used, tried, confirmed, off>>

\* twoFactorGenerateBackupCodes reads the row and writes all of it back.
ReadForCodes(r) ==
  /\ request[r] = Idle
  /\ user.enabled /\ user.secret # None
  /\ request' = [request EXCEPT ![r] = [Idle EXCEPT !.pc = "generate", !.user = user]]
  /\ UNCHANGED <<account, tables, history>>

GenerateCodes(r) ==
  LET read == request[r].user
  IN  /\ request[r].pc = "generate"
      /\ drawn < MaxDrawn
      /\ setTwoFactor(read.enabled, read.secret, CodesOf(Fresh))
      /\ drawn' = Fresh
      /\ Done(r)
      /\ UNCHANGED <<passkey, tables, history>>

\* A ceremony without user verification, one mutation.  A ceremony that
\* verifies the user, or an account without the factor, opens a session at once.
verifyPasskeyAuthentication ==
  /\ passkey
  /\ user.enabled
  /\ Cardinality(DOMAIN challenges) < MaxChallenges
  /\ challenges' = Created(challenges, TRUE)
  /\ UNCHANGED <<account, devices, request, history>>

\* Mutant: pending challenges are left.
ChallengesKept == challenges

WithoutPasskey ==
  [c \in DOMAIN challenges |->
     [challenges[c] EXCEPT !.consumed = @ \/ challenges[c].passkey]]

\* Revoked by the user or by a counter regression: its sessions and its pending
\* challenges end with it.
revokePasskey ==
  /\ passkey
  /\ passkey' = FALSE
  /\ challenges' = WithoutPasskey
  /\ UNCHANGED <<user, drawn, devices, request, opened, used, tried, confirmed, off, revoked>>

\* A challenge or a device reaches its expiresAt.
Expire ==
  /\ \/ /\ \E c \in DOMAIN challenges : challenges' = [challenges EXCEPT ![c].expired = TRUE]
        /\ UNCHANGED devices
     \/ /\ \E d \in DOMAIN devices : devices' = [devices EXCEPT ![d].expired = TRUE]
        /\ UNCHANGED challenges
  /\ UNCHANGED <<account, request, history>>

-----------------------------------------------------------------------------
Init ==
  /\ user = NoFactor
  /\ drawn = 0
  /\ challenges = [c \in {} |-> NewRow(FALSE)]
  /\ devices = [d \in {} |-> NewRow(FALSE)]
  /\ request = [r \in Request |-> Idle]
  /\ opened = [c \in Challenge |-> 0]
  /\ used = [code \in Code |-> 0]
  /\ tried = [c \in Challenge |-> 0]
  /\ passkey = TRUE
  /\ confirmed = {}
  /\ off = TRUE
  /\ revoked = {}

SignInStep(r) ==
  \/ signIn(r) \/ LookUpDevice(r) \/ createChallenge(r)
  \/ ReserveChallenge(r) \/ ReadFactor(r) \/ CompareCode(r)
  \/ ConsumeChallenge(r) \/ SpendBackupCode(r)
  \/ OpenSession(r) \/ createTrustedDevice(r)

AccountStep(r) ==
  \/ ReadEnrolment(r) \/ ConfirmEnrolment(r)
  \/ twoFactorDisable(r) \/ RevokeDevices(r)
  \/ ReadForCodes(r) \/ GenerateCodes(r)

Next ==
  \/ \E r \in Request : SignInStep(r) \/ AccountStep(r)
  \/ twoFactorEnable
  \/ verifyPasskeyAuthentication \/ revokePasskey
  \/ Expire

Spec == Init /\ [][Next]_vars

\* An enrolled account that only signs in.
InitEnrolled ==
  /\ drawn = 1
  /\ user = [enabled |-> TRUE, secret |-> 1, codes |-> CodesOf(1)]
  /\ passkey = TRUE
  /\ confirmed = {1}
  /\ challenges = [c \in {} |-> NewRow(FALSE)]
  /\ devices = [d \in {} |-> NewRow(FALSE)]
  /\ request = [r \in Request |-> Idle]
  /\ opened = [c \in Challenge |-> 0]
  /\ used = [code \in Code |-> 0]
  /\ tried = [c \in Challenge |-> 0]
  /\ off = FALSE
  /\ revoked = {}

SignInNext ==
  \/ \E r \in Request : SignInStep(r)
  \/ verifyPasskeyAuthentication \/ revokePasskey
  \/ Expire
SignInSpec == InitEnrolled /\ [][SignInNext]_vars

-----------------------------------------------------------------------------
CodeRow == [consumed : BOOLEAN, expired : BOOLEAN, attempts : Nat, passkey : BOOLEAN]
Pc == {"idle", "device", "challenge", "read", "compare", "consume", "spend", "open",
       "trust", "confirm", "revoke", "generate"}

TypeOK ==
  /\ user \in UserRow
  /\ drawn \in Draw
  /\ challenges \in [DOMAIN challenges -> CodeRow]
  /\ DOMAIN challenges \subseteq Challenge
  /\ devices \in [DOMAIN devices -> CodeRow]
  /\ DOMAIN devices \subseteq Device
  /\ request \in [Request ->
       [pc : Pc, challenge : {None} \cup Challenge, device : {None} \cup Device,
        guess : Draw, code : Code \cup {NoCode}, trust : BOOLEAN, user : UserRow]]
  /\ opened \in [Challenge -> Nat]
  /\ used \in [Code -> Nat]
  /\ tried \in [Challenge -> Nat]
  /\ passkey \in BOOLEAN
  /\ confirmed \subseteq Draw
  /\ off \in BOOLEAN
  /\ revoked \subseteq Device

(***************************************************************************)
(* A challenge is single-use: however many verifications of it run at      *)
(* once, at most one opens a session (two-factor.mdx, "Signing in").       *)
(***************************************************************************)
ChallengeSingleUse == \A c \in Challenge : opened[c] <= 1

(***************************************************************************)
(* No more than MaxAttempts codes are ever compared for one challenge.     *)
(***************************************************************************)
AttemptsBounded == \A c \in Challenge : tried[c] <= MaxAttempts

(***************************************************************************)
(* The factor is never required with a secret that the user has not        *)
(* confirmed: nobody is locked out by an enrolment that was abandoned or   *)
(* overtaken (two-factor.mdx, "Enabling 2FA").                             *)
(***************************************************************************)
EnabledConfirmed == user.enabled => user.secret \in confirmed

(***************************************************************************)
(* A backup code opens one session (two-factor.mdx: "one-time recovery     *)
(* codes").  Checked while the account only signs in; the code breaks it   *)
(* when an account action writes back codes it read earlier.               *)
(***************************************************************************)
BackupCodeOnce == \A code \in Code : used[code] <= 1

(***************************************************************************)
(* A backup code is never burnt for nothing: the verification that removed *)
(* it opens a session (provider.ts:1143, "a concurrent winner cannot leave *)
(* the user without both a session and the code").                         *)
(***************************************************************************)
BurntCodeOpens ==
  \A code \in CodesOf(drawn) \ user.codes :
    \/ used[code] > 0
    \/ \E r \in Request : request[r].pc = "open" /\ request[r].code = code

(***************************************************************************)
(* A challenge that a revoked passkey asked for cannot be locked any more  *)
(* (two-factor.mdx, "Passkeys").                                           *)
(***************************************************************************)
PasskeyChallengesEnd ==
  ~passkey => \A c \in DOMAIN challenges : challenges[c].passkey => challenges[c].consumed

(***************************************************************************)
(* What the documentation and the tests say and the code does not do.      *)
(***************************************************************************)
\* Disabled stays disabled until the user confirms an enrolment.
DisableSticks == off => ~user.enabled

\* A device revoked by twoFactorDisable does not skip the second factor.
RevokedDeviceRefused ==
  [][\A r \in Request :
       request[r].pc = "device" /\ request'[r].pc = "open"
         => request[r].device \notin revoked]_vars

=============================================================================
