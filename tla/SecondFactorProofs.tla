------------------------ MODULE SecondFactorProofs ------------------------
(***************************************************************************)
(* Proofs about SecondFactor.  Every invariant is proved for both          *)
(* specifications, the account that enrols and the enrolled one, from the  *)
(* same step lemma: SignInNext is a part of Next.                          *)
(***************************************************************************)
EXTENDS SecondFactor, FiniteSetTheorems, TLAPS

-----------------------------------------------------------------------------
(***************************************************************************)
(* Types.                                                                  *)
(***************************************************************************)
\* The rows of a table are numbered from 1, so a new row has a new number.
Numbered(table) == \E n \in Nat : DOMAIN table = 1..n

TypeInv ==
  /\ TypeOK
  /\ Numbered(challenges)
  /\ Numbered(devices)

RequestRow ==
  [pc : Pc, challenge : {None} \cup Challenge, device : {None} \cup Device,
   guess : Draw, code : Code \cup {NoCode}, trust : BOOLEAN, user : UserRow]

\* The next step of a verification is one of three.
LEMMA AfterKinds ==
  ASSUME NEW q
  PROVE  After(q) \in {"consume", "spend", "open"}
BY DEF After

\* A new row extends the numbering and leaves every other row as it was,
\* consumed.
LEMMA CreatedRows ==
  ASSUME NEW table, table \in [DOMAIN table -> CodeRow], Numbered(table),
         NEW max \in Nat, Cardinality(DOMAIN table) < max, DOMAIN table \subseteq 1..max,
         NEW byPasskey \in BOOLEAN
  PROVE  LET new == Cardinality(DOMAIN table) + 1
             next == Created(table, byPasskey)
         IN  /\ new \notin DOMAIN table
             /\ DOMAIN next = DOMAIN table \cup {new}
             /\ next \in [DOMAIN next -> CodeRow]
             /\ DOMAIN next \subseteq 1..max
             /\ Numbered(next)
             /\ next[new] = NewRow(byPasskey)
             /\ \A x \in DOMAIN table : next[x] = [table[x] EXCEPT !.consumed = TRUE]
<1>1. PICK n \in Nat : DOMAIN table = 1..n
  BY DEF Numbered
<1>2. Cardinality(DOMAIN table) = n
  <2>1. Cardinality(1..n) = IF 1 > n THEN 0 ELSE n - 1 + 1
    BY FS_Interval, 1 \in Int, n \in Int
  <2> QED BY <1>1, <2>1
<1> DEFINE next == Created(table, byPasskey)
<1>3. DOMAIN next = (1..n) \cup {n + 1} /\ DOMAIN next = 1..(n + 1)
  BY <1>1, <1>2 DEF Created
<1>4. n + 1 \notin DOMAIN table
  BY <1>1
<1>5. /\ next[n + 1] = NewRow(byPasskey)
      /\ \A x \in DOMAIN table : next[x] = [table[x] EXCEPT !.consumed = TRUE]
  BY <1>1, <1>2, <1>4 DEF Created
<1>6. next \in [DOMAIN next -> CodeRow]
  <2>1. NewRow(byPasskey) \in CodeRow
    BY DEF NewRow, CodeRow
  <2>2. \A x \in DOMAIN table : [table[x] EXCEPT !.consumed = TRUE] \in CodeRow
    BY DEF CodeRow
  <2>3. \A x \in DOMAIN next : next[x] \in CodeRow
    BY <1>1, <1>3, <1>5, <2>1, <2>2
  <2>4. next = [x \in DOMAIN next |-> next[x]]
    BY DEF Created
  <2> QED BY <2>3, <2>4
<1>7. Numbered(next)
  BY <1>3 DEF Numbered
<1>8. DOMAIN next \subseteq 1..max
  BY <1>2, <1>3
<1> QED
  BY <1>1, <1>2, <1>3, <1>4, <1>5, <1>6, <1>7, <1>8

LEMMA IdleTyped == Idle \in RequestRow
BY BoundAssumption
DEF Idle, RequestRow, None, NoCode, NoFactor, UserRow, Draw, Pc, Code

LEMMA TypeInit == Init \/ InitEnrolled => TypeInv
<1> SUFFICES ASSUME Init \/ InitEnrolled PROVE TypeInv
  OBVIOUS
<1> USE BoundAssumption
<1>2. Numbered(challenges) /\ Numbered(devices)
  <2>1. DOMAIN challenges = 1..0 /\ DOMAIN devices = 1..0
    BY DEF Init, InitEnrolled
  <2> QED BY <2>1 DEF Numbered
<1>3. challenges \in [DOMAIN challenges -> CodeRow] /\ devices \in [DOMAIN devices -> CodeRow]
  BY DEF Init, InitEnrolled
<1>4. user \in UserRow
  <2>1. CodesOf(1) \subseteq Code
    BY DEF CodesOf, Code
  <2>2. NoFactor \in UserRow
    BY DEF NoFactor, UserRow, Draw, None
  <2>3. [enabled |-> TRUE, secret |-> 1, codes |-> CodesOf(1)] \in UserRow
    BY <2>1 DEF UserRow, Draw
  <2> QED BY <2>2, <2>3 DEF Init, InitEnrolled
<1>5. request \in [Request -> RequestRow]
  BY IdleTyped DEF Init, InitEnrolled
<1>6. /\ opened \in [Challenge -> Nat] /\ used \in [Code -> Nat]
      /\ tried \in [Challenge -> Nat]
  BY DEF Init, InitEnrolled
<1>7. /\ drawn \in Draw
      /\ confirmed \subseteq Draw /\ revoked \subseteq Device
      /\ DOMAIN challenges \subseteq Challenge /\ DOMAIN devices \subseteq Device
  BY DEF Init, InitEnrolled, Draw
<1>8. passkey \in BOOLEAN /\ off \in BOOLEAN
  BY DEF Init, InitEnrolled
<1> QED
  BY <1>2, <1>3, <1>4, <1>5, <1>6, <1>7, <1>8 DEF TypeInv, TypeOK, RequestRow

\* Every action but the expiry moves one request at most; its row stays typed.
LEMMA RequestTyped ==
  ASSUME TypeInv, NEW r \in Request
  PROVE  /\ request[r] \in RequestRow
         /\ \A pc \in Pc : Goto(r, pc) => request' \in [Request -> RequestRow]
         /\ Done(r) => request' \in [Request -> RequestRow]
<1>1. request \in [Request -> RequestRow]
  BY DEF TypeInv, TypeOK, RequestRow
<1>2. Idle \in RequestRow
  BY IdleTyped
<1>3. request[r] \in RequestRow
  BY <1>1
<1>4. ASSUME NEW pc \in Pc, Goto(r, pc) PROVE request' \in [Request -> RequestRow]
  <2>1. [request[r] EXCEPT !.pc = pc] \in RequestRow
    BY <1>3 DEF RequestRow
  <2> QED BY <1>1, <1>4, <2>1 DEF Goto
<1>5. ASSUME Done(r) PROVE request' \in [Request -> RequestRow]
  BY <1>1, <1>2, <1>5 DEF Done
<1> QED
  BY <1>3, <1>4, <1>5

\* What a reservation does to the two variables it changes.
LEMMA Reserving ==
  ASSUME NEW r \in Request, ReserveChallenge(r)
  PROVE  \E c \in DOMAIN challenges, guess \in 0..drawn,
            code \in (1..drawn) \X Slot \cup {NoCode}, trust \in BOOLEAN :
           /\ CanReserve(c)
           /\ challenges' = [challenges EXCEPT ![c].attempts = @ + 1]
           /\ request' = [request EXCEPT ![r] =
                [Idle EXCEPT !.pc = "read", !.challenge = c, !.guess = guess,
                             !.code = code, !.trust = trust]]
<1>1. PICK c \in DOMAIN challenges, guess \in 0..drawn,
            code \in (1..drawn) \X Slot \cup {NoCode}, trust \in BOOLEAN :
        /\ guess = None \/ code = NoCode
        /\ reserveVerificationAttempt(c)
        /\ request' = [request EXCEPT ![r] =
             [Idle EXCEPT !.pc = "read", !.challenge = c, !.guess = guess,
                          !.code = code, !.trust = trust]]
  BY Zenon DEF ReserveChallenge
<1>2. CanReserve(c) /\ challenges' = [challenges EXCEPT ![c].attempts = @ + 1]
  BY <1>1 DEF reserveVerificationAttempt
<1> QED
  BY <1>1, <1>2, Zenon

LEMMA ReservedRow ==
  ASSUME NEW r \in Request, ReserveChallenge(r)
  PROVE  \E row : request' = [request EXCEPT ![r] = row] /\ row.pc = "read"
<1>1. PICK c \in DOMAIN challenges, guess \in 0..drawn,
            code \in (1..drawn) \X Slot \cup {NoCode}, trust \in BOOLEAN :
        /\ CanReserve(c)
        /\ challenges' = [challenges EXCEPT ![c].attempts = @ + 1]
        /\ request' = [request EXCEPT ![r] =
             [Idle EXCEPT !.pc = "read", !.challenge = c, !.guess = guess,
                          !.code = code, !.trust = trust]]
  BY Reserving
<1>2. [Idle EXCEPT !.pc = "read", !.challenge = c, !.guess = guess,
                   !.code = code, !.trust = trust].pc = "read"
  BY DEF Idle
<1> QED
  BY <1>1, <1>2

LEMMA TypeSignIn ==
  ASSUME TypeInv, NEW r \in Request, SignInStep(r)
  PROVE  TypeInv'
<1> USE BoundAssumption
<1> USE DEF TypeInv, TypeOK
<1>1. /\ request \in [Request -> RequestRow]
      /\ request[r] \in RequestRow
      /\ \A pc \in Pc : Goto(r, pc) => request' \in [Request -> RequestRow]
      /\ Done(r) => request' \in [Request -> RequestRow]
  BY RequestTyped DEF RequestRow
<1>2. ASSUME request' \in [Request -> RequestRow], UNCHANGED <<account, tables, history>>
      PROVE  TypeInv'
  BY <1>2 DEF account, tables, history, RequestRow, Numbered
<1>3. CASE signIn(r)
  <2>1. PICK d \in DOMAIN devices \cup {None}, pc \in {"open", "challenge", "device"} :
          request' = [request EXCEPT ![r] = [Idle EXCEPT !.pc = pc, !.device = d]]
    BY <1>3 DEF signIn
  <2>2. [Idle EXCEPT !.pc = pc, !.device = d] \in RequestRow
    BY IdleTyped, d \in {None} \cup Device, pc \in Pc DEF RequestRow, Pc
  <2>3. request' \in [Request -> RequestRow]
    BY <1>1, <2>1, <2>2
  <2> QED BY <1>2, <1>3, <2>3 DEF signIn
<1>4. CASE LookUpDevice(r)
  <2>1. request' \in [Request -> RequestRow]
    BY <1>1, <1>4 DEF LookUpDevice, Pc
  <2> QED BY <1>2, <1>4, <2>1 DEF LookUpDevice
<1>5. CASE createChallenge(r)
  <2>1. request' \in [Request -> RequestRow]
    BY <1>1, <1>5 DEF createChallenge
  <2>2. /\ challenges' \in [DOMAIN challenges' -> CodeRow]
        /\ DOMAIN challenges' \subseteq Challenge
        /\ Numbered(challenges)'
    BY <1>5, CreatedRows DEF createChallenge, Challenge, Numbered
  <2> QED BY <1>5, <2>1, <2>2 DEF createChallenge, account, history, RequestRow, Numbered
<1>6. CASE ReserveChallenge(r)
  <2>1. PICK c \in DOMAIN challenges, guess \in 0..drawn,
             code \in (1..drawn) \X Slot \cup {NoCode}, trust \in BOOLEAN :
          /\ CanReserve(c)
          /\ challenges' = [challenges EXCEPT ![c].attempts = @ + 1]
          /\ request' = [request EXCEPT ![r] =
               [Idle EXCEPT !.pc = "read", !.challenge = c, !.guess = guess,
                            !.code = code, !.trust = trust]]
    BY <1>6, Reserving
  <2>2. guess \in Draw /\ code \in Code \cup {NoCode} /\ c \in Challenge
    BY DEF Draw, Code
  <2>3. [Idle EXCEPT !.pc = "read", !.challenge = c, !.guess = guess,
                     !.code = code, !.trust = trust] \in RequestRow
    BY <2>2, IdleTyped, "read" \in Pc DEF RequestRow, Pc
  <2>4. request' \in [Request -> RequestRow]
    BY <1>1, <2>1, <2>3
  <2>5. [challenges[c] EXCEPT !.attempts = @ + 1] \in CodeRow
    BY DEF CodeRow
  <2>6. challenges' = [challenges EXCEPT ![c] = [challenges[c] EXCEPT !.attempts = @ + 1]]
    BY <2>1
  <2>7. /\ challenges' \in [DOMAIN challenges' -> CodeRow]
        /\ DOMAIN challenges' = DOMAIN challenges
    BY <2>5, <2>6
  <2> QED BY <1>6, <2>4, <2>7 DEF ReserveChallenge, account, history, RequestRow, Numbered
<1>7. CASE ReadFactor(r)
  <2>1. [request[r] EXCEPT !.pc = "compare", !.user = user] \in RequestRow
    BY <1>1 DEF RequestRow, Pc
  <2>2. request' = [request EXCEPT ![r] =
                      [request[r] EXCEPT !.pc = "compare", !.user = user]]
    BY <1>1, <1>7 DEF ReadFactor, RequestRow
  <2>3. request' \in [Request -> RequestRow]
    BY <1>1, <2>1, <2>2
  <2> QED BY <1>2, <1>7, <2>3 DEF ReadFactor
<1>8. CASE CompareCode(r)
  <2>1. request' \in [Request -> RequestRow]
    BY <1>1, <1>8, AfterKinds DEF CompareCode, Pc
  <2>2. tried' \in [Challenge -> Nat]
    <3>1. tried' = [tried EXCEPT ![request[r].challenge] = @ + 1]
      BY <1>8 DEF CompareCode
    <3>2. \A c \in Challenge : tried[c] + 1 \in Nat
      OBVIOUS
    <3> QED BY <3>1, <3>2
  <2> QED BY <1>8, <2>1, <2>2 DEF CompareCode, account, tables, RequestRow, Numbered
<1>9. CASE ConsumeChallenge(r)
  <2>1. request' \in [Request -> RequestRow]
    BY <1>1, <1>9, AfterKinds DEF ConsumeChallenge, Pc
  <2>2. /\ challenges' \in [DOMAIN challenges' -> CodeRow]
        /\ DOMAIN challenges' = DOMAIN challenges
    <3>1. CASE UNCHANGED challenges
      BY <3>1
    <3>2. CASE CanConsume(request[r].challenge) /\ consumeVerificationCode(request[r].challenge)
      <4> DEFINE c == request[r].challenge
      <4>1. c \in DOMAIN challenges
        BY <3>2 DEF CanConsume, Usable
      <4>2. [challenges[c] EXCEPT !.consumed = TRUE] \in CodeRow
        BY <4>1, challenges[c] \in CodeRow DEF CodeRow
      <4>3. challenges' = [challenges EXCEPT ![c] = [challenges[c] EXCEPT !.consumed = TRUE]]
        BY <3>2, <4>1 DEF consumeVerificationCode
      <4> QED BY <4>1, <4>2, <4>3
    <3> QED BY <1>9, <3>1, <3>2 DEF ConsumeChallenge
  <2> QED BY <1>9, <2>1, <2>2 DEF ConsumeChallenge, account, history, RequestRow, Numbered
<1>10. CASE SpendBackupCode(r)
  <2>1. request' \in [Request -> RequestRow]
    BY <1>1, <1>10, AfterKinds DEF SpendBackupCode, Pc
  <2>2. user' \in UserRow
    BY <1>10 DEF SpendBackupCode, consumeBackupCode, UserRow
  <2> QED BY <1>10, <2>1, <2>2 DEF SpendBackupCode, tables, history, RequestRow, Numbered
<1>11. CASE OpenSession(r)
  <2>1. request' \in [Request -> RequestRow]
    BY <1>1, <1>11 DEF OpenSession, Pc
  <2>2. opened' \in [Challenge -> Nat]
    BY <1>11 DEF OpenSession
  <2>3. used' \in [Code -> Nat]
    BY <1>11 DEF OpenSession
  <2> QED BY <1>11, <2>1, <2>2, <2>3 DEF OpenSession, account, tables, RequestRow, Numbered
<1>12. CASE createTrustedDevice(r)
  <2>1. request' \in [Request -> RequestRow]
    BY <1>1, <1>12 DEF createTrustedDevice
  <2>2. /\ devices' \in [DOMAIN devices' -> CodeRow]
        /\ DOMAIN devices' \subseteq Device
        /\ Numbered(devices)'
    BY <1>12, CreatedRows DEF createTrustedDevice, Device, Numbered
  <2> QED BY <1>12, <2>1, <2>2 DEF createTrustedDevice, account, history, RequestRow, Numbered
<1> QED
  BY <1>3, <1>4, <1>5, <1>6, <1>7, <1>8, <1>9, <1>10, <1>11, <1>12 DEF SignInStep

LEMMA TypeAccount ==
  ASSUME TypeInv, NEW r \in Request, AccountStep(r)
  PROVE  TypeInv'
<1> USE BoundAssumption
<1> USE DEF TypeInv, TypeOK
<1>1. /\ request \in [Request -> RequestRow]
      /\ request[r] \in RequestRow
      /\ \A pc \in Pc : Goto(r, pc) => request' \in [Request -> RequestRow]
      /\ Done(r) => request' \in [Request -> RequestRow]
  BY RequestTyped DEF RequestRow
<1>2. CASE ReadEnrolment(r)
  <2>1. [Idle EXCEPT !.pc = "confirm", !.user = user] \in RequestRow
    BY IdleTyped DEF RequestRow, Pc
  <2>2. request' \in [Request -> RequestRow]
    BY <1>1, <1>2, <2>1 DEF ReadEnrolment
  <2>3. confirmed' \subseteq Draw
    BY <1>2 DEF ReadEnrolment, UserRow
  <2> QED BY <1>2, <2>2, <2>3 DEF ReadEnrolment, account, tables, RequestRow, Numbered
<1>3. CASE ConfirmEnrolment(r)
  <2>1. request[r].user \in UserRow
    BY <1>1 DEF RequestRow
  <2>2. user' \in UserRow
    BY <1>3, <2>1 DEF ConfirmEnrolment, setTwoFactor, UserRow
  <2>3. request' \in [Request -> RequestRow]
    BY <1>1, <1>3 DEF ConfirmEnrolment
  <2> QED BY <1>3, <2>2, <2>3 DEF ConfirmEnrolment, tables, history, RequestRow, Numbered
<1>4. CASE twoFactorDisable(r)
  <2>1. user' \in UserRow
    BY <1>4 DEF twoFactorDisable, setTwoFactor, UserRow, Draw, None
  <2>2. request' \in [Request -> RequestRow]
    BY <1>1, <1>4 DEF twoFactorDisable, Pc
  <2> QED BY <1>4, <2>1, <2>2 DEF twoFactorDisable, tables, RequestRow, Numbered
<1>5. CASE RevokeDevices(r)
  <2>1. \A d \in DOMAIN devices : [devices[d] EXCEPT !.consumed = TRUE] \in CodeRow
    BY ZenonT(60) DEF CodeRow
  <2>2. /\ devices' \in [DOMAIN devices' -> CodeRow]
        /\ DOMAIN devices' = DOMAIN devices
    BY <1>5, <2>1 DEF RevokeDevices
  <2>3. request' \in [Request -> RequestRow]
    BY <1>1, <1>5 DEF RevokeDevices
  <2> QED BY <1>5, <2>2, <2>3 DEF RevokeDevices, account, RequestRow, Numbered
<1>6. CASE ReadForCodes(r)
  <2>1. [Idle EXCEPT !.pc = "generate", !.user = user] \in RequestRow
    BY IdleTyped DEF RequestRow, Pc
  <2>2. request' \in [Request -> RequestRow]
    BY <1>1, <1>6, <2>1 DEF ReadForCodes
  <2> QED BY <1>6, <2>2 DEF ReadForCodes, account, tables, history, RequestRow, Numbered
<1>7. CASE GenerateCodes(r)
  <2>1. request[r].user \in UserRow
    BY <1>1 DEF RequestRow
  <2>2. CodesOf(Fresh) \subseteq Code /\ Fresh \in Draw
    BY <1>7 DEF GenerateCodes, CodesOf, Fresh, Code, Draw
  <2>3. user' \in UserRow
    BY <1>7, <2>1, <2>2 DEF GenerateCodes, setTwoFactor, UserRow
  <2>4. request' \in [Request -> RequestRow]
    BY <1>1, <1>7 DEF GenerateCodes
  <2> QED BY <1>7, <2>2, <2>3, <2>4 DEF GenerateCodes, tables, history, RequestRow, Numbered
<1> QED
  BY <1>2, <1>3, <1>4, <1>5, <1>6, <1>7 DEF AccountStep

LEMMA TypeOther ==
  ASSUME TypeInv,
         \/ twoFactorEnable \/ verifyPasskeyAuthentication \/ revokePasskey
         \/ Expire \/ UNCHANGED vars
  PROVE  TypeInv'
<1> USE BoundAssumption
<1> USE DEF TypeInv, TypeOK
<1>1. CASE twoFactorEnable
  <2>1. CodesOf(Fresh) \subseteq Code /\ Fresh \in Draw
    BY <1>1 DEF twoFactorEnable, CodesOf, Fresh, Code, Draw
  <2>2. user' \in UserRow
    BY <1>1, <2>1 DEF twoFactorEnable, setTwoFactor, UserRow
  <2> QED BY <1>1, <2>1, <2>2 DEF twoFactorEnable, tables, history, Numbered
<1>2. CASE verifyPasskeyAuthentication
  <2>1. /\ challenges' \in [DOMAIN challenges' -> CodeRow]
        /\ DOMAIN challenges' \subseteq Challenge
        /\ Numbered(challenges)'
    BY <1>2, CreatedRows DEF verifyPasskeyAuthentication, Challenge, Numbered
  <2> QED BY <1>2, <2>1 DEF verifyPasskeyAuthentication, account, history, Numbered
<1>3. CASE revokePasskey
  <2>1. \A c \in DOMAIN challenges :
          [challenges[c] EXCEPT !.consumed = @ \/ challenges[c].passkey] \in CodeRow
    BY DEF CodeRow
  <2>2. /\ challenges' \in [DOMAIN challenges' -> CodeRow]
        /\ DOMAIN challenges' = DOMAIN challenges
    BY <1>3, <2>1 DEF revokePasskey, WithoutPasskey
  <2> QED BY <1>3, <2>2 DEF revokePasskey, Numbered
<1>4. CASE Expire
  <2>1. CASE \E c \in DOMAIN challenges :
               challenges' = [challenges EXCEPT ![c].expired = TRUE] /\ UNCHANGED devices
    <3>1. PICK c \in DOMAIN challenges :
            challenges' = [challenges EXCEPT ![c] = [challenges[c] EXCEPT !.expired = TRUE]]
      BY <2>1
    <3>2. [challenges[c] EXCEPT !.expired = TRUE] \in CodeRow
      BY challenges[c] \in CodeRow DEF CodeRow
    <3>3. /\ challenges' \in [DOMAIN challenges' -> CodeRow]
          /\ DOMAIN challenges' = DOMAIN challenges
      BY <3>1, <3>2
    <3> QED BY <1>4, <2>1, <3>3 DEF Expire, account, history, Numbered
  <2>2. CASE \E d \in DOMAIN devices :
               devices' = [devices EXCEPT ![d].expired = TRUE] /\ UNCHANGED challenges
    <3>1. PICK d \in DOMAIN devices :
            devices' = [devices EXCEPT ![d] = [devices[d] EXCEPT !.expired = TRUE]]
      BY <2>2
    <3>2. [devices[d] EXCEPT !.expired = TRUE] \in CodeRow
      BY devices[d] \in CodeRow DEF CodeRow
    <3>3. /\ devices' \in [DOMAIN devices' -> CodeRow]
          /\ DOMAIN devices' = DOMAIN devices
      BY <3>1, <3>2
    <3> QED BY <1>4, <2>2, <3>3 DEF Expire, account, history, Numbered
  <2> QED BY <1>4, <2>1, <2>2 DEF Expire
<1>5. CASE UNCHANGED vars
  BY <1>5 DEF vars, account, tables, history, Numbered
<1> QED
  BY <1>1, <1>2, <1>3, <1>4, <1>5

LEMMA TypeStep == TypeInv /\ [Next]_vars => TypeInv'
BY TypeSignIn, TypeAccount, TypeOther DEF Next

LEMMA SignInIsNext == [SignInNext]_vars => [Next]_vars
BY DEF SignInNext, Next

\* Every variable keeps its type, for an account that enrols and for one that
\* only signs in.
THEOREM TypeCorrect == (Spec => []TypeOK) /\ (SignInSpec => []TypeOK)
<1>1. Init \/ InitEnrolled => TypeInv
  BY TypeInit
<1>2. TypeInv => TypeOK
  BY DEF TypeInv
<1> QED
  BY <1>1, <1>2, TypeStep, SignInIsNext, PTL DEF Spec, SignInSpec

-----------------------------------------------------------------------------
(***************************************************************************)
(* What a step may do to the challenges and to the requests.               *)
(***************************************************************************)
\* Rows are never dropped nor released, and only a reservation counts.
LEMMA ChallengeRows ==
  ASSUME TypeInv, [Next]_vars, NEW c \in DOMAIN challenges
  PROVE  /\ c \in DOMAIN challenges'
         /\ challenges[c].consumed => challenges'[c].consumed
         /\ challenges'[c].passkey = challenges[c].passkey
         /\ \/ challenges'[c].attempts = challenges[c].attempts
            \/ \E r \in Request : ReserveChallenge(r)
<1>1. challenges \in [DOMAIN challenges -> CodeRow] /\ challenges[c] \in CodeRow
  BY DEF TypeInv, TypeOK
<1>2. CASE UNCHANGED challenges
  BY <1>2
<1>3. CASE \E byPasskey \in BOOLEAN :
             /\ Cardinality(DOMAIN challenges) < MaxChallenges
             /\ challenges' = Created(challenges, byPasskey)
  <2>1. PICK byPasskey \in BOOLEAN :
          /\ Cardinality(DOMAIN challenges) < MaxChallenges
          /\ challenges' = Created(challenges, byPasskey)
    BY <1>3
  <2>2. DOMAIN challenges \subseteq 1..MaxChallenges /\ Numbered(challenges)
    BY DEF TypeInv, TypeOK, Challenge
  <2>3. /\ c \in DOMAIN challenges'
        /\ challenges'[c] = [challenges[c] EXCEPT !.consumed = TRUE]
    BY <1>1, <2>1, <2>2, CreatedRows, BoundAssumption, ZenonT(60)
  <2> QED BY <1>1, <2>3 DEF CodeRow
<1>4. CASE \E r \in Request : ReserveChallenge(r)
  <2>1. PICK r \in Request : ReserveChallenge(r)
    BY <1>4
  <2>2. PICK x \in DOMAIN challenges :
          challenges' = [challenges EXCEPT ![x] = [challenges[x] EXCEPT !.attempts = @ + 1]]
    BY <2>1, Reserving, Zenon
  <2> QED BY <1>1, <1>4, <2>2 DEF CodeRow
<1>5. CASE \E x : challenges' = [challenges EXCEPT ![x] = [challenges[x] EXCEPT !.consumed = TRUE]]
  BY <1>1, <1>5 DEF CodeRow
<1>6. CASE challenges' = WithoutPasskey
  BY <1>1, <1>6 DEF WithoutPasskey, CodeRow
<1>7. CASE \E x \in DOMAIN challenges :
             challenges' = [challenges EXCEPT ![x] = [challenges[x] EXCEPT !.expired = TRUE]]
  BY <1>1, <1>7 DEF CodeRow
<1>8. ASSUME NEW r \in Request, SignInStep(r) \/ AccountStep(r)
      PROVE  \/ UNCHANGED challenges
             \/ ReserveChallenge(r)
             \/ \E byPasskey \in BOOLEAN :
                  /\ Cardinality(DOMAIN challenges) < MaxChallenges
                  /\ challenges' = Created(challenges, byPasskey)
             \/ \E x : challenges' = [challenges EXCEPT ![x] = [challenges[x] EXCEPT !.consumed = TRUE]]
  <2>1. CASE createChallenge(r)
    BY <2>1 DEF createChallenge
  <2>2. CASE ConsumeChallenge(r)
    BY <2>2 DEF ConsumeChallenge, consumeVerificationCode
  <2>3. CASE ~createChallenge(r) /\ ~ConsumeChallenge(r) /\ ~ReserveChallenge(r)
    BY <1>8, <2>3
    DEF SignInStep, AccountStep, signIn, LookUpDevice, ReadFactor, CompareCode, SpendBackupCode,
        OpenSession, createTrustedDevice, ReadEnrolment, ConfirmEnrolment, twoFactorDisable,
        RevokeDevices, ReadForCodes, GenerateCodes, tables
  <2> QED BY <2>1, <2>2, <2>3
<1>9. CASE twoFactorEnable \/ UNCHANGED vars
  BY <1>2, <1>9 DEF twoFactorEnable, vars, tables
<1>10. CASE verifyPasskeyAuthentication \/ revokePasskey
  BY <1>3, <1>6, <1>10 DEF verifyPasskeyAuthentication, revokePasskey
<1>11. CASE Expire
  BY <1>2, <1>7, <1>11 DEF Expire
<1> QED
  BY <1>2, <1>3, <1>4, <1>5, <1>8, <1>9, <1>10, <1>11 DEF Next

(***************************************************************************)
(* A challenge opens one session.  A request that has locked a challenge   *)
(* holds it alone until the session is there.                              *)
(***************************************************************************)
Locked(r) == request[r].pc \in {"spend", "open"} /\ request[r].challenge # None

LockInv ==
  /\ \A r \in Request : request[r].pc = "device" => request[r].challenge = None
  /\ \A r \in Request : Locked(r) =>
       /\ request[r].challenge \in DOMAIN challenges
       /\ challenges[request[r].challenge].consumed
       /\ opened[request[r].challenge] = 0
  /\ \A q, r \in Request :
       Locked(q) /\ Locked(r) /\ request[q].challenge = request[r].challenge => q = r
  /\ \A c \in Challenge :
       opened[c] > 0 => c \in DOMAIN challenges /\ challenges[c].consumed
  /\ ChallengeSingleUse

\* What a step that neither locks a challenge nor opens a session may do.
Unlocking ==
  /\ opened' = opened
  /\ \A s \in Request :
       /\ Locked(s)' => Locked(s) /\ request'[s].challenge = request[s].challenge
       /\ request'[s].pc = "device" => request'[s].challenge = None

LEMMA LockKinds ==
  ASSUME TypeInv, LockInv, [Next]_vars
  PROVE  (\E r \in Request : ConsumeChallenge(r) \/ OpenSession(r)) \/ Unlocking
<1>1. request \in [Request -> RequestRow]
  BY DEF TypeInv, TypeOK, RequestRow
<1>2. \A r \in Request : request[r].pc = "device" => request[r].challenge = None
  BY DEF LockInv
<1>3. ASSUME NEW r \in Request, NEW pc \in Pc, Goto(r, pc), opened' = opened,
             \/ pc \notin {"spend", "open", "device"}
             \/ request[r].pc = "device" /\ pc # "device"
             \/ request[r].pc = "spend" /\ pc = "open"
      PROVE  Unlocking
  BY <1>1, <1>2, <1>3 DEF Unlocking, Goto, Locked
<1>4. ASSUME NEW r \in Request, Done(r), opened' = opened PROVE Unlocking
  BY <1>1, <1>2, <1>4 DEF Unlocking, Done, Locked, Idle
<1>5. ASSUME UNCHANGED <<request, opened>> PROVE Unlocking
  BY <1>2, <1>5 DEF Unlocking, Locked
<1>6. ASSUME NEW r \in Request, SignInStep(r), ~ConsumeChallenge(r), ~OpenSession(r)
      PROVE  Unlocking
  <2>1. CASE signIn(r)
    BY <1>1, <1>2, <2>1 DEF signIn, history, Idle, Unlocking, Locked
  <2>2. CASE LookUpDevice(r)
    BY <1>3, <2>2 DEF LookUpDevice, history, Pc
  <2>3. CASE createChallenge(r) \/ createTrustedDevice(r)
    BY <1>4, <2>3 DEF createChallenge, createTrustedDevice, history
  <2>4. CASE ReserveChallenge(r)
    <3>1. PICK row : request' = [request EXCEPT ![r] = row] /\ row.pc = "read"
      BY <2>4, ReservedRow
    <3>2. opened' = opened
      BY <2>4 DEF ReserveChallenge, history
    <3> QED BY <1>1, <1>2, <3>1, <3>2 DEF Unlocking, Locked
  <2>5. CASE ReadFactor(r)
    BY <1>1, <1>2, <2>5 DEF ReadFactor, history, Unlocking, Locked, RequestRow
  <2>6. CASE CompareCode(r)
    BY <1>3, <1>4, <2>6 DEF CompareCode, After, Pc
  <2>7. CASE SpendBackupCode(r)
    BY <1>3, <1>4, <2>7 DEF SpendBackupCode, After, history, Pc
  <2> QED BY <1>6, <2>1, <2>2, <2>3, <2>4, <2>5, <2>6, <2>7 DEF SignInStep
<1>7. ASSUME NEW r \in Request, AccountStep(r) PROVE Unlocking
  <2>1. CASE ReadEnrolment(r)
    BY <1>1, <1>2, <2>1 DEF ReadEnrolment, Idle, Unlocking, Locked
  <2>2. CASE ReadForCodes(r)
    BY <1>1, <1>2, <2>2 DEF ReadForCodes, history, Idle, Unlocking, Locked
  <2>3. CASE twoFactorDisable(r)
    BY <1>3, <2>3 DEF twoFactorDisable, Pc
  <2>4. CASE ConfirmEnrolment(r) \/ RevokeDevices(r) \/ GenerateCodes(r)
    BY <1>4, <2>4 DEF ConfirmEnrolment, RevokeDevices, GenerateCodes, history
  <2> QED BY <1>7, <2>1, <2>2, <2>3, <2>4 DEF AccountStep
<1>8. CASE twoFactorEnable \/ verifyPasskeyAuthentication \/ revokePasskey \/ Expire
           \/ UNCHANGED vars
  BY <1>5, <1>8
  DEF twoFactorEnable, verifyPasskeyAuthentication, revokePasskey, Expire, vars, history
<1> QED
  BY <1>6, <1>7, <1>8 DEF Next

LEMMA LockStep ==
  ASSUME TypeInv, LockInv, [Next]_vars
  PROVE  LockInv'
<1> USE DEF LockInv, ChallengeSingleUse
<1>1. /\ request \in [Request -> RequestRow]
      /\ opened \in [Challenge -> Nat]
      /\ DOMAIN challenges \subseteq Challenge
      /\ \A r \in Request : request[r] \in RequestRow
  BY DEF TypeInv, TypeOK, RequestRow
<1>2. \A c \in DOMAIN challenges :
        c \in DOMAIN challenges' /\ (challenges[c].consumed => challenges'[c].consumed)
  BY ChallengeRows
<1>3. CASE Unlocking
  BY <1>1, <1>2, <1>3 DEF Unlocking
<1>4. CASE \E r \in Request : ConsumeChallenge(r)
  <2>1. PICK r \in Request : ConsumeChallenge(r)
    BY <1>4
  <2> DEFINE c == request[r].challenge
  <2>2. opened' = opened
    BY <2>1 DEF ConsumeChallenge, history
  <2>3. CASE Done(r)
    BY <1>1, <1>2, <2>2, <2>3 DEF Done, Idle, Locked, None
  <2>4. CASE CanConsume(c) /\ consumeVerificationCode(c) /\ Goto(r, After(request[r]))
    <3>1. /\ c \in DOMAIN challenges /\ ~challenges[c].consumed
          /\ DOMAIN challenges' = DOMAIN challenges
          /\ challenges'[c].consumed
      BY <2>4, challenges \in [DOMAIN challenges -> CodeRow]
      DEF CanConsume, Usable, consumeVerificationCode, TypeInv, TypeOK, CodeRow
    <3>2. opened[c] = 0 /\ \A q \in Request : Locked(q) => request[q].challenge # c
      BY <1>1, <3>1
    <3>3. \A q \in Request :
            /\ q # r => request'[q] = request[q]
            /\ request'[r].challenge = c
            /\ request'[r].pc # "device"
      BY <1>1, <2>4, AfterKinds DEF Goto, RequestRow
    <3>4. \A q \in Request \ {r} : Locked(q)' = Locked(q)
      BY <3>3 DEF Locked
    <3>5. \A q \in Request : Locked(q)' =>
            /\ request'[q].challenge \in DOMAIN challenges'
            /\ challenges'[request'[q].challenge].consumed
            /\ opened'[request'[q].challenge] = 0
      BY <1>2, <2>2, <3>1, <3>2, <3>3, <3>4
    <3>6. \A q, s \in Request :
            Locked(q)' /\ Locked(s)' /\ request'[q].challenge = request'[s].challenge => q = s
      BY <3>2, <3>3, <3>4
    <3> QED BY <1>1, <1>2, <2>2, <3>3, <3>5, <3>6
  <2> QED BY <2>1, <2>3, <2>4 DEF ConsumeChallenge
<1>5. CASE \E r \in Request : OpenSession(r)
  <2>1. PICK r \in Request : OpenSession(r)
    BY <1>5
  <2> DEFINE c == request[r].challenge
  <2>2. /\ UNCHANGED challenges
        /\ request[r].pc = "open"
        /\ opened' = [x \in Challenge |-> opened[x] + (IF x = c THEN 1 ELSE 0)]
    BY <2>1 DEF OpenSession, tables
  <2>3. \A q \in Request :
          /\ q # r => request'[q] = request[q]
          /\ request'[r].pc \in {"idle", "trust"}
    BY <1>1, <2>1 DEF OpenSession, Goto, Done, Idle, RequestRow
  <2>4. /\ ~Locked(r)'
        /\ \A q \in Request \ {r} : Locked(q)' = Locked(q)
    BY <2>3 DEF Locked
  <2>5. CASE c = None
    <3>1. opened' = opened
      BY <1>1, <2>2, <2>5 DEF Challenge, None
    <3> QED BY <2>2, <2>3, <2>4, <3>1
  <2>6. CASE c # None
    <3>1. /\ Locked(r)
          /\ c \in DOMAIN challenges /\ challenges[c].consumed /\ opened[c] = 0
      BY <2>2, <2>6 DEF Locked
    <3>2. \A q \in Request \ {r} : Locked(q) => request[q].challenge # c
      BY <3>1
    <3>3. \A x \in Challenge : opened'[x] = IF x = c THEN 1 ELSE opened[x]
      BY <1>1, <2>2, <3>1
    <3>4. \A q \in Request : Locked(q)' =>
            /\ request'[q].challenge \in DOMAIN challenges'
            /\ challenges'[request'[q].challenge].consumed
            /\ opened'[request'[q].challenge] = 0
      BY <1>1, <2>2, <2>3, <2>4, <3>2, <3>3
    <3> QED BY <1>1, <2>2, <2>3, <2>4, <3>1, <3>3, <3>4
  <2> QED BY <2>5, <2>6
<1> QED
  BY <1>3, <1>4, <1>5, LockKinds

\* However many verifications of a challenge run at once, in whatever order
\* their transactions commit, at most one of them opens a session.
THEOREM OneSessionPerChallenge ==
  (Spec => []ChallengeSingleUse) /\ (SignInSpec => []ChallengeSingleUse)
<1>1. Init \/ InitEnrolled => TypeInv /\ LockInv
  <2>1. Init \/ InitEnrolled => LockInv
    BY DEF Init, InitEnrolled, LockInv, ChallengeSingleUse, Locked, Idle, None
  <2> QED BY <2>1, TypeInit
<1>2. (TypeInv /\ LockInv) /\ [Next]_vars => (TypeInv /\ LockInv)'
  BY TypeStep, LockStep
<1>3. TypeInv /\ LockInv => ChallengeSingleUse
  BY DEF LockInv
<1> QED
  BY <1>1, <1>2, <1>3, SignInIsNext, PTL DEF Spec, SignInSpec

-----------------------------------------------------------------------------
(***************************************************************************)
(* Enabled means confirmed.  An action that will set the flag holds, in    *)
(* the row it read, a secret that was confirmed before; secrets are never  *)
(* unconfirmed, so it does not matter what happened to the row since.      *)
(***************************************************************************)
ConfirmInv ==
  /\ EnabledConfirmed
  /\ \A r \in Request :
       request[r].pc \in {"confirm", "generate"} => request[r].user.secret \in confirmed

LEMMA ConfirmSignIn ==
  ASSUME TypeInv, ConfirmInv, NEW r \in Request, SignInStep(r)
  PROVE  ConfirmInv'
<1> USE DEF ConfirmInv, EnabledConfirmed
<1>1. request \in [Request -> RequestRow] /\ user \in UserRow
  BY DEF TypeInv, TypeOK, RequestRow
<1>2. ASSUME NEW pc, pc \notin {"confirm", "generate"}, Goto(r, pc) \/ Done(r),
             UNCHANGED <<user, confirmed>>
      PROVE  ConfirmInv'
  BY <1>1, <1>2 DEF Goto, Done, Idle, RequestRow
<1>3. CASE signIn(r)
  BY <1>1, <1>3 DEF signIn, account, history, Idle
<1>4. CASE LookUpDevice(r)
  BY <1>2, <1>4 DEF LookUpDevice, account, history
<1>5. CASE createChallenge(r)
  BY <1>2, <1>5 DEF createChallenge, account, history
<1>6. CASE ReserveChallenge(r)
  <2>1. PICK row : request' = [request EXCEPT ![r] = row] /\ row.pc = "read"
    BY <1>6, ReservedRow
  <2>2. UNCHANGED <<user, confirmed>>
    BY <1>6 DEF ReserveChallenge, account, history
  <2> QED BY <1>1, <2>1, <2>2
<1>7. CASE ReadFactor(r)
  BY <1>1, <1>7 DEF ReadFactor, account, history, RequestRow
<1>8. CASE CompareCode(r)
  BY <1>2, <1>8, AfterKinds DEF CompareCode, account
<1>9. CASE ConsumeChallenge(r)
  BY <1>2, <1>9, AfterKinds DEF ConsumeChallenge, account, history
<1>10. CASE SpendBackupCode(r)
  <2>1. user'.enabled = user.enabled /\ user'.secret = user.secret
    BY <1>1, <1>10 DEF SpendBackupCode, consumeBackupCode, UserRow
  <2>2. UNCHANGED confirmed
    BY <1>10 DEF SpendBackupCode, history
  <2>3. Goto(r, After(request[r])) \/ Done(r)
    BY <1>10 DEF SpendBackupCode
  <2> QED BY <1>1, <2>1, <2>2, <2>3, AfterKinds DEF Goto, Done, Idle, RequestRow
<1>11. CASE OpenSession(r)
  BY <1>2, <1>11 DEF OpenSession, account
<1>12. CASE createTrustedDevice(r)
  BY <1>2, <1>12 DEF createTrustedDevice, account, history
<1> QED
  BY <1>3, <1>4, <1>5, <1>6, <1>7, <1>8, <1>9, <1>10, <1>11, <1>12 DEF SignInStep

LEMMA ConfirmAccount ==
  ASSUME TypeInv, ConfirmInv, NEW r \in Request, AccountStep(r)
  PROVE  ConfirmInv'
<1> USE DEF ConfirmInv, EnabledConfirmed
<1>1. request \in [Request -> RequestRow] /\ user \in UserRow
  BY DEF TypeInv, TypeOK, RequestRow
<1>2. CASE ReadEnrolment(r)
  BY <1>1, <1>2 DEF ReadEnrolment, account, Idle
<1>3. CASE ConfirmEnrolment(r)
  BY <1>1, <1>3 DEF ConfirmEnrolment, setTwoFactor, history, Done, Idle
<1>4. CASE twoFactorDisable(r)
  BY <1>1, <1>4 DEF twoFactorDisable, setTwoFactor, Goto, RequestRow
<1>5. CASE RevokeDevices(r)
  BY <1>1, <1>5 DEF RevokeDevices, account, Done, Idle
<1>6. CASE ReadForCodes(r)
  BY <1>1, <1>6 DEF ReadForCodes, account, history, Idle
<1>7. CASE GenerateCodes(r)
  BY <1>1, <1>7 DEF GenerateCodes, setTwoFactor, history, Done, Idle
<1> QED
  BY <1>2, <1>3, <1>4, <1>5, <1>6, <1>7 DEF AccountStep

LEMMA ConfirmStep ==
  ASSUME TypeInv, ConfirmInv, [Next]_vars
  PROVE  ConfirmInv'
<1> USE DEF ConfirmInv, EnabledConfirmed
<1>1. CASE twoFactorEnable
  BY <1>1 DEF twoFactorEnable, setTwoFactor, history
<1>2. CASE verifyPasskeyAuthentication \/ revokePasskey \/ Expire \/ UNCHANGED vars
  BY <1>2 DEF verifyPasskeyAuthentication, revokePasskey, Expire, vars, account, history
<1> QED
  BY <1>1, <1>2, ConfirmSignIn, ConfirmAccount DEF Next

\* The factor is never required with a secret the user did not confirm, whatever
\* enrolments, confirmations and disablings overlap.
THEOREM NeverLockedOut ==
  (Spec => []EnabledConfirmed) /\ (SignInSpec => []EnabledConfirmed)
<1>1. Init \/ InitEnrolled => TypeInv /\ ConfirmInv
  <2>1. Init \/ InitEnrolled => ConfirmInv
    BY DEF Init, InitEnrolled, ConfirmInv, EnabledConfirmed, Idle, NoFactor
  <2> QED BY <2>1, TypeInit
<1>2. (TypeInv /\ ConfirmInv) /\ [Next]_vars => (TypeInv /\ ConfirmInv)'
  BY TypeStep, ConfirmStep
<1>3. TypeInv /\ ConfirmInv => EnabledConfirmed
  BY DEF ConfirmInv
<1> QED
  BY <1>1, <1>2, <1>3, SignInIsNext, PTL DEF Spec, SignInSpec

-----------------------------------------------------------------------------
(***************************************************************************)
(* A revoked passkey has no challenge left to lock: a new challenge of its *)
(* would need the passkey, and consumed challenges stay consumed.          *)
(***************************************************************************)
LEMMA PasskeyStep ==
  ASSUME TypeInv, PasskeyChallengesEnd, [Next]_vars
  PROVE  PasskeyChallengesEnd'
<1> SUFFICES ASSUME ~passkey', NEW c \in DOMAIN challenges', challenges'[c].passkey
             PROVE  challenges'[c].consumed
  BY DEF PasskeyChallengesEnd
<1>1. CASE c \in DOMAIN challenges /\ ~passkey
  BY <1>1, ChallengeRows DEF PasskeyChallengesEnd
<1>2. CASE revokePasskey
  <2>1. c \in DOMAIN challenges /\ challenges[c] \in CodeRow
    BY <1>2 DEF revokePasskey, WithoutPasskey, TypeInv, TypeOK
  <2> QED BY <1>2, <2>1 DEF revokePasskey, WithoutPasskey, CodeRow
<1>3. CASE \E r \in Request : createChallenge(r)
  <2>1. /\ Cardinality(DOMAIN challenges) < MaxChallenges
        /\ challenges' = Created(challenges, FALSE)
        /\ passkey' = passkey
    BY <1>3 DEF createChallenge, account
  <2>2. /\ challenges \in [DOMAIN challenges -> CodeRow]
        /\ DOMAIN challenges \subseteq 1..MaxChallenges /\ Numbered(challenges)
    BY DEF TypeInv, TypeOK, Challenge
  <2> DEFINE new == Cardinality(DOMAIN challenges) + 1
  <2>3. /\ DOMAIN challenges' = DOMAIN challenges \cup {new}
        /\ challenges'[new] = NewRow(FALSE)
    BY <2>1, <2>2, CreatedRows, BoundAssumption, ZenonT(60)
  <2>4. ~challenges'[new].passkey
    BY <2>3 DEF NewRow
  <2> QED BY <1>1, <2>1, <2>3, <2>4
<1>4. CASE /\ ~revokePasskey /\ ~(\E r \in Request : createChallenge(r))
  <2>1. passkey' = passkey
    BY <1>4
    DEF Next, SignInStep, AccountStep, signIn, LookUpDevice, ReserveChallenge, ReadFactor,
        CompareCode, ConsumeChallenge, SpendBackupCode, OpenSession, createTrustedDevice,
        ReadEnrolment, ConfirmEnrolment, twoFactorDisable, RevokeDevices, ReadForCodes,
        GenerateCodes, twoFactorEnable, verifyPasskeyAuthentication, Expire, vars, account
  <2>2. DOMAIN challenges' = DOMAIN challenges
    BY <1>4, <2>1
    DEF Next, SignInStep, AccountStep, signIn, LookUpDevice, ReserveChallenge, ReadFactor,
        CompareCode, ConsumeChallenge, SpendBackupCode, OpenSession, createTrustedDevice,
        ReadEnrolment, ConfirmEnrolment, twoFactorDisable, RevokeDevices, ReadForCodes,
        GenerateCodes, twoFactorEnable, verifyPasskeyAuthentication, Expire, vars, tables,
        reserveVerificationAttempt, consumeVerificationCode
  <2> QED BY <1>1, <2>1, <2>2
<1> QED
  BY <1>2, <1>3, <1>4

\* Once a passkey is revoked, no challenge it asked for can be locked.
THEOREM PasskeyEnds ==
  (Spec => []PasskeyChallengesEnd) /\ (SignInSpec => []PasskeyChallengesEnd)
<1>1. Init \/ InitEnrolled => TypeInv /\ PasskeyChallengesEnd
  BY TypeInit DEF Init, InitEnrolled, PasskeyChallengesEnd
<1>2. (TypeInv /\ PasskeyChallengesEnd) /\ [Next]_vars
        => (TypeInv /\ PasskeyChallengesEnd)'
  BY TypeStep, PasskeyStep
<1> QED
  BY <1>1, <1>2, SignInIsNext, PTL DEF Spec, SignInSpec

-----------------------------------------------------------------------------
(***************************************************************************)
(* Attempts.  A code is compared only by a request that reserved an        *)
(* attempt, so the codes compared and the requests about to compare one    *)
(* are together no more than the attempts of the row.                      *)
(***************************************************************************)
InFlight(c) ==
  {r \in Request : request[r].pc \in {"read", "compare"} /\ request[r].challenge = c}

AttemptInv ==
  /\ \A c \in DOMAIN challenges :
       /\ tried[c] + Cardinality(InFlight(c)) <= challenges[c].attempts
       /\ challenges[c].attempts <= MaxAttempts
  /\ \A c \in Challenge \ DOMAIN challenges : tried[c] = 0 /\ InFlight(c) = {}

LEMMA InFlightFinite ==
  ASSUME NEW c
  PROVE  IsFiniteSet(InFlight(c)) /\ Cardinality(InFlight(c)) \in Nat
BY RequestAssumption, FS_Subset, FS_CardinalityType DEF InFlight

\* A challenge enters the table with no attempt made.
LEMMA NewChallenges ==
  ASSUME TypeInv, [Next]_vars, NEW c \in DOMAIN challenges' \ DOMAIN challenges
  PROVE  challenges'[c].attempts = 0
<1>1. CASE \E byPasskey \in BOOLEAN :
             /\ Cardinality(DOMAIN challenges) < MaxChallenges
             /\ challenges' = Created(challenges, byPasskey)
  <2>1. PICK byPasskey \in BOOLEAN :
          /\ Cardinality(DOMAIN challenges) < MaxChallenges
          /\ challenges' = Created(challenges, byPasskey)
    BY <1>1
  <2> DEFINE new == Cardinality(DOMAIN challenges) + 1
  <2>2. /\ challenges \in [DOMAIN challenges -> CodeRow]
        /\ DOMAIN challenges \subseteq 1..MaxChallenges /\ Numbered(challenges)
    BY DEF TypeInv, TypeOK, Challenge
  <2>3. /\ DOMAIN challenges' = DOMAIN challenges \cup {new}
        /\ challenges'[new] = NewRow(byPasskey)
    BY <2>1, <2>2, CreatedRows, BoundAssumption, ZenonT(60)
  <2> QED BY <2>3 DEF NewRow
<1>2. CASE /\ ~(\E r \in Request : createChallenge(r)) /\ ~verifyPasskeyAuthentication
  <2>1. DOMAIN challenges' = DOMAIN challenges
    BY <1>2
    DEF Next, SignInStep, AccountStep, signIn, LookUpDevice, ReserveChallenge, ReadFactor,
        CompareCode, ConsumeChallenge, SpendBackupCode, OpenSession, createTrustedDevice,
        ReadEnrolment, ConfirmEnrolment, twoFactorDisable, RevokeDevices, ReadForCodes,
        GenerateCodes, twoFactorEnable, revokePasskey, WithoutPasskey, Expire, vars, tables,
        reserveVerificationAttempt, consumeVerificationCode
  <2> QED BY <2>1
<1>3. CASE (\E r \in Request : createChallenge(r)) \/ verifyPasskeyAuthentication
  BY <1>1, <1>3 DEF createChallenge, verifyPasskeyAuthentication
<1> QED
  BY <1>2, <1>3

\* Only a reservation puts a request in flight, only a comparison takes it out.
LEMMA AttemptKinds ==
  ASSUME TypeInv, [Next]_vars
  PROVE  \/ \E r \in Request : ReserveChallenge(r) \/ CompareCode(r)
         \/ tried' = tried /\ \A c : InFlight(c)' = InFlight(c)
<1> DEFINE Same == tried' = tried /\ \A c : InFlight(c)' = InFlight(c)
<1>1. request \in [Request -> RequestRow]
  BY DEF TypeInv, TypeOK, RequestRow
<1>2. ASSUME tried' = tried, NEW r \in Request,
             \A q \in Request \ {r} : request'[q] = request[q],
             \/ /\ request[r].pc \notin {"read", "compare"}
                /\ request'[r].pc \notin {"read", "compare"}
             \/ /\ request[r].pc = "read" /\ request'[r].pc = "compare"
                /\ request'[r].challenge = request[r].challenge
      PROVE  Same
  BY <1>2 DEF InFlight
<1>3. ASSUME tried' = tried, NEW r \in Request, NEW pc \in Pc \ {"read", "compare"},
             Goto(r, pc) \/ Done(r), request[r].pc \notin {"read", "compare"}
      PROVE  Same
  <2>1. \A q \in Request \ {r} : request'[q] = request[q]
    BY <1>1, <1>3 DEF Goto, Done
  <2>2. request'[r].pc \notin {"read", "compare"}
    BY <1>1, <1>3 DEF Goto, Done, Idle, RequestRow
  <2> QED BY <1>2, <1>3, <2>1, <2>2
<1>4. ASSUME UNCHANGED <<request, tried>> PROVE Same
  BY <1>4 DEF InFlight
<1>5. ASSUME NEW r \in Request, SignInStep(r), ~ReserveChallenge(r), ~CompareCode(r)
      PROVE  Same
  <2>1. CASE signIn(r)
    <3>1. \A q \in Request \ {r} : request'[q] = request[q]
      BY <1>1, <2>1 DEF signIn
    <3>2. /\ request[r].pc \notin {"read", "compare"}
          /\ request'[r].pc \notin {"read", "compare"}
      BY <1>1, <2>1 DEF signIn, Idle
    <3>3. tried' = tried
      BY <2>1 DEF signIn, history
    <3> QED BY <1>2, <3>1, <3>2, <3>3
  <2>2. CASE LookUpDevice(r)
    BY <1>3, <2>2 DEF LookUpDevice, history, Pc
  <2>3. CASE createChallenge(r)
    BY <1>3, <2>3 DEF createChallenge, history, Pc
  <2>4. CASE ReadFactor(r)
    <3>1. /\ \A q \in Request \ {r} : request'[q] = request[q]
          /\ request[r].pc = "read" /\ request'[r].pc = "compare"
          /\ request'[r].challenge = request[r].challenge
      BY <1>1, <2>4 DEF ReadFactor, RequestRow
    <3>2. tried' = tried
      BY <2>4 DEF ReadFactor, history
    <3> QED BY <1>2, <3>1, <3>2
  <2>5. CASE ConsumeChallenge(r)
    <3>1. After(request[r]) \in Pc \ {"read", "compare"}
      BY AfterKinds DEF Pc
    <3> QED BY <1>3, <2>5, <3>1 DEF ConsumeChallenge, history
  <2>6. CASE SpendBackupCode(r)
    <3>1. After(request[r]) \in Pc \ {"read", "compare"}
      BY AfterKinds DEF Pc
    <3> QED BY <1>3, <2>6, <3>1 DEF SpendBackupCode, history
  <2>7. CASE OpenSession(r)
    BY <1>3, <2>7 DEF OpenSession, Pc
  <2>8. CASE createTrustedDevice(r)
    BY <1>3, <2>8 DEF createTrustedDevice, history, Pc
  <2> QED BY <1>5, <2>1, <2>2, <2>3, <2>4, <2>5, <2>6, <2>7, <2>8 DEF SignInStep
<1>6. ASSUME NEW r \in Request, AccountStep(r) PROVE Same
  <2>1. CASE ReadEnrolment(r)
    <3>1. /\ \A q \in Request \ {r} : request'[q] = request[q]
          /\ request[r].pc \notin {"read", "compare"}
          /\ request'[r].pc \notin {"read", "compare"}
      BY <1>1, <2>1 DEF ReadEnrolment, Idle
    <3> QED BY <1>2, <2>1, <3>1 DEF ReadEnrolment
  <2>2. CASE ReadForCodes(r)
    <3>1. /\ \A q \in Request \ {r} : request'[q] = request[q]
          /\ request[r].pc \notin {"read", "compare"}
          /\ request'[r].pc \notin {"read", "compare"}
      BY <1>1, <2>2 DEF ReadForCodes, Idle
    <3> QED BY <1>2, <2>2, <3>1 DEF ReadForCodes, history
  <2>3. CASE twoFactorDisable(r)
    BY <1>3, <2>3 DEF twoFactorDisable, Idle, Pc
  <2>4. CASE ConfirmEnrolment(r) \/ RevokeDevices(r) \/ GenerateCodes(r)
    BY <1>3, <2>4 DEF ConfirmEnrolment, RevokeDevices, GenerateCodes, history, Pc
  <2> QED BY <1>6, <2>1, <2>2, <2>3, <2>4 DEF AccountStep
<1>7. CASE twoFactorEnable \/ verifyPasskeyAuthentication \/ revokePasskey \/ Expire
           \/ UNCHANGED vars
  BY <1>4, <1>7
  DEF twoFactorEnable, verifyPasskeyAuthentication, revokePasskey, Expire, vars, history
<1> QED
  BY <1>5, <1>6, <1>7 DEF Next

LEMMA AttemptStep ==
  ASSUME TypeInv, AttemptInv, [Next]_vars
  PROVE  AttemptInv'
<1>1. /\ request \in [Request -> RequestRow]
      /\ tried \in [Challenge -> Nat]
      /\ challenges \in [DOMAIN challenges -> CodeRow]
      /\ DOMAIN challenges \subseteq Challenge
      /\ DOMAIN challenges' \subseteq Challenge
      /\ \A c \in DOMAIN challenges : challenges[c].attempts \in Nat
  BY TypeStep DEF TypeInv, TypeOK, RequestRow, CodeRow
<1>2. CASE \E r \in Request : ReserveChallenge(r)
  <2>1. PICK r \in Request : ReserveChallenge(r)
    BY <1>2
  <2>2. PICK c \in DOMAIN challenges, guess \in 0..drawn,
             code \in (1..drawn) \X Slot \cup {NoCode}, trust \in BOOLEAN :
          /\ CanReserve(c)
          /\ challenges' = [challenges EXCEPT ![c].attempts = @ + 1]
          /\ request' = [request EXCEPT ![r] =
               [Idle EXCEPT !.pc = "read", !.challenge = c, !.guess = guess,
                            !.code = code, !.trust = trust]]
    BY <2>1, Reserving
  <2>3. request[r] = Idle /\ tried' = tried
    BY <2>1 DEF ReserveChallenge, history
  <2>4. /\ r \notin InFlight(c)
        /\ InFlight(c)' = InFlight(c) \cup {r}
        /\ \A x : x # c => InFlight(x)' = InFlight(x)
    <3>1. /\ request[r].pc = "idle"
          /\ request'[r].pc = "read" /\ request'[r].challenge = c
          /\ \A q \in Request \ {r} : request'[q] = request[q]
      BY <1>1, <2>2, <2>3 DEF Idle
    <3> QED BY <3>1 DEF InFlight
  <2>5. Cardinality(InFlight(c)') = Cardinality(InFlight(c)) + 1
    BY <2>4, InFlightFinite, FS_AddElement
  <2>6. /\ DOMAIN challenges' = DOMAIN challenges
        /\ challenges'[c].attempts = challenges[c].attempts + 1
        /\ \A x \in DOMAIN challenges \ {c} : challenges'[x] = challenges[x]
    BY <1>1, <2>2 DEF CodeRow
  <2>7. challenges[c].attempts < MaxAttempts
    BY <2>2 DEF CanReserve
  <2>8. \A x \in DOMAIN challenges' :
          /\ tried'[x] + Cardinality(InFlight(x)') <= challenges'[x].attempts
          /\ challenges'[x].attempts <= MaxAttempts
    <3> TAKE x \in DOMAIN challenges'
    <3>1. CASE x = c
      BY <1>1, <2>3, <2>5, <2>6, <2>7, <3>1, InFlightFinite, AttemptsAssumption DEF AttemptInv
    <3>2. CASE x # c
      BY <1>1, <2>3, <2>4, <2>6, <3>2 DEF AttemptInv
    <3> QED BY <3>1, <3>2
  <2> QED BY <1>1, <2>3, <2>4, <2>6, <2>8 DEF AttemptInv
<1>3. CASE \E r \in Request : CompareCode(r)
  <2>1. PICK r \in Request : CompareCode(r)
    BY <1>3
  <2>0. PICK c : c = request[r].challenge
    OBVIOUS
  <2>2. /\ tried' = [tried EXCEPT ![c] = @ + 1]
        /\ UNCHANGED challenges
        /\ request[r].pc = "compare"
    BY <2>0, <2>1 DEF CompareCode, tables
  <2>3. /\ r \in InFlight(c)
        /\ InFlight(c)' = InFlight(c) \ {r}
        /\ \A x : x # c => InFlight(x)' = InFlight(x)
    <3>1. /\ request'[r].pc \notin {"read", "compare"}
          /\ \A q \in Request \ {r} : request'[q] = request[q]
      BY <1>1, <2>1, AfterKinds DEF CompareCode, Goto, Done, Idle, RequestRow
    <3> QED BY <2>0, <2>2, <3>1 DEF InFlight
  <2>4. Cardinality(InFlight(c)') = Cardinality(InFlight(c)) - 1
    BY <2>3, InFlightFinite, FS_RemoveElement
  <2>5. c \in DOMAIN challenges \/ c \notin Challenge
    BY <2>3 DEF AttemptInv
  <2>6. \A x \in DOMAIN challenges :
          tried'[x] + Cardinality(InFlight(x)') <= challenges[x].attempts
    <3> TAKE x \in DOMAIN challenges
    <3>1. CASE x = c
      BY <1>1, <2>2, <2>4, <3>1, InFlightFinite DEF AttemptInv
    <3>2. CASE x # c
      BY <1>1, <2>2, <2>3, <3>2 DEF AttemptInv
    <3> QED BY <3>1, <3>2
  <2>7. \A x \in Challenge \ DOMAIN challenges : tried'[x] = 0 /\ InFlight(x)' = {}
    BY <1>1, <2>2, <2>3, <2>5 DEF AttemptInv
  <2> QED BY <2>2, <2>6, <2>7 DEF AttemptInv
<1>4. CASE /\ tried' = tried /\ \A c : InFlight(c)' = InFlight(c)
           /\ ~(\E r \in Request : ReserveChallenge(r))
  <2>1. \A c \in DOMAIN challenges :
          c \in DOMAIN challenges' /\ challenges'[c].attempts = challenges[c].attempts
    BY <1>4, ChallengeRows
  <2>2. \A c \in DOMAIN challenges' \ DOMAIN challenges :
          /\ challenges'[c].attempts = 0
          /\ tried[c] = 0 /\ InFlight(c) = {}
    BY <1>1, NewChallenges DEF AttemptInv
  <2>3. Cardinality({}) = 0
    BY FS_EmptySet
  <2>4. \A c \in DOMAIN challenges' :
          /\ tried'[c] + Cardinality(InFlight(c)') <= challenges'[c].attempts
          /\ challenges'[c].attempts <= MaxAttempts
    <3> TAKE c \in DOMAIN challenges'
    <3>1. CASE c \in DOMAIN challenges
      BY <1>4, <2>1, <3>1 DEF AttemptInv
    <3>2. CASE c \notin DOMAIN challenges
      BY <1>4, <2>2, <2>3, <3>2, AttemptsAssumption
    <3> QED BY <3>1, <3>2
  <2>5. \A c \in Challenge \ DOMAIN challenges' : tried'[c] = 0 /\ InFlight(c)' = {}
    BY <1>4, <2>1 DEF AttemptInv
  <2> QED BY <2>4, <2>5 DEF AttemptInv
<1> QED
  BY <1>2, <1>3, <1>4, AttemptKinds

\* No interleaving of verifications compares more than MaxAttempts codes for
\* one challenge.
THEOREM AttemptsCapped ==
  (Spec => []AttemptsBounded) /\ (SignInSpec => []AttemptsBounded)
<1>1. Init \/ InitEnrolled => TypeInv /\ AttemptInv
  <2>1. ASSUME Init \/ InitEnrolled PROVE AttemptInv
    <3>1. DOMAIN challenges = {} /\ \A c \in Challenge : tried[c] = 0
      BY <2>1 DEF Init, InitEnrolled
    <3>2. \A c : InFlight(c) = {}
      BY <2>1 DEF Init, InitEnrolled, InFlight, Idle
    <3> QED BY <3>1, <3>2 DEF AttemptInv
  <2> QED BY <2>1, TypeInit
<1>2. (TypeInv /\ AttemptInv) /\ [Next]_vars => (TypeInv /\ AttemptInv)'
  BY TypeStep, AttemptStep
<1>3. TypeInv /\ AttemptInv => AttemptsBounded
  <2>1. ASSUME TypeInv, AttemptInv, NEW c \in Challenge PROVE tried[c] <= MaxAttempts
    <3>1. CASE c \in DOMAIN challenges
      <4>1. tried[c] \in Nat /\ challenges[c].attempts \in Nat
        BY <2>1, <3>1 DEF TypeInv, TypeOK, CodeRow
      <4> QED BY <2>1, <3>1, <4>1, InFlightFinite, AttemptsAssumption DEF AttemptInv
    <3>2. CASE c \notin DOMAIN challenges
      BY <2>1, <3>2, AttemptsAssumption DEF AttemptInv
    <3> QED BY <3>1, <3>2
  <2> QED BY <2>1 DEF AttemptsBounded
<1> QED
  BY <1>1, <1>2, <1>3, SignInIsNext, PTL DEF Spec, SignInSpec

-----------------------------------------------------------------------------
(***************************************************************************)
(* Backup codes, while the account only signs in.  A request that removed  *)
(* a code from the row is the only one about to open a session with it.    *)
(***************************************************************************)
Paying(r) == request[r].pc = "open" /\ request[r].code # NoCode

BurnInv ==
  /\ drawn > 0
  /\ \A r \in Request : request[r].pc = "device" => request[r].code = NoCode
  /\ \A code \in user.codes :
       used[code] = 0 /\ \A r \in Request : Paying(r) => request[r].code # code
  /\ \A r \in Request : Paying(r) => used[request[r].code] = 0
  /\ \A q, r \in Request :
       Paying(q) /\ Paying(r) /\ request[q].code = request[r].code => q = r
  /\ BackupCodeOnce
  /\ BurntCodeOpens

\* What a step that neither burns a code nor opens a session may do.
Unpaying ==
  /\ UNCHANGED <<user, drawn, used>>
  /\ \A s \in Request :
       /\ Paying(s)' = Paying(s)
       /\ Paying(s) => request'[s].code = request[s].code
       /\ request'[s].pc = "device" => request'[s].code = NoCode

LEMMA BurnKinds ==
  ASSUME TypeInv, BurnInv, [SignInNext]_vars
  PROVE  (\E r \in Request : SpendBackupCode(r) \/ OpenSession(r)) \/ Unpaying
<1>1. request \in [Request -> RequestRow]
  BY DEF TypeInv, TypeOK, RequestRow
<1>2. \A r \in Request : request[r].pc = "device" => request[r].code = NoCode
  BY DEF BurnInv
<1>3. ASSUME NEW r \in Request, UNCHANGED <<user, drawn, used>>,
             \A q \in Request \ {r} : request'[q] = request[q],
             request[r].pc # "open",
             \/ request'[r].pc \notin {"open", "device"}
             \/ request'[r].code = NoCode
      PROVE  Unpaying
  BY <1>2, <1>3 DEF Unpaying, Paying
<1>4. ASSUME NEW r \in Request, NEW pc \in Pc, UNCHANGED <<user, drawn, used>>, Goto(r, pc),
             request[r].pc # "open",
             pc \notin {"open", "device"} \/ request[r].code = NoCode
      PROVE  Unpaying
  <2>1. \A q \in Request \ {r} : request'[q] = request[q]
    BY <1>1, <1>4 DEF Goto
  <2>2. request'[r].pc = pc /\ request'[r].code = request[r].code
    BY <1>1, <1>4 DEF Goto, RequestRow
  <2> QED BY <1>3, <1>4, <2>1, <2>2
<1>5. ASSUME NEW r \in Request, UNCHANGED <<user, drawn, used>>, Done(r), request[r].pc # "open"
      PROVE  Unpaying
  BY <1>1, <1>3, <1>5 DEF Done, Idle
<1>6. ASSUME NEW r \in Request, SignInStep(r), ~SpendBackupCode(r), ~OpenSession(r)
      PROVE  Unpaying
  <2>1. CASE signIn(r)
    <3>1. /\ \A q \in Request \ {r} : request'[q] = request[q]
          /\ request[r].pc # "open" /\ request'[r].code = NoCode
      BY <1>1, <2>1 DEF signIn, Idle
    <3> QED BY <1>3, <2>1, <3>1 DEF signIn, account, history
  <2>2. CASE LookUpDevice(r)
    BY <1>2, <1>4, <2>2 DEF LookUpDevice, account, history, Pc
  <2>3. CASE createChallenge(r)
    BY <1>5, <2>3 DEF createChallenge, account, history
  <2>4. CASE ReserveChallenge(r)
    <3>1. PICK row : request' = [request EXCEPT ![r] = row] /\ row.pc = "read"
      BY <2>4, ReservedRow
    <3>2. request[r].pc = "idle" /\ UNCHANGED <<user, drawn, used>>
      BY <2>4 DEF ReserveChallenge, account, history, Idle
    <3> QED BY <1>1, <1>3, <3>1, <3>2
  <2>5. CASE ReadFactor(r)
    <3>1. /\ \A q \in Request \ {r} : request'[q] = request[q]
          /\ request[r].pc # "open" /\ request'[r].pc = "compare"
      BY <1>1, <2>5 DEF ReadFactor, RequestRow
    <3> QED BY <1>3, <2>5, <3>1 DEF ReadFactor, account, history
  <2>6. CASE CompareCode(r)
    BY <1>4, <1>5, <2>6 DEF CompareCode, account, After, Pc
  <2>7. CASE ConsumeChallenge(r)
    <3>1. request[r].code # NoCode => After(request[r]) = "spend"
      BY <2>7 DEF ConsumeChallenge, After
    <3>2. After(request[r]) \in Pc \ {"device"}
      BY AfterKinds DEF Pc
    <3> QED BY <1>4, <1>5, <2>7, <3>1, <3>2 DEF ConsumeChallenge, account, history
  <2>8. CASE createTrustedDevice(r)
    BY <1>5, <2>8 DEF createTrustedDevice, account, history
  <2> QED BY <1>6, <2>1, <2>2, <2>3, <2>4, <2>5, <2>6, <2>7, <2>8 DEF SignInStep
<1>7. CASE verifyPasskeyAuthentication \/ revokePasskey \/ Expire \/ UNCHANGED vars
  <2>1. UNCHANGED <<user, drawn, used, request>>
    BY <1>7 DEF verifyPasskeyAuthentication, revokePasskey, Expire, vars, account, history
  <2> QED BY <1>2, <2>1 DEF Unpaying, Paying
<1> QED
  BY <1>6, <1>7 DEF SignInNext

LEMMA BurnStep ==
  ASSUME TypeInv, BurnInv, [SignInNext]_vars
  PROVE  BurnInv'
<1> USE DEF BurnInv, BackupCodeOnce, BurntCodeOpens
<1>1. /\ request \in [Request -> RequestRow]
      /\ used \in [Code -> Nat]
      /\ user \in UserRow /\ user.codes \subseteq Code
      /\ \A r \in Request : Paying(r) => request[r].code \in Code
      /\ CodesOf(drawn) \subseteq Code
  BY BoundAssumption DEF TypeInv, TypeOK, RequestRow, UserRow, Paying, CodesOf, Code, Draw
<1>2. CASE Unpaying
  <2>1. \A r \in Request :
          /\ Paying(r)' = Paying(r)
          /\ Paying(r) => request'[r].code = request[r].code
          /\ request'[r].pc = "device" => request'[r].code = NoCode
    BY <1>2 DEF Unpaying
  <2>2. UNCHANGED <<user, drawn, used>>
    BY <1>2 DEF Unpaying
  <2>3. BurntCodeOpens'
    <3>1. \A code \in CodesOf(drawn) \ user.codes : code # NoCode
      BY <1>1, BoundAssumption DEF Code, NoCode, None
    <3>2. ASSUME NEW code \in CodesOf(drawn) \ user.codes,
                 NEW r \in Request, request[r].pc = "open", request[r].code = code
          PROVE  request'[r].pc = "open" /\ request'[r].code = code
      BY <2>1, <3>1, <3>2 DEF Paying
    <3> QED BY <2>2, <3>2 DEF CodesOf
  <2> QED BY <2>1, <2>2, <2>3
<1>3. CASE \E r \in Request : SpendBackupCode(r)
  <2>1. PICK r \in Request : SpendBackupCode(r)
    BY <1>3
  <2>2. UNCHANGED <<drawn, used>> /\ request[r].pc = "spend"
    BY <2>1 DEF SpendBackupCode, history
  <2>3. CASE user' = user /\ Done(r)
    <3>1. \A q \in Request :
            /\ Paying(q)' = Paying(q)
            /\ Paying(q) => request'[q].code = request[q].code
            /\ request'[q].pc = "device" => request'[q].code = NoCode
      BY <1>1, <2>2, <2>3 DEF Paying, Done, Idle
    <3> QED BY <1>2, <2>2, <2>3, <3>1 DEF Unpaying
  <2>4. CASE CanSpend(request[r].code) /\ consumeBackupCode(request[r].code)
             /\ Goto(r, After(request[r]))
    <3>0. PICK code : code = request[r].code
      OBVIOUS
    <3>1. /\ code \in user.codes /\ code \in Code
          /\ user'.codes = user.codes \ {code}
      BY <1>1, <2>4, <3>0 DEF CanSpend, consumeBackupCode, UserRow
    <3>2. After(request[r]) = "open"
      BY <2>2 DEF After
    <3>3. /\ \A q \in Request \ {r} : request'[q] = request[q]
          /\ request'[r].pc = "open" /\ request'[r].code = code
      BY <1>1, <2>4, <3>0, <3>2 DEF Goto, RequestRow
    <3>4. code # NoCode
      BY <3>1, BoundAssumption DEF Code, NoCode, None
    <3>5. /\ Paying(r)'
          /\ \A q \in Request \ {r} : Paying(q)' = Paying(q)
      BY <3>3, <3>4 DEF Paying
    <3>6. used[code] = 0 /\ \A q \in Request : Paying(q) => request[q].code # code
      BY <3>1
    <3>7. /\ \A x \in user'.codes :
               used'[x] = 0 /\ \A q \in Request : Paying(q)' => request'[q].code # x
          /\ \A q \in Request : Paying(q)' => used'[request'[q].code] = 0
          /\ \A q, s \in Request :
               Paying(q)' /\ Paying(s)' /\ request'[q].code = request'[s].code => q = s
      BY <2>2, <3>1, <3>3, <3>5, <3>6
    <3>8. BurntCodeOpens'
      <4>1. \A x \in CodesOf(drawn) \ user'.codes :
              x = code \/ x \in CodesOf(drawn) \ user.codes
        BY <3>1
      <4>2. \A x \in CodesOf(drawn) \ user.codes :
              used[x] > 0 \/ \E q \in Request : request'[q].pc = "open" /\ request'[q].code = x
        BY <2>2, <3>3
      <4> QED BY <2>2, <3>3, <4>1, <4>2 DEF CodesOf
    <3>9. \A q \in Request : request'[q].pc = "device" => request'[q].code = NoCode
      BY <3>3
    <3> QED BY <2>2, <3>7, <3>8, <3>9
  <2> QED BY <2>1, <2>3, <2>4 DEF SpendBackupCode
<1>4. CASE \E r \in Request : OpenSession(r)
  <2>1. PICK r \in Request : OpenSession(r)
    BY <1>4
  <2>0. PICK code : code = request[r].code
    OBVIOUS
  <2>2. /\ UNCHANGED <<user, drawn>>
        /\ request[r].pc = "open"
        /\ used' = [x \in Code |-> used[x] + (IF x = code THEN 1 ELSE 0)]
    BY <2>0, <2>1 DEF OpenSession, account
  <2>3. /\ \A q \in Request \ {r} : request'[q] = request[q]
        /\ request'[r].pc \in {"idle", "trust"}
    BY <1>1, <2>1 DEF OpenSession, Goto, Done, Idle, RequestRow
  <2>4. /\ ~Paying(r)'
        /\ \A q \in Request \ {r} : Paying(q)' = Paying(q)
    BY <2>3 DEF Paying
  <2>5. \A x \in Code : used'[x] = IF x = code THEN used[x] + 1 ELSE used[x]
    BY <1>1, <2>2
  <2>6. code \in Code => code # NoCode /\ Paying(r)
    BY <2>0, <2>2, BoundAssumption DEF Code, NoCode, None, Paying
  <2>7. code \in Code => /\ used[code] = 0
                         /\ code \notin user.codes
                         /\ \A q \in Request \ {r} : Paying(q) => request[q].code # code
    BY <2>0, <2>6
  <2>8. /\ \A x \in user'.codes :
             used'[x] = 0 /\ \A q \in Request : Paying(q)' => request'[q].code # x
        /\ \A q \in Request : Paying(q)' => used'[request'[q].code] = 0
        /\ \A q, s \in Request :
             Paying(q)' /\ Paying(s)' /\ request'[q].code = request'[s].code => q = s
        /\ \A q \in Request : request'[q].pc = "device" => request'[q].code = NoCode
    BY <1>1, <2>2, <2>3, <2>4, <2>5, <2>7
  <2>9. BackupCodeOnce'
    BY <1>1, <2>5, <2>7
  <2>10. BurntCodeOpens'
    <3>1. SUFFICES ASSUME NEW x \in CodesOf(drawn) \ user.codes
                   PROVE  \/ used'[x] > 0
                          \/ \E q \in Request : request'[q].pc = "open" /\ request'[q].code = x
      BY <2>2 DEF CodesOf
    <3>2. x \in Code
      BY <1>1
    <3>3. CASE x = code
      BY <1>1, <2>5, <3>2, <3>3
    <3>4. CASE x # code
      BY <1>1, <2>0, <2>3, <2>5, <3>2, <3>4
    <3> QED BY <3>3, <3>4
  <2> QED BY <2>2, <2>8, <2>9, <2>10
<1> QED
  BY <1>2, <1>3, <1>4, BurnKinds

\* While the account only signs in, a backup code opens one session, and none is
\* burnt without opening one.
THEOREM CodesWellSpent == SignInSpec => [](BackupCodeOnce /\ BurntCodeOpens)
<1>1. InitEnrolled => TypeInv /\ BurnInv
  <2>1. InitEnrolled => BurnInv
    BY BoundAssumption
    DEF InitEnrolled, BurnInv, BackupCodeOnce, BurntCodeOpens, Paying, Idle, CodesOf, Code
  <2> QED BY <2>1, TypeInit
<1>2. (TypeInv /\ BurnInv) /\ [SignInNext]_vars => (TypeInv /\ BurnInv)'
  BY TypeStep, SignInIsNext, BurnStep
<1>3. TypeInv /\ BurnInv => BackupCodeOnce /\ BurntCodeOpens
  BY DEF BurnInv
<1> QED
  BY <1>1, <1>2, <1>3, PTL DEF SignInSpec

\* Every backup code that is gone opened a session, or is held by a verification
\* that has only to open it (verifyTwoFactor: lock, burn, open).
THEOREM BurntCodesOpen == SignInSpec => []BurntCodeOpens
<1>1. BackupCodeOnce /\ BurntCodeOpens => BurntCodeOpens
  OBVIOUS
<1> QED BY <1>1, CodesWellSpent, PTL

=============================================================================
