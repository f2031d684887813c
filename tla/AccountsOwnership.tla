------------------------- MODULE AccountsOwnership -------------------------
(***************************************************************************)
(* Proofs about Accounts, continued: to whom an address and a password     *)
(* belong.  A code for verifying an address was mailed to the address its  *)
(* user has, unless the user has proven another since; the subject of a    *)
(* password account names identities of the account's user alone.  Both    *)
(* facts hold of rows, and of what actions have read and not yet written.  *)
(***************************************************************************)
EXTENDS AccountsProofs

Known == DOMAIN users \cup deleted

\* A row or an action's state: where a code of the user was mailed.
Addressed(row) ==
  /\ row.user \in Known
  /\ row.type = "email_verification" /\ row.user \in DOMAIN users /\ users[row.user].kind # "linked"
       => users[row.user].email = row.address \/ row.user \in proven

\* Password identities with the subject s are the user's.
SubjectOf(s, u) ==
  /\ s \in User => s = u
  /\ s \in Nat => s =< serial
  /\ \A m \in DOMAIN identities :
       identities[m].provider = "password" /\ identities[m].subject = s => identities[m].user = u

Warranted(state) ==
  /\ state.pc = "code" => Addressed(state)
  /\ state.pc \in {"reset", "create"} =>
       \A s \in state.subject : SubjectOf(s, state.row.user)

\* Names made of a row number are those of rows already inserted.
NamesOld ==
  \A n \in DOMAIN identities :
    /\ identities[n].key \in Nat => identities[n].key =< serial
    /\ identities[n].subject \in Nat => identities[n].subject =< serial

AccountsOwned ==
  \A n \in DOMAIN accounts :
    accounts[n].provider = "password" => SubjectOf(accounts[n].subject, accounts[n].user)

CodesAddressed == \A c \in DOMAIN codes : Addressed(codes[c])
ActionsWarranted == \A a \in Action : Warranted(action[a])

\* Password identities of one subject are of one user, the one it stands for.
IdentitiesOwned ==
  \A n \in DOMAIN identities :
    identities[n].provider = "password" => SubjectOf(identities[n].subject, identities[n].user)

Ownership == NamesOld /\ IdentitiesOwned /\ AccountsOwned /\ CodesAddressed /\ ActionsWarranted

-----------------------------------------------------------------------------
(***************************************************************************)
(* Provisions.                                                             *)
(***************************************************************************)
\* With a name nobody has, sign-up and credential creation insert an identity.
LEMMA ProvisionInserts ==
  ASSUME TypeOK, NamesOld, NEW u \in User, NEW e \in Email, NEW verified \in BOOLEAN, NEW p \in Password,
         provisionFromIdentity(u, "password", Fresh, Fresh, e, verified, {p})
  PROVE  /\ identities' = With(identities, Fresh,
              [user |-> u, provider |-> "password", key |-> Fresh, subject |-> Fresh])
         /\ accounts' = With(accounts, FreshAccount,
              [user |-> u, provider |-> "password", subject |-> Fresh,
               hash |-> [password |-> p, legacy |-> FALSE]])
         /\ CanInsert
         /\ ~verified => /\ u \in NewUser
                         /\ users' = With(users, u,
                              [email |-> e, verified |-> FALSE, kind |-> "registered"])
<1>1. serial \in Nat /\ Fresh = serial + 1
  BY DEF TypeOK, CountersOK, Fresh
<1>2. \A n \in DOMAIN identities : identities[n].key # Fresh /\ identities[n].subject # Fresh
  BY <1>1 DEF NamesOld
<1>3. ExistingIdentity("password", Fresh, Fresh) = {}
  <2> HIDE DEF Fresh
  <2>1. {n \in DOMAIN identities : identities[n].provider = "password"
           /\ [m \in DOMAIN identities |-> identities[m].key = Fresh][n]} = {}
    BY <1>2
  <2>2. {n \in DOMAIN identities : identities[n].provider = "password"
           /\ [m \in DOMAIN identities |-> identities[m].subject = Fresh][n]} = {}
    BY <1>2
  <2> QED BY <2>1, <2>2 DEF ExistingIdentity, First
<1> DEFINE row == [email |-> e,
                   verified |-> verified \/ (u \in getUserByEmail(e) /\ users[u].verified),
                   kind |-> IF u \in DOMAIN users THEN users[u].kind ELSE "registered"]
<1>4. /\ verified \/ getUserByEmail(e) = {}
      /\ u \in Provisionable({}, e)
      /\ users' = With(users, u, row)
      /\ identities' = With(identities, Fresh,
           [user |-> u, provider |-> "password", key |-> Fresh, subject |-> Fresh])
      /\ CanInsert
      /\ \E q \in {p} : accounts' = With(accounts, FreshAccount,
           [user |-> u, provider |-> "password", subject |-> Fresh,
            hash |-> [password |-> q, legacy |-> FALSE]])
  BY <1>3 DEF provisionFromIdentity
<1>5. ASSUME ~verified
      PROVE  u \in NewUser /\ row = [email |-> e, verified |-> FALSE, kind |-> "registered"]
  <2>1. getUserByEmail(e) = {}
    BY <1>4, <1>5
  <2>2. u \in NewUser
    BY <1>4, <2>1 DEF Provisionable
  <2>3. u \notin DOMAIN users
    BY <2>2 DEF NewUser
  <2> QED BY <1>5, <2>1, <2>2, <2>3
<1> HIDE DEF row
<1> QED BY <1>4, <1>5

\* Any other writes a new identity, or one of its own provider.
LEMMA ProvisionWrites ==
  ASSUME TypeOK, NEW u, NEW provider, NEW e, provisionFromIdentity(u, provider, e, e, e, TRUE, {})
  PROVE  \E n : /\ n = Fresh \/ identities[n].provider = provider
                /\ identities' = With(identities, n,
                     [user |-> u, provider |-> provider, key |-> e, subject |-> e])
<1> DEFINE existing == ExistingIdentity(provider, e, e)
           Of(provided) == {n \in DOMAIN identities : identities[n].provider = provider /\ provided[n]}
<1>1. \A provided : Of(provided) \subseteq {n \in DOMAIN identities : identities[n].provider = provider}
  OBVIOUS
<1>2. \A provided : First(Of(provided)) \subseteq Of(provided)
  <2>1. \A provided : Of(provided) \subseteq Nat
    BY RowsAreNumbers
  <2> HIDE DEF Of
  <2> QED BY <2>1, FirstIsRow
<1>3. existing = LET byKey == Of([n \in DOMAIN identities |-> identities[n].key = e])
                 IN  IF byKey # {} THEN byKey
                     ELSE First(Of([n \in DOMAIN identities |-> identities[n].subject = e]))
  BY DEF ExistingIdentity
<1> HIDE DEF Of
<1>4. \A n \in existing : identities[n].provider = provider
  BY <1>1, <1>2, <1>3
<1>5. identities' = With(identities, IF existing = {} THEN Fresh ELSE CHOOSE i \in existing : TRUE,
                         [user |-> u, provider |-> provider, key |-> e, subject |-> e])
  BY DEF provisionFromIdentity
<1> HIDE DEF existing
<1> QED BY <1>4, <1>5

-----------------------------------------------------------------------------
(***************************************************************************)
(* What a step does to the identities.                                     *)
(***************************************************************************)
IdentityStep ==
  /\ NamesOld' /\ serial =< serial'
  /\ \A m \in DOMAIN identities' :
       identities'[m].provider = "password" =>
         \/ /\ m \in DOMAIN identities /\ identities[m].provider = "password"
            /\ identities'[m].user = identities[m].user
            /\ identities'[m].subject = identities[m].subject
         \/ /\ m = Fresh /\ Fresh =< serial' /\ identities'[m].user \in User
            /\ identities'[m].subject \in {identities'[m].user, Fresh}
  /\ \A m \in DOMAIN identities :
       identities[m].provider = "password" /\ identities[m].user \in DOMAIN users' =>
         m \in DOMAIN identities' /\ identities'[m] = identities[m]

LEMMA IdentityWritten ==
  ASSUME TypeOK, [Next]_vars, NamesOld, NEW n, NEW row \in IdentityRow,
         identities' = With(identities, n, row),
         row.key \in Nat => row.key =< serial',
         row.subject \in Nat => row.subject =< serial',
         n = Fresh \/ (row.provider # "password" /\ identities[n].provider # "password"),
         row.provider = "password" => row.subject \in {row.user, Fresh} /\ Fresh =< serial'
  PROVE  IdentityStep
<1>1. serial \in Nat /\ serial' \in Nat /\ serial =< serial'
  BY CountersTyped DEF TypeOK, CountersOK
<1>2. /\ DOMAIN identities' = DOMAIN identities \cup {n} /\ identities'[n] = row
      /\ \A m \in DOMAIN identities : m # n => identities'[m] = identities[m]
  BY DEF With
<1>3. NamesOld'
  BY <1>1, <1>2 DEF NamesOld
<1>4. row.user \in User
  BY DEF IdentityRow
<1>5. Fresh \notin DOMAIN identities
  BY <1>1 DEF TypeOK, IdentitiesOK, Fresh
<1> HIDE DEF Fresh
<1> QED BY <1>1, <1>2, <1>3, <1>4, <1>5 DEF IdentityStep

LEMMA IdentitiesLost ==
  ASSUME TypeOK, [Next]_vars, NamesOld, NEW K \in SUBSET DOMAIN identities,
         identities' = Restricted(identities, K),
         \A m \in DOMAIN identities \ K :
           identities[m].provider # "password" \/ identities[m].user \notin DOMAIN users'
  PROVE  IdentityStep
<1>1. serial \in Nat /\ serial' \in Nat /\ serial =< serial'
  BY CountersTyped DEF TypeOK, CountersOK
<1>2. DOMAIN identities' = K /\ \A m \in K : identities'[m] = identities[m]
  BY RestrictedFacts
<1> QED BY <1>1, <1>2 DEF IdentityStep, NamesOld

LEMMA IdentitySteps == TypeOK /\ NamesOld /\ [Next]_vars => IdentityStep
<1> SUFFICES ASSUME TypeOK, NamesOld, [Next]_vars PROVE IdentityStep
  OBVIOUS
<1>0. /\ serial \in Nat /\ serial' \in Nat /\ serial =< serial'
      /\ CanInsert => serial' = Fresh
      /\ Fresh \in Nat /\ Fresh \in Name /\ User \subseteq Name /\ Email \subseteq Name
  BY CountersTyped DEF TypeOK, CountersOK, CanInsert, Fresh, Name
<1>1. ASSUME identities' = identities PROVE IdentityStep
  BY <1>0, <1>1 DEF IdentityStep, NamesOld
<1>2. ASSUME NEW n, NEW u \in User, NEW provider, NEW key \in Name, NEW subject \in Name,
             provider \in OneTime \cup {"password", "email", "anonymous"},
             identities' = With(identities, n,
               [user |-> u, provider |-> provider, key |-> key, subject |-> subject]),
             key \in Nat => key =< serial', subject \in Nat => subject =< serial',
             n = Fresh \/ (provider # "password" /\ identities[n].provider # "password"),
             provider = "password" => subject \in {u, Fresh} /\ Fresh =< serial'
      PROVE  IdentityStep
  <2> DEFINE row == [user |-> u, provider |-> provider, key |-> key, subject |-> subject]
  <2>1. /\ row \in IdentityRow /\ row.key = key /\ row.subject = subject
        /\ row.user = u /\ row.provider = provider
    BY <1>2 DEF IdentityRow
  <2>2. identities' = With(identities, n, row)
    BY <1>2
  <2> HIDE DEF row
  <2> QED BY <1>2, <2>1, <2>2, IdentityWritten
<1>3. ASSUME NEW u \in User, CanInsert,
             identities' = With(identities, Fresh,
               [user |-> u, provider |-> "password", key |-> Fresh, subject |-> Fresh])
      PROVE  IdentityStep
  <2>1. serial' = Fresh /\ Fresh =< serial'
    BY <1>0, <1>3
  <2> QED BY <1>0, <1>2, <1>3, <2>1
<1>4. CASE signUp
  <2>1. PICK u \in User, e \in Email, p \in Password :
          provisionFromIdentity(u, "password", Fresh, Fresh, e, FALSE, {p})
    BY <1>4, SignUpProvides
  <2>2. FALSE \in BOOLEAN
    OBVIOUS
  <2> QED BY <1>3, <2>1, <2>2, ProvisionInserts
<1>5. CASE \E a \in Action : createCredential(a)
  <2>1. CASE identities' = identities
    BY <1>1, <2>1
  <2>2. CASE identities' # identities
    <3>1. PICK u \in User, e \in Email, p \in Password :
            provisionFromIdentity(u, "password", Fresh, Fresh, e, TRUE, {p})
      BY <1>5, <2>2, CreateProvides
    <3>2. TRUE \in BOOLEAN
      OBVIOUS
    <3> QED BY <1>3, <3>1, <3>2, ProvisionInserts
  <2> QED BY <2>1, <2>2
<1>6. CASE \E a \in Action : provisionOneTime(a)
  <2>1. PICK u \in User, provider \in OneTime, e \in Email :
          provisionFromIdentity(u, provider, e, e, e, TRUE, {})
    BY <1>6, OneTimeProvides
  <2>2. PICK n : /\ n = Fresh \/ identities[n].provider = provider
                 /\ identities' = With(identities, n,
                      [user |-> u, provider |-> provider, key |-> e, subject |-> e])
    BY <2>1, ProvisionWrites
  <2>3. provider # "password" /\ e \notin Nat /\ e \in Name
    BY <1>0, AccountsAssumption, NamesApart
  <2> QED BY <1>2, <2>2, <2>3
<1>7. CASE migrateAccount
  <2>1. PICK u \in DOMAIN users : identities' = With(identities, Fresh,
          [user |-> u, provider |-> "password", key |-> u, subject |-> u])
    BY <1>7 DEF migrateAccount
  <2>2. u \in User /\ u \notin Nat /\ u \in Name /\ Fresh =< serial'
    BY <1>0, <1>7, NamesApart DEF TypeOK, UsersOK, migrateAccount
  <2> QED BY <1>2, <2>1, <2>2
<1>8. CASE createOrphanIdentity
  <2>1. PICK u \in DOMAIN users : identities' = With(identities, Fresh,
          [user |-> u, provider |-> "password", key |-> Fresh, subject |-> Fresh])
    BY <1>8 DEF createOrphanIdentity
  <2>2. u \in User /\ CanInsert
    BY <1>8 DEF TypeOK, UsersOK, createOrphanIdentity
  <2> QED BY <1>3, <2>1, <2>2
<1>9. CASE createAnonymousUser
  <2>1. PICK u \in NewUser : identities' = With(identities, Fresh,
          [user |-> u, provider |-> "anonymous", key |-> Fresh, subject |-> Fresh])
    BY <1>9 DEF createAnonymousUser
  <2>2. u \in User /\ CanInsert
    BY <1>9 DEF NewUser, createAnonymousUser
  <2>3. Fresh =< serial'
    BY <1>0, <2>2
  <2> QED BY <1>0, <1>2, <2>1, <2>2, <2>3
<1>10. CASE \E a \in Action : createIdentity(a)
  <2>1. PICK a \in Action : createIdentity(a)
    BY <1>10
  <2>2. action[a].pc = "identity" /\ action[a] \in ActionState
    BY <2>1 DEF createIdentity, TypeOK, ActionOK
  <2>3. action[a].user \in User /\ action[a].email \in Name /\ action[a].email \notin Nat
    BY <1>0, <2>2, StateByPc, NamesApart
  <2>4. identities' = With(identities, Fresh,
          [user |-> action[a].user, provider |-> "email", key |-> Fresh,
           subject |-> action[a].email]) /\ CanInsert
    BY <2>1 DEF createIdentity
  <2>5. Fresh =< serial'
    BY <1>0, <2>4
  <2> QED BY <1>0, <1>2, <2>3, <2>4, <2>5
<1>11. CASE changeEmail
  <2>1. PICK c \in DOMAIN codes : identities' = Moved(codes[c].user, codes[c].address)
    BY <1>11 DEF changeEmail, changeEmailTo
  <2>2. codes[c].address \notin Nat
    BY NamesApart DEF TypeOK, CodesOK, CodeRow
  <2>3. \A n \in findIdentityByUserAndProvider(codes[c].user, "emailOtp") :
          identities[n].provider = "emailOtp"
    <3>1. {n \in DOMAIN identities : identities[n].user = codes[c].user
             /\ identities[n].provider = "emailOtp"} \subseteq Nat
      BY RowsAreNumbers
    <3> QED BY <3>1, FirstIsRow DEF findIdentityByUserAndProvider
  <2>4. DOMAIN identities' = DOMAIN identities /\ IdentitiesOK
    BY <2>1 DEF Moved, TypeOK
  <2>5. \A n \in DOMAIN identities :
          /\ identities'[n].key = identities[n].key
          /\ identities'[n].user = identities[n].user
          /\ identities'[n].provider = identities[n].provider
          /\ identities'[n].subject \in {identities[n].subject, codes[c].address}
          /\ identities[n].provider = "password" => identities'[n] = identities[n]
    BY <2>1, <2>3, <2>4 DEF Moved, IdentitiesOK, IdentityRow
  <2>6. NamesOld'
    BY <1>0, <2>2, <2>4, <2>5 DEF NamesOld
  <2> QED BY <1>0, <2>4, <2>5, <2>6 DEF IdentityStep
<1>12. CASE \E a \in Action : linkAnonymousUser(a)
  <2>1. PICK u : identities' = Restricted(identities,
                   {n \in DOMAIN identities :
                      ~(identities[n].user = u /\ identities[n].provider = "anonymous")})
    BY <1>12 DEF linkAnonymousUser
  <2> QED BY <2>1, IdentitiesLost
<1>16. CASE deleteUser
  <2>1. PICK u \in DOMAIN users :
          /\ identities' = Restricted(identities, {n \in DOMAIN identities : identities[n].user # u})
          /\ users' = Restricted(users, DOMAIN users \ {u})
    BY <1>16 DEF deleteUser, KeptRows
  <2>2. u \notin DOMAIN users'
    BY <2>1 DEF Restricted
  <2> QED BY <2>1, <2>2, IdentitiesLost
<1>13. CASE migrateUser \/ resetByLink \/ Expire \/ verifyEmail \/ sendOneTime
  BY <1>1, <1>13 DEF migrateUser, resetByLink, resetPassword, Expire, verifyEmail, sendOneTime
<1>14. CASE \E a \in Action :
              \/ verifyPassword(a) \/ updateCredentialHash(a) \/ sendCode(a)
              \/ createVerificationCode(a) \/ forgetPassword(a) \/ resetByOtp(a)
              \/ consumeVerificationCode(a) \/ consumeVerifier(a) \/ linkAnonymousAccount(a)
              \/ createAccount(a) \/ Stop(a)
  BY <1>1, <1>14 DEF verifyPassword, updateCredentialHash, sendCode, createVerificationCode,
       forgetPassword, resetByOtp, resetPassword, consumeVerificationCode, consumeVerifier,
       linkAnonymousAccount, createAccount, Stop, tables
<1>15. CASE UNCHANGED vars
  BY <1>1, <1>15 DEF vars, tables
<1> QED
  BY <1>4, <1>5, <1>6, <1>7, <1>8, <1>9, <1>10, <1>11, <1>12, <1>13, <1>14, <1>15, <1>16
     DEF Next, PasswordNext, MailNext, AnonymousNext

\* A subject goes on standing for its user.
LEMMA SubjectStays ==
  ASSUME TypeOK, [Next]_vars, IdentityStep, NEW s, NEW u, SubjectOf(s, u)
  PROVE  SubjectOf(s, u)'
<1>1. serial \in Nat /\ serial' \in Nat /\ Fresh = serial + 1 /\ serial =< serial'
  BY CountersTyped DEF TypeOK, CountersOK, Fresh
<1> QED BY <1>1 DEF SubjectOf, IdentityStep

-----------------------------------------------------------------------------
(***************************************************************************)
(* What a step does to the users: each is untouched, or has proven its     *)
(* address, or is new and unverified, or is linked from an anonymous one.  *)
(***************************************************************************)
UserStep ==
  /\ Known \subseteq Known'
  /\ \A w \in DOMAIN users' :
       \/ w \in DOMAIN users /\ users'[w] = users[w] /\ (w \in proven => w \in proven')
       \/ w \in proven'
       \/ w \notin Known /\ ~users'[w].verified
       \/ users'[w].kind = "linked"

LEMMA UserStaysOthers ==
  ASSUME TypeOK, NEW u, NEW row, users' = With(users, u, row), deleted' = deleted,
         Settled \subseteq proven',
         u \in proven' \/ (u \notin Known /\ ~row.verified) \/ row.kind = "linked"
  PROVE  UserStep
<1>1. /\ DOMAIN users' = DOMAIN users \cup {u} /\ users'[u] = row
      /\ \A w \in DOMAIN users : w # u => users'[w] = users[w]
  BY DEF With
<1>2. \A w \in DOMAIN users : w # u /\ w \in proven => w \in proven'
  BY <1>1 DEF Settled
<1> QED BY <1>1, <1>2 DEF UserStep, Known

\* Writing a row back is writing the table with it.
LEMMA UserRewritten ==
  ASSUME NEW u \in DOMAIN users, NEW row, users = [w \in DOMAIN users |-> users[w]],
         users' = [users EXCEPT ![u] = row]
  PROVE  users' = With(users, u, row)
<1>1. DOMAIN users \cup {u} = DOMAIN users
  OBVIOUS
<1> QED BY <1>1 DEF With

LEMMA UserSteps == TypeOK /\ Ownership /\ [Next]_vars => UserStep
<1> SUFFICES ASSUME TypeOK, Ownership, [Next]_vars PROVE UserStep
  OBVIOUS
<1>0. UsersOK /\ CodesOK /\ NamesOld /\ CodesAddressed
  BY DEF TypeOK, Ownership
<1>1. ASSUME UNCHANGED <<users, deleted, proven>> PROVE UserStep
  BY <1>1 DEF UserStep, Known
<1>2. \A u \in NewUser : u \notin Known
  BY DEF NewUser, Known
<1>3. proven' = proven => Settled \subseteq proven'
  BY DEF Settled
<1>4. \A u, e : Prove(u, e) => Settled \subseteq proven' /\ (users'[u].email = e => u \in proven')
  BY DEF Prove
<1>5. CASE signUp
  <2>1. PICK u \in User, e \in Email, p \in Password :
          provisionFromIdentity(u, "password", Fresh, Fresh, e, FALSE, {p})
    BY <1>5, SignUpProvides
  <2>2. FALSE \in BOOLEAN
    OBVIOUS
  <2> DEFINE row == [email |-> e, verified |-> FALSE, kind |-> "registered"]
  <2>3. u \in NewUser /\ users' = With(users, u, row)
    BY <1>0, <2>1, <2>2, ProvisionInserts
  <2>4. proven' = proven /\ deleted' = deleted
    BY <1>5 DEF signUp
  <2>5. ~row.verified
    OBVIOUS
  <2> HIDE DEF row
  <2> QED BY <1>2, <1>3, <2>3, <2>4, <2>5, UserStaysOthers
<1>6. ASSUME NEW u, NEW row \in UserRow, NEW e, row.email = e, users' = With(users, u, row),
             deleted' = deleted, Prove(u, e)
      PROVE  UserStep
  <2>1. users'[u].email = e
    BY <1>6 DEF With
  <2> QED BY <1>4, <1>6, <2>1, UserStaysOthers
<1>7. CASE \E a \in Action : createCredential(a)
  <2>1. PICK a \in Action : createCredential(a)
    BY <1>7
  <2>2. deleted' = deleted
    BY <2>1, CreateProvides
  <2>3. CASE UNCHANGED <<users, identities, serial, proven>>
    BY <1>1, <2>2, <2>3
  <2>4. CASE ~UNCHANGED <<users, identities, serial, proven>>
    <3>1. PICK u \in User, row \in UserRow, e \in Email :
            row.email = e /\ users' = With(users, u, row) /\ Prove(u, e)
      BY <2>1, <2>4, CreateProvides, ProvisionFacts
    <3> QED BY <1>6, <2>2, <3>1
  <2> QED BY <2>3, <2>4
<1>8. CASE \E a \in Action : provisionOneTime(a)
  <2>1. PICK u \in User, row \in UserRow, e \in Email :
          row.email = e /\ users' = With(users, u, row) /\ Prove(u, e)
    BY <1>8, OneTimeProvides, ProvisionFacts
  <2>2. deleted' = deleted
    BY <1>8 DEF provisionOneTime
  <2> QED BY <1>6, <2>1, <2>2
<1>9. CASE migrateUser
  <2>1. PICK u \in NewUser, e \in Email, v \in BOOLEAN :
          /\ users' = With(users, u, [email |-> e, verified |-> v, kind |-> "registered"])
          /\ proven' = IF v THEN proven \cup {u} ELSE proven
          /\ deleted' = deleted
    BY <1>9 DEF migrateUser
  <2> DEFINE row == [email |-> e, verified |-> v, kind |-> "registered"]
  <2>2. row.verified = v /\ users' = With(users, u, row)
    BY <2>1
  <2> HIDE DEF row
  <2>3. Settled \subseteq proven' /\ (v => u \in proven')
    BY <2>1 DEF Settled
  <2> QED BY <1>2, <2>1, <2>2, <2>3, UserStaysOthers
<1>10. CASE createAnonymousUser
  <2> DEFINE row == [email |-> NoEmail, verified |-> FALSE, kind |-> "anonymous"]
  <2>1. ~row.verified
    OBVIOUS
  <2>2. PICK u \in NewUser : users' = With(users, u, row)
    BY <1>10 DEF createAnonymousUser
  <2>3. proven' = proven /\ deleted' = deleted
    BY <1>10 DEF createAnonymousUser, history
  <2> HIDE DEF row
  <2> QED BY <1>2, <1>3, <2>1, <2>2, <2>3, UserStaysOthers
<1>11. CASE \E a \in Action : linkAnonymousUser(a)
  <2>1. PICK a \in Action : linkAnonymousUser(a)
    BY <1>11
  <2> DEFINE row == [email |-> action[a].email, verified |-> FALSE, kind |-> "linked"]
  <2>2. /\ action[a].user \in DOMAIN users /\ users' = [users EXCEPT ![action[a].user] = row]
        /\ deleted' = deleted /\ proven' = Settled /\ row.kind = "linked"
    BY <2>1 DEF linkAnonymousUser
  <2> HIDE DEF row
  <2>3. users' = With(users, action[a].user, row)
    BY <1>0, <2>2, UserRewritten DEF UsersOK
  <2> QED BY <2>2, <2>3, UserStaysOthers
<1>12. CASE verifyEmail
  <2>1. PICK c \in DOMAIN codes :
          /\ Live(c, "email_verification")
          /\ codes[c].user \in DOMAIN users
          /\ users' = [users EXCEPT ![codes[c].user].verified = TRUE]
          /\ Prove(codes[c].user, codes[c].address) /\ deleted' = deleted
    BY <1>12 DEF verifyEmail
  <2> DEFINE u == codes[c].user
             row == [users[u] EXCEPT !.verified = TRUE]
  <2>2. users[u] \in UserRow
    BY <1>0, <2>1 DEF UsersOK
  <2>3. row.email = users[u].email /\ row.kind = users[u].kind
    BY <2>2 DEF UserRow
  <2>4. users' = With(users, u, row)
    BY <1>0, <2>1, UserRewritten DEF UsersOK
  <2>5. users'[u] = row
    BY <2>4 DEF With
  <2>6. Addressed(codes[c]) /\ codes[c].type = "email_verification"
    BY <1>0, <2>1 DEF CodesAddressed, Live
  <2>7. users[u].kind = "linked" \/ users[u].email = codes[c].address \/ u \in proven
    BY <2>1, <2>6 DEF Addressed
  <2>8. u \in proven => u \in proven'
    BY <2>1, <2>3, <2>4, <2>5 DEF Prove, Settled, With
  <2> HIDE DEF u, row
  <2>9. u \in proven' \/ row.kind = "linked"
    BY <1>4, <2>1, <2>3, <2>5, <2>7, <2>8 DEF u
  <2>10. Settled \subseteq proven' /\ deleted' = deleted
    BY <1>4, <2>1
  <2> QED BY <2>4, <2>9, <2>10, UserStaysOthers
<1>13. CASE changeEmail
  <2>1. PICK c \in DOMAIN codes : changeEmailTo(c, codes[c].address)
    BY <1>13 DEF changeEmail
  <2> DEFINE u == codes[c].user
             row == [[users[u] EXCEPT !.email = codes[c].address] EXCEPT !.verified = TRUE]
  <2>2. /\ u \in DOMAIN users /\ users' = [users EXCEPT ![u] = row]
        /\ Prove(u, codes[c].address) /\ deleted' = deleted
    BY <2>1 DEF changeEmailTo
  <2>3. users[u] \in UserRow
    BY <1>0, <2>2 DEF UsersOK
  <2>4. row.email = codes[c].address
    BY <2>3 DEF UserRow
  <2> HIDE DEF u, row
  <2>5. users' = With(users, u, row)
    BY <1>0, <2>2, UserRewritten DEF UsersOK
  <2>6. users'[u] = row
    BY <2>5 DEF With
  <2> QED BY <1>4, <2>2, <2>4, <2>5, <2>6, UserStaysOthers
<1>14. CASE deleteUser
  <2>1. PICK u \in DOMAIN users :
          /\ users' = Restricted(users, DOMAIN users \ {u}) /\ deleted' = deleted \cup {u}
          /\ proven' = Settled
    BY <1>14 DEF deleteUser
  <2>2. DOMAIN users' = DOMAIN users \ {u} /\ \A w \in DOMAIN users' : users'[w] = users[w]
    BY <2>1, RestrictedFacts
  <2> QED BY <2>1, <2>2 DEF UserStep, Known, Settled
<1>15. CASE migrateAccount \/ createOrphanIdentity \/ resetByLink \/ Expire \/ sendOneTime
  BY <1>1, <1>15 DEF migrateAccount, createOrphanIdentity, resetByLink, resetPassword, Expire,
       sendOneTime, history
<1>16. CASE \E a \in Action :
              \/ verifyPassword(a) \/ updateCredentialHash(a) \/ sendCode(a)
              \/ createVerificationCode(a) \/ forgetPassword(a) \/ resetByOtp(a)
              \/ consumeVerificationCode(a) \/ consumeVerifier(a) \/ linkAnonymousAccount(a)
              \/ createAccount(a) \/ createIdentity(a) \/ Stop(a)
  BY <1>1, <1>16 DEF verifyPassword, updateCredentialHash, sendCode, createVerificationCode,
       forgetPassword, resetByOtp, resetPassword, consumeVerificationCode, consumeVerifier,
       linkAnonymousAccount, createAccount, createIdentity, Stop, tables, history
<1>17. CASE UNCHANGED vars
  BY <1>1, <1>17 DEF vars, tables, history
<1> QED
  BY <1>5, <1>7, <1>8, <1>9, <1>10, <1>11, <1>12, <1>13, <1>14, <1>15, <1>16, <1>17
     DEF Next, PasswordNext, MailNext, AnonymousNext

LEMMA VerifiedStays ==
  ASSUME VerifiedProven, UserStep
  PROVE  VerifiedProven'
BY DEF VerifiedProven, UserStep

\* A row goes on naming the address its user has, or a user who has proven one.
LEMMA AddressedStays ==
  ASSUME TypeOK, UserStep, NEW row, Addressed(row)
  PROVE  Addressed(row)'
<1>1. row.user \in Known /\ row.user \in Known'
  BY DEF Addressed, UserStep
<1>2. ASSUME row.type = "email_verification", row.user \in DOMAIN users',
             users'[row.user].kind # "linked"
      PROVE  users'[row.user].email = row.address \/ row.user \in proven'
  <2>1. CASE row.user \in DOMAIN users /\ users'[row.user] = users[row.user]
             /\ (row.user \in proven => row.user \in proven')
    BY <1>2, <2>1 DEF Addressed
  <2> QED BY <1>1, <1>2, <2>1 DEF UserStep
<1> QED BY <1>1, <1>2 DEF Addressed

-----------------------------------------------------------------------------
(***************************************************************************)
(* Ownership is kept: by identities, accounts, codes, and actions.         *)
(***************************************************************************)
LEMMA IdentitiesStayOwned ==
  ASSUME TypeOK, [Next]_vars, IdentityStep, IdentitiesOwned
  PROVE  IdentitiesOwned'
<1>0. /\ serial \in Nat /\ serial' \in Nat /\ Fresh = serial + 1 /\ serial =< serial'
      /\ Fresh \notin User /\ DOMAIN identities \subseteq Nat
  BY CountersTyped, NamesApart, RowsAreNumbers DEF TypeOK, CountersOK, Fresh
<1> SUFFICES ASSUME NEW n \in DOMAIN identities', identities'[n].provider = "password"
             PROVE  SubjectOf(identities[n].subject, identities[n].user)'
  BY DEF IdentitiesOwned
<1>3. PICK s, u : s = identities'[n].subject /\ u = identities'[n].user
  OBVIOUS
<1>1. CASE /\ n \in DOMAIN identities /\ identities[n].provider = "password"
           /\ u = identities[n].user /\ s = identities[n].subject
  <2>3. SubjectOf(s, u)
    BY <1>1 DEF IdentitiesOwned
  <2>4. /\ s \in User => s = u
        /\ s \in Nat => s =< serial'
    BY <1>0, <2>3 DEF SubjectOf
  <2>5. \A m \in DOMAIN identities' :
          identities'[m].provider = "password" /\ identities'[m].subject = s
            => identities'[m].user = u
    BY <1>0, <2>3 DEF SubjectOf, IdentityStep
  <2> QED BY <1>3, <2>4, <2>5 DEF SubjectOf
<1>2. CASE n = Fresh /\ Fresh =< serial' /\ u \in User /\ s \in {u, Fresh}
  <2>1. \A m \in DOMAIN identities : identities[m].provider = "password" =>
          SubjectOf(identities[m].subject, identities[m].user)
    BY DEF IdentitiesOwned
  <2>2. /\ s \in User => s = u
        /\ s \in Nat => s =< serial'
    BY <1>0, <1>2, NamesApart
  <2>3. \A m \in DOMAIN identities' :
          identities'[m].provider = "password" /\ identities'[m].subject = s
            => identities'[m].user = u
    <3> SUFFICES ASSUME NEW m \in DOMAIN identities', identities'[m].provider = "password",
                        identities'[m].subject = s
                 PROVE  identities'[m].user = u
      OBVIOUS
    <3>1. CASE m = n
      BY <1>3, <3>1
    <3>2. CASE m # n
      <4>1. /\ m \in DOMAIN identities /\ SubjectOf(identities[m].subject, identities[m].user)
            /\ identities'[m].user = identities[m].user /\ identities[m].subject = s
        BY <1>2, <2>1, <3>2 DEF IdentityStep
      <4> QED BY <1>0, <1>2, <4>1 DEF SubjectOf
    <3> QED BY <3>1, <3>2
  <2> QED BY <1>3, <2>2, <2>3 DEF SubjectOf
<1> QED BY <1>1, <1>2, <1>3 DEF IdentityStep

\* Only these insert an account.
LEMMA Enrolments ==
  ASSUME TypeOK, [Next]_vars, Enrols
  PROVE  signUp \/ migrateAccount \/ \E a \in Action : createCredential(a) \/ createAccount(a)
<1>0. enrolled' # enrolled
  BY DEF Enrols, CanEnrol, FreshAccount, TypeOK, CountersOK
<1>1. CASE createOrphanIdentity \/ Expire \/ verifyEmail \/ changeEmail \/ sendOneTime
             \/ createAnonymousUser \/ resetByLink \/ migrateUser \/ deleteUser
  BY <1>0, <1>1 DEF createOrphanIdentity, Expire, verifyEmail, changeEmail, changeEmailTo,
     sendOneTime, createAnonymousUser, resetByLink, resetPassword, migrateUser, deleteUser, counters
<1>2. CASE \E a \in Action : provisionOneTime(a)
  BY <1>0, <1>2 DEF provisionOneTime, provisionFromIdentity
<1>3. CASE \E a \in Action :
             \/ verifyPassword(a) \/ updateCredentialHash(a) \/ sendCode(a)
             \/ createVerificationCode(a) \/ forgetPassword(a) \/ resetByOtp(a)
  BY <1>0, <1>3 DEF verifyPassword, updateCredentialHash, sendCode, createVerificationCode,
     forgetPassword, resetByOtp, resetPassword, counters
<1>4. CASE \E a \in Action :
             \/ consumeVerificationCode(a) \/ consumeVerifier(a) \/ linkAnonymousAccount(a)
             \/ linkAnonymousUser(a) \/ createIdentity(a) \/ Stop(a)
  BY <1>0, <1>4 DEF consumeVerificationCode, consumeVerifier, linkAnonymousAccount,
     linkAnonymousUser, createIdentity, Stop, counters
<1>5. CASE UNCHANGED vars
  BY <1>0, <1>5 DEF vars, counters
<1> QED
  BY <1>1, <1>2, <1>3, <1>4, <1>5 DEF Next, PasswordNext, MailNext, AnonymousNext

\* An account's row keeps whose it is.
LEMMA AccountsKept ==
  ASSUME TypeOK, AccountStep, NEW n \in DOMAIN accounts', n \in DOMAIN accounts
  PROVE  /\ accounts'[n].user = accounts[n].user
         /\ accounts'[n].provider = accounts[n].provider
         /\ accounts'[n].subject = accounts[n].subject
<1>0. AccountsOK /\ enrolled \in Nat
  BY DEF TypeOK, CountersOK
<1>1. CASE AccountsSame
  BY <1>1 DEF AccountsSame
<1>2. CASE Enrols
  <2>1. FreshAccount \notin DOMAIN accounts
    BY <1>0 DEF AccountsOK, FreshAccount
  <2> QED BY <1>2, <2>1 DEF Enrols, With
<1>3. CASE Rehashes \/ Resets
  BY <1>0, <1>3 DEF Rehashes, Resets, AccountsOK, AccountRow
<1>4. CASE Drops
  BY <1>4 DEF Drops, KeptRows, Restricted
<1> QED BY <1>1, <1>2, <1>3, <1>4 DEF AccountStep

LEMMA AccountsStayOwned ==
  ASSUME TypeOK, Ownership, [Next]_vars, IdentityStep, IdentitiesOwned', AccountStep
  PROVE  AccountsOwned'
<1> SUFFICES ASSUME NEW n \in DOMAIN accounts', accounts'[n].provider = "password"
             PROVE  SubjectOf(accounts[n].subject, accounts[n].user)'
  BY DEF AccountsOwned
<1>0. AccountsOwned /\ NamesOld /\ ActionsWarranted
  BY DEF Ownership
<1>1. CASE n \in DOMAIN accounts
  <2>4. PICK s, u : s = accounts[n].subject /\ u = accounts[n].user
    OBVIOUS
  <2>1. accounts'[n].user = u /\ accounts'[n].subject = s /\ accounts[n].provider = "password"
    BY <1>1, <2>4, AccountsKept
  <2>2. SubjectOf(s, u)
    BY <1>0, <1>1, <2>1, <2>4 DEF AccountsOwned
  <2>3. SubjectOf(s, u)'
    BY <2>2, SubjectStays
  <2> QED BY <2>1, <2>3 DEF SubjectOf
<1>2. CASE n \notin DOMAIN accounts
  <2>1. Enrols
    <3>1. DOMAIN accounts' \subseteq DOMAIN accounts => FALSE
      BY <1>2
    <3> QED BY <3>1 DEF AccountStep, AccountsSame, Rehashes, Resets, Drops, KeptRows, Restricted
  <2>2. n = FreshAccount
    BY <1>2, <2>1 DEF Enrols, With
  <2>3. ASSUME NEW u \in User, NEW s, NEW p,
               accounts' = With(accounts, FreshAccount,
                 [user |-> u, provider |-> "password", subject |-> s,
                  hash |-> p]),
               SubjectOf(s, u)'
        PROVE  SubjectOf(accounts[n].subject, accounts[n].user)'
    <3>1. accounts'[n].subject = s /\ accounts'[n].user = u
      BY <2>2, <2>3 DEF With
    <3> QED BY <2>3, <3>1 DEF SubjectOf
  <2>4. ASSUME NEW u \in User, NEW s, NEW p, NEW key,
               accounts' = With(accounts, FreshAccount,
                 [user |-> u, provider |-> "password", subject |-> s, hash |-> p]),
               identities' = With(identities, Fresh,
                 [user |-> u, provider |-> "password", key |-> key, subject |-> s])
        PROVE  SubjectOf(accounts[n].subject, accounts[n].user)'
    <3>1. /\ Fresh \in DOMAIN identities' /\ identities'[Fresh].provider = "password"
          /\ identities'[Fresh].user = u /\ identities'[Fresh].subject = s
      BY <2>4 DEF With
    <3>2. SubjectOf(s, u)'
      BY <3>1 DEF IdentitiesOwned, SubjectOf
    <3> QED BY <2>3, <2>4, <3>2
  <2>5. CASE signUp
    <3>1. PICK u \in User, e \in Email, p \in Password :
            provisionFromIdentity(u, "password", Fresh, Fresh, e, FALSE, {p})
      BY <2>5, SignUpProvides
    <3>2. FALSE \in BOOLEAN
      OBVIOUS
    <3> QED BY <1>0, <2>4, <3>1, <3>2, ProvisionInserts
  <2>6. CASE migrateAccount
    <3>1. PICK u \in DOMAIN users, p \in Password :
            /\ identities' = With(identities, Fresh,
                 [user |-> u, provider |-> "password", key |-> u, subject |-> u])
            /\ accounts' = With(accounts, FreshAccount,
                 [user |-> u, provider |-> "password", subject |-> u,
                  hash |-> [password |-> p, legacy |-> TRUE]])
      BY <2>6 DEF migrateAccount
    <3>2. u \in User
      BY DEF TypeOK, UsersOK
    <3> QED BY <2>4, <3>1, <3>2
  <2>7. ASSUME NEW a \in Action, createCredential(a)
        PROVE  SubjectOf(accounts[n].subject, accounts[n].user)'
    <3>1. CASE \E u \in User, e \in Email, p \in Password :
                 provisionFromIdentity(u, "password", Fresh, Fresh, e, TRUE, {p})
      <4>1. TRUE \in BOOLEAN
        OBVIOUS
      <4> QED BY <1>0, <2>4, <3>1, <4>1, ProvisionInserts
    <3>2. CASE \E s \in action[a].subject :
                 accounts' = With(accounts, FreshAccount,
                   [user |-> action[a].row.user, provider |-> "password", subject |-> s,
                    hash |-> [password |-> action[a].password, legacy |-> FALSE]])
      <4>1. PICK s \in action[a].subject :
              accounts' = With(accounts, FreshAccount,
                [user |-> action[a].row.user, provider |-> "password", subject |-> s,
                 hash |-> [password |-> action[a].password, legacy |-> FALSE]])
        BY <3>2
      <4>2. PICK u \in User : u = action[a].row.user
        BY <2>7, CreateProvides DEF CodeRow
      <4>3. SubjectOf(s, u)
        BY <1>0, <2>7, <4>1, <4>2 DEF ActionsWarranted, Warranted, createCredential
      <4>4. SubjectOf(s, u)'
        BY <4>3, SubjectStays
      <4> QED BY <2>3, <4>1, <4>2, <4>4
    <3>3. action[a].row.address \in Email /\ action[a].password \in Password
      BY <2>7, CreateProvides DEF CodeRow
    <3> QED BY <2>7, <3>1, <3>2, <3>3 DEF createCredential
  <2>8. CASE \E a \in Action : createAccount(a)
    BY <2>2, <2>8 DEF createAccount, With
  <2> QED BY <2>1, <2>5, <2>6, <2>7, <2>8, Enrolments
<1> QED BY <1>1, <1>2

LEMMA CodesStayAddressed ==
  ASSUME TypeOK, Ownership, [Next]_vars, UserStep
  PROVE  CodesAddressed'
<1>0. CodesAddressed /\ NamesOld /\ ActionsWarranted
  BY DEF Ownership
<1>2. ASSUME NEW c \in DOMAIN codes', c \in DOMAIN codes, codes'[c] = codes[c]
      PROVE  Addressed(codes[c])'
  <2>1. PICK row : row = codes[c]
    OBVIOUS
  <2>2. Addressed(row)
    BY <1>0, <1>2, <2>1 DEF CodesAddressed
  <2>3. Addressed(row)'
    BY <2>2, AddressedStays
  <2> QED BY <1>2, <2>1, <2>3 DEF Addressed
<1>3. CASE CodesSame
  BY <1>2, <1>3 DEF CodesSame, CodesAddressed
<1>4. CASE Spends
  BY <1>2, <1>4, RestrictedFacts DEF Spends, CodesAddressed
<1>5. ASSUME NEW row \in CodeRow, codes' = NewCode(row.user, row.type, row.address), Addressed(row)'
      PROVE  CodesAddressed'
  <2>1. PICK new : new = FreshMail
    OBVIOUS
  <2>2. /\ DOMAIN codes' = OtherCodes(row) \cup {new}
        /\ codes'[new] = row
        /\ \A c \in OtherCodes(row) : c \in DOMAIN codes /\ codes'[c] = codes[c]
    BY <1>5, <2>1, NewCodeFacts DEF OtherCodes
  <2>3. Addressed(codes[new])'
    BY <1>5, <2>2 DEF Addressed
  <2>4. \A c \in OtherCodes(row) : Addressed(codes[c])'
    BY <1>2, <2>2
  <2> QED BY <2>2, <2>3, <2>4 DEF CodesAddressed
<1>6. CASE signUp
  <2>1. PICK u \in User, e \in Email, p \in Password :
          /\ provisionFromIdentity(u, "password", Fresh, Fresh, e, FALSE, {p})
          /\ \/ codes' = NewCode(u, "email_verification", e)
             \/ codes' = codes
    BY <1>6 DEF signUp
  <2>2. FALSE \in BOOLEAN
    OBVIOUS
  <2>3. users' = With(users, u, [email |-> e, verified |-> FALSE, kind |-> "registered"])
    BY <1>0, <2>1, <2>2, ProvisionInserts
  <2>4. u \in DOMAIN users' /\ users'[u].email = e
    BY <2>3 DEF With
  <2>7. [user |-> u, type |-> "email_verification", address |-> e] \in CodeRow
    BY DEF CodeRow, CodeType
  <2>5. PICK row \in CodeRow : row.user = u /\ row.type = "email_verification" /\ row.address = e
    BY <2>7
  <2>6. Addressed(row)'
    BY <2>4, <2>5 DEF Addressed, Known
  <2> QED BY <1>3, <1>5, <2>1, <2>5, <2>6 DEF CodesSame
<1>7. CASE \E a \in Action : createVerificationCode(a)
  <2>1. PICK a \in Action : createVerificationCode(a)
    BY <1>7
  <2>2. action[a].pc = "code" /\ action[a] \in ActionState
    BY <2>1 DEF createVerificationCode, TypeOK, ActionOK
  <2>3. PICK state : state = action[a]
    OBVIOUS
  <2>4. state.user \in User /\ state.type \in CodeType /\ state.address \in Email
    BY <2>2, <2>3, StateByPc
  <2>5. [user |-> state.user, type |-> state.type, address |-> state.address] \in CodeRow
    BY <2>4 DEF CodeRow
  <2>6. PICK row \in CodeRow : row.user = state.user /\ row.type = state.type /\ row.address = state.address
    BY <2>5
  <2>7. Addressed(state)
    BY <1>0, <2>2, <2>3 DEF ActionsWarranted, Warranted
  <2>8. Addressed(row)
    BY <2>6, <2>7 DEF Addressed
  <2>9. Addressed(row)'
    BY <2>8, AddressedStays
  <2> QED BY <1>5, <2>1, <2>3, <2>6, <2>9 DEF createVerificationCode
<1> QED BY <1>3, <1>4, <1>6, <1>7, CodeSteps DEF CodeStep, Mails

(***************************************************************************)
(* An action that mails a code has the address from the user; one that     *)
(* creates a credential has the subject from an identity of its user.      *)
(***************************************************************************)
ActionStep ==
  UNCHANGED action \/ \E a \in Action : \E state : Goto(a, state) /\ Warranted(state)

LEMMA ElsewhereWarranted ==
  ASSUME NEW a \in Action, NEW state, state.pc \notin {"code", "reset", "create"},
         Goto(a, state) \/ Start(a, state)
  PROVE  ActionStep
BY DEF ActionStep, Warranted, Start

LEMMA EndsWarranted == ASSUME NEW a \in Action, Goto(a, Idle) PROVE ActionStep
BY DEF ActionStep, Warranted, Idle

LEMMA ActionStepsWarranted == TypeOK /\ Ownership /\ [Next]_vars => ActionStep
<1> SUFFICES ASSUME TypeOK, Ownership, [Next]_vars PROVE ActionStep
  OBVIOUS
<1>0. IdentitiesOwned /\ ActionsWarranted
  BY DEF Ownership
<1>1. CASE signUp \/ migrateUser \/ migrateAccount \/ createOrphanIdentity \/ resetByLink \/ Expire
           \/ verifyEmail \/ changeEmail \/ sendOneTime \/ createAnonymousUser \/ deleteUser
  BY <1>1 DEF signUp, migrateUser, migrateAccount, createOrphanIdentity, resetByLink, Expire,
     verifyEmail, changeEmail, changeEmailTo, sendOneTime, createAnonymousUser, deleteUser, ActionStep
<1>2. CASE \E a \in Action :
             \/ updateCredentialHash(a) \/ createVerificationCode(a) \/ consumeVerificationCode(a)
             \/ provisionOneTime(a) \/ createIdentity(a) \/ Stop(a)
  BY <1>2, EndsWarranted DEF updateCredentialHash, createVerificationCode,
     consumeVerificationCode, provisionOneTime, createIdentity, Stop
<1>3. ASSUME NEW a \in Action, verifyPassword(a) PROVE ActionStep
  <2>1. PICK u \in DOMAIN users : \E n \in PasswordAccount(u) :
          Start(a, [pc |-> "rehash", account |-> n, hash |-> accounts[n].hash])
    BY <1>3 DEF verifyPassword
  <2> QED BY <2>1, ElsewhereWarranted
<1>4. ASSUME NEW a \in Action, consumeVerifier(a) PROVE ActionStep
  <2>1. PICK v \in DOMAIN verifiers :
          Start(a, [pc |-> "provision", verifier |-> v, mail |-> verifiers[v]])
    BY <1>4 DEF consumeVerifier
  <2> QED BY <2>1, ElsewhereWarranted
<1>5. ASSUME NEW a \in Action, linkAnonymousAccount(a) PROVE ActionStep
  <2>1. PICK u \in DOMAIN users, e \in Email, p \in Password :
          Start(a, [pc |-> "link", user |-> u, email |-> e, password |-> p])
    BY <1>5 DEF linkAnonymousAccount
  <2> QED BY <2>1, ElsewhereWarranted
<1>6. ASSUME NEW a \in Action, linkAnonymousUser(a) \/ createAccount(a) PROVE ActionStep
  <2>1. action[a].pc \in {"link", "account"} /\ action[a] \in ActionState
    BY <1>6 DEF linkAnonymousUser, createAccount, TypeOK, ActionOK
  <2>2. PICK pc \in {"account", "identity"} : Goto(a, [action[a] EXCEPT !.pc = pc])
    BY <1>6 DEF linkAnonymousUser, createAccount, Goto
  <2>3. [action[a] EXCEPT !.pc = pc].pc = pc
    BY <2>1, StateByPc
  <2> QED BY <2>2, <2>3, ElsewhereWarranted
<1>7. ASSUME NEW a \in Action, createCredential(a) PROVE ActionStep
  <2>1. [action[a] EXCEPT !.pc = "consume"].pc = "consume"
    BY <1>7, CreateProvides
  <2> QED BY <1>7, <2>1, CreateProvides, ElsewhereWarranted
<1>8. ASSUME NEW a \in Action, sendCode(a) PROVE ActionStep
  <2>1. PICK u \in DOMAIN users, type \in CodeType, e \in Email :
          /\ type # "email_change" => getUserByEmail(e) = {u}
          /\ Start(a, [pc |-> "code", user |-> u, type |-> type, address |-> e])
    BY <1>8 DEF sendCode
  <2>2. type = "email_verification" => users[u].email = e
    BY <2>1 DEF getUserByEmail
  <2>3. Warranted([pc |-> "code", user |-> u, type |-> type, address |-> e])
    BY <2>2 DEF Warranted, Addressed, Known
  <2> QED BY <2>1, <2>3 DEF ActionStep, Start
<1>9. ASSUME NEW a \in Action, forgetPassword(a) PROVE ActionStep
  <2>1. PICK c \in DOMAIN codes, p \in Password :
          Start(a, [pc |-> "reset", code |-> c, password |-> p, row |-> codes[c],
                    subject |-> {identities[n].subject :
                                   n \in findIdentityByUserAndProvider(codes[c].user, "password")}])
    BY <1>9 DEF forgetPassword
  <2> DEFINE found == findIdentityByUserAndProvider(codes[c].user, "password")
             subject == {identities[n].subject : n \in found}
  <2>2. \A n \in found :
          n \in DOMAIN identities /\ identities[n].user = codes[c].user /\ identities[n].provider = "password"
    <3>1. {n \in DOMAIN identities : identities[n].user = codes[c].user
             /\ identities[n].provider = "password"} \subseteq Nat
      BY RowsAreNumbers
    <3> QED BY <3>1, FirstIsRow DEF findIdentityByUserAndProvider
  <2> HIDE DEF found
  <2>3. \A s \in subject : SubjectOf(s, codes[c].user)
    BY <1>0, <2>2 DEF IdentitiesOwned
  <2>4. Start(a, [pc |-> "reset", code |-> c, password |-> p, row |-> codes[c], subject |-> subject])
    BY <2>1 DEF found
  <2> HIDE DEF subject
  <2>5. Warranted([pc |-> "reset", code |-> c, password |-> p, row |-> codes[c], subject |-> subject])
    BY <2>3 DEF Warranted
  <2> QED BY <2>4, <2>5 DEF ActionStep, Start
<1>10. ASSUME NEW a \in Action, resetByOtp(a) PROVE ActionStep
  <2>1. action[a].pc = "reset" /\ action[a] \in ActionState /\ Warranted(action[a])
    BY <1>0, <1>10 DEF resetByOtp, TypeOK, ActionOK, ActionsWarranted
  <2> DEFINE state == [action[a] EXCEPT !.pc = "create"]
  <2>2. state.pc = "create" /\ state.subject = action[a].subject /\ state.row = action[a].row
    BY <2>1, StateByPc
  <2> HIDE DEF state
  <2>3. Warranted(state)
    BY <2>1, <2>2 DEF Warranted
  <2>4. UNCHANGED action \/ Goto(a, Idle) \/ Goto(a, state)
    BY <1>10 DEF resetByOtp, Goto, state
  <2> QED BY <2>3, <2>4, EndsWarranted DEF ActionStep
<1>11. CASE UNCHANGED vars
  BY <1>11 DEF vars, ActionStep
<1> QED
  BY <1>1, <1>2, <1>3, <1>4, <1>5, <1>6, <1>7, <1>8, <1>9, <1>10, <1>11
     DEF Next, PasswordNext, MailNext, AnonymousNext

LEMMA WarrantedStays ==
  ASSUME TypeOK, [Next]_vars, IdentityStep, UserStep, NEW state, Warranted(state)
  PROVE  Warranted(state)'
<1>1. state.pc = "code" => Addressed(state)'
  BY AddressedStays DEF Warranted
<1>2. ASSUME state.pc \in {"reset", "create"}, NEW s \in state.subject
      PROVE  SubjectOf(s, state.row.user)'
  <2>1. PICK u : u = state.row.user
    OBVIOUS
  <2>2. SubjectOf(s, u)'
    BY <1>2, <2>1, SubjectStays DEF Warranted
  <2> QED BY <2>1, <2>2
<1> QED BY <1>1, <1>2 DEF Warranted

LEMMA ActionsStayWarranted ==
  ASSUME TypeOK, Ownership, [Next]_vars, IdentityStep, UserStep, ActionStep
  PROVE  ActionsWarranted'
<1> SUFFICES ASSUME NEW a \in Action PROVE Warranted(action[a])'
  BY DEF ActionsWarranted
<1>1. PICK state : state = action'[a]
  OBVIOUS
<1>2. Warranted(state)
  <2>1. \A b \in Action : Warranted(action[b])
    BY DEF Ownership, ActionsWarranted
  <2>2. CASE UNCHANGED action
    BY <1>1, <2>1, <2>2
  <2>3. CASE \E b \in Action : \E next : Goto(b, next) /\ Warranted(next)
    BY <1>1, <2>1, <2>3 DEF Goto, TypeOK, ActionOK
  <2> QED BY <2>2, <2>3 DEF ActionStep
<1>3. Warranted(state)'
  BY <1>2, WarrantedStays
<1> QED BY <1>1, <1>3

-----------------------------------------------------------------------------
LEMMA OwnershipStays == TypeOK /\ Ownership /\ [Next]_vars => Ownership'
<1> SUFFICES ASSUME TypeOK, Ownership, [Next]_vars PROVE Ownership'
  OBVIOUS
<1>1. IdentityStep /\ UserStep /\ AccountStep /\ ActionStep
  BY IdentitySteps, UserSteps, AccountSteps, ActionStepsWarranted DEF Ownership
<1>2. NamesOld' /\ IdentitiesOwned'
  BY <1>1, IdentitiesStayOwned DEF IdentityStep, Ownership
<1>3. AccountsOwned' /\ CodesAddressed' /\ ActionsWarranted'
  BY <1>1, <1>2, AccountsStayOwned, CodesStayAddressed, ActionsStayWarranted
<1> QED BY <1>2, <1>3 DEF Ownership

(***************************************************************************)
(* In every reachable state the subjects of passwords and the addresses    *)
(* of verification codes stand for the users they were issued to.          *)
(***************************************************************************)
THEOREM RowsOwned == Spec => []Ownership
<1>1. Init => Ownership
  BY DEF Init, Empty, Idle, Ownership, NamesOld, IdentitiesOwned, AccountsOwned, CodesAddressed,
     ActionsWarranted, Warranted
<1> QED BY <1>1, OwnershipStays, TypesKept, PTL DEF Spec

(***************************************************************************)
(* A verified address was proven by its user, however mails, changes of    *)
(* address, deletions and sign-ins overlap; a linked user is left out.     *)
(***************************************************************************)
THEOREM AddressesProven == Spec => []VerifiedProven
<1>1. Init => VerifiedProven
  BY DEF Init, Empty, VerifiedProven
<1>2. TypeOK /\ Ownership /\ VerifiedProven /\ [Next]_vars => VerifiedProven'
  BY UserSteps, VerifiedStays
<1> QED BY <1>1, <1>2, RowsOwned, TypesKept, PTL DEF Spec

(***************************************************************************)
(* A stored password changes only in a step that spends a live reset code  *)
(* of the account's user.                                                  *)
(***************************************************************************)
THEOREM PasswordsNeedCodes == Spec => PasswordChangeSpendsCode
<1> DEFINE Charged ==
      \A n \in DOMAIN accounts \cap DOMAIN accounts' :
        accounts'[n].hash.password # accounts[n].hash.password => SpendsReset(accounts[n].user)
<1>1. TypeOK /\ Ownership /\ [Next]_vars => [Charged]_vars
  <2> SUFFICES ASSUME TypeOK, Ownership, [Next]_vars,
                      NEW n \in DOMAIN accounts \cap DOMAIN accounts',
                      accounts'[n].hash.password # accounts[n].hash.password
               PROVE  SpendsReset(accounts[n].user)
    OBVIOUS
  <2>0. AccountsOK /\ AccountsOwned /\ enrolled \in Nat
    BY DEF TypeOK, CountersOK, Ownership
  <2>1. CASE AccountsSame
    BY <2>1 DEF AccountsSame
  <2>2. CASE Enrols
    <3>1. n # FreshAccount
      BY <2>0 DEF AccountsOK, FreshAccount
    <3> QED BY <2>2, <3>1 DEF Enrols, With
  <2>3. CASE Rehashes
    BY <2>0, <2>3 DEF Rehashes, AccountsOK, AccountRow, Hash
  <2>4. CASE Drops
    BY <2>4 DEF Drops, KeptRows, Restricted
  <2>5. CASE Resets
    <3>1. PICK c \in DOMAIN codes :
            /\ n \in PasswordAccount(codes[c].user)
            /\ Live(c, "password_reset") /\ codes' = Consumed(c)
      BY <2>0, <2>5 DEF Resets, AccountsOK
    <3>2. PICK m \in findIdentityByUserAndProvider(codes[c].user, "password") :
            n \in findAccount("password", identities[m].subject)
      BY <3>1 DEF PasswordAccount
    <3>3. /\ m \in DOMAIN identities /\ identities[m].provider = "password"
          /\ identities[m].user = codes[c].user
      <4>1. {i \in DOMAIN identities : identities[i].user = codes[c].user
               /\ identities[i].provider = "password"} \subseteq Nat
        BY RowsAreNumbers
      <4> QED BY <3>2, <4>1, FirstIsRow DEF findIdentityByUserAndProvider
    <3>4. accounts[n].provider = "password" /\ accounts[n].subject = identities[m].subject
      <4>1. {i \in DOMAIN accounts : accounts[i].provider = "password"
               /\ accounts[i].subject = identities[m].subject} \subseteq Nat
        BY RowsAreNumbers
      <4> QED BY <3>2, <4>1, FirstIsRow DEF findAccount
    <3>5. accounts[n].user = codes[c].user
      BY <2>0, <3>3, <3>4 DEF AccountsOwned, SubjectOf
    <3>6. c \notin DOMAIN codes'
      BY <3>1 DEF Consumed, Restricted
    <3> QED BY <3>1, <3>5, <3>6 DEF SpendsReset
  <2> QED BY <2>1, <2>2, <2>3, <2>4, <2>5, AccountSteps DEF AccountStep
<1>2. [][Charged]_vars <=> PasswordChangeSpendsCode
  BY DEF PasswordChangeSpendsCode
<1> QED BY <1>1, <1>2, RowsOwned, TypesKept, PTL DEF Spec

-----------------------------------------------------------------------------
(***************************************************************************)
(* The credential a user signs in with is the oldest one, and stays.       *)
(***************************************************************************)
LEMMA FirstStays ==
  ASSUME NEW rows \in SUBSET Nat, NEW more \in SUBSET Nat, rows \subseteq more, rows # {},
         \A m \in more \ rows : \A n \in rows : n < m
  PROVE  First(more) = First(rows)
<1>1. PICK n \in rows : \A m \in rows : n =< m
  <2>1. PICK R : IsWellFoundedOn(R, Nat) /\ \A i, j \in Nat : <<i, j>> \in R <=> i < j
    BY NatOrder
  <2>2. IsWellFoundedOn(R, Nat) /\ rows \subseteq Nat /\ rows # {}
    BY <2>1
  <2>3. PICK i \in rows : \A j \in rows : ~(<<j, i>> \in R)
    BY <2>2, WFMin, Zenon
  <2>4. \A j \in rows : ~(j < i)
    BY <2>1, <2>3
  <2> QED BY <2>4
<1>2. n \in more /\ \A m \in more : n =< m
  BY <1>1
<1>3. \A S \in SUBSET Nat : n \in S /\ (\A m \in S : n =< m) => Min(S) = n
  <2> SUFFICES ASSUME NEW S \in SUBSET Nat, n \in S, \A m \in S : n =< m
               PROVE  Min(S) = n
    OBVIOUS
  <2>1. Min(S) \in S /\ \A m \in S : Min(S) =< m
    BY DEF Min
  <2>2. n \in Nat /\ Min(S) \in Nat /\ Min(S) =< n /\ n =< Min(S)
    BY <2>1
  <2>3. \A i, j \in Nat : i =< j /\ j =< i => i = j
    OBVIOUS
  <2> QED BY <2>2, <2>3
<1>4. Min(rows) = n /\ Min(more) = n
  BY <1>1, <1>2, <1>3
<1> QED BY <1>2, <1>4 DEF First

PasswordIdentities(u) ==
  {n \in DOMAIN identities : identities[n].user = u /\ identities[n].provider = "password"}
AccountsOf(s) ==
  {n \in DOMAIN accounts : accounts[n].provider = "password" /\ accounts[n].subject = s}

LEMMA PasswordIdentityStays ==
  ASSUME TypeOK, [Next]_vars, IdentityStep, NEW u, u \in DOMAIN users', PasswordIdentities(u) # {}
  PROVE  First(PasswordIdentities(u)') = First(PasswordIdentities(u))
<1>0. Fresh \in Nat /\ \A n \in DOMAIN identities : n \in Nat /\ n < Fresh
  BY DEF TypeOK, CountersOK, IdentitiesOK, Fresh
<1>1. PasswordIdentities(u) \subseteq PasswordIdentities(u)'
  BY DEF IdentityStep, PasswordIdentities
<1>2. PasswordIdentities(u)' \subseteq PasswordIdentities(u) \cup {Fresh}
  BY DEF IdentityStep, PasswordIdentities
<1>3. PasswordIdentities(u) \subseteq DOMAIN identities
  BY DEF PasswordIdentities
<1> HIDE DEF Fresh
<1>4. PasswordIdentities(u) \in SUBSET Nat /\ PasswordIdentities(u)' \in SUBSET Nat
  BY <1>0, <1>2, <1>3
<1>5. \A m \in PasswordIdentities(u)' \ PasswordIdentities(u) :
        \A n \in PasswordIdentities(u) : n < m
  BY <1>0, <1>2, <1>3
<1> QED BY <1>1, <1>4, <1>5, FirstStays

LEMMA PasswordRowStays ==
  ASSUME TypeOK, AccountStep, NEW s, AccountsOf(s) # {},
         \A n \in AccountsOf(s) : accounts[n].user \in DOMAIN users'
  PROVE  First(AccountsOf(s)') = First(AccountsOf(s))
<1>0. FreshAccount \in Nat /\ \A n \in DOMAIN accounts : n \in Nat /\ n < FreshAccount
  BY DEF TypeOK, CountersOK, AccountsOK, FreshAccount
<1>1. AccountsOf(s) \subseteq DOMAIN accounts'
  <2>1. CASE Drops
    BY <2>1 DEF Drops, KeptRows, Restricted, AccountsOf
  <2>2. CASE AccountsSame \/ Enrols \/ Rehashes \/ Resets
    BY <2>2 DEF AccountsSame, Enrols, With, Rehashes, Resets, AccountsOf
  <2> QED BY <2>1, <2>2 DEF AccountStep
<1>2. AccountsOf(s) \subseteq AccountsOf(s)'
  BY <1>1, AccountsKept DEF AccountsOf
<1>3. DOMAIN accounts' \subseteq DOMAIN accounts \cup {FreshAccount}
  BY DEF AccountStep, AccountsSame, Enrols, With, Rehashes, Resets, Drops, KeptRows, Restricted
<1>4. AccountsOf(s)' \subseteq AccountsOf(s) \cup {FreshAccount}
  BY <1>3, AccountsKept DEF AccountsOf
<1>5. AccountsOf(s) \subseteq DOMAIN accounts
  BY DEF AccountsOf
<1> HIDE DEF FreshAccount
<1>6. AccountsOf(s) \in SUBSET Nat /\ AccountsOf(s)' \in SUBSET Nat
  BY <1>0, <1>4, <1>5
<1>7. \A m \in AccountsOf(s)' \ AccountsOf(s) : \A n \in AccountsOf(s) : n < m
  BY <1>0, <1>4, <1>5
<1> QED BY <1>2, <1>6, <1>7, FirstStays

(***************************************************************************)
(* However many credentials migrations and concurrent resets give a user,  *)
(* the one a sign-in compares stays the one it was.                        *)
(***************************************************************************)
THEOREM CredentialsStay == Spec => CredentialStable
<1> DEFINE Stable ==
      \A u \in DOMAIN users \cap DOMAIN users' :
        PasswordAccount(u) # {} => PasswordAccount(u)' = PasswordAccount(u)
<1>1. TypeOK /\ Ownership /\ [Next]_vars => [Stable]_vars
  <2> SUFFICES ASSUME TypeOK, Ownership, [Next]_vars,
                      NEW u \in DOMAIN users \cap DOMAIN users', PasswordAccount(u) # {}
               PROVE  PasswordAccount(u)' = PasswordAccount(u)
    OBVIOUS
  <2>0. IdentityStep /\ AccountStep /\ AccountsOwned
    BY IdentitySteps, AccountSteps DEF Ownership
  <2> DEFINE row == First(PasswordIdentities(u))
  <2>1. PasswordAccount(u) = UNION {First(AccountsOf(identities[i].subject)) : i \in row}
    BY DEF PasswordAccount, findAccount, findIdentityByUserAndProvider, PasswordIdentities, AccountsOf
  <2>2. PasswordAccount(u)' =
          UNION {First(AccountsOf(identities[i].subject)') : i \in First(PasswordIdentities(u)')}
    BY DEF PasswordAccount, findAccount, findIdentityByUserAndProvider, PasswordIdentities, AccountsOf
  <2>3. PICK m \in row : First(AccountsOf(identities[m].subject)) # {}
    BY <2>1
  <2>4. row = {m} /\ PasswordIdentities(u) # {}
    BY <2>3 DEF First
  <2>5. m \in PasswordIdentities(u)
    <3>1. PasswordIdentities(u) \in SUBSET Nat
      BY RowsAreNumbers DEF PasswordIdentities
    <3> QED BY <2>3, <3>1, FirstIsRow
  <2>6. PICK s : s = identities[m].subject
    OBVIOUS
  <2>7. identities'[m].subject = s
    BY <2>0, <2>5, <2>6 DEF IdentityStep, PasswordIdentities
  <2>8. First(PasswordIdentities(u)') = {m}
    BY <2>0, <2>4, PasswordIdentityStays
  <2>9. First(AccountsOf(s)') = First(AccountsOf(s))
    <3>1. AccountsOf(s) # {}
      BY <2>3, <2>6 DEF First
    <3>2. \A n \in AccountsOf(s) : accounts[n].user = u
      BY <2>0, <2>5, <2>6 DEF AccountsOwned, SubjectOf, AccountsOf, PasswordIdentities
    <3> QED BY <2>0, <3>1, <3>2, PasswordRowStays
  <2>10. PasswordAccount(u) = First(AccountsOf(s))
    BY <2>1, <2>4, <2>6
  <2>11. PasswordAccount(u)' = First(AccountsOf(s)')
    BY <2>2, <2>7, <2>8 DEF AccountsOf
  <2> QED BY <2>9, <2>10, <2>11
<1>2. [][Stable]_vars <=> CredentialStable
  BY DEF CredentialStable
<1> QED BY <1>1, <1>2, RowsOwned, TypesKept, PTL DEF Spec

=============================================================================
