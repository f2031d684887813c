--------------------------- MODULE AccountsProofs ---------------------------
(***************************************************************************)
(* Proofs about Accounts.  A step is first reduced to what it does to one  *)
(* table: what inserts, changes or removes account rows, codes, verifiers. *)
(* The invariants are then preserved kind by kind.                         *)
(***************************************************************************)
EXTENDS Accounts, WellFoundedInduction, TLAPS

(***************************************************************************)
(* Tables.                                                                 *)
(***************************************************************************)
LEMMA WithFacts ==
  ASSUME NEW table, NEW k, NEW row
  PROVE  /\ DOMAIN With(table, k, row) = DOMAIN table \cup {k}
         /\ With(table, k, row)[k] = row
         /\ \A x \in DOMAIN table : x # k => With(table, k, row)[x] = table[x]
BY DEF With

LEMMA WithTyped ==
  ASSUME NEW table, NEW k, NEW row, NEW T, row \in T, table \in [DOMAIN table -> T]
  PROVE  With(table, k, row) \in [DOMAIN With(table, k, row) -> T]
BY DEF With

LEMMA RestrictedFacts ==
  ASSUME NEW table, NEW K
  PROVE  /\ DOMAIN Restricted(table, K) = K
         /\ \A x \in K : Restricted(table, K)[x] = table[x]
BY DEF Restricted

LEMMA RestrictedTyped ==
  ASSUME NEW table, NEW T, table \in [DOMAIN table -> T], NEW K \in SUBSET DOMAIN table
  PROVE  Restricted(table, K) \in [DOMAIN Restricted(table, K) -> T]
BY DEF Restricted

LEMMA NatOrder == \E R : IsWellFoundedOn(R, Nat) /\ \A m, n \in Nat : <<m, n>> \in R <=> m < n
<1>1. \A m, n \in Nat : <<m, n>> \in OpToRel(<, Nat) <=> m < n
  BY DEF OpToRel
<1> QED BY <1>1, NatLessThanWellFounded

\* An index page of one row is one of the rows.
LEMMA FirstIsRow ==
  ASSUME NEW rows \in SUBSET Nat
  PROVE  First(rows) \subseteq rows
<1>1. CASE rows = {}
  BY <1>1 DEF First
<1>2. CASE rows # {}
  <2>1. \E n \in rows : \A m \in rows : n =< m
    <3>1. PICK R : IsWellFoundedOn(R, Nat) /\ \A m, n \in Nat : <<m, n>> \in R <=> m < n
      BY NatOrder
    <3>4. IsWellFoundedOn(R, Nat) /\ rows \subseteq Nat
      BY <3>1
    <3>2. PICK n \in rows : \A m \in rows : ~(<<m, n>> \in R)
      BY <1>2, <3>4, WFMin, Zenon
    <3>3. \A m \in rows : ~(m < n)
      BY <3>1, <3>2
    <3> QED BY <3>3
  <2>2. Min(rows) \in rows
    BY <2>1 DEF Min
  <2> QED BY <1>2, <2>2 DEF First
<1> QED BY <1>1, <1>2

LEMMA RowsAreNumbers ==
  ASSUME TypeOK
  PROVE  /\ DOMAIN identities \subseteq Nat /\ DOMAIN accounts \subseteq Nat
         /\ DOMAIN codes \subseteq Nat /\ DOMAIN opened \subseteq Nat
BY DEF TypeOK, CountersOK, IdentitiesOK, AccountsOK, CodesOK, VerifiersOK

LEMMA LookupsFind ==
  ASSUME TypeOK, NEW u, NEW provider
  PROVE  /\ findIdentityByUserAndProvider(u, provider) \subseteq DOMAIN identities
         /\ PasswordAccount(u) \subseteq DOMAIN accounts
<1>1. findIdentityByUserAndProvider(u, provider) \subseteq DOMAIN identities
  BY RowsAreNumbers, FirstIsRow DEF findIdentityByUserAndProvider
<1>2. \A s : findAccount("password", s) \subseteq DOMAIN accounts
  BY RowsAreNumbers, FirstIsRow DEF findAccount
<1> QED BY <1>1, <1>2 DEF PasswordAccount

LEMMA ExistingIsIdentity ==
  ASSUME TypeOK, NEW provider, NEW key, NEW subject
  PROVE  ExistingIdentity(provider, key, subject) \subseteq DOMAIN identities
<1> DEFINE Of(provided) == {n \in DOMAIN identities : identities[n].provider = provider /\ provided[n]}
<1>1. \A provided : /\ Of(provided) \subseteq DOMAIN identities
                   /\ First(Of(provided)) \subseteq DOMAIN identities
  <2> SUFFICES ASSUME NEW provided
               PROVE  /\ Of(provided) \subseteq DOMAIN identities
                      /\ First(Of(provided)) \subseteq DOMAIN identities
    OBVIOUS
  <2>1. Of(provided) \subseteq DOMAIN identities
    OBVIOUS
  <2> QED BY <2>1, RowsAreNumbers, FirstIsRow
<1> HIDE DEF Of
<1>2. ExistingIdentity(provider, key, subject) =
        LET byKey == Of([n \in DOMAIN identities |-> identities[n].key = key])
        IN  IF byKey # {} THEN byKey
            ELSE First(Of([n \in DOMAIN identities |-> identities[n].subject = subject]))
  BY DEF ExistingIdentity, Of
<1> QED BY <1>1, <1>2

-----------------------------------------------------------------------------
(***************************************************************************)
(* What an action has under way stays typed.                               *)
(***************************************************************************)
LEMMA GotoTyped ==
  ASSUME TypeOK, NEW a \in Action, NEW state \in ActionState, Goto(a, state)
  PROVE  ActionOK'
BY DEF TypeOK, ActionOK, Goto

LEMMA IdleIsState == Idle \in ActionState
BY DEF ActionState

\* Moving on changes where an action is, and nothing it holds.
LEMMA PcTyped ==
  ASSUME NEW state, NEW pc
  PROVE  /\ state \in [pc : {"reset", "create", "consume"}, code : Nat, password : Password,
                       row : CodeRow, subject : SUBSET Name] /\ pc \in {"create", "consume"}
             => [state EXCEPT !.pc = pc] \in ActionState
         /\ state \in [pc : {"link", "account", "identity"}, user : User, email : Email,
                       password : Password] /\ pc \in {"account", "identity"}
             => [state EXCEPT !.pc = pc] \in ActionState
BY DEF ActionState

LEMMA StateByPc ==
  ASSUME NEW state \in ActionState
  PROVE  /\ state.pc = "code" =>
              state \in [pc : {"code"}, user : User, type : CodeType, address : Email]
         /\ state.pc = "rehash" => state \in [pc : {"rehash"}, account : Nat, hash : Hash]
         /\ state.pc \in {"reset", "create", "consume"} =>
              state \in [pc : {"reset", "create", "consume"}, code : Nat, password : Password,
                        row : CodeRow, subject : SUBSET Name]
         /\ state.pc = "provision" => state \in [pc : {"provision"}, verifier : Nat, mail : Mail]
         /\ state.pc \in {"link", "account", "identity"} =>
              state \in [pc : {"link", "account", "identity"}, user : User, email : Email,
                        password : Password]
BY DEF ActionState, Idle

-----------------------------------------------------------------------------
(***************************************************************************)
(* What a step does to the accounts.                                       *)
(***************************************************************************)
AccountsSame == UNCHANGED <<accounts, chosen, enrolled>>

\* An account is created with a password its user chose.
Enrols ==
  /\ CanEnrol
  /\ \E row \in AccountRow :
       /\ accounts' = With(accounts, FreshAccount, row)
       /\ chosen' = With(chosen, FreshAccount, row.hash.password)

Rehashes ==
  /\ \E n \in DOMAIN accounts : accounts' = [accounts EXCEPT ![n].hash.legacy = FALSE]
  /\ UNCHANGED <<chosen, enrolled>>

\* A reset spends a code of the user whose account it is.
Resets ==
  /\ \E n \in DOMAIN accounts, p \in Password, c \in DOMAIN codes :
       /\ n \in PasswordAccount(codes[c].user)
       /\ Live(c, "password_reset") /\ codes' = Consumed(c)
       /\ accounts' = [accounts EXCEPT ![n].hash = [password |-> p, legacy |-> FALSE]]
       /\ chosen' = [chosen EXCEPT ![n] = p]
  /\ UNCHANGED enrolled

\* Accounts go with their user.
Drops ==
  /\ \E u \in DOMAIN users : u \notin DOMAIN users' /\ accounts' = KeptRows(accounts, u)
  /\ chosen' = Restricted(chosen, DOMAIN accounts')
  /\ UNCHANGED enrolled

AccountStep == AccountsSame \/ Enrols \/ Rehashes \/ Resets \/ Drops

LEMMA NewAccount ==
  ASSUME NEW u \in User, NEW provider \in {"password", "email"}, NEW subject \in Name,
         NEW p \in Password, NEW legacy \in BOOLEAN, CanEnrol,
         accounts' = With(accounts, FreshAccount,
           [user |-> u, provider |-> provider, subject |-> subject,
            hash |-> [password |-> p, legacy |-> legacy]]),
         chosen' = With(chosen, FreshAccount, p)
  PROVE  Enrols
<1> DEFINE row == [user |-> u, provider |-> provider, subject |-> subject,
                   hash |-> [password |-> p, legacy |-> legacy]]
<1>1. row \in AccountRow /\ row.hash.password = p
  BY DEF AccountRow, Hash
<1> HIDE DEF row
<1>2. /\ accounts' = With(accounts, FreshAccount, row)
      /\ chosen' = With(chosen, FreshAccount, row.hash.password)
  BY <1>1 DEF row
<1> QED BY <1>1, <1>2 DEF Enrols

\* What a provision does to each table.
LEMMA ProvisionFacts ==
  ASSUME TypeOK,
         NEW u \in User, NEW provider \in OneTime \cup {"password"}, NEW key \in Name,
         NEW subject \in Name, NEW e \in Email, NEW verified \in BOOLEAN,
         NEW credential \in SUBSET Password, credential # {} => provider = "password",
         provisionFromIdentity(u, provider, key, subject, e, verified, credential)
  PROVE  /\ u \notin deleted
         /\ \E row \in UserRow : row.email = e /\ users' = With(users, u, row)
         /\ serial' = serial \/ CanInsert
         /\ IdentitiesOK'
         /\ AccountsSame \/ Enrols
<1> DEFINE existing == ExistingIdentity(provider, key, subject)
           n == IF existing = {} THEN Fresh ELSE CHOOSE i \in existing : TRUE
           row == [email |-> e,
                   verified |-> verified \/ (u \in getUserByEmail(e) /\ users[u].verified),
                   kind |-> IF u \in DOMAIN users THEN users[u].kind ELSE "registered"]
           identity == [user |-> u, provider |-> provider, key |-> key, subject |-> subject]
<1>1. /\ u \in Provisionable(existing, e)
      /\ users' = With(users, u, row)
      /\ identities' = With(identities, n, identity)
      /\ IF existing = {} THEN CanInsert ELSE UNCHANGED serial
  BY DEF provisionFromIdentity
<1>2. \/ AccountsSame
      \/ \E p \in credential :
           /\ accounts' = With(accounts, FreshAccount,
                [user |-> u, provider |-> provider, subject |-> subject,
                 hash |-> [password |-> p, legacy |-> FALSE]])
           /\ chosen' = With(chosen, FreshAccount, p)
           /\ CanEnrol
  BY DEF provisionFromIdentity, AccountsSame
<1>3. existing \subseteq DOMAIN identities
  BY ExistingIsIdentity
<1> HIDE DEF existing
<1>4. u \notin deleted
  <2>1. DOMAIN users \cap deleted = {} /\ getUserByEmail(e) \subseteq DOMAIN users
    BY DEF TypeOK, UsersOK, getUserByEmail
  <2>2. NewUser \cap deleted = {}
    BY DEF NewUser
  <2> QED BY <1>1, <2>1, <2>2 DEF Provisionable
<1>5. row \in UserRow /\ row.email = e
  <2>1. u \in DOMAIN users => users[u] \in UserRow
    BY DEF TypeOK, UsersOK
  <2> QED BY <2>1 DEF UserRow, getUserByEmail
<1>6. IdentitiesOK'
  <2>1. identity \in IdentityRow
    BY DEF IdentityRow
  <2>2. identities' \in [DOMAIN identities' -> IdentityRow]
    <3> HIDE DEF n, identity
    <3> QED BY <1>1, <2>1, WithTyped DEF TypeOK, IdentitiesOK
  <2>3. existing # {} => n \in DOMAIN identities
    BY <1>3
  <2>4. existing = {} => n = serial + 1 /\ serial' = serial + 1
    BY <1>1 DEF Fresh, CanInsert
  <2>5. DOMAIN identities' = DOMAIN identities \cup {n}
    <3> HIDE DEF n, identity
    <3> QED BY <1>1, WithFacts
  <2>6. serial \in Nat /\ DOMAIN identities \subseteq 1..serial
    BY DEF TypeOK, CountersOK, IdentitiesOK
  <2>7. DOMAIN identities' \subseteq 1..serial'
    <3> HIDE DEF n
    <3>1. CASE existing = {}
      BY <3>1, <2>4, <2>5, <2>6
    <3>2. CASE existing # {}
      BY <3>2, <1>1, <2>3, <2>5, <2>6
    <3> QED BY <3>1, <3>2
  <2> QED BY <2>2, <2>7 DEF IdentitiesOK
<1>7. AccountsSame \/ Enrols
  <2>1. SUFFICES ASSUME ~AccountsSame PROVE Enrols
    OBVIOUS
  <2>2. PICK p \in credential :
          /\ accounts' = With(accounts, FreshAccount,
               [user |-> u, provider |-> provider, subject |-> subject,
                hash |-> [password |-> p, legacy |-> FALSE]])
          /\ chosen' = With(chosen, FreshAccount, p)
          /\ CanEnrol
    BY <1>2, <2>1
  <2>3. p \in Password /\ provider \in {"password", "email"} /\ FALSE \in BOOLEAN
    BY <2>2
  <2> QED BY <2>2, <2>3, NewAccount
<1>8. serial' = serial \/ CanInsert
  BY <1>1
<1> HIDE DEF row
<1> QED BY <1>1, <1>4, <1>5, <1>6, <1>7, <1>8

LEMMA SignUpProvides ==
  ASSUME TypeOK, signUp
  PROVE  \E u \in User, e \in Email, p \in Password :
           /\ provisionFromIdentity(u, "password", Fresh, Fresh, e, FALSE, {p})
           /\ {p} \in SUBSET Password /\ Fresh \in Name /\ "password" \in OneTime \cup {"password"}
<1>1. Fresh \in Name
  BY DEF TypeOK, CountersOK, Fresh, Name
<1> QED BY <1>1 DEF signUp

LEMMA CreateProvides ==
  ASSUME TypeOK, NEW a \in Action, createCredential(a)
  PROVE  /\ Goto(a, [action[a] EXCEPT !.pc = "consume"])
         /\ action[a] \in [pc : {"reset", "create", "consume"}, code : Nat, password : Password,
                           row : CodeRow, subject : SUBSET Name]
         /\ UNCHANGED <<codes, verifiers, mailed, deleted, opened>>
         /\ \/ /\ Enrols
               /\ UNCHANGED <<users, identities, serial, proven>>
            \/ \E u \in User, e \in Email, p \in Password :
                 /\ provisionFromIdentity(u, "password", Fresh, Fresh, e, TRUE, {p})
                 /\ Prove(u, e)
                 /\ {p} \in SUBSET Password /\ Fresh \in Name
                 /\ "password" \in OneTime \cup {"password"}
<1>1. action[a] \in [pc : {"reset", "create", "consume"}, code : Nat, password : Password,
                    row : CodeRow, subject : SUBSET Name]
  <2>1. action[a] \in ActionState /\ action[a].pc = "create"
    BY DEF TypeOK, ActionOK, createCredential
  <2> QED BY <2>1, StateByPc
<1>2. Goto(a, [action[a] EXCEPT !.pc = "consume"])
  BY DEF createCredential, Goto
<1>3. UNCHANGED <<codes, verifiers, mailed, deleted, opened>>
  BY DEF createCredential
<1>4. /\ action[a].password \in Password /\ action[a].row \in CodeRow
      /\ action[a].subject \subseteq Name
  BY <1>1
<1>5. Fresh \in Name
  BY DEF TypeOK, CountersOK, Fresh, Name
<1>6. action[a].row.user \in User /\ action[a].row.address \in Email
  BY <1>4 DEF CodeRow
<1>7. CASE \E s \in action[a].subject :
             /\ accounts' = With(accounts, FreshAccount,
                  [user |-> action[a].row.user, provider |-> "password", subject |-> s,
                   hash |-> [password |-> action[a].password, legacy |-> FALSE]])
             /\ chosen' = With(chosen, FreshAccount, action[a].password)
             /\ CanEnrol
             /\ UNCHANGED <<users, identities, serial, proven>>
  <2>1. Enrols
    BY <1>4, <1>6, <1>7, NewAccount
  <2> QED BY <1>1, <1>2, <1>3, <1>7, <2>1
<1>8. CASE \E u \in User :
             /\ provisionFromIdentity(u, "password", Fresh, Fresh, action[a].row.address, TRUE,
                                      {action[a].password})
             /\ Prove(u, action[a].row.address)
  BY <1>1, <1>2, <1>3, <1>4, <1>5, <1>6, <1>8
<1> QED BY <1>7, <1>8 DEF createCredential

LEMMA OneTimeProvides ==
  ASSUME TypeOK, NEW a \in Action, provisionOneTime(a)
  PROVE  /\ action[a].verifier \in Nat
         /\ \E u \in User, provider \in OneTime, e \in Email :
              /\ provisionFromIdentity(u, provider, e, e, e, TRUE, {})
              /\ Prove(u, e)
              /\ {} \in SUBSET Password /\ e \in Name /\ provider \in OneTime \cup {"password"}
<1>1. action[a] \in [pc : {"provision"}, verifier : Nat, mail : Mail]
  <2>1. action[a] \in ActionState /\ action[a].pc = "provision"
    BY DEF TypeOK, ActionOK, provisionOneTime
  <2> QED BY <2>1, StateByPc
<1>2. action[a].mail.provider \in OneTime /\ action[a].mail.email \in Email
  BY <1>1 DEF Mail
<1> QED BY <1>1, <1>2 DEF provisionOneTime, Name

LEMMA AccountSteps == TypeOK /\ [Next]_vars => AccountStep
<1> SUFFICES ASSUME TypeOK, [Next]_vars PROVE AccountStep
  OBVIOUS
<1>1. CASE signUp
  BY <1>1, SignUpProvides, ProvisionFacts DEF AccountStep
<1>2. CASE migrateAccount
  <2>1. PICK u \in DOMAIN users, p \in Password :
          /\ accounts' = With(accounts, FreshAccount,
               [user |-> u, provider |-> "password", subject |-> u,
                hash |-> [password |-> p, legacy |-> TRUE]])
          /\ chosen' = With(chosen, FreshAccount, p)
          /\ CanEnrol
    BY <1>2 DEF migrateAccount
  <2>2. u \in User /\ u \in Name
    BY DEF TypeOK, UsersOK, Name
  <2>3. Enrols
    BY <2>1, <2>2, NewAccount
  <2> QED BY <2>3 DEF AccountStep
<1>3. ASSUME NEW c, NEW p \in Password, resetPassword(c, p) PROVE AccountStep
  <2>1. PasswordAccount(codes[c].user) \subseteq DOMAIN accounts
    BY LookupsFind
  <2>2. Resets
    BY <1>3, <2>1 DEF resetPassword, Resets, counters, Live
  <2> QED BY <2>2 DEF AccountStep
<1>4. CASE resetByLink
  BY <1>3, <1>4 DEF resetByLink
<1>5. CASE \E a \in Action : resetByOtp(a)
  <2>1. PICK a \in Action : resetByOtp(a)
    BY <1>5
  <2>2. action[a].pc = "reset" /\ action[a] \in ActionState
    BY <2>1 DEF resetByOtp, TypeOK, ActionOK
  <2>3. action[a].password \in Password
    BY <2>2, StateByPc
  <2>4. CASE resetPassword(action[a].code, action[a].password)
    BY <1>3, <2>3, <2>4
  <2>5. CASE UNCHANGED <<tables, counters, deleted, history>>
    BY <2>5 DEF tables, counters, history, AccountStep, AccountsSame
  <2> QED BY <2>1, <2>4, <2>5 DEF resetByOtp
<1>6. CASE \E a \in Action : updateCredentialHash(a)
  <2>1. PICK a \in Action : updateCredentialHash(a)
    BY <1>6
  <2>2. UNCHANGED <<chosen, enrolled>>
    BY <2>1 DEF updateCredentialHash, counters, history
  <2>3. CASE action[a].account \in DOMAIN accounts /\ accounts[action[a].account].hash = action[a].hash
    BY <2>1, <2>2, <2>3 DEF updateCredentialHash, Rehashes, AccountStep
  <2>4. CASE ~(action[a].account \in DOMAIN accounts /\ accounts[action[a].account].hash = action[a].hash)
    BY <2>1, <2>2, <2>4 DEF updateCredentialHash, AccountsSame, AccountStep
  <2> QED BY <2>3, <2>4
<1>7. CASE \E a \in Action : createCredential(a)
  BY <1>7, CreateProvides, ProvisionFacts DEF AccountStep
<1>8. CASE \E a \in Action : provisionOneTime(a)
  BY <1>8, OneTimeProvides, ProvisionFacts DEF AccountStep
<1>9. CASE \E a \in Action : createAccount(a)
  <2>1. PICK a \in Action : createAccount(a)
    BY <1>9
  <2>2. action[a].pc = "account" /\ action[a] \in ActionState
    BY <2>1 DEF createAccount, TypeOK, ActionOK
  <2>3. action[a].user \in User /\ action[a].email \in Name /\ action[a].password \in Password
    BY <2>2, StateByPc DEF Name
  <2>4. Enrols
    BY <2>1, <2>3, NewAccount DEF createAccount
  <2> QED BY <2>4 DEF AccountStep
<1>10. CASE deleteUser
  <2>1. PICK u \in DOMAIN users :
          users' = Restricted(users, DOMAIN users \ {u}) /\ accounts' = KeptRows(accounts, u)
    BY <1>10 DEF deleteUser
  <2>2. u \notin DOMAIN users'
    BY <2>1 DEF Restricted
  <2> QED BY <1>10, <2>1, <2>2 DEF deleteUser, counters, Drops, AccountStep
<1>11. CASE migrateUser \/ createOrphanIdentity \/ Expire \/ verifyEmail \/ changeEmail
              \/ sendOneTime \/ createAnonymousUser
  BY <1>11 DEF migrateUser, createOrphanIdentity, Expire, verifyEmail, changeEmail, changeEmailTo,
       sendOneTime, createAnonymousUser, counters, history, AccountsSame, AccountStep
<1>12. CASE \E a \in Action :
              \/ verifyPassword(a) \/ sendCode(a) \/ createVerificationCode(a)
              \/ forgetPassword(a) \/ consumeVerificationCode(a) \/ consumeVerifier(a)
              \/ linkAnonymousAccount(a) \/ linkAnonymousUser(a) \/ createIdentity(a) \/ Stop(a)
  BY <1>12 DEF verifyPassword, sendCode, createVerificationCode, forgetPassword,
       consumeVerificationCode, consumeVerifier, linkAnonymousAccount, linkAnonymousUser,
       createIdentity, Stop, tables, counters, history, AccountsSame, AccountStep
<1>13. CASE UNCHANGED vars
  BY <1>13 DEF vars, tables, counters, history, AccountsSame, AccountStep
<1> QED
  BY <1>1, <1>2, <1>4, <1>5, <1>6, <1>7, <1>8, <1>9, <1>10, <1>11, <1>12, <1>13
     DEF Next, PasswordNext, MailNext, AnonymousNext

LEMMA AccountsTyped == TypeOK /\ AccountStep => AccountsOK'
<1> SUFFICES ASSUME TypeOK, AccountStep PROVE AccountsOK'
  OBVIOUS
<1> USE DEF AccountsOK
<1>0. enrolled \in Nat /\ AccountsOK
  BY DEF TypeOK, CountersOK
<1>1. CASE AccountsSame
  BY <1>0, <1>1 DEF AccountsSame
<1>2. CASE Enrols
  <2>1. PICK row \in AccountRow :
          /\ accounts' = With(accounts, FreshAccount, row)
          /\ chosen' = With(chosen, FreshAccount, row.hash.password)
    BY <1>2 DEF Enrols
  <2>2. row.hash.password \in Password
    BY DEF AccountRow, Hash
  <2>3. enrolled' = enrolled + 1 /\ FreshAccount = enrolled + 1
    BY <1>2 DEF Enrols, CanEnrol, FreshAccount
  <2>4. DOMAIN accounts' = DOMAIN accounts \cup {FreshAccount}
    BY <2>1, WithFacts
  <2>5. accounts' \in [DOMAIN accounts' -> AccountRow]
    BY <1>0, <2>1, WithTyped
  <2>6. chosen' \in [DOMAIN accounts' -> Password]
    <3>1. DOMAIN chosen = DOMAIN accounts /\ chosen \in [DOMAIN chosen -> Password]
      BY <1>0
    <3>2. chosen' \in [DOMAIN chosen' -> Password]
      BY <2>1, <2>2, <3>1, WithTyped
    <3>3. DOMAIN chosen' = DOMAIN accounts \cup {FreshAccount}
      BY <2>1, <3>1 DEF With
    <3> QED BY <2>4, <3>2, <3>3
  <2>7. DOMAIN accounts' \subseteq 1..enrolled'
    BY <1>0, <2>3, <2>4
  <2> QED BY <2>5, <2>6, <2>7
<1>3. CASE Rehashes
  <2>1. PICK n \in DOMAIN accounts : accounts' = [accounts EXCEPT ![n].hash.legacy = FALSE]
    BY <1>3 DEF Rehashes
  <2>2. [accounts[n] EXCEPT !.hash.legacy = FALSE] \in AccountRow
    BY <1>0 DEF AccountRow, Hash
  <2> QED BY <1>0, <1>3, <2>1, <2>2 DEF Rehashes
<1>4. CASE Resets
  <2>1. PICK n \in DOMAIN accounts, p \in Password :
          /\ accounts' = [accounts EXCEPT ![n].hash = [password |-> p, legacy |-> FALSE]]
          /\ chosen' = [chosen EXCEPT ![n] = p]
    BY <1>4 DEF Resets
  <2>2. [accounts[n] EXCEPT !.hash = [password |-> p, legacy |-> FALSE]] \in AccountRow
    BY <1>0 DEF AccountRow, Hash
  <2> QED BY <1>0, <1>4, <2>1, <2>2 DEF Resets
<1>5. CASE Drops
  <2>1. PICK K \in SUBSET DOMAIN accounts : accounts' = Restricted(accounts, K)
    BY <1>5 DEF Drops, KeptRows
  <2>2. DOMAIN accounts' = K /\ accounts' \in [K -> AccountRow]
    BY <1>0, <2>1, RestrictedFacts, RestrictedTyped
  <2>3. chosen' \in [K -> Password]
    <3>1. chosen' = Restricted(chosen, K) /\ DOMAIN chosen = DOMAIN accounts
      BY <1>0, <1>5, <2>2 DEF Drops
    <3> QED BY <1>0, <3>1 DEF Restricted
  <2> QED BY <1>0, <1>5, <2>2, <2>3 DEF Drops
<1> QED BY <1>1, <1>2, <1>3, <1>4, <1>5 DEF AccountStep

\* A rehash keeps the password, every other change of it is one the user chose.
LEMMA PasswordsTold == TypeOK /\ PasswordKept /\ AccountStep => PasswordKept'
<1> SUFFICES ASSUME TypeOK, PasswordKept, AccountStep PROVE PasswordKept'
  OBVIOUS
<1> USE DEF PasswordKept
<1>0. AccountsOK
  BY DEF TypeOK
<1>1. CASE AccountsSame
  BY <1>1 DEF AccountsSame
<1>2. CASE Enrols
  <2>1. DOMAIN chosen = DOMAIN accounts
    BY <1>0 DEF AccountsOK
  <2>2. PICK row \in AccountRow :
          /\ accounts' = With(accounts, FreshAccount, row)
          /\ chosen' = With(chosen, FreshAccount, row.hash.password)
    BY <1>2 DEF Enrols
  <2>3. accounts'[FreshAccount] = row /\ chosen'[FreshAccount] = row.hash.password
    BY <2>2 DEF With
  <2>4. \A n \in DOMAIN accounts :
          n # FreshAccount => accounts'[n] = accounts[n] /\ chosen'[n] = chosen[n]
    BY <2>1, <2>2 DEF With
  <2>5. DOMAIN accounts' = DOMAIN accounts \cup {FreshAccount}
    BY <2>2, WithFacts
  <2> QED BY <2>3, <2>4, <2>5
<1>3. CASE Rehashes
  BY <1>0, <1>3 DEF Rehashes, AccountsOK, AccountRow, Hash
<1>4. CASE Resets
  BY <1>0, <1>4 DEF Resets, AccountsOK, AccountRow, Hash
<1>5. CASE Drops
  <2>1. PICK K \in SUBSET DOMAIN accounts : accounts' = Restricted(accounts, K)
    BY <1>5 DEF Drops, KeptRows
  <2> QED BY <1>5, <2>1, RestrictedFacts DEF Drops
<1> QED BY <1>1, <1>2, <1>3, <1>4, <1>5 DEF AccountStep

-----------------------------------------------------------------------------
(***************************************************************************)
(* What a step does to what is under way and to the one-time mails.        *)
(***************************************************************************)
ActionSame == UNCHANGED action

\* Some action moves on, and not to a provision.
Moves == \E a \in Action, state \in ActionState : Goto(a, state) /\ state.pc # "provision"

VerifiersSame == UNCHANGED <<verifiers, opened>>

Sends ==
  /\ CanMail
  /\ \E mail \in Mail : verifiers' = With(verifiers, FreshMail, mail)
  /\ opened' = With(opened, FreshMail, 0)

Lapses ==
  /\ \E v \in DOMAIN verifiers : verifiers' = WithoutVerifier(v)
  /\ UNCHANGED opened

Presents == \E a \in Action : consumeVerifier(a)
Opens == \E a \in Action : provisionOneTime(a)

MailStep ==
  \/ VerifiersSame /\ (ActionSame \/ Moves)
  \/ (Sends \/ Lapses) /\ ActionSame
  \/ Presents
  \/ Opens

LEMMA MoveOn ==
  ASSUME NEW a \in Action, NEW state \in ActionState, state.pc # "provision",
         Goto(a, state) \/ Start(a, state), VerifiersSame
  PROVE  MailStep
BY DEF Start, Moves, MailStep

LEMMA IdleOn ==
  ASSUME NEW a \in Action, Goto(a, Idle), VerifiersSame
  PROVE  MailStep
<1>1. Idle \in ActionState /\ Idle.pc # "provision"
  BY IdleIsState DEF Idle
<1> QED BY <1>1, MoveOn

LEMMA MailSteps == TypeOK /\ [Next]_vars => MailStep
<1> SUFFICES ASSUME TypeOK, [Next]_vars PROVE MailStep
  OBVIOUS
<1>1. CASE signUp \/ migrateUser \/ migrateAccount \/ createOrphanIdentity \/ resetByLink
  BY <1>1 DEF signUp, migrateUser, migrateAccount, createOrphanIdentity, resetByLink,
       resetPassword, history, MailStep, VerifiersSame, ActionSame
<1>2. ASSUME NEW a \in Action, verifyPassword(a) PROVE MailStep
  <2>0. PICK u \in DOMAIN users : \E n \in PasswordAccount(u) :
          Start(a, [pc |-> "rehash", account |-> n, hash |-> accounts[n].hash])
    BY <1>2 DEF verifyPassword
  <2>1. PICK n \in PasswordAccount(u) :
          Start(a, [pc |-> "rehash", account |-> n, hash |-> accounts[n].hash])
    BY <2>0
  <2>2. n \in DOMAIN accounts /\ n \in Nat
    BY LookupsFind, RowsAreNumbers
  <2>3. accounts[n].hash \in Hash
    BY <2>2 DEF TypeOK, AccountsOK, AccountRow
  <2>4. [pc |-> "rehash", account |-> n, hash |-> accounts[n].hash] \in ActionState
    BY <2>2, <2>3 DEF ActionState
  <2> QED BY <1>2, <2>1, <2>4, MoveOn DEF verifyPassword, tables, history, VerifiersSame
<1>3. ASSUME NEW a \in Action, updateCredentialHash(a) PROVE MailStep
  BY <1>3, IdleOn DEF updateCredentialHash, history, VerifiersSame
<1>4. CASE Expire
  BY <1>4 DEF Expire, history, MailStep, VerifiersSame, ActionSame, Lapses
<1>5. CASE verifyEmail \/ changeEmail
  BY <1>5 DEF verifyEmail, changeEmail, changeEmailTo, MailStep, VerifiersSame, ActionSame
<1>6. CASE sendOneTime
  BY <1>6 DEF sendOneTime, Mail, MailStep, Sends, ActionSame
<1>7. ASSUME NEW a \in Action, sendCode(a) PROVE MailStep
  <2>1. PICK u \in DOMAIN users, type \in CodeType, e \in Email :
          Start(a, [pc |-> "code", user |-> u, type |-> type, address |-> e])
    BY <1>7 DEF sendCode
  <2>2. u \in User
    BY DEF TypeOK, UsersOK
  <2>3. [pc |-> "code", user |-> u, type |-> type, address |-> e] \in ActionState
    BY <2>2 DEF ActionState
  <2> QED BY <1>7, <2>1, <2>3, MoveOn DEF sendCode, tables, history, VerifiersSame
<1>8. ASSUME NEW a \in Action, createVerificationCode(a) PROVE MailStep
  BY <1>8, IdleOn DEF createVerificationCode, history, VerifiersSame
<1>9. ASSUME NEW a \in Action, forgetPassword(a) PROVE MailStep
  <2>1. PICK c \in DOMAIN codes, p \in Password :
          Start(a, [pc |-> "reset", code |-> c, password |-> p, row |-> codes[c],
                    subject |-> {identities[n].subject :
                                   n \in findIdentityByUserAndProvider(codes[c].user, "password")}])
    BY <1>9 DEF forgetPassword
  <2> DEFINE subject == {identities[n].subject :
                           n \in findIdentityByUserAndProvider(codes[c].user, "password")}
  <2>2. c \in Nat /\ codes[c] \in CodeRow
    BY RowsAreNumbers DEF TypeOK, CodesOK
  <2>3. subject \subseteq Name
    <3>1. findIdentityByUserAndProvider(codes[c].user, "password") \subseteq DOMAIN identities
      BY LookupsFind
    <3> QED BY <3>1 DEF TypeOK, IdentitiesOK, IdentityRow
  <2> HIDE DEF subject
  <2>4. [pc |-> "reset", code |-> c, password |-> p, row |-> codes[c], subject |-> subject]
          \in ActionState
    BY <2>2, <2>3 DEF ActionState
  <2>5. Start(a, [pc |-> "reset", code |-> c, password |-> p, row |-> codes[c], subject |-> subject])
    BY <2>1 DEF subject
  <2> QED BY <1>9, <2>4, <2>5, MoveOn DEF forgetPassword, tables, history, VerifiersSame
<1>10. ASSUME NEW a \in Action, resetByOtp(a) PROVE MailStep
  <2>1. VerifiersSame
    BY <1>10 DEF resetByOtp, resetPassword, tables, history, VerifiersSame
  <2>2. action[a].pc = "reset" /\ action[a] \in ActionState
    BY <1>10 DEF resetByOtp, TypeOK, ActionOK
  <2>3. [action[a] EXCEPT !.pc = "create"] \in ActionState
    BY <2>2, StateByPc, PcTyped
  <2>4. [action[a] EXCEPT !.pc = "create"].pc # "provision"
    BY <2>2, StateByPc
  <2>5. Goto(a, Idle) \/ Goto(a, [action[a] EXCEPT !.pc = "create"])
    BY <1>10 DEF resetByOtp, Goto
  <2> QED BY <2>1, <2>3, <2>4, <2>5, IdleOn, MoveOn
<1>11. ASSUME NEW a \in Action, createCredential(a) PROVE MailStep
  <2>1. [action[a] EXCEPT !.pc = "consume"] \in ActionState
    BY <1>11, CreateProvides, PcTyped
  <2>2. [action[a] EXCEPT !.pc = "consume"].pc # "provision"
    BY <1>11, CreateProvides
  <2> QED BY <1>11, <2>1, <2>2, CreateProvides, MoveOn DEF VerifiersSame
<1>12. ASSUME NEW a \in Action, consumeVerificationCode(a) PROVE MailStep
  BY <1>12, IdleOn DEF consumeVerificationCode, history, VerifiersSame
<1>13. ASSUME NEW a \in Action, consumeVerifier(a) \/ provisionOneTime(a) PROVE MailStep
  BY <1>13 DEF MailStep, Presents, Opens
<1>14. CASE createAnonymousUser
  BY <1>14 DEF createAnonymousUser, history, MailStep, VerifiersSame, ActionSame
<1>15. ASSUME NEW a \in Action, linkAnonymousAccount(a) PROVE MailStep
  <2>1. PICK u \in DOMAIN users, e \in Email, p \in Password :
          Start(a, [pc |-> "link", user |-> u, email |-> e, password |-> p])
    BY <1>15 DEF linkAnonymousAccount
  <2>2. u \in User
    BY DEF TypeOK, UsersOK
  <2>3. [pc |-> "link", user |-> u, email |-> e, password |-> p] \in ActionState
    BY <2>2 DEF ActionState
  <2> QED BY <1>15, <2>1, <2>3, MoveOn DEF linkAnonymousAccount, tables, history, VerifiersSame
<1>16. ASSUME NEW a \in Action, linkAnonymousUser(a) \/ createAccount(a) PROVE MailStep
  <2>1. action[a].pc \in {"link", "account"} /\ action[a] \in ActionState
    BY <1>16 DEF linkAnonymousUser, createAccount, TypeOK, ActionOK
  <2>2. PICK pc \in {"account", "identity"} : Goto(a, [action[a] EXCEPT !.pc = pc])
    BY <1>16 DEF linkAnonymousUser, createAccount, Goto
  <2>3. [action[a] EXCEPT !.pc = pc] \in ActionState
    BY <2>1, StateByPc, PcTyped
  <2>4. [action[a] EXCEPT !.pc = pc].pc # "provision"
    BY <2>1, StateByPc
  <2>5. VerifiersSame
    BY <1>16 DEF linkAnonymousUser, createAccount, VerifiersSame
  <2> QED BY <2>2, <2>3, <2>4, <2>5, MoveOn
<1>17. ASSUME NEW a \in Action, createIdentity(a) \/ Stop(a) PROVE MailStep
  BY <1>17, IdleOn DEF createIdentity, Stop, tables, history, VerifiersSame
<1>18. CASE deleteUser
  BY <1>18 DEF deleteUser, MailStep, VerifiersSame, ActionSame
<1>19. CASE UNCHANGED vars
  BY <1>19 DEF vars, tables, history, MailStep, VerifiersSame, ActionSame
<1> QED
  BY <1>1, <1>2, <1>3, <1>4, <1>5, <1>6, <1>7, <1>8, <1>9, <1>10, <1>11, <1>12, <1>13, <1>14,
     <1>15, <1>16, <1>17, <1>18, <1>19 DEF Next, PasswordNext, MailNext, AnonymousNext

-----------------------------------------------------------------------------
(***************************************************************************)
(* The counters: a step inserts a row of each kind, if there is room.      *)
(***************************************************************************)
SerialStep == serial' = serial \/ CanInsert
MailedStep == mailed' = mailed \/ CanMail

LEMMA CountersMove ==
  ASSUME TypeOK, [Next]_vars
  PROVE  /\ SerialStep /\ MailedStep
         /\ serial' = serial \/ mailed' = mailed \/ RoomFor(2)
<1>1. CASE signUp
  <2>1. SerialStep
    BY <1>1, SignUpProvides, ProvisionFacts DEF SerialStep
  <2>2. mailed' = mailed \/ (CanMail /\ RoomFor(2))
    BY <1>1 DEF signUp
  <2> QED BY <2>1, <2>2 DEF MailedStep
<1>2. CASE \E a \in Action : createCredential(a)
  <2>1. mailed' = mailed
    BY <1>2, CreateProvides
  <2>2. SerialStep
    BY <1>2, CreateProvides, ProvisionFacts DEF SerialStep
  <2> QED BY <2>1, <2>2 DEF MailedStep
<1>3. CASE \E a \in Action : provisionOneTime(a)
  <2>1. mailed' = mailed
    BY <1>3 DEF provisionOneTime
  <2>2. SerialStep
    BY <1>3, OneTimeProvides, ProvisionFacts DEF SerialStep
  <2> QED BY <2>1, <2>2 DEF MailedStep
<1>4. CASE migrateUser \/ migrateAccount \/ createOrphanIdentity \/ resetByLink
  BY <1>4 DEF migrateUser, migrateAccount, createOrphanIdentity, resetByLink, resetPassword,
       counters, SerialStep, MailedStep
<1>5. CASE Expire \/ verifyEmail \/ changeEmail \/ sendOneTime \/ createAnonymousUser \/ deleteUser
  BY <1>5 DEF Expire, verifyEmail, changeEmail, changeEmailTo, sendOneTime, createAnonymousUser,
       deleteUser, counters, SerialStep, MailedStep
<1>6. CASE \E a \in Action :
             \/ verifyPassword(a) \/ updateCredentialHash(a) \/ sendCode(a)
             \/ createVerificationCode(a) \/ forgetPassword(a)
  BY <1>6 DEF verifyPassword, updateCredentialHash, sendCode, createVerificationCode,
       forgetPassword, counters, SerialStep, MailedStep
<1>7. CASE \E a \in Action :
             \/ resetByOtp(a) \/ consumeVerificationCode(a) \/ consumeVerifier(a)
             \/ linkAnonymousAccount(a) \/ linkAnonymousUser(a)
  BY <1>7 DEF resetByOtp, resetPassword, consumeVerificationCode, consumeVerifier,
       linkAnonymousAccount, linkAnonymousUser, counters, SerialStep, MailedStep
<1>8. CASE \E a \in Action : createAccount(a) \/ createIdentity(a) \/ Stop(a)
  BY <1>8 DEF createAccount, createIdentity, Stop, counters, SerialStep, MailedStep
<1>9. CASE UNCHANGED vars
  BY <1>9 DEF vars, counters, SerialStep, MailedStep
<1> QED
  BY <1>1, <1>2, <1>3, <1>4, <1>5, <1>6, <1>7, <1>8, <1>9
     DEF Next, PasswordNext, MailNext, AnonymousNext

LEMMA CountersTyped ==
  ASSUME TypeOK, [Next]_vars
  PROVE  CountersOK' /\ mailed =< mailed' /\ serial =< serial'
<1>1. CountersOK
  BY DEF TypeOK
<1>2. enrolled' = enrolled \/ enrolled' = enrolled + 1
  BY AccountSteps DEF AccountStep, AccountsSame, Enrols, Rehashes, Resets, Drops, CanEnrol,
     FreshAccount
<1>3. serial' = serial \/ (serial' = serial + 1 /\ serial + mailed + 1 =< MaxInserts)
  BY CountersMove DEF SerialStep, CanInsert, RoomFor, Fresh
<1>4. mailed' = mailed \/ (mailed' = mailed + 1 /\ serial + mailed + 1 =< MaxInserts)
  BY CountersMove DEF MailedStep, CanMail, RoomFor, FreshMail
<1>5. serial' = serial \/ mailed' = mailed \/ serial + mailed + 2 =< MaxInserts
  BY CountersMove DEF RoomFor
<1> QED BY <1>1, <1>2, <1>3, <1>4, <1>5, AccountsAssumption DEF CountersOK

-----------------------------------------------------------------------------
(***************************************************************************)
(* A one-time mail is in the table, or in the hands of one action, or      *)
(* spent: only the action that took it out opens a session with it.        *)
(***************************************************************************)
Held(a) == action[a].pc = "provision"

MailsHeld ==
  /\ \A v \in DOMAIN verifiers : opened[v] = 0
  /\ \A a \in Action :
       Held(a) => /\ action[a].verifier \in DOMAIN opened \ DOMAIN verifiers
                  /\ opened[action[a].verifier] = 0
  /\ \A a, b \in Action :
       Held(a) /\ Held(b) /\ action[a].verifier = action[b].verifier => a = b

LEMMA Presented ==
  ASSUME TypeOK, Presents
  PROVE  \E a \in Action, v \in DOMAIN verifiers :
           /\ verifiers' = WithoutVerifier(v) /\ opened' = opened
           /\ action[a] = Idle
           /\ action' = [action EXCEPT ![a] =
                           [pc |-> "provision", verifier |-> v, mail |-> verifiers[v]]]
           /\ [pc |-> "provision", verifier |-> v, mail |-> verifiers[v]] \in ActionState
<1>1. PICK a \in Action, v \in DOMAIN verifiers :
        /\ verifiers' = WithoutVerifier(v)
        /\ Start(a, [pc |-> "provision", verifier |-> v, mail |-> verifiers[v]])
        /\ opened' = opened
  BY DEF Presents, consumeVerifier, history
<1>2. v \in Nat /\ verifiers[v] \in Mail
  BY DEF TypeOK, CountersOK, VerifiersOK
<1>3. [pc |-> "provision", verifier |-> v, mail |-> verifiers[v]] \in ActionState
  BY <1>2 DEF ActionState
<1> QED BY <1>1, <1>3 DEF Start, Goto

LEMMA ActionTyped == TypeOK /\ MailStep => ActionOK'
<1> SUFFICES ASSUME TypeOK, MailStep PROVE ActionOK'
  OBVIOUS
<1>0. ActionOK
  BY DEF TypeOK
<1>1. CASE ActionSame
  BY <1>0, <1>1 DEF ActionSame, ActionOK
<1>2. CASE Moves
  BY <1>2, GotoTyped DEF Moves
<1>3. CASE Presents
  <2>1. PICK a \in Action, state \in ActionState : action' = [action EXCEPT ![a] = state]
    BY <1>3, Presented
  <2> QED BY <1>0, <2>1 DEF ActionOK
<1>4. CASE Opens
  BY <1>4, IdleIsState, GotoTyped DEF Opens, provisionOneTime
<1> QED BY <1>1, <1>2, <1>3, <1>4 DEF MailStep

LEMMA VerifiersTyped ==
  ASSUME TypeOK, [Next]_vars
  PROVE  VerifiersOK'
<1>0. /\ mailed \in Nat /\ mailed' \in Nat /\ mailed =< mailed' /\ VerifiersOK
  BY CountersTyped DEF TypeOK, CountersOK
<1> USE DEF VerifiersOK
<1>1. CASE VerifiersSame
  BY <1>0, <1>1 DEF VerifiersSame
<1>2. CASE Sends
  <2>1. PICK mail \in Mail : verifiers' = With(verifiers, FreshMail, mail)
    BY <1>2 DEF Sends
  <2>2. opened' = With(opened, FreshMail, 0) /\ FreshMail = mailed + 1 /\ mailed' = mailed + 1
    BY <1>2 DEF Sends, CanMail, FreshMail
  <2>3. /\ verifiers' \in [DOMAIN verifiers' -> Mail]
        /\ DOMAIN verifiers' = DOMAIN verifiers \cup {FreshMail}
    BY <1>0, <2>1, WithTyped, WithFacts
  <2>4. opened' \in [DOMAIN opened' -> Nat] /\ DOMAIN opened' = DOMAIN opened \cup {FreshMail}
    BY <1>0, <2>2, WithTyped, WithFacts
  <2> QED BY <1>0, <2>2, <2>3, <2>4
<1>3. CASE Lapses \/ Presents
  <2>1. PICK v \in DOMAIN verifiers : verifiers' = WithoutVerifier(v) /\ opened' = opened
    BY <1>3, Presented DEF Lapses
  <2>2. verifiers' \in [DOMAIN verifiers' -> Mail] /\ DOMAIN verifiers' \subseteq DOMAIN verifiers
    BY <1>0, <2>1 DEF WithoutVerifier, Restricted
  <2> QED BY <1>0, <2>1, <2>2
<1>4. CASE Opens
  <2>1. PICK v : opened' = [opened EXCEPT ![v] = @ + 1] /\ verifiers' = verifiers
    BY <1>4 DEF Opens, provisionOneTime
  <2>2. DOMAIN opened' = DOMAIN opened /\ opened' = [w \in DOMAIN opened |-> opened'[w]]
    BY <1>0, <2>1
  <2>3. \A w \in DOMAIN opened : opened[w] \in Nat /\ opened'[w] \in {opened[w], opened[w] + 1}
    BY <1>0, <2>1
  <2>4. \A w \in DOMAIN opened : opened'[w] \in Nat
    BY <2>3
  <2>5. opened' \in [DOMAIN opened' -> Nat]
    BY <2>2, <2>4
  <2> QED BY <1>0, <2>1, <2>2, <2>5
<1> QED BY <1>1, <1>2, <1>3, <1>4, MailSteps DEF MailStep

LEMMA MailsStayHeld ==
  ASSUME TypeOK, MailsHeld, VerifierSingleUse, MailStep
  PROVE  MailsHeld' /\ VerifierSingleUse'
<1>0. /\ VerifiersOK /\ ActionOK /\ mailed \in Nat
  BY DEF TypeOK, CountersOK
<1> USE DEF MailsHeld, VerifierSingleUse, Held
<1>1. CASE VerifiersSame /\ ActionSame
  BY <1>1 DEF VerifiersSame, ActionSame
<1>2. CASE VerifiersSame /\ Moves
  <2>1. PICK a \in Action, state \in ActionState :
          action' = [action EXCEPT ![a] = state] /\ state.pc # "provision"
    BY <1>2 DEF Moves, Goto
  <2>2. \A b \in Action : Held(b)' => Held(b) /\ action'[b] = action[b]
    BY <1>0, <2>1 DEF ActionOK
  <2> QED BY <1>2, <2>2 DEF VerifiersSame
<1>3. CASE Sends /\ ActionSame
  <2>1. PICK mail : verifiers' = With(verifiers, FreshMail, mail)
    BY <1>3 DEF Sends
  <2>2. opened' = With(opened, FreshMail, 0) /\ FreshMail = mailed + 1
    BY <1>3 DEF Sends, FreshMail
  <2>3. /\ DOMAIN verifiers' = DOMAIN verifiers \cup {FreshMail}
        /\ DOMAIN opened' = DOMAIN opened \cup {FreshMail}
    BY <2>1, <2>2, WithFacts
  <2>4. FreshMail \notin DOMAIN opened
    BY <1>0, <2>2 DEF VerifiersOK
  <2>5. opened'[FreshMail] = 0 /\ \A v \in DOMAIN opened : opened'[v] = opened[v]
    BY <2>2, <2>4 DEF With
  <2>6. DOMAIN verifiers \subseteq DOMAIN opened
    BY <1>0 DEF VerifiersOK
  <2> QED BY <1>3, <2>3, <2>4, <2>5, <2>6 DEF ActionSame
<1>4. CASE Lapses /\ ActionSame
  BY <1>4 DEF Lapses, ActionSame, WithoutVerifier, Restricted
<1>5. CASE Presents
  <2>1. PICK a \in Action, v \in DOMAIN verifiers :
           /\ verifiers' = WithoutVerifier(v) /\ opened' = opened
           /\ action' = [action EXCEPT ![a] =
                           [pc |-> "provision", verifier |-> v, mail |-> verifiers[v]]]
    BY <1>5, Presented
  <2>2. DOMAIN verifiers' = DOMAIN verifiers \ {v}
    BY <2>1 DEF WithoutVerifier, Restricted
  <2>3. v \in DOMAIN opened /\ opened[v] = 0
    BY <1>0 DEF VerifiersOK
  <2>4. Held(a)' /\ action'[a].verifier = v
    BY <1>0, <2>1 DEF ActionOK
  <2>5. \A b \in Action : b # a => action'[b] = action[b]
    BY <1>0, <2>1 DEF ActionOK
  <2>6. \A b \in Action : b # a /\ Held(b) => action[b].verifier # v
    OBVIOUS
  <2> QED BY <2>1, <2>2, <2>3, <2>4, <2>5, <2>6
<1>6. CASE Opens
  <2>1. PICK a \in Action : provisionOneTime(a)
    BY <1>6 DEF Opens
  <2> DEFINE v == action[a].verifier
  <2>2. /\ Held(a) /\ opened' = [opened EXCEPT ![v] = @ + 1] /\ verifiers' = verifiers
        /\ action' = [action EXCEPT ![a] = Idle]
    BY <2>1 DEF provisionOneTime, Goto
  <2>3. v \in DOMAIN opened \ DOMAIN verifiers /\ opened[v] = 0
    BY <2>2
  <2>4. \A w \in DOMAIN opened : opened'[w] = IF w = v THEN 1 ELSE opened[w]
    BY <2>2, <2>3
  <2>5. \A b \in Action : Held(b)' => b # a /\ Held(b) /\ action'[b] = action[b]
    BY <1>0, <2>2 DEF ActionOK, Idle
  <2>6. \A b \in Action : Held(b)' => action[b].verifier # v
    BY <2>2, <2>5
  <2>7. DOMAIN opened' = DOMAIN opened /\ DOMAIN verifiers \subseteq DOMAIN opened
    BY <1>0, <2>2 DEF VerifiersOK
  <2> HIDE DEF v
  <2> QED BY <2>2, <2>3, <2>4, <2>5, <2>6, <2>7
<1> QED BY <1>1, <1>2, <1>3, <1>4, <1>5, <1>6 DEF MailStep

-----------------------------------------------------------------------------
(***************************************************************************)
(* What a step does to the codes.                                          *)
(***************************************************************************)
CodesSame == codes' = codes

Mails ==
  /\ CanMail
  /\ signUp \/ \E a \in Action : createVerificationCode(a)
  /\ \E row \in CodeRow : codes' = NewCode(row.user, row.type, row.address)

Spends == \E K \in SUBSET DOMAIN codes : codes' = Restricted(codes, K)

CodeStep == CodesSame \/ Mails \/ Spends

LEMMA NewMail ==
  ASSUME NEW u \in User, NEW type \in CodeType, NEW e \in Email, CanMail,
         signUp \/ \E a \in Action : createVerificationCode(a),
         codes' = NewCode(u, type, e)
  PROVE  CodeStep
<1> DEFINE row == [user |-> u, type |-> type, address |-> e]
<1>1. row \in CodeRow /\ codes' = NewCode(row.user, row.type, row.address)
  BY DEF CodeRow
<1> HIDE DEF row
<1> QED BY <1>1 DEF CodeStep, Mails

LEMMA CodeSpent == ASSUME NEW c, codes' = Consumed(c) PROVE CodeStep
BY DEF Consumed, Spends, CodeStep

LEMMA CodeSteps == TypeOK /\ [Next]_vars => CodeStep
<1> SUFFICES ASSUME TypeOK, [Next]_vars PROVE CodeStep
  OBVIOUS
<1>1. CASE signUp
  <2>1. PICK u \in User, e \in Email :
          (codes' = NewCode(u, "email_verification", e) /\ CanMail) \/ UNCHANGED codes
    BY <1>1 DEF signUp
  <2>2. "email_verification" \in CodeType
    BY DEF CodeType
  <2> QED BY <1>1, <2>1, <2>2, NewMail DEF CodeStep, CodesSame
<1>2. CASE \E a \in Action : createVerificationCode(a)
  <2>1. PICK a \in Action : createVerificationCode(a)
    BY <1>2
  <2>2. action[a].pc = "code" /\ action[a] \in ActionState
    BY <2>1 DEF createVerificationCode, TypeOK, ActionOK
  <2>3. action[a].user \in User /\ action[a].type \in CodeType /\ action[a].address \in Email
    BY <2>2, StateByPc
  <2> QED BY <2>1, <2>3, NewMail DEF createVerificationCode
<1>3. ASSUME NEW c, NEW p, resetPassword(c, p) PROVE CodeStep
  BY <1>3, CodeSpent DEF resetPassword
<1>4. CASE resetByLink
  BY <1>3, <1>4 DEF resetByLink
<1>5. CASE \E a \in Action : resetByOtp(a)
  BY <1>3, <1>5 DEF resetByOtp, tables, CodeStep, CodesSame
<1>6. CASE Expire \/ verifyEmail \/ \E a \in Action : consumeVerificationCode(a)
  BY <1>6, CodeSpent DEF Expire, verifyEmail, consumeVerificationCode, CodeStep, CodesSame
<1>7. CASE changeEmail
  BY <1>7, CodeSpent DEF changeEmail, changeEmailTo
<1>8. CASE deleteUser
  BY <1>8 DEF deleteUser, KeptRows, CodeStep, Spends
<1>9. CASE \E a \in Action : createCredential(a)
  BY <1>9, CreateProvides DEF CodeStep, CodesSame
<1>10. CASE migrateUser \/ migrateAccount \/ createOrphanIdentity \/ sendOneTime \/ createAnonymousUser
  BY <1>10 DEF migrateUser, migrateAccount, createOrphanIdentity, sendOneTime,
       createAnonymousUser, CodeStep, CodesSame
<1>11. CASE \E a \in Action :
              \/ verifyPassword(a) \/ updateCredentialHash(a) \/ sendCode(a) \/ forgetPassword(a)
              \/ consumeVerifier(a) \/ provisionOneTime(a) \/ linkAnonymousAccount(a)
              \/ linkAnonymousUser(a) \/ createAccount(a) \/ createIdentity(a) \/ Stop(a)
  BY <1>11 DEF verifyPassword, updateCredentialHash, sendCode, forgetPassword, consumeVerifier,
       provisionOneTime, linkAnonymousAccount, linkAnonymousUser, createAccount, createIdentity,
       Stop, tables, CodeStep, CodesSame
<1>12. CASE UNCHANGED vars
  BY <1>12 DEF vars, tables, CodeStep, CodesSame
<1> QED
  BY <1>1, <1>2, <1>4, <1>5, <1>6, <1>7, <1>8, <1>9, <1>10, <1>11, <1>12
     DEF Next, PasswordNext, MailNext, AnonymousNext

\* The codes of other users and purposes that a new one leaves alone.
OtherCodes(row) ==
  {c \in DOMAIN codes : ~(codes[c].user = row.user /\ codes[c].type = row.type)}

LEMMA NewCodeFacts ==
  ASSUME TypeOK, NEW row \in CodeRow
  PROVE  LET new == NewCode(row.user, row.type, row.address)
         IN  /\ DOMAIN new = OtherCodes(row) \cup {FreshMail}
             /\ new[FreshMail] = row
             /\ \A c \in OtherCodes(row) : new[c] = codes[c]
<1>1. CodeOf(row.user, row.type, row.address) = row
  BY DEF CodeOf, CodeRow
<1>2. NewCode(row.user, row.type, row.address) = With(Restricted(codes, OtherCodes(row)), FreshMail, row)
  BY <1>1 DEF NewCode, OtherCodes
<1>3. FreshMail \notin OtherCodes(row)
  BY DEF TypeOK, CountersOK, CodesOK, OtherCodes, FreshMail
<1> HIDE DEF OtherCodes
<1> QED BY <1>2, <1>3 DEF With, Restricted

LEMMA CodesTyped ==
  ASSUME TypeOK, [Next]_vars
  PROVE  CodesOK'
<1>0. /\ mailed \in Nat /\ mailed' \in Nat /\ mailed =< mailed' /\ CodesOK
  BY CountersTyped DEF TypeOK, CountersOK
<1> USE DEF CodesOK
<1>1. CASE CodesSame
  BY <1>0, <1>1 DEF CodesSame
<1>2. CASE Mails
  <2>1. PICK row \in CodeRow : codes' = NewCode(row.user, row.type, row.address)
    BY <1>2 DEF Mails
  <2>2. codes' = With(Restricted(codes, OtherCodes(row)), FreshMail, row)
    BY <2>1 DEF NewCode, OtherCodes, CodeOf, CodeRow
  <2>3. OtherCodes(row) \subseteq DOMAIN codes
    BY DEF OtherCodes
  <2>4. Restricted(codes, OtherCodes(row)) \in [DOMAIN Restricted(codes, OtherCodes(row)) -> CodeRow]
    BY <1>0, <2>3, RestrictedTyped
  <2>5. codes' \in [DOMAIN codes' -> CodeRow]
    BY <2>2, <2>4, WithTyped
  <2>6. DOMAIN codes' = OtherCodes(row) \cup {FreshMail}
    BY <2>1, NewCodeFacts
  <2>7. FreshMail = mailed + 1 /\ mailed' = mailed + 1
    BY <1>2 DEF Mails, CanMail, FreshMail
  <2> QED BY <1>0, <2>3, <2>5, <2>6, <2>7
<1>3. CASE Spends
  <2>1. PICK K \in SUBSET DOMAIN codes : codes' = Restricted(codes, K)
    BY <1>3 DEF Spends
  <2> QED BY <1>0, <2>1, RestrictedFacts, RestrictedTyped
<1> QED BY <1>1, <1>2, <1>3, CodeSteps DEF CodeStep

LEMMA CodesStaySingle ==
  ASSUME TypeOK, OneLiveCode, CodeStep
  PROVE  OneLiveCode'
<1> USE DEF OneLiveCode
<1>1. CASE CodesSame
  BY <1>1 DEF CodesSame
<1>2. CASE Mails
  <2>1. PICK row \in CodeRow : codes' = NewCode(row.user, row.type, row.address)
    BY <1>2 DEF Mails
  <2>2. /\ DOMAIN codes' = OtherCodes(row) \cup {FreshMail}
        /\ codes'[FreshMail] = row
        /\ \A c \in OtherCodes(row) : codes'[c] = codes[c]
    BY <2>1, NewCodeFacts
  <2> QED BY <2>2 DEF OtherCodes
<1>3. CASE Spends
  BY <1>3, RestrictedFacts DEF Spends
<1> QED BY <1>1, <1>2, <1>3 DEF CodeStep

-----------------------------------------------------------------------------
(***************************************************************************)
(* Users and identities.                                                   *)
(***************************************************************************)
LEMMA NewIdentity ==
  ASSUME TypeOK, NEW row \in IdentityRow, CanInsert, identities' = With(identities, Fresh, row)
  PROVE  IdentitiesOK'
<1>1. serial \in Nat /\ Fresh = serial + 1 /\ serial' = serial + 1
  BY DEF TypeOK, CountersOK, CanInsert, Fresh
<1>2. IdentitiesOK
  BY DEF TypeOK
<1>3. identities' \in [DOMAIN identities' -> IdentityRow]
  BY <1>2, WithTyped DEF IdentitiesOK
<1>4. DOMAIN identities' = DOMAIN identities \cup {Fresh}
  BY WithFacts
<1> QED BY <1>1, <1>2, <1>3, <1>4 DEF IdentitiesOK

LEMMA KeptIdentities ==
  ASSUME TypeOK, serial' = serial, NEW K \in SUBSET DOMAIN identities,
         identities' = Restricted(identities, K)
  PROVE  IdentitiesOK'
<1>1. IdentitiesOK
  BY DEF TypeOK
<1> QED BY <1>1, RestrictedFacts, RestrictedTyped DEF IdentitiesOK

LEMMA IdentitiesTyped == TypeOK /\ [Next]_vars => IdentitiesOK'
<1> SUFFICES ASSUME TypeOK, [Next]_vars PROVE IdentitiesOK'
  OBVIOUS
<1>0. IdentitiesOK /\ serial \in Nat
  BY DEF TypeOK, CountersOK
<1>1. ASSUME UNCHANGED <<identities, serial>> PROVE IdentitiesOK'
  BY <1>0, <1>1 DEF IdentitiesOK
<1>2. ASSUME NEW u \in User, NEW provider \in {"password", "email", "anonymous"}, NEW key \in Name,
             NEW subject \in Name, CanInsert,
             identities' = With(identities, Fresh,
               [user |-> u, provider |-> provider, key |-> key, subject |-> subject])
      PROVE  IdentitiesOK'
  <2> DEFINE row == [user |-> u, provider |-> provider, key |-> key, subject |-> subject]
  <2>1. row \in IdentityRow
    BY DEF IdentityRow
  <2> HIDE DEF row
  <2>2. identities' = With(identities, Fresh, row)
    BY <1>2 DEF row
  <2> QED BY <1>2, <2>1, <2>2, NewIdentity
<1>3. Fresh \in Name /\ User \subseteq Name /\ Email \subseteq Name /\ DOMAIN users \subseteq User
  BY <1>0 DEF Fresh, Name, TypeOK, UsersOK
<1>4. CASE signUp
  BY <1>4, SignUpProvides, ProvisionFacts
<1>5. CASE \E a \in Action : createCredential(a)
  <2>1. PICK a \in Action : createCredential(a)
    BY <1>5
  <2>2. CASE UNCHANGED <<users, identities, serial, proven>>
    BY <1>1, <2>2
  <2>3. CASE ~UNCHANGED <<users, identities, serial, proven>>
    BY <2>1, <2>3, CreateProvides, ProvisionFacts
  <2> QED BY <2>2, <2>3
<1>6. CASE \E a \in Action : provisionOneTime(a)
  BY <1>6, OneTimeProvides, ProvisionFacts
<1>7. CASE migrateAccount \/ createOrphanIdentity
  <2>1. PICK u \in DOMAIN users, key \in Name :
          identities' = With(identities, Fresh,
            [user |-> u, provider |-> "password", key |-> key, subject |-> key])
    BY <1>3, <1>7 DEF migrateAccount, createOrphanIdentity
  <2>2. CanInsert
    BY <1>7 DEF migrateAccount, createOrphanIdentity
  <2> QED BY <1>2, <1>3, <2>1, <2>2
<1>8. CASE createAnonymousUser
  <2>1. PICK u \in NewUser :
          identities' = With(identities, Fresh,
            [user |-> u, provider |-> "anonymous", key |-> Fresh, subject |-> Fresh])
    BY <1>8 DEF createAnonymousUser
  <2>2. u \in User /\ CanInsert
    BY <1>8 DEF createAnonymousUser, NewUser
  <2> QED BY <1>2, <1>3, <2>1, <2>2
<1>9. CASE \E a \in Action : createIdentity(a)
  <2>1. PICK a \in Action : createIdentity(a)
    BY <1>9
  <2>2. action[a].pc = "identity" /\ action[a] \in ActionState
    BY <2>1 DEF createIdentity, TypeOK, ActionOK
  <2>3. action[a].user \in User /\ action[a].email \in Email
    BY <2>2, StateByPc
  <2> QED BY <1>2, <1>3, <2>1, <2>3 DEF createIdentity
<1>10. CASE changeEmail
  <2>1. PICK c \in DOMAIN codes : changeEmailTo(c, codes[c].address)
    BY <1>10 DEF changeEmail
  <2>2. codes[c].address \in Name
    BY <1>3 DEF TypeOK, CodesOK, CodeRow
  <2>3. identities' = Moved(codes[c].user, codes[c].address) /\ serial' = serial
    BY <2>1 DEF changeEmailTo, counters
  <2>4. \A n \in DOMAIN identities : [identities[n] EXCEPT !.subject = codes[c].address] \in IdentityRow
    BY <1>0, <2>2 DEF IdentitiesOK, IdentityRow
  <2> QED BY <1>0, <2>3, <2>4 DEF Moved, IdentitiesOK
<1>11. CASE (\E a \in Action : linkAnonymousUser(a)) \/ deleteUser
  <2>1. PICK K \in SUBSET DOMAIN identities : identities' = Restricted(identities, K)
    BY <1>11 DEF linkAnonymousUser, deleteUser, KeptRows
  <2>2. serial' = serial
    BY <1>11 DEF linkAnonymousUser, deleteUser, counters
  <2> QED BY <2>1, <2>2, KeptIdentities
<1>12. CASE migrateUser \/ resetByLink \/ Expire \/ verifyEmail \/ sendOneTime
  BY <1>1, <1>12 DEF migrateUser, resetByLink, resetPassword, Expire, verifyEmail, sendOneTime, counters
<1>13. CASE \E a \in Action :
              \/ verifyPassword(a) \/ updateCredentialHash(a) \/ sendCode(a)
              \/ createVerificationCode(a) \/ forgetPassword(a) \/ resetByOtp(a)
              \/ consumeVerificationCode(a) \/ consumeVerifier(a) \/ linkAnonymousAccount(a)
              \/ createAccount(a) \/ Stop(a)
  BY <1>1, <1>13 DEF verifyPassword, updateCredentialHash, sendCode, createVerificationCode,
       forgetPassword, resetByOtp, resetPassword, consumeVerificationCode, consumeVerifier,
       linkAnonymousAccount, createAccount, Stop, tables, counters
<1>14. CASE UNCHANGED vars
  BY <1>1, <1>14 DEF vars, tables, counters
<1> QED
  BY <1>4, <1>5, <1>6, <1>7, <1>8, <1>9, <1>10, <1>11, <1>12, <1>13, <1>14
     DEF Next, PasswordNext, MailNext, AnonymousNext

\* Written rows keep their type; a user who is gone stays gone, and so does what it proved.
LEMMA UserWritten ==
  ASSUME TypeOK, NEW u \in User \ deleted, NEW row \in UserRow, users' = With(users, u, row),
         deleted' = deleted, proven' \subseteq DOMAIN users'
  PROVE  UsersOK'
<1>1. UsersOK
  BY DEF TypeOK
<1>2. users' \in [DOMAIN users' -> UserRow]
  BY <1>1, WithTyped DEF UsersOK
<1>3. DOMAIN users' = DOMAIN users \cup {u}
  BY WithFacts
<1> QED BY <1>1, <1>2, <1>3 DEF UsersOK

LEMMA ProvenStays ==
  /\ TypeOK /\ proven' = proven /\ DOMAIN users \subseteq DOMAIN users' => proven' \subseteq DOMAIN users'
  /\ TypeOK /\ proven' = Settled => proven' \subseteq DOMAIN users'
  /\ \A u \in DOMAIN users' : \A e : TypeOK /\ Prove(u, e) => proven' \subseteq DOMAIN users'
<1>1. TypeOK => proven \subseteq DOMAIN users
  BY DEF TypeOK, UsersOK
<1>2. Settled \subseteq DOMAIN users'
  BY DEF Settled
<1> QED BY <1>1, <1>2 DEF Prove

LEMMA UserChanged ==
  ASSUME TypeOK, NEW u \in DOMAIN users, NEW row \in UserRow, users' = [users EXCEPT ![u] = row],
         deleted' = deleted, proven' \subseteq DOMAIN users
  PROVE  UsersOK'
BY DEF TypeOK, UsersOK

LEMMA UsersTyped == TypeOK /\ [Next]_vars => UsersOK'
<1> SUFFICES ASSUME TypeOK, [Next]_vars PROVE UsersOK'
  OBVIOUS
<1>0. UsersOK
  BY DEF TypeOK
<1>1. ASSUME UNCHANGED <<users, deleted, proven>> PROVE UsersOK'
  BY <1>0, <1>1 DEF UsersOK
<1>2. \A u \in NewUser : u \in User \ deleted
  BY DEF NewUser
<1>3. CASE signUp
  <2>1. PICK u \in User, row \in UserRow : u \notin deleted /\ users' = With(users, u, row)
    BY <1>3, SignUpProvides, ProvisionFacts
  <2>2. deleted' = deleted /\ proven' = proven
    BY <1>3 DEF signUp
  <2>4. DOMAIN users \subseteq DOMAIN users'
    BY <2>1 DEF With
  <2>3. proven' \subseteq DOMAIN users'
    BY <2>2, <2>4, ProvenStays
  <2> QED BY <2>1, <2>2, <2>3, UserWritten
<1>4. ASSUME NEW u \in User, NEW row \in UserRow, NEW e, u \notin deleted,
             users' = With(users, u, row), deleted' = deleted, Prove(u, e)
      PROVE  UsersOK'
  <2>1. u \in DOMAIN users'
    BY <1>4 DEF With
  <2>2. proven' \subseteq DOMAIN users'
    BY <1>4, <2>1, ProvenStays
  <2> QED BY <1>4, <2>2, UserWritten
<1>5. CASE \E a \in Action : createCredential(a)
  <2>1. PICK a \in Action : createCredential(a)
    BY <1>5
  <2>2. CASE UNCHANGED <<users, identities, serial, proven>>
    BY <1>1, <2>1, <2>2, CreateProvides
  <2>3. CASE ~UNCHANGED <<users, identities, serial, proven>>
    <3>1. PICK u \in User, row \in UserRow, e \in Email :
            u \notin deleted /\ users' = With(users, u, row) /\ Prove(u, e)
      BY <2>1, <2>3, CreateProvides, ProvisionFacts
    <3> QED BY <1>4, <2>1, <3>1, CreateProvides
  <2> QED BY <2>2, <2>3
<1>6. CASE \E a \in Action : provisionOneTime(a)
  <2>1. PICK u \in User, row \in UserRow, e \in Email :
          u \notin deleted /\ users' = With(users, u, row) /\ Prove(u, e)
    BY <1>6, OneTimeProvides, ProvisionFacts
  <2>2. deleted' = deleted
    BY <1>6 DEF provisionOneTime
  <2> QED BY <1>4, <2>1, <2>2
<1>7. CASE migrateUser
  <2>1. PICK u \in NewUser, e \in Email, v \in BOOLEAN :
          /\ users' = With(users, u, [email |-> e, verified |-> v, kind |-> "registered"])
          /\ proven' = IF v THEN proven \cup {u} ELSE proven
          /\ deleted' = deleted
    BY <1>7 DEF migrateUser
  <2> DEFINE row == [email |-> e, verified |-> v, kind |-> "registered"]
  <2>2. row \in UserRow
    BY DEF UserRow
  <2> HIDE DEF row
  <2>3. users' = With(users, u, row)
    BY <2>1 DEF row
  <2>4. DOMAIN users' = DOMAIN users \cup {u}
    BY <2>3, WithFacts
  <2>5. proven' \subseteq DOMAIN users'
    BY <1>0, <2>1, <2>4 DEF UsersOK
  <2> QED BY <1>2, <2>1, <2>2, <2>3, <2>5, UserWritten
<1>8. CASE createAnonymousUser
  <2> DEFINE row == [email |-> NoEmail, verified |-> FALSE, kind |-> "anonymous"]
  <2>1. row \in UserRow
    BY DEF UserRow
  <2>2. PICK u \in NewUser : users' = With(users, u, row)
    BY <1>8 DEF createAnonymousUser
  <2>3. proven' = proven /\ deleted' = deleted
    BY <1>8 DEF createAnonymousUser, history
  <2> HIDE DEF row
  <2>5. DOMAIN users \subseteq DOMAIN users'
    BY <2>2 DEF With
  <2>4. proven' \subseteq DOMAIN users'
    BY <2>3, <2>5, ProvenStays
  <2> QED BY <1>2, <2>1, <2>2, <2>3, <2>4, UserWritten
<1>9. CASE \E a \in Action : linkAnonymousUser(a)
  <2>1. PICK a \in Action : linkAnonymousUser(a)
    BY <1>9
  <2>2. action[a].pc = "link" /\ action[a] \in ActionState
    BY <2>1 DEF linkAnonymousUser, TypeOK, ActionOK
  <2>3. action[a].email \in Email
    BY <2>2, StateByPc
  <2> DEFINE row == [email |-> action[a].email, verified |-> FALSE, kind |-> "linked"]
  <2>4. row \in UserRow
    BY <2>3 DEF UserRow
  <2>5. /\ action[a].user \in DOMAIN users /\ users' = [users EXCEPT ![action[a].user] = row]
        /\ deleted' = deleted /\ proven' = Settled
    BY <2>1 DEF linkAnonymousUser
  <2>6. proven' \subseteq DOMAIN users
    BY <2>5 DEF Settled
  <2> HIDE DEF row
  <2> QED BY <2>4, <2>5, <2>6, UserChanged
<1>10. CASE verifyEmail \/ changeEmail
  <2>1. PICK c \in DOMAIN codes :
          \/ /\ users' = [users EXCEPT ![codes[c].user].verified = TRUE]
             /\ codes[c].user \in DOMAIN users
             /\ Prove(codes[c].user, codes[c].address)
          \/ changeEmailTo(c, codes[c].address)
    BY <1>10 DEF verifyEmail, changeEmail
  <2> DEFINE u == codes[c].user
  <2>2. u \in DOMAIN users /\ Prove(u, codes[c].address)
    BY <2>1 DEF changeEmailTo
  <2>3. deleted' = deleted
    BY <1>10 DEF verifyEmail, changeEmail, changeEmailTo
  <2>4. users[u] \in UserRow /\ codes[c].address \in Email
    BY <1>0, <2>2 DEF UsersOK, TypeOK, CodesOK, CodeRow
  <2>5. [users[u] EXCEPT !.verified = TRUE] \in UserRow
    BY <2>4 DEF UserRow
  <2>7. PICK row \in UserRow : users' = [users EXCEPT ![u] = row]
    <3>1. CASE changeEmailTo(c, codes[c].address)
      <4> DEFINE row == [[users[u] EXCEPT !.email = codes[c].address] EXCEPT !.verified = TRUE]
      <4>1. row \in UserRow
        BY <2>4 DEF UserRow
      <4>2. users' = [users EXCEPT ![u] = row]
        BY <2>2, <3>1 DEF changeEmailTo
      <4> QED BY <4>1, <4>2
    <3>2. CASE users' = [users EXCEPT ![u].verified = TRUE]
      BY <2>5, <3>2
    <3> QED BY <2>1, <3>1, <3>2
  <2>8. proven' \subseteq DOMAIN users
    BY <1>0, <2>2, <2>7 DEF Prove, Settled
  <2> HIDE DEF u
  <2> QED BY <2>2, <2>3, <2>7, <2>8, UserChanged
<1>11. CASE deleteUser
  <2>1. PICK u \in DOMAIN users :
          users' = Restricted(users, DOMAIN users \ {u}) /\ deleted' = deleted \cup {u}
    BY <1>11 DEF deleteUser
  <2>2. proven' \subseteq DOMAIN users'
    BY <1>11, ProvenStays DEF deleteUser
  <2>3. DOMAIN users' = DOMAIN users \ {u} /\ users' \in [DOMAIN users' -> UserRow]
    BY <1>0, <2>1, RestrictedFacts, RestrictedTyped DEF UsersOK
  <2> QED BY <1>0, <2>1, <2>2, <2>3 DEF UsersOK
<1>12. CASE migrateAccount \/ createOrphanIdentity \/ resetByLink \/ Expire \/ sendOneTime
  BY <1>1, <1>12 DEF migrateAccount, createOrphanIdentity, resetByLink, resetPassword, Expire,
       sendOneTime, history
<1>13. CASE \E a \in Action :
              \/ verifyPassword(a) \/ updateCredentialHash(a) \/ sendCode(a)
              \/ createVerificationCode(a) \/ forgetPassword(a) \/ resetByOtp(a)
              \/ consumeVerificationCode(a) \/ consumeVerifier(a) \/ linkAnonymousAccount(a)
              \/ createAccount(a) \/ createIdentity(a) \/ Stop(a)
  BY <1>1, <1>13 DEF verifyPassword, updateCredentialHash, sendCode, createVerificationCode,
       forgetPassword, resetByOtp, resetPassword, consumeVerificationCode, consumeVerifier,
       linkAnonymousAccount, createAccount, createIdentity, Stop, tables, history
<1>14. CASE UNCHANGED vars
  BY <1>1, <1>14 DEF vars, tables, history
<1> QED
  BY <1>3, <1>5, <1>6, <1>7, <1>8, <1>9, <1>10, <1>11, <1>12, <1>13, <1>14
     DEF Next, PasswordNext, MailNext, AnonymousNext

-----------------------------------------------------------------------------
(***************************************************************************)
(* Every reachable state is typed: rows stay within the numbers given out, *)
(* what an action holds has the type its next step relies on, and no user  *)
(* id is given out again after deletion.                                   *)
(***************************************************************************)
THEOREM TypesKept == Spec => []TypeOK
<1>1. Init => TypeOK
  <2> SUFFICES ASSUME Init PROVE TypeOK
    OBVIOUS
  <2> USE DEF Init
  <2>1. DOMAIN Empty = {} /\ \A T : Empty \in [{} -> T]
    BY DEF Empty
  <2>2. CountersOK
    BY AccountsAssumption DEF CountersOK
  <2>3. UsersOK /\ IdentitiesOK /\ AccountsOK /\ CodesOK /\ VerifiersOK
    BY <2>1 DEF UsersOK, IdentitiesOK, AccountsOK, CodesOK, VerifiersOK
  <2>4. ActionOK
    BY IdleIsState DEF ActionOK
  <2> QED BY <2>2, <2>3, <2>4 DEF TypeOK
<1>2. TypeOK /\ [Next]_vars => TypeOK'
  <2> SUFFICES ASSUME TypeOK, [Next]_vars PROVE TypeOK'
    OBVIOUS
  <2>1. CountersOK' /\ UsersOK' /\ IdentitiesOK'
    BY CountersTyped, UsersTyped, IdentitiesTyped
  <2>2. AccountsOK' /\ CodesOK'
    BY AccountSteps, AccountsTyped, CodesTyped
  <2>3. VerifiersOK' /\ ActionOK'
    BY VerifiersTyped, MailSteps, ActionTyped
  <2> QED BY <2>1, <2>2, <2>3 DEF TypeOK
<1> QED BY <1>1, <1>2, PTL DEF Spec

(***************************************************************************)
(* However sign-ins, resets and migrations overlap, the rehash of a        *)
(* migrated hash never brings back a password its user has replaced.       *)
(***************************************************************************)
THEOREM PasswordsLast == Spec => []PasswordKept
<1>1. Init => PasswordKept
  BY DEF Init, Empty, PasswordKept
<1>2. TypeOK /\ PasswordKept /\ [Next]_vars => PasswordKept'
  BY AccountSteps, PasswordsTold
<1> QED BY <1>1, <1>2, TypesKept, PTL DEF Spec

(***************************************************************************)
(* Of all the codes mailed to a user for one purpose, the latest alone can *)
(* be presented.                                                           *)
(***************************************************************************)
THEOREM CodesSucceed == Spec => []OneLiveCode
<1>1. Init => OneLiveCode
  BY DEF Init, Empty, OneLiveCode
<1>2. TypeOK /\ OneLiveCode /\ [Next]_vars => OneLiveCode'
  BY CodeSteps, CodesStaySingle
<1> QED BY <1>1, <1>2, TypesKept, PTL DEF Spec

(***************************************************************************)
(* A one-time sign-in mail opens at most one session: it is in the table,  *)
(* or held by the one action that took it out, or spent.                   *)
(***************************************************************************)
THEOREM MailsOpenOnce == Spec => []VerifierSingleUse
<1>1. Init => MailsHeld /\ VerifierSingleUse
  BY DEF Init, Empty, Idle, MailsHeld, Held, VerifierSingleUse
<1>2. TypeOK /\ MailsHeld /\ VerifierSingleUse /\ [Next]_vars => MailsHeld' /\ VerifierSingleUse'
  BY MailSteps, MailsStayHeld
<1> QED BY <1>1, <1>2, TypesKept, PTL DEF Spec

=============================================================================
