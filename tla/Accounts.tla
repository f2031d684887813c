------------------------------ MODULE Accounts ------------------------------
(***************************************************************************)
(* Users and what they sign in with: identities, password accounts, mailed *)
(* codes and one-time sign-in mails.  The tables are those of the auth     *)
(* component; the operations are the actions of the password, e-mail OTP,  *)
(* magic link and anonymous providers, and the migration of old accounts.  *)
(* A mutation is one step.  An action that runs several queries and        *)
(* mutations keeps what it has read in action[a], interleaves with every   *)
(* other one, and may stop between two of its steps.                       *)
(*                                                                         *)
(* Sessions are opened by other modules' mutations and are not kept here;  *)
(* nor are names, the verified flag of an identity, and user names.        *)
(***************************************************************************)
EXTENDS Integers, FiniteSets, FiniteSetsExt

CONSTANTS
  User, Email, Password,
  Action,     \* actions that can be under way at once
  OneTime,    \* providers that sign in with a mailed code: emailOtp, magicLink
  NoEmail,    \* the synthetic address of an anonymous user
  MaxLoad,    \* bound: users ever created, and actions under way
  MaxInserts  \* bound: identities, codes and verifiers ever inserted

ASSUME AccountsAssumption ==
  /\ MaxInserts \in Nat /\ MaxLoad \in Nat
  /\ OneTime \subseteq {"emailOtp", "magicLink"}

\* A user's id and an address are never the number of a row.
ASSUME NamesApart == User \cap Nat = {} /\ Email \cap Nat = {}

VARIABLES
  users,       \* by id; kind: registered, anonymous, or linked from anonymous
  identities,  \* auth_identities, by row number; key is the identityId
  accounts,    \* authAccounts, by row number
  codes,       \* authVerificationCodes that can be presented, by row number
  verifiers,   \* authVerifiers that can be presented, by row number
  serial,      \* identities inserted so far: rows are numbered in index order
  enrolled,    \* accounts inserted so far
  mailed,      \* codes and verifiers created so far
  deleted,     \* ids of deleted users, never given out again
  action,      \* what is under way
  chosen,      \* history: the password last set on an account row by its user
  proven,      \* history: users for whom a code mailed to their present address was presented
  opened       \* history: sessions opened per verifier

tables == <<users, identities, accounts, codes, verifiers>>
history == <<chosen, proven, opened>>
counters == <<serial, enrolled, mailed>>
vars == <<tables, counters, deleted, action, history>>

CodeType == {"email_verification", "password_reset", "email_change"}

Idle == [pc |-> "idle"]

With(f, k, row) == [x \in DOMAIN f \cup {k} |-> IF x = k THEN row ELSE f[x]]
Restricted(f, K) == [x \in K |-> f[x]]
HasRoom ==
  Cardinality(DOMAIN users \cup deleted) + Cardinality({a \in Action : action[a] # Idle}) < MaxLoad
NewUser == IF HasRoom THEN User \ (DOMAIN users \cup deleted) ELSE {}
Fresh == serial + 1
FreshAccount == enrolled + 1
FreshMail == mailed + 1
RoomFor(k) == serial + mailed + k <= MaxInserts
CanInsert == RoomFor(1) /\ serial' = Fresh
CanEnrol == enrolled' = FreshAccount
CanMail == RoomFor(1) /\ mailed' = FreshMail

-----------------------------------------------------------------------------
(***************************************************************************)
(* Lookups.  An index page of one row is the oldest row; by_email is read  *)
(* with unique(), which throws on a second row.                            *)
(***************************************************************************)
\* Mutant: the page is read from its other end.
Last(rows) == IF rows = {} THEN {} ELSE {Max(rows)}

First(rows) == IF rows = {} THEN {} ELSE {Min(rows)}

getUserByEmail(e) == {u \in DOMAIN users : users[u].email = e}
Unambiguous(e) == Cardinality(getUserByEmail(e)) <= 1

findIdentityByUserAndProvider(u, provider) ==
  First({n \in DOMAIN identities : identities[n].user = u /\ identities[n].provider = provider})

findAccount(provider, subject) ==
  First({n \in DOMAIN accounts : accounts[n].provider = provider /\ accounts[n].subject = subject})

\* The account whose hash a sign-in with a password compares, and a reset writes.
PasswordAccount(u) ==
  UNION {findAccount("password", identities[n].subject) :
           n \in findIdentityByUserAndProvider(u, "password")}

\* The identity a provider's answer stands for: by identityId, else by subject.
ExistingIdentity(provider, key, subject) ==
  LET Of(provided) == {n \in DOMAIN identities : identities[n].provider = provider /\ provided[n]}
      byKey == Of([n \in DOMAIN identities |-> identities[n].key = key])
  IN  IF byKey # {} THEN byKey
      ELSE First(Of([n \in DOMAIN identities |-> identities[n].subject = subject]))

-----------------------------------------------------------------------------
(***************************************************************************)
(* provisionFromIdentity.  A provider that has verified the address may    *)
(* link to the user who has it; sign-up has not, and may not.              *)
(***************************************************************************)
\* The user an identity resolves to: its own, the address's, or a new one.
Provisionable(existing, e) ==
  LET owner == {identities[n].user : n \in existing} \cap DOMAIN users
  IN  IF owner # {} THEN owner
      ELSE IF getUserByEmail(e) # {} THEN getUserByEmail(e)
      ELSE NewUser

provisionFromIdentity(u, provider, key, subject, e, verified, credential) ==
  LET existing == ExistingIdentity(provider, key, subject)
      n == IF existing = {} THEN Fresh ELSE CHOOSE i \in existing : TRUE
  IN  /\ Unambiguous(e)
      /\ verified \/ getUserByEmail(e) = {} \/ existing # {}
      /\ u \in Provisionable(existing, e)
      /\ users' = With(users, u,
           [email |-> e,
            verified |-> verified \/ (u \in getUserByEmail(e) /\ users[u].verified),
            kind |-> IF u \in DOMAIN users THEN users[u].kind ELSE "registered"])
      /\ identities' = With(identities, n,
           [user |-> u, provider |-> provider, key |-> key, subject |-> subject])
      /\ IF existing = {} /\ credential # {}
         THEN \E p \in credential :
                /\ accounts' = With(accounts, FreshAccount,
                     [user |-> u, provider |-> provider, subject |-> subject,
                      hash |-> [password |-> p, legacy |-> FALSE]])
                /\ chosen' = With(chosen, FreshAccount, p)
                /\ CanEnrol
         ELSE UNCHANGED <<accounts, chosen, enrolled>>
      /\ IF existing = {} THEN CanInsert ELSE UNCHANGED serial

-----------------------------------------------------------------------------
(***************************************************************************)
(* Codes.  A row that is consumed or has expired is refused like one that  *)
(* is missing, so it is left out.  Creating a code consumes the others of  *)
(* its user and type.                                                      *)
(***************************************************************************)
\* A code mailed to the address has been presented for the user: that counts while
\* the address is the user's, and until it changes.
Settled ==
  {u \in proven : u \in DOMAIN users \cap DOMAIN users' /\ users'[u].email = users[u].email}
Prove(u, address) == proven' = Settled \cup {v \in {u} : users'[v].email = address}

CodeOf(u, type, address) == [user |-> u, type |-> type, address |-> address]

\* Mutant: the codes already mailed stay.
AddedCode(u, type, address) == With(codes, FreshMail, CodeOf(u, type, address))

NewCode(u, type, address) ==
  With(Restricted(codes, {c \in DOMAIN codes : ~(codes[c].user = u /\ codes[c].type = type)}),
       FreshMail, CodeOf(u, type, address))

\* Mutant: the code stays presentable.
NotConsumed(c) == codes

Consumed(c) == Restricted(codes, DOMAIN codes \ {c})

Live(c, type) == c \in DOMAIN codes /\ codes[c].type = type

\* What an action has under way, between its steps.
Goto(a, state) == action' = [action EXCEPT ![a] = state]
Start(a, state) == action[a] = Idle /\ HasRoom /\ Goto(a, state)

\* The password provider and the e-mail OTP provider mail a code to the address
\* that was given: for a change of address any, otherwise the address of a user.
sendCode(a) ==
  /\ RoomFor(1)
  /\ \E u \in DOMAIN users, type \in CodeType, e \in Email :
       /\ type # "email_change" => getUserByEmail(e) = {u}
       /\ Start(a, [pc |-> "code", user |-> u, type |-> type, address |-> e])
  /\ UNCHANGED <<tables, counters, deleted, history>>

createVerificationCode(a) ==
  /\ action[a].pc = "code"
  /\ codes' = NewCode(action[a].user, action[a].type, action[a].address)
  /\ CanMail
  /\ Goto(a, Idle)
  /\ UNCHANGED <<users, identities, accounts, verifiers, serial, enrolled, deleted, history>>

WithoutVerifier(v) == Restricted(verifiers, DOMAIN verifiers \ {v})

\* A code or a one-time mail runs out.
Expire ==
  /\ \/ \E c \in DOMAIN codes : codes' = Consumed(c) /\ UNCHANGED verifiers
     \/ \E v \in DOMAIN verifiers : verifiers' = WithoutVerifier(v) /\ UNCHANGED codes
  /\ UNCHANGED <<users, identities, accounts, counters, deleted, action, history>>

(***************************************************************************)
(* Passwords: sign-up, migrated accounts, and the rehash of a migrated     *)
(* hash by the first sign-in that verifies it.                             *)
(***************************************************************************)
signUp ==
  /\ \E u \in User, e \in Email, p \in Password :
       /\ provisionFromIdentity(u, "password", Fresh, Fresh, e, FALSE, {p})
       /\ \/ RoomFor(2) /\ codes' = NewCode(u, "email_verification", e) /\ CanMail
          \/ UNCHANGED <<codes, mailed>>
  /\ UNCHANGED <<verifiers, deleted, action, proven, opened>>

\* The old system's word that the address is verified is taken over.
migrateUser ==
  \E u \in NewUser, e \in Email, v \in BOOLEAN :
    /\ getUserByEmail(e) = {}
    /\ users' = With(users, u, [email |-> e, verified |-> v, kind |-> "registered"])
    /\ proven' = IF v THEN proven \cup {u} ELSE proven
    /\ UNCHANGED <<identities, accounts, codes, verifiers, counters, deleted, action, chosen,
                   opened>>

\* The identity of a migrated password is keyed by its user, once.
migrateAccount ==
  \E u \in DOMAIN users, p \in Password :
    /\ \A n \in DOMAIN identities : identities[n].key # u
    /\ identities' = With(identities, Fresh,
         [user |-> u, provider |-> "password", key |-> u, subject |-> u])
    /\ accounts' = With(accounts, FreshAccount,
         [user |-> u, provider |-> "password", subject |-> u,
          hash |-> [password |-> p, legacy |-> TRUE]])
    /\ chosen' = With(chosen, FreshAccount, p)
    /\ CanInsert /\ CanEnrol
    /\ UNCHANGED <<users, codes, verifiers, mailed, deleted, action, proven, opened>>

\* createIdentity is exported: a host may create a password identity alone.
createOrphanIdentity ==
  /\ \E u \in DOMAIN users :
       identities' = With(identities, Fresh,
         [user |-> u, provider |-> "password", key |-> Fresh, subject |-> Fresh])
  /\ CanInsert
  /\ UNCHANGED <<users, accounts, codes, verifiers, enrolled, mailed, deleted, action, history>>

\* signIn, verifyPassword and the two-factor actions: the password was right.
verifyPassword(a) ==
  /\ \E u \in DOMAIN users : \E n \in PasswordAccount(u) :
       /\ accounts[n].hash.legacy
       /\ Start(a, [pc |-> "rehash", account |-> n, hash |-> accounts[n].hash])
  /\ UNCHANGED <<tables, counters, deleted, history>>

\* Mutant: whatever the row holds by now is replaced.
overwriteCredentialHash(a) ==
  /\ action[a].pc = "rehash"
  /\ action[a].account \in DOMAIN accounts
  /\ accounts' = [accounts EXCEPT ![action[a].account].hash =
                    [password |-> action[a].hash.password, legacy |-> FALSE]]
  /\ Goto(a, Idle)
  /\ UNCHANGED <<users, identities, codes, verifiers, counters, deleted, history>>

\* updateCredentialHash with the hash that was verified as the expected one.
updateCredentialHash(a) ==
  /\ action[a].pc = "rehash"
  /\ LET n == action[a].account
     IN  accounts' = IF n \in DOMAIN accounts /\ accounts[n].hash = action[a].hash
                     THEN [accounts EXCEPT ![n].hash.legacy = FALSE]
                     ELSE accounts
  /\ Goto(a, Idle)
  /\ UNCHANGED <<users, identities, codes, verifiers, counters, deleted, history>>

(***************************************************************************)
(* Password reset by a mailed link or OTP.                                 *)
(***************************************************************************)
resetPassword(c, p) ==
  /\ Live(c, "password_reset")
  /\ \E n \in PasswordAccount(codes[c].user) :
       /\ accounts' = [accounts EXCEPT ![n].hash = [password |-> p, legacy |-> FALSE]]
       /\ chosen' = [chosen EXCEPT ![n] = p]
  /\ codes' = Consumed(c)
  /\ UNCHANGED <<users, identities, verifiers, counters, deleted, proven, opened>>

resetByLink ==
  /\ \E c \in DOMAIN codes, p \in Password : resetPassword(c, p)
  /\ UNCHANGED action

\* The OTP provider reads the code and the subject of its user's credential first.
forgetPassword(a) ==
  /\ \E c \in DOMAIN codes, p \in Password :
       /\ Live(c, "password_reset")
       /\ Start(a, [pc |-> "reset", code |-> c, password |-> p, row |-> codes[c],
                    subject |-> {identities[n].subject :
                                   n \in findIdentityByUserAndProvider(codes[c].user, "password")}])
  /\ UNCHANGED <<tables, counters, deleted, history>>

\* A live code of a user without a password, who is read next, goes on to create
\* one.  (A user deleted in between is deleted with the code.)
resetByOtp(a) ==
  /\ action[a].pc = "reset"
  /\ LET c == action[a].code
     IN  \/ resetPassword(c, action[a].password) /\ Goto(a, Idle)
         \/ /\ Live(c, "password_reset") => PasswordAccount(codes[c].user) = {}
            /\ IF Live(c, "password_reset") /\ codes[c].user \in DOMAIN users
               THEN action' = [action EXCEPT ![a].pc = "create"]
               ELSE Goto(a, Idle)
            /\ UNCHANGED <<tables, counters, deleted, history>>

createCredential(a) ==
  /\ action[a].pc = "create"
  /\ LET row == action[a].row
     IN  \/ \E s \in action[a].subject :
              /\ accounts' = With(accounts, FreshAccount,
                   [user |-> row.user, provider |-> "password", subject |-> s,
                    hash |-> [password |-> action[a].password, legacy |-> FALSE]])
              /\ chosen' = With(chosen, FreshAccount, action[a].password)
              /\ CanEnrol
              /\ UNCHANGED <<users, identities, serial, proven>>
         \/ /\ action[a].subject = {}
            /\ \E u \in User :
                 /\ provisionFromIdentity(u, "password", Fresh, Fresh, row.address, TRUE,
                                          {action[a].password})
                 /\ Prove(u, row.address)
  /\ action' = [action EXCEPT ![a].pc = "consume"]
  /\ UNCHANGED <<codes, verifiers, mailed, deleted, opened>>

consumeVerificationCode(a) ==
  /\ action[a].pc = "consume"
  /\ codes' = Consumed(action[a].code)
  /\ Goto(a, Idle)
  /\ UNCHANGED <<users, identities, accounts, verifiers, counters, deleted, history>>

(***************************************************************************)
(* Addresses.                                                              *)
(***************************************************************************)
verifyEmail ==
  \E c \in DOMAIN codes :
    /\ Live(c, "email_verification")
    /\ codes[c].user \in DOMAIN users
    /\ users' = [users EXCEPT ![codes[c].user].verified = TRUE]
    /\ codes' = Consumed(c)
    /\ Prove(codes[c].user, codes[c].address)
    /\ UNCHANGED <<identities, accounts, verifiers, counters, deleted, action, chosen, opened>>

\* The emailOtp identity's subject follows the address; its identityId does not.
Moved(u, e) ==
  [n \in DOMAIN identities |->
     IF n \in findIdentityByUserAndProvider(u, "emailOtp")
     THEN [identities[n] EXCEPT !.subject = e] ELSE identities[n]]

changeEmailTo(c, e) ==
  LET u == codes[c].user
  IN  /\ Live(c, "email_change")
      /\ u \in DOMAIN users
      /\ getUserByEmail(e) = {}
      /\ users' = [users EXCEPT ![u].email = e, ![u].verified = TRUE]
      /\ identities' = Moved(u, e)
      /\ codes' = Consumed(c)
      /\ Prove(u, codes[c].address)
      /\ UNCHANGED <<accounts, verifiers, counters, deleted, action, chosen, opened>>

\* Mutant: the code is not bound to the address it was mailed to.
changeEmailUnbound == \E c \in DOMAIN codes, e \in Email : changeEmailTo(c, e)

\* The hash of a code covers the address, so that it opens no other.
changeEmail == \E c \in DOMAIN codes : changeEmailTo(c, codes[c].address)

(***************************************************************************)
(* One-time sign-in by e-mail OTP or magic link.                           *)
(***************************************************************************)
sendOneTime ==
  /\ CanMail
  /\ \E provider \in OneTime, e \in Email :
       verifiers' = With(verifiers, FreshMail, [provider |-> provider, email |-> e])
  /\ opened' = With(opened, FreshMail, 0)
  /\ UNCHANGED <<users, identities, accounts, codes, serial, enrolled, deleted, action, chosen, proven>>

\* Mutant: the verifier is read, and left for the provision to consume.
readVerifier(a) ==
  /\ \E v \in DOMAIN verifiers :
       Start(a, [pc |-> "provision", verifier |-> v, mail |-> verifiers[v]])
  /\ UNCHANGED <<tables, counters, deleted, history>>

consumeVerifier(a) ==
  /\ \E v \in DOMAIN verifiers :
       /\ verifiers' = WithoutVerifier(v)
       /\ Start(a, [pc |-> "provision", verifier |-> v, mail |-> verifiers[v]])
  /\ UNCHANGED <<users, identities, accounts, codes, counters, deleted, history>>

provisionOneTime(a) ==
  /\ action[a].pc = "provision"
  /\ LET e == action[a].mail.email
     IN  \E u \in User :
           /\ provisionFromIdentity(u, action[a].mail.provider, e, e, e, TRUE, {})
           /\ Prove(u, e)
  /\ opened' = [opened EXCEPT ![action[a].verifier] = @ + 1]
  /\ Goto(a, Idle)
  /\ UNCHANGED <<codes, verifiers, mailed, deleted>>

(***************************************************************************)
(* Anonymous users, and linking one to an address and a password.          *)
(***************************************************************************)
createAnonymousUser ==
  /\ \E u \in NewUser :
       /\ users' = With(users, u, [email |-> NoEmail, verified |-> FALSE, kind |-> "anonymous"])
       /\ identities' = With(identities, Fresh,
            [user |-> u, provider |-> "anonymous", key |-> Fresh, subject |-> Fresh])
  /\ CanInsert
  /\ UNCHANGED <<accounts, codes, verifiers, enrolled, mailed, deleted, action, history>>

\* The user, the address and the account are looked up by three queries.
linkAnonymousAccount(a) ==
  /\ \E u \in DOMAIN users, e \in Email, p \in Password :
       /\ users[u].kind = "anonymous"
       /\ getUserByEmail(e) = {}
       /\ findAccount("email", e) = {}
       /\ Start(a, [pc |-> "link", user |-> u, email |-> e, password |-> p])
  /\ UNCHANGED <<tables, counters, deleted, history>>

\* Mutant: the user is written back, whether or not it is still there.
upsertAnonymousUser(a) ==
  /\ action[a].pc = "link"
  /\ users' = With(users, action[a].user,
       [email |-> action[a].email, verified |-> FALSE, kind |-> "linked"])
  /\ proven' = Settled
  /\ action' = [action EXCEPT ![a].pc = "account"]
  /\ UNCHANGED <<identities, accounts, codes, verifiers, counters, deleted, chosen, opened>>

linkAnonymousUser(a) ==
  /\ action[a].pc = "link"
  /\ LET u == action[a].user
     IN  /\ u \in DOMAIN users
         /\ users' = [users EXCEPT ![u] =
                        [email |-> action[a].email, verified |-> FALSE, kind |-> "linked"]]
         /\ identities' = Restricted(identities,
              {n \in DOMAIN identities :
                 ~(identities[n].user = u /\ identities[n].provider = "anonymous")})
  /\ proven' = Settled
  /\ action' = [action EXCEPT ![a].pc = "account"]
  /\ UNCHANGED <<accounts, codes, verifiers, counters, deleted, chosen, opened>>

createAccount(a) ==
  /\ action[a].pc = "account"
  /\ accounts' = With(accounts, FreshAccount,
       [user |-> action[a].user, provider |-> "email", subject |-> action[a].email,
        hash |-> [password |-> action[a].password, legacy |-> FALSE]])
  /\ chosen' = With(chosen, FreshAccount, action[a].password)
  /\ CanEnrol
  /\ action' = [action EXCEPT ![a].pc = "identity"]
  /\ UNCHANGED <<users, identities, codes, verifiers, serial, mailed, deleted, proven, opened>>

createIdentity(a) ==
  /\ action[a].pc = "identity"
  /\ identities' = With(identities, Fresh,
       [user |-> action[a].user, provider |-> "email", key |-> Fresh,
        subject |-> action[a].email])
  /\ CanInsert
  /\ Goto(a, Idle)
  /\ UNCHANGED <<users, accounts, codes, verifiers, enrolled, mailed, deleted, history>>

(***************************************************************************)
(* Deletion, and actions that end early: a mutation threw, or the process  *)
(* stopped.                                                                *)
(***************************************************************************)
KeptRows(table, u) == Restricted(table, {n \in DOMAIN table : table[n].user # u})

deleteUser ==
  \E u \in DOMAIN users :
    /\ users' = Restricted(users, DOMAIN users \ {u})
    /\ identities' = KeptRows(identities, u)
    /\ accounts' = KeptRows(accounts, u)
    /\ codes' = KeptRows(codes, u)
    /\ deleted' = deleted \cup {u}
    /\ chosen' = Restricted(chosen, DOMAIN accounts')
    /\ proven' = Settled
    /\ UNCHANGED <<verifiers, counters, action, opened>>

Stop(a) ==
  /\ action[a] # Idle
  /\ Goto(a, Idle)
  /\ UNCHANGED <<tables, counters, deleted, history>>

-----------------------------------------------------------------------------
Empty == [n \in {} |-> n]

Init ==
  /\ users = Empty /\ identities = Empty /\ accounts = Empty
  /\ codes = Empty /\ verifiers = Empty
  /\ serial = 0 /\ enrolled = 0 /\ mailed = 0
  /\ deleted = {}
  /\ action = [a \in Action |-> Idle]
  /\ chosen = Empty /\ proven = {} /\ opened = Empty

PasswordNext ==
  \/ signUp \/ migrateUser \/ migrateAccount \/ createOrphanIdentity \/ resetByLink
  \/ \E a \in Action : verifyPassword(a) \/ updateCredentialHash(a)

MailNext ==
  \/ Expire \/ verifyEmail \/ changeEmail \/ sendOneTime
  \/ \E a \in Action :
       \/ sendCode(a) \/ createVerificationCode(a)
       \/ forgetPassword(a) \/ resetByOtp(a)
       \/ createCredential(a) \/ consumeVerificationCode(a)
       \/ consumeVerifier(a) \/ provisionOneTime(a)

AnonymousNext ==
  \/ createAnonymousUser
  \/ \E a \in Action :
       linkAnonymousAccount(a) \/ linkAnonymousUser(a) \/ createAccount(a) \/ createIdentity(a)

Next ==
  \/ PasswordNext \/ MailNext \/ AnonymousNext
  \/ deleteUser \/ \E a \in Action : Stop(a)

Spec == Init /\ [][Next]_vars

-----------------------------------------------------------------------------
Hash == [password : Password, legacy : BOOLEAN]
Name == User \cup Email \cup Nat
UserRow ==
  [email : Email \cup {NoEmail}, verified : BOOLEAN, kind : {"registered", "anonymous", "linked"}]
IdentityRow ==
  [user : User, provider : OneTime \cup {"password", "email", "anonymous"},
   key : Name, subject : Name]
AccountRow == [user : User, provider : {"password", "email"}, subject : Name, hash : Hash]
CodeRow == [user : User, type : CodeType, address : Email]
Mail == [provider : OneTime, email : Email]

ActionState ==
  {Idle}
  \cup [pc : {"code"}, user : User, type : CodeType, address : Email]
  \cup [pc : {"rehash"}, account : Nat, hash : Hash]
  \cup [pc : {"reset", "create", "consume"}, code : Nat, password : Password,
        row : CodeRow, subject : SUBSET Name]
  \cup [pc : {"provision"}, verifier : Nat, mail : Mail]
  \cup [pc : {"link", "account", "identity"}, user : User, email : Email, password : Password]

\* Rows are numbered up to their counter; what a row names has its type; a user
\* who was deleted does not come back.
CountersOK == serial \in Nat /\ enrolled \in Nat /\ mailed \in Nat /\ serial + mailed <= MaxInserts
UsersOK ==
  /\ deleted \subseteq User
  /\ users \in [DOMAIN users -> UserRow] /\ DOMAIN users \subseteq User \ deleted
  /\ proven \subseteq DOMAIN users
IdentitiesOK == identities \in [DOMAIN identities -> IdentityRow] /\ DOMAIN identities \subseteq 1..serial
AccountsOK ==
  /\ accounts \in [DOMAIN accounts -> AccountRow] /\ DOMAIN accounts \subseteq 1..enrolled
  /\ chosen \in [DOMAIN accounts -> Password]
CodesOK == codes \in [DOMAIN codes -> CodeRow] /\ DOMAIN codes \subseteq 1..mailed
VerifiersOK ==
  /\ verifiers \in [DOMAIN verifiers -> Mail] /\ DOMAIN verifiers \subseteq DOMAIN opened
  /\ opened \in [DOMAIN opened -> Nat] /\ DOMAIN opened \subseteq 1..mailed
ActionOK == action \in [Action -> ActionState]

TypeOK ==
  /\ CountersOK /\ UsersOK /\ IdentitiesOK /\ AccountsOK /\ CodesOK /\ VerifiersOK /\ ActionOK

(***************************************************************************)
(* The lazy rehash of a migrated hash never brings an old password back:   *)
(* however sign-ins and resets overlap, an account's hash is that of the   *)
(* password its user last set (sessionIssuer.ts, "if a reset landed        *)
(* between read and write, keep the newer hash").                          *)
(***************************************************************************)
PasswordKept == \A n \in DOMAIN accounts : accounts[n].hash.password = chosen[n]

(***************************************************************************)
(* A verified address was proven: someone presented, for that user, a code *)
(* mailed to it, although the user's address may have changed between the  *)
(* mail and its answer.  A user linked from an anonymous one is left out:  *)
(* linking sets an address nobody proved and keeps the codes already sent. *)
(***************************************************************************)
VerifiedProven ==
  \A u \in DOMAIN users :
    users[u].verified /\ users[u].kind # "linked" => u \in proven

(***************************************************************************)
(* Of all the codes mailed to a user for one purpose, the latest alone can *)
(* be presented, though requests for a code overlap.                       *)
(***************************************************************************)
OneLiveCode ==
  \A c, d \in DOMAIN codes :
    codes[c].user = codes[d].user /\ codes[c].type = codes[d].type => c = d

(***************************************************************************)
(* A one-time sign-in mail opens one session, however often and however    *)
(* concurrently it is presented, and wherever an attempt stops.            *)
(***************************************************************************)
VerifierSingleUse == \A v \in DOMAIN opened : opened[v] <= 1

(***************************************************************************)
(* A stored password changes only in a step that spends a live reset code  *)
(* of the account's user: no reset code sets two passwords on an account.  *)
(***************************************************************************)
SpendsReset(u) ==
  \E c \in DOMAIN codes :
    /\ Live(c, "password_reset") /\ codes[c].user = u
    /\ c \notin DOMAIN codes'

PasswordChangeSpendsCode ==
  [][\A n \in DOMAIN accounts \cap DOMAIN accounts' :
       accounts'[n].hash.password # accounts[n].hash.password => SpendsReset(accounts[n].user)]_vars

(***************************************************************************)
(* Migration and concurrent resets may give a user a second credential; it *)
(* never takes the place of the one the user signs in with.                *)
(***************************************************************************)
CredentialStable ==
  [][\A u \in DOMAIN users \cap DOMAIN users' :
       PasswordAccount(u) # {} => PasswordAccount(u)' = PasswordAccount(u)]_vars

(***************************************************************************)
(* What the documentation says and the code does not do.                   *)
(***************************************************************************)
\* No two users have one address: linking rejects an address that is taken.
EmailsUnique == \A e \in Email : Unambiguous(e)

=============================================================================
