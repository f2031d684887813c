--------------------------- MODULE SessionFamily ---------------------------
(***************************************************************************)
(* The two session tables of the auth component, authSessions and          *)
(* authRefreshTokens, and every mutation that writes them.  A mutation is  *)
(* one serializable transaction, so each is one action; Date.now() is      *)
(* constant inside it.  A sign-in mints a session and a refresh token and  *)
(* opens a family; presenting the token rotates the pair inside the        *)
(* family, and presenting it again within the grace window converges on a  *)
(* sibling.  Sign-out, admin and passkey revocation and replay detection   *)
(* end whole families.                                                     *)
(*                                                                         *)
(* A pair is named by the order in which it was minted; session ids and    *)
(* token hashes are fresh random values, so one number names both rows.    *)
(***************************************************************************)
EXTENDS Integers, FiniteSets

CONSTANTS
  User,                 \* users that ever exist
  Identity,             \* rows of auth_identities that ever exist
  IdentityUser,         \* the user each identity belongs to
  NoIdentity,           \* a session row without identityId
  Credential,           \* passkey credential ids
  NoCredential,         \* a session row without credentialId
  SessionTtl,           \* configured sessionTtlMs
  DontRememberTtl,      \* session lifetime when rememberMe is false
  RefreshTtl,           \* configured refreshTokenTtlMs
  DefaultSessionTtl,    \* lifetime updateSession gives a refreshed session
  DefaultRefreshTtl,    \* lifetime updateSession gives a refreshed token
  ImpersonationTtl,     \* getImpersonationSessionDuration()
  Grace,                \* ROTATION_GRACE_MS
  MaxGraceRedemptions,  \* MAX_GRACE_REDEMPTIONS
  MaxLiveSessions,      \* MAX_FAMILY_LIVE_SESSIONS
  MaxScanRows,          \* MAX_FAMILY_SCAN_ROWS
  MaxMinted,            \* bound: pairs minted in a behaviour
  MaxTime,              \* bound: last value of the clock
  MaxLag                \* bound: time between an action's start and its mutation

ASSUME IdentityAssumption ==
  /\ IdentityUser \in [Identity -> User]
  /\ NoIdentity \notin Identity

ASSUME TtlAssumption ==
  {SessionTtl, DontRememberTtl, RefreshTtl,
   DefaultSessionTtl, DefaultRefreshTtl, ImpersonationTtl} \subseteq Nat

ASSUME LimitAssumption ==
  /\ {Grace, MaxGraceRedemptions, MaxScanRows} \subseteq Nat
  /\ MaxLiveSessions \in Nat \ {0}

ASSUME BoundAssumption == {MaxMinted, MaxTime, MaxLag} \subseteq Nat

VARIABLES
  now,         \* Date.now()
  users,       \* rows of the users table
  identities,  \* rows of auth_identities
  minted,      \* how many ids have been drawn
  sessions,    \* authSessions, by id
  tokens,      \* authRefreshTokens, by id
  mintedBy     \* history: the token a pair was minted from, 0 for none

vars == <<now, users, identities, minted, sessions, tokens, mintedBy>>

Id == 1..MaxMinted
Never == -1

SessionRow ==
  [user : User, identity : Identity \cup {NoIdentity}, family : Id,
   credential : Credential \cup {NoCredential}, impersonated : BOOLEAN,
   revoked : BOOLEAN, expiresAt : Nat]

TokenRow ==
  [session : Id, family : Id, user : User, revoked : BOOLEAN,
   rotatedAt : Nat \cup {Never}, redemptions : Nat, expiresAt : Nat]

(***************************************************************************)
(* Tables.                                                                 *)
(***************************************************************************)
With(table, i, row) ==
  [x \in DOMAIN table \cup {i} |-> IF x = i THEN row ELSE table[x]]

Revoked(table, ids) ==
  [x \in DOMAIN table |->
     IF x \in ids THEN [table[x] EXCEPT !.revoked = TRUE] ELSE table[x]]

Without(table, ids) == [x \in DOMAIN table \ ids |-> table[x]]

SessionsOf(u) == {s \in DOMAIN sessions : sessions[s].user = u}
TokensOf(u) == {t \in DOMAIN tokens : tokens[t].user = u}

SessionsInFamily(f) == {s \in DOMAIN sessions : sessions[s].family = f}

\* The sessions of f that authenticate a request now.
LiveIn(f) ==
  {s \in SessionsInFamily(f) : ~sessions[s].revoked /\ sessions[s].expiresAt > now}

Live(s) == s \in DOMAIN sessions /\ s \in LiveIn(sessions[s].family)

\* getRefreshTokensByFamily and getRefreshTokensBySession, merged.
TokensInFamily(f) == {t \in DOMAIN tokens : f \in {tokens[t].family, tokens[t].session}}

(***************************************************************************)
(* Minting.  A drawn id is never drawn again, whatever becomes of its      *)
(* rows.  The caller fixed the expiry when its action started.             *)
(***************************************************************************)
Fresh == minted + 1
CanMint == minted < MaxMinted
StartTimes == {start \in 0..now : now - start <= MaxLag}

\* Mutant: the optional counter is read without its default.
NewTokenUncounted(s, f, u, expiry) ==
  [session |-> s, family |-> f, user |-> u, revoked |-> FALSE,
   rotatedAt |-> Never, redemptions |-> Never, expiresAt |-> expiry]

NewToken(s, f, u, expiry) ==
  [session |-> s, family |-> f, user |-> u, revoked |-> FALSE,
   rotatedAt |-> Never, redemptions |-> 0, expiresAt |-> expiry]

OpenFamily(u, i, c, imp, sessionExpiry, tokenExpiry) ==
  /\ CanMint
  /\ sessions' = With(sessions, Fresh,
       [user |-> u, identity |-> i, family |-> Fresh, credential |-> c,
        impersonated |-> imp, revoked |-> FALSE, expiresAt |-> sessionExpiry])
  /\ tokens' = With(tokens, Fresh, NewToken(Fresh, Fresh, u, tokenExpiry))
  /\ minted' = Fresh
  /\ mintedBy' = With(mintedBy, Fresh, 0)

\* Mutant: the impersonator is not carried over.
SuccessorUnmarked(t, s, start) ==
  [sessions[s] EXCEPT !.family = tokens[t].family,
                      !.user = tokens[t].user,
                      !.impersonated = FALSE,
                      !.revoked = FALSE,
                      !.expiresAt = start + DefaultSessionTtl]

\* Mutant: the successor is inserted the way a sign-in's session is.
SuccessorApart(t, s, start) ==
  [sessions[s] EXCEPT !.family = Fresh,
                      !.user = tokens[t].user,
                      !.revoked = FALSE,
                      !.expiresAt = start + DefaultSessionTtl]

\* The successor of session s in its family, minted for token t.
Successor(t, s, start) ==
  [sessions[s] EXCEPT !.family = tokens[t].family,
                      !.user = tokens[t].user,
                      !.revoked = FALSE,
                      !.expiresAt = start + DefaultSessionTtl]

NextToken(t, start) ==
  NewToken(Fresh, tokens[t].family, tokens[t].user, start + DefaultRefreshTtl)

(***************************************************************************)
(* Sign-in.  The mutation checks neither the user nor the identity: an     *)
(* action that verified a credential may commit after they are gone.       *)
(***************************************************************************)
createSessionAndRefreshToken ==
  \E i \in Identity, c \in Credential \cup {NoCredential},
     ttl \in {SessionTtl, DontRememberTtl}, start \in StartTimes :
    /\ OpenFamily(IdentityUser[i], i, c, FALSE, start + ttl, start + RefreshTtl)
    /\ UNCHANGED <<now, users, identities>>

\* Admin impersonation: one transaction, both rows expire together.
impersonateUser ==
  \E i \in identities :
    /\ IdentityUser[i] \in users
    /\ OpenFamily(IdentityUser[i], i, NoCredential, TRUE,
                  now + ImpersonationTtl, now + ImpersonationTtl)
    /\ UNCHANGED <<now, users, identities>>

\* Exported, called by nothing under src/: a session row without a token.  The
\* optional familyId, which nobody passes to this mutation or to the one above,
\* is taken to be absent, and the identity to be the user's.
createSession ==
  \E u \in User, i \in Identity \cup {NoIdentity} :
    /\ i # NoIdentity => IdentityUser[i] = u
    /\ CanMint
    /\ sessions' = With(sessions, Fresh,
         [user |-> u, identity |-> i, family |-> Fresh, credential |-> NoCredential,
          impersonated |-> FALSE, revoked |-> FALSE, expiresAt |-> now + SessionTtl])
    /\ minted' = Fresh
    /\ mintedBy' = With(mintedBy, Fresh, 0)
    /\ UNCHANGED <<now, users, identities, tokens>>

\* Exported, called by nothing under src/: a token row for an existing session,
\* taken to be called with that session's user and family.
createRefreshToken ==
  \E s \in DOMAIN sessions :
    /\ CanMint
    /\ tokens' = With(tokens, Fresh,
         NewToken(s, sessions[s].family, sessions[s].user, now + RefreshTtl))
    /\ minted' = Fresh
    /\ mintedBy' = With(mintedBy, Fresh, 0)
    /\ UNCHANGED <<now, users, identities, sessions>>

(***************************************************************************)
(* Refresh.                                                                *)
(***************************************************************************)
Presentable(t) == t \in DOMAIN tokens /\ tokens[t].expiresAt > now

\* Mutant: the last millisecond of the window belongs to neither branch.
WithinGraceShort(t) ==
  tokens[t].rotatedAt # Never /\ now - tokens[t].rotatedAt < Grace

WithinGrace(t) ==
  tokens[t].rotatedAt # Never /\ now - tokens[t].rotatedAt <= Grace

RotatedBeforeGrace(t) ==
  tokens[t].rotatedAt # Never /\ now - tokens[t].rotatedAt > Grace

\* The user row is there and the session names an identity of that user.
Resolvable(t, s) ==
  /\ tokens[t].user \in users
  /\ s \in DOMAIN sessions
  /\ sessions[s].identity \in identities
  /\ IdentityUser[sessions[s].identity] = tokens[t].user

CanRotate(t) ==
  LET s == tokens[t].session
  IN  /\ Presentable(t)
      /\ ~tokens[t].revoked
      /\ Live(s)
      /\ Resolvable(t, s)

\* Mutant: the presented token is revoked, its session is not.
SupersededLeft(s) == sessions

Superseded(s) == Revoked(sessions, {s})

\* rotateSession, the branch that rotates: the presented pair is revoked and
\* its successor inserted in one transaction.
rotateSession(t, start) ==
  LET s == tokens[t].session
  IN  /\ CanRotate(t)
      /\ CanMint
      /\ sessions' = With(Superseded(s), Fresh, Successor(t, s, start))
      /\ tokens' = With([tokens EXCEPT ![t].revoked = TRUE, ![t].rotatedAt = now],
                        Fresh, NextToken(t, start))
      /\ minted' = Fresh
      /\ mintedBy' = With(mintedBy, Fresh, t)
      /\ UNCHANGED <<now, users, identities>>

\* Mutant: one redemption too many.
GraceSpentLate(t) == tokens[t].redemptions > MaxGraceRedemptions

\* Refused before the family is read: the predecessor is spent.
GraceSpent(t) == tokens[t].redemptions >= MaxGraceRedemptions

\* rotateSession answers "converge": convergeSession is to be called.
MayConverge(t) ==
  Presentable(t) /\ tokens[t].revoked /\ WithinGrace(t) /\ ~GraceSpent(t)

\* Refused because the family is too large to scan or has its quota of
\* live sessions.
FamilyFull(f) ==
  \/ Cardinality(SessionsInFamily(f)) > MaxScanRows
  \/ Cardinality(LiveIn(f)) >= MaxLiveSessions

\* Mutant: the family need not be alive.
CanConvergeDead(t) ==
  /\ MayConverge(t)
  /\ ~FamilyFull(tokens[t].family)
  /\ Resolvable(t, tokens[t].session)

CanConverge(t) ==
  /\ MayConverge(t)
  /\ LiveIn(tokens[t].family) # {}
  /\ ~FamilyFull(tokens[t].family)
  /\ Resolvable(t, tokens[t].session)

\* convergeSession, the branch that mints: a sibling pair in the family of
\* a token rotated within the grace window.
convergeSession(t, start) ==
  /\ CanConverge(t)
  /\ CanMint
  /\ sessions' = With(sessions, Fresh, Successor(t, tokens[t].session, start))
  /\ tokens' = With([tokens EXCEPT ![t].redemptions = @ + 1], Fresh, NextToken(t, start))
  /\ minted' = Fresh
  /\ mintedBy' = With(mintedBy, Fresh, t)
  /\ UNCHANGED <<now, users, identities>>

(***************************************************************************)
(* Revocation.                                                             *)
(***************************************************************************)
RevokeRows(sids, tids) ==
  /\ sessions' = Revoked(sessions, sids)
  /\ tokens' = Revoked(tokens, tids)
  /\ UNCHANGED <<now, users, identities, minted, mintedBy>>

revokeSessionFamily(f) == RevokeRows(SessionsInFamily(f), TokensInFamily(f))

IsReplay(t) == Presentable(t) /\ tokens[t].revoked /\ RotatedBeforeGrace(t)

\* A rotated token presented after the grace window, to rotateSession or to
\* convergeSession: replay, so its family ends.
replayAfterGrace(t) == IsReplay(t) /\ revokeSessionFamily(tokens[t].family)

\* signOut, the user's and the admin's revokeSession, stopImpersonation.
revokeSessionFamilyBySession(s) ==
  /\ s \in DOMAIN sessions
  /\ revokeSessionFamily(sessions[s].family)

\* Mutant: the exclusion covers sessions only.
OtherTokensAll(u, own) == TokensOf(u)

OtherTokens(u, own) ==
  {t \in TokensOf(u) :
     tokens[t].session # own /\ tokens[t].family # sessions[own].family}

\* revokeOtherSessions: the caller's session was resolved by an earlier query,
\* so it may have been revoked, or have expired, since.
revokeSessionsForUser(u) ==
  \E own \in SessionsOf(u) :
    RevokeRows({s \in SessionsOf(u) : /\ sessions[s].expiresAt > now
                                      /\ s # own
                                      /\ sessions[s].family # sessions[own].family},
               OtherTokens(u, own))

\* The admin's, without an exclusion.
revokeAllSessionsForUser(u) ==
  u \in users /\ RevokeRows(SessionsOf(u), TokensOf(u))

\* resetPassword with revokeSessions: live sessions only, and no token.
resetPassword(u) ==
  /\ \E i \in identities : IdentityUser[i] = u
  /\ RevokeRows({s \in SessionsOf(u) : sessions[s].expiresAt > now}, {})

\* Deleting a passkey, or a counter regression, ends every family that holds
\* a session of that credential.
revokePasskeySessions(c) ==
  LET matched  == {s \in DOMAIN sessions : sessions[s].credential = c}
      families == {sessions[s].family : s \in matched}
  IN  RevokeRows(
        matched \cup {s \in DOMAIN sessions : sessions[s].family \in families},
        {t \in DOMAIN tokens : tokens[t].family \in families \/ tokens[t].session \in matched})

\* The three exported mutations no code under src/ calls.
revokeSession(s) == s \in DOMAIN sessions /\ RevokeRows({s}, {})

consumeRefreshToken(t) == Presentable(t) /\ RevokeRows({}, {t})

revokeRefreshTokensForSession(s) ==
  RevokeRows({}, {t \in DOMAIN tokens : tokens[t].session = s /\ tokens[t].expiresAt > now})

revokeRefreshTokensForUser(u) ==
  RevokeRows({}, {t \in TokensOf(u) : tokens[t].expiresAt > now})

(***************************************************************************)
(* Deletion.                                                               *)
(***************************************************************************)
\* A batch taken from the by_expires_at index, oldest first; "before" is its
\* default, the present.
ExpiredBatch(table, batch) ==
  LET expired == {x \in DOMAIN table : table[x].expiresAt < now}
  IN  /\ batch # {}
      /\ batch \subseteq expired
      /\ \A x \in batch, y \in expired \ batch : table[x].expiresAt <= table[y].expiresAt

cleanupExpiredSessions ==
  \E batch \in SUBSET DOMAIN sessions :
    /\ ExpiredBatch(sessions, batch)
    /\ sessions' = Without(sessions, batch)
    /\ UNCHANGED <<now, users, identities, minted, tokens, mintedBy>>

cleanupExpiredRefreshTokens ==
  \E batch \in SUBSET DOMAIN tokens :
    /\ ExpiredBatch(tokens, batch)
    /\ tokens' = Without(tokens, batch)
    /\ UNCHANGED <<now, users, identities, minted, sessions, mintedBy>>

\* deleteUser, and the admin's removeUser: one transaction.
deleteUser(u) ==
  /\ u \in users
  /\ users' = users \ {u}
  /\ identities' = {i \in identities : IdentityUser[i] # u}
  /\ sessions' = Without(sessions, SessionsOf(u))
  /\ tokens' = Without(tokens, TokensOf(u))
  /\ UNCHANGED <<now, minted, mintedBy>>

\* linkAnonymousUser drops the identity and leaves its sessions.
linkAnonymousUser(i) ==
  /\ i \in identities
  /\ identities' = identities \ {i}
  /\ UNCHANGED <<now, users, minted, sessions, tokens, mintedBy>>

Tick ==
  /\ now < MaxTime
  /\ now' = now + 1
  /\ UNCHANGED <<users, identities, minted, sessions, tokens, mintedBy>>

-----------------------------------------------------------------------------
Init ==
  /\ now = 0
  /\ users = User
  /\ identities = Identity
  /\ minted = 0
  /\ sessions = [s \in {} |-> 0]
  /\ tokens = [t \in {} |-> 0]
  /\ mintedBy = [m \in {} |-> 0]

Refresh(t) == \E start \in StartTimes : rotateSession(t, start) \/ convergeSession(t, start)

\* What the code under src/ calls, but for the migration from v3, which inserts
\* live sessions without a token (migrateSession).
ProviderNext ==
  \/ createSessionAndRefreshToken
  \/ impersonateUser
  \/ \E t \in Id : Refresh(t) \/ replayAfterGrace(t)
  \/ \E s \in Id : revokeSessionFamilyBySession(s)
  \/ \E u \in User :
       \/ revokeSessionsForUser(u)
       \/ revokeAllSessionsForUser(u)
       \/ resetPassword(u)
       \/ deleteUser(u)
  \/ \E c \in Credential : revokePasskeySessions(c)
  \/ \E i \in Identity : linkAnonymousUser(i)
  \/ cleanupExpiredSessions
  \/ cleanupExpiredRefreshTokens
  \/ Tick

\* What the component exports besides.
ExportedNext ==
  \/ createSession
  \/ createRefreshToken
  \/ \E s \in Id : revokeSession(s) \/ revokeRefreshTokensForSession(s)
  \/ \E t \in Id : consumeRefreshToken(t)
  \/ \E u \in User : revokeRefreshTokensForUser(u)

Next == ProviderNext \/ ExportedNext

Spec == Init /\ [][Next]_vars
ProviderSpec == Init /\ [][ProviderNext]_vars

-----------------------------------------------------------------------------
TypeOK ==
  /\ now \in 0..MaxTime
  /\ users \subseteq User
  /\ identities \subseteq Identity
  /\ minted \in 0..MaxMinted
  /\ sessions \in [DOMAIN sessions -> SessionRow]
  /\ tokens \in [DOMAIN tokens -> TokenRow]
  /\ mintedBy \in [1..minted -> 0..MaxMinted]
  /\ DOMAIN sessions \subseteq 1..minted
  /\ DOMAIN tokens \subseteq 1..minted

(***************************************************************************)
(* A family with no live session never has one again: no replay, race or   *)
(* stale refresh revives a lineage that sign-out, reset, revocation or     *)
(* expiry has ended (ssr-contract.md, "Refresh races").                    *)
(***************************************************************************)
DeadFamilyStaysDead ==
  [][\A f \in 1..minted : LiveIn(f) = {} => LiveIn(f)' = {}]_vars

(***************************************************************************)
(* However many requests converge, a family never has more than            *)
(* MaxLiveSessions live sessions.                                          *)
(***************************************************************************)
LiveSessionsBounded == \A f \in Id : Cardinality(LiveIn(f)) <= MaxLiveSessions

(***************************************************************************)
(* A refresh token mints at most one rotated pair and MaxGraceRedemptions  *)
(* siblings in its whole life, deleted rows included.                      *)
(***************************************************************************)
MintedFrom(t) == {m \in DOMAIN mintedBy : mintedBy[m] = t}
TokenMintsBounded ==
  \A t \in Id : Cardinality(MintedFrom(t)) <= 1 + MaxGraceRedemptions

(***************************************************************************)
(* All sessions of a family belong to one user, through one identity, and  *)
(* keep the passkey and the impersonator they were opened with; its tokens *)
(* belong to the same user.  Passkey revocation and the impersonation      *)
(* banner look these columns up on whatever row the lineage is at.         *)
(***************************************************************************)
Provenance(s) ==
  [user |-> sessions[s].user, identity |-> sessions[s].identity,
   credential |-> sessions[s].credential, impersonated |-> sessions[s].impersonated]
FamilyUniform ==
  /\ \A r, s \in DOMAIN sessions :
       sessions[r].family = sessions[s].family => Provenance(r) = Provenance(s)
  /\ \A t \in DOMAIN tokens, s \in DOMAIN sessions :
       tokens[t].family = sessions[s].family => tokens[t].user = sessions[s].user

(***************************************************************************)
(* A rotated token never leaves the session it belonged to live, so a      *)
(* refreshed access token and its predecessor are never both accepted.     *)
(***************************************************************************)
SupersededSessionDead ==
  \A t \in DOMAIN tokens : tokens[t].rotatedAt # Never => ~Live(tokens[t].session)

(***************************************************************************)
(* A live session that the providers opened can always be refreshed: its   *)
(* token row is there, unrevoked and unexpired.  A migrated session has no *)
(* token and is not among them.                                            *)
(***************************************************************************)
LiveSessionRefreshable ==
  \A s \in DOMAIN sessions :
    Live(s) => \E t \in DOMAIN tokens :
                 tokens[t].session = s /\ ~tokens[t].revoked /\ Presentable(t)

(***************************************************************************)
(* To whoever signed in, the two tables are lineages of accepted sessions  *)
(* (Lineage): of all that happens to the rows, only a sign-in, a rotation  *)
(* and a converging sibling let a session in, and each is a step Lineage   *)
(* allows.  A session is accepted while it is Live.                        *)
(***************************************************************************)
Owners ==
  [user : User, identity : Identity \cup {NoIdentity},
   credential : Credential \cup {NoCredential}, impersonated : BOOLEAN]

Accepted ==
  [s \in {s \in DOMAIN sessions : ~sessions[s].revoked /\ sessions[s].expiresAt > now} |->
     [family |-> sessions[s].family, owner |-> Provenance(s)]]

Lineages == INSTANCE Lineage
  WITH live <- Accepted, drawn <- minted, Owner <- Owners, Limit <- MaxLiveSessions

KeepsLineage == Lineages!LineageSpec

(***************************************************************************)
(* What the documentation says and the code does not do.                   *)
(***************************************************************************)
Inserted == DOMAIN sessions' \ DOMAIN sessions

\* An impersonation lasts no longer than its configured duration.
ImpersonationCapped ==
  [][\A s \in Inserted :
       sessions'[s].impersonated => sessions'[s].expiresAt <= now + ImpersonationTtl]_vars

=============================================================================
