------------------------ MODULE SessionFamilyProofs ------------------------
(***************************************************************************)
(* Proofs about SessionFamily, for every number of users, sessions and     *)
(* tokens and every value of the lifetimes and quotas.                     *)
(***************************************************************************)
EXTENDS SessionFamily, FiniteSetTheorems, TLAPS

(***************************************************************************)
(* Every action is one of these six kinds of step.  The revocations differ *)
(* only in which rows they touch and the deletions only in which they      *)
(* drop, so each invariant is proved once for all of them.                 *)
(***************************************************************************)
OpenStep ==
  \E u \in User, i \in Identity \cup {NoIdentity}, c \in Credential \cup {NoCredential},
     imp \in BOOLEAN, se \in Nat, te \in Nat :
    /\ OpenFamily(u, i, c, imp, se, te)
    /\ UNCHANGED <<now, users, identities>>

RefreshStep == \E t \in Id : Refresh(t)

RevokeStep == \E sids, tids : RevokeRows(sids, tids)

DeleteStep ==
  \E sids, tids :
    /\ sessions' = Without(sessions, sids)
    /\ tokens' = Without(tokens, tids)
    /\ users' \subseteq users
    /\ identities' \subseteq identities
    /\ UNCHANGED <<now, minted, mintedBy>>

LEMMA StartTimesNat ==
  ASSUME TypeOK, NEW start \in StartTimes
  PROVE  start \in Nat
  BY DEF TypeOK, StartTimes

LEMMA SignInIsOpenStep ==
  ASSUME TypeOK, createSessionAndRefreshToken \/ impersonateUser
  PROVE  OpenStep
  <1> USE IdentityAssumption, TtlAssumption, BoundAssumption
  <1>1. CASE createSessionAndRefreshToken
    <2>1. PICK i \in Identity, c \in Credential \cup {NoCredential},
               ttl \in {SessionTtl, DontRememberTtl}, start \in StartTimes :
            /\ OpenFamily(IdentityUser[i], i, c, FALSE, start + ttl, start + RefreshTtl)
            /\ UNCHANGED <<now, users, identities>>
      BY <1>1 DEF createSessionAndRefreshToken
    <2>2. start + ttl \in Nat /\ start + RefreshTtl \in Nat
      BY StartTimesNat
    <2>3. IdentityUser[i] \in User /\ FALSE \in BOOLEAN
      OBVIOUS
    <2>4. QED
      BY <2>1, <2>2, <2>3 DEF OpenStep
  <1>2. CASE impersonateUser
    <2>1. PICK i \in identities :
            /\ OpenFamily(IdentityUser[i], i, NoCredential, TRUE,
                          now + ImpersonationTtl, now + ImpersonationTtl)
            /\ UNCHANGED <<now, users, identities>>
      BY <1>2 DEF impersonateUser
    <2>2. now + ImpersonationTtl \in Nat
      BY DEF TypeOK
    <2>3. IdentityUser[i] \in User /\ i \in Identity /\ TRUE \in BOOLEAN
      BY DEF TypeOK
    <2>4. QED
      BY <2>1, <2>2, <2>3 DEF OpenStep
  <1>3. QED
    BY <1>1, <1>2

\* A step of any revocation leaves the rows it does not name alone.
LEMMA RevocationIsRevokeStep ==
  ASSUME \/ \E t \in Id : replayAfterGrace(t) \/ consumeRefreshToken(t)
         \/ \E s \in Id : \/ revokeSessionFamilyBySession(s)
                          \/ revokeSession(s)
                          \/ revokeRefreshTokensForSession(s)
         \/ \E u \in User : \/ revokeSessionsForUser(u)
                            \/ revokeAllSessionsForUser(u)
                            \/ resetPassword(u)
                            \/ revokeRefreshTokensForUser(u)
         \/ \E c \in Credential : revokePasskeySessions(c)
  PROVE  RevokeStep
  BY DEF RevokeStep, replayAfterGrace, consumeRefreshToken, revokeSessionFamilyBySession,
         revokeSession, revokeRefreshTokensForSession, revokeSessionsForUser,
         revokeAllSessionsForUser, resetPassword, revokeRefreshTokensForUser,
         revokePasskeySessions, revokeSessionFamily

LEMMA DeletionIsDeleteStep ==
  ASSUME TypeOK,
         \/ cleanupExpiredSessions
         \/ cleanupExpiredRefreshTokens
         \/ \E u \in User : deleteUser(u)
         \/ \E i \in Identity : linkAnonymousUser(i)
  PROVE  DeleteStep
  <1>1. sessions = Without(sessions, {}) /\ tokens = Without(tokens, {})
    BY DEF Without, TypeOK
  <1>2. QED
    BY <1>1 DEF DeleteStep, cleanupExpiredSessions, cleanupExpiredRefreshTokens,
                deleteUser, linkAnonymousUser

LEMMA StepKinds ==
  ASSUME TypeOK, [Next]_vars
  PROVE  \/ OpenStep
         \/ createSession
         \/ createRefreshToken
         \/ RefreshStep
         \/ RevokeStep
         \/ DeleteStep
         \/ Tick
         \/ UNCHANGED vars
  BY SignInIsOpenStep, RevocationIsRevokeStep, DeletionIsDeleteStep
     DEF Next, ProviderNext, ExportedNext, RefreshStep

-----------------------------------------------------------------------------
(***************************************************************************)
(* What the three table operators do to a table whose rows are in R.       *)
(***************************************************************************)
LEMMA WithRow ==
  ASSUME NEW R, NEW table, table \in [DOMAIN table -> R], NEW i, NEW row \in R
  PROVE  /\ DOMAIN With(table, i, row) = DOMAIN table \cup {i}
         /\ With(table, i, row)[i] = row
         /\ \A x \in DOMAIN table : x # i => With(table, i, row)[x] = table[x]
         /\ With(table, i, row) \in [DOMAIN table \cup {i} -> R]
  BY DEF With

LEMMA RevokedSessions ==
  ASSUME TypeOK, NEW ids
  PROVE  /\ DOMAIN Revoked(sessions, ids) = DOMAIN sessions
         /\ Revoked(sessions, ids) \in [DOMAIN sessions -> SessionRow]
         /\ \A s \in DOMAIN sessions :
              /\ Revoked(sessions, ids)[s].user = sessions[s].user
              /\ Revoked(sessions, ids)[s].identity = sessions[s].identity
              /\ Revoked(sessions, ids)[s].family = sessions[s].family
              /\ Revoked(sessions, ids)[s].credential = sessions[s].credential
              /\ Revoked(sessions, ids)[s].impersonated = sessions[s].impersonated
              /\ Revoked(sessions, ids)[s].expiresAt = sessions[s].expiresAt
              /\ ~Revoked(sessions, ids)[s].revoked => ~sessions[s].revoked
              /\ s \in ids => Revoked(sessions, ids)[s].revoked
              /\ s \notin ids => Revoked(sessions, ids)[s] = sessions[s]
  BY ZenonT(60) DEF TypeOK, Revoked, SessionRow

LEMMA RevokedTokens ==
  ASSUME TypeOK, NEW ids
  PROVE  /\ DOMAIN Revoked(tokens, ids) = DOMAIN tokens
         /\ Revoked(tokens, ids) \in [DOMAIN tokens -> TokenRow]
         /\ \A t \in DOMAIN tokens :
              /\ Revoked(tokens, ids)[t].session = tokens[t].session
              /\ Revoked(tokens, ids)[t].family = tokens[t].family
              /\ Revoked(tokens, ids)[t].user = tokens[t].user
              /\ Revoked(tokens, ids)[t].rotatedAt = tokens[t].rotatedAt
              /\ Revoked(tokens, ids)[t].redemptions = tokens[t].redemptions
              /\ Revoked(tokens, ids)[t].expiresAt = tokens[t].expiresAt
              /\ tokens[t].revoked => Revoked(tokens, ids)[t].revoked
  BY ZenonT(60) DEF TypeOK, Revoked, TokenRow

\* How a refresh marks the presented token.
Rotated(t) == [tokens EXCEPT ![t].revoked = TRUE, ![t].rotatedAt = now]
Redeemed(t) == [tokens EXCEPT ![t].redemptions = @ + 1]

LEMMA RotatedRow ==
  ASSUME TypeOK, NEW t \in DOMAIN tokens
  PROVE  /\ Rotated(t) \in [DOMAIN tokens -> TokenRow]
         /\ DOMAIN Rotated(t) = DOMAIN tokens
         /\ \A x \in DOMAIN tokens :
              /\ Rotated(t)[x].session = tokens[x].session
              /\ Rotated(t)[x].family = tokens[x].family
              /\ Rotated(t)[x].user = tokens[x].user
              /\ Rotated(t)[x].redemptions = tokens[x].redemptions
              /\ Rotated(t)[x].expiresAt = tokens[x].expiresAt
              /\ x # t => Rotated(t)[x] = tokens[x]
         /\ Rotated(t)[t].revoked
         /\ Rotated(t)[t].rotatedAt = now
  <1>1. now \in Nat /\ tokens \in [DOMAIN tokens -> TokenRow]
    BY DEF TypeOK
  <1> DEFINE row == [tokens[t] EXCEPT !.revoked = TRUE, !.rotatedAt = now]
  <1>2. /\ row \in TokenRow
        /\ row.session = tokens[t].session
        /\ row.family = tokens[t].family
        /\ row.user = tokens[t].user
        /\ row.redemptions = tokens[t].redemptions
        /\ row.expiresAt = tokens[t].expiresAt
        /\ row.revoked
        /\ row.rotatedAt = now
    BY <1>1 DEF TokenRow
  <1>3. Rotated(t) = [x \in DOMAIN tokens |-> IF x = t THEN row ELSE tokens[x]]
    BY <1>1 DEF Rotated
  <1> HIDE DEF row
  <1>4. QED
    BY <1>1, <1>2, <1>3

LEMMA RedeemedRow ==
  ASSUME TypeOK, NEW t \in DOMAIN tokens
  PROVE  /\ Redeemed(t) \in [DOMAIN tokens -> TokenRow]
         /\ DOMAIN Redeemed(t) = DOMAIN tokens
         /\ \A x \in DOMAIN tokens :
              /\ Redeemed(t)[x].session = tokens[x].session
              /\ Redeemed(t)[x].family = tokens[x].family
              /\ Redeemed(t)[x].user = tokens[x].user
              /\ Redeemed(t)[x].revoked = tokens[x].revoked
              /\ Redeemed(t)[x].rotatedAt = tokens[x].rotatedAt
              /\ Redeemed(t)[x].expiresAt = tokens[x].expiresAt
              /\ x # t => Redeemed(t)[x] = tokens[x]
         /\ Redeemed(t)[t].redemptions = tokens[t].redemptions + 1
  <1>1. tokens \in [DOMAIN tokens -> TokenRow]
    BY DEF TypeOK
  <1> DEFINE row == [tokens[t] EXCEPT !.redemptions = @ + 1]
  <1>2. /\ row \in TokenRow
        /\ row.session = tokens[t].session
        /\ row.family = tokens[t].family
        /\ row.user = tokens[t].user
        /\ row.redemptions = tokens[t].redemptions + 1
        /\ row.expiresAt = tokens[t].expiresAt
        /\ row.revoked = tokens[t].revoked
        /\ row.rotatedAt = tokens[t].rotatedAt
    BY <1>1 DEF TokenRow
  <1>3. Redeemed(t) = [x \in DOMAIN tokens |-> IF x = t THEN row ELSE tokens[x]]
    BY <1>1 DEF Redeemed
  <1> HIDE DEF row
  <1>4. QED
    BY <1>1, <1>2, <1>3

LEMMA FreshId ==
  ASSUME TypeOK, CanMint
  PROVE  /\ Fresh \in Id
         /\ Fresh \notin 1..minted
         /\ Fresh \in 0..MaxMinted
         /\ 1..Fresh = 1..minted \cup {Fresh}
         /\ Fresh \notin DOMAIN sessions
         /\ Fresh \notin DOMAIN tokens
  BY BoundAssumption DEF TypeOK, CanMint, Fresh, Id

LEMMA NewTokenType ==
  ASSUME NEW s \in Id, NEW f \in Id, NEW u \in User, NEW expiry \in Nat
  PROVE  NewToken(s, f, u, expiry) \in TokenRow
  BY DEF NewToken, TokenRow

LEMMA SuccessorType ==
  ASSUME TypeOK, NEW t \in DOMAIN tokens, NEW s \in DOMAIN sessions,
         NEW start \in StartTimes
  PROVE  Successor(t, s, start) \in SessionRow
  <1>1. start + DefaultSessionTtl \in Nat
    BY StartTimesNat, TtlAssumption
  <1>2. tokens[t] \in TokenRow /\ sessions[s] \in SessionRow
    BY DEF TypeOK
  <1>3. QED
    BY <1>1, <1>2 DEF Successor, TokenRow, SessionRow

LEMMA NextTokenType ==
  ASSUME TypeOK, CanMint, NEW t \in DOMAIN tokens, NEW start \in StartTimes
  PROVE  NextToken(t, start) \in TokenRow
  <1>1. start + DefaultRefreshTtl \in Nat
    BY StartTimesNat, TtlAssumption
  <1>2. tokens[t] \in TokenRow
    BY DEF TypeOK
  <1>3. tokens[t].family \in Id /\ tokens[t].user \in User
    BY <1>2 DEF TokenRow
  <1>4. QED
    BY <1>1, <1>3, FreshId, NewTokenType DEF NextToken

\* What both refreshing actions share.
LEMMA RefreshFacts ==
  ASSUME TypeOK, RefreshStep
  PROVE  \E t \in DOMAIN tokens, start \in StartTimes :
           /\ tokens[t].session \in DOMAIN sessions
           /\ rotateSession(t, start) \/ convergeSession(t, start)
  BY ZenonT(60) DEF RefreshStep, Refresh, rotateSession, convergeSession, CanRotate, CanConverge,
         MayConverge, Presentable, Resolvable

(***************************************************************************)
(* The rows keep their types and never outrun the ids drawn.               *)
(***************************************************************************)
LEMMA TypeInit == Init => TypeOK
  BY BoundAssumption DEF Init, TypeOK

LEMMA MintedByType ==
  ASSUME TypeOK, CanMint, NEW p \in 0..MaxMinted,
         minted' = Fresh, mintedBy' = With(mintedBy, Fresh, p)
  PROVE  /\ minted' \in 0..MaxMinted
         /\ mintedBy' \in [1..minted' -> 0..MaxMinted]
         /\ 1..minted \subseteq 1..minted'
         /\ Fresh \in 1..minted'
  <1>1. DOMAIN mintedBy = 1..minted
    BY DEF TypeOK
  <1>2. mintedBy' \in [1..minted \cup {Fresh} -> 0..MaxMinted]
    BY <1>1, WithRow DEF TypeOK
  <1>3. QED
    BY <1>2, FreshId

LEMMA TypeOpen ==
  ASSUME TypeOK, OpenStep
  PROVE  TypeOK'
  <1>1. PICK u \in User, i \in Identity \cup {NoIdentity},
             c \in Credential \cup {NoCredential}, imp \in BOOLEAN, se \in Nat, te \in Nat :
          /\ OpenFamily(u, i, c, imp, se, te)
          /\ UNCHANGED <<now, users, identities>>
    BY DEF OpenStep
  <1> DEFINE row == [user |-> u, identity |-> i, family |-> Fresh, credential |-> c,
                     impersonated |-> imp, revoked |-> FALSE, expiresAt |-> se]
             tok == NewToken(Fresh, Fresh, u, te)
  <1>2. CanMint
    BY <1>1 DEF OpenFamily
  <1>3. row \in SessionRow /\ tok \in TokenRow
    BY <1>2, FreshId, NewTokenType DEF SessionRow
  <1>4. sessions' = With(sessions, Fresh, row) /\ tokens' = With(tokens, Fresh, tok)
    BY <1>1 DEF OpenFamily
  <1> HIDE DEF row, tok
  <1>5. /\ sessions' \in [DOMAIN sessions \cup {Fresh} -> SessionRow]
        /\ tokens' \in [DOMAIN tokens \cup {Fresh} -> TokenRow]
    BY <1>3, <1>4, WithRow DEF TypeOK
  <1>6. minted' = Fresh /\ mintedBy' = With(mintedBy, Fresh, 0) /\ 0 \in 0..MaxMinted
    BY <1>1, BoundAssumption DEF OpenFamily
  <1>7. QED
    BY <1>1, <1>2, <1>5, <1>6, MintedByType DEF TypeOK

LEMMA TypeCreateSession ==
  ASSUME TypeOK, createSession
  PROVE  TypeOK'
  <1>1. PICK u \in User, i \in Identity \cup {NoIdentity} :
          /\ CanMint
          /\ sessions' = With(sessions, Fresh,
               [user |-> u, identity |-> i, family |-> Fresh, credential |-> NoCredential,
                impersonated |-> FALSE, revoked |-> FALSE, expiresAt |-> now + SessionTtl])
    BY DEF createSession
  <1> DEFINE row == [user |-> u, identity |-> i, family |-> Fresh, credential |-> NoCredential,
                     impersonated |-> FALSE, revoked |-> FALSE, expiresAt |-> now + SessionTtl]
  <1>2. now + SessionTtl \in Nat
    BY TtlAssumption DEF TypeOK
  <1>3. row \in SessionRow
    BY <1>1, <1>2, FreshId DEF SessionRow
  <1>4. sessions' = With(sessions, Fresh, row)
    BY <1>1
  <1> HIDE DEF row
  <1>5. sessions' \in [DOMAIN sessions \cup {Fresh} -> SessionRow]
    BY <1>3, <1>4, WithRow DEF TypeOK
  <1>6. /\ minted' = Fresh /\ mintedBy' = With(mintedBy, Fresh, 0) /\ 0 \in 0..MaxMinted
        /\ UNCHANGED <<now, users, identities, tokens>>
    BY BoundAssumption DEF createSession
  <1>7. QED
    BY <1>1, <1>5, <1>6, MintedByType DEF TypeOK

LEMMA TypeCreateRefreshToken ==
  ASSUME TypeOK, createRefreshToken
  PROVE  TypeOK'
  <1>1. PICK s \in DOMAIN sessions :
          /\ CanMint
          /\ tokens' = With(tokens, Fresh,
               NewToken(s, sessions[s].family, sessions[s].user, now + RefreshTtl))
    BY DEF createRefreshToken
  <1> DEFINE tok == NewToken(s, sessions[s].family, sessions[s].user, now + RefreshTtl)
  <1>2. s \in Id /\ sessions[s].family \in Id /\ sessions[s].user \in User
    BY BoundAssumption DEF TypeOK, SessionRow, Id
  <1>3. now + RefreshTtl \in Nat
    BY TtlAssumption DEF TypeOK
  <1>4. tok \in TokenRow
    BY <1>2, <1>3, NewTokenType
  <1>5. tokens' = With(tokens, Fresh, tok)
    BY <1>1
  <1> HIDE DEF tok
  <1>6. tokens' \in [DOMAIN tokens \cup {Fresh} -> TokenRow]
    BY <1>4, <1>5, WithRow DEF TypeOK
  <1>7. /\ minted' = Fresh /\ mintedBy' = With(mintedBy, Fresh, 0) /\ 0 \in 0..MaxMinted
        /\ UNCHANGED <<now, users, identities, sessions>>
    BY BoundAssumption DEF createRefreshToken
  <1>8. QED
    BY <1>1, <1>6, <1>7, MintedByType DEF TypeOK

LEMMA TypeRefresh ==
  ASSUME TypeOK, RefreshStep
  PROVE  TypeOK'
  <1>1. PICK t \in DOMAIN tokens, start \in StartTimes :
          /\ tokens[t].session \in DOMAIN sessions
          /\ rotateSession(t, start) \/ convergeSession(t, start)
    BY RefreshFacts
  <1> DEFINE s == tokens[t].session
             row == Successor(t, s, start)
             tok == NextToken(t, start)
  <1>2. CanMint /\ minted' = Fresh /\ mintedBy' = With(mintedBy, Fresh, t)
        /\ UNCHANGED <<now, users, identities>>
    BY <1>1 DEF rotateSession, convergeSession
  <1>3. row \in SessionRow /\ tok \in TokenRow
    BY <1>1, <1>2, SuccessorType, NextTokenType
  <1>4. t \in 0..MaxMinted
    BY BoundAssumption DEF TypeOK
  <1>5. sessions' \in [DOMAIN sessions \cup {Fresh} -> SessionRow]
    <2>1. \/ sessions' = With(sessions, Fresh, row)
          \/ sessions' = With(Revoked(sessions, {s}), Fresh, row)
      BY <1>1 DEF rotateSession, convergeSession, Superseded
    <2> HIDE DEF row, tok
    <2>2. CASE sessions' = With(sessions, Fresh, row)
      BY <1>3, <2>2, WithRow DEF TypeOK
    <2>3. CASE sessions' = With(Revoked(sessions, {s}), Fresh, row)
      <3> DEFINE marked == Revoked(sessions, {s})
      <3>1. marked \in [DOMAIN sessions -> SessionRow] /\ DOMAIN marked = DOMAIN sessions
        BY RevokedSessions
      <3>2. sessions' = With(marked, Fresh, row)
        BY <2>3
      <3> HIDE DEF marked
      <3>3. QED
        BY <1>3, <3>1, <3>2, WithRow
    <2>4. QED
      BY <2>1, <2>2, <2>3
  <1>6. tokens' \in [DOMAIN tokens \cup {Fresh} -> TokenRow]
    <2>1. \/ tokens' = With(Rotated(t), Fresh, tok)
          \/ tokens' = With(Redeemed(t), Fresh, tok)
      BY <1>1 DEF rotateSession, convergeSession, Rotated, Redeemed
    <2> HIDE DEF tok
    <2>2. CASE tokens' = With(Rotated(t), Fresh, tok)
      <3> DEFINE marked == Rotated(t)
      <3>1. marked \in [DOMAIN tokens -> TokenRow] /\ DOMAIN marked = DOMAIN tokens
        BY RotatedRow
      <3>2. tokens' = With(marked, Fresh, tok)
        BY <2>2
      <3> HIDE DEF marked
      <3>3. QED
        BY <1>3, <3>1, <3>2, WithRow
    <2>3. CASE tokens' = With(Redeemed(t), Fresh, tok)
      <3> DEFINE marked == Redeemed(t)
      <3>1. marked \in [DOMAIN tokens -> TokenRow] /\ DOMAIN marked = DOMAIN tokens
        BY RedeemedRow
      <3>2. tokens' = With(marked, Fresh, tok)
        BY <2>3
      <3> HIDE DEF marked
      <3>3. QED
        BY <1>3, <3>1, <3>2, WithRow
    <2>4. QED
      BY <2>1, <2>2, <2>3
  <1>7. QED
    BY <1>2, <1>4, <1>5, <1>6, MintedByType DEF TypeOK

LEMMA TypeRevoke ==
  ASSUME TypeOK, RevokeStep
  PROVE  TypeOK'
  <1>1. PICK sids, tids : RevokeRows(sids, tids)
    BY DEF RevokeStep
  <1>2. QED
    BY <1>1, RevokedSessions, RevokedTokens DEF RevokeRows, TypeOK

LEMMA TypeDelete ==
  ASSUME TypeOK, DeleteStep
  PROVE  TypeOK'
  BY DEF DeleteStep, TypeOK, Without

LEMMA TypeStep ==
  ASSUME TypeOK, [Next]_vars
  PROVE  TypeOK'
  <1>1. CASE Tick
    BY <1>1, BoundAssumption DEF Tick, TypeOK
  <1>2. CASE UNCHANGED vars
    BY <1>2 DEF vars, TypeOK
  <1>3. QED
    BY <1>1, <1>2, StepKinds, TypeOpen, TypeCreateSession, TypeCreateRefreshToken,
       TypeRefresh, TypeRevoke, TypeDelete

(***************************************************************************)
(* Every row the mutations write is well-typed and carries an id that has  *)
(* been drawn.                                                             *)
(***************************************************************************)
THEOREM TypeCorrect == Spec => []TypeOK
  <1>1. QED
    BY TypeInit, TypeStep, PTL DEF Spec

-----------------------------------------------------------------------------
(***************************************************************************)
(* A step leaves the rows it finds as they are, except that it may revoke  *)
(* them, stamp the token it rotates and count a redemption.  Whatever else *)
(* is new is the row it inserts under Fresh.                               *)
(***************************************************************************)
OldSession(s) ==
  /\ s \in DOMAIN sessions
  /\ sessions'[s].user = sessions[s].user
  /\ sessions'[s].identity = sessions[s].identity
  /\ sessions'[s].credential = sessions[s].credential
  /\ sessions'[s].impersonated = sessions[s].impersonated
  /\ sessions'[s].family = sessions[s].family
  /\ sessions'[s].expiresAt = sessions[s].expiresAt
  /\ ~sessions'[s].revoked => ~sessions[s].revoked

OldToken(t) ==
  /\ t \in DOMAIN tokens
  /\ tokens'[t].session = tokens[t].session
  /\ tokens'[t].family = tokens[t].family
  /\ tokens'[t].user = tokens[t].user
  /\ tokens[t].revoked => tokens'[t].revoked

LEMMA OldSessions ==
  ASSUME TypeOK, [Next]_vars
  PROVE  \A s \in DOMAIN sessions' \ {Fresh} : OldSession(s)
  <1>1. CASE OpenStep
    <2>1. PICK row : sessions' = With(sessions, Fresh, row)
      BY <1>1 DEF OpenStep, OpenFamily
    <2>2. QED
      BY <2>1 DEF With, OldSession
  <1>2. CASE createSession
    <2>1. PICK row : sessions' = With(sessions, Fresh, row)
      BY <1>2 DEF createSession
    <2>2. QED
      BY <2>1 DEF With, OldSession
  <1>3. CASE RefreshStep
    <2>1. PICK t \in DOMAIN tokens, start \in StartTimes :
            /\ tokens[t].session \in DOMAIN sessions
            /\ rotateSession(t, start) \/ convergeSession(t, start)
      BY <1>3, RefreshFacts
    <2> DEFINE s == tokens[t].session
               row == Successor(t, s, start)
    <2>2. \/ sessions' = With(sessions, Fresh, row)
          \/ sessions' = With(Revoked(sessions, {s}), Fresh, row)
      BY <2>1 DEF rotateSession, convergeSession, Superseded
    <2> HIDE DEF row, s
    <2>3. CASE sessions' = With(sessions, Fresh, row)
      BY <2>3 DEF With, OldSession
    <2>4. CASE sessions' = With(Revoked(sessions, {s}), Fresh, row)
      <3>1. \A x \in DOMAIN sessions' \ {Fresh} :
              x \in DOMAIN sessions /\ sessions'[x] = Revoked(sessions, {s})[x]
        BY <2>4, RevokedSessions DEF With
      <3>2. QED
        BY <3>1, RevokedSessions DEF OldSession
    <2>5. QED
      BY <2>2, <2>3, <2>4
  <1>4. CASE RevokeStep
    BY <1>4, RevokedSessions DEF RevokeStep, RevokeRows, OldSession
  <1>5. CASE DeleteStep
    BY <1>5 DEF DeleteStep, Without, OldSession
  <1>6. CASE createRefreshToken \/ Tick \/ UNCHANGED vars
    BY <1>6 DEF createRefreshToken, Tick, vars, OldSession
  <1>7. QED
    BY StepKinds, <1>1, <1>2, <1>3, <1>4, <1>5, <1>6

LEMMA OldTokens ==
  ASSUME TypeOK, [Next]_vars
  PROVE  \A t \in DOMAIN tokens' \ {Fresh} : OldToken(t)
  <1>1. CASE OpenStep
    <2>1. PICK row : tokens' = With(tokens, Fresh, row)
      BY <1>1 DEF OpenStep, OpenFamily
    <2>2. QED
      BY <2>1 DEF With, OldToken
  <1>2. CASE createRefreshToken
    <2>1. PICK row : tokens' = With(tokens, Fresh, row)
      BY <1>2 DEF createRefreshToken
    <2>2. QED
      BY <2>1 DEF With, OldToken
  <1>3. CASE RefreshStep
    <2>1. PICK t \in DOMAIN tokens :
            \E row : \/ tokens' = With(Rotated(t), Fresh, row)
                     \/ tokens' = With(Redeemed(t), Fresh, row)
      BY <1>3, RefreshFacts DEF rotateSession, convergeSession, Rotated, Redeemed
    <2>2. PICK row : \/ tokens' = With(Rotated(t), Fresh, row)
                     \/ tokens' = With(Redeemed(t), Fresh, row)
      BY <2>1
    <2>3. CASE tokens' = With(Rotated(t), Fresh, row)
      <3>1. \A x \in DOMAIN tokens' \ {Fresh} :
              x \in DOMAIN tokens /\ tokens'[x] = Rotated(t)[x]
        BY <2>3, RotatedRow DEF With
      <3>2. QED
        BY <3>1, RotatedRow DEF OldToken
    <2>4. CASE tokens' = With(Redeemed(t), Fresh, row)
      <3>1. \A x \in DOMAIN tokens' \ {Fresh} :
              x \in DOMAIN tokens /\ tokens'[x] = Redeemed(t)[x]
        BY <2>4, RedeemedRow DEF With
      <3>2. QED
        BY <3>1, RedeemedRow DEF OldToken
    <2>5. QED
      BY <2>2, <2>3, <2>4
  <1>4. CASE RevokeStep
    BY <1>4, RevokedTokens DEF RevokeStep, RevokeRows, OldToken
  <1>5. CASE DeleteStep
    BY <1>5 DEF DeleteStep, Without, OldToken
  <1>6. CASE createSession \/ Tick \/ UNCHANGED vars
    BY <1>6 DEF createSession, Tick, vars, OldToken
  <1>7. QED
    BY StepKinds, <1>1, <1>2, <1>3, <1>4, <1>5, <1>6

\* A refresh with t inserts Fresh into t's family, which is alive.
JoinsBy(t) ==
  LET s == tokens[t].session
  IN  /\ s \in DOMAIN sessions
      /\ Live(s) \/ LiveIn(tokens[t].family) # {}
      /\ Fresh \in DOMAIN sessions'
      /\ sessions'[Fresh].family = tokens[t].family
      /\ sessions'[Fresh].user = tokens[t].user
      /\ sessions'[Fresh].identity = sessions[s].identity
      /\ sessions'[Fresh].credential = sessions[s].credential
      /\ sessions'[Fresh].impersonated = sessions[s].impersonated
      /\ Fresh \in DOMAIN tokens'
      /\ tokens'[Fresh] = NewToken(Fresh, tokens[t].family, tokens[t].user,
                                   tokens'[Fresh].expiresAt)

LEMMA RefreshJoins ==
  ASSUME TypeOK, NEW t \in DOMAIN tokens, NEW start \in StartTimes,
         tokens[t].session \in DOMAIN sessions,
         rotateSession(t, start) \/ convergeSession(t, start)
  PROVE  JoinsBy(t)
  <1> DEFINE s == tokens[t].session
             row == Successor(t, s, start)
             expiry == start + DefaultRefreshTtl
             tok == NewToken(Fresh, tokens[t].family, tokens[t].user, expiry)
  <1>1. \/ sessions' = With(sessions, Fresh, row)
        \/ sessions' = With(Revoked(sessions, {s}), Fresh, row)
    BY DEF rotateSession, convergeSession, Superseded
  <1>2. Fresh \in DOMAIN sessions' /\ sessions'[Fresh] = row
    <2> HIDE DEF row
    <2>1. QED
      BY <1>1 DEF With
  <1>3. \E table : tokens' = With(table, Fresh, tok)
    BY DEF rotateSession, convergeSession, NextToken
  <1>4. Fresh \in DOMAIN tokens' /\ tokens'[Fresh] = tok
    <2> HIDE DEF tok
    <2>1. QED
      BY <1>3 DEF With
  <1>5. tokens'[Fresh].expiresAt = expiry
    <2> HIDE DEF expiry
    <2>1. QED
      BY <1>4 DEF NewToken
  <1>6. sessions[s] \in SessionRow
    BY DEF TypeOK
  <1>7. /\ row.family = tokens[t].family
        /\ row.user = tokens[t].user
        /\ row.identity = sessions[s].identity
        /\ row.credential = sessions[s].credential
        /\ row.impersonated = sessions[s].impersonated
    BY <1>6 DEF Successor, SessionRow
  <1>8. Live(s) \/ LiveIn(tokens[t].family) # {}
    BY DEF rotateSession, CanRotate, convergeSession, CanConverge
  <1> HIDE DEF row, expiry
  <1>9. QED
    BY <1>2, <1>4, <1>5, <1>7, <1>8 DEF JoinsBy

\* A sign-in or createSession opens the family Fresh.
OpensFresh ==
  /\ Fresh \in DOMAIN sessions'
  /\ sessions'[Fresh].family = Fresh
  /\ Fresh \in DOMAIN tokens' =>
       tokens'[Fresh] = NewToken(Fresh, Fresh, sessions'[Fresh].user, tokens'[Fresh].expiresAt)

\* createRefreshToken gives session s another token.
AddsTokenTo(s) ==
  /\ Fresh \in DOMAIN tokens'
  /\ tokens'[Fresh] = NewToken(s, sessions[s].family, sessions[s].user,
                               tokens'[Fresh].expiresAt)

LEMMA FreshIsNew ==
  ASSUME TypeOK
  PROVE  Fresh \notin DOMAIN sessions /\ Fresh \notin DOMAIN tokens /\ Fresh \notin 1..minted
  BY DEF TypeOK, Fresh

LEMMA OpenOpens ==
  ASSUME TypeOK, OpenStep
  PROVE  OpensFresh
  <1>1. PICK u \in User, i \in Identity \cup {NoIdentity},
             c \in Credential \cup {NoCredential}, imp \in BOOLEAN, se \in Nat, te \in Nat :
          OpenFamily(u, i, c, imp, se, te)
    BY DEF OpenStep
  <1> DEFINE row == [user |-> u, identity |-> i, family |-> Fresh, credential |-> c,
                     impersonated |-> imp, revoked |-> FALSE, expiresAt |-> se]
             tok == NewToken(Fresh, Fresh, u, te)
  <1>2. sessions' = With(sessions, Fresh, row) /\ tokens' = With(tokens, Fresh, tok)
    BY <1>1 DEF OpenFamily
  <1>3. /\ Fresh \in DOMAIN sessions' /\ sessions'[Fresh] = row
        /\ Fresh \in DOMAIN tokens' /\ tokens'[Fresh] = tok
    <2> HIDE DEF row, tok
    <2>1. QED
      BY <1>2 DEF With
  <1>4. tokens'[Fresh].expiresAt = te /\ sessions'[Fresh].user = u
        /\ sessions'[Fresh].family = Fresh
    BY <1>3 DEF NewToken
  <1>5. QED
    BY <1>3, <1>4 DEF OpensFresh

LEMMA CreateOpens ==
  ASSUME TypeOK, createSession
  PROVE  OpensFresh
  <1>1. PICK u, i :
          sessions' = With(sessions, Fresh,
            [user |-> u, identity |-> i, family |-> Fresh, credential |-> NoCredential,
             impersonated |-> FALSE, revoked |-> FALSE, expiresAt |-> now + SessionTtl])
    BY DEF createSession
  <1>2. Fresh \in DOMAIN sessions' /\ sessions'[Fresh].family = Fresh
    BY <1>1 DEF With
  <1>3. tokens' = tokens
    BY DEF createSession
  <1>4. QED
    BY <1>2, <1>3, FreshIsNew DEF OpensFresh

LEMMA CreateAddsToken ==
  ASSUME TypeOK, createRefreshToken
  PROVE  \E s \in DOMAIN sessions : AddsTokenTo(s)
  <1>1. PICK s \in DOMAIN sessions :
          tokens' = With(tokens, Fresh,
            NewToken(s, sessions[s].family, sessions[s].user, now + RefreshTtl))
    BY DEF createRefreshToken
  <1> DEFINE expiry == now + RefreshTtl
             tok == NewToken(s, sessions[s].family, sessions[s].user, expiry)
  <1>2. Fresh \in DOMAIN tokens' /\ tokens'[Fresh] = tok
    <2> HIDE DEF tok
    <2>1. tokens' = With(tokens, Fresh, tok)
      BY <1>1 DEF tok
    <2>2. QED
      BY <2>1 DEF With
  <1> HIDE DEF expiry
  <1>3. tokens'[Fresh].expiresAt = expiry
    BY <1>2 DEF NewToken
  <1>4. QED
    BY <1>2, <1>3 DEF AddsTokenTo

(***************************************************************************)
(* Where new rows come from.                                               *)
(***************************************************************************)
LEMMA NewRows ==
  ASSUME TypeOK, [Next]_vars,
         Fresh \in DOMAIN sessions' \/ Fresh \in DOMAIN tokens'
  PROVE  \/ OpensFresh
         \/ Fresh \notin DOMAIN sessions' /\ \E s \in DOMAIN sessions : AddsTokenTo(s)
         \/ \E t \in DOMAIN tokens : JoinsBy(t)
  <1>1. CASE OpenStep \/ createSession
    BY <1>1, OpenOpens, CreateOpens
  <1>2. CASE createRefreshToken
    BY <1>2, CreateAddsToken, FreshIsNew DEF createRefreshToken
  <1>3. CASE RefreshStep
    BY <1>3, RefreshFacts, RefreshJoins
  <1>4. CASE RevokeStep
    BY <1>4, FreshIsNew, RevokedSessions, RevokedTokens DEF RevokeStep, RevokeRows
  <1>5. CASE DeleteStep \/ Tick \/ UNCHANGED vars
    BY <1>5, FreshIsNew DEF DeleteStep, Without, Tick, vars
  <1>6. QED
    BY StepKinds, <1>1, <1>2, <1>3, <1>4, <1>5

-----------------------------------------------------------------------------
(***************************************************************************)
(* The inductive invariant.  FamilyUniform and SupersededSessionDead are   *)
(* not inductive by themselves: a refresh writes the token's family into   *)
(* the session it inserts, so the family of a token must be that of its    *)
(* session, and no row may name a family or a session not yet minted, or   *)
(* the next sign-in would find its fresh family inhabited.                 *)
(***************************************************************************)
Consistent ==
  /\ \A s \in DOMAIN sessions : sessions[s].family \in 1..minted
  /\ \A t \in DOMAIN tokens : tokens[t].family \in 1..minted /\ tokens[t].session \in 1..minted
  /\ \A t \in DOMAIN tokens :
       tokens[t].session \in DOMAIN sessions =>
         tokens[t].family = sessions[tokens[t].session].family

IInv == TypeOK /\ Consistent /\ FamilyUniform /\ SupersededSessionDead

LEMMA MintedGrows ==
  ASSUME TypeOK, [Next]_vars
  PROVE  /\ minted' \in {minted, Fresh}
         /\ 1..minted \subseteq 1..minted'
         /\ Fresh \in DOMAIN sessions' \/ Fresh \in DOMAIN tokens' => Fresh \in 1..minted'
  <1>1. minted \in Nat /\ minted' \in Nat
    BY TypeStep DEF TypeOK
  <1>2. minted' \in {minted, Fresh}
    BY StepKinds DEF OpenStep, OpenFamily, createSession, createRefreshToken, RefreshStep,
       Refresh, rotateSession, convergeSession, RevokeStep, RevokeRows, DeleteStep, Tick, vars
  <1>3. DOMAIN sessions' \subseteq 1..minted' /\ DOMAIN tokens' \subseteq 1..minted'
    BY TypeStep DEF TypeOK
  <1>4. 1..minted \subseteq 1..minted'
    BY <1>1, <1>2 DEF Fresh
  <1>5. QED
    BY <1>2, <1>3, <1>4

\* The fields of a token row just built.
LEMMA NewTokenFields ==
  ASSUME NEW s, NEW f, NEW u, NEW expiry
  PROVE  /\ NewToken(s, f, u, expiry).session = s
         /\ NewToken(s, f, u, expiry).family = f
         /\ NewToken(s, f, u, expiry).user = u
         /\ NewToken(s, f, u, expiry).rotatedAt = Never
         /\ NewToken(s, f, u, expiry).redemptions = 0
  BY DEF NewToken

LEMMA ConsistentStep ==
  ASSUME TypeOK, Consistent, [Next]_vars
  PROVE  Consistent'
  <1>1. \A s \in DOMAIN sessions' \ {Fresh} : sessions'[s].family \in 1..minted'
    BY OldSessions, MintedGrows DEF OldSession, Consistent
  <1>2. \A t \in DOMAIN tokens' \ {Fresh} :
          /\ tokens'[t].family \in 1..minted'
          /\ tokens'[t].session \in 1..minted'
          /\ tokens'[t].session \in DOMAIN sessions' =>
               tokens'[t].family = sessions'[tokens'[t].session].family
    <2>1. SUFFICES ASSUME NEW t \in DOMAIN tokens' \ {Fresh}
                   PROVE  /\ tokens'[t].family \in 1..minted'
                          /\ tokens'[t].session \in 1..minted'
                          /\ tokens'[t].session \in DOMAIN sessions' =>
                               tokens'[t].family = sessions'[tokens'[t].session].family
      OBVIOUS
    <2>2. OldToken(t) /\ tokens[t].session \in 1..minted /\ tokens[t].family \in 1..minted
      BY OldTokens DEF OldToken, Consistent
    <2>3. tokens[t].session # Fresh
      BY <2>2, FreshIsNew
    <2>4. QED
      BY <2>2, <2>3, OldSessions, MintedGrows DEF OldToken, OldSession, Consistent
  <1>3. CASE OpensFresh
    <2>1. Fresh \in 1..minted' /\ sessions'[Fresh].family = Fresh /\ Fresh \in DOMAIN sessions'
      BY <1>3, MintedGrows DEF OpensFresh
    <2>2. Fresh \in DOMAIN tokens' => tokens'[Fresh].family = Fresh /\ tokens'[Fresh].session = Fresh
      BY <1>3, NewTokenFields DEF OpensFresh
    <2>3. QED
      BY <1>1, <1>2, <2>1, <2>2 DEF Consistent
  <1>4. CASE Fresh \notin DOMAIN sessions' /\ \E s \in DOMAIN sessions : AddsTokenTo(s)
    <2>1. PICK s \in DOMAIN sessions : AddsTokenTo(s)
      BY <1>4
    <2>2. tokens'[Fresh].session = s /\ tokens'[Fresh].family = sessions[s].family
      BY <2>1, NewTokenFields DEF AddsTokenTo
    <2>3. s \in 1..minted' /\ sessions[s].family \in 1..minted' /\ s # Fresh
      BY MintedGrows, FreshIsNew DEF Consistent, TypeOK
    <2>4. s \in DOMAIN sessions' => sessions'[s].family = sessions[s].family
      BY <2>3, OldSessions DEF OldSession
    <2>5. QED
      BY <1>1, <1>2, <1>4, <2>2, <2>3, <2>4 DEF Consistent
  <1>5. CASE \E t \in DOMAIN tokens : JoinsBy(t)
    <2>1. PICK t \in DOMAIN tokens : JoinsBy(t)
      BY <1>5
    <2>2. /\ tokens'[Fresh].session = Fresh
          /\ tokens'[Fresh].family = tokens[t].family
          /\ sessions'[Fresh].family = tokens[t].family
      BY <2>1, NewTokenFields DEF JoinsBy
    <2>3. Fresh \in 1..minted' /\ tokens[t].family \in 1..minted'
      BY <2>1, MintedGrows DEF JoinsBy, Consistent
    <2>4. QED
      BY <1>1, <1>2, <2>2, <2>3 DEF Consistent
  <1>6. CASE Fresh \notin DOMAIN sessions' /\ Fresh \notin DOMAIN tokens'
    BY <1>1, <1>2, <1>6 DEF Consistent
  <1>7. QED
    BY <1>3, <1>4, <1>5, <1>6, NewRows

\* Of the rows there already were, a step never makes one live.
LEMMA LiveShrinks ==
  ASSUME TypeOK, [Next]_vars
  PROVE  \A f : LiveIn(f)' \subseteq LiveIn(f) \cup {Fresh}
  <1>1. now \in Nat /\ now' \in Nat /\ now <= now'
    <2>1. now' = now \/ now' = now + 1
      BY StepKinds DEF OpenStep, createSession, createRefreshToken, RefreshStep, Refresh,
         rotateSession, convergeSession, RevokeStep, RevokeRows, DeleteStep, Tick, vars
    <2>2. now \in Nat
      BY DEF TypeOK
    <2>3. QED
      BY <2>1, <2>2
  <1>2. ASSUME NEW f, NEW s \in LiveIn(f)', s # Fresh
        PROVE  s \in LiveIn(f)
    <2>1. s \in DOMAIN sessions' /\ sessions'[s].family = f /\ ~sessions'[s].revoked
          /\ sessions'[s].expiresAt > now'
      BY <1>2 DEF LiveIn, SessionsInFamily
    <2>2. OldSession(s)
      BY <1>2, <2>1, OldSessions
    <2>3. sessions[s].expiresAt \in Nat
      BY <2>2 DEF OldSession, TypeOK, SessionRow
    <2>4. sessions[s].expiresAt > now
      BY <1>1, <2>1, <2>2, <2>3 DEF OldSession
    <2>5. QED
      BY <2>1, <2>2, <2>4 DEF OldSession, LiveIn, SessionsInFamily
  <1>3. QED
    BY <1>2

\* A step that puts Fresh into a family finds it alive, or opens it.
LEMMA FreshJoinsAlive ==
  ASSUME TypeOK, Consistent, [Next]_vars, Fresh \in DOMAIN sessions'
  PROVE  \/ sessions'[Fresh].family = Fresh
         \/ LiveIn(sessions'[Fresh].family) # {}
  <1>1. CASE OpensFresh
    BY <1>1 DEF OpensFresh
  <1>2. CASE \E t \in DOMAIN tokens : JoinsBy(t)
    <2>1. PICK t \in DOMAIN tokens : JoinsBy(t)
      BY <1>2
    <2>2. sessions'[Fresh].family = tokens[t].family
      BY <2>1 DEF JoinsBy
    <2>3. tokens[t].session \in DOMAIN sessions
          /\ tokens[t].family = sessions[tokens[t].session].family
      BY <2>1 DEF JoinsBy, Consistent
    <2>4. LiveIn(tokens[t].family) # {}
      BY <2>1, <2>3 DEF JoinsBy, Live
    <2>5. QED
      BY <2>2, <2>4
  <1>3. QED
    BY <1>1, <1>2, NewRows

LEMMA DeadStep ==
  ASSUME TypeOK, Consistent, [Next]_vars, NEW f \in 1..minted, LiveIn(f) = {}
  PROVE  LiveIn(f)' = {}
  <1>1. LiveIn(f)' \subseteq {Fresh}
    BY LiveShrinks
  <1>2. ASSUME Fresh \in LiveIn(f)'
        PROVE  FALSE
    <2>1. Fresh \in DOMAIN sessions' /\ sessions'[Fresh].family = f
      BY <1>2 DEF LiveIn, SessionsInFamily
    <2>2. f # Fresh
      BY FreshIsNew
    <2>3. QED
      BY <2>1, <2>2, FreshJoinsAlive
  <1>3. QED
    BY <1>1, <1>2

LEMMA UniformStep ==
  ASSUME TypeOK, Consistent, FamilyUniform, [Next]_vars
  PROVE  FamilyUniform'
  <1>1. ASSUME NEW r \in DOMAIN sessions', NEW s \in DOMAIN sessions', r # Fresh, s # Fresh,
               sessions'[r].family = sessions'[s].family
        PROVE  Provenance(r)' = Provenance(s)'
    BY <1>1, OldSessions DEF OldSession, FamilyUniform, Provenance
  <1>2. ASSUME NEW t \in DOMAIN tokens', NEW s \in DOMAIN sessions', t # Fresh, s # Fresh,
               tokens'[t].family = sessions'[s].family
        PROVE  tokens'[t].user = sessions'[s].user
    BY <1>2, OldSessions, OldTokens DEF OldSession, OldToken, FamilyUniform
  <1>3. \A s \in DOMAIN sessions' \ {Fresh} : sessions'[s].family \in 1..minted
    BY OldSessions DEF OldSession, Consistent
  <1>4. \A t \in DOMAIN tokens' \ {Fresh} : tokens'[t].family \in 1..minted
    BY OldTokens DEF OldToken, Consistent
  <1>5. CASE OpensFresh
    <2>1. sessions'[Fresh].family = Fresh
      BY <1>5 DEF OpensFresh
    <2>2. Fresh \in DOMAIN tokens' =>
            tokens'[Fresh].family = Fresh /\ tokens'[Fresh].user = sessions'[Fresh].user
      BY <1>5, NewTokenFields DEF OpensFresh
    <2>3. QED
      BY <1>1, <1>2, <1>3, <1>4, <2>1, <2>2, FreshIsNew DEF FamilyUniform
  <1>6. CASE Fresh \notin DOMAIN sessions' /\ \E s \in DOMAIN sessions : AddsTokenTo(s)
    <2>1. PICK s \in DOMAIN sessions : AddsTokenTo(s)
      BY <1>6
    <2>2. tokens'[Fresh].family = sessions[s].family /\ tokens'[Fresh].user = sessions[s].user
      BY <2>1, NewTokenFields DEF AddsTokenTo
    <2>3. \A r \in DOMAIN sessions' :
            sessions'[r].family = sessions[s].family => sessions'[r].user = sessions[s].user
      <3>1. SUFFICES ASSUME NEW r \in DOMAIN sessions',
                            sessions'[r].family = sessions[s].family
                     PROVE  sessions'[r].user = sessions[s].user
        OBVIOUS
      <3>2. OldSession(r)
        BY <1>6, OldSessions
      <3>3. Provenance(r) = Provenance(s)
        BY <3>1, <3>2 DEF OldSession, FamilyUniform
      <3>4. sessions[r].user = sessions[s].user
        BY <3>3 DEF Provenance
      <3>5. QED
        BY <3>2, <3>4 DEF OldSession
    <2>4. QED
      BY <1>1, <1>2, <1>6, <2>2, <2>3 DEF FamilyUniform
  <1>7. CASE \E t \in DOMAIN tokens : JoinsBy(t)
    <2>1. PICK t \in DOMAIN tokens : JoinsBy(t)
      BY <1>7
    <2>11. PICK o : o = tokens[t].session
      OBVIOUS
    <2>12. PICK n : n = Fresh
      OBVIOUS
    <2>2. o \in DOMAIN sessions /\ tokens[t].family = sessions[o].family
      BY <2>1, <2>11 DEF JoinsBy, Consistent
    <2>3. tokens[t].user = sessions[o].user
      BY <2>2 DEF FamilyUniform
    <2>4. sessions'[n].family = sessions[o].family /\ Provenance(n)' = Provenance(o)
      <3>1. /\ sessions'[n].family = sessions[o].family
            /\ sessions'[n].user = sessions[o].user
            /\ sessions'[n].identity = sessions[o].identity
            /\ sessions'[n].credential = sessions[o].credential
            /\ sessions'[n].impersonated = sessions[o].impersonated
        BY <2>1, <2>2, <2>3, <2>11, <2>12 DEF JoinsBy
      <3>2. QED
        BY <3>1 DEF Provenance
    <2>5. /\ tokens'[Fresh].family = sessions[o].family
          /\ tokens'[Fresh].user = sessions[o].user
          /\ sessions'[n].user = sessions[o].user
      BY <2>1, <2>2, <2>3, <2>12, NewTokenFields DEF JoinsBy
    <2>6. \A r \in DOMAIN sessions' \ {Fresh} :
            sessions'[r].family = sessions[o].family =>
              Provenance(r)' = Provenance(o) /\ sessions'[r].user = sessions[o].user
      BY <2>2, OldSessions DEF OldSession, FamilyUniform, Provenance
    <2>7. \A x \in DOMAIN tokens' \ {Fresh} :
            tokens'[x].family = sessions[o].family => tokens'[x].user = sessions[o].user
      BY <2>2, OldTokens DEF OldToken, FamilyUniform
    <2>8. \A r, s \in DOMAIN sessions' :
            sessions'[r].family = sessions'[s].family => Provenance(r)' = Provenance(s)'
      <3>1. \A r \in DOMAIN sessions' :
              sessions'[r].family = sessions[o].family => Provenance(r)' = Provenance(o)
        BY <2>4, <2>6, <2>12
      <3>2. QED
        BY <1>1, <2>4, <2>12, <3>1
    <2>9. \A x \in DOMAIN tokens', s \in DOMAIN sessions' :
            tokens'[x].family = sessions'[s].family => tokens'[x].user = sessions'[s].user
      BY <1>2, <2>4, <2>5, <2>6, <2>7, <2>12
    <2>10. QED
      BY <2>8, <2>9 DEF FamilyUniform
  <1>8. CASE Fresh \notin DOMAIN sessions' /\ Fresh \notin DOMAIN tokens'
    BY <1>1, <1>2, <1>8 DEF FamilyUniform
  <1>9. QED
    BY <1>5, <1>6, <1>7, <1>8, NewRows

\* The token a step stamps belongs to a session the same step revokes.
LEMMA RotatedAtStep ==
  ASSUME TypeOK, [Next]_vars,
         NEW t \in DOMAIN tokens' \ {Fresh}, tokens'[t].rotatedAt # tokens[t].rotatedAt
  PROVE  /\ tokens[t].session \in DOMAIN sessions'
         /\ sessions'[tokens[t].session].revoked
  <1>1. CASE RefreshStep
    <2>1. PICK r \in DOMAIN tokens, start \in StartTimes :
            /\ tokens[r].session \in DOMAIN sessions
            /\ rotateSession(r, start) \/ convergeSession(r, start)
      BY <1>1, RefreshFacts
    <2>2. CASE rotateSession(r, start)
      <3> DEFINE s == tokens[r].session
                 row == Successor(r, s, start)
                 tok == NextToken(r, start)
      <3>1. sessions' = With(Revoked(sessions, {s}), Fresh, row)
            /\ tokens' = With(Rotated(r), Fresh, tok)
        BY <2>2 DEF rotateSession, Superseded, Rotated
      <3> HIDE DEF row, tok
      <3>2. t \in DOMAIN tokens /\ tokens'[t] = Rotated(r)[t]
        BY <3>1, RotatedRow DEF With
      <3>3. t = r
        BY <2>1, <3>2, RotatedRow
      <3>4. s # Fresh
        BY <2>1, FreshIsNew
      <3>5. s \in DOMAIN sessions' /\ sessions'[s] = Revoked(sessions, {s})[s]
        BY <2>1, <3>1, <3>4, RevokedSessions DEF With
      <3>6. QED
        BY <2>1, <3>3, <3>5, RevokedSessions
    <2>3. CASE convergeSession(r, start)
      <3>1. PICK tok : tokens' = With(Redeemed(r), Fresh, tok)
        BY <2>3 DEF convergeSession, Redeemed
      <3>2. t \in DOMAIN tokens /\ tokens'[t] = Redeemed(r)[t]
        BY <2>1, <3>1, RedeemedRow DEF With
      <3>3. QED
        BY <2>1, <3>2, RedeemedRow
    <2>4. QED
      BY <2>1, <2>2, <2>3
  <1>2. CASE OpenStep \/ createRefreshToken
    <2>1. PICK row : tokens' = With(tokens, Fresh, row)
      BY <1>2 DEF OpenStep, OpenFamily, createRefreshToken
    <2>2. QED
      BY <2>1 DEF With
  <1>3. CASE RevokeStep
    BY <1>3, RevokedTokens DEF RevokeStep, RevokeRows
  <1>4. CASE DeleteStep
    BY <1>4 DEF DeleteStep, Without
  <1>5. CASE createSession \/ Tick \/ UNCHANGED vars
    BY <1>5 DEF createSession, Tick, vars
  <1>6. QED
    BY StepKinds, <1>1, <1>2, <1>3, <1>4, <1>5

LEMMA SupersededStep ==
  ASSUME TypeOK, Consistent, SupersededSessionDead, [Next]_vars
  PROVE  SupersededSessionDead'
  <1>1. SUFFICES ASSUME NEW t \in DOMAIN tokens', tokens'[t].rotatedAt # Never,
                        NEW s, s = tokens'[t].session, s \in DOMAIN sessions',
                        ~sessions'[s].revoked, sessions'[s].expiresAt > now'
                 PROVE  FALSE
    BY DEF SupersededSessionDead, Live, LiveIn, SessionsInFamily
  <1>2. t # Fresh
    BY <1>1, NewRows, NewTokenFields DEF OpensFresh, AddsTokenTo, JoinsBy
  <1>3. OldToken(t)
    BY <1>2, OldTokens
  <1>4. s = tokens[t].session /\ s # Fresh
    BY <1>1, <1>3, FreshIsNew DEF OldToken, Consistent
  <1>5. tokens[t].rotatedAt # Never
    BY <1>1, <1>2, <1>4, RotatedAtStep
  <1>6. s \in DOMAIN sessions /\ sessions'[s].family = sessions[s].family
    BY <1>1, <1>4, OldSessions DEF OldSession
  <1>10. PICK f : f = sessions[s].family
    OBVIOUS
  <1>7. s \in LiveIn(f)
    <2>2. s \in LiveIn(f)'
      BY <1>1, <1>6, <1>10 DEF LiveIn, SessionsInFamily
    <2>3. QED
      BY <1>4, <2>2, LiveShrinks
  <1>8. QED
    BY <1>3, <1>4, <1>5, <1>6, <1>7, <1>10 DEF OldToken, Live, SupersededSessionDead

LEMMA IInvInit == Init => IInv
  BY TypeInit DEF Init, IInv, Consistent, FamilyUniform, SupersededSessionDead

LEMMA IInvStep == IInv /\ [Next]_vars => IInv'
  BY TypeStep, ConsistentStep, UniformStep, SupersededStep DEF IInv

(***************************************************************************)
(* Every reachable state satisfies the inductive invariant: tokens agree   *)
(* with the session and the family they were minted for, families carry    *)
(* one owner, and a rotated token has lost its session.  The theorems on   *)
(* sign-out, replay and the quotas of rotateSession and convergeSession    *)
(* rest on it.                                                             *)
(***************************************************************************)
THEOREM Invariance == Spec => []IInv
  BY IInvInit, IInvStep, PTL DEF Spec

(***************************************************************************)
(* Every row of a family carries the same user, identity, passkey and      *)
(* impersonator, so a revocation that looks one of them up on any row of a *)
(* lineage finds the whole lineage.                                        *)
(***************************************************************************)
THEOREM FamiliesUniform == Spec => []FamilyUniform
  <1>1. IInv => FamilyUniform
    BY DEF IInv
  <1>2. QED
    BY <1>1, Invariance, PTL

(***************************************************************************)
(* The access token a refresh replaces is refused from that transaction    *)
(* on.                                                                     *)
(***************************************************************************)
THEOREM SupersededSessionsDead == Spec => []SupersededSessionDead
  <1>1. IInv => SupersededSessionDead
    BY DEF IInv
  <1>2. QED
    BY <1>1, Invariance, PTL

(***************************************************************************)
(* Nothing the component exports, called in any order with a user and a    *)
(* family that match, revives a family that has no live session left.      *)
(***************************************************************************)
THEOREM NoResurrection == Spec => DeadFamilyStaysDead
  <1>1. IInv /\ [Next]_vars =>
          [\A f \in 1..minted : LiveIn(f) = {} => LiveIn(f)' = {}]_vars
    BY DeadStep DEF IInv
  <1>2. QED
    BY <1>1, Invariance, PTL DEF Spec, DeadFamilyStaysDead

-----------------------------------------------------------------------------
(***************************************************************************)
(* The quotas.                                                             *)
(***************************************************************************)
LEMMA LiveFinite ==
  ASSUME TypeOK, NEW f
  PROVE  IsFiniteSet(LiveIn(f)) /\ Cardinality(LiveIn(f)) \in Nat
  <1>1. LiveIn(f) \subseteq 1..minted
    BY DEF TypeOK, LiveIn, SessionsInFamily
  <1>2. IsFiniteSet(1..minted)
    BY FS_Interval DEF TypeOK
  <1>3. QED
    BY <1>1, <1>2, FS_Subset, FS_CardinalityType

LEMMA RotateRevokes ==
  ASSUME TypeOK, NEW t \in DOMAIN tokens, NEW start \in StartTimes, rotateSession(t, start)
  PROVE  /\ tokens[t].session \in DOMAIN sessions
         /\ tokens[t].session \in DOMAIN sessions'
         /\ sessions'[tokens[t].session].revoked
         /\ tokens[t].session # Fresh
         /\ tokens[t].session \in LiveIn(sessions[tokens[t].session].family)
  <1> DEFINE s == tokens[t].session
             row == Successor(t, s, start)
  <1>1. s \in DOMAIN sessions /\ s \in LiveIn(sessions[s].family)
    BY DEF rotateSession, CanRotate, Live
  <1>2. sessions' = With(Revoked(sessions, {s}), Fresh, row)
    BY DEF rotateSession, Superseded
  <1> HIDE DEF row
  <1>3. s # Fresh
    BY <1>1, FreshIsNew
  <1>4. s \in DOMAIN sessions' /\ sessions'[s] = Revoked(sessions, {s})[s]
    BY <1>1, <1>2, <1>3, RevokedSessions DEF With
  <1>5. QED
    BY <1>1, <1>3, <1>4, RevokedSessions

LEMMA LiveBoundStep ==
  ASSUME IInv, LiveSessionsBounded, [Next]_vars
  PROVE  LiveSessionsBounded'
  <1> USE LimitAssumption
  <1>1. SUFFICES ASSUME NEW f \in Id
                 PROVE  Cardinality(LiveIn(f)') <= MaxLiveSessions
    BY DEF LiveSessionsBounded
  <1>2. TypeOK /\ TypeOK' /\ Consistent
    BY TypeStep DEF IInv
  <1>3. /\ IsFiniteSet(LiveIn(f)) /\ Cardinality(LiveIn(f)) \in Nat
        /\ Cardinality(LiveIn(f)) <= MaxLiveSessions
    BY <1>2, LiveFinite DEF LiveSessionsBounded
  <1>4. LiveIn(f)' \subseteq LiveIn(f) \cup {Fresh}
    BY <1>2, LiveShrinks
  <1>5. Fresh \notin LiveIn(f)
    BY <1>2, FreshIsNew DEF LiveIn, SessionsInFamily
  <1>6. CASE Fresh \notin LiveIn(f)'
    <2>1. LiveIn(f)' \in SUBSET LiveIn(f)
      BY <1>4, <1>6
    <2>2. Cardinality(LiveIn(f)') <= Cardinality(LiveIn(f))
          /\ Cardinality(LiveIn(f)') \in Nat
      BY <1>3, <2>1, FS_Subset, FS_CardinalityType
    <2>3. QED
      BY <1>3, <2>2
  <1>7. CASE Fresh \in LiveIn(f)'
    <2>1. Fresh \in DOMAIN sessions' /\ sessions'[Fresh].family = f
      BY <1>7 DEF LiveIn, SessionsInFamily
    <2>2. CASE f = Fresh
      <3>1. LiveIn(f) = {}
        BY <1>2, <2>2, FreshIsNew DEF Consistent, LiveIn, SessionsInFamily
      <3>2. LiveIn(f)' = {Fresh}
        BY <1>4, <1>7, <3>1
      <3>3. Cardinality(LiveIn(f)') = 1
        BY <3>2, FS_Singleton
      <3>4. QED
        BY <3>3
    <2>3. CASE f # Fresh
      <3>1. RefreshStep
        <4>1. ~OpenStep /\ ~createSession
          BY <1>2, <2>1, <2>3, OpenOpens, CreateOpens DEF OpensFresh
        <4>2. ~RevokeStep
          BY <1>2, <2>1, FreshIsNew, RevokedSessions DEF RevokeStep, RevokeRows
        <4>3. ~(createRefreshToken \/ DeleteStep \/ Tick \/ UNCHANGED vars)
          BY <1>2, <2>1, FreshIsNew DEF createRefreshToken, DeleteStep, Without, Tick, vars
        <4>4. QED
          BY <1>2, <4>1, <4>2, <4>3, StepKinds
      <3>2. PICK t \in DOMAIN tokens, start \in StartTimes :
              /\ tokens[t].session \in DOMAIN sessions
              /\ rotateSession(t, start) \/ convergeSession(t, start)
        BY <1>2, <3>1, RefreshFacts
      <3>3. tokens[t].family = f
        BY <1>2, <2>1, <3>2, RefreshJoins DEF JoinsBy
      <3>4. CASE rotateSession(t, start)
        <4>1. PICK s : s = tokens[t].session
          OBVIOUS
        <4>2. s \in LiveIn(f) /\ s # Fresh /\ sessions'[s].revoked
          BY <1>2, <3>2, <3>3, <3>4, <4>1, RotateRevokes DEF Consistent
        <4>3. s \notin LiveIn(f)'
          BY <4>2 DEF LiveIn
        <4>4. LiveIn(f)' \in SUBSET ((LiveIn(f) \ {s}) \cup {Fresh})
          BY <1>4, <4>3
        <4>5. /\ IsFiniteSet(LiveIn(f) \ {s})
              /\ Cardinality(LiveIn(f) \ {s}) = Cardinality(LiveIn(f)) - 1
          BY <1>3, <4>2, FS_RemoveElement
        <4>6. /\ IsFiniteSet((LiveIn(f) \ {s}) \cup {Fresh})
              /\ Cardinality((LiveIn(f) \ {s}) \cup {Fresh}) = Cardinality(LiveIn(f) \ {s}) + 1
          BY <1>5, <4>5, FS_AddElement
        <4>7. /\ Cardinality(LiveIn(f)') <= Cardinality((LiveIn(f) \ {s}) \cup {Fresh})
              /\ Cardinality(LiveIn(f)') \in Nat
          BY <4>4, <4>6, FS_Subset, FS_CardinalityType
        <4>8. QED
          BY <1>3, <4>5, <4>6, <4>7
      <3>5. CASE convergeSession(t, start)
        <4>1. Cardinality(LiveIn(f)) < MaxLiveSessions
          BY <1>3, <3>3, <3>5 DEF convergeSession, CanConverge, FamilyFull
        <4>2. /\ IsFiniteSet(LiveIn(f) \cup {Fresh})
              /\ Cardinality(LiveIn(f) \cup {Fresh}) = Cardinality(LiveIn(f)) + 1
          BY <1>3, <1>5, FS_AddElement
        <4>3. Cardinality(LiveIn(f)') <= Cardinality(LiveIn(f) \cup {Fresh})
          BY <1>4, <4>2, FS_Subset
        <4>4. IsFiniteSet(LiveIn(f)') /\ Cardinality(LiveIn(f)') \in Nat
          BY <1>4, <4>2, FS_Subset, FS_CardinalityType
        <4>5. QED
          BY <1>3, <4>1, <4>2, <4>3, <4>4
      <3>6. QED
        BY <3>2, <3>4, <3>5
    <2>4. QED
      BY <2>2, <2>3
  <1>8. QED
    BY <1>6, <1>7

(***************************************************************************)
(* No sequence of sign-ins, refreshes and converging replays gives a       *)
(* family more than its quota of live sessions.                            *)
(***************************************************************************)
THEOREM LiveQuota == Spec => []LiveSessionsBounded
  <1>1. Init => LiveSessionsBounded
    <2>1. SUFFICES ASSUME Init, NEW f \in Id
                   PROVE  Cardinality(LiveIn(f)) <= MaxLiveSessions
      BY DEF LiveSessionsBounded
    <2>2. LiveIn(f) = {}
      BY <2>1 DEF Init, LiveIn, SessionsInFamily
    <2>3. QED
      BY <2>2, FS_EmptySet, LimitAssumption
  <1>2. IInv /\ LiveSessionsBounded /\ [Next]_vars => LiveSessionsBounded'
    BY LiveBoundStep
  <1>3. QED
    BY <1>1, <1>2, Invariance, PTL DEF Spec

\* What TokenMintsBounded needs: the counter a token carries bounds the pairs
\* minted from it, and no pair is minted from a token yet to come.
Counted(t) ==
  /\ tokens[t].redemptions <= MaxGraceRedemptions
  /\ Cardinality(MintedFrom(t)) <= 1 + tokens[t].redemptions
  /\ tokens[t].rotatedAt # Never => tokens[t].revoked
  /\ tokens[t].rotatedAt = Never => tokens[t].redemptions = 0 /\ MintedFrom(t) = {}

MintCount ==
  /\ \A m \in DOMAIN mintedBy : mintedBy[m] \in 0..minted
  /\ \A t \in DOMAIN tokens : Counted(t)
  /\ TokenMintsBounded

LEMMA MintedFinite ==
  ASSUME TypeOK, NEW t
  PROVE  IsFiniteSet(MintedFrom(t)) /\ Cardinality(MintedFrom(t)) \in Nat
  <1>1. MintedFrom(t) \subseteq 1..minted
    BY DEF TypeOK, MintedFrom
  <1>2. IsFiniteSet(1..minted)
    BY FS_Interval DEF TypeOK
  <1>3. QED
    BY <1>1, <1>2, FS_Subset, FS_CardinalityType

LEMMA MintedOnce ==
  ASSUME TypeOK, NEW p, mintedBy' = With(mintedBy, Fresh, p), NEW t
  PROVE  /\ t # p => MintedFrom(t)' = MintedFrom(t)
         /\ t = p => /\ MintedFrom(t)' = MintedFrom(t) \cup {Fresh}
                     /\ Cardinality(MintedFrom(t)') = Cardinality(MintedFrom(t)) + 1
  <1>1. Fresh \notin DOMAIN mintedBy
    BY FreshIsNew DEF TypeOK
  <1>2. t # p => MintedFrom(t)' = MintedFrom(t)
    BY <1>1 DEF With, MintedFrom
  <1>3. t = p => MintedFrom(t)' = MintedFrom(t) \cup {Fresh}
    BY <1>1 DEF With, MintedFrom
  <1>4. Fresh \notin MintedFrom(t)
    BY <1>1 DEF MintedFrom
  <1>5. Cardinality(MintedFrom(t) \cup {Fresh}) = Cardinality(MintedFrom(t)) + 1
    BY <1>4, MintedFinite, FS_AddElement
  <1>6. QED
    BY <1>2, <1>3, <1>5

\* Only a refresh counts.
LEMMA CountsUntouched ==
  ASSUME TypeOK, [Next]_vars, ~RefreshStep
  PROVE  /\ mintedBy' = mintedBy \/ mintedBy' = With(mintedBy, Fresh, 0)
         /\ \A t \in DOMAIN tokens' \ {Fresh} :
              /\ t \in DOMAIN tokens
              /\ tokens'[t].redemptions = tokens[t].redemptions
              /\ tokens'[t].rotatedAt = tokens[t].rotatedAt
              /\ tokens[t].revoked => tokens'[t].revoked
  <1>1. CASE OpenStep \/ createRefreshToken
    <2>1. PICK row : tokens' = With(tokens, Fresh, row)
      BY <1>1 DEF OpenStep, OpenFamily, createRefreshToken
    <2>2. mintedBy' = With(mintedBy, Fresh, 0)
      BY <1>1 DEF OpenStep, OpenFamily, createRefreshToken
    <2>3. QED
      BY <2>1, <2>2 DEF With
  <1>2. CASE RevokeStep
    BY <1>2, RevokedTokens DEF RevokeStep, RevokeRows
  <1>3. CASE DeleteStep
    BY <1>3 DEF DeleteStep, Without
  <1>4. CASE createSession \/ Tick \/ UNCHANGED vars
    BY <1>4 DEF createSession, Tick, vars
  <1>5. QED
    BY StepKinds, <1>1, <1>2, <1>3, <1>4

\* A token just inserted has minted nothing.
LEMMA FreshTokenCounted ==
  ASSUME TypeOK, MintCount, [Next]_vars, Fresh \in DOMAIN tokens'
  PROVE  /\ tokens'[Fresh].rotatedAt = Never
         /\ tokens'[Fresh].redemptions = 0
         /\ MintedFrom(Fresh) = {}
  <1>1. tokens'[Fresh].rotatedAt = Never /\ tokens'[Fresh].redemptions = 0
    BY NewRows, NewTokenFields DEF OpensFresh, AddsTokenTo, JoinsBy
  <1>2. Fresh \notin 0..minted
    BY DEF TypeOK, Fresh
  <1>3. QED
    BY <1>1, <1>2 DEF MintCount, MintedFrom

LEMMA CountOthers ==
  ASSUME TypeOK, MintCount, [Next]_vars, ~RefreshStep
  PROVE  MintCount'
  <1>1. mintedBy' = mintedBy \/ mintedBy' = With(mintedBy, Fresh, 0)
    BY CountsUntouched
  <1>2. \A t \in Nat \ {0} : MintedFrom(t)' = MintedFrom(t)
    <2>1. CASE mintedBy' = mintedBy
      BY <2>1 DEF MintedFrom
    <2>2. CASE mintedBy' = With(mintedBy, Fresh, 0)
      BY <2>2, MintedOnce
    <2>3. QED
      BY <1>1, <2>1, <2>2
  <1>3. Id \subseteq Nat \ {0} /\ DOMAIN tokens' \subseteq Nat \ {0}
    BY TypeStep DEF Id, TypeOK
  <1>4. \A m \in DOMAIN mintedBy' : mintedBy'[m] \in 0..minted'
    <2>1. 0..minted \subseteq 0..minted' /\ 0 \in 0..minted
      BY TypeStep, MintedGrows DEF TypeOK
    <2>2. QED
      BY <1>1, <2>1 DEF With, MintCount
  <1>5. ASSUME NEW t \in DOMAIN tokens'
        PROVE  Counted(t)'
    <2>1. MintedFrom(t)' = MintedFrom(t)
      BY <1>2, <1>3
    <2>2. CASE t = Fresh
      <3>1. tokens'[t].rotatedAt = Never /\ tokens'[t].redemptions = 0 /\ MintedFrom(t) = {}
        BY <2>2, FreshTokenCounted
      <3>2. QED
        BY <2>1, <3>1, FS_EmptySet, LimitAssumption DEF Counted
    <2>3. CASE t # Fresh
      BY <2>1, <2>3, CountsUntouched DEF Counted, MintCount
    <2>4. QED
      BY <2>2, <2>3
  <1>6. TokenMintsBounded'
    BY <1>2, <1>3 DEF MintCount, TokenMintsBounded
  <1>7. QED
    BY <1>4, <1>5, <1>6 DEF MintCount

\* The presented token pays for the pair, every other token is as it was.
LEMMA RefreshCounts ==
  ASSUME TypeOK, MintCount, [Next]_vars,
         NEW p \in DOMAIN tokens, NEW start \in StartTimes,
         rotateSession(p, start) \/ convergeSession(p, start)
  PROVE  /\ mintedBy' = With(mintedBy, Fresh, p)
         /\ \A t \in DOMAIN tokens' \ {Fresh, p} :
              t \in DOMAIN tokens /\ tokens'[t] = tokens[t]
         /\ p \in DOMAIN tokens' /\ p # Fresh /\ tokens'[p].revoked
         /\ tokens'[p].rotatedAt # Never
         /\ \/ /\ tokens'[p].redemptions = tokens[p].redemptions
               /\ tokens[p].rotatedAt = Never
            \/ /\ tokens'[p].redemptions = tokens[p].redemptions + 1
               /\ tokens[p].rotatedAt # Never
               /\ tokens[p].redemptions < MaxGraceRedemptions
  <1> USE LimitAssumption
  <1>1. mintedBy' = With(mintedBy, Fresh, p)
    BY DEF rotateSession, convergeSession
  <1>2. p # Fresh
    BY FreshIsNew
  <1>3. tokens[p].redemptions \in Nat /\ now # Never
    BY DEF TypeOK, TokenRow, Never
  <1>4. CASE rotateSession(p, start)
    <2>1. PICK tok : tokens' = With(Rotated(p), Fresh, tok)
      BY <1>4 DEF rotateSession, Rotated
    <2>2. /\ DOMAIN tokens' = DOMAIN tokens \cup {Fresh}
          /\ \A t \in DOMAIN tokens \ {Fresh} : tokens'[t] = Rotated(p)[t]
      BY <2>1, RotatedRow DEF With
    <2>3. /\ tokens'[p].revoked /\ tokens'[p].rotatedAt = now
          /\ tokens'[p].redemptions = tokens[p].redemptions
          /\ \A t \in DOMAIN tokens' \ {Fresh, p} :
                t \in DOMAIN tokens /\ tokens'[t] = tokens[t]
      BY <1>2, <2>2, RotatedRow
    <2>4. tokens[p].rotatedAt = Never
      BY <1>4 DEF rotateSession, CanRotate, MintCount, Counted
    <2>5. QED
      BY <1>1, <1>2, <1>3, <2>2, <2>3, <2>4
  <1>5. CASE convergeSession(p, start)
    <2>1. PICK tok : tokens' = With(Redeemed(p), Fresh, tok)
      BY <1>5 DEF convergeSession, Redeemed
    <2>2. /\ DOMAIN tokens' = DOMAIN tokens \cup {Fresh}
          /\ \A t \in DOMAIN tokens \ {Fresh} : tokens'[t] = Redeemed(p)[t]
      BY <2>1, RedeemedRow DEF With
    <2>3. /\ tokens[p].revoked /\ tokens[p].rotatedAt # Never
          /\ tokens[p].redemptions < MaxGraceRedemptions
      BY <1>3, <1>5 DEF convergeSession, CanConverge, MayConverge, WithinGrace, GraceSpent
    <2>4. /\ tokens'[p].revoked /\ tokens'[p].rotatedAt # Never
          /\ tokens'[p].redemptions = tokens[p].redemptions + 1
          /\ \A t \in DOMAIN tokens' \ {Fresh, p} :
                t \in DOMAIN tokens /\ tokens'[t] = tokens[t]
      BY <1>2, <2>2, <2>3, RedeemedRow
    <2>5. QED
      BY <1>1, <1>2, <2>2, <2>3, <2>4
  <1>6. QED
    BY <1>4, <1>5

LEMMA CountRefresh ==
  ASSUME TypeOK, MintCount, [Next]_vars, RefreshStep
  PROVE  MintCount'
  <1> USE LimitAssumption
  <1>1. PICK p \in DOMAIN tokens, start \in StartTimes :
          rotateSession(p, start) \/ convergeSession(p, start)
    BY RefreshFacts
  <1>2. mintedBy' = With(mintedBy, Fresh, p)
    BY <1>1, RefreshCounts
  <1>3. p \in 0..minted /\ 0..minted \subseteq 0..minted'
    <2>1. p \in 1..minted /\ minted \in Nat
      BY DEF TypeOK
    <2>2. minted' = Fresh
      BY <1>1 DEF rotateSession, convergeSession
    <2>3. QED
      BY <2>1, <2>2 DEF Fresh
  <1>4. \A m \in DOMAIN mintedBy' : mintedBy'[m] \in 0..minted'
    BY <1>2, <1>3 DEF With, MintCount
  <1>5. \A t : t # p => MintedFrom(t)' = MintedFrom(t)
    BY <1>2, MintedOnce
  <1>6. Counted(p)'
    <2>1. Cardinality(MintedFrom(p)') = Cardinality(MintedFrom(p)) + 1
      BY <1>2, MintedOnce
    <2>2. tokens[p].redemptions \in Nat /\ Cardinality(MintedFrom(p)) \in Nat
      BY MintedFinite DEF TypeOK, TokenRow
    <2>3. /\ Cardinality(MintedFrom(p)) <= 1 + tokens[p].redemptions
          /\ tokens[p].redemptions <= MaxGraceRedemptions
          /\ tokens[p].rotatedAt = Never =>
               tokens[p].redemptions = 0 /\ Cardinality(MintedFrom(p)) = 0
      BY FS_EmptySet DEF MintCount, Counted
    <2>4. /\ tokens'[p].redemptions <= MaxGraceRedemptions
          /\ Cardinality(MintedFrom(p)') <= 1 + tokens'[p].redemptions
      BY <1>1, <2>1, <2>2, <2>3, RefreshCounts
    <2>5. tokens'[p].rotatedAt # Never /\ tokens'[p].revoked
      BY <1>1, RefreshCounts
    <2>6. QED
      BY <2>4, <2>5 DEF Counted
  <1>7. ASSUME NEW t \in DOMAIN tokens', t # p
        PROVE  Counted(t)'
    <2>1. MintedFrom(t)' = MintedFrom(t)
      BY <1>5, <1>7
    <2>2. CASE t = Fresh
      <3>1. tokens'[t].rotatedAt = Never /\ tokens'[t].redemptions = 0 /\ MintedFrom(t) = {}
        BY <2>2, FreshTokenCounted
      <3>2. QED
        BY <2>1, <3>1, FS_EmptySet DEF Counted
    <2>3. CASE t # Fresh
      <3>1. t \in DOMAIN tokens /\ tokens'[t] = tokens[t]
        BY <1>1, <1>7, <2>3, RefreshCounts
      <3>2. QED
        BY <2>1, <3>1 DEF Counted, MintCount
    <2>4. QED
      BY <2>2, <2>3
  <1>8. TokenMintsBounded'
    <2>1. SUFFICES ASSUME NEW t \in Id
                   PROVE  Cardinality(MintedFrom(t)') <= 1 + MaxGraceRedemptions
      BY DEF TokenMintsBounded
    <2>2. CASE t = p
      <3>1. /\ tokens'[p].redemptions \in Nat
            /\ Cardinality(MintedFrom(p)') \in Nat
            /\ tokens'[p].redemptions <= MaxGraceRedemptions
            /\ Cardinality(MintedFrom(p)') <= 1 + tokens'[p].redemptions
        <4>1. p \in DOMAIN tokens' /\ TypeOK'
          BY <1>1, TypeStep, RefreshCounts
        <4>2. tokens'[p].redemptions \in Nat
          BY <4>1 DEF TypeOK, TokenRow
        <4>3. Cardinality(MintedFrom(p)') \in Nat
          BY <1>2, MintedOnce, MintedFinite
        <4>4. QED
          BY <1>6, <4>2, <4>3 DEF Counted
      <3>2. QED
        BY <2>2, <3>1
    <2>3. CASE t # p
      BY <1>5, <2>3 DEF MintCount, TokenMintsBounded
    <2>4. QED
      BY <2>2, <2>3
  <1>9. QED
    BY <1>4, <1>6, <1>7, <1>8 DEF MintCount

(***************************************************************************)
(* A refresh token mints at most one successor and MaxGraceRedemptions     *)
(* siblings, whatever is deleted, revoked or replayed in between.          *)
(***************************************************************************)
THEOREM MintQuota == Spec => []TokenMintsBounded
  <1>1. Init => MintCount
    <2>1. SUFFICES ASSUME Init
                   PROVE  MintCount
      OBVIOUS
    <2>2. \A t : MintedFrom(t) = {}
      BY <2>1 DEF Init, MintedFrom
    <2>3. TokenMintsBounded
      <3>1. \A t \in Id : Cardinality(MintedFrom(t)) = 0
        BY <2>2, FS_EmptySet
      <3>2. QED
        BY <3>1, LimitAssumption DEF TokenMintsBounded
    <2>4. QED
      BY <2>1, <2>3 DEF Init, MintCount
  <1>2. TypeOK /\ MintCount /\ [Next]_vars => MintCount'
    BY CountOthers, CountRefresh
  <1>3. MintCount => TokenMintsBounded
    BY DEF MintCount
  <1>4. QED
    BY <1>1, <1>2, <1>3, TypeCorrect, PTL DEF Spec

-----------------------------------------------------------------------------
(***************************************************************************)
(* A live session is backed by a token of its own that outlives it.  The   *)
(* argument needs that a session never outlives the token it was minted    *)
(* with, and that a family bears the number of the session that opened it, *)
(* because revokeSessionFamily reads tokens by both columns.               *)
(***************************************************************************)
TokensOutlive ==
  /\ SessionTtl <= RefreshTtl /\ DontRememberTtl <= RefreshTtl
  /\ DefaultSessionTtl <= DefaultRefreshTtl

Inhabited(f) ==
  \/ \E s \in DOMAIN sessions : sessions[s].family = f
  \/ \E t \in DOMAIN tokens : tokens[t].family = f

Headed == \A f \in DOMAIN sessions : Inhabited(f) => sessions[f].family = f

Backs(t, s) ==
  /\ tokens[t].session = s /\ ~tokens[t].revoked
  /\ tokens[t].expiresAt >= sessions[s].expiresAt

Backed == \A s \in DOMAIN sessions : Live(s) => \E t \in DOMAIN tokens : Backs(t, s)

LEMMA HeadedStep ==
  ASSUME TypeOK, Consistent, Headed, [Next]_vars
  PROVE  Headed'
  <1> SUFFICES ASSUME NEW f \in DOMAIN sessions', Inhabited(f)'
               PROVE  sessions'[f].family = f
    BY DEF Headed
  <1>1. CASE f = Fresh
    <2>1. ~Inhabited(Fresh)
      BY FreshIsNew DEF Inhabited, Consistent
    <2>2. CASE OpensFresh
      BY <1>1, <2>2 DEF OpensFresh
    <2>3. CASE Fresh \in DOMAIN sessions' /\ ~OpensFresh
      <3>1. PICK t \in DOMAIN tokens : JoinsBy(t)
        BY <2>3, NewRows
      <3>2. tokens[t].family # Fresh
        BY <2>1 DEF Inhabited
      <3>3. \A s \in DOMAIN sessions' : sessions'[s].family # Fresh
        BY <2>1, <3>1, <3>2, OldSessions DEF OldSession, Inhabited, JoinsBy
      <3>4. \A x \in DOMAIN tokens' : tokens'[x].family # Fresh
        BY <2>1, <3>1, <3>2, OldTokens, NewTokenFields DEF OldToken, Inhabited, JoinsBy
      <3>5. QED
        BY <1>1, <3>3, <3>4 DEF Inhabited
    <2>4. QED
      BY <1>1, <2>2, <2>3
  <1>2. CASE f # Fresh
    <2>1. f \in DOMAIN sessions /\ sessions'[f].family = sessions[f].family
      BY <1>2, OldSessions DEF OldSession
    <2>2. Inhabited(f)
      <3>1. CASE \E s \in DOMAIN sessions' \ {Fresh} : sessions'[s].family = f
        BY <3>1, OldSessions DEF OldSession, Inhabited
      <3>2. CASE \E t \in DOMAIN tokens' \ {Fresh} : tokens'[t].family = f
        BY <3>2, OldTokens DEF OldToken, Inhabited
      <3>3. ASSUME \/ Fresh \in DOMAIN sessions' /\ sessions'[Fresh].family = f
                   \/ Fresh \in DOMAIN tokens' /\ tokens'[Fresh].family = f
            PROVE  Inhabited(f)
        <4>1. CASE OpensFresh
          BY <1>2, <3>3, <4>1, NewTokenFields DEF OpensFresh
        <4>2. CASE Fresh \notin DOMAIN sessions' /\ \E s \in DOMAIN sessions : AddsTokenTo(s)
          BY <3>3, <4>2, NewTokenFields DEF AddsTokenTo, Inhabited
        <4>3. CASE \E t \in DOMAIN tokens : JoinsBy(t)
          BY <3>3, <4>3, NewTokenFields DEF JoinsBy, Inhabited
        <4>4. QED
          BY <3>3, <4>1, <4>2, <4>3, NewRows
      <3>4. QED
        BY <3>1, <3>2, <3>3 DEF Inhabited
    <2>3. QED
      BY <2>1, <2>2 DEF Headed
  <1>3. QED
    BY <1>1, <1>2

\* A new pair is backed by itself; the rows there were are as they were.
LEMMA PairAdded ==
  ASSUME TypeOK, Backed, CanMint,
         NEW row, NEW tok,
         sessions' = With(sessions, Fresh, row), tokens' = With(tokens, Fresh, tok),
         now' = now,
         tok.session = Fresh, ~tok.revoked, tok.expiresAt >= row.expiresAt
  PROVE  Backed'
  <1>1. /\ DOMAIN sessions' = DOMAIN sessions \cup {Fresh}
        /\ DOMAIN tokens' = DOMAIN tokens \cup {Fresh}
        /\ sessions'[Fresh] = row /\ tokens'[Fresh] = tok
        /\ \A s \in DOMAIN sessions : s # Fresh /\ sessions'[s] = sessions[s]
        /\ \A t \in DOMAIN tokens : t # Fresh /\ tokens'[t] = tokens[t]
    BY FreshIsNew DEF With
  <1>2. ASSUME NEW s \in DOMAIN sessions', Live(s)'
        PROVE  \E t \in DOMAIN tokens' : Backs(t, s)'
    <2>1. CASE s = Fresh
      <3>1. \A f \in {Fresh} : Backs(f, f)'
        BY <1>1 DEF Backs
      <3>2. QED
        BY <1>1, <2>1, <3>1
    <2>2. CASE s # Fresh
      <3>1. s \in DOMAIN sessions /\ Live(s)
        BY <1>1, <1>2, <2>2 DEF Live, LiveIn, SessionsInFamily
      <3>2. PICK t \in DOMAIN tokens : Backs(t, s)
        BY <3>1 DEF Backed
      <3>3. QED
        BY <1>1, <3>1, <3>2 DEF Backs
    <2>3. QED
      BY <2>1, <2>2
  <1>3. QED
    BY <1>2 DEF Backed

LEMMA BackedOpen ==
  ASSUME TypeOK, Backed, TokensOutlive, createSessionAndRefreshToken \/ impersonateUser
  PROVE  Backed'
  <1>1. PICK u, i, c, imp, se, te :
          /\ OpenFamily(u, i, c, imp, se, te) /\ now' = now
          /\ te >= se
    <2>1. CASE createSessionAndRefreshToken
      <3>1. PICK i \in Identity, c \in Credential \cup {NoCredential},
                 ttl \in {SessionTtl, DontRememberTtl}, start \in StartTimes :
              /\ OpenFamily(IdentityUser[i], i, c, FALSE, start + ttl, start + RefreshTtl)
              /\ UNCHANGED <<now, users, identities>>
        BY <2>1 DEF createSessionAndRefreshToken
      <3>2. start + RefreshTtl >= start + ttl
        BY StartTimesNat, TtlAssumption DEF TokensOutlive
      <3>3. QED
        BY <3>1, <3>2
    <2>2. CASE impersonateUser
      <3>1. now + ImpersonationTtl >= now + ImpersonationTtl
        BY TtlAssumption DEF TypeOK
      <3>2. QED
        BY <2>2, <3>1 DEF impersonateUser
    <2>3. QED
      BY <2>1, <2>2
  <1> DEFINE row == [user |-> u, identity |-> i, family |-> Fresh, credential |-> c,
                     impersonated |-> imp, revoked |-> FALSE, expiresAt |-> se]
             tok == NewToken(Fresh, Fresh, u, te)
  <1>2. /\ sessions' = With(sessions, Fresh, row) /\ tokens' = With(tokens, Fresh, tok)
        /\ CanMint
    BY <1>1 DEF OpenFamily
  <1>3. tok.session = Fresh /\ ~tok.revoked /\ tok.expiresAt >= row.expiresAt
    BY <1>1 DEF NewToken
  <1> HIDE DEF row, tok
  <1>4. QED
    BY <1>1, <1>2, <1>3, PairAdded

\* A rotated session goes with its token; another token backs another session.
LEMMA BackedRefresh ==
  ASSUME TypeOK, Backed, TokensOutlive, RefreshStep
  PROVE  Backed'
  <1>1. PICK t0 \in DOMAIN tokens, start \in StartTimes :
          /\ tokens[t0].session \in DOMAIN sessions
          /\ rotateSession(t0, start) \/ convergeSession(t0, start)
    BY RefreshFacts
  <1> DEFINE s0 == tokens[t0].session
             row == Successor(t0, s0, start)
             tok == NextToken(t0, start)
  <1>2. CanMint /\ now' = now
    BY <1>1 DEF rotateSession, convergeSession
  <1>3. /\ tok.session = Fresh /\ ~tok.revoked
        /\ tok.expiresAt = start + DefaultRefreshTtl
    BY DEF NextToken, NewToken
  <1>4. row.expiresAt = start + DefaultSessionTtl
    <2>1. sessions[s0] \in SessionRow
      BY <1>1 DEF TypeOK
    <2>2. QED
      BY <2>1 DEF Successor, SessionRow
  <1>5. tok.expiresAt >= row.expiresAt
    <2>1. start + DefaultRefreshTtl >= start + DefaultSessionTtl
      BY StartTimesNat, TtlAssumption DEF TokensOutlive
    <2>2. QED
      BY <1>3, <1>4, <2>1
  <1>6. /\ \/ sessions' = With(Revoked(sessions, {s0}), Fresh, row)
              /\ tokens' = With(Rotated(t0), Fresh, tok)
           \/ sessions' = With(sessions, Fresh, row)
              /\ tokens' = With(Redeemed(t0), Fresh, tok)
    BY <1>1 DEF rotateSession, convergeSession, Superseded, Rotated, Redeemed
  <1> HIDE DEF row, tok
  <1>7. \/ /\ DOMAIN tokens' = DOMAIN tokens \cup {Fresh}
           /\ \A s \in DOMAIN sessions : sessions'[s] = Revoked(sessions, {s0})[s]
           /\ \A t \in DOMAIN tokens : tokens'[t] = Rotated(t0)[t]
        \/ /\ DOMAIN tokens' = DOMAIN tokens \cup {Fresh}
           /\ \A s \in DOMAIN sessions : sessions'[s] = sessions[s]
           /\ \A t \in DOMAIN tokens : tokens'[t] = Redeemed(t0)[t]
    <2>1. \A s \in DOMAIN sessions : s # Fresh
      BY FreshIsNew
    <2>2. \A t \in DOMAIN tokens : t # Fresh
      BY FreshIsNew
    <2>3. CASE /\ sessions' = With(Revoked(sessions, {s0}), Fresh, row)
               /\ tokens' = With(Rotated(t0), Fresh, tok)
      <3>1. DOMAIN Revoked(sessions, {s0}) = DOMAIN sessions /\ DOMAIN Rotated(t0) = DOMAIN tokens
        BY RevokedSessions, RotatedRow
      <3>2. QED
        BY <2>1, <2>2, <2>3, <3>1 DEF With
    <2>4. CASE sessions' = With(sessions, Fresh, row) /\ tokens' = With(Redeemed(t0), Fresh, tok)
      <3>1. DOMAIN Redeemed(t0) = DOMAIN tokens
        BY RedeemedRow
      <3>2. QED
        BY <2>1, <2>2, <2>4, <3>1 DEF With
    <2>5. QED
      BY <1>6, <2>3, <2>4
  <1>8. /\ DOMAIN sessions' = DOMAIN sessions \cup {Fresh}
        /\ Fresh \in DOMAIN tokens' /\ sessions'[Fresh] = row /\ tokens'[Fresh] = tok
    BY <1>6, RevokedSessions DEF With
  <1>9. ASSUME NEW s \in DOMAIN sessions', Live(s)'
        PROVE  \E t \in DOMAIN tokens' : Backs(t, s)'
    <2>1. CASE s = Fresh
      <3>1. \A f \in {Fresh} : Backs(f, f)'
        BY <1>3, <1>5, <1>8 DEF Backs
      <3>2. QED
        BY <1>8, <2>1, <3>1
    <2>2. CASE s # Fresh
      <3>1. /\ s \in DOMAIN sessions /\ sessions'[s].expiresAt = sessions[s].expiresAt
            /\ sessions'[s].family = sessions[s].family
            /\ ~sessions'[s].revoked => ~sessions[s].revoked
        BY <1>7, <1>8, <2>2, RevokedSessions
      <3>2. Live(s)
        BY <1>2, <1>9, <3>1 DEF Live, LiveIn, SessionsInFamily
      <3>3. PICK t \in DOMAIN tokens : Backs(t, s)
        BY <3>1, <3>2 DEF Backed
      <3>4. CASE \A x \in DOMAIN tokens : tokens'[x] = Redeemed(t0)[x]
        BY <1>7, <3>1, <3>3, <3>4, RedeemedRow DEF Backs
      <3>5. CASE /\ \A x \in DOMAIN sessions : sessions'[x] = Revoked(sessions, {s0})[x]
                 /\ \A x \in DOMAIN tokens : tokens'[x] = Rotated(t0)[x]
        <4>1. ~sessions'[s].revoked
          BY <1>9 DEF Live, LiveIn
        <4>2. s # s0
          BY <3>1, <3>5, <4>1, RevokedSessions
        <4>3. t # t0
          BY <3>3, <4>2 DEF Backs
        <4>4. tokens'[t] = tokens[t]
          BY <3>5, <4>3, RotatedRow
        <4>5. QED
          BY <1>7, <3>1, <3>3, <4>4 DEF Backs
      <3>6. QED
        BY <1>7, <3>4, <3>5
    <2>3. QED
      BY <2>1, <2>2
  <1>10. QED
    BY <1>9 DEF Backed

\* A revocation that takes the token of a live session takes the session too.
Covers(sids, tids) ==
  \A t \in DOMAIN tokens :
    t \in tids /\ Live(tokens[t].session) => tokens[t].session \in sids

LEMMA BackedRows ==
  ASSUME TypeOK, Backed, NEW sids, NEW tids, RevokeRows(sids, tids), Covers(sids, tids)
  PROVE  Backed'
  <1>1. /\ sessions' = Revoked(sessions, sids) /\ tokens' = Revoked(tokens, tids) /\ now' = now
    BY DEF RevokeRows
  <1>2. ASSUME NEW s \in DOMAIN sessions', Live(s)'
        PROVE  \E t \in DOMAIN tokens' : Backs(t, s)'
    <2>1. s \in DOMAIN sessions /\ DOMAIN tokens' = DOMAIN tokens
      BY <1>1, RevokedSessions, RevokedTokens
    <2>2. /\ sessions'[s].expiresAt = sessions[s].expiresAt
          /\ sessions'[s].family = sessions[s].family /\ ~sessions[s].revoked /\ s \notin sids
      BY <1>1, <1>2, <2>1, RevokedSessions DEF Live, LiveIn
    <2>3. Live(s)
      BY <1>1, <1>2, <2>1, <2>2 DEF Live, LiveIn, SessionsInFamily
    <2>4. PICK t \in DOMAIN tokens : Backs(t, s)
      BY <2>1, <2>3 DEF Backed
    <2>5. t \notin tids
      BY <2>2, <2>3, <2>4 DEF Covers, Backs
    <2>6. tokens'[t] = tokens[t]
      BY <1>1, <2>5 DEF Revoked
    <2>7. QED
      BY <2>1, <2>2, <2>4, <2>6 DEF Backs
  <1>3. QED
    BY <1>2 DEF Backed

LEMMA FamilyCovered ==
  ASSUME Consistent, Headed, NEW f, Inhabited(f)
  PROVE  Covers(SessionsInFamily(f), TokensInFamily(f))
  BY DEF Covers, SessionsInFamily, TokensInFamily, Live, Consistent, Headed

LEMMA BackedRevoke ==
  ASSUME IInv, Headed, Backed,
         \/ \E t \in Id : replayAfterGrace(t)
         \/ \E s \in Id : revokeSessionFamilyBySession(s)
         \/ \E u \in User : \/ revokeSessionsForUser(u)
                            \/ revokeAllSessionsForUser(u)
                            \/ resetPassword(u)
         \/ \E c \in Credential : revokePasskeySessions(c)
  PROVE  Backed'
  <1>1. TypeOK /\ Consistent /\ FamilyUniform
    BY DEF IInv
  <1>2. ASSUME NEW f, Inhabited(f), revokeSessionFamily(f)
        PROVE  Backed'
    BY <1>1, <1>2, FamilyCovered, BackedRows DEF revokeSessionFamily
  <1>3. CASE \E t \in Id : replayAfterGrace(t)
    BY <1>2, <1>3 DEF replayAfterGrace, IsReplay, Presentable, Inhabited
  <1>4. CASE \E s \in Id : revokeSessionFamilyBySession(s)
    BY <1>2, <1>4 DEF revokeSessionFamilyBySession, Inhabited
  <1>5. \A t \in DOMAIN tokens :
          LET s == tokens[t].session
          IN  Live(s) => /\ s \in DOMAIN sessions /\ sessions[s].expiresAt > now
                         /\ tokens[t].family = sessions[s].family
                         /\ tokens[t].user = sessions[s].user
    BY <1>1 DEF Consistent, FamilyUniform, Live, LiveIn
  <1>6. CASE \E u \in User : revokeSessionsForUser(u)
    <2>1. PICK u \in User : revokeSessionsForUser(u)
      BY <1>6
    <2>2. PICK own \in SessionsOf(u) :
            RevokeRows({s \in SessionsOf(u) : /\ sessions[s].expiresAt > now
                                              /\ s # own
                                              /\ sessions[s].family # sessions[own].family},
                       OtherTokens(u, own))
      BY <2>1 DEF revokeSessionsForUser
    <2>3. Covers({s \in SessionsOf(u) : /\ sessions[s].expiresAt > now
                                        /\ s # own
                                        /\ sessions[s].family # sessions[own].family},
                 OtherTokens(u, own))
      BY <1>5 DEF Covers, OtherTokens, TokensOf, SessionsOf
    <2>4. QED
      BY <1>1, <2>2, <2>3, BackedRows
  <1>7. CASE \E u \in User : revokeAllSessionsForUser(u)
    <2>1. \A u \in User : Covers(SessionsOf(u), TokensOf(u))
      BY <1>5 DEF Covers, TokensOf, SessionsOf
    <2>2. QED
      BY <1>1, <1>7, <2>1, BackedRows DEF revokeAllSessionsForUser
  <1>8. CASE \E u \in User : resetPassword(u)
    <2>1. \A sids : Covers(sids, {})
      BY DEF Covers
    <2>2. QED
      BY <1>1, <1>8, <2>1, BackedRows DEF resetPassword
  <1>9. CASE \E c \in Credential : revokePasskeySessions(c)
    <2>1. PICK c \in Credential : revokePasskeySessions(c)
      BY <1>9
    <2> DEFINE matched  == {s \in DOMAIN sessions : sessions[s].credential = c}
               families == {sessions[s].family : s \in matched}
               sids == matched \cup {s \in DOMAIN sessions : sessions[s].family \in families}
               tids == {t \in DOMAIN tokens : \/ tokens[t].family \in families
                                              \/ tokens[t].session \in matched}
    <2>2. RevokeRows(sids, tids)
      BY <2>1 DEF revokePasskeySessions
    <2> HIDE DEF matched, families
    <2>3. Covers(sids, tids)
      BY <1>5 DEF Covers
    <2> HIDE DEF sids, tids
    <2>4. QED
      BY <1>1, <2>2, <2>3, BackedRows
  <1>10. QED
    BY <1>3, <1>4, <1>6, <1>7, <1>8, <1>9

\* Rows go, and time passes: what is still live keeps its token.
LEMMA BackedRest ==
  ASSUME IInv, Backed,
         \/ \E u \in User : deleteUser(u)
         \/ \E i \in Identity : linkAnonymousUser(i)
         \/ cleanupExpiredSessions \/ cleanupExpiredRefreshTokens
         \/ Tick \/ UNCHANGED vars
  PROVE  Backed'
  <1>1. TypeOK /\ Consistent /\ FamilyUniform /\ now \in Nat
    BY DEF IInv, TypeOK
  <1>2. /\ now' = now \/ now' = now + 1
        /\ \A s \in DOMAIN sessions' : s \in DOMAIN sessions /\ sessions'[s] = sessions[s]
        /\ \A t \in DOMAIN tokens' : t \in DOMAIN tokens /\ tokens'[t] = tokens[t]
    BY DEF deleteUser, linkAnonymousUser, cleanupExpiredSessions, cleanupExpiredRefreshTokens,
       Tick, vars, Without
  <1>3. \A s \in DOMAIN sessions : sessions[s].expiresAt \in Nat
    BY <1>1 DEF TypeOK, SessionRow
  <1>4. \A t \in DOMAIN tokens : tokens[t].expiresAt \in Nat
    BY <1>1 DEF TypeOK, TokenRow
  <1>5. ASSUME NEW s \in DOMAIN sessions', Live(s)'
        PROVE  \E t \in DOMAIN tokens' : Backs(t, s)'
    <2>1. s \in DOMAIN sessions /\ sessions'[s] = sessions[s] /\ sessions[s].expiresAt > now
          /\ Live(s)
      BY <1>1, <1>2, <1>3, <1>5 DEF Live, LiveIn, SessionsInFamily
    <2>2. PICK t \in DOMAIN tokens : Backs(t, s)
      BY <2>1 DEF Backed
    <2>3. t \in DOMAIN tokens'
      <3>1. tokens[t].expiresAt > now
        BY <1>1, <1>3, <1>4, <2>1, <2>2 DEF Backs
      <3>2. CASE \E u \in User : deleteUser(u)
        <4>1. PICK u \in User : deleteUser(u)
          BY <3>2
        <4>2. tokens[t].user = sessions[s].user
          BY <1>1, <2>1, <2>2 DEF Backs, Consistent, FamilyUniform
        <4>3. sessions[s].user # u
          BY <2>1, <4>1 DEF deleteUser, Without, SessionsOf
        <4>4. QED
          BY <4>1, <4>2, <4>3 DEF deleteUser, Without, TokensOf
      <3>3. CASE cleanupExpiredRefreshTokens
        BY <1>1, <1>4, <3>1, <3>3 DEF cleanupExpiredRefreshTokens, ExpiredBatch, Without
      <3>4. CASE \/ \E i \in Identity : linkAnonymousUser(i)
                 \/ cleanupExpiredSessions \/ Tick \/ UNCHANGED vars
        BY <3>4 DEF linkAnonymousUser, cleanupExpiredSessions, Tick, vars
      <3>5. QED
        BY <3>2, <3>3, <3>4
    <2>4. QED
      BY <1>2, <2>1, <2>2, <2>3 DEF Backs
  <1>6. QED
    BY <1>5 DEF Backed

(***************************************************************************)
(* A live session can be refreshed: whatever signs in, refreshes, revokes, *)
(* deletes or cleans up leaves the token behind it usable, as long as the  *)
(* configured lifetimes let no session outlive its token.                  *)
(***************************************************************************)
THEOREM LiveSessionsRefreshable ==
  ASSUME TokensOutlive
  PROVE  ProviderSpec => []LiveSessionRefreshable
  <1> DEFINE Inv == IInv /\ Headed /\ Backed
  <1>1. Init => Inv
    BY IInvInit DEF Init, Headed, Backed
  <1>2. Inv /\ [ProviderNext]_vars => Inv'
    <2> SUFFICES ASSUME Inv, [ProviderNext]_vars PROVE Inv'
      OBVIOUS
    <2>1. TypeOK /\ Consistent /\ [Next]_vars
      BY DEF IInv, Next
    <2>2. IInv' /\ Headed'
      BY <2>1, IInvStep, HeadedStep
    <2>3. Backed'
      BY <2>1, BackedOpen, BackedRefresh, BackedRevoke, BackedRest DEF ProviderNext, RefreshStep
    <2>4. QED
      BY <2>2, <2>3
  <1>3. Inv => LiveSessionRefreshable
    <2> SUFFICES ASSUME Inv, NEW s \in DOMAIN sessions, Live(s)
                 PROVE  \E t \in DOMAIN tokens :
                          tokens[t].session = s /\ ~tokens[t].revoked /\ Presentable(t)
      BY DEF LiveSessionRefreshable
    <2>1. PICK t \in DOMAIN tokens : Backs(t, s)
      BY DEF Backed
    <2>2. tokens[t].expiresAt > now
      <3>1. sessions[s] \in SessionRow /\ tokens[t] \in TokenRow /\ now \in Nat
        BY DEF IInv, TypeOK
      <3>2. QED
        BY <2>1, <3>1 DEF Backs, Live, LiveIn, SessionRow, TokenRow
    <2>3. QED
      BY <2>1, <2>2 DEF Backs, Presentable
  <1>4. QED
    BY <1>1, <1>2, <1>3, PTL DEF ProviderSpec

-----------------------------------------------------------------------------
(***************************************************************************)
(* The tables implement Lineage.  A step is judged by what it does to the  *)
(* accepted sessions: none but Fresh enters, so a step that does not admit *)
(* it is an End whatever else it does, and a step that admits it is one of *)
(* three, told apart by the session it takes the row from.                 *)
(***************************************************************************)
LEMMA AcceptedRows ==
  /\ \A s : s \in DOMAIN Accepted <=>
              s \in DOMAIN sessions /\ s \in LiveIn(sessions[s].family)
  /\ \A s \in DOMAIN Accepted :
       Accepted[s] = [family |-> sessions[s].family, owner |-> Provenance(s)]
  /\ Accepted = [s \in DOMAIN Accepted |-> Accepted[s]]
  BY DEF Accepted, LiveIn, SessionsInFamily

LEMMA AcceptedRowsNext ==
  /\ \A s : s \in DOMAIN Accepted' <=>
              s \in DOMAIN sessions' /\ ~sessions'[s].revoked /\ sessions'[s].expiresAt > now'
  /\ \A s \in DOMAIN Accepted' :
       Accepted'[s] =
         [family |-> sessions'[s].family,
          owner |-> [user |-> sessions'[s].user, identity |-> sessions'[s].identity,
                     credential |-> sessions'[s].credential,
                     impersonated |-> sessions'[s].impersonated]]
  /\ Accepted' = [s \in DOMAIN Accepted' |-> Accepted'[s]]
  BY DEF Accepted, Provenance

\* What stays accepted keeps its lineage and its owner.
LEMMA AcceptedOld ==
  ASSUME TypeOK, [Next]_vars
  PROVE  \A s \in DOMAIN Accepted' \ {Fresh} :
           s \in DOMAIN Accepted /\ Accepted'[s] = Accepted[s]
  <1>1. SUFFICES ASSUME NEW s \in DOMAIN Accepted', s # Fresh
                 PROVE  s \in DOMAIN Accepted /\ Accepted'[s] = Accepted[s]
    OBVIOUS
  <1>2. PICK f : f = sessions'[s].family
    OBVIOUS
  <1>3. s \in DOMAIN sessions' /\ ~sessions'[s].revoked /\ sessions'[s].expiresAt > now'
    BY <1>1, AcceptedRowsNext
  <1>4. s \in LiveIn(f)'
    BY <1>2, <1>3 DEF LiveIn, SessionsInFamily
  <1>5. OldSession(s)
    BY <1>1, <1>3, OldSessions
  <1>6. s \in LiveIn(f)
    BY <1>1, <1>4, LiveShrinks
  <1>7. s \in DOMAIN Accepted
    BY <1>2, <1>5, <1>6, AcceptedRows DEF OldSession
  <1>8. QED
    BY <1>1, <1>5, <1>7, AcceptedRows, AcceptedRowsNext DEF OldSession, Provenance

\* A step that revokes exactly the sessions in S, and none by the clock.
LEMMA AcceptedKept ==
  ASSUME TypeOK, [Next]_vars, Fresh \in DOMAIN Accepted', NEW S, now' = now,
         \A s \in DOMAIN sessions \ S : s \in DOMAIN sessions' /\ sessions'[s] = sessions[s],
         \A s \in S : sessions'[s].revoked
  PROVE  DOMAIN Accepted' = (DOMAIN Accepted \ S) \cup {Fresh}
  <1>1. ASSUME NEW s \in DOMAIN Accepted \ S
        PROVE  s \in DOMAIN Accepted'
    <2>1. s \in DOMAIN sessions /\ ~sessions[s].revoked /\ sessions[s].expiresAt > now
      BY <1>1, AcceptedRows DEF LiveIn
    <2>2. s \in DOMAIN sessions' /\ sessions'[s] = sessions[s]
      BY <1>1, <2>1
    <2>3. QED
      BY <2>1, <2>2, AcceptedRowsNext
  <1>2. \A s \in DOMAIN Accepted' : s # Fresh => s \in DOMAIN Accepted
    BY AcceptedOld
  <1>3. \A s \in S : s \notin DOMAIN Accepted' \/ s = Fresh
    BY AcceptedRowsNext
  <1>4. QED
    BY <1>1, <1>2, <1>3

\* The step of Lineage such a step is.
LEMMA Enters ==
  ASSUME TypeOK, [Next]_vars, Fresh \in DOMAIN Accepted', NEW S, NEW row,
         DOMAIN Accepted' = (DOMAIN Accepted \ S) \cup {Fresh},
         Accepted'[Fresh] = row
  PROVE  Lineages!Enter(S, row)
  <1>1. minted' = Fresh
    <2>1. Fresh \in 1..minted'
      BY MintedGrows, AcceptedRowsNext
    <2>2. minted' \in {minted, Fresh} /\ minted \in Nat
      BY MintedGrows DEF TypeOK
    <2>3. QED
      BY <2>1, <2>2 DEF Fresh
  <1>2. \A s \in DOMAIN Accepted' : Accepted'[s] = IF s = Fresh THEN row ELSE Accepted[s]
    BY AcceptedOld
  <1>3. Accepted' = [s \in DOMAIN Accepted' |-> IF s = Fresh THEN row ELSE Accepted[s]]
    BY <1>2, AcceptedRowsNext
  <1>4. QED
    BY <1>1, <1>3 DEF Lineages!Enter, Lineages!NextName, Fresh

LEMMA LineageEnds ==
  ASSUME TypeOK, [Next]_vars, Fresh \notin DOMAIN Accepted'
  PROVE  Lineages!End
  <1>1. \A s \in DOMAIN Accepted' : s \in DOMAIN Accepted /\ Accepted'[s] = Accepted[s]
    BY AcceptedOld
  <1>2. Accepted' = [s \in DOMAIN Accepted' |-> Accepted[s]]
    BY <1>1, AcceptedRowsNext
  <1>3. minted' \in {minted, Fresh}
    BY MintedGrows
  <1>4. QED
    BY <1>1, <1>2, <1>3 DEF Lineages!End, Lineages!NextName, Fresh

\* A sign-in, and createSession.
LEMMA LineageOpens ==
  ASSUME TypeOK, [Next]_vars, Fresh \in DOMAIN Accepted', OpenStep \/ createSession
  PROVE  \E owner \in Owners : Lineages!Open(owner)
  <1>1. OpensFresh
    BY OpenOpens, CreateOpens
  <1>2. sessions'[Fresh] \in SessionRow
    <2>1. sessions' \in [DOMAIN sessions' -> SessionRow]
      BY TypeStep DEF TypeOK
    <2>2. QED
      BY <1>1, <2>1 DEF OpensFresh
  <1> DEFINE owner == [user |-> sessions'[Fresh].user, identity |-> sessions'[Fresh].identity,
                       credential |-> sessions'[Fresh].credential,
                       impersonated |-> sessions'[Fresh].impersonated]
  <1>3. owner \in Owners
    BY <1>2 DEF SessionRow, Owners
  <1>4. Accepted'[Fresh] = [family |-> Fresh, owner |-> owner]
    BY <1>1, AcceptedRowsNext DEF OpensFresh
  <1> HIDE DEF owner
  <1>5. PICK row : sessions' = With(sessions, Fresh, row)
    BY DEF OpenStep, OpenFamily, createSession
  <1>6. \A s \in DOMAIN sessions : s \in DOMAIN sessions' /\ sessions'[s] = sessions[s]
    BY <1>5, FreshIsNew DEF With
  <1>7. now' = now
    BY DEF OpenStep, createSession
  <1>8. DOMAIN Accepted' = (DOMAIN Accepted \ {}) \cup {Fresh}
    BY <1>6, <1>7, AcceptedKept
  <1>9. Lineages!Enter({}, [family |-> Fresh, owner |-> owner])
    BY <1>4, <1>8, Enters
  <1>10. QED
    BY <1>3, <1>9 DEF Lineages!Open, Lineages!NextName, Fresh

\* The row a refresh inserts is that of its lineage: the session the token
\* was minted for is of the same family, dead or alive.
LEMMA FreshInherits ==
  ASSUME IInv, NEW t \in DOMAIN tokens, JoinsBy(t), Fresh \in DOMAIN Accepted',
         NEW r \in DOMAIN Accepted, sessions[r].family = tokens[t].family
  PROVE  Accepted'[Fresh] = Accepted[r]
  <1>1. PICK s : s = tokens[t].session
    OBVIOUS
  <1>2. r \in DOMAIN sessions /\ s \in DOMAIN sessions
    BY <1>1, AcceptedRows DEF JoinsBy
  <1>3. sessions[s].family = sessions[r].family
    BY <1>1, <1>2 DEF IInv, Consistent
  <1>4. Provenance(s) = Provenance(r) /\ tokens[t].user = sessions[r].user
    BY <1>2, <1>3 DEF IInv, FamilyUniform
  <1>5. /\ sessions'[Fresh].family = sessions[r].family
        /\ sessions'[Fresh].user = sessions[r].user
        /\ sessions'[Fresh].identity = sessions[r].identity
        /\ sessions'[Fresh].credential = sessions[r].credential
        /\ sessions'[Fresh].impersonated = sessions[r].impersonated
    BY <1>1, <1>4 DEF JoinsBy, Provenance
  <1>6. QED
    BY <1>2, <1>5, AcceptedRows, AcceptedRowsNext DEF Provenance

LEMMA LineageReplaces ==
  ASSUME IInv, [Next]_vars, Fresh \in DOMAIN Accepted',
         NEW t \in DOMAIN tokens, NEW start \in StartTimes, JoinsBy(t), rotateSession(t, start)
  PROVE  \E s \in DOMAIN Accepted : Lineages!Replace(s)
  <1>1. PICK s : s = tokens[t].session
    OBVIOUS
  <1>2. TypeOK
    BY DEF IInv
  <1>3. s \in DOMAIN sessions /\ s \in LiveIn(sessions[s].family) /\ s # Fresh
        /\ sessions'[s].revoked
    BY <1>1, <1>2, RotateRevokes
  <1>4. s \in DOMAIN Accepted
    BY <1>3, AcceptedRows
  <1>5. sessions[s].family = tokens[t].family
    BY <1>1, <1>3 DEF IInv, Consistent
  <1>6. PICK row : sessions' = With(Revoked(sessions, {s}), Fresh, row)
    BY <1>1 DEF rotateSession, Superseded
  <1>7. \A x \in DOMAIN sessions \ {s} : x \in DOMAIN sessions' /\ sessions'[x] = sessions[x]
    BY <1>2, <1>6, FreshIsNew, RevokedSessions DEF With
  <1>8. now' = now
    BY DEF rotateSession
  <1>9. DOMAIN Accepted' = (DOMAIN Accepted \ {s}) \cup {Fresh}
    BY <1>2, <1>3, <1>7, <1>8, AcceptedKept
  <1>10. Accepted'[Fresh] = Accepted[s]
    BY <1>4, <1>5, FreshInherits
  <1>11. Lineages!Enter({s}, Accepted[s])
    BY <1>2, <1>9, <1>10, Enters
  <1>12. QED
    BY <1>4, <1>11 DEF Lineages!Replace

LEMMA LineageJoins ==
  ASSUME IInv, [Next]_vars, Fresh \in DOMAIN Accepted',
         NEW t \in DOMAIN tokens, NEW start \in StartTimes, JoinsBy(t), convergeSession(t, start)
  PROVE  \E s \in DOMAIN Accepted : Lineages!Join(s)
  <1> DEFINE f == tokens[t].family
  <1>1. TypeOK
    BY DEF IInv
  <1>2. PICK r : r \in LiveIn(f)
    BY DEF convergeSession, CanConverge
  <1>3. r \in DOMAIN sessions /\ sessions[r].family = f
    BY <1>2 DEF LiveIn, SessionsInFamily
  <1>4. r \in DOMAIN Accepted /\ Accepted[r].family = f
    BY <1>2, <1>3, AcceptedRows
  <1>5. Lineages!Members(f) = LiveIn(f)
    BY AcceptedRows DEF Lineages!Members, LiveIn, SessionsInFamily
  <1>6. Cardinality(LiveIn(f)) < MaxLiveSessions
    <2>1. Cardinality(LiveIn(f)) \in Nat
      BY <1>1, LiveFinite
    <2>2. ~(Cardinality(LiveIn(f)) >= MaxLiveSessions)
      BY DEF convergeSession, CanConverge, FamilyFull
    <2>3. QED
      BY <2>1, <2>2, LimitAssumption
  <1>7. PICK row : sessions' = With(sessions, Fresh, row)
    BY DEF convergeSession
  <1>8. \A x \in DOMAIN sessions : x \in DOMAIN sessions' /\ sessions'[x] = sessions[x]
    BY <1>1, <1>7, FreshIsNew DEF With
  <1>9. now' = now
    BY DEF convergeSession
  <1>10. DOMAIN Accepted' = (DOMAIN Accepted \ {}) \cup {Fresh}
    BY <1>1, <1>8, <1>9, AcceptedKept
  <1>11. Accepted'[Fresh] = Accepted[r]
    BY <1>3, <1>4, FreshInherits
  <1>12. Lineages!Enter({}, Accepted[r])
    BY <1>1, <1>10, <1>11, Enters
  <1>13. Cardinality(Lineages!Members(Accepted[r].family)) < MaxLiveSessions
    BY <1>4, <1>5, <1>6
  <1>14. Lineages!Cardinality(Lineages!Members(Accepted[r].family))
           = Cardinality(Lineages!Members(Accepted[r].family))
    BY DEF Lineages!Cardinality, Cardinality
  <1>15. QED
    BY <1>4, <1>12, <1>13, <1>14 DEF Lineages!Join

LEMMA LineageMoves ==
  ASSUME IInv, [Next]_vars
  PROVE  Lineages!LineageNext
  <1>1. TypeOK
    BY DEF IInv
  <1>2. CASE Fresh \notin DOMAIN Accepted'
    BY <1>1, <1>2, LineageEnds DEF Lineages!LineageNext
  <1>3. CASE Fresh \in DOMAIN Accepted'
    <2>1. Fresh \in DOMAIN sessions'
      BY <1>3, AcceptedRowsNext
    <2>2. CASE OpenStep \/ createSession
      BY <1>1, <1>3, <2>2, LineageOpens DEF Lineages!LineageNext
    <2>3. CASE RefreshStep
      <3>1. PICK t \in DOMAIN tokens, start \in StartTimes :
              /\ tokens[t].session \in DOMAIN sessions
              /\ rotateSession(t, start) \/ convergeSession(t, start)
        BY <1>1, <2>3, RefreshFacts
      <3>2. JoinsBy(t)
        BY <1>1, <3>1, RefreshJoins
      <3>3. QED
        BY <1>3, <3>1, <3>2, LineageReplaces, LineageJoins DEF Lineages!LineageNext
    <2>4. ~RevokeStep
      BY <1>1, <2>1, FreshIsNew, RevokedSessions DEF RevokeStep, RevokeRows
    <2>5. ~(createRefreshToken \/ DeleteStep \/ Tick \/ UNCHANGED vars)
      BY <1>1, <2>1, FreshIsNew DEF createRefreshToken, DeleteStep, Without, Tick, vars
    <2>6. QED
      BY <1>1, <2>2, <2>3, <2>4, <2>5, StepKinds
  <1>4. QED
    BY <1>2, <1>3

(***************************************************************************)
(* The session tables implement Lineage for every caller of the component: *)
(* a session is accepted only because a sign-in opened its lineage, or     *)
(* because, in the same transaction, one of its lineage and its owner gave *)
(* way to it or had room beside it; every other mutation, and the clock,   *)
(* only takes accepted sessions away.                                      *)
(***************************************************************************)
THEOREM SessionsKeepLineage == Spec => KeepsLineage
  <1>1. Init => Lineages!LineageInit
    <2>1. SUFFICES ASSUME Init
                   PROVE  Accepted = [s \in {} |-> 0] /\ minted = 0
      BY DEF Lineages!LineageInit
    <2>2. DOMAIN sessions = {} /\ minted = 0
      BY <2>1 DEF Init
    <2>3. DOMAIN Accepted = {}
      BY <2>2, AcceptedRows
    <2>4. Accepted = [s \in {} |-> Accepted[s]]
      BY <2>3, AcceptedRows
    <2>5. [s \in {} |-> Accepted[s]] = [s \in {} |-> 0]
      OBVIOUS
    <2>6. QED
      BY <2>2, <2>4, <2>5
  <1>2. IInv /\ [Next]_vars => [Lineages!LineageNext]_(Lineages!lineageVars)
    BY LineageMoves
  <1>3. QED
    BY <1>1, <1>2, Invariance, PTL DEF Spec, KeepsLineage, Lineages!LineageSpec

=============================================================================
