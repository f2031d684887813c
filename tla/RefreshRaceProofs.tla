------------------------- MODULE RefreshRaceProofs -------------------------
(***************************************************************************)
(* The races a browser runs against itself: overlapping refreshes, whose   *)
(* answers overtake each other, never cost it its session, for any number  *)
(* of requests, when no leg of a trip takes longer than a third of the     *)
(* grace window.                                                           *)
(***************************************************************************)
EXTENDS RefreshFlowProofs

(***************************************************************************)
(* What KeepsSession assumes: answers arrive, in time; lifetimes are not   *)
(* reached; and no quota is either.                                        *)
(***************************************************************************)
Punctual ==
  /\ MayLose = FALSE
  /\ 3 * MaxTrip <= Grace
  /\ \A ttl \in {SessionTtl, DontRememberTtl, RefreshTtl, DefaultSessionTtl, DefaultRefreshTtl} :
       ttl > MaxTime
  /\ \A limit \in {MaxGraceRedemptions, MaxLiveSessions, MaxScanRows} : MaxMinted <= limit

(***************************************************************************)
(* The tables while nobody ends anything: every pair minted has both its   *)
(* rows, which nothing but its own rotation revokes, and one pair is live. *)
(***************************************************************************)
Intact(t) ==
  /\ tokens[t].session = t /\ tokens[t].family = 1 /\ sessions[t].family = 1
  /\ tokens[t].expiresAt > MaxTime /\ sessions[t].expiresAt > MaxTime
  /\ sessions[t].identity \in Identity
  /\ tokens[t].user = IdentityUser[sessions[t].identity]
  /\ sessions[t].revoked <=> tokens[t].revoked
  /\ tokens[t].revoked => tokens[t].rotatedAt \in 0..now
  /\ tokens[t].redemptions < minted

TablesIntact ==
  /\ users = User /\ identities = Identity
  /\ DOMAIN sessions = 1..minted /\ DOMAIN tokens = 1..minted
  /\ \A t \in 1..minted : Intact(t)
  /\ minted > 0 => \E t \in 1..minted : ~tokens[t].revoked

(***************************************************************************)
(* The browser: a pair under way to it is unused and named by nobody else; *)
(* if the pair it holds was rotated, the answer that replaces it is under  *)
(* way; and a request asks with a token that was rotated a trip before it  *)
(* was sent at most, or two trips before its action read the clock.        *)
(***************************************************************************)
Asking == {"refresh", "session", "user", "rotate", "converge"}
Pending(r) == request[r].pc = "answered"

Unused(p) ==
  /\ p \in 1..minted /\ ~tokens[p].revoked /\ p # jar
  /\ \A r \in Request : request[r].pc \in Asking => request[r].token # p

AnswersFresh ==
  /\ \A r \in Request : Pending(r) => Unused(request[r].pair)
  /\ \A r, q \in Request : Pending(r) /\ Pending(q) /\ request[r].pair = request[q].pair => r = q

JarReplaced ==
  minted > 0 =>
    /\ jar \in 1..minted
    /\ tokens[jar].revoked =>
         \E r \in Request : Pending(r) /\ request[r].start <= tokens[jar].rotatedAt

Trips(pc) == IF pc = "refresh" THEN MaxTrip ELSE 2 * MaxTrip
AskedInTime ==
  \A r \in Request : request[r].pc \in Asking =>
    LET t == request[r].token
    IN  /\ t \in 1..minted
        /\ tokens[t].revoked => request[r].start - tokens[t].rotatedAt <= Trips(request[r].pc)
        /\ request[r].pc = "converge" => tokens[t].revoked

NoSignOut == \A r \in Request : request[r].pc \in Asking \cup {"idle", "answered"}

RaceInv == FlowInv /\ TablesIntact /\ AnswersFresh /\ JarReplaced /\ AskedInTime /\ NoSignOut

-----------------------------------------------------------------------------
(***************************************************************************)
(* What a request can do with the token it presents.                       *)
(***************************************************************************)
LEMMA Numbers ==
  ASSUME TypeOK, Punctual
  PROVE  /\ {now, minted, MaxTrip, Grace, MaxTime, MaxMinted,
             MaxGraceRedemptions, MaxLiveSessions, MaxScanRows} \subseteq Nat
         /\ now <= MaxTime /\ minted <= MaxMinted /\ MaxTrip + MaxTrip + MaxTrip <= Grace
         /\ MaxMinted <= MaxGraceRedemptions /\ MaxMinted <= MaxLiveSessions
         /\ MaxMinted <= MaxScanRows
  BY Times, LimitAssumption, BoundAssumption DEF TypeOK, Punctual

LEMMA InRange ==
  ASSUME TypeOK, TablesIntact, NEW t \in 1..minted
  PROVE  /\ t \in DOMAIN tokens /\ t \in DOMAIN sessions
         /\ sessions[t] \in SessionRow /\ tokens[t] \in TokenRow
         /\ Intact(t)
  BY DEF TypeOK, TablesIntact

LEMMA UnrevokedLive ==
  ASSUME TypeOK, Punctual, TablesIntact, NEW t \in 1..minted
  PROVE  /\ Presentable(t) /\ Resolvable(t, t) /\ tokens[t].session = t
         /\ ~tokens[t].revoked => t \in LiveIn(1) /\ Live(t)
  <1>1. /\ t \in DOMAIN tokens /\ t \in DOMAIN sessions /\ Intact(t)
        /\ sessions[t] \in SessionRow /\ tokens[t] \in TokenRow
    BY InRange
  <1>2. now < tokens[t].expiresAt /\ now < sessions[t].expiresAt
    BY <1>1, Numbers DEF Intact, SessionRow, TokenRow
  <1>3. tokens[t].user \in users /\ sessions[t].identity \in identities
        /\ IdentityUser[sessions[t].identity] = tokens[t].user
    BY <1>1 DEF Intact, TablesIntact, TokenRow
  <1>4. QED
    BY <1>1, <1>2, <1>3 DEF Intact, Presentable, Resolvable, LiveIn, SessionsInFamily, Live

\* While one pair is live, and another is not, the family has room for more.
LEMMA Room ==
  ASSUME TypeOK, Punctual, TablesIntact, NEW t \in 1..minted, tokens[t].revoked
  PROVE  LiveIn(1) # {} /\ ~FamilyFull(1)
  <1>1. minted \in Nat /\ MaxMinted \in Nat /\ MaxLiveSessions \in Nat /\ MaxScanRows \in Nat
    BY Numbers
  <1>2. IsFiniteSet(1..minted) /\ Cardinality(1..minted) = minted
    BY <1>1, FS_Interval
  <1>3. LiveIn(1) # {}
    BY <1>1, UnrevokedLive DEF TablesIntact
  <1>4. SessionsInFamily(1) = 1..minted
    BY InRange DEF TablesIntact, SessionsInFamily, Intact
  <1>5. LiveIn(1) \in SUBSET ((1..minted) \ {t})
    BY <1>4, InRange DEF LiveIn, Intact
  <1>6. IsFiniteSet((1..minted) \ {t}) /\ Cardinality((1..minted) \ {t}) = minted - 1
    BY <1>2, FS_RemoveElement
  <1>7. Cardinality(LiveIn(1)) <= minted - 1 /\ Cardinality(LiveIn(1)) \in Nat
    BY <1>5, <1>6, FS_Subset, FS_CardinalityType
  <1>8. ~(Cardinality(LiveIn(1)) >= MaxLiveSessions)
    BY <1>1, <1>7, Numbers
  <1>9. ~(Cardinality(SessionsInFamily(1)) > MaxScanRows)
    BY <1>1, <1>2, <1>4, Numbers
  <1>10. QED
    BY <1>3, <1>8, <1>9 DEF FamilyFull

\* A token rotates until it is rotated, and converges for a while after that.
LEMMA Usable ==
  ASSUME TypeOK, Punctual, TablesIntact, NEW t \in 1..minted
  PROVE  /\ ~tokens[t].revoked => CanRotate(t) /\ ~MayConverge(t) /\ ~IsReplay(t)
         /\ tokens[t].revoked /\ now - tokens[t].rotatedAt <= Grace =>
              ~CanRotate(t) /\ MayConverge(t) /\ CanConverge(t) /\ ~IsReplay(t)
  <1>1. /\ t \in DOMAIN tokens /\ Intact(t) /\ tokens[t] \in TokenRow
    BY InRange
  <1>2. Presentable(t) /\ Resolvable(t, t) /\ tokens[t].session = t /\ tokens[t].family = 1
    BY <1>1, UnrevokedLive DEF Intact
  <1>3. CASE ~tokens[t].revoked
    BY <1>2, <1>3, UnrevokedLive DEF CanRotate, MayConverge, IsReplay
  <1>4. CASE tokens[t].revoked /\ now - tokens[t].rotatedAt <= Grace
    <2>1. tokens[t].rotatedAt \in 0..now
      BY <1>1, <1>4 DEF Intact
    <2>2. WithinGrace(t) /\ ~RotatedBeforeGrace(t)
      BY <1>4, <2>1, Numbers DEF WithinGrace, RotatedBeforeGrace, Never
    <2>3. ~GraceSpent(t)
      BY <1>1, Numbers DEF Intact, GraceSpent, TokenRow
    <2>4. QED
      BY <1>2, <1>4, <2>2, <2>3, Room DEF CanRotate, MayConverge, CanConverge, IsReplay
  <1>5. QED
    BY <1>3, <1>4

-----------------------------------------------------------------------------
(***************************************************************************)
(* What a step does to a request: it is sent, it goes on to the next query *)
(* or mutation, it mints a pair, or its answer arrives.                    *)
(***************************************************************************)
Others(r) == \A q \in Request \ {r} : request'[q] = request[q]

Sends(r) ==
  /\ jar # NoPair /\ request[r].pc = "idle"
  /\ request'[r].pc = "refresh" /\ request'[r].token = jar /\ request'[r].start = now
  /\ Others(r) /\ UNCHANGED <<vars, jar>>

Advances(r) ==
  /\ request[r].pc \in Asking /\ request'[r].pc \in Asking \ {"refresh"}
  /\ request'[r].token = request[r].token
  /\ request'[r].start = IF request[r].pc = "refresh" THEN now ELSE request[r].start
  /\ request'[r].pc = "converge" => tokens[request[r].token].revoked
  /\ Others(r) /\ UNCHANGED <<vars, jar>>

Mints(r) ==
  LET t == request[r].token
  IN  /\ request[r].pc \in Asking
      /\ rotateSession(t, request[r].start) \/ convergeSession(t, request[r].start)
      /\ request'[r].pc = "answered" /\ request'[r].pair = Fresh
      /\ request'[r].start = request[r].start
      /\ Others(r) /\ jar' = jar

Arrives(r) ==
  /\ Pending(r) /\ request'[r].pc = "idle" /\ jar' = request[r].pair
  /\ Others(r) /\ UNCHANGED vars

LEMMA RowFields ==
  ASSUME NEW M, NEW N, NEW q \in [pc : Pc, token : M, start : N, pair : M], NEW pc
  PROVE  /\ [q EXCEPT !.pc = pc].pc = pc
         /\ [q EXCEPT !.pc = pc].token = q.token
         /\ [q EXCEPT !.pc = pc].start = q.start
         /\ \A start : /\ [q EXCEPT !.pc = pc, !.start = start].pc = pc
                       /\ [q EXCEPT !.pc = pc, !.start = start].token = q.token
                       /\ [q EXCEPT !.pc = pc, !.start = start].start = start
         /\ \A pair : /\ [q EXCEPT !.pc = pc, !.pair = pair].pc = pc
                      /\ [q EXCEPT !.pc = pc, !.pair = pair].pair = pair
                      /\ [q EXCEPT !.pc = pc, !.pair = pair].start = q.start
  OBVIOUS

LEMMA GoesOn ==
  ASSUME FlowTypeOK, NEW r \in Request, NEW pc, Goto(r, pc)
  PROVE  /\ request'[r].pc = pc /\ request'[r].token = request[r].token
         /\ request'[r].start = request[r].start /\ Others(r) /\ jar' = jar
  <1> DEFINE row == [request[r] EXCEPT !.pc = pc]
  <1>1. request \in [Request -> RequestRow] /\ request' = [request EXCEPT ![r] = row]
    BY Requests DEF Goto
  <1>2. request[r] \in RequestRow
    BY <1>1
  <1>3. row.pc = pc /\ row.token = request[r].token /\ row.start = request[r].start
    BY <1>2, RowFields DEF RequestRow
  <1> HIDE DEF row
  <1>4. QED
    BY <1>1, <1>3 DEF Others, Goto

LEMMA IsAnswered ==
  ASSUME FlowTypeOK, NEW r \in Request, NEW pair, Answer(r, pair)
  PROVE  /\ request'[r].pc = "answered" /\ request'[r].pair = pair
         /\ request'[r].start = request[r].start /\ Others(r) /\ jar' = jar
  <1> DEFINE row == [request[r] EXCEPT !.pc = "answered", !.pair = pair]
  <1>1. request \in [Request -> RequestRow] /\ request' = [request EXCEPT ![r] = row]
    BY Requests DEF Answer
  <1>2. request[r] \in RequestRow
    BY <1>1
  <1>3. row.pc = "answered" /\ row.pair = pair /\ row.start = request[r].start
    BY <1>2, RowFields DEF RequestRow
  <1> HIDE DEF row
  <1>4. QED
    BY <1>1, <1>3 DEF Others, Answer

LEMMA IsSent ==
  ASSUME FlowTypeOK, NEW r \in Request, SendRefresh(r)
  PROVE  Sends(r)
  <1> DEFINE row == [Idle EXCEPT !.pc = "refresh", !.token = jar, !.start = now]
  <1>1. request \in [Request -> RequestRow] /\ request' = [request EXCEPT ![r] = row]
    BY Requests DEF SendRefresh, Send
  <1>2. row.pc = "refresh" /\ row.token = jar /\ row.start = now
    BY DEF Idle
  <1> HIDE DEF row
  <1>3. request[r].pc = "idle"
    BY DEF SendRefresh, Send, Idle
  <1>4. QED
    BY <1>1, <1>2, <1>3 DEF Others, SendRefresh, Send, Sends

LEMMA ReadsClock ==
  ASSUME FlowTypeOK, NEW r \in Request,
         request' = [request EXCEPT ![r].pc = "session", ![r].start = now]
  PROVE  /\ request'[r].pc = "session" /\ request'[r].token = request[r].token
         /\ request'[r].start = now /\ Others(r)
  <1> DEFINE row == [request[r] EXCEPT !.pc = "session", !.start = now]
  <1>1. request \in [Request -> RequestRow] /\ request' = [request EXCEPT ![r] = row]
    BY Requests
  <1>2. request[r] \in RequestRow
    BY <1>1
  <1>3. row.pc = "session" /\ row.token = request[r].token /\ row.start = now
    BY <1>2, RowFields DEF RequestRow
  <1> HIDE DEF row
  <1>4. QED
    BY <1>1, <1>3 DEF Others

\* The token a request presents has not been rotated for longer than Grace.
LEMMA Asked ==
  ASSUME RaceInv, Punctual, NEW r \in Request, request[r].pc \in Asking
  PROVE  LET t == request[r].token
         IN  /\ t \in 1..minted
             /\ request[r].start \in 0..now
             /\ tokens[t].revoked => now - tokens[t].rotatedAt <= Grace
  <1> DEFINE t == request[r].token
  <1>1. /\ t \in 1..minted /\ request[r].start \in 0..now
        /\ TypeOK /\ TablesIntact
    BY Requests DEF RaceInv, AskedInTime, FlowInv, IInv
  <1>2. now - request[r].start <= MaxTrip
    BY DEF RaceInv, FlowInv, Timely, InFlight, Asking
  <1>3. tokens[t].revoked =>
          request[r].start - tokens[t].rotatedAt <= Trips(request[r].pc)
    BY DEF RaceInv, AskedInTime
  <1>4. tokens[t].revoked => tokens[t].rotatedAt \in 0..now
    BY <1>1, InRange DEF Intact
  <1>5. QED
    BY <1>1, <1>2, <1>3, <1>4, Numbers DEF Trips

LEMMA Courses ==
  ASSUME RaceInv, Punctual, [RefreshNext]_flowVars
  PROVE  \/ SignIn \/ FlowTick \/ UNCHANGED flowVars
         \/ \E r \in Request : Sends(r) \/ Advances(r) \/ Mints(r) \/ Arrives(r)
  <1>1. FlowTypeOK /\ TypeOK /\ TablesIntact
    BY DEF RaceInv, FlowInv, IInv
  <1>2. CASE SignIn \/ FlowTick \/ UNCHANGED flowVars
    BY <1>2
  <1>3. ASSUME NEW r \in Request, SendRefresh(r) \/ Progress(r) \/ Lose(r) \/ Fail(r)
        PROVE  Sends(r) \/ Advances(r) \/ Mints(r) \/ Arrives(r)
    <2> DEFINE t == request[r].token
    <2>1. request[r].pc \in Asking =>
            /\ t \in 1..minted /\ t \in DOMAIN tokens /\ t \in DOMAIN sessions
            /\ request[r].start \in 0..now
            /\ ~tokens[t].revoked => CanRotate(t) /\ ~MayConverge(t) /\ ~IsReplay(t)
            /\ tokens[t].revoked => ~CanRotate(t) /\ CanConverge(t) /\ ~IsReplay(t)
                                    /\ MayConverge(t)
      BY <1>1, Asked, InRange, Usable
    <2>2. CASE SendRefresh(r)
      BY <1>1, <2>2, IsSent
    <2>3. CASE ReadToken(r)
      <3>1. request[r].pc = "refresh" /\ request[r].pc \in Asking
        BY <2>3 DEF ReadToken, Asking
      <3>2. /\ request' = [request EXCEPT ![r].pc = "session", ![r].start = now]
            /\ UNCHANGED <<vars, jar>>
        BY <2>1, <2>3, <3>1 DEF ReadToken
      <3>3. QED
        BY <1>1, <3>1, <3>2, ReadsClock DEF Advances, Asking
    <2>4. CASE ReadSession(r)
      <3>1. request[r].pc = "session" /\ request[r].pc \in Asking
        BY <2>4 DEF ReadSession, Asking
      <3>2. Unexpired(t, request[r].start)
        <4>1. Intact(t) /\ sessions[t] \in SessionRow /\ t \in DOMAIN sessions
          BY <1>1, <2>1, <3>1, InRange
        <4>2. request[r].start < sessions[t].expiresAt
          BY <1>1, <2>1, <3>1, <4>1, Numbers DEF Intact, SessionRow
        <4>3. QED
          BY <4>1, <4>2 DEF Unexpired
      <3>3. Goto(r, "user") /\ UNCHANGED vars
        BY <2>4, <3>2 DEF ReadSession
      <3>4. QED
        BY <1>1, <3>1, <3>3, GoesOn DEF Advances, Asking
    <2>5. CASE ReadUser(r)
      <3>1. request[r].pc = "user" /\ request[r].pc \in Asking
        BY <2>5 DEF ReadUser, Asking
      <3>2. t \in DOMAIN tokens /\ Resolvable(t, t)
        BY <1>1, <2>1, <3>1, InRange, UnrevokedLive
      <3>3. Goto(r, "rotate") /\ UNCHANGED vars
        BY <2>5, <3>2 DEF ReadUser
      <3>4. QED
        BY <1>1, <3>1, <3>3, GoesOn DEF Advances, Asking
    <2>6. CASE Rotate(r)
      <3>1. request[r].pc = "rotate" /\ request[r].pc \in Asking
        BY <2>6 DEF Rotate, Asking
      <3>2. CASE tokens[t].revoked
        <4>1. Goto(r, "converge") /\ UNCHANGED vars
          BY <2>1, <2>6, <3>1, <3>2 DEF Rotate, rotateSession, ReplayDetected, replayAfterGrace
        <4>2. QED
          BY <1>1, <3>1, <3>2, <4>1, GoesOn DEF Advances, Asking
      <3>3. CASE ~tokens[t].revoked
        <4>1. rotateSession(t, request[r].start) /\ Answer(r, Fresh)
          BY <2>1, <2>6, <3>1, <3>3 DEF Rotate, ReplayDetected, replayAfterGrace
        <4>2. QED
          BY <1>1, <3>1, <4>1, IsAnswered DEF Mints
      <3>4. QED
        BY <3>2, <3>3
    <2>7. CASE Converge(r)
      <3>1. request[r].pc = "converge" /\ request[r].pc \in Asking
        BY <2>7 DEF Converge, Asking
      <3>2. tokens[t].revoked
        BY <3>1 DEF RaceInv, AskedInTime
      <3>3. convergeSession(t, request[r].start) /\ Answer(r, Fresh)
        BY <2>1, <2>7, <3>1, <3>2 DEF Converge, ReplayDetected, replayAfterGrace
      <3>4. QED
        BY <1>1, <3>1, <3>3, IsAnswered DEF Mints
    <2>8. CASE Deliver(r)
      <3>1. request' = [request EXCEPT ![r] = Idle] /\ request \in [Request -> RequestRow]
        BY <1>1, <2>8, Requests DEF Deliver
      <3>2. QED
        BY <2>8, <3>1 DEF Deliver, Arrives, Others, Pending, Idle
    <2>9. CASE SignOut(r) \/ DeliverSignOut(r) \/ Lose(r) \/ Fail(r)
      BY <2>9 DEF SignOut, DeliverSignOut, Lose, Fail, RaceInv, NoSignOut, Asking, Punctual
    <2>10. QED
      BY <1>3, <2>2, <2>3, <2>4, <2>5, <2>6, <2>7, <2>8, <2>9 DEF Progress, Arrive, Return
  <1>4. QED
    BY <1>2, <1>3 DEF RefreshNext

-----------------------------------------------------------------------------
(***************************************************************************)
(* What a step does to the tables.                                         *)
(***************************************************************************)
\* A pair is minted, and t is rotated if it was not.
Adds(t) ==
  /\ minted' = Fresh /\ now' = now /\ users' = users /\ identities' = identities
  /\ DOMAIN sessions' = 1..Fresh /\ DOMAIN tokens' = 1..Fresh
  /\ \A x \in 1..minted :
       /\ tokens'[x].revoked <=> tokens[x].revoked \/ x = t
       /\ tokens'[x].rotatedAt =
            IF x = t /\ ~tokens[t].revoked THEN now ELSE tokens[x].rotatedAt
       /\ tokens'[x].redemptions \in {tokens[x].redemptions, tokens[x].redemptions + 1}
       /\ tokens'[x].session = tokens[x].session /\ tokens'[x].family = tokens[x].family
       /\ tokens'[x].user = tokens[x].user /\ tokens'[x].expiresAt = tokens[x].expiresAt
       /\ sessions'[x].revoked <=> sessions[x].revoked \/ x = t
       /\ sessions'[x].identity = sessions[x].identity
       /\ sessions'[x].family = sessions[x].family
       /\ sessions'[x].expiresAt = sessions[x].expiresAt
  /\ \A f \in {Fresh} : ~tokens'[f].revoked /\ Intact(f)'

LEMMA RotatedTables ==
  ASSUME TypeOK, NEW t \in 1..minted, Intact(t), CanMint,
         DOMAIN sessions = 1..minted, DOMAIN tokens = 1..minted,
         NEW row, NEW tok,
         sessions' = With(Superseded(t), Fresh, row),
         tokens' = With(Rotated(t), Fresh, tok)
  PROVE  \A x \in 1..minted :
           /\ tokens'[x] = Rotated(t)[x] /\ sessions'[x] = Revoked(sessions, {t})[x]
           /\ tokens'[x].revoked <=> tokens[x].revoked \/ x = t
           /\ tokens'[x].rotatedAt = IF x = t THEN now ELSE tokens[x].rotatedAt
           /\ sessions'[x].revoked <=> sessions[x].revoked \/ x = t
  <1> SUFFICES ASSUME NEW x \in 1..minted
               PROVE  /\ tokens'[x] = Rotated(t)[x] /\ sessions'[x] = Revoked(sessions, {t})[x]
                      /\ tokens'[x].revoked <=> tokens[x].revoked \/ x = t
                      /\ tokens'[x].rotatedAt = IF x = t THEN now ELSE tokens[x].rotatedAt
                      /\ sessions'[x].revoked <=> sessions[x].revoked \/ x = t
    OBVIOUS
  <1>1. x # Fresh /\ x \in DOMAIN sessions /\ x \in DOMAIN tokens /\ t \in DOMAIN tokens
    BY FreshIsNew
  <1>2. tokens'[x] = Rotated(t)[x]
    BY <1>1, RotatedRow DEF With
  <1>3. sessions'[x] = Revoked(sessions, {t})[x]
    BY <1>1, RevokedSessions DEF With, Superseded
  <1>4. CASE x = t
    BY <1>1, <1>2, <1>3, <1>4, RotatedRow, RevokedSessions
  <1>5. CASE x # t
    BY <1>1, <1>2, <1>3, <1>5, RotatedRow, RevokedSessions
  <1>6. QED
    BY <1>4, <1>5, <1>2, <1>3

LEMMA FreshRow ==
  ASSUME TypeOK, Punctual, TablesIntact, NEW t \in 1..minted, CanMint,
         NEW start \in StartTimes,
         rotateSession(t, start) \/ convergeSession(t, start)
  PROVE  \A f \in {Fresh} : ~tokens'[f].revoked /\ Intact(f)'
  <1> DEFINE row == Successor(t, t, start)
             tok == NewToken(Fresh, tokens[t].family, tokens[t].user, start + DefaultRefreshTtl)
  <1>1. /\ t \in DOMAIN tokens /\ t \in DOMAIN sessions /\ Intact(t)
        /\ tokens[t].session = t /\ tokens[t].family = 1
        /\ sessions[t] \in SessionRow /\ tokens[t] \in TokenRow
    BY InRange DEF Intact
  <1>2. start + DefaultSessionTtl > MaxTime /\ start + DefaultRefreshTtl > MaxTime
    <2>1. DefaultSessionTtl > MaxTime /\ DefaultRefreshTtl > MaxTime
      BY DEF Punctual
    <2>2. start \in Nat /\ DefaultSessionTtl \in Nat /\ DefaultRefreshTtl \in Nat /\ MaxTime \in Nat
      BY StartTimesNat, TtlAssumption, Numbers
    <2>3. QED
      BY <2>1, <2>2
  <1>3. /\ row.family = 1 /\ row.expiresAt > MaxTime /\ row.identity = sessions[t].identity
        /\ row.revoked = FALSE
    BY <1>1, <1>2 DEF Successor, SessionRow
  <1>4. /\ tok.session = Fresh /\ tok.family = 1 /\ tok.user = tokens[t].user
        /\ tok.revoked = FALSE /\ tok.redemptions = 0 /\ tok.expiresAt > MaxTime
    BY <1>1, <1>2 DEF NewToken
  <1>5. /\ \E table : sessions' = With(table, Fresh, row)
        /\ \E table : tokens' = With(table, Fresh, tok)
        /\ minted' = Fresh
    BY <1>1 DEF rotateSession, convergeSession, NextToken
  <1> HIDE DEF row, tok
  <1>6. sessions'[Fresh] = row /\ tokens'[Fresh] = tok
    BY <1>5 DEF With
  <1>7. sessions[t].identity \in Identity /\ tokens[t].user = IdentityUser[sessions[t].identity]
    BY <1>1 DEF Intact
  <1>8. 0 < Fresh
    BY Numbers DEF Fresh
  <1>9. QED
    BY <1>3, <1>4, <1>5, <1>6, <1>7, <1>8 DEF Intact

LEMMA Minting ==
  ASSUME RaceInv, Punctual, NEW r \in Request, Mints(r)
  PROVE  Adds(request[r].token)
  <1> DEFINE t == request[r].token
             start == request[r].start
             row == Successor(t, t, start)
             tok == NextToken(t, start)
  <1>1. /\ TypeOK /\ TablesIntact /\ CanMint /\ t \in 1..minted
        /\ Intact(t) /\ tokens[t].session = t /\ t \in DOMAIN tokens /\ tokens[t] \in TokenRow
        /\ DOMAIN sessions = 1..minted /\ DOMAIN tokens = 1..minted
    BY Asked, InRange DEF RaceInv, FlowInv, IInv, Mints, rotateSession, convergeSession,
       Intact, TablesIntact
  <1>2. start \in StartTimes
    BY InTime DEF RaceInv, Mints, Asking
  <1>3. rotateSession(t, start) \/ convergeSession(t, start)
    BY DEF Mints
  <1>4. minted' = Fresh /\ now' = now /\ users' = users /\ identities' = identities
    BY <1>3 DEF rotateSession, convergeSession
  <1>5. \A f \in {Fresh} : ~tokens'[f].revoked /\ Intact(f)'
    BY <1>1, <1>2, <1>3, FreshRow
  <1>6. 1..Fresh = 1..minted \cup {Fresh}
    BY <1>1, FreshId
  <1>7. CASE rotateSession(t, start)
    <2>1. /\ sessions' = With(Superseded(t), Fresh, row)
          /\ tokens' = With(Rotated(t), Fresh, tok)
          /\ ~tokens[t].revoked
      BY <1>1, <1>7 DEF rotateSession, CanRotate, Rotated
    <2> HIDE DEF row, tok
    <2>2. DOMAIN sessions' = 1..Fresh /\ DOMAIN tokens' = 1..Fresh
      <3>1. DOMAIN Superseded(t) = 1..minted /\ DOMAIN Rotated(t) = 1..minted
        BY <1>1, RotatedRow, RevokedSessions DEF Superseded
      <3>2. QED
        BY <1>6, <2>1, <3>1 DEF With
    <2>3. \A x \in 1..minted :
            /\ tokens'[x] = Rotated(t)[x] /\ sessions'[x] = Revoked(sessions, {t})[x]
            /\ tokens'[x].revoked <=> tokens[x].revoked \/ x = t
            /\ tokens'[x].rotatedAt = IF x = t THEN now ELSE tokens[x].rotatedAt
            /\ sessions'[x].revoked <=> sessions[x].revoked \/ x = t
      BY <1>1, <2>1, RotatedTables
    <2>4. \A x \in 1..minted : tokens[x].redemptions \in Nat
      BY <1>1, InRange DEF TokenRow
    <2>5. QED
      BY <1>1, <1>4, <1>5, <2>1, <2>2, <2>3, <2>4, RotatedRow, RevokedSessions DEF Adds
  <1>8. CASE convergeSession(t, start)
    <2>1. /\ sessions' = With(sessions, Fresh, row)
          /\ tokens' = With(Redeemed(t), Fresh, tok)
          /\ tokens[t].revoked
      BY <1>1, <1>8 DEF convergeSession, CanConverge, MayConverge, Redeemed
    <2> HIDE DEF row, tok
    <2>2. DOMAIN sessions' = 1..Fresh /\ DOMAIN tokens' = 1..Fresh
      BY <1>1, <1>6, <2>1, RedeemedRow DEF With
    <2>3. \A x \in 1..minted : tokens'[x] = Redeemed(t)[x] /\ sessions'[x] = sessions[x]
      BY <1>1, <2>1, RedeemedRow, FreshIsNew DEF With
    <2>4. \A x \in 1..minted : tokens[x].redemptions \in Nat
      BY <1>1, InRange DEF TokenRow
    <2>5. \A x \in 1..minted :
            tokens'[x].redemptions \in {tokens[x].redemptions, tokens[x].redemptions + 1}
      BY <1>1, <2>3, <2>4, RedeemedRow
    <2>6. sessions[t].revoked
      BY <1>1, <2>1 DEF Intact
    <2>7. QED
      BY <1>1, <1>4, <1>5, <2>1, <2>2, <2>3, <2>5, <2>6, RedeemedRow DEF Adds
  <1>9. QED
    BY <1>3, <1>7, <1>8

\* The first pair.
LEMMA SigningIn ==
  ASSUME TypeOK, Punctual, SignIn
  PROVE  /\ minted' = 1 /\ DOMAIN sessions' = 1..1 /\ DOMAIN tokens' = 1..1
         /\ users' = users /\ identities' = identities
         /\ Intact(1)' /\ ~tokens'[1].revoked
  <1>1. minted = 0 /\ Fresh = 1 /\ DOMAIN sessions = {} /\ DOMAIN tokens = {}
    <2>1. minted = 0 /\ Fresh = 1
      BY DEF SignIn, Fresh
    <2>2. DOMAIN sessions \subseteq 1..minted /\ DOMAIN tokens \subseteq 1..minted
      BY DEF TypeOK
    <2>3. 1..0 = {}
      OBVIOUS
    <2>4. QED
      BY <2>1, <2>2, <2>3
  <1>2. PICK i \in Identity, c \in Credential \cup {NoCredential},
             ttl \in {SessionTtl, DontRememberTtl}, start \in StartTimes :
          /\ OpenFamily(IdentityUser[i], i, c, FALSE, start + ttl, start + RefreshTtl)
          /\ UNCHANGED <<now, users, identities>>
    BY DEF SignIn, createSessionAndRefreshToken
  <1>3. start + ttl > MaxTime /\ start + RefreshTtl > MaxTime
    <2>1. ttl > MaxTime /\ RefreshTtl > MaxTime
      BY DEF Punctual
    <2>2. start \in Nat /\ ttl \in Nat /\ RefreshTtl \in Nat /\ MaxTime \in Nat
      BY StartTimesNat, TtlAssumption, Numbers
    <2>3. QED
      BY <2>1, <2>2
  <1> DEFINE row == [user |-> IdentityUser[i], identity |-> i, family |-> Fresh,
                     credential |-> c, impersonated |-> FALSE, revoked |-> FALSE,
                     expiresAt |-> start + ttl]
             tok == NewToken(Fresh, Fresh, IdentityUser[i], start + RefreshTtl)
  <1>4. /\ sessions' = With(sessions, Fresh, row) /\ tokens' = With(tokens, Fresh, tok)
        /\ minted' = Fresh
    BY <1>2 DEF OpenFamily
  <1>5. /\ row.family = 1 /\ row.expiresAt > MaxTime /\ row.identity = i
        /\ row.revoked = FALSE
    BY <1>1, <1>3
  <1>6. /\ tok.session = 1 /\ tok.family = 1 /\ tok.user = IdentityUser[i]
        /\ tok.revoked = FALSE /\ tok.redemptions = 0 /\ tok.expiresAt > MaxTime
    BY <1>1, <1>3 DEF NewToken
  <1> HIDE DEF row, tok
  <1>7. /\ sessions'[1] = row /\ tokens'[1] = tok
        /\ DOMAIN sessions' = 1..1 /\ DOMAIN tokens' = 1..1
    BY <1>1, <1>4 DEF With
  <1>8. QED
    BY <1>1, <1>2, <1>4, <1>5, <1>6, <1>7 DEF Intact

LEMMA TablesStep ==
  ASSUME RaceInv, Punctual, [RefreshNext]_flowVars
  PROVE  TablesIntact'
  <1>1. TypeOK /\ TablesIntact /\ now \in Nat /\ minted \in Nat
    BY Numbers DEF RaceInv, FlowInv, IInv
  <1>2. CASE SignIn
    <2>1. Intact(1)' /\ ~tokens'[1].revoked
      BY <1>1, <1>2, SigningIn
    <2>2. \A t \in 1..1 : t = 1
      OBVIOUS
    <2>3. QED
      BY <1>1, <1>2, <2>1, <2>2, SigningIn DEF TablesIntact
  <1>3. ASSUME UNCHANGED <<users, identities, minted, sessions, tokens>>,
               now' = now \/ now' = now + 1
        PROVE  TablesIntact'
    BY <1>1, <1>3 DEF TablesIntact, Intact
  <1>4. CASE \E r \in Request : Mints(r)
    <2>1. PICK r \in Request : Mints(r)
      BY <1>4
    <2> DEFINE t == request[r].token
    <2>2. Adds(t)
      BY <2>1, Minting
    <2>3. 1..Fresh = 1..minted \cup {Fresh} /\ t \in 1..minted
      BY <1>1, <2>1, Asked DEF Fresh, Mints
    <2>4. \A x \in 1..minted : Intact(x)'
      <3> SUFFICES ASSUME NEW x \in 1..minted PROVE Intact(x)'
        OBVIOUS
      <3>1. Intact(x) /\ tokens[x] \in TokenRow
        BY <1>1, InRange
      <3>2. tokens'[x].rotatedAt \in {now, tokens[x].rotatedAt}
            /\ (tokens'[x].revoked => tokens[x].revoked \/ tokens'[x].rotatedAt = now)
        BY <2>2 DEF Adds
      <3>3. tokens'[x].revoked => tokens'[x].rotatedAt \in 0..now'
        BY <1>1, <2>2, <3>1, <3>2 DEF Adds, Intact
      <3>4. tokens'[x].redemptions < minted'
        <4>1. tokens'[x].redemptions = tokens[x].redemptions
              \/ tokens'[x].redemptions = tokens[x].redemptions + 1
          BY <2>2 DEF Adds
        <4>2. /\ tokens[x].redemptions \in Nat /\ tokens[x].redemptions < minted
              /\ minted' = minted + 1
          BY <2>2, <3>1 DEF Adds, Intact, TokenRow, Fresh
        <4>3. QED
          BY <1>1, <4>1, <4>2
      <3>5. QED
        BY <2>2, <3>1, <3>3, <3>4 DEF Adds, Intact
    <2>5. QED
      BY <1>1, <2>2, <2>3, <2>4 DEF Adds, TablesIntact
  <1>5. CASE FlowTick \/ UNCHANGED flowVars
             \/ \E r \in Request : Sends(r) \/ Advances(r) \/ Arrives(r)
    BY <1>3, <1>5 DEF FlowTick, Tick, flowVars, vars, Sends, Advances, Arrives
  <1>6. QED
    BY <1>2, <1>4, <1>5, Courses

-----------------------------------------------------------------------------
(***************************************************************************)
(* What a step does to the browser.                                        *)
(***************************************************************************)
Browser == AnswersFresh /\ JarReplaced /\ AskedInTime /\ NoSignOut

LEMMA BrowserSame ==
  ASSUME RaceInv, UNCHANGED <<minted, tokens, jar, request>>
  PROVE  Browser'
  BY DEF RaceInv, Browser, AnswersFresh, JarReplaced, AskedInTime, NoSignOut, Unused, Pending

\* A request with a pair that does not exist yet: there was none.
LEMMA BrowserSignIn ==
  ASSUME RaceInv, Punctual, SignIn
  PROVE  Browser'
  <1>1. TypeOK /\ FlowTypeOK /\ minted = 0
    BY DEF RaceInv, FlowInv, IInv, SignIn
  <1>2. \A r \in Request : request[r].pc \notin Asking /\ ~Pending(r)
    <2>1. ~\E p : p \in 1..minted
      BY <1>1
    <2>2. QED
      BY <2>1 DEF RaceInv, AnswersFresh, AskedInTime, Unused
  <1>3. request' = request /\ jar' = 1 /\ minted' = 1 /\ ~tokens'[1].revoked
    BY <1>1, SigningIn DEF SignIn, Fresh
  <1>4. QED
    BY <1>2, <1>3
       DEF RaceInv, Browser, AnswersFresh, JarReplaced, AskedInTime, NoSignOut, Unused, Pending

\* The pair in the jar may just have been rotated: its successor is on its way.
LEMMA BrowserSends ==
  ASSUME RaceInv, Punctual, NEW r \in Request, Sends(r)
  PROVE  Browser'
  <1>1. /\ TypeOK /\ TablesIntact /\ minted \in Nat /\ now \in Nat /\ MaxTrip \in Nat
        /\ FlowTypeOK
    BY Numbers DEF RaceInv, FlowInv, IInv
  <1>2. jar \in 1..minted
    BY <1>1 DEF Sends, FlowTypeOK, NoPair
  <1>3. /\ request'[r].pc = "refresh" /\ request'[r].token = jar /\ request'[r].start = now
        /\ request[r].pc = "idle" /\ Others(r)
        /\ UNCHANGED <<minted, tokens, now, jar>>
    BY DEF Sends, vars
  <1>4. ~Pending(r) /\ ~Pending(r)' /\ request[r].pc \notin Asking
    BY <1>3 DEF Pending, Asking
  <1>5. AnswersFresh'
    BY <1>3, <1>4 DEF RaceInv, AnswersFresh, Unused, Pending, Others
  <1>6. JarReplaced'
    BY <1>3, <1>4 DEF RaceInv, JarReplaced, Pending, Others
  <1>7. tokens[jar].revoked => now - tokens[jar].rotatedAt <= MaxTrip
    <2> SUFFICES ASSUME tokens[jar].revoked PROVE now - tokens[jar].rotatedAt <= MaxTrip
      OBVIOUS
    <2>1. PICK q \in Request : Pending(q) /\ request[q].start <= tokens[jar].rotatedAt
      BY <1>1, <1>2 DEF RaceInv, JarReplaced
    <2>2. now - request[q].start <= MaxTrip /\ request[q].start \in 0..now
      BY <1>1, <2>1, Requests DEF RaceInv, FlowInv, Timely, InFlight, Pending
    <2>3. tokens[jar].rotatedAt \in 0..now
      BY <1>1, <1>2, InRange DEF Intact
    <2>4. QED
      BY <1>1, <2>1, <2>2, <2>3
  <1>8. AskedInTime'
    BY <1>2, <1>3, <1>7 DEF RaceInv, AskedInTime, Trips, Others
  <1>9. NoSignOut'
    BY <1>3 DEF RaceInv, NoSignOut, Others, Asking
  <1>10. QED
    BY <1>5, <1>6, <1>8, <1>9 DEF Browser

\* Reading the clock makes up for the trip to the server.
LEMMA BrowserAdvances ==
  ASSUME RaceInv, Punctual, NEW r \in Request, Advances(r)
  PROVE  Browser'
  <1> DEFINE t == request[r].token
  <1>1. /\ TypeOK /\ TablesIntact /\ now \in Nat /\ MaxTrip \in Nat
        /\ request[r].start \in 0..now /\ t \in 1..minted
    BY Numbers, Asked DEF RaceInv, FlowInv, IInv, Advances
  <1>2. /\ request[r].pc \in Asking /\ request'[r].pc \in Asking \ {"refresh"}
        /\ request'[r].token = t /\ Others(r)
        /\ UNCHANGED <<minted, tokens, now, jar>>
    BY DEF Advances, vars
  <1>3. ~Pending(r) /\ ~Pending(r)'
    BY <1>2 DEF Pending, Asking
  <1>4. AnswersFresh'
    BY <1>2, <1>3 DEF RaceInv, AnswersFresh, Unused, Pending, Others
  <1>5. JarReplaced'
    BY <1>2, <1>3 DEF RaceInv, JarReplaced, Pending, Others
  <1>6. tokens[t].revoked => request'[r].start - tokens[t].rotatedAt <= 2 * MaxTrip
    <2>1. tokens[t].revoked => /\ request[r].start - tokens[t].rotatedAt <= Trips(request[r].pc)
                               /\ tokens[t].rotatedAt \in 0..now
      BY <1>1, <1>2, InRange DEF RaceInv, AskedInTime, Intact
    <2>2. now - request[r].start <= MaxTrip
      BY <1>2 DEF RaceInv, FlowInv, Timely, InFlight, Asking
    <2>3. CASE request[r].pc = "refresh"
      <3>1. request'[r].start = now /\ Trips(request[r].pc) = MaxTrip
        BY <2>3 DEF Advances, Trips
      <3>2. QED
        BY <1>1, <2>1, <2>2, <3>1
    <2>4. CASE request[r].pc # "refresh"
      <3>1. request'[r].start = request[r].start /\ Trips(request[r].pc) = 2 * MaxTrip
        BY <2>4 DEF Advances, Trips
      <3>2. QED
        BY <2>1, <3>1
    <2>5. QED
      BY <2>3, <2>4
  <1>7. AskedInTime'
    BY <1>1, <1>2, <1>6 DEF RaceInv, AskedInTime, Trips, Others, Advances
  <1>8. NoSignOut'
    BY <1>2 DEF RaceInv, NoSignOut, Others
  <1>9. QED
    BY <1>4, <1>5, <1>7, <1>8 DEF Browser

\* The pair minted is nobody's yet; the one presented may be in the jar.
LEMMA BrowserMints ==
  ASSUME RaceInv, Punctual, NEW r \in Request, Mints(r)
  PROVE  Browser'
  <1> DEFINE t == request[r].token
  <1>1. /\ TypeOK /\ TablesIntact /\ now \in Nat /\ MaxTrip \in Nat /\ minted \in Nat
        /\ request[r].start \in 0..now /\ t \in 1..minted /\ FlowTypeOK
    BY Numbers, Asked DEF RaceInv, FlowInv, IInv, Mints
  <1>2. /\ request[r].pc \in Asking /\ Others(r) /\ jar' = jar
        /\ request'[r].pc = "answered" /\ request'[r].pair = Fresh
        /\ request'[r].start = request[r].start
    BY DEF Mints
  <1>3. Adds(t)
    BY Minting
  <1>4. /\ 1..minted' = 1..minted \cup {Fresh} /\ Fresh \notin 1..minted
        /\ jar # Fresh /\ minted' > 0 /\ minted > 0
    BY <1>1, <1>3 DEF Adds, Fresh, FlowTypeOK
  <1>5. ~Pending(r) /\ Pending(r)' /\ request'[r].pc \notin Asking
    BY <1>2 DEF Pending, Asking
  <1>6. AnswersFresh'
    <2>1. ASSUME NEW q \in Request, q # r, Pending(q)
          PROVE  /\ request[q].pair \in 1..minted /\ request[q].pair # t
                 /\ Unused(request[q].pair)
      BY <1>2, <2>1 DEF RaceInv, AnswersFresh, Unused
    <2>2. \A q \in Request : q # r /\ Pending(q) => Unused(request[q].pair)'
      <3> SUFFICES ASSUME NEW q \in Request, q # r, Pending(q) PROVE Unused(request[q].pair)'
        OBVIOUS
      <3> DEFINE p == request[q].pair
      <3>1. request'[q] = request[q] /\ p \in 1..minted /\ p # t /\ Unused(p)
        BY <1>2, <2>1 DEF Others
      <3>2. p \in 1..minted' /\ ~tokens'[p].revoked /\ p # jar'
        BY <1>2, <1>3, <1>4, <3>1 DEF Adds, Unused
      <3>3. \A x \in Request : request'[x].pc \in Asking => request'[x].token # p
        BY <1>2, <1>5, <3>1 DEF Unused, Others
      <3>4. QED
        BY <3>1, <3>2, <3>3 DEF Unused
    <2>3. \A q \in Request : request[q].pc \in Asking => request[q].token # Fresh
      BY <1>4 DEF RaceInv, AskedInTime
    <2>4. \A f \in {Fresh} : Unused(f)'
      BY <1>2, <1>3, <1>4, <1>5, <2>3 DEF Unused, Others, Adds
    <2>5. \A q \in Request : Pending(q)' => q = r \/ (Pending(q) /\ request'[q] = request[q])
      BY <1>2 DEF Pending, Others
    <2>6. \A q \in Request : Pending(q)' => Unused(request[q].pair)'
      BY <1>2, <2>2, <2>4, <2>5
    <2>7. \A x, y \in Request :
            Pending(x)' /\ Pending(y)' /\ request'[x].pair = request'[y].pair => x = y
      BY <1>2, <1>4, <2>1, <2>5 DEF RaceInv, AnswersFresh
    <2>8. QED
      BY <2>6, <2>7 DEF AnswersFresh
  <1>7. JarReplaced'
    <2>1. jar \in 1..minted
      BY <1>4 DEF RaceInv, JarReplaced
    <2>2. CASE tokens[jar].revoked
      <3>1. PICK q \in Request : Pending(q) /\ request[q].start <= tokens[jar].rotatedAt
        BY <1>4, <2>2 DEF RaceInv, JarReplaced
      <3>2. Pending(q)' /\ request'[q].start = request[q].start
        BY <1>2, <1>5, <3>1 DEF Pending, Others
      <3>3. tokens'[jar].rotatedAt = tokens[jar].rotatedAt
        BY <1>3, <2>1, <2>2 DEF Adds
      <3>4. QED
        BY <1>2, <1>4, <2>1, <3>1, <3>2, <3>3 DEF JarReplaced
    <2>3. CASE ~tokens[jar].revoked
      <3>1. tokens'[jar].revoked => jar = t /\ tokens'[jar].rotatedAt = now
        BY <1>3, <2>1, <2>3 DEF Adds
      <3>2. QED
        BY <1>1, <1>2, <1>4, <1>5, <2>1, <3>1 DEF JarReplaced
    <2>4. QED
      BY <2>2, <2>3
  <1>8. AskedInTime'
    <2> SUFFICES ASSUME NEW q \in Request, q # r, request[q].pc \in Asking
                 PROVE  LET p == request[q].token
                        IN  /\ p \in 1..minted'
                            /\ tokens'[p].revoked =>
                                 request[q].start - tokens'[p].rotatedAt <= Trips(request[q].pc)
                            /\ request[q].pc = "converge" => tokens'[p].revoked
      BY <1>2, <1>5 DEF AskedInTime, Others, Trips
    <2> DEFINE p == request[q].token
    <2>1. /\ p \in 1..minted /\ request[q].start \in 0..now
          /\ tokens[p].revoked => request[q].start - tokens[p].rotatedAt <= Trips(request[q].pc)
          /\ request[q].pc = "converge" => tokens[p].revoked
      BY Asked DEF RaceInv, AskedInTime
    <2>2. CASE tokens[p].revoked
      BY <1>3, <1>4, <2>1, <2>2 DEF Adds
    <2>3. CASE ~tokens[p].revoked
      <3>1. tokens'[p].revoked => tokens'[p].rotatedAt = now
        BY <1>3, <2>1, <2>3 DEF Adds
      <3>2. request[q].start - now <= Trips(request[q].pc)
        BY <1>1, <2>1 DEF Trips
      <3>3. QED
        BY <1>4, <2>1, <2>3, <3>1, <3>2
    <2>4. QED
      BY <2>2, <2>3
  <1>9. NoSignOut'
    BY <1>2 DEF RaceInv, NoSignOut, Others
  <1>10. QED
    BY <1>6, <1>7, <1>8, <1>9 DEF Browser

\* What arrives is unused, whatever arrived before it.
LEMMA BrowserArrives ==
  ASSUME RaceInv, NEW r \in Request, Arrives(r)
  PROVE  Browser'
  <1>1. /\ Unused(request[r].pair) /\ Others(r) /\ jar' = request[r].pair
        /\ request'[r].pc = "idle" /\ Pending(r)
        /\ UNCHANGED <<minted, tokens, now>>
    BY DEF RaceInv, AnswersFresh, Arrives, vars
  <1>2. ~Pending(r)' /\ request'[r].pc \notin Asking
    BY <1>1 DEF Pending, Asking
  <1>3. AnswersFresh'
    BY <1>1, <1>2 DEF RaceInv, AnswersFresh, Unused, Pending, Others
  <1>4. JarReplaced'
    BY <1>1 DEF JarReplaced, Unused
  <1>5. AskedInTime'
    BY <1>1, <1>2 DEF RaceInv, AskedInTime, Trips, Others
  <1>6. NoSignOut'
    BY <1>1 DEF RaceInv, NoSignOut, Others
  <1>7. QED
    BY <1>3, <1>4, <1>5, <1>6 DEF Browser

LEMMA RaceStep ==
  ASSUME RaceInv, Punctual, [RefreshNext]_flowVars
  PROVE  RaceInv'
  <1>1. FlowInv'
    BY FlowOn DEF RaceInv, FlowNext
  <1>2. TablesIntact'
    BY TablesStep
  <1>3. Browser'
    <2>1. CASE FlowTick \/ UNCHANGED flowVars
      BY <2>1, BrowserSame DEF FlowTick, Tick, flowVars, vars
    <2>2. QED
      BY <2>1, Courses, BrowserSignIn, BrowserSends, BrowserAdvances, BrowserMints, BrowserArrives
  <1>4. QED
    BY <1>1, <1>2, <1>3 DEF RaceInv, Browser

LEMMA RaceInitially == FlowInit => RaceInv
  <1> SUFFICES ASSUME FlowInit PROVE RaceInv
    OBVIOUS
  <1>1. /\ minted = 0 /\ users = User /\ identities = Identity
        /\ DOMAIN sessions = {} /\ DOMAIN tokens = {}
        /\ \A r \in Request : request[r].pc = "idle"
    BY DEF FlowInit, Init, Idle
  <1>2. 1..0 = {}
    OBVIOUS
  <1>3. TablesIntact
    BY <1>1, <1>2 DEF TablesIntact
  <1>4. AnswersFresh /\ JarReplaced /\ AskedInTime /\ NoSignOut
    BY <1>1 DEF AnswersFresh, JarReplaced, AskedInTime, NoSignOut, Pending, Asking
  <1>5. QED
    BY <1>3, <1>4, FlowInitially DEF RaceInv

\* If the pair in the jar was rotated, its replacement is a trip away at most.
LEMMA RaceKeeps ==
  ASSUME RaceInv, Punctual
  PROVE  KeepsSession
  <1> SUFFICES ASSUME minted > 0
               PROVE  jar # NoPair /\ (CanRotate(jar) \/ CanConverge(jar))
    BY DEF KeepsSession
  <1>1. /\ TypeOK /\ TablesIntact /\ FlowTypeOK /\ jar \in 1..minted
    BY DEF RaceInv, FlowInv, IInv, JarReplaced
  <1>2. tokens[jar].revoked => now - tokens[jar].rotatedAt <= Grace
    <2> SUFFICES ASSUME tokens[jar].revoked PROVE now - tokens[jar].rotatedAt <= Grace
      OBVIOUS
    <2>1. PICK r \in Request : Pending(r) /\ request[r].start <= tokens[jar].rotatedAt
      BY DEF RaceInv, JarReplaced
    <2>2. now - request[r].start <= MaxTrip /\ request[r].start \in 0..now
      BY <1>1, <2>1, Requests DEF RaceInv, FlowInv, Timely, InFlight, Pending
    <2>3. tokens[jar].rotatedAt \in 0..now
      BY <1>1, InRange DEF Intact
    <2>4. QED
      BY <1>1, <2>1, <2>2, <2>3, Numbers
  <1>3. jar # NoPair
    BY <1>1 DEF NoPair
  <1>4. QED
    BY <1>1, <1>2, <1>3, Usable

(***************************************************************************)
(* Parallel requests, each overwriting the cookies with what it got, never *)
(* cost an honest browser its session: for any number of them, whenever    *)
(* the grace window lasts three legs of a trip, and neither the lifetimes  *)
(* nor the quotas are reached (ssr-contract.md, "Refresh races").          *)
(***************************************************************************)
THEOREM RacesKeepSession ==
  ASSUME Punctual
  PROVE  RefreshSpec => []KeepsSession
  <1>1. RaceInv /\ [RefreshNext]_flowVars => RaceInv'
    BY RaceStep
  <1>2. RaceInv => KeepsSession
    BY RaceKeeps
  <1>3. QED
    BY <1>1, <1>2, RaceInitially, PTL DEF RefreshSpec

=============================================================================
