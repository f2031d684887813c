------------------------- MODULE RefreshFlowProofs -------------------------
(***************************************************************************)
(* Proofs about RefreshFlow, for every number of overlapping requests and  *)
(* every length of a trip: a flow is a behaviour of the session tables,    *)
(* and a lineage that was ended stays dead whatever the requests had read. *)
(***************************************************************************)
EXTENDS RefreshFlow, SessionFamilyProofs

-----------------------------------------------------------------------------
(***************************************************************************)
(* A request whose mutation is next read its clock a trip ago at most: the *)
(* expiry it brings along is one that SessionFamily allows for.            *)
(***************************************************************************)
Timely == \A r \in InFlight : now - request[r].start <= MaxTrip

\* The session list, and the request, start from ids that have been drawn.
FlowInv == IInv /\ FlowTypeOK /\ Timely

LEMMA Times == MaxTrip \in Nat /\ MaxLag \in Nat /\ MaxTrip <= MaxLag
  BY FlowAssumption, BoundAssumption

LEMMA InTime ==
  ASSUME FlowInv, NEW r \in Request, request[r].pc # "idle"
  PROVE  request[r].start \in StartTimes
  <1>1. r \in InFlight /\ request[r].start \in 0..now /\ now \in Nat
    BY DEF InFlight, FlowInv, FlowTypeOK, IInv, TypeOK
  <1>2. now - request[r].start <= MaxTrip
    BY <1>1 DEF FlowInv, Timely
  <1>3. QED
    BY <1>1, <1>2, Times DEF StartTimes

LEMMA PresentedId ==
  ASSUME TypeOK, NEW t, Presentable(t)
  PROVE  t \in Id
  BY BoundAssumption DEF TypeOK, Presentable, Id

(***************************************************************************)
(* What a step of the flow does to the tables: it signs in, refreshes,     *)
(* revokes for a replay, ends the lineage on purpose, or leaves them.      *)
(***************************************************************************)
EndStep ==
  /\ ended' = TRUE
  /\ \/ \E s \in DOMAIN sessions : revokeSessionFamilyBySession(s)
     \/ \E s \in DOMAIN sessions :
          LET u == sessions[s].user
          IN  revokeAllSessionsForUser(u) \/ resetPassword(u) \/ deleteUser(u)

QuietStep ==
  /\ ended' = ended
  /\ \/ \E t \in Id : Refresh(t) \/ replayAfterGrace(t)
     \/ \E i \in Identity : linkAnonymousUser(i)
     \/ FlowTick
     \/ UNCHANGED vars

LEMMA RefreshQuiet ==
  ASSUME FlowInv, NEW r \in Request, ReadToken(r) \/ ReadSession(r) \/ ReadUser(r)
                                      \/ Rotate(r) \/ Converge(r)
  PROVE  QuietStep
  <1> DEFINE t == request[r].token
  <1>1. CASE Rotate(r) \/ Converge(r)
    <2>1. request[r].start \in StartTimes
      BY <1>1, InTime DEF Rotate, Converge
    <2>2. TypeOK
      BY DEF FlowInv, IInv
    <2>3. CASE rotateSession(t, request[r].start) /\ UNCHANGED ended
      BY <2>1, <2>2, <2>3, PresentedId DEF QuietStep, Refresh, rotateSession, CanRotate
    <2>4. CASE convergeSession(t, request[r].start) /\ UNCHANGED ended
      BY <2>1, <2>2, <2>4, PresentedId
         DEF QuietStep, Refresh, convergeSession, CanConverge, MayConverge
    <2>5. CASE replayAfterGrace(t) /\ UNCHANGED ended
      BY <2>2, <2>5, PresentedId DEF QuietStep, replayAfterGrace, IsReplay
    <2>6. CASE UNCHANGED <<vars, ended>>
      BY <2>6 DEF QuietStep
    <2>7. QED
      BY <1>1, <2>3, <2>4, <2>5, <2>6 DEF Rotate, Converge, ReplayDetected
  <1>2. CASE ReadToken(r) \/ ReadSession(r) \/ ReadUser(r)
    BY <1>2 DEF ReadToken, ReadSession, ReadUser, Refuse, QuietStep
  <1>3. QED
    BY <1>1, <1>2

LEMMA FlowKinds ==
  ASSUME FlowInv, [FlowNext]_flowVars
  PROVE  SignIn \/ EndStep \/ QuietStep
  <1>1. CASE RefreshNext
    <2>1. CASE \E r \in Request : SendRefresh(r) \/ Lose(r) \/ Fail(r)
      BY <2>1 DEF SendRefresh, Send, Lose, Fail, QuietStep
    <2>2. CASE \E r \in Request : Deliver(r) \/ DeliverSignOut(r)
      BY <2>2 DEF Deliver, DeliverSignOut, QuietStep
    <2>3. CASE \E r \in Request : SignOut(r)
      BY <2>3 DEF SignOut, QuietStep, EndStep, Unexpired
    <2>4. CASE FlowTick
      BY <2>4 DEF FlowTick, QuietStep
    <2>5. CASE \E r \in Request : \/ ReadToken(r) \/ ReadSession(r) \/ ReadUser(r)
                                  \/ Rotate(r) \/ Converge(r)
      BY <2>5, RefreshQuiet
    <2>6. QED
      BY <1>1, <2>1, <2>2, <2>3, <2>4, <2>5 DEF RefreshNext, Progress, Arrive, Return
  <1>2. CASE EndNext
    BY <1>2 DEF EndNext, SendSignOut, Send, EndElsewhere, LinkElsewhere, EndStep, QuietStep
  <1>3. CASE ListNext
    BY <1>3 DEF ListNext, listSessions, ResolveCaller, LookUpTarget, RevokeTarget,
       revokeSessionFamilyBySession, EndStep, QuietStep
  <1>4. CASE UNCHANGED flowVars
    BY <1>4 DEF flowVars, QuietStep
  <1>5. QED
    BY <1>1, <1>2, <1>3, <1>4 DEF FlowNext

\* Whoever owns a row of the lineage is a user.
LEMMA FlowIsNext ==
  ASSUME FlowInv, [FlowNext]_flowVars
  PROVE  [Next]_vars
  <1>1. TypeOK
    BY DEF FlowInv, IInv
  <1>2. \A s \in DOMAIN sessions : s \in Id /\ sessions[s].user \in User
    BY <1>1, BoundAssumption DEF TypeOK, Id, SessionRow
  <1>3. CASE EndStep
    BY <1>2, <1>3 DEF EndStep, Next, ProviderNext
  <1>4. CASE QuietStep
    BY <1>4 DEF QuietStep, FlowTick, Next, ProviderNext
  <1>5. CASE SignIn
    BY <1>5 DEF SignIn, Next, ProviderNext
  <1>6. QED
    BY <1>3, <1>4, <1>5, FlowKinds
-----------------------------------------------------------------------------
(***************************************************************************)
(* The types.  A request is written by steps of three kinds: it is sent,   *)
(* it goes on with what it has, or it is answered.                         *)
(***************************************************************************)
Pc == {"idle", "refresh", "session", "user", "rotate", "converge", "answered",
       "signOut", "signedOut"}
RequestRow == [pc : Pc, token : 0..minted, start : 0..now, pair : 0..minted]
ViewerRow ==
  [pc : {"none", "shown", "resolved", "failed", "found", "success"}, target : 0..minted]

\* Ids drawn and times gone by stay so.
LEMMA Grows ==
  ASSUME FlowInv, [FlowNext]_flowVars
  PROVE  /\ 0..minted \subseteq 0..minted' /\ 0..now \subseteq 0..now'
         /\ now \in Nat /\ now' \in Nat /\ minted \in Nat /\ minted' \in Nat
         /\ now' = now \/ FlowTick
         /\ Fresh \in DOMAIN sessions' => Fresh \in 0..minted'
  <1>1. TypeOK /\ [Next]_vars /\ TypeOK'
    BY FlowIsNext, TypeStep DEF FlowInv, IInv
  <1>2. /\ 1..minted \subseteq 1..minted' /\ minted \in Nat /\ minted' \in Nat
        /\ now \in Nat /\ now' \in Nat
        /\ Fresh \in DOMAIN sessions' => Fresh \in 1..minted'
    BY <1>1, MintedGrows DEF TypeOK
  <1>3. minted <= minted'
    BY <1>2
  <1>4. now' = now \/ FlowTick
    <2>1. CASE EndStep
      BY <2>1 DEF EndStep, revokeSessionFamilyBySession, revokeSessionFamily, RevokeRows,
         revokeAllSessionsForUser, resetPassword, deleteUser
    <2>2. CASE QuietStep
      BY <2>2 DEF QuietStep, Refresh, rotateSession, convergeSession, replayAfterGrace,
         revokeSessionFamily, RevokeRows, linkAnonymousUser, vars
    <2>3. CASE SignIn
      BY <2>3 DEF SignIn, createSessionAndRefreshToken
    <2>4. QED
      BY <2>1, <2>2, <2>3, FlowKinds
  <1>5. FlowTick => now' = now + 1
    BY DEF FlowTick, Tick
  <1>6. QED
    BY <1>2, <1>3, <1>4, <1>5

(***************************************************************************)
(* A request starts when it is sent and when its action reads the clock;   *)
(* any other step leaves its start alone.                                  *)
(***************************************************************************)
RequestStep ==
  /\ request' \in [Request -> RequestRow']
  /\ \A r \in Request : request'[r].pc # "idle" =>
       \/ request'[r].start = now
       \/ request[r].pc # "idle" /\ request'[r].start = request[r].start

LEMMA Requests ==
  ASSUME FlowTypeOK
  PROVE  /\ request \in [Request -> RequestRow]
         /\ \A r \in Request : /\ request[r].pc \in Pc /\ request[r].token \in 0..minted
                               /\ request[r].start \in 0..now /\ request[r].pair \in 0..minted
  BY DEF FlowTypeOK, RequestRow, Pc

LEMMA SameRequests ==
  ASSUME FlowInv, [FlowNext]_flowVars, request' = request
  PROVE  RequestStep
  <1>1. \A r \in Request : request[r] \in RequestRow'
    BY Requests, Grows DEF FlowInv, RequestRow
  <1>2. QED
    BY <1>1, Requests DEF RequestStep, FlowInv

LEMMA OneRequest ==
  ASSUME FlowInv, [FlowNext]_flowVars, NEW r \in Request, NEW row \in RequestRow',
         request' = [request EXCEPT ![r] = row],
         row.pc # "idle" =>
           row.start = now \/ (request[r].pc # "idle" /\ row.start = request[r].start)
  PROVE  RequestStep
  <1>1. \A q \in Request : request[q] \in RequestRow'
    BY Requests, Grows DEF FlowInv, RequestRow
  <1>2. QED
    BY <1>1, Requests DEF RequestStep, FlowInv

\* A row that goes on, is answered, or is sent again.
LEMMA RowWritten ==
  ASSUME NEW M, NEW N, NEW q \in [pc : Pc, token : M, start : N, pair : M], NEW pc \in Pc
  PROVE  /\ [q EXCEPT !.pc = pc] \in [pc : Pc, token : M, start : N, pair : M]
         /\ [q EXCEPT !.pc = pc].start = q.start
         /\ \A pair \in M :
              /\ [q EXCEPT !.pc = pc, !.pair = pair] \in [pc : Pc, token : M, start : N, pair : M]
              /\ [q EXCEPT !.pc = pc, !.pair = pair].start = q.start
         /\ \A start \in N :
              /\ [q EXCEPT !.pc = pc, !.start = start]
                    \in [pc : Pc, token : M, start : N, pair : M]
              /\ [q EXCEPT !.pc = pc, !.start = start].start = start
         /\ \A token \in M, start \in N :
              /\ [q EXCEPT !.pc = pc, !.token = token, !.start = start]
                    \in [pc : Pc, token : M, start : N, pair : M]
              /\ [q EXCEPT !.pc = pc, !.token = token, !.start = start].start = start
  OBVIOUS

LEMMA OldRow ==
  ASSUME FlowInv, [FlowNext]_flowVars, NEW r \in Request
  PROVE  request[r] \in RequestRow' /\ request[r].start \in 0..now'
  BY Requests, Grows DEF FlowInv, RequestRow

LEMMA Going ==
  ASSUME FlowInv, [FlowNext]_flowVars, NEW r \in Request, request[r].pc # "idle",
         NEW pc \in Pc, request' = [request EXCEPT ![r].pc = pc]
  PROVE  RequestStep
  <1> DEFINE row == [request[r] EXCEPT !.pc = pc]
  <1>1. request' = [request EXCEPT ![r] = row]
    OBVIOUS
  <1>2. request[r] \in RequestRow'
    BY OldRow
  <1>3. row.start = request[r].start /\ row \in RequestRow'
    BY <1>2, RowWritten DEF RequestRow
  <1> HIDE DEF row
  <1>4. QED
    BY <1>1, <1>3, OneRequest

LEMMA Answering ==
  ASSUME FlowInv, [FlowNext]_flowVars, NEW r \in Request, request[r].pc # "idle",
         NEW pair \in 0..minted', Answer(r, pair)
  PROVE  RequestStep
  <1> DEFINE row == [request[r] EXCEPT !.pc = "answered", !.pair = pair]
  <1>1. request' = [request EXCEPT ![r] = row]
    BY DEF Answer
  <1>2. request[r] \in RequestRow' /\ "answered" \in Pc
    BY OldRow DEF Pc
  <1>3. row.start = request[r].start /\ row \in RequestRow'
    BY <1>2, RowWritten DEF RequestRow
  <1> HIDE DEF row
  <1>4. QED
    BY <1>1, <1>3, OneRequest

LEMMA Starting ==
  ASSUME FlowInv, [FlowNext]_flowVars, NEW r \in Request, request[r].pc # "idle",
         request' = [request EXCEPT ![r].pc = "session", ![r].start = now]
  PROVE  RequestStep
  <1> DEFINE row == [request[r] EXCEPT !.pc = "session", !.start = now]
  <1>1. request' = [request EXCEPT ![r] = row]
    OBVIOUS
  <1>2. now \in 0..now' /\ request[r] \in RequestRow' /\ "session" \in Pc
    BY Grows, OldRow DEF Pc
  <1>3. row.start = now /\ row \in RequestRow'
    BY <1>2, RowWritten DEF RequestRow
  <1> HIDE DEF row
  <1>4. QED
    BY <1>1, <1>3, OneRequest

LEMMA Sending ==
  ASSUME FlowInv, [FlowNext]_flowVars, NEW r \in Request, NEW pc \in Pc, Send(r, pc)
  PROVE  RequestStep
  <1> DEFINE row == [Idle EXCEPT !.pc = pc, !.token = jar, !.start = now]
  <1>1. request' = [request EXCEPT ![r] = row]
    BY DEF Send
  <1>2. now \in 0..now' /\ jar \in 0..minted' /\ Idle \in RequestRow'
    BY Grows DEF FlowInv, FlowTypeOK, Idle, RequestRow, Pc, NoPair
  <1>3. row.start = now /\ row \in RequestRow'
    BY <1>2, RowWritten DEF RequestRow
  <1> HIDE DEF row
  <1>4. QED
    BY <1>1, <1>3, OneRequest

LEMMA Ending ==
  ASSUME FlowInv, [FlowNext]_flowVars, NEW r \in Request,
         request' = [request EXCEPT ![r] = Idle]
  PROVE  RequestStep
  <1>1. Idle \in RequestRow' /\ Idle.pc = "idle"
    BY Grows DEF Idle, RequestRow, Pc, NoPair
  <1>2. QED
    BY <1>1, OneRequest

LEMMA Drawn ==
  ASSUME FlowInv, [FlowNext]_flowVars
  PROVE  /\ NoPair \in 0..minted'
         /\ \A t, start : rotateSession(t, start) \/ convergeSession(t, start) =>
              Fresh \in 0..minted'
         /\ createSessionAndRefreshToken => Fresh \in 0..minted'
  <1>1. minted' = Fresh => Fresh \in 0..minted'
    BY Grows DEF Fresh
  <1>2. NoPair \in 0..minted'
    BY Grows DEF NoPair
  <1>3. QED
    BY <1>1, <1>2 DEF rotateSession, convergeSession, createSessionAndRefreshToken, OpenFamily

LEMMA ActionSteps ==
  ASSUME FlowInv, [FlowNext]_flowVars, NEW r \in Request,
         \/ ReadToken(r) \/ ReadSession(r) \/ ReadUser(r) \/ Rotate(r) \/ Converge(r)
         \/ SignOut(r)
  PROVE  RequestStep /\ jar' = jar /\ viewer' = viewer
  <1>1. ASSUME Refuse(r), request[r].pc # "idle"
        PROVE  RequestStep /\ jar' = jar /\ viewer' = viewer
    BY <1>1, Drawn, Answering DEF Refuse, Answer
  <1>2. CASE ReadToken(r)
    BY <1>1, <1>2, Starting DEF ReadToken, vars
  <1>3. CASE ReadSession(r)
    BY <1>1, <1>3, Going DEF ReadSession, Goto, Pc
  <1>4. CASE ReadUser(r)
    BY <1>1, <1>4, Going DEF ReadUser, Goto, Pc
  <1>5. CASE Rotate(r)
    <2>1. request[r].pc # "idle"
      BY <1>5 DEF Rotate
    <2>2. CASE Goto(r, "converge")
      BY <2>1, <2>2, Going DEF Goto, Pc
    <2>3. CASE Answer(r, NoPair)
      BY <2>1, <2>3, Drawn, Answering DEF Answer
    <2>4. CASE Answer(r, Fresh) /\ rotateSession(request[r].token, request[r].start)
      BY <2>1, <2>4, Drawn, Answering DEF Answer
    <2>5. QED
      BY <1>5, <2>2, <2>3, <2>4 DEF Rotate, ReplayDetected
  <1>6. CASE Converge(r)
    <2>1. request[r].pc # "idle"
      BY <1>6 DEF Converge
    <2>2. CASE Answer(r, NoPair)
      BY <2>1, <2>2, Drawn, Answering DEF Answer
    <2>3. CASE Answer(r, Fresh) /\ convergeSession(request[r].token, request[r].start)
      BY <2>1, <2>3, Drawn, Answering DEF Answer
    <2>4. QED
      BY <1>6, <2>2, <2>3 DEF Converge, ReplayDetected
  <1>7. CASE SignOut(r)
    <2>1. request' = [request EXCEPT ![r].pc = "signedOut"] /\ jar' = jar /\ viewer' = viewer
      BY <1>7 DEF SignOut, Goto
    <2>2. QED
      BY <1>7, <2>1, Going DEF SignOut, Pc
  <1>8. QED
    BY <1>2, <1>3, <1>4, <1>5, <1>6, <1>7
(***************************************************************************)
(* What a step does to the browser: the request, the jar and the list of   *)
(* sessions stay typed, and only the end of a lineage sets "ended".        *)
(***************************************************************************)
BrowserOK == jar' \in 0..minted' /\ viewer' \in ViewerRow'

LEMMA Viewing ==
  ASSUME FlowInv, [FlowNext]_flowVars, ListNext
  PROVE  RequestStep /\ BrowserOK
  <1>1. request' = request /\ jar' = jar
    BY DEF ListNext, listSessions, ResolveCaller, LookUpTarget, RevokeTarget, View
  <1>2. jar' \in 0..minted' /\ viewer.target \in 0..minted'
    BY <1>1, Grows DEF FlowInv, FlowTypeOK
  <1>3. \A s \in DOMAIN sessions : s \in 0..minted'
    BY Grows DEF FlowInv, IInv, TypeOK
  <1>4. viewer' \in ViewerRow'
    BY <1>2, <1>3 DEF ListNext, listSessions, ResolveCaller, LookUpTarget, RevokeTarget, View,
       ViewerRow
  <1>5. QED
    BY <1>1, <1>2, <1>4, SameRequests DEF BrowserOK

LEMMA BrowserSteps ==
  ASSUME FlowInv, [FlowNext]_flowVars
  PROVE  RequestStep /\ BrowserOK
  <1>1. jar \in 0..minted' /\ viewer \in ViewerRow'
    BY Grows DEF FlowInv, FlowTypeOK, ViewerRow
  <1>2. CASE SignIn \/ FlowTick \/ EndElsewhere \/ LinkElsewhere \/ UNCHANGED flowVars
    <2>1. request' = request /\ viewer' = viewer
      BY <1>2 DEF SignIn, FlowTick, EndElsewhere, LinkElsewhere, flowVars
    <2>2. jar' = jar \/ (createSessionAndRefreshToken /\ jar' = Fresh)
      BY <1>2 DEF SignIn, FlowTick, EndElsewhere, LinkElsewhere, flowVars
    <2>3. QED
      BY <1>1, <2>1, <2>2, Drawn, SameRequests DEF BrowserOK
  <1>3. CASE \E r \in Request : SendRefresh(r) \/ SendSignOut(r)
    <2>1. PICK r \in Request : Send(r, "refresh") \/ Send(r, "signOut")
      BY <1>3 DEF SendRefresh, SendSignOut
    <2>2. jar' = jar /\ viewer' = viewer
      BY <2>1 DEF Send
    <2>3. QED
      BY <1>1, <2>1, <2>2, Sending DEF BrowserOK, Pc
  <1>4. CASE \E r \in Request : Deliver(r) \/ DeliverSignOut(r) \/ Lose(r) \/ Fail(r)
    <2>1. PICK r \in Request : Deliver(r) \/ DeliverSignOut(r) \/ Lose(r) \/ Fail(r)
      BY <1>4
    <2>2. request[r].pair \in 0..minted'
      BY Requests, Grows DEF FlowInv
    <2>3. jar' \in {jar, NoPair, request[r].pair} /\ viewer' = viewer
      BY <2>1 DEF Deliver, DeliverSignOut, Lose, Fail
    <2>4. request' = [request EXCEPT ![r] = Idle]
      BY <2>1 DEF Deliver, DeliverSignOut, Lose, Fail
    <2>5. QED
      BY <1>1, <2>2, <2>3, <2>4, Drawn, Ending DEF BrowserOK
  <1>5. CASE \E r \in Request : \/ ReadToken(r) \/ ReadSession(r) \/ ReadUser(r)
                                \/ Rotate(r) \/ Converge(r) \/ SignOut(r)
    BY <1>1, <1>5, ActionSteps DEF BrowserOK
  <1>6. QED
    BY <1>2, <1>3, <1>4, <1>5, Viewing
       DEF FlowNext, RefreshNext, EndNext, Progress, Arrive, Return

LEMMA FlowTyped ==
  ASSUME FlowInv, [FlowNext]_flowVars
  PROVE  FlowTypeOK'
  <1>1. ended' \in BOOLEAN
    BY FlowKinds DEF SignIn, EndStep, QuietStep, FlowInv, FlowTypeOK
  <1>2. QED
    BY <1>1, BrowserSteps DEF RequestStep, BrowserOK, RequestRow, ViewerRow, Pc, FlowTypeOK

LEMMA StillTimely ==
  ASSUME FlowInv, [FlowNext]_flowVars
  PROVE  Timely'
  <1> SUFFICES ASSUME NEW r \in Request, request'[r].pc # "idle"
               PROVE  now' - request'[r].start <= MaxTrip
    BY DEF Timely, InFlight
  <1>1. now \in Nat /\ MaxTrip \in Nat /\ request[r].start \in 0..now
    BY Grows, Requests, Times DEF FlowInv
  <1>2. CASE FlowTick
    <2>1. request' = request /\ now' = now + 1 /\ r \in InFlight
      BY <1>2 DEF FlowTick, Tick, InFlight
    <2>2. now - request[r].start < MaxTrip
      BY <1>2, <2>1 DEF FlowTick
    <2>3. QED
      BY <1>1, <2>1, <2>2
  <1>3. CASE now' = now
    <2>1. CASE request'[r].start = now
      BY <1>1, <1>3, <2>1, Times
    <2>2. CASE request[r].pc # "idle" /\ request'[r].start = request[r].start
      BY <1>3, <2>2 DEF FlowInv, Timely, InFlight
    <2>3. QED
      BY <2>1, <2>2, BrowserSteps DEF RequestStep
  <1>4. QED
    BY <1>2, <1>3, Grows

LEMMA FlowInitially == FlowInit => FlowInv
  <1> SUFFICES ASSUME FlowInit PROVE FlowInv
    OBVIOUS
  <1>1. IInv
    BY IInvInit DEF FlowInit
  <1>2. now = 0 /\ minted = 0
    BY DEF FlowInit, Init
  <1>3. FlowTypeOK
    <2>1. Idle \in RequestRow
      BY <1>2 DEF Idle, RequestRow, Pc, NoPair
    <2>2. request \in [Request -> RequestRow]
      BY <2>1 DEF FlowInit
    <2>3. jar = 0 /\ viewer = [pc |-> "none", target |-> 0] /\ ended = FALSE
      BY DEF FlowInit, NoPair
    <2>4. jar \in 0..minted /\ viewer \in ViewerRow
      BY <1>2, <2>3 DEF ViewerRow
    <2>5. QED
      BY <2>2, <2>3, <2>4 DEF FlowTypeOK, RequestRow, ViewerRow, Pc
  <1>4. Timely
    BY DEF FlowInit, Timely, InFlight, Idle
  <1>5. QED
    BY <1>1, <1>3, <1>4 DEF FlowInv

LEMMA FlowOn == FlowInv /\ [FlowNext]_flowVars => FlowInv'
  <1> SUFFICES ASSUME FlowInv, [FlowNext]_flowVars PROVE FlowInv'
    OBVIOUS
  <1>1. IInv'
    BY FlowIsNext, IInvStep DEF FlowInv
  <1>2. QED
    BY <1>1, FlowTyped, StillTimely DEF FlowInv

LEMMA FlowAlways == FlowSpec => []FlowInv
  BY FlowInitially, FlowOn, PTL DEF FlowSpec

(***************************************************************************)
(* Requests, the jar and the list of sessions name drawn ids and times     *)
(* gone by, whatever overtakes what (handleUpdateSession, SSR boundary).   *)
(***************************************************************************)
THEOREM FlowTypesKept == FlowSpec => []FlowTypeOK
  <1>1. FlowInv => FlowTypeOK
    BY DEF FlowInv
  <1>2. QED
    BY <1>1, FlowAlways, PTL

(***************************************************************************)
(* The flow uses the tables only through their mutations, and brings an    *)
(* expiry its action computed MaxLag ago at most: it implements            *)
(* SessionFamily, so that every theorem about that holds of it.            *)
(***************************************************************************)
THEOREM FlowUsesTables == FlowSpec => Spec
  <1>1. FlowInit => Init
    BY DEF FlowInit
  <1>2. FlowInv /\ [FlowNext]_flowVars => [Next]_vars
    BY FlowIsNext
  <1>3. QED
    BY <1>1, <1>2, FlowAlways, PTL DEF FlowSpec, Spec
-----------------------------------------------------------------------------
(***************************************************************************)
(* The end of a lineage.  A behaviour of the flow has one: the first       *)
(* sign-in opens family 1, and every other row descends from it.           *)
(***************************************************************************)
OneLineage ==
  /\ \A s \in DOMAIN sessions : sessions[s].family = 1
  /\ \A t \in DOMAIN tokens : tokens[t].family = 1

EndInv == OneLineage /\ (ended => minted > 0) /\ EndedForGood

LEMMA LineageStep ==
  ASSUME FlowInv, OneLineage, [FlowNext]_flowVars
  PROVE  OneLineage'
  <1>1. TypeOK /\ [Next]_vars
    BY FlowIsNext DEF FlowInv, IInv
  <1>2. /\ \A s \in DOMAIN sessions' : s # Fresh => sessions'[s].family = 1
        /\ \A t \in DOMAIN tokens' : t # Fresh => tokens'[t].family = 1
    BY <1>1, OldSessions, OldTokens DEF OldSession, OldToken, OneLineage
  <1>3. ASSUME Fresh \in DOMAIN sessions' \/ Fresh \in DOMAIN tokens'
        PROVE  /\ Fresh \in DOMAIN sessions' => sessions'[Fresh].family = 1
               /\ Fresh \in DOMAIN tokens' => tokens'[Fresh].family = 1
    <2>1. CASE SignIn
      <3>1. OpensFresh /\ Fresh = 1
        BY <1>1, <2>1, SignInIsOpenStep, OpenOpens DEF SignIn, Fresh
      <3>2. QED
        BY <3>1, NewTokenFields DEF OpensFresh
    <2>2. CASE \E t \in Id : Refresh(t)
      <3>1. PICK t \in DOMAIN tokens : JoinsBy(t)
        BY <1>1, <1>3, <2>2, RefreshFacts, RefreshJoins DEF RefreshStep
      <3>2. QED
        BY <3>1, NewTokenFields DEF JoinsBy, OneLineage
    <2>3. CASE RevokeStep \/ DeleteStep \/ Tick \/ UNCHANGED vars
      <3>1. CASE RevokeStep
        BY <1>1, <3>1, <1>3, FreshIsNew, RevokedSessions, RevokedTokens DEF RevokeStep, RevokeRows
      <3>2. CASE DeleteStep \/ Tick \/ UNCHANGED vars
        BY <1>1, <1>3, <3>2, FreshIsNew DEF DeleteStep, Without, Tick, vars
      <3>3. QED
        BY <2>3, <3>1, <3>2
    <2>4. CASE EndStep
      <3>1. \A s \in DOMAIN sessions : s \in Id /\ sessions[s].user \in User
        BY <1>1, BoundAssumption DEF TypeOK, Id, SessionRow
      <3>2. RevokeStep \/ DeleteStep
        BY <1>1, <2>4, <3>1, RevocationIsRevokeStep, DeletionIsDeleteStep DEF EndStep
      <3>3. QED
        BY <2>3, <3>2
    <2>5. CASE QuietStep
      BY <1>1, <2>2, <2>3, <2>5, RevocationIsRevokeStep, DeletionIsDeleteStep
         DEF QuietStep, FlowTick
    <2>6. QED
      BY <2>1, <2>4, <2>5, FlowKinds
  <1>4. QED
    BY <1>2, <1>3 DEF OneLineage

LEMMA DeadMeansNone ==
  ASSUME OneLineage
  PROVE  AllDead <=> LiveIn(1) = {}
  BY DEF OneLineage, AllDead, Live, LiveIn, SessionsInFamily

\* Whatever ends the lineage reaches every session of it.
LEMMA EndingKills ==
  ASSUME FlowInv, OneLineage, EndStep
  PROVE  minted > 0 /\ LiveIn(1)' = {}
  <1>1. TypeOK /\ FamilyUniform
    BY DEF FlowInv, IInv
  <1>2. PICK s \in DOMAIN sessions :
          LET u == sessions[s].user
          IN  \/ revokeSessionFamilyBySession(s)
              \/ revokeAllSessionsForUser(u) \/ resetPassword(u) \/ deleteUser(u)
    BY DEF EndStep
  <1> DEFINE u == sessions[s].user
  <1>3. SessionsInFamily(sessions[s].family) = DOMAIN sessions /\ SessionsOf(u) = DOMAIN sessions
    BY <1>1 DEF OneLineage, SessionsInFamily, SessionsOf, FamilyUniform, Provenance
  <1>4. minted > 0
    BY <1>1 DEF TypeOK
  <1>5. now' = now
    BY <1>2 DEF revokeSessionFamilyBySession, revokeSessionFamily, RevokeRows,
       revokeAllSessionsForUser, resetPassword, deleteUser
  <1>6. CASE revokeSessionFamilyBySession(s) \/ revokeAllSessionsForUser(u)
    <2>1. sessions' = Revoked(sessions, DOMAIN sessions)
      BY <1>3, <1>6 DEF revokeSessionFamilyBySession, revokeSessionFamily, RevokeRows,
         revokeAllSessionsForUser
    <2>2. \A x \in DOMAIN sessions' : sessions'[x].revoked
      BY <1>1, <2>1, RevokedSessions
    <2>3. QED
      BY <1>4, <2>2 DEF LiveIn, SessionsInFamily
  <1>7. CASE resetPassword(u)
    <2>1. sessions' = Revoked(sessions, {x \in DOMAIN sessions : sessions[x].expiresAt > now})
      BY <1>3, <1>7 DEF resetPassword, RevokeRows
    <2>2. \A x \in DOMAIN sessions' :
            sessions'[x].expiresAt > now' => sessions'[x].revoked
      BY <1>1, <1>5, <2>1, RevokedSessions
    <2>3. QED
      BY <1>4, <2>2 DEF LiveIn, SessionsInFamily
  <1>8. CASE deleteUser(u)
    BY <1>3, <1>4, <1>8 DEF deleteUser, Without, LiveIn, SessionsInFamily
  <1>9. QED
    BY <1>2, <1>6, <1>7, <1>8

LEMMA EndStays == FlowInv /\ EndInv /\ [FlowNext]_flowVars => EndInv'
  <1> SUFFICES ASSUME FlowInv, EndInv, [FlowNext]_flowVars PROVE EndInv'
    OBVIOUS
  <1>1. OneLineage /\ OneLineage'
    BY LineageStep DEF EndInv
  <1>2. minted \in Nat /\ minted' \in Nat /\ (minted > 0 => minted' > 0)
    <2>1. 0..minted \subseteq 0..minted' /\ minted \in Nat /\ minted' \in Nat
      BY Grows
    <2>2. QED
      BY <2>1
  <1>3. CASE ended
    <2>1. minted > 0 /\ LiveIn(1) = {}
      BY <1>1, <1>3, DeadMeansNone DEF EndInv, EndedForGood
    <2>2. LiveIn(1)' = {}
      BY <1>2, <2>1, FlowIsNext, DeadStep DEF FlowInv, IInv
    <2>3. AllDead'
      BY <1>1, <2>2 DEF OneLineage, AllDead, Live, LiveIn, SessionsInFamily
    <2>4. QED
      BY <1>1, <1>2, <2>1, <2>3 DEF EndInv, EndedForGood
  <1>4. CASE ~ended
    <2>1. CASE EndStep
      <3>1. minted > 0 /\ LiveIn(1)' = {}
        BY <1>1, <2>1, EndingKills
      <3>2. AllDead'
        BY <1>1, <3>1 DEF OneLineage, AllDead, Live, LiveIn, SessionsInFamily
      <3>3. QED
        BY <1>1, <1>2, <3>1, <3>2 DEF EndInv, EndedForGood
    <2>2. CASE ~ended'
      BY <1>1, <2>2 DEF EndInv, EndedForGood
    <2>3. QED
      BY <1>4, <2>1, <2>2, FlowKinds DEF SignIn, QuietStep
  <1>5. QED
    BY <1>3, <1>4 DEF FlowInv, FlowTypeOK

(***************************************************************************)
(* Once a sign-out, a revocation, a reset or a deletion has committed, no  *)
(* refresh under way, wherever it stands in handleUpdateSession, brings a  *)
(* session of the lineage back to life.                                    *)
(***************************************************************************)
THEOREM EndedIsFinal == FlowSpec => []EndedForGood
  <1>1. FlowInit => EndInv
    BY DEF FlowInit, Init, EndInv, OneLineage, EndedForGood
  <1>2. EndInv => EndedForGood
    BY DEF EndInv
  <1>3. QED
    BY <1>1, <1>2, EndStays, FlowAlways, PTL DEF FlowSpec

=============================================================================
