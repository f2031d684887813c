---------------------------- MODULE RefreshFlow ----------------------------
(***************************************************************************)
(* A browser that keeps one session pair, in HttpOnly cookies or in the    *)
(* provider's storage, and the requests it sends: refreshes, which reach   *)
(* handleUpdateSession through the SSR boundary or the auth proxy, sign-   *)
(* out, and "revoke this session" on the list of sessions.  A server       *)
(* action runs its queries and mutations as separate transactions, so the  *)
(* steps of concurrent requests interleave; the tables and the mutations   *)
(* are those of SessionFamily.  Answers overwrite the jar in the order in  *)
(* which they arrive.                                                      *)
(***************************************************************************)
EXTENDS SessionFamily

CONSTANTS
  Request,   \* requests that can be under way at once
  MaxTrip,   \* longest time to reach the server, and to be answered from there
  MayLose    \* whether an answer may fail to reach the browser

ASSUME FlowAssumption == MaxTrip \in 1..MaxLag /\ MayLose \in BOOLEAN

VARIABLES
  jar,      \* the pair the browser holds, by id
  request,  \* what is under way
  viewer,   \* the "revoke this session" action of the session list
  ended     \* history: a sign-out, revocation, reset or deletion has committed

flowVars == <<vars, jar, request, viewer, ended>>

NoPair == 0
Idle == [pc |-> "idle", token |-> NoPair, start |-> 0, pair |-> NoPair]

InFlight == {r \in Request : request[r].pc # "idle"}

\* Bound: one lineage per behaviour, so the jar's family is the only one.
SignIn ==
  /\ minted = 0
  /\ createSessionAndRefreshToken
  /\ jar' = Fresh
  /\ UNCHANGED <<request, viewer, ended>>

(***************************************************************************)
(* Requests.                                                               *)
(***************************************************************************)
Goto(r, pc) ==
  /\ request' = [request EXCEPT ![r].pc = pc]
  /\ UNCHANGED <<jar, viewer>>

Answer(r, pair) ==
  /\ request' = [request EXCEPT ![r].pc = "answered", ![r].pair = pair]
  /\ UNCHANGED <<jar, viewer>>

\* Mutant: the refusal of a query is not turned into an error.
RefuseUnthrown(r) == Answer(r, Fresh) /\ UNCHANGED <<vars, ended>>

Refuse(r) == Answer(r, NoPair) /\ UNCHANGED <<vars, ended>>

\* The cookies go out with the request; what it asks for is fixed here.
Send(r, pc) ==
  /\ jar # NoPair
  /\ request[r] = Idle
  /\ request' = [request EXCEPT ![r] = [Idle EXCEPT !.pc = pc, !.token = jar, !.start = now]]
  /\ UNCHANGED <<vars, jar, viewer, ended>>

SendRefresh(r) == Send(r, "refresh")
SendSignOut(r) == Send(r, "signOut")

(***************************************************************************)
(* handleUpdateSession, query by query.  It reads its clock once, at the   *)
(* start, and a revoked session is let through to the mutations.           *)
(***************************************************************************)
ReadToken(r) ==
  /\ request[r].pc = "refresh"
  /\ IF request[r].token \in DOMAIN tokens
     THEN /\ request' = [request EXCEPT ![r].pc = "session", ![r].start = now]
          /\ UNCHANGED <<vars, jar, viewer, ended>>
     ELSE Refuse(r)

Unexpired(s, time) == s \in DOMAIN sessions /\ sessions[s].expiresAt > time

ReadSession(r) ==
  /\ request[r].pc = "session"
  /\ LET s == request[r].token
     IN  IF Unexpired(s, request[r].start)
         THEN Goto(r, "user") /\ UNCHANGED <<vars, ended>>
         ELSE Refuse(r)

\* The user of the token row and the identity of the session row are read
\* together.  If a row read before has been deleted since, the refusal comes
\* here and not from the mutation.
ReadUser(r) ==
  LET t == request[r].token
  IN  /\ request[r].pc = "user"
      /\ IF t \in DOMAIN tokens /\ Resolvable(t, t)
         THEN Goto(r, "rotate") /\ UNCHANGED <<vars, ended>>
         ELSE Refuse(r)

ReplayDetected(r) ==
  /\ replayAfterGrace(request[r].token)
  /\ Answer(r, NoPair)
  /\ UNCHANGED ended

Rotate(r) ==
  LET t == request[r].token
  IN  /\ request[r].pc = "rotate"
      /\ \/ /\ rotateSession(t, request[r].start)
            /\ Answer(r, Fresh)
            /\ UNCHANGED ended
         \/ /\ MayConverge(t)
            /\ Goto(r, "converge") /\ UNCHANGED <<vars, ended>>
         \/ ReplayDetected(r)
         \/ /\ ~CanRotate(t) /\ ~MayConverge(t) /\ ~IsReplay(t)
            /\ Answer(r, NoPair) /\ UNCHANGED <<vars, ended>>

\* Mutant: the answer of rotateSession is trusted, nothing is checked again.
ConvergeUnchecked(r) ==
  LET t == request[r].token
  IN  /\ request[r].pc = "converge"
      /\ CanMint
      /\ sessions' = With(sessions, Fresh, Successor(t, t, request[r].start))
      /\ tokens' = With([tokens EXCEPT ![t].redemptions = @ + 1], Fresh,
                        NextToken(t, request[r].start))
      /\ minted' = Fresh
      /\ mintedBy' = With(mintedBy, Fresh, t)
      /\ UNCHANGED <<now, users, identities, ended>>
      /\ Answer(r, Fresh)

Converge(r) ==
  LET t == request[r].token
  IN  /\ request[r].pc = "converge"
      /\ \/ /\ convergeSession(t, request[r].start)
            /\ Answer(r, Fresh)
            /\ UNCHANGED ended
         \/ ReplayDetected(r)
         \/ /\ ~CanConverge(t) /\ ~IsReplay(t)
            /\ Answer(r, NoPair) /\ UNCHANGED <<vars, ended>>

\* signOut: the access token must not have expired; a session row that is gone
\* is no error.
SignOut(r) ==
  /\ request[r].pc = "signOut"
  /\ LET s == request[r].token
     IN  \/ /\ Unexpired(s, now)
            /\ revokeSessionFamilyBySession(s)
            /\ request' = [request EXCEPT ![r].pc = "signedOut"]
            /\ ended' = TRUE
            /\ UNCHANGED <<jar, viewer>>
         \/ /\ ~Unexpired(s, now)
            /\ Goto(r, "signedOut") /\ UNCHANGED <<vars, ended>>

\* Mutant: a refused refresh leaves the cookies alone.
DeliverPairOnly(r) ==
  /\ request[r].pc = "answered"
  /\ jar' = IF request[r].pair = NoPair THEN jar ELSE request[r].pair
  /\ request' = [request EXCEPT ![r] = Idle]
  /\ UNCHANGED <<vars, viewer, ended>>

\* The answer to a refresh writes the new pair, or clears the cookies.
Deliver(r) ==
  /\ request[r].pc = "answered"
  /\ jar' = request[r].pair
  /\ request' = [request EXCEPT ![r] = Idle]
  /\ UNCHANGED <<vars, viewer, ended>>

DeliverSignOut(r) ==
  /\ request[r].pc = "signedOut"
  /\ jar' = NoPair
  /\ request' = [request EXCEPT ![r] = Idle]
  /\ UNCHANGED <<vars, viewer, ended>>

\* The connection failed on the way to the server, or on the way back.
Lose(r) ==
  /\ MayLose
  /\ request[r].pc \in {"refresh", "signOut", "answered", "signedOut"}
  /\ request' = [request EXCEPT ![r] = Idle]
  /\ UNCHANGED <<vars, jar, viewer, ended>>

\* The boundary, or the provider, saw the call to the server fail: it clears
\* what the browser holds, whether or not the server had answered.
Fail(r) ==
  /\ MayLose
  /\ request[r].pc \in {"refresh", "answered"}
  /\ jar' = NoPair
  /\ request' = [request EXCEPT ![r] = Idle]
  /\ UNCHANGED <<vars, viewer, ended>>

(***************************************************************************)
(* The session list: a session is shown, and later revoked by its id.      *)
(***************************************************************************)
View(pc, s) ==
  /\ viewer' = [pc |-> pc, target |-> s]
  /\ UNCHANGED <<jar, request>>

listSessions ==
  /\ viewer.pc = "none"
  /\ jar # NoPair /\ Live(jar)
  /\ \E s \in DOMAIN sessions :
       /\ ~sessions[s].revoked /\ sessions[s].expiresAt >= now
       /\ View("shown", s)
  /\ UNCHANGED <<vars, ended>>

\* resolveSessionUser with the caller's own access token.
ResolveCaller ==
  /\ viewer.pc = "shown"
  /\ jar # NoPair
  /\ View(IF Live(jar) THEN "resolved" ELSE "failed", viewer.target)
  /\ UNCHANGED <<vars, ended>>

LookUpTarget ==
  /\ viewer.pc = "resolved"
  /\ LET s == viewer.target
     IN  View(IF s \notin DOMAIN sessions \/ sessions[s].revoked THEN "success" ELSE "found", s)
  /\ UNCHANGED <<vars, ended>>

RevokeTarget ==
  /\ viewer.pc = "found"
  /\ \/ revokeSessionFamilyBySession(viewer.target) /\ ended' = TRUE
     \/ /\ viewer.target \notin DOMAIN sessions
        /\ UNCHANGED <<vars, ended>>
  /\ View("success", viewer.target)

(***************************************************************************)
(* The rest of the system: another device or an administrator.             *)
(***************************************************************************)
EndElsewhere ==
  /\ \E s \in DOMAIN sessions :
       LET u == sessions[s].user
       IN  revokeAllSessionsForUser(u) \/ resetPassword(u) \/ deleteUser(u)
  /\ ended' = TRUE
  /\ UNCHANGED <<jar, request, viewer>>

LinkElsewhere ==
  /\ \E i \in Identity : linkAnonymousUser(i)
  /\ UNCHANGED <<jar, request, viewer, ended>>

\* Time passes while every leg of every request keeps to MaxTrip.
FlowTick ==
  /\ Tick
  /\ \A r \in InFlight : now - request[r].start < MaxTrip
  /\ UNCHANGED <<jar, request, viewer, ended>>

-----------------------------------------------------------------------------
FlowInit ==
  /\ Init
  /\ jar = NoPair
  /\ request = [r \in Request |-> Idle]
  /\ viewer = [pc |-> "none", target |-> NoPair]
  /\ ended = FALSE

Arrive(r) == ReadToken(r) \/ SignOut(r)
Return(r) == Deliver(r) \/ DeliverSignOut(r)
Progress(r) ==
  Arrive(r) \/ ReadSession(r) \/ ReadUser(r) \/ Rotate(r) \/ Converge(r) \/ Return(r)

\* The browser's own traffic, while nothing ends the lineage on purpose.
RefreshNext ==
  \/ SignIn
  \/ \E r \in Request : SendRefresh(r) \/ Progress(r) \/ Lose(r) \/ Fail(r)
  \/ FlowTick

\* The lineage is ended, by this browser or by someone else.
EndNext ==
  \/ \E r \in Request : SendSignOut(r)
  \/ EndElsewhere
  \/ LinkElsewhere

ListNext == listSessions \/ ResolveCaller \/ LookUpTarget \/ RevokeTarget

FlowNext == RefreshNext \/ EndNext \/ ListNext

\* Convex runs an accepted action to its end; the provider's timer and the SSR
\* boundary present the pair again before its access token runs out; and a
\* connection that may fail does not fail every time.
Fairness ==
  /\ \A r \in Request :
       WF_flowVars(Progress(r)) /\ SF_flowVars(Arrive(r)) /\ SF_flowVars(Return(r))
  /\ WF_flowVars(\E r \in Request : SendRefresh(r))

RefreshSpec == FlowInit /\ [][RefreshNext]_flowVars
FairRefreshSpec == FlowInit /\ [][RefreshNext \/ EndNext]_flowVars /\ Fairness
FlowSpec == FlowInit /\ [][FlowNext]_flowVars

-----------------------------------------------------------------------------
FlowTypeOK ==
  /\ jar \in 0..minted
  /\ request \in [Request ->
       [pc : {"idle", "refresh", "session", "user", "rotate", "converge", "answered",
              "signOut", "signedOut"},
        token : 0..minted, start : 0..now, pair : 0..minted]]
  /\ viewer \in [pc : {"none", "shown", "resolved", "failed", "found", "success"},
                 target : 0..minted]
  /\ ended \in BOOLEAN

(***************************************************************************)
(* Parallel requests and answers that overtake each other never cost an    *)
(* honest browser its session: while nothing ends the lineage on purpose,  *)
(* the pair it holds can be refreshed, though another request may have     *)
(* rotated it (ssr-contract.md, "Refresh races").  Checked for RefreshSpec *)
(* without loss, with Grace >= 3 * MaxTrip and no quota in reach.          *)
(***************************************************************************)
KeepsSession == minted > 0 => jar # NoPair /\ (CanRotate(jar) \/ CanConverge(jar))

(***************************************************************************)
(* Once a sign-out, a revocation, a reset or a deletion has committed, no  *)
(* session of the lineage is live again, whatever the requests under way   *)
(* had read before.                                                        *)
(***************************************************************************)
AllDead == \A s \in DOMAIN sessions : ~Live(s)
EndedForGood == ended => AllDead

(***************************************************************************)
(* A browser whose lineage is dead finds out: its cookies are cleared for  *)
(* good, whatever answers were still on their way.                         *)
(***************************************************************************)
DeadNoticed == [](minted > 0 /\ AllDead => <>[](jar = NoPair))

(***************************************************************************)
(* What the documentation says and the code does not do.                   *)
(***************************************************************************)
\* revokeSession reports success only when the session's family is dead.
RevocationReported ==
  viewer.pc = "success" =>
    \A s \in DOMAIN sessions :
      s = viewer.target => LiveIn(sessions[s].family) = {}

=============================================================================
