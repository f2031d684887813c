------------------------------ MODULE McpGrant ------------------------------
(***************************************************************************)
(* The MCP OAuth server (and the OIDC provider, which runs the same         *)
(* handlers): authorization codes, families of rotating refresh tokens and *)
(* the requests to its endpoints.  Every component function is one         *)
(* transaction; a request is an HTTP action that looks the client up, calls *)
(* one mutation and signs an access token, so requests interleave between  *)
(* these steps and may stop after any of them.                             *)
(*                                                                         *)
(* Time is relative: a row carries the ticks until it expires.  A refresh   *)
(* token's absolute and inactivity lifetimes both start at its own issue,  *)
(* so the shorter one, Lifetime, ends it.  A request that names another    *)
(* client or redirect URI than the row it presents changes nothing and is   *)
(* left out; so are the machine grant, which keeps no state, and the keys. *)
(***************************************************************************)
EXTENDS Integers, FiniteSets

CONSTANTS
  Client,         \* client ids
  Scope,          \* supported scopes
  Code,           \* authorization codes that can be drawn
  Request,        \* HTTP requests that can overlap
  None,           \* no client, no code
  Lifetime,       \* ticks a refresh token lives
  CodeLifetime,   \* ticks an authorization code lives
  MaxTokens       \* bound: refresh tokens ever issued

ASSUME GrantAssumption ==
  /\ None \notin Client \cup Code
  /\ {Lifetime, CodeLifetime} \subseteq Nat \ {0}
  /\ MaxTokens \in Nat

VARIABLES
  allowed,    \* mcp_oauth_clients: the scopes each registered client may ask for
  codes,      \* mcp_oauth_authorization_codes
  tokens,     \* mcp_oauth_refresh_tokens, by id
  revoked,    \* mcp_oauth_revoked_families
  request,    \* the requests under way
  known,      \* refresh tokens that reached their client
  granted,    \* history: families issued for each code
  replayed,   \* history: families of which a used token was presented in its life
  harmed      \* history: families whose client replayed, raced itself or missed an answer

history == <<granted, replayed, harmed>>
vars == <<allowed, codes, tokens, revoked, request, known, history>>

Token == 1..MaxTokens
NoToken == 0

CodeRow == [client : Client, scopes : SUBSET Scope, life : 0..CodeLifetime, consumed : BOOLEAN]
TokenRow == [family : Token, parent : Token \cup {NoToken}, client : Client,
             scopes : SUBSET Scope, life : 0..Lifetime, consumed : BOOLEAN]

With(table, i, row) ==
  [x \in DOMAIN table \cup {i} |-> IF x = i THEN row ELSE table[x]]

Family(t) == tokens[t].family
TokensOf(f) == {t \in DOMAIN tokens : Family(t) = f}

Idle == [pc |-> "idle", client |-> None, code |-> None, allowed |-> {}, scopes |-> {},
         proven |-> FALSE, token |-> NoToken, issued |-> NoToken, signed |-> "no"]

Go(r, row) == request' = [request EXCEPT ![r] = row]
End(r) == Go(r, Idle)

(***************************************************************************)
(* Clients and codes.                                                      *)
(***************************************************************************)
\* registerDynamicClient replaces the row; createDynamicClient draws a new id.
registerDynamicClient(c, scopes) ==
  /\ allowed' = With(allowed, c, scopes)
  /\ UNCHANGED <<codes, tokens, revoked, request, known, history>>

\* The user consents; the policy may grant less than was asked for.
ResolveForCode(r, c, scopes) ==
  /\ request[r] = Idle
  /\ c \in DOMAIN allowed
  /\ scopes \subseteq allowed[c]
  /\ Go(r, [Idle EXCEPT !.pc = "authorize", !.client = c, !.scopes = scopes])
  /\ UNCHANGED <<allowed, codes, tokens, revoked, known, history>>

createAuthorizationCode(r, k) ==
  /\ request[r].pc = "authorize"
  /\ k \notin DOMAIN codes
  /\ codes' = With(codes, k, [client |-> request[r].client, scopes |-> request[r].scopes,
                              life |-> CodeLifetime, consumed |-> FALSE])
  /\ End(r)
  /\ UNCHANGED <<allowed, tokens, revoked, known, history>>

(***************************************************************************)
(* Exchanging a code.                                                      *)
(***************************************************************************)
\* "proven": the request carries the verifier of the code's challenge.
ResolveForExchange(r, k, proven) ==
  /\ request[r] = Idle
  /\ k \in DOMAIN codes
  /\ Go(r, [Idle EXCEPT !.pc = "consume", !.client = codes[k].client, !.code = k,
                        !.allowed = allowed[codes[k].client], !.proven = proven])
  /\ UNCHANGED <<allowed, codes, tokens, revoked, known, history>>

\* Mutant: the mark of an earlier consumption is not looked at.
CanConsumeAgain(k) == codes[k].life > 0

CanConsume(k) == codes[k].life > 0 /\ ~codes[k].consumed

consumeAuthorizationCode(r) ==
  /\ request[r].pc = "consume"
  /\ \/ /\ CanConsume(request[r].code)
        /\ codes' = [codes EXCEPT ![request[r].code].consumed = TRUE]
        /\ Go(r, [request[r] EXCEPT !.pc = "verify"])
     \/ /\ ~CanConsume(request[r].code)
        /\ End(r)
        /\ UNCHANGED codes
  /\ UNCHANGED <<allowed, tokens, revoked, known, history>>

\* What the action checks of the code it has burnt already.
CheckExchange(r) ==
  LET code == codes[request[r].code]
  IN  /\ request[r].pc = "verify"
      /\ IF code.scopes \subseteq request[r].allowed /\ code.life > 0 /\ request[r].proven
         THEN Go(r, [request[r] EXCEPT !.pc = "issue"])
         ELSE End(r)
      /\ UNCHANGED <<allowed, codes, tokens, revoked, known, history>>

\* Mutant: the tick in which a token is issued is not counted.
NewTokenLong(family, parent, client, scopes) ==
  [family |-> family, parent |-> parent, client |-> client, scopes |-> scopes,
   life |-> Lifetime + 1, consumed |-> FALSE]

NewToken(family, parent, client, scopes) ==
  [family |-> family, parent |-> parent, client |-> client, scopes |-> scopes,
   life |-> Lifetime, consumed |-> FALSE]

Drawn == Cardinality(DOMAIN tokens) + 1

issueRefreshToken(r) ==
  LET t == Drawn
      k == request[r].code
  IN  /\ request[r].pc = "issue" /\ request[r].issued = NoToken
      /\ t \in Token
      /\ tokens' = With(tokens, t, NewToken(t, NoToken, codes[k].client, codes[k].scopes))
      /\ granted' = [granted EXCEPT ![k] = @ \cup {t}]
      /\ Go(r, [request[r] EXCEPT !.issued = t])
      /\ UNCHANGED <<allowed, codes, revoked, known, replayed, harmed>>

(***************************************************************************)
(* Redeeming a refresh token.                                              *)
(***************************************************************************)
\* The client presents a token it holds, twice at once or again when it was
\* used; no scopes means those of the token.
ResolveForRefresh(r, t, scopes) ==
  /\ request[r] = Idle
  /\ t \in known
  /\ scopes \subseteq allowed[tokens[t].client]
  /\ Go(r, [Idle EXCEPT !.pc = "redeem", !.client = tokens[t].client, !.token = t,
                        !.allowed = allowed[tokens[t].client], !.scopes = scopes])
  /\ harmed' = IF tokens[t].consumed \/ \E q \in Request : request[q].token = t
               THEN harmed \cup {Family(t)} ELSE harmed
  /\ UNCHANGED <<allowed, codes, tokens, revoked, known, granted, replayed>>

\* Mutant: only the row's own revocation is looked at, which nothing sets.
StatusRowOnly(t) ==
  IF tokens[t].life = 0 THEN "expired"
  ELSE IF tokens[t].consumed THEN "consumed" ELSE "active"

\* Mutant: the mark of an earlier redemption is not looked at.
StatusUnused(t) ==
  IF Family(t) \in revoked THEN "revoked"
  ELSE IF tokens[t].life = 0 THEN "expired" ELSE "active"

\* Mutant: expiry is not looked at.
StatusUndated(t) ==
  IF Family(t) \in revoked THEN "revoked"
  ELSE IF tokens[t].consumed THEN "consumed" ELSE "active"

\* getMcpOAuthRefreshTokenStatus of what findForRefreshToken returns.
Status(t) ==
  IF Family(t) \in revoked THEN "revoked"
  ELSE IF tokens[t].life = 0 THEN "expired"
  ELSE IF tokens[t].consumed THEN "consumed" ELSE "active"

\* Mutant: only what is asked for is compared with the client.
MayGrantAsked(t, scopes, ceiling) == scopes \subseteq tokens[t].scopes

MayGrant(t, scopes, ceiling) ==
  /\ tokens[t].scopes \subseteq ceiling
  /\ scopes \subseteq tokens[t].scopes

Rotate(r, t) ==
  LET next == Drawn
      scopes == IF request[r].scopes = {} THEN tokens[t].scopes ELSE request[r].scopes
  IN  /\ next \in Token
      /\ tokens' = With([tokens EXCEPT ![t].consumed = TRUE], next,
                        NewToken(Family(t), t, tokens[t].client, scopes))
      /\ Go(r, [request[r] EXCEPT !.pc = "sign", !.issued = next])
      /\ UNCHANGED <<revoked, replayed>>

\* revokeFamilyAndFail: the mutation returns the failure, so the mark is kept.
RevokeFamily(r, f) ==
  /\ revoked' = revoked \cup {f}
  /\ replayed' = replayed \cup {f}
  /\ End(r)
  /\ UNCHANGED tokens

\* Mutant: a token is used up before it is checked.
RefuseUsed(r) ==
  /\ tokens' = [tokens EXCEPT ![request[r].token].consumed = TRUE]
  /\ End(r)
  /\ UNCHANGED <<revoked, replayed>>

Refuse(r) == End(r) /\ UNCHANGED <<tokens, revoked, replayed>>

redeemRefreshToken(r) ==
  LET t == request[r].token
      granting == MayGrant(t, request[r].scopes, request[r].allowed)
  IN  /\ request[r].pc = "redeem"
      /\ \/ Status(t) = "active" /\ granting /\ Rotate(r, t)
         \/ Status(t) = "active" /\ ~granting /\ Refuse(r)
         \/ Status(t) = "consumed" /\ RevokeFamily(r, Family(t))
         \/ Status(t) \in {"revoked", "expired"} /\ Refuse(r)
      /\ UNCHANGED <<allowed, codes, known, granted, harmed>>

(***************************************************************************)
(* Answering.                                                              *)
(***************************************************************************)
\* The policy is asked again, and may refuse by now.
signAccessToken(r) ==
  /\ request[r].pc \in {"issue", "sign"} /\ request[r].signed = "no"
  /\ \E outcome \in {"signed", "refused"} : Go(r, [request[r] EXCEPT !.signed = outcome])
  /\ UNCHANGED <<allowed, codes, tokens, revoked, known, history>>

Harm(t) == harmed' = IF t = NoToken THEN harmed ELSE harmed \cup {Family(t)}

\* The refresh token is part of the answer only if the access token is.
Answer(r) ==
  /\ request[r].issued # NoToken /\ request[r].signed # "no"
  /\ \/ /\ request[r].signed = "signed"
        /\ known' = known \cup {request[r].issued}
        /\ UNCHANGED harmed
     \/ /\ request[r].signed = "refused"
        /\ Harm(request[r].issued)
        /\ UNCHANGED known
  /\ End(r)
  /\ UNCHANGED <<allowed, codes, tokens, revoked, granted, replayed>>

\* The action stops, or its answer is lost.
Stop(r) ==
  /\ request[r] # Idle
  /\ Harm(request[r].issued)
  /\ End(r)
  /\ UNCHANGED <<allowed, codes, tokens, revoked, known, granted, replayed>>

Aged(table) ==
  [x \in DOMAIN table |-> [table[x] EXCEPT !.life = IF @ > 0 THEN @ - 1 ELSE 0]]

Tick ==
  /\ (\E k \in DOMAIN codes : codes[k].life > 0) \/ (\E t \in DOMAIN tokens : tokens[t].life > 0)
  /\ codes' = Aged(codes)
  /\ tokens' = Aged(tokens)
  /\ UNCHANGED <<allowed, revoked, request, known, history>>

-----------------------------------------------------------------------------
Init ==
  /\ allowed = [c \in {} |-> {}]
  /\ codes = [k \in {} |-> 0]
  /\ tokens = [t \in {} |-> 0]
  /\ revoked = {}
  /\ request = [r \in Request |-> Idle]
  /\ known = {}
  /\ granted = [k \in Code |-> {}]
  /\ replayed = {}
  /\ harmed = {}

Step(r) ==
  \/ \E k \in Code : createAuthorizationCode(r, k)
  \/ consumeAuthorizationCode(r)
  \/ CheckExchange(r)
  \/ issueRefreshToken(r)
  \/ redeemRefreshToken(r)
  \/ signAccessToken(r)
  \/ Answer(r)

Next ==
  \/ \E c \in Client, scopes \in SUBSET Scope : registerDynamicClient(c, scopes)
  \/ \E r \in Request :
       \/ \E c \in Client, scopes \in SUBSET Scope : ResolveForCode(r, c, scopes)
       \/ \E k \in Code, proven \in BOOLEAN : ResolveForExchange(r, k, proven)
       \/ \E t \in Token, scopes \in SUBSET Scope : ResolveForRefresh(r, t, scopes)
       \/ Step(r)
       \/ Stop(r)
  \/ Tick

Spec == Init /\ [][Next]_vars

-----------------------------------------------------------------------------
RequestRow ==
  [pc : {"idle", "authorize", "consume", "verify", "issue", "redeem", "sign"},
   client : Client \cup {None}, code : DOMAIN codes \cup {None},
   allowed : SUBSET Scope, scopes : SUBSET Scope, proven : BOOLEAN,
   token : DOMAIN tokens \cup {NoToken}, issued : DOMAIN tokens \cup {NoToken},
   signed : {"no", "signed", "refused"}]

TypeOK ==
  /\ DOMAIN allowed \subseteq Client /\ allowed \in [DOMAIN allowed -> SUBSET Scope]
  /\ DOMAIN codes \subseteq Code /\ codes \in [DOMAIN codes -> CodeRow]
  /\ DOMAIN tokens \subseteq Token /\ tokens \in [DOMAIN tokens -> TokenRow]
  /\ request \in [Request -> RequestRow]
  /\ {revoked, known, replayed, harmed} \subseteq SUBSET DOMAIN tokens
  /\ granted \in [Code -> SUBSET DOMAIN tokens]

(***************************************************************************)
(* However many requests exchange an authorization code at once, it opens  *)
(* one family (consumeAuthorizationCode decides, the rest runs after it).  *)
(***************************************************************************)
CodeSingleUse == \A k \in Code : Cardinality(granted[k]) <= 1

(***************************************************************************)
(* A family is one line of tokens: at any time at most one of them can be  *)
(* redeemed, and every used token has exactly one successor.               *)
(***************************************************************************)
Usable(t) == Family(t) \notin revoked /\ tokens[t].life > 0 /\ ~tokens[t].consumed
Successors(t) == {u \in DOMAIN tokens : tokens[u].parent = t}
OneLine ==
  /\ \A f \in DOMAIN tokens : Cardinality({t \in TokensOf(f) : Usable(t)}) <= 1
  /\ \A t \in DOMAIN tokens : Cardinality(Successors(t)) = IF tokens[t].consumed THEN 1 ELSE 0

(***************************************************************************)
(* Once a used token was presented in its life, its family gets no further *)
(* token, whatever requests were under way (revokeFamilyAndFail).          *)
(***************************************************************************)
ReplayEndsGrant == [][\A f \in replayed : TokensOf(f)' = TokensOf(f)]_vars

(***************************************************************************)
(* And a family that can no longer be redeemed, however it ended, is not   *)
(* revived by a request that looked at it before.                          *)
(***************************************************************************)
Dead(f) == \A t \in TokensOf(f) : ~Usable(t)
DeadGrantStaysDead == [][\A f \in DOMAIN tokens : Dead(f) => Dead(f)']_vars

(***************************************************************************)
(* A grant keeps the promise of a sign-in's family (Lineage) with room for *)
(* one: an exchange opens a line for the client of its code, a redemption  *)
(* hands the place of the presented token to the next, of the same client, *)
(* and nothing else lets a token in.                                       *)
(***************************************************************************)
Accepted ==
  [t \in {t \in DOMAIN tokens : Usable(t)} |->
     [family |-> Family(t), owner |-> tokens[t].client]]

Lines == INSTANCE Lineage
  WITH live <- Accepted, drawn <- Cardinality(DOMAIN tokens), Owner <- Client, Limit <- 1

KeepsLine == Lines!LineageSpec

(***************************************************************************)
(* Scopes only narrow from the code to each token of the line, and nothing *)
(* is issued beyond what the client was registered for when the request    *)
(* looked it up, though it may have been registered anew since.            *)
(***************************************************************************)
ScopesNarrow ==
  /\ \A k \in Code : \A f \in granted[k] : tokens[f].scopes \subseteq codes[k].scopes
  /\ \A t \in DOMAIN tokens : tokens[t].parent # NoToken =>
       tokens[t].scopes \subseteq tokens[tokens[t].parent].scopes
  /\ \A r \in Request : request[r].issued # NoToken =>
       tokens[request[r].issued].scopes \subseteq request[r].allowed

(***************************************************************************)
(* A client that presents each token once, waits for the answer and gets   *)
(* it is never locked out: its family is not revoked and the end of its    *)
(* line is in its hands or in the answer under way.                        *)
(***************************************************************************)
KeepsGrant ==
  \A f \in DOMAIN tokens : Family(f) = f /\ f \notin harmed =>
    /\ f \notin revoked
    /\ \E t \in TokensOf(f) :
         /\ ~tokens[t].consumed
         /\ t \in known \/ \E r \in Request : request[r].issued = t

=============================================================================
