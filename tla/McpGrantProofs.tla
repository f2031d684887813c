--------------------------- MODULE McpGrantProofs ---------------------------
(***************************************************************************)
(* Proofs about McpGrant.  A family is a line: every token but the first   *)
(* has a used parent, no two have the same, and the unused end is the only *)
(* one.  Everything else rests on that and on what a request holds while   *)
(* it is between two of its steps.                                         *)
(***************************************************************************)
EXTENDS McpGrant, FiniteSetTheorems, TLAPS

\* Ids are drawn in order.
Contiguous == Drawn \in Nat /\ DOMAIN tokens = 1..(Drawn - 1)

\* What a request holds at each of its steps.
RowFine(row, clients, drawnCodes, issued) ==
  /\ row.pc = "authorize" => row.client \in clients
  /\ row.pc \in {"consume", "verify", "issue"} => row.code \in drawnCodes
  /\ row.pc = "redeem" => row.token \in issued
  /\ row.issued # NoToken => row.pc \in {"issue", "sign"}
  /\ row.pc = "sign" => row.issued # NoToken

RequestInv == \A r \in Request : RowFine(request[r], DOMAIN allowed, DOMAIN codes, DOMAIN tokens)

\* A client is never deregistered.
ClientsKnown ==
  /\ \A k \in DOMAIN codes : codes[k].client \in DOMAIN allowed
  /\ \A t \in DOMAIN tokens : tokens[t].client \in DOMAIN allowed

\* A family is named by its first token.
FamiliesKnown == \A t \in DOMAIN tokens : Family(t) \in DOMAIN tokens

Typed == TypeOK /\ Contiguous /\ RequestInv /\ ClientsKnown /\ FamiliesKnown

-----------------------------------------------------------------------------
(***************************************************************************)
(* Tables and requests.                                                    *)
(***************************************************************************)
LEMMA WithFacts ==
  ASSUME NEW table, NEW i, NEW row
  PROVE  /\ DOMAIN With(table, i, row) = DOMAIN table \cup {i}
         /\ With(table, i, row)[i] = row
         /\ \A x \in DOMAIN table : x # i => With(table, i, row)[x] = table[x]
BY DEF With

LEMMA WithTyped ==
  ASSUME NEW table, NEW i, NEW row, NEW T, row \in T, table \in [DOMAIN table -> T]
  PROVE  With(table, i, row) \in [DOMAIN With(table, i, row) -> T]
BY DEF With

LEMMA IdleTyped == Idle \in RequestRow
BY DEF Idle, RequestRow

\* Rows are never removed, so what a request names stays there.
LEMMA RequestRowGrows ==
  ASSUME DOMAIN codes \subseteq DOMAIN codes', DOMAIN tokens \subseteq DOMAIN tokens'
  PROVE  RequestRow \subseteq RequestRow'
BY DEF RequestRow

LEMMA GoFacts ==
  ASSUME TypeOK, NEW r \in Request, NEW row, Go(r, row)
  PROVE  /\ request'[r] = row
         /\ \A q \in Request \ {r} : request'[q] = request[q]
         /\ /\ DOMAIN codes \subseteq DOMAIN codes' /\ DOMAIN tokens \subseteq DOMAIN tokens'
            /\ row \in RequestRow'
            => request' \in [Request -> RequestRow']
<1>1. /\ request'[r] = row
      /\ \A q \in Request \ {r} : request'[q] = request[q]
      /\ request' = [request EXCEPT ![r] = row]
  BY DEF Go, TypeOK
<1>2. ASSUME DOMAIN codes \subseteq DOMAIN codes', DOMAIN tokens \subseteq DOMAIN tokens',
             row \in RequestRow'
      PROVE  request' \in [Request -> RequestRow']
  <2>1. request \in [Request -> RequestRow']
    BY <1>2, RequestRowGrows DEF TypeOK
  <2> QED BY <1>1, <1>2, <2>1
<1> QED BY <1>1, <1>2

LEMMA EndFacts ==
  ASSUME TypeOK, NEW r \in Request, End(r),
         DOMAIN codes \subseteq DOMAIN codes', DOMAIN tokens \subseteq DOMAIN tokens'
  PROVE  /\ request'[r] = Idle
         /\ \A q \in Request \ {r} : request'[q] = request[q]
         /\ request' \in [Request -> RequestRow']
<1>1. Idle \in RequestRow'
  BY IdleTyped, RequestRowGrows
<1> QED BY <1>1, GoFacts DEF End

LEMMA DrawnFinite ==
  ASSUME TypeOK
  PROVE  IsFiniteSet(DOMAIN tokens) /\ Cardinality(DOMAIN tokens) \in Nat /\ Drawn \in Nat
<1>1. IsFiniteSet(1..MaxTokens)
  BY FS_Interval, GrantAssumption
<1>2. IsFiniteSet(DOMAIN tokens)
  BY <1>1, FS_Subset DEF TypeOK, Token
<1> QED BY <1>2, FS_CardinalityType DEF Drawn

LEMMA DrawnFresh ==
  ASSUME TypeOK, Contiguous
  PROVE  Drawn \in Nat \ {0} /\ Drawn \notin DOMAIN tokens
BY DrawnFinite DEF Contiguous, Drawn

LEMMA DrawnNext ==
  ASSUME TypeOK, Contiguous, DOMAIN tokens' = DOMAIN tokens \cup {Drawn}
  PROVE  Contiguous' /\ Drawn' = Drawn + 1
<1>1. Cardinality(DOMAIN tokens') = Cardinality(DOMAIN tokens) + 1
  BY DrawnFinite, DrawnFresh, FS_AddElement
<1>2. Drawn' = Drawn + 1
  BY <1>1, DrawnFinite DEF Drawn
<1>3. DOMAIN tokens' = 1..(Drawn' - 1)
  BY <1>2, DrawnFresh DEF Contiguous
<1> QED BY <1>2, <1>3, DrawnFinite DEF Contiguous

-----------------------------------------------------------------------------
(***************************************************************************)
(* What a step does to the tokens: nothing, a first token, the next one of *)
(* a line, or a tick.                                                      *)
(***************************************************************************)
Issuing(r) ==
  LET k == request[r].code
  IN  /\ request[r].pc = "issue" /\ request[r].issued = NoToken
      /\ Drawn \in Token
      /\ tokens' = With(tokens, Drawn, NewToken(Drawn, NoToken, codes[k].client, codes[k].scopes))
      /\ revoked' = revoked

NextScopes(r) ==
  IF request[r].scopes = {} THEN tokens[request[r].token].scopes ELSE request[r].scopes

Rotating(r) ==
  LET t == request[r].token
  IN  /\ request[r].pc = "redeem"
      /\ Status(t) = "active" /\ MayGrant(t, request[r].scopes, request[r].allowed)
      /\ Drawn \in Token
      /\ tokens' = With([tokens EXCEPT ![t].consumed = TRUE], Drawn,
                        NewToken(Family(t), t, tokens[t].client, NextScopes(r)))
      /\ revoked' = revoked

TokenStep ==
  \/ tokens' = tokens /\ revoked \subseteq revoked'
  \/ \E r \in Request : Issuing(r)
  \/ \E r \in Request : Rotating(r)
  \/ tokens' = Aged(tokens) /\ revoked' = revoked

LEMMA StepKinds == [Next]_vars => TokenStep
<1> SUFFICES ASSUME [Next]_vars PROVE TokenStep
  OBVIOUS
<1>1. CASE UNCHANGED vars
  BY <1>1 DEF vars, TokenStep
<1>2. ASSUME NEW r \in Request, Step(r)
      PROVE  TokenStep
  <2>1. CASE issueRefreshToken(r)
    BY <2>1 DEF issueRefreshToken, TokenStep, Issuing
  <2>2. CASE redeemRefreshToken(r)
    <3>1. ASSUME Status(request[r].token) = "active",
                 MayGrant(request[r].token, request[r].scopes, request[r].allowed),
                 Rotate(r, request[r].token)
          PROVE  Rotating(r)
      BY <2>2, <3>1 DEF redeemRefreshToken, Rotate, Rotating, NextScopes
    <3> QED BY <2>2, <3>1 DEF redeemRefreshToken, RevokeFamily, Refuse, TokenStep
  <2>3. CASE \E k \in Code : createAuthorizationCode(r, k)
    BY <2>3 DEF createAuthorizationCode, TokenStep
  <2>4. CASE consumeAuthorizationCode(r) \/ CheckExchange(r)
    BY <2>4 DEF consumeAuthorizationCode, CheckExchange, TokenStep
  <2>5. CASE signAccessToken(r) \/ Answer(r)
    BY <2>5 DEF signAccessToken, Answer, TokenStep
  <2> QED BY <1>2, <2>1, <2>2, <2>3, <2>4, <2>5 DEF Step
<1>3. ASSUME NEW r \in Request,
             \/ \E c \in Client, scopes \in SUBSET Scope : ResolveForCode(r, c, scopes)
             \/ \E k \in Code, proven \in BOOLEAN : ResolveForExchange(r, k, proven)
             \/ \E t \in Token, scopes \in SUBSET Scope : ResolveForRefresh(r, t, scopes)
             \/ Stop(r)
      PROVE  TokenStep
  BY <1>3 DEF ResolveForCode, ResolveForExchange, ResolveForRefresh, Stop, TokenStep
<1>4. CASE \E c \in Client, scopes \in SUBSET Scope : registerDynamicClient(c, scopes)
  BY <1>4 DEF registerDynamicClient, TokenStep
<1>5. CASE Tick
  BY <1>5 DEF Tick, TokenStep
<1> QED BY <1>1, <1>2, <1>3, <1>4, <1>5 DEF Next

-----------------------------------------------------------------------------
(***************************************************************************)
(* Types.                                                                  *)
(***************************************************************************)
\* A step that moves one request and keeps every row.
Grows ==
  /\ DOMAIN allowed \subseteq DOMAIN allowed'
  /\ DOMAIN codes \subseteq DOMAIN codes'
  /\ DOMAIN tokens \subseteq DOMAIN tokens'

LEMMA Moved ==
  ASSUME TypeOK, RequestInv, NEW r \in Request, NEW row, Go(r, row), Grows,
         row \in RequestRow', RowFine(row, DOMAIN allowed', DOMAIN codes', DOMAIN tokens')
  PROVE  request' \in [Request -> RequestRow'] /\ RequestInv'
<1> USE DEF Grows
<1>1. /\ request'[r] = row
      /\ \A q \in Request \ {r} : request'[q] = request[q]
      /\ request' \in [Request -> RequestRow']
  BY GoFacts
<1>2. \A q \in Request \ {r} : RowFine(request'[q], DOMAIN allowed', DOMAIN codes', DOMAIN tokens')
  BY <1>1 DEF RequestInv, RowFine
<1> QED BY <1>1, <1>2 DEF RequestInv

LEMMA Ended ==
  ASSUME TypeOK, RequestInv, NEW r \in Request, End(r), Grows
  PROVE  request' \in [Request -> RequestRow'] /\ RequestInv'
<1>1. Idle \in RequestRow' /\ RowFine(Idle, DOMAIN allowed', DOMAIN codes', DOMAIN tokens')
  BY IdleTyped, RequestRowGrows DEF RowFine, Idle, Grows
<1> QED BY <1>1, Moved DEF End

Tables ==
  /\ DOMAIN allowed \subseteq Client /\ allowed \in [DOMAIN allowed -> SUBSET Scope]
  /\ DOMAIN codes \subseteq Code /\ codes \in [DOMAIN codes -> CodeRow]
  /\ {revoked, known, replayed, harmed} \subseteq SUBSET DOMAIN tokens
  /\ granted \in [Code -> SUBSET DOMAIN tokens]
  /\ ClientsKnown

\* A step that leaves the tokens alone.
LEMMA StillTyped ==
  ASSUME Typed, request' \in [Request -> RequestRow'], RequestInv', Tables', UNCHANGED tokens
  PROVE  Typed'
<1>1. TypeOK'
  BY DEF Typed, TypeOK, Tables
<1>2. Contiguous' /\ FamiliesKnown'
  BY DEF Typed, Contiguous, Drawn, FamiliesKnown, Family
<1> QED BY <1>1, <1>2 DEF Typed, Tables

LEMMA SameTables ==
  ASSUME Typed, UNCHANGED <<allowed, codes, tokens, granted>>,
         {revoked', known', replayed', harmed'} \subseteq SUBSET DOMAIN tokens
  PROVE  Tables' /\ Grows
BY DEF Typed, TypeOK, Tables, ClientsKnown, Grows

LEMMA InitTyped == Init => Typed
<1> SUFFICES ASSUME Init PROVE Typed
  OBVIOUS
<1>1. DOMAIN tokens = {} /\ DOMAIN codes = {} /\ DOMAIN allowed = {}
  BY DEF Init
<1>2. Drawn = 1
  BY <1>1, FS_EmptySet DEF Drawn
<1>3. Contiguous
  BY <1>1, <1>2 DEF Contiguous
<1>4. RequestInv
  BY DEF Init, RequestInv, RowFine, Idle
<1>5. request \in [Request -> RequestRow]
  BY IdleTyped DEF Init
<1>6. TypeOK
  BY <1>1, <1>5 DEF Init, TypeOK
<1>7. ClientsKnown /\ FamiliesKnown
  BY <1>1 DEF ClientsKnown, FamiliesKnown
<1> QED BY <1>3, <1>4, <1>6, <1>7 DEF Typed

LEMMA RegisterStep ==
  ASSUME Typed, NEW c \in Client, NEW scopes \in SUBSET Scope, registerDynamicClient(c, scopes)
  PROVE  Typed'
<1>1. /\ DOMAIN allowed' = DOMAIN allowed \cup {c}
      /\ allowed' \in [DOMAIN allowed' -> SUBSET Scope]
  BY WithFacts, WithTyped DEF registerDynamicClient, Typed, TypeOK
<1>2. Tables'
  BY <1>1 DEF registerDynamicClient, history, Tables, Typed, TypeOK, ClientsKnown
<1>3. RequestRow' = RequestRow
  BY DEF registerDynamicClient, RequestRow
<1>4. request' \in [Request -> RequestRow'] /\ RequestInv'
  BY <1>1, <1>3 DEF registerDynamicClient, Typed, TypeOK, RequestInv, RowFine
<1> QED BY <1>2, <1>4, StillTyped DEF registerDynamicClient

LEMMA AuthorizeSteps ==
  ASSUME Typed, NEW r \in Request
  PROVE  /\ \A c \in Client, scopes \in SUBSET Scope : ResolveForCode(r, c, scopes) => Typed'
         /\ \A k \in Code : createAuthorizationCode(r, k) => Typed'
<1>0. /\ TypeOK /\ RequestInv /\ request[r] \in RequestRow
      /\ RowFine(request[r], DOMAIN allowed, DOMAIN codes, DOMAIN tokens)
  BY DEF Typed, TypeOK, RequestInv
<1>1. ASSUME NEW c \in Client, NEW scopes \in SUBSET Scope, ResolveForCode(r, c, scopes)
      PROVE  Typed'
  <2> DEFINE row == [Idle EXCEPT !.pc = "authorize", !.client = c, !.scopes = scopes]
  <2>1. Tables' /\ Grows
    BY <1>0, <1>1, SameTables DEF ResolveForCode, TypeOK, history
  <2>2. row \in RequestRow' /\ RowFine(row, DOMAIN allowed', DOMAIN codes', DOMAIN tokens')
    BY <1>1 DEF Idle, RequestRow, RowFine, ResolveForCode
  <2>3. request' \in [Request -> RequestRow'] /\ RequestInv'
    BY <1>0, <1>1, <2>1, <2>2, Moved DEF ResolveForCode
  <2> QED BY <1>1, <2>1, <2>3, StillTyped DEF ResolveForCode
<1>2. ASSUME NEW k \in Code, createAuthorizationCode(r, k)
      PROVE  Typed'
  <2> DEFINE row == [client |-> request[r].client, scopes |-> request[r].scopes,
                     life |-> CodeLifetime, consumed |-> FALSE]
  <2>1. request[r].client \in DOMAIN allowed
    BY <1>0, <1>2 DEF createAuthorizationCode, RowFine
  <2>2. row \in CodeRow
    BY <1>0, <2>1, GrantAssumption DEF TypeOK, RequestRow, CodeRow
  <2>3. codes' = With(codes, k, row)
    BY <1>2 DEF createAuthorizationCode
  <2>4. /\ DOMAIN codes' = DOMAIN codes \cup {k}
        /\ codes' \in [DOMAIN codes' -> CodeRow]
    BY <1>0, <2>2, <2>3, WithFacts, WithTyped DEF TypeOK
  <2>7. \A x \in DOMAIN codes' : codes'[x].client \in DOMAIN allowed
    <3>1. codes'[k] = row /\ \A x \in DOMAIN codes : x # k => codes'[x] = codes[x]
      BY <1>2, <2>3 DEF With, createAuthorizationCode
    <3> QED BY <2>1, <2>4, <3>1 DEF Typed, ClientsKnown
  <2>5. Tables' /\ Grows
    BY <1>0, <1>2, <2>4, <2>7
       DEF createAuthorizationCode, Tables, Grows, Typed, TypeOK, ClientsKnown, history
  <2>6. request' \in [Request -> RequestRow'] /\ RequestInv'
    BY <1>0, <1>2, <2>5, Ended DEF createAuthorizationCode
  <2> QED BY <1>2, <2>5, <2>6, StillTyped DEF createAuthorizationCode
<1> QED BY <1>1, <1>2

LEMMA ExchangeSteps ==
  ASSUME Typed, NEW r \in Request
  PROVE  /\ \A k \in Code, proven \in BOOLEAN : ResolveForExchange(r, k, proven) => Typed'
         /\ consumeAuthorizationCode(r) => Typed'
         /\ CheckExchange(r) => Typed'
<1>0. /\ TypeOK /\ RequestInv /\ request[r] \in RequestRow
      /\ RowFine(request[r], DOMAIN allowed, DOMAIN codes, DOMAIN tokens)
  BY DEF Typed, TypeOK, RequestInv
<1>1. ASSUME NEW k \in Code, NEW proven \in BOOLEAN, ResolveForExchange(r, k, proven)
      PROVE  Typed'
  <2> DEFINE row == [Idle EXCEPT !.pc = "consume", !.client = codes[k].client, !.code = k,
                                 !.allowed = allowed[codes[k].client], !.proven = proven]
  <2>1. codes[k].client \in DOMAIN allowed /\ codes[k].client \in Client
    BY <1>0, <1>1 DEF ResolveForExchange, Typed, ClientsKnown, TypeOK
  <2>2. allowed[codes[k].client] \in SUBSET Scope
    BY <1>0, <2>1 DEF TypeOK
  <2>3. Tables' /\ Grows
    BY <1>0, <1>1, SameTables DEF ResolveForExchange, TypeOK, history
  <2>4. row \in RequestRow' /\ RowFine(row, DOMAIN allowed', DOMAIN codes', DOMAIN tokens')
    BY <1>1, <2>1, <2>2 DEF Idle, RequestRow, RowFine, ResolveForExchange
  <2>5. request' \in [Request -> RequestRow'] /\ RequestInv'
    BY <1>0, <1>1, <2>3, <2>4, Moved DEF ResolveForExchange
  <2> QED BY <1>1, <2>3, <2>5, StillTyped DEF ResolveForExchange
<1>2. ASSUME consumeAuthorizationCode(r)
      PROVE  Typed'
  <2> DEFINE k == request[r].code
  <2>1. k \in DOMAIN codes
    BY <1>0, <1>2 DEF consumeAuthorizationCode, RowFine
  <2>2. \/ codes' = [codes EXCEPT ![k].consumed = TRUE]
        \/ codes' = codes
    BY <1>2 DEF consumeAuthorizationCode
  <2>3. /\ DOMAIN codes' = DOMAIN codes /\ codes' \in [DOMAIN codes -> CodeRow]
        /\ \A x \in DOMAIN codes : codes'[x].client = codes[x].client
    <3>1. [codes[k] EXCEPT !.consumed = TRUE] \in CodeRow
      BY <1>0, <2>1 DEF TypeOK, CodeRow
    <3>2. CASE codes' = [codes EXCEPT ![k].consumed = TRUE]
      BY <1>0, <2>1, <3>1, <3>2 DEF TypeOK, CodeRow
    <3>3. CASE codes' = codes
      BY <1>0, <3>3 DEF TypeOK
    <3> QED BY <2>2, <3>2, <3>3
  <2>4. Tables' /\ Grows
    BY <1>0, <1>2, <2>3
       DEF consumeAuthorizationCode, Tables, Grows, Typed, TypeOK, ClientsKnown, history
  <2>5. ASSUME Go(r, [request[r] EXCEPT !.pc = "verify"])
        PROVE  request' \in [Request -> RequestRow'] /\ RequestInv'
    <3>1. [request[r] EXCEPT !.pc = "verify"] \in RequestRow'
      BY <1>0, <2>4, RequestRowGrows DEF RequestRow, Grows
    <3>2. RowFine([request[r] EXCEPT !.pc = "verify"],
                  DOMAIN allowed', DOMAIN codes', DOMAIN tokens')
      BY <1>0, <1>2, <2>4 DEF consumeAuthorizationCode, RowFine, RequestRow, Grows
    <3> QED BY <1>0, <2>4, <2>5, <3>1, <3>2, Moved
  <2>6. request' \in [Request -> RequestRow'] /\ RequestInv'
    BY <1>0, <1>2, <2>4, <2>5, Ended DEF consumeAuthorizationCode
  <2> QED BY <1>2, <2>4, <2>6, StillTyped DEF consumeAuthorizationCode
<1>3. ASSUME CheckExchange(r)
      PROVE  Typed'
  <2>1. Tables' /\ Grows
    BY <1>0, <1>3, SameTables DEF CheckExchange, TypeOK, history
  <2>2. ASSUME Go(r, [request[r] EXCEPT !.pc = "issue"])
        PROVE  request' \in [Request -> RequestRow'] /\ RequestInv'
    <3>1. [request[r] EXCEPT !.pc = "issue"] \in RequestRow'
      BY <1>0, <2>1, RequestRowGrows DEF RequestRow, Grows
    <3>2. RowFine([request[r] EXCEPT !.pc = "issue"],
                  DOMAIN allowed', DOMAIN codes', DOMAIN tokens')
      BY <1>0, <1>3, <2>1 DEF CheckExchange, RowFine, RequestRow, Grows
    <3> QED BY <1>0, <2>1, <2>2, <3>1, <3>2, Moved
  <2>3. request' \in [Request -> RequestRow'] /\ RequestInv'
    BY <1>0, <1>3, <2>1, <2>2, Ended DEF CheckExchange
  <2> QED BY <1>3, <2>1, <2>3, StillTyped DEF CheckExchange
<1> QED BY <1>1, <1>2, <1>3

\* A step that inserts one token.
LEMMA InsertTyped ==
  ASSUME Typed, NEW r \in Request, NEW table, NEW row, NEW req,
         Drawn \in Token, tokens' = With(table, Drawn, row),
         DOMAIN table = DOMAIN tokens, table \in [DOMAIN tokens -> TokenRow], row \in TokenRow,
         \A t \in DOMAIN tokens : /\ table[t].client = tokens[t].client
                                  /\ table[t].family = tokens[t].family,
         row.client \in DOMAIN allowed, row.family \in DOMAIN tokens \cup {Drawn},
         UNCHANGED <<allowed, codes, revoked, known, replayed, harmed>>,
         granted' \in [Code -> SUBSET DOMAIN tokens'],
         Go(r, req), req \in RequestRow',
         RowFine(req, DOMAIN allowed', DOMAIN codes', DOMAIN tokens')
  PROVE  /\ Typed' /\ DOMAIN tokens' = DOMAIN tokens \cup {Drawn}
<1>0. TypeOK /\ Contiguous /\ RequestInv
  BY DEF Typed
<1>1. DOMAIN tokens' = DOMAIN tokens \cup {Drawn} /\ tokens' \in [DOMAIN tokens' -> TokenRow]
  BY DEF With
<1>2. Contiguous'
  BY <1>0, <1>1, DrawnNext
<1>3. Grows
  BY <1>1 DEF Grows
<1>4. request' \in [Request -> RequestRow'] /\ RequestInv'
  BY <1>0, <1>3, Moved
<1>5. ClientsKnown' /\ FamiliesKnown'
  <2>1. /\ tokens'[Drawn] = row
        /\ \A t \in DOMAIN tokens : t # Drawn => tokens'[t] = table[t]
    BY DEF With
  <2>2. \A t \in DOMAIN tokens' : tokens'[t].client \in DOMAIN allowed
    BY <1>1, <2>1 DEF Typed, ClientsKnown
  <2>3. \A t \in DOMAIN tokens' : tokens'[t].family \in DOMAIN tokens'
    BY <1>1, <2>1 DEF Typed, FamiliesKnown, Family
  <2> QED BY <2>2, <2>3 DEF Typed, ClientsKnown, FamiliesKnown, Family
<1>6. TypeOK'
  BY <1>0, <1>1, <1>4 DEF TypeOK
<1> QED BY <1>1, <1>2, <1>4, <1>5, <1>6 DEF Typed

LEMMA IssueStep ==
  ASSUME Typed, NEW r \in Request, issueRefreshToken(r)
  PROVE  Typed'
<1> DEFINE k == request[r].code
           row == NewToken(Drawn, NoToken, codes[k].client, codes[k].scopes)
           req == [request[r] EXCEPT !.issued = Drawn]
<1>0. /\ TypeOK /\ Contiguous /\ request[r] \in RequestRow
      /\ RowFine(request[r], DOMAIN allowed, DOMAIN codes, DOMAIN tokens)
      /\ request[r].pc = "issue" /\ Drawn \in Token /\ tokens' = With(tokens, Drawn, row)
      /\ Go(r, req)
  BY DEF Typed, TypeOK, RequestInv, issueRefreshToken
<1>1. k \in DOMAIN codes /\ codes[k] \in CodeRow /\ codes[k].client \in DOMAIN allowed
  BY <1>0 DEF RowFine, TypeOK, Typed, ClientsKnown
<1>2. row \in TokenRow /\ row.client \in DOMAIN allowed /\ row.family = Drawn
  BY <1>0, <1>1, GrantAssumption DEF NewToken, TokenRow, CodeRow
<1>3. DOMAIN tokens' = DOMAIN tokens \cup {Drawn}
  BY <1>0 DEF With
<1>4. granted' \in [Code -> SUBSET DOMAIN tokens']
  BY <1>0, <1>3 DEF issueRefreshToken, TypeOK
<1>5. UNCHANGED codes /\ DOMAIN codes = DOMAIN codes'
  BY DEF issueRefreshToken
<1>6. req \in RequestRow'
  BY <1>0, <1>3, <1>5 DEF RequestRow
<1>7. RowFine(req, DOMAIN allowed', DOMAIN codes', DOMAIN tokens')
  BY <1>0, <1>1, <1>5 DEF RequestRow, RowFine, NoToken
<1> QED
  BY <1>0, <1>2, <1>4, <1>6, <1>7, InsertTyped DEF issueRefreshToken, TypeOK

LEMMA RotateStep ==
  ASSUME Typed, NEW r \in Request, redeemRefreshToken(r), Rotating(r), Rotate(r, request[r].token)
  PROVE  Typed'
<1> DEFINE t == request[r].token
           row == NewToken(Family(t), t, tokens[t].client, NextScopes(r))
           req == [request[r] EXCEPT !.pc = "sign", !.issued = Drawn]
           table == [tokens EXCEPT ![t].consumed = TRUE]
<1>0. /\ TypeOK /\ Contiguous /\ request[r] \in RequestRow
      /\ RowFine(request[r], DOMAIN allowed, DOMAIN codes, DOMAIN tokens)
      /\ request[r].pc = "redeem" /\ Drawn \in Token /\ tokens' = With(table, Drawn, row)
      /\ Go(r, req)
  BY DEF Typed, TypeOK, RequestInv, Rotating, Rotate
<1>1. t \in DOMAIN tokens /\ tokens[t] \in TokenRow /\ tokens[t].client \in DOMAIN allowed
  BY <1>0 DEF RowFine, TypeOK, Typed, ClientsKnown
<1>2. NextScopes(r) \in SUBSET Scope
  BY <1>0, <1>1 DEF NextScopes, TokenRow, RequestRow
<1>3. row \in TokenRow /\ row.client \in DOMAIN allowed /\ row.family \in DOMAIN tokens
  <2>1. Family(t) \in DOMAIN tokens
    BY <1>1 DEF Typed, FamiliesKnown
  <2> QED BY <1>0, <1>1, <1>2, <2>1, GrantAssumption DEF NewToken, TokenRow, TypeOK
<1>4. /\ DOMAIN table = DOMAIN tokens /\ table \in [DOMAIN tokens -> TokenRow]
      /\ \A x \in DOMAIN tokens : /\ table[x].client = tokens[x].client
                                  /\ table[x].family = tokens[x].family
  BY <1>0, <1>1 DEF TypeOK, TokenRow
<1>5. DOMAIN tokens' = DOMAIN tokens \cup {Drawn}
  BY <1>0, <1>4 DEF With
<1>6. UNCHANGED <<allowed, codes, known, history, revoked>>
  BY DEF redeemRefreshToken, Rotate, history
<1>7. granted' \in [Code -> SUBSET DOMAIN tokens']
  BY <1>0, <1>5, <1>6 DEF TypeOK, history
<1>8. req \in RequestRow'
  BY <1>0, <1>5, <1>6 DEF RequestRow
<1>9. RowFine(req, DOMAIN allowed', DOMAIN codes', DOMAIN tokens')
  BY <1>0, DrawnFresh DEF RequestRow, RowFine, NoToken
<1> QED
  BY <1>0, <1>3, <1>4, <1>6, <1>7, <1>8, <1>9, InsertTyped DEF history

LEMMA RedeemStep ==
  ASSUME Typed, NEW r \in Request, redeemRefreshToken(r)
  PROVE  Typed'
<1> DEFINE t == request[r].token
<1>0. TypeOK /\ RequestInv /\ t \in DOMAIN tokens
  BY DEF Typed, TypeOK, RequestInv, RowFine, redeemRefreshToken
<1>1. CASE /\ Status(t) = "active" /\ MayGrant(t, request[r].scopes, request[r].allowed)
           /\ Rotate(r, t)
  <2>1. Rotating(r)
    BY <1>1 DEF redeemRefreshToken, Rotating, Rotate, NextScopes
  <2> QED BY <1>1, <2>1, RotateStep
<1>2. CASE RevokeFamily(r, Family(t)) \/ Refuse(r)
  <2>1. /\ UNCHANGED <<allowed, codes, tokens, granted, known, harmed>> /\ End(r)
        /\ revoked' \in {revoked, revoked \cup {Family(t)}}
        /\ replayed' \in {replayed, replayed \cup {Family(t)}}
    BY <1>2 DEF redeemRefreshToken, RevokeFamily, Refuse
  <2>2. Family(t) \in DOMAIN tokens
    BY <1>0 DEF Typed, FamiliesKnown
  <2>3. Tables' /\ Grows
    BY <1>0, <2>1, <2>2, SameTables DEF TypeOK
  <2>4. request' \in [Request -> RequestRow'] /\ RequestInv'
    BY <1>0, <2>1, <2>3, Ended
  <2> QED BY <2>1, <2>3, <2>4, StillTyped
<1> QED BY <1>1, <1>2 DEF redeemRefreshToken

\* Of the requests that present a token, the family is noted.
LEMMA PresentStep ==
  ASSUME Typed, NEW r \in Request, NEW t \in Token, NEW scopes \in SUBSET Scope,
         ResolveForRefresh(r, t, scopes)
  PROVE  Typed'
<1> DEFINE row == [Idle EXCEPT !.pc = "redeem", !.client = tokens[t].client, !.token = t,
                               !.allowed = allowed[tokens[t].client], !.scopes = scopes]
<1>0. TypeOK /\ RequestInv /\ t \in DOMAIN tokens
  BY DEF Typed, TypeOK, ResolveForRefresh
<1>1. /\ tokens[t].client \in DOMAIN allowed /\ tokens[t].client \in Client
      /\ allowed[tokens[t].client] \in SUBSET Scope
      /\ Family(t) \in DOMAIN tokens
  BY <1>0 DEF Typed, TypeOK, ClientsKnown, FamiliesKnown
<1>2. Tables' /\ Grows
  BY <1>0, <1>1, SameTables DEF ResolveForRefresh, TypeOK
<1>3. row \in RequestRow'
  BY <1>0, <1>1 DEF ResolveForRefresh, Idle, RequestRow
<1>4. RowFine(row, DOMAIN allowed', DOMAIN codes', DOMAIN tokens')
  BY <1>0 DEF ResolveForRefresh, Idle, RowFine
<1>5. request' \in [Request -> RequestRow'] /\ RequestInv'
  BY <1>0, <1>2, <1>3, <1>4, Moved DEF ResolveForRefresh
<1> QED BY <1>2, <1>5, StillTyped DEF ResolveForRefresh

LEMMA AnswerSteps ==
  ASSUME Typed, NEW r \in Request
  PROVE  /\ signAccessToken(r) => Typed'
         /\ Answer(r) => Typed'
         /\ Stop(r) => Typed'
<1> DEFINE i == request[r].issued
<1>0. /\ TypeOK /\ RequestInv /\ request[r] \in RequestRow
      /\ RowFine(request[r], DOMAIN allowed, DOMAIN codes, DOMAIN tokens)
      /\ i # NoToken => i \in DOMAIN tokens /\ Family(i) \in DOMAIN tokens
  BY DEF Typed, TypeOK, RequestInv, RequestRow, FamiliesKnown
<1>1. ASSUME signAccessToken(r)
      PROVE  Typed'
  <2>1. Tables' /\ Grows
    BY <1>0, <1>1, SameTables DEF signAccessToken, TypeOK, history
  <2>2. PICK outcome \in {"signed", "refused"} : Go(r, [request[r] EXCEPT !.signed = outcome])
    BY <1>1 DEF signAccessToken
  <2>3. [request[r] EXCEPT !.signed = outcome] \in RequestRow'
    BY <1>0, <2>1, RequestRowGrows DEF RequestRow, Grows
  <2>4. RowFine([request[r] EXCEPT !.signed = outcome],
                DOMAIN allowed', DOMAIN codes', DOMAIN tokens')
    BY <1>0, <2>1 DEF RowFine, RequestRow, Grows
  <2>5. request' \in [Request -> RequestRow'] /\ RequestInv'
    BY <1>0, <2>1, <2>2, <2>3, <2>4, Moved
  <2> QED BY <1>1, <2>1, <2>5, StillTyped DEF signAccessToken
<1>2. ASSUME Answer(r) \/ Stop(r)
      PROVE  Typed'
  <2>1. /\ UNCHANGED <<allowed, codes, tokens, granted, revoked, replayed>> /\ End(r)
        /\ known' \subseteq known \cup {i} /\ (i = NoToken => known' = known)
        /\ harmed' \subseteq harmed \cup {Family(i)} /\ (i = NoToken => harmed' = harmed)
    BY <1>2 DEF Answer, Stop, Harm
  <2>2. Tables' /\ Grows
    BY <1>0, <2>1, SameTables DEF TypeOK
  <2>3. request' \in [Request -> RequestRow'] /\ RequestInv'
    BY <1>0, <2>1, <2>2, Ended
  <2> QED BY <2>1, <2>2, <2>3, StillTyped
<1> QED BY <1>1, <1>2

\* A tick changes the life of each row and nothing else.
LEMMA CodesAge ==
  ASSUME TypeOK
  PROVE  LET table == Aged(codes) IN
         /\ DOMAIN table = DOMAIN codes /\ table \in [DOMAIN codes -> CodeRow]
         /\ \A k \in DOMAIN codes :
              /\ table[k].client = codes[k].client /\ table[k].scopes = codes[k].scopes
              /\ table[k].consumed = codes[k].consumed /\ table[k].life <= codes[k].life
<1>1. ASSUME NEW k \in DOMAIN codes
      PROVE  LET row == [codes[k] EXCEPT !.life = IF @ > 0 THEN @ - 1 ELSE 0] IN
             /\ row \in CodeRow /\ row.client = codes[k].client /\ row.scopes = codes[k].scopes
             /\ row.consumed = codes[k].consumed /\ row.life <= codes[k].life
  BY GrantAssumption DEF TypeOK, CodeRow
<1> QED BY <1>1 DEF Aged

LEMMA TokensAge ==
  ASSUME TypeOK
  PROVE  LET table == Aged(tokens) IN
         /\ DOMAIN table = DOMAIN tokens /\ table \in [DOMAIN tokens -> TokenRow]
         /\ \A t \in DOMAIN tokens :
              /\ table[t].client = tokens[t].client /\ table[t].scopes = tokens[t].scopes
              /\ table[t].family = tokens[t].family /\ table[t].parent = tokens[t].parent
              /\ table[t].consumed = tokens[t].consumed /\ table[t].life <= tokens[t].life
<1>1. ASSUME NEW t \in DOMAIN tokens
      PROVE  LET row == [tokens[t] EXCEPT !.life = IF @ > 0 THEN @ - 1 ELSE 0] IN
             /\ row \in TokenRow /\ row.client = tokens[t].client /\ row.scopes = tokens[t].scopes
             /\ row.family = tokens[t].family /\ row.parent = tokens[t].parent
             /\ row.consumed = tokens[t].consumed /\ row.life <= tokens[t].life
  BY GrantAssumption DEF TypeOK, TokenRow
<1> QED BY <1>1 DEF Aged

LEMMA TickStep ==
  ASSUME Typed, Tick
  PROVE  Typed'
<1>0. TypeOK /\ codes' = Aged(codes) /\ tokens' = Aged(tokens)
  BY DEF Typed, Tick
<1>1. /\ DOMAIN codes' = DOMAIN codes /\ DOMAIN tokens' = DOMAIN tokens
      /\ codes' \in [DOMAIN codes -> CodeRow]
      /\ \A k \in DOMAIN codes : codes'[k].client = codes[k].client
  BY <1>0, CodesAge, TokensAge
<1>2. /\ tokens' \in [DOMAIN tokens -> TokenRow]
      /\ \A t \in DOMAIN tokens : /\ tokens'[t].client = tokens[t].client
                                   /\ tokens'[t].family = tokens[t].family
  BY <1>0, TokensAge
<1>3. RequestRow' = RequestRow
  BY <1>1 DEF RequestRow
<1>4. TypeOK'
  BY <1>0, <1>1, <1>2, <1>3 DEF Tick, TypeOK, history
<1>5. RequestInv'
  BY <1>1 DEF Typed, RequestInv, RowFine, Tick
<1>6. Contiguous'
  BY <1>1 DEF Typed, Contiguous, Drawn
<1>7. ClientsKnown' /\ FamiliesKnown'
  BY <1>1, <1>2 DEF Typed, ClientsKnown, FamiliesKnown, Family, Tick
<1> QED BY <1>4, <1>5, <1>6, <1>7 DEF Typed

LEMMA TypedStep == Typed /\ [Next]_vars => Typed'
<1> SUFFICES ASSUME Typed, [Next]_vars PROVE Typed'
  OBVIOUS
<1>1. CASE UNCHANGED vars
  <2>1. RequestRow' = RequestRow
    BY <1>1 DEF RequestRow, vars
  <2> QED
    BY <1>1, <2>1 DEF vars, history, Typed, TypeOK, Contiguous, Drawn, RequestInv,
                      ClientsKnown, FamiliesKnown, Family
<1>2. CASE \E c \in Client, scopes \in SUBSET Scope : registerDynamicClient(c, scopes)
  BY <1>2, RegisterStep
<1>3. CASE Tick
  BY <1>3, TickStep
<1>4. ASSUME NEW r \in Request,
             \/ \E c \in Client, scopes \in SUBSET Scope : ResolveForCode(r, c, scopes)
             \/ \E k \in Code, proven \in BOOLEAN : ResolveForExchange(r, k, proven)
             \/ \E t \in Token, scopes \in SUBSET Scope : ResolveForRefresh(r, t, scopes)
             \/ Step(r)
             \/ Stop(r)
      PROVE  Typed'
  BY <1>4, AuthorizeSteps, ExchangeSteps, IssueStep, RedeemStep, PresentStep, AnswerSteps DEF Step
<1> QED BY <1>1, <1>2, <1>3, <1>4 DEF Next

LEMMA TypedAlways == Spec => []Typed
<1>1. Init => Typed
  BY InitTyped
<1>2. Typed /\ [Next]_vars => Typed'
  BY TypedStep
<1> QED BY <1>1, <1>2, PTL DEF Spec

-----------------------------------------------------------------------------
(***************************************************************************)
(* The line of a family.                                                   *)
(***************************************************************************)
IssueFacts(r) ==
  /\ DOMAIN tokens' = DOMAIN tokens \cup {Drawn}
  /\ \A t \in DOMAIN tokens : tokens'[t] = tokens[t]
  /\ tokens'[Drawn].family = Drawn /\ tokens'[Drawn].parent = NoToken
  /\ tokens'[Drawn].consumed = FALSE
  /\ tokens'[Drawn].scopes = codes[request[r].code].scopes
  /\ tokens'[Drawn].client = codes[request[r].code].client

RotateFacts(r) ==
  LET t == request[r].token
  IN  /\ DOMAIN tokens' = DOMAIN tokens \cup {Drawn}
      /\ t \in DOMAIN tokens /\ Usable(t)
      /\ tokens[t].scopes \subseteq request[r].allowed
      /\ \A x \in DOMAIN tokens \ {t} : tokens'[x] = tokens[x]
      /\ tokens'[t].family = Family(t) /\ tokens'[t].parent = tokens[t].parent
      /\ tokens'[t].scopes = tokens[t].scopes /\ tokens'[t].consumed = TRUE
      /\ tokens'[Drawn].family = Family(t) /\ tokens'[Drawn].parent = t
      /\ tokens'[Drawn].consumed = FALSE
      /\ tokens'[Drawn].scopes \subseteq tokens[t].scopes
      /\ tokens'[Drawn].client = tokens[t].client

LEMMA IssueRows ==
  ASSUME Typed, NEW r \in Request, Issuing(r)
  PROVE  IssueFacts(r)
BY DrawnFresh DEF Typed, Issuing, IssueFacts, With, NewToken

LEMMA RotateRows ==
  ASSUME Typed, NEW r \in Request, Rotating(r)
  PROVE  RotateFacts(r)
<1> DEFINE t == request[r].token
           table == [tokens EXCEPT ![t].consumed = TRUE]
           row == NewToken(Family(t), t, tokens[t].client, NextScopes(r))
<1>1. t \in DOMAIN tokens /\ Drawn \notin DOMAIN tokens /\ TypeOK
  BY DrawnFresh DEF Typed, RequestInv, RowFine, Rotating
<1>2. /\ tokens' = With(table, Drawn, row)
      /\ Status(t) = "active" /\ MayGrant(t, request[r].scopes, request[r].allowed)
  BY DEF Rotating
<1>3. /\ DOMAIN table = DOMAIN tokens
      /\ \A x \in DOMAIN tokens \ {t} : table[x] = tokens[x]
      /\ table[t] = [tokens[t] EXCEPT !.consumed = TRUE]
  BY <1>1 DEF TypeOK
<1>4. /\ DOMAIN tokens' = DOMAIN tokens \cup {Drawn}
      /\ \A x \in DOMAIN tokens : tokens'[x] = table[x]
      /\ tokens'[Drawn] = row
  <2> HIDE DEF table, row
  <2> QED BY <1>1, <1>2, <1>3 DEF With
<1>5. /\ table[t].family = Family(t) /\ table[t].parent = tokens[t].parent
      /\ table[t].scopes = tokens[t].scopes /\ table[t].consumed = TRUE
  BY <1>1, <1>3 DEF TypeOK, TokenRow, Family
<1>6. Usable(t)
  <2>1. tokens[t].life \in Nat /\ tokens[t].consumed \in BOOLEAN
    BY <1>1, GrantAssumption DEF TypeOK, TokenRow
  <2> QED BY <1>2, <2>1 DEF Status, Usable
<1>7. NextScopes(r) \subseteq tokens[t].scopes /\ tokens[t].scopes \subseteq request[r].allowed
  BY <1>2 DEF MayGrant, NextScopes
<1>8. /\ row.family = Family(t) /\ row.parent = t /\ row.consumed = FALSE
      /\ row.scopes = NextScopes(r) /\ row.client = tokens[t].client
  BY DEF NewToken
<1> HIDE DEF table, row
<1> QED BY <1>1, <1>3, <1>4, <1>5, <1>6, <1>7, <1>8 DEF RotateFacts

Line ==
  /\ \A t \in DOMAIN tokens : tokens[t].parent # NoToken =>
       LET p == tokens[t].parent
       IN  /\ p \in DOMAIN tokens /\ tokens[p].consumed /\ Family(p) = Family(t)
           /\ tokens[t].scopes \subseteq tokens[p].scopes
  /\ \A t, u \in DOMAIN tokens :
       tokens[t].parent # NoToken /\ tokens[t].parent = tokens[u].parent => t = u
  /\ \A t \in DOMAIN tokens : tokens[t].consumed => \E u \in DOMAIN tokens : tokens[u].parent = t
  /\ \A t, u \in DOMAIN tokens :
       Family(t) = Family(u) /\ ~tokens[t].consumed /\ ~tokens[u].consumed => t = u

LEMMA InitLine == Init => Line
BY DEF Init, Line

LEMMA LineStep == Typed /\ Line /\ TokenStep => Line'
<1> SUFFICES ASSUME Typed, Line, TokenStep PROVE Line'
  OBVIOUS
<1>0. /\ Drawn \notin DOMAIN tokens /\ NoToken \notin DOMAIN tokens
      /\ \A t \in DOMAIN tokens : Family(t) \in DOMAIN tokens /\ tokens[t].consumed \in BOOLEAN
  BY DrawnFresh DEF Typed, FamiliesKnown, TypeOK, TokenRow, Token, NoToken
<1>1. CASE tokens' = tokens
  BY <1>1 DEF Line, Family
<1>2. ASSUME NEW r \in Request, Issuing(r)
      PROVE  Line'
  <2>1. IssueFacts(r)
    BY <1>2, IssueRows
  <2> QED BY <1>0, <2>1 DEF Line, Family, IssueFacts
<1>3. ASSUME NEW r \in Request, Rotating(r)
      PROVE  Line'
  <2> DEFINE t == request[r].token
  <2>1. RotateFacts(r)
    BY <1>3, RotateRows
  <2>2. ~tokens[t].consumed /\ t # Drawn /\ t # NoToken
    BY <1>0, <2>1 DEF RotateFacts, Usable
  <2>3. \A x \in DOMAIN tokens : /\ tokens'[x].family = Family(x)
                                 /\ tokens'[x].parent = tokens[x].parent
                                 /\ tokens'[x].scopes = tokens[x].scopes
                                 /\ x # t => tokens'[x].consumed = tokens[x].consumed
    BY <2>1 DEF RotateFacts, Family
  <2>4. \A x \in DOMAIN tokens : tokens[x].parent # t
    BY <2>2 DEF Line
  <2>5. ASSUME NEW x \in DOMAIN tokens', tokens'[x].parent # NoToken
        PROVE  LET p == tokens'[x].parent
               IN  /\ p \in DOMAIN tokens' /\ tokens'[p].consumed
                   /\ tokens'[p].family = tokens'[x].family
                   /\ tokens'[x].scopes \subseteq tokens'[p].scopes
    BY <2>1, <2>2, <2>3, <2>5 DEF RotateFacts, Line, Family
  <2>6. ASSUME NEW x \in DOMAIN tokens', NEW y \in DOMAIN tokens',
               tokens'[x].parent # NoToken, tokens'[x].parent = tokens'[y].parent
        PROVE  x = y
    BY <2>1, <2>2, <2>3, <2>4, <2>6 DEF RotateFacts, Line
  <2>7. ASSUME NEW x \in DOMAIN tokens', tokens'[x].consumed
        PROVE  \E u \in DOMAIN tokens' : tokens'[u].parent = x
    BY <2>1, <2>2, <2>3, <2>7 DEF RotateFacts, Line
  <2>8. ASSUME NEW x \in DOMAIN tokens', NEW y \in DOMAIN tokens',
               tokens'[x].family = tokens'[y].family,
               ~tokens'[x].consumed, ~tokens'[y].consumed
        PROVE  x = y
    <3>1. \A z \in DOMAIN tokens' : ~tokens'[z].consumed =>
            z = Drawn \/ (z \in DOMAIN tokens \ {t} /\ ~tokens[z].consumed)
      BY <2>1, <2>3 DEF RotateFacts
    <3>2. tokens'[Drawn].family = Family(t) /\ t \in DOMAIN tokens
      BY <2>1 DEF RotateFacts
    <3>3. \A z \in DOMAIN tokens \ {t} : ~tokens[z].consumed => Family(z) # Family(t)
      BY <2>2, <3>2 DEF Line
    <3> QED BY <2>3, <2>8, <3>1, <3>2, <3>3 DEF Line
  <2> QED BY <2>5, <2>6, <2>7, <2>8 DEF Line, Family
<1>4. CASE tokens' = Aged(tokens)
  <2>1. /\ DOMAIN tokens' = DOMAIN tokens
        /\ \A t \in DOMAIN tokens :
             /\ tokens'[t].family = Family(t) /\ tokens'[t].parent = tokens[t].parent
             /\ tokens'[t].scopes = tokens[t].scopes /\ tokens'[t].consumed = tokens[t].consumed
    BY <1>4, TokensAge DEF Typed, Family
  <2> QED BY <2>1 DEF Line, Family
<1> QED BY <1>1, <1>2, <1>3, <1>4 DEF TokenStep

LEMMA LineAlways == Spec => []Line
<1>1. Init => Line
  BY InitLine
<1>2. Typed /\ Line /\ [Next]_vars => Line'
  BY StepKinds, LineStep
<1> QED BY <1>1, <1>2, TypedAlways, PTL DEF Spec

LEMMA AtMostOne ==
  ASSUME NEW S, \A x, y \in S : x = y
  PROVE  Cardinality(S) \in Nat /\ Cardinality(S) <= 1
<1>1. CASE S = {}
  BY <1>1, FS_EmptySet
<1>2. CASE S # {}
  <2>1. PICK x \in S : TRUE
    BY <1>2
  <2>2. S = {x}
    BY <2>1
  <2> QED BY <2>2, FS_Singleton
<1> QED BY <1>1, <1>2

LEMMA ExactlyOne ==
  ASSUME NEW S, NEW x \in S, \A y \in S : x = y
  PROVE  Cardinality(S) = 1
<1>1. S = {x}
  OBVIOUS
<1> QED BY <1>1, FS_Singleton

LEMMA LineIsOne == Typed /\ Line => OneLine
<1> SUFFICES ASSUME Typed, Line PROVE OneLine
  OBVIOUS
<1>0. \A t \in DOMAIN tokens : tokens[t].consumed \in BOOLEAN /\ t # NoToken
  BY DEF Typed, TypeOK, TokenRow, Token, NoToken
<1>1. ASSUME NEW f \in DOMAIN tokens
      PROVE  Cardinality({t \in TokensOf(f) : Usable(t)}) <= 1
  BY AtMostOne DEF Line, TokensOf, Usable
<1>2. ASSUME NEW t \in DOMAIN tokens
      PROVE  Cardinality(Successors(t)) = IF tokens[t].consumed THEN 1 ELSE 0
  <2>1. CASE tokens[t].consumed
    <3>1. PICK u \in DOMAIN tokens : tokens[u].parent = t
      BY <2>1 DEF Line
    <3>2. u \in Successors(t) /\ \A y \in Successors(t) : u = y
      BY <1>0, <3>1 DEF Successors, Line
    <3> QED BY <2>1, <3>2, ExactlyOne
  <2>2. CASE ~tokens[t].consumed
    <3>1. Successors(t) = {}
      BY <1>0, <2>2 DEF Successors, Line
    <3> QED BY <2>2, <3>1, FS_EmptySet
  <2> QED BY <2>1, <2>2
<1> QED BY <1>1, <1>2 DEF OneLine

\* No family has two tokens that can be redeemed, and a used token has one
\* successor, for any number of overlapping requests (redeemRefreshToken).
THEOREM FamiliesAreLines == Spec => []OneLine
BY TypedAlways, LineAlways, LineIsOne, PTL

\* Every reachable state of the grant tables is well typed.
THEOREM TypesKept == Spec => []TypeOK
<1>1. Typed => TypeOK
  BY DEF Typed
<1> QED BY <1>1, TypedAlways, PTL

-----------------------------------------------------------------------------
(***************************************************************************)
(* The end of a family.                                                    *)
(***************************************************************************)
ReplayRevoked == replayed \subseteq revoked

LEMMA InitReplay == Init => ReplayRevoked
BY DEF Init, ReplayRevoked

LEMMA ReplayStep == ReplayRevoked /\ [Next]_vars => ReplayRevoked'
<1> SUFFICES ASSUME ReplayRevoked, [Next]_vars PROVE ReplayRevoked'
  OBVIOUS
<1>1. ASSUME NEW r \in Request, redeemRefreshToken(r)
      PROVE  ReplayRevoked'
  BY <1>1 DEF redeemRefreshToken, Rotate, RevokeFamily, Refuse, ReplayRevoked
<1>2. UNCHANGED <<replayed, revoked>> => ReplayRevoked'
  BY DEF ReplayRevoked
<1>3. ASSUME NEW r \in Request, Step(r)
      PROVE  ReplayRevoked'
  BY <1>1, <1>2, <1>3 DEF Step, createAuthorizationCode, consumeAuthorizationCode, CheckExchange,
                          issueRefreshToken, signAccessToken, Answer, history
<1>4. CASE UNCHANGED vars
  BY <1>2, <1>4 DEF vars, history
<1> QED
  BY <1>2, <1>3, <1>4 DEF Next, registerDynamicClient, ResolveForCode, ResolveForExchange,
                          ResolveForRefresh, Stop, Tick, history

LEMMA ReplayAlways == Spec => []ReplayRevoked
<1>1. ReplayRevoked /\ [Next]_vars => ReplayRevoked'
  BY ReplayStep
<1> QED BY <1>1, InitReplay, PTL DEF Spec

\* A family of which a used token was presented gets no further token,
\* whatever requests were under way (revokeFamilyAndFail).
THEOREM ReplayIsFinal == Spec => ReplayEndsGrant
<1>1. ASSUME Typed, ReplayRevoked, TokenStep, NEW f \in replayed
      PROVE  TokensOf(f)' = TokensOf(f)
  <2>0. f \in DOMAIN tokens /\ Drawn \notin DOMAIN tokens /\ f \in revoked
    BY <1>1, DrawnFresh DEF Typed, TypeOK, ReplayRevoked
  <2>1. CASE tokens' = tokens
    BY <2>1 DEF TokensOf, Family
  <2>2. ASSUME NEW r \in Request, Issuing(r)
        PROVE  TokensOf(f)' = TokensOf(f)
    BY <1>1, <2>0, <2>2, IssueRows DEF IssueFacts, TokensOf, Family
  <2>3. ASSUME NEW r \in Request, Rotating(r)
        PROVE  TokensOf(f)' = TokensOf(f)
    <3>1. RotateFacts(r)
      BY <1>1, <2>3, RotateRows
    <3> QED BY <2>0, <3>1 DEF RotateFacts, Usable, TokensOf, Family
  <2>4. CASE tokens' = Aged(tokens)
    <3>1. /\ DOMAIN tokens' = DOMAIN tokens
          /\ \A t \in DOMAIN tokens : tokens'[t].family = tokens[t].family
      BY <1>1, <2>4, TokensAge DEF Typed
    <3> QED BY <3>1 DEF TokensOf, Family
  <2> QED BY <1>1, <2>1, <2>2, <2>3, <2>4 DEF TokenStep
<1>2. Typed /\ ReplayRevoked /\ [Next]_vars => [\A f \in replayed : TokensOf(f)' = TokensOf(f)]_vars
  BY <1>1, StepKinds
<1> QED BY <1>2, TypedAlways, ReplayAlways, PTL DEF Spec, ReplayEndsGrant

\* However a family ended, a request that looked at it before does not revive
\* it (getMcpOAuthRefreshTokenStatus, inside the mutation that rotates).
THEOREM NoRevival == Spec => DeadGrantStaysDead
<1>1. ASSUME Typed, TokenStep, NEW f \in DOMAIN tokens, Dead(f)
      PROVE  Dead(f)'
  <2>0. Drawn \notin DOMAIN tokens
    BY <1>1, DrawnFresh DEF Typed
  <2>1. CASE tokens' = tokens /\ revoked \subseteq revoked'
    BY <1>1, <2>1 DEF Dead, TokensOf, Family, Usable
  <2>2. ASSUME NEW r \in Request, Issuing(r)
        PROVE  Dead(f)'
    <3>1. IssueFacts(r) /\ revoked' = revoked
      BY <1>1, <2>2, IssueRows DEF Issuing
    <3> QED BY <1>1, <2>0, <3>1 DEF IssueFacts, Dead, TokensOf, Family, Usable
  <2>3. ASSUME NEW r \in Request, Rotating(r)
        PROVE  Dead(f)'
    <3>1. RotateFacts(r) /\ revoked' = revoked
      BY <1>1, <2>3, RotateRows DEF Rotating
    <3>2. Family(request[r].token) # f
      BY <1>1, <3>1 DEF RotateFacts, Dead, TokensOf
    <3> QED BY <1>1, <3>1, <3>2 DEF RotateFacts, Dead, TokensOf, Family, Usable
  <2>4. CASE tokens' = Aged(tokens) /\ revoked' = revoked
    <3>1. /\ DOMAIN tokens' = DOMAIN tokens
          /\ \A t \in DOMAIN tokens : /\ tokens'[t].family = tokens[t].family
                                       /\ tokens'[t].consumed = tokens[t].consumed
                                       /\ tokens'[t].life <= tokens[t].life
                                       /\ tokens[t].life \in Nat /\ tokens'[t].life \in Nat
      BY <1>1, <2>4, TokensAge, GrantAssumption DEF Typed, TypeOK, TokenRow
    <3> QED BY <1>1, <2>4, <3>1 DEF Dead, TokensOf, Family, Usable
  <2> QED BY <1>1, <2>1, <2>2, <2>3, <2>4 DEF TokenStep
<1>2. Typed /\ [Next]_vars => [\A f \in DOMAIN tokens : Dead(f) => Dead(f)']_vars
  BY <1>1, StepKinds
<1> QED BY <1>2, TypedAlways, PTL DEF Spec, DeadGrantStaysDead

-----------------------------------------------------------------------------
(***************************************************************************)
(* The refinement.  A step that leaves the new id unaccepted is an End,    *)
(* whatever it revokes or outdates; the other two insert a token, and      *)
(* leave every token usable except the one a redemption uses up.           *)
(***************************************************************************)
LEMMA AcceptedRows ==
  /\ \A t : t \in DOMAIN Accepted <=> t \in DOMAIN tokens /\ Usable(t)
  /\ \A t \in DOMAIN Accepted : Accepted[t] = [family |-> Family(t), owner |-> tokens[t].client]
  /\ Accepted = [t \in DOMAIN Accepted |-> Accepted[t]]
BY DEF Accepted

LEMMA AcceptedRowsNext ==
  /\ \A t : t \in DOMAIN Accepted' <=>
              /\ t \in DOMAIN tokens'
              /\ tokens'[t].family \notin revoked' /\ tokens'[t].life > 0 /\ ~tokens'[t].consumed
  /\ \A t \in DOMAIN Accepted' :
       Accepted'[t] = [family |-> tokens'[t].family, owner |-> tokens'[t].client]
  /\ Accepted' = [t \in DOMAIN Accepted' |-> Accepted'[t]]
BY DEF Accepted, Usable, Family

LEMMA NextLine == Lines!NextName = Drawn /\ (Cardinality(DOMAIN tokens))' = Cardinality(DOMAIN tokens')
BY DEF Lines!NextName, Drawn

\* Rows that stay as they are, with nothing new revoked, stay accepted.
LEMMA LineEnter ==
  ASSUME Typed, NEW S, revoked' = revoked,
         DOMAIN tokens' = DOMAIN tokens \cup {Drawn},
         \A x \in DOMAIN tokens \ S : tokens'[x] = tokens[x],
         \A x \in S : x \in DOMAIN tokens /\ tokens'[x].consumed,
         Drawn \in DOMAIN Accepted'
  PROVE  Lines!Enter(S, Accepted'[Drawn])
<1>1. Drawn \notin DOMAIN tokens /\ Contiguous /\ TypeOK
  BY DrawnFresh DEF Typed
<1>2. \A x \in DOMAIN tokens \ S :
        /\ x \in DOMAIN Accepted' <=> x \in DOMAIN Accepted
        /\ x \in DOMAIN Accepted => Accepted'[x] = Accepted[x]
  BY AcceptedRows, AcceptedRowsNext DEF Usable, Family
<1>3. DOMAIN Accepted' = (DOMAIN Accepted \ S) \cup {Drawn}
  <2>1. \A x \in S : x \notin DOMAIN Accepted'
    BY AcceptedRowsNext
  <2> QED BY <1>1, <1>2, <2>1, AcceptedRows, AcceptedRowsNext
<1>4. \A x \in DOMAIN Accepted' : Accepted'[x] = IF x = Drawn THEN Accepted'[Drawn] ELSE Accepted[x]
  BY <1>1, <1>2, <1>3, AcceptedRows
<1>5. Accepted' = [x \in DOMAIN Accepted' |-> IF x = Drawn THEN Accepted'[Drawn] ELSE Accepted[x]]
  BY <1>4, AcceptedRowsNext
<1>6. Cardinality(DOMAIN tokens') = Drawn
  <2>1. Drawn' = Drawn + 1 /\ Drawn \in Nat /\ Cardinality(DOMAIN tokens) \in Nat
    BY <1>1, DrawnNext, DrawnFinite
  <2>2. Cardinality(DOMAIN tokens') \in Int
    BY <1>1, FS_AddElement, DrawnFinite
  <2> QED BY <2>1, <2>2 DEF Drawn
<1> QED BY <1>3, <1>5, <1>6, NextLine DEF Lines!Enter

LEMMA LineEnd ==
  ASSUME \A t \in DOMAIN Accepted' : t \in DOMAIN Accepted /\ Accepted'[t] = Accepted[t],
         DOMAIN tokens' = DOMAIN tokens
  PROVE  Lines!End
<1>1. Accepted' = [t \in DOMAIN Accepted' |-> Accepted[t]]
  BY AcceptedRowsNext
<1> QED BY <1>1, NextLine DEF Lines!End

LEMMA LineOpens ==
  ASSUME Typed, NEW r \in Request, Issuing(r)
  PROVE  Lines!LineageNext
<1>1. IssueFacts(r) /\ revoked' = revoked /\ Drawn \notin DOMAIN tokens /\ TypeOK
  BY IssueRows, DrawnFresh DEF Issuing, Typed
<1>2. tokens'[Drawn].life > 0
  BY GrantAssumption DEF Issuing, With, NewToken
<1>3. Drawn \notin revoked
  BY <1>1 DEF TypeOK
<1>4. Drawn \in DOMAIN Accepted'
  BY <1>1, <1>2, <1>3, AcceptedRowsNext DEF IssueFacts
<1>5. PICK client : client = codes[request[r].code].client
  OBVIOUS
<1>6. client \in Client
  BY <1>5 DEF Issuing, Typed, TypeOK, RequestInv, RowFine, CodeRow
<1>7. Accepted'[Drawn] = [family |-> Drawn, owner |-> client]
  BY <1>1, <1>4, <1>5, AcceptedRowsNext DEF IssueFacts
<1>8. Lines!Enter({}, [family |-> Drawn, owner |-> client])
  <2>1. Lines!Enter({}, Accepted'[Drawn])
    BY <1>1, <1>4, LineEnter DEF IssueFacts
  <2> QED BY <1>7, <2>1
<1> QED BY <1>6, <1>8, NextLine DEF Lines!Open, Lines!LineageNext

LEMMA LineReplaces ==
  ASSUME Typed, NEW r \in Request, Rotating(r)
  PROVE  Lines!LineageNext
<1>1. PICK t : t = request[r].token
  OBVIOUS
<1>2. RotateFacts(r) /\ revoked' = revoked /\ Drawn \notin DOMAIN tokens
  BY RotateRows, DrawnFresh DEF Rotating, Typed
<1>3. t \in DOMAIN Accepted
  BY <1>1, <1>2, AcceptedRows DEF RotateFacts
<1>4. tokens'[Drawn].life > 0
  BY GrantAssumption DEF Rotating, With, NewToken
<1>5. Drawn \in DOMAIN Accepted'
  BY <1>1, <1>2, <1>4, AcceptedRowsNext DEF RotateFacts, Usable
<1>6. Accepted'[Drawn] = Accepted[t]
  BY <1>1, <1>2, <1>3, <1>5, AcceptedRows, AcceptedRowsNext DEF RotateFacts
<1>7. Lines!Enter({t}, Accepted[t])
  <2>1. Lines!Enter({t}, Accepted'[Drawn])
    BY <1>1, <1>2, <1>5, LineEnter DEF RotateFacts
  <2> QED BY <1>6, <2>1
<1> QED BY <1>3, <1>7 DEF Lines!Replace, Lines!LineageNext

LEMMA LineAges ==
  ASSUME Typed, tokens' = Aged(tokens), revoked' = revoked
  PROVE  Lines!End
<1>1. /\ DOMAIN tokens' = DOMAIN tokens
      /\ \A t \in DOMAIN tokens : /\ tokens'[t].family = tokens[t].family
                                   /\ tokens'[t].client = tokens[t].client
                                   /\ tokens'[t].consumed = tokens[t].consumed
                                   /\ tokens'[t].life <= tokens[t].life
                                   /\ tokens[t].life \in Nat /\ tokens'[t].life \in Nat
  BY TokensAge, GrantAssumption DEF Typed, TypeOK, TokenRow, Aged
<1> QED BY <1>1, LineEnd, AcceptedRows, AcceptedRowsNext DEF Usable, Family

\* An authorization-code exchange opens a grant, a redemption continues it in
\* the same transaction that uses the presented token up, and no other step of
\* any endpoint, request or clock lets a token be redeemed: the refresh tokens
\* of the MCP server and of the OIDC provider implement Lineage.
THEOREM GrantsKeepLine == Spec => KeepsLine
<1>1. Init => Lines!LineageInit
  <2> SUFFICES ASSUME Init PROVE Lines!LineageInit
    OBVIOUS
  <2>1. DOMAIN tokens = {}
    BY DEF Init
  <2>2. DOMAIN Accepted = {}
    BY <2>1, AcceptedRows
  <2>3. Accepted = [t \in {} |-> Accepted[t]]
    BY <2>2, AcceptedRows
  <2>4. [t \in {} |-> Accepted[t]] = [s \in {} |-> 0]
    OBVIOUS
  <2> QED BY <2>1, <2>3, <2>4, FS_EmptySet DEF Lines!LineageInit
<1>2. ASSUME Typed, TokenStep
      PROVE  Lines!LineageNext
  <2>1. CASE tokens' = tokens /\ revoked \subseteq revoked'
    BY <2>1, LineEnd, AcceptedRows, AcceptedRowsNext DEF Usable, Family, Lines!LineageNext
  <2>2. CASE tokens' = Aged(tokens) /\ revoked' = revoked
    BY <1>2, <2>2, LineAges DEF Lines!LineageNext
  <2> QED BY <1>2, <2>1, <2>2, LineOpens, LineReplaces DEF TokenStep
<1>3. Typed /\ [Next]_vars => [Lines!LineageNext]_(Lines!lineageVars)
  BY <1>2, StepKinds
<1> QED BY <1>1, <1>3, TypedAlways, PTL DEF Spec, KeepsLine, Lines!LineageSpec

-----------------------------------------------------------------------------
(***************************************************************************)
(* Codes and scopes.                                                       *)
(***************************************************************************)
\* A request that has consumed its code and not issued a token yet.
Pending(row) == row.pc = "verify" \/ (row.pc = "issue" /\ row.issued = NoToken)

\* The code of a pending request is its own.
CodeHeld(r) ==
  /\ codes[request[r].code].consumed = TRUE
  /\ granted[request[r].code] = {}
  /\ \A q \in Request : Pending(request[q]) /\ request[q].code = request[r].code => q = r

\* A code of which a family was issued is consumed and names no other.
CodeSpent(k) ==
  /\ k \in DOMAIN codes /\ codes[k].consumed = TRUE
  /\ \A f \in granted[k] : tokens[f].scopes \subseteq codes[k].scopes
  /\ \A f, g \in granted[k] : f = g

CodeInv ==
  /\ \A r \in Request : Pending(request[r]) => CodeHeld(r)
  /\ \A k \in Code : granted[k] # {} => CodeSpent(k)

\* What a request may issue, and what it has issued.
WithinAllowed(row, codeRows, tokenRows) ==
  /\ row.pc = "issue" => codeRows[row.code].scopes \subseteq row.allowed
  /\ row.issued # NoToken => tokenRows[row.issued].scopes \subseteq row.allowed

AllowedInv == \A r \in Request : WithinAllowed(request[r], codes, tokens)

ScopeInv == CodeInv /\ AllowedInv

LEMMA InitScope == Init => ScopeInv
BY DEF Init, ScopeInv, CodeInv, AllowedInv, Pending, WithinAllowed, Idle

\* Rows keep their scopes, and codes that are consumed stay so.
CodeLasts(k) ==
  /\ k \in DOMAIN codes' /\ codes'[k].scopes = codes[k].scopes
  /\ codes[k].consumed = TRUE => codes'[k].consumed = TRUE

TokenLasts(t) == t \in DOMAIN tokens' /\ tokens'[t].scopes = tokens[t].scopes

Lasting ==
  /\ \A k \in DOMAIN codes : CodeLasts(k)
  /\ \A t \in DOMAIN tokens : TokenLasts(t)

\* A step after which no request is pending that was not, and no family is new.
LEMMA QuietStep ==
  ASSUME Typed, ScopeInv, Lasting, UNCHANGED granted,
         \A r \in Request :
           /\ Pending(request'[r]) => Pending(request[r]) /\ request'[r].code = request[r].code
           /\ WithinAllowed(request'[r], codes', tokens')
  PROVE  ScopeInv'
<1>1. AllowedInv'
  BY DEF AllowedInv, WithinAllowed
<1>2. \A r \in Request : Pending(request[r]) => request[r].code \in DOMAIN codes
  BY DEF Typed, RequestInv, RowFine, Pending
<1>3. ASSUME NEW r \in Request, Pending(request'[r])
      PROVE  CodeHeld(r)'
  <2>1. CodeHeld(r) /\ request'[r].code = request[r].code /\ request[r].code \in DOMAIN codes
    BY <1>2, <1>3 DEF ScopeInv, CodeInv
  <2>2. CodeLasts(request[r].code)
    BY <2>1 DEF Lasting
  <2> QED BY <2>1, <2>2 DEF CodeHeld, CodeLasts
<1>4. ASSUME NEW k \in Code, granted'[k] # {}
      PROVE  CodeSpent(k)'
  <2>1. CodeSpent(k)
    BY <1>4 DEF ScopeInv, CodeInv
  <2>2. granted[k] \subseteq DOMAIN tokens
    BY DEF Typed, TypeOK
  <2>3. CodeLasts(k) /\ \A f \in granted[k] : TokenLasts(f)
    BY <2>1, <2>2 DEF CodeSpent, Lasting
  <2> QED BY <2>1, <2>3 DEF CodeSpent, CodeLasts, TokenLasts
<1>5. CodeInv'
  BY <1>3, <1>4 DEF CodeInv, Pending
<1> QED BY <1>1, <1>5 DEF ScopeInv

LEMMA AllowedLasts ==
  ASSUME Typed, ScopeInv, Lasting, NEW r \in Request
  PROVE  WithinAllowed(request[r], codes', tokens')
<1>1. /\ request[r].pc = "issue" => request[r].code \in DOMAIN codes
      /\ request[r].issued # NoToken => request[r].issued \in DOMAIN tokens
  BY DEF Typed, RequestInv, RowFine, TypeOK, RequestRow
<1>2. WithinAllowed(request[r], codes, tokens)
  BY DEF ScopeInv, AllowedInv
<1>3. /\ request[r].pc = "issue" => CodeLasts(request[r].code)
      /\ request[r].issued # NoToken => TokenLasts(request[r].issued)
  BY <1>1 DEF Lasting
<1> QED BY <1>2, <1>3 DEF WithinAllowed, CodeLasts, TokenLasts

\* One request moves, to a row that is not pending and has issued nothing.
LEMMA FreshRow ==
  ASSUME Typed, ScopeInv, Lasting, UNCHANGED granted, NEW r \in Request, NEW row, Go(r, row),
         row.pc \notin {"verify", "issue"}, row.issued = NoToken
  PROVE  ScopeInv'
<1>1. /\ request'[r] = row /\ \A q \in Request \ {r} : request'[q] = request[q]
  BY GoFacts DEF Typed
<1>2. ~Pending(row) /\ WithinAllowed(row, codes', tokens')
  BY DEF Pending, WithinAllowed
<1> QED BY <1>1, <1>2, AllowedLasts, QuietStep

LEMMA SameLasts ==
  ASSUME UNCHANGED <<codes, tokens>>
  PROVE  Lasting
BY DEF Lasting, CodeLasts, TokenLasts

LEMMA FreshSteps ==
  ASSUME Typed, ScopeInv, NEW r \in Request,
         \/ \E c \in Client, scopes \in SUBSET Scope : ResolveForCode(r, c, scopes)
         \/ \E k \in Code, proven \in BOOLEAN : ResolveForExchange(r, k, proven)
         \/ \E t \in Token, scopes \in SUBSET Scope : ResolveForRefresh(r, t, scopes)
         \/ Answer(r)
         \/ Stop(r)
  PROVE  ScopeInv'
<1>1. UNCHANGED <<codes, tokens, granted>>
  BY DEF ResolveForCode, ResolveForExchange, ResolveForRefresh, Answer, Stop, history
<1>2. ASSUME NEW c \in Client, NEW scopes \in SUBSET Scope, ResolveForCode(r, c, scopes)
      PROVE  ScopeInv'
  BY <1>1, <1>2, SameLasts, FreshRow DEF ResolveForCode, Idle
<1>3. ASSUME NEW k \in Code, NEW proven \in BOOLEAN, ResolveForExchange(r, k, proven)
      PROVE  ScopeInv'
  BY <1>1, <1>3, SameLasts, FreshRow DEF ResolveForExchange, Idle
<1>4. ASSUME NEW t \in Token, NEW scopes \in SUBSET Scope, ResolveForRefresh(r, t, scopes)
      PROVE  ScopeInv'
  BY <1>1, <1>4, SameLasts, FreshRow DEF ResolveForRefresh, Idle
<1>5. CASE Answer(r) \/ Stop(r)
  BY <1>1, <1>5, SameLasts, FreshRow DEF Answer, Stop, End, Idle
<1> QED BY <1>2, <1>3, <1>4, <1>5

LEMMA CreateScope ==
  ASSUME Typed, ScopeInv, NEW r \in Request, NEW k \in Code, createAuthorizationCode(r, k)
  PROVE  ScopeInv'
<1>1. Lasting /\ UNCHANGED granted
  BY DEF createAuthorizationCode, With, Lasting, CodeLasts, TokenLasts, history
<1> QED BY <1>1, FreshRow DEF createAuthorizationCode, End, Idle

LEMMA ConsumeScope ==
  ASSUME Typed, ScopeInv, NEW r \in Request, consumeAuthorizationCode(r)
  PROVE  ScopeInv'
<1> DEFINE k == request[r].code
           row == [request[r] EXCEPT !.pc = "verify"]
<1>0. /\ TypeOK /\ k \in DOMAIN codes /\ k \in Code /\ codes[k] \in CodeRow
      /\ request[r] \in RequestRow /\ request[r].pc = "consume" /\ request[r].issued = NoToken
      /\ UNCHANGED <<tokens, granted>>
  BY DEF Typed, RequestInv, RowFine, TypeOK, consumeAuthorizationCode, history
<1>1. CASE CanConsume(k) /\ codes' = [codes EXCEPT ![k].consumed = TRUE] /\ Go(r, row)
  <2>1. /\ DOMAIN codes' = DOMAIN codes
        /\ \A x \in DOMAIN codes \ {k} : codes'[x] = codes[x]
        /\ codes'[k] = [codes[k] EXCEPT !.consumed = TRUE]
    BY <1>0, <1>1 DEF TypeOK
  <2>2. codes'[k].scopes = codes[k].scopes /\ codes'[k].consumed = TRUE
    BY <1>0, <2>1 DEF CodeRow
  <2>3. Lasting
    BY <1>0, <2>1, <2>2 DEF Lasting, CodeLasts, TokenLasts
  <2>4. ~codes[k].consumed
    BY <1>1 DEF CanConsume
  <2>5. granted[k] = {} /\ \A q \in Request : Pending(request[q]) => request[q].code # k
    BY <1>0, <2>4 DEF ScopeInv, CodeInv, CodeHeld, CodeSpent
  <2>6. /\ request'[r] = row /\ \A q \in Request \ {r} : request'[q] = request[q]
    BY <1>0, <1>1, GoFacts
  <2>7. /\ row.pc = "verify" /\ row.code = k /\ row.issued = NoToken
    BY <1>0 DEF RequestRow
  <2>8. \A q \in Request : WithinAllowed(request'[q], codes', tokens')
    BY <2>3, <2>6, <2>7, AllowedLasts DEF WithinAllowed
  <2>9. \A q \in Request \ {r} : Pending(request[q]) => request[q].code \in DOMAIN codes
    BY DEF Typed, RequestInv, RowFine, Pending
  <2>10. ASSUME NEW q \in Request, Pending(request'[q])
         PROVE  CodeHeld(q)'
    <3>0. \A p \in Request \ {r} : Pending(request'[p]) => Pending(request[p])
      BY <2>6
    <3>1. CASE q = r
      BY <1>0, <2>2, <2>5, <2>6, <2>7, <3>0, <3>1 DEF CodeHeld
    <3>2. CASE q # r
      <4>1. Pending(request[q]) /\ CodeHeld(q) /\ request'[q].code = request[q].code
        BY <2>6, <2>10, <3>2 DEF ScopeInv, CodeInv
      <4>2. request[q].code # k /\ request[q].code \in DOMAIN codes
        BY <2>5, <2>9, <3>2, <4>1
      <4> HIDE DEF row
      <4>3. CodeLasts(request[q].code)
        BY <2>3, <4>2 DEF Lasting
      <4> QED BY <1>0, <2>6, <2>7, <3>0, <4>1, <4>2, <4>3 DEF CodeHeld, CodeLasts
    <3> QED BY <3>1, <3>2
  <2>11. ASSUME NEW x \in Code, granted'[x] # {}
         PROVE  CodeSpent(x)'
    <3>1. CodeSpent(x) /\ granted[x] \subseteq DOMAIN tokens
      BY <1>0, <2>11 DEF ScopeInv, CodeInv, TypeOK
    <3>2. CodeLasts(x) /\ \A f \in granted[x] : TokenLasts(f)
      BY <2>3, <3>1 DEF CodeSpent, Lasting
    <3> QED BY <1>0, <3>1, <3>2 DEF CodeSpent, CodeLasts, TokenLasts
  <2> QED BY <2>8, <2>10, <2>11 DEF ScopeInv, CodeInv, AllowedInv, Pending, WithinAllowed
<1>2. CASE UNCHANGED codes /\ End(r)
  BY <1>0, <1>2, SameLasts, FreshRow DEF End, Idle
<1> QED BY <1>1, <1>2 DEF consumeAuthorizationCode

LEMMA CheckScope ==
  ASSUME Typed, ScopeInv, NEW r \in Request, CheckExchange(r)
  PROVE  ScopeInv'
<1> DEFINE k == request[r].code
           row == [request[r] EXCEPT !.pc = "issue"]
<1>0. /\ TypeOK /\ UNCHANGED <<codes, tokens, granted>> /\ Lasting
      /\ request[r] \in RequestRow /\ request[r].pc = "verify" /\ request[r].issued = NoToken
  BY SameLasts DEF Typed, TypeOK, RequestInv, RowFine, CheckExchange, history
<1>1. CASE codes[k].scopes \subseteq request[r].allowed /\ Go(r, row)
  <2>1. /\ request'[r] = row /\ \A q \in Request \ {r} : request'[q] = request[q]
    BY <1>0, <1>1, GoFacts
  <2>2. /\ row.pc = "issue" /\ row.code = k /\ row.issued = NoToken
        /\ row.allowed = request[r].allowed
    BY <1>0 DEF RequestRow
  <2>3. Pending(request[r]) /\ WithinAllowed(row, codes', tokens')
    BY <1>0, <1>1, <2>2 DEF Pending, WithinAllowed
  <2> QED BY <1>0, <2>1, <2>2, <2>3, AllowedLasts, QuietStep
<1>2. CASE End(r)
  BY <1>0, <1>2, FreshRow DEF End, Idle
<1> QED BY <1>1, <1>2 DEF CheckExchange

\* A first token or the next one: the other rows last.
LEMMA InsertLasts ==
  ASSUME Typed, NEW r \in Request, UNCHANGED codes, IssueFacts(r) \/ RotateFacts(r)
  PROVE  Lasting
BY DEF IssueFacts, RotateFacts, Lasting, CodeLasts, TokenLasts

LEMMA IssueScope ==
  ASSUME Typed, ScopeInv, NEW r \in Request, issueRefreshToken(r)
  PROVE  ScopeInv'
<1> DEFINE k == request[r].code
           row == [request[r] EXCEPT !.issued = Drawn]
<1>0. /\ TypeOK /\ UNCHANGED codes /\ request[r] \in RequestRow
      /\ request[r].pc = "issue" /\ request[r].issued = NoToken /\ Go(r, row)
      /\ k \in DOMAIN codes /\ k \in Code
      /\ granted' = [granted EXCEPT ![k] = @ \cup {Drawn}]
  BY DEF Typed, TypeOK, RequestInv, RowFine, issueRefreshToken
<1>1. IssueFacts(r)
  BY IssueRows DEF issueRefreshToken, Issuing
<1>2. Lasting
  BY <1>0, <1>1, InsertLasts
<1>3. /\ request'[r] = row /\ \A q \in Request \ {r} : request'[q] = request[q]
  BY <1>0, GoFacts
<1>4. /\ row.pc = "issue" /\ row.code = k /\ row.issued = Drawn /\ Drawn # NoToken
      /\ row.allowed = request[r].allowed
  BY <1>0, DrawnFresh DEF RequestRow, Typed, NoToken
<1>5. Pending(request[r]) /\ CodeHeld(r) /\ WithinAllowed(request[r], codes, tokens)
  BY <1>0 DEF Pending, ScopeInv, CodeInv, AllowedInv
<1>6. granted[k] = {} /\ codes[k].consumed = TRUE /\ granted'[k] = {Drawn}
  BY <1>0, <1>5 DEF CodeHeld, TypeOK
<1>7. /\ tokens'[Drawn].scopes = codes[k].scopes /\ codes[k].scopes \subseteq row.allowed
  BY <1>0, <1>1, <1>4, <1>5 DEF IssueFacts, WithinAllowed
<1>8. ASSUME NEW q \in Request
      PROVE  WithinAllowed(request'[q], codes', tokens')
  <2>1. CASE q = r
    <3> HIDE DEF row
    <3> QED BY <1>0, <1>3, <1>4, <1>7, <2>1 DEF WithinAllowed
  <2>2. CASE q # r
    BY <1>2, <1>3, <2>2, AllowedLasts
  <2> QED BY <2>1, <2>2
<1>9. ASSUME NEW q \in Request, Pending(request'[q])
      PROVE  CodeHeld(q)'
  <2>1. q # r
    <3> HIDE DEF row
    <3> QED BY <1>3, <1>4, <1>9 DEF Pending
  <2>2. Pending(request[q]) /\ CodeHeld(q) /\ request'[q] = request[q]
    BY <1>3, <1>9, <2>1 DEF ScopeInv, CodeInv
  <2>3. request[q].code # k
    BY <1>5, <2>1, <2>2 DEF CodeHeld
  <2>4. \A p \in Request : Pending(request'[p]) => p # r /\ request'[p] = request[p]
    <3> HIDE DEF row
    <3> QED BY <1>3, <1>4 DEF Pending
  <2>5. granted'[request[q].code] = granted[request[q].code]
    BY <1>0, <2>3 DEF TypeOK
  <2> QED BY <1>0, <2>2, <2>4, <2>5 DEF CodeHeld
<1>10. ASSUME NEW x \in Code, granted'[x] # {}
       PROVE  CodeSpent(x)'
  <2>1. CASE x = k
    BY <1>0, <1>6, <1>7, <2>1 DEF CodeSpent
  <2>2. CASE x # k
    <3>1. granted'[x] = granted[x] /\ granted[x] \subseteq DOMAIN tokens
      BY <1>0, <2>2 DEF TypeOK
    <3>2. CodeSpent(x)
      BY <1>10, <3>1 DEF ScopeInv, CodeInv
    <3>3. CodeLasts(x) /\ \A f \in granted[x] : TokenLasts(f)
      BY <1>2, <3>1, <3>2 DEF CodeSpent, Lasting
    <3> QED BY <3>1, <3>2, <3>3 DEF CodeSpent, CodeLasts, TokenLasts
  <2> QED BY <2>1, <2>2
<1> QED BY <1>8, <1>9, <1>10 DEF ScopeInv, CodeInv, AllowedInv, Pending, WithinAllowed

LEMMA RedeemScope ==
  ASSUME Typed, ScopeInv, NEW r \in Request, redeemRefreshToken(r)
  PROVE  ScopeInv'
<1> DEFINE t == request[r].token
           row == [request[r] EXCEPT !.pc = "sign", !.issued = Drawn]
<1>0. /\ TypeOK /\ UNCHANGED <<codes, granted>> /\ request[r] \in RequestRow
  BY DEF Typed, TypeOK, redeemRefreshToken
<1>1. CASE Rotating(r) /\ Go(r, row)
  <2>1. RotateFacts(r)
    BY <1>1, RotateRows
  <2>2. Lasting
    BY <1>0, <2>1, InsertLasts
  <2>3. /\ request'[r] = row /\ \A q \in Request \ {r} : request'[q] = request[q]
    BY <1>0, <1>1, GoFacts
  <2>4. row.pc = "sign" /\ row.issued = Drawn /\ row.allowed = request[r].allowed
    BY <1>0 DEF RequestRow
  <2>5. tokens'[Drawn].scopes \subseteq row.allowed
    BY <2>1, <2>4 DEF RotateFacts
  <2>6. ~Pending(row) /\ WithinAllowed(row, codes', tokens')
    <3> HIDE DEF row
    <3> QED BY <2>4, <2>5 DEF Pending, WithinAllowed
  <2> QED BY <1>0, <2>2, <2>3, <2>6, AllowedLasts, QuietStep
<1>2. CASE End(r) /\ UNCHANGED tokens
  BY <1>0, <1>2, SameLasts, FreshRow DEF End, Idle
<1>3. \/ Rotating(r) /\ Go(r, row)
      \/ End(r) /\ UNCHANGED tokens
  BY DEF redeemRefreshToken, Rotate, Rotating, NextScopes, RevokeFamily, Refuse
<1> QED BY <1>1, <1>2, <1>3

LEMMA SignScope ==
  ASSUME Typed, ScopeInv, NEW r \in Request, signAccessToken(r)
  PROVE  ScopeInv'
<1>0. /\ TypeOK /\ request[r] \in RequestRow /\ UNCHANGED <<codes, tokens, granted>> /\ Lasting
  BY SameLasts DEF Typed, TypeOK, signAccessToken, history
<1>1. PICK outcome \in {"signed", "refused"} : Go(r, [request[r] EXCEPT !.signed = outcome])
  BY DEF signAccessToken
<1> DEFINE row == [request[r] EXCEPT !.signed = outcome]
<1>2. /\ request'[r] = row /\ \A q \in Request \ {r} : request'[q] = request[q]
  BY <1>0, <1>1, GoFacts
<1>3. /\ row.pc = request[r].pc /\ row.issued = request[r].issued /\ row.code = request[r].code
      /\ row.allowed = request[r].allowed
  BY <1>0 DEF RequestRow
<1>4. /\ Pending(row) => Pending(request[r])
      /\ WithinAllowed(row, codes', tokens')
  <2> HIDE DEF row
  <2>1. WithinAllowed(request[r], codes', tokens')
    BY <1>0, AllowedLasts
  <2> QED BY <1>3, <2>1 DEF Pending, WithinAllowed
<1> HIDE DEF row
<1> QED BY <1>0, <1>2, <1>3, <1>4, AllowedLasts, QuietStep

LEMMA ScopeStep == Typed /\ ScopeInv /\ [Next]_vars => ScopeInv'
<1> SUFFICES ASSUME Typed, ScopeInv, [Next]_vars PROVE ScopeInv'
  OBVIOUS
<1>1. ASSUME UNCHANGED request, UNCHANGED granted, Lasting
      PROVE  ScopeInv'
  BY <1>1, AllowedLasts, QuietStep
<1>2. CASE UNCHANGED vars
  BY <1>1, <1>2, SameLasts DEF vars, history
<1>3. CASE \E c \in Client, scopes \in SUBSET Scope : registerDynamicClient(c, scopes)
  BY <1>1, <1>3, SameLasts DEF registerDynamicClient, history
<1>4. CASE Tick
  <2>1. Lasting
    BY <1>4, CodesAge, TokensAge DEF Typed, Tick, Lasting, CodeLasts, TokenLasts
  <2> QED BY <1>1, <1>4, <2>1 DEF Tick, history
<1>5. ASSUME NEW r \in Request, Step(r)
      PROVE  ScopeInv'
  BY <1>5, CreateScope, ConsumeScope, CheckScope, IssueScope, RedeemScope, SignScope, FreshSteps
     DEF Step
<1> QED BY <1>2, <1>3, <1>4, <1>5, FreshSteps DEF Next

LEMMA ScopeAlways == Spec => []ScopeInv
<1>1. Typed /\ ScopeInv /\ [Next]_vars => ScopeInv'
  BY ScopeStep
<1> QED BY <1>1, InitScope, TypedAlways, PTL DEF Spec

\* However many requests exchange an authorization code at once, it opens one
\* family (consumeAuthorizationCode).
THEOREM CodesOpenOnce == Spec => []CodeSingleUse
<1>1. ScopeInv => CodeSingleUse
  <2> SUFFICES ASSUME ScopeInv, NEW k \in Code PROVE Cardinality(granted[k]) <= 1
    BY DEF CodeSingleUse
  <2> QED BY AtMostOne DEF ScopeInv, CodeInv, CodeSpent
<1> QED BY <1>1, ScopeAlways, PTL

\* A grant never widens from its code to the end of its line, nor beyond what
\* the client was registered for when it asked.
THEOREM GrantsNarrow == Spec => []ScopesNarrow
<1>1. Line /\ ScopeInv => ScopesNarrow
  BY DEF Line, ScopeInv, CodeInv, CodeSpent, AllowedInv, WithinAllowed, ScopesNarrow
<1> QED BY <1>1, LineAlways, ScopeAlways, PTL

-----------------------------------------------------------------------------
(***************************************************************************)
(* The client that does not race itself.                                   *)
(***************************************************************************)
\* A family is named by a token that is of it.
Named == \A t \in DOMAIN tokens : Family(Family(t)) = Family(t)

\* The token a request is about to redeem is unused, and presented only there.
OnlyHere(r) ==
  LET t == request[r].token
  IN  ~tokens[t].consumed /\ \A q \in Request \ {r} : request[q].token # t

PresentedOnce ==
  \A r \in Request : request[r].pc = "redeem" /\ Family(request[r].token) \notin harmed => OnlyHere(r)

\* The end of a line that its client has or is about to get.
InHand(t) ==
  /\ ~tokens[t].consumed
  /\ t \in known \/ \E r \in Request : request[r].issued = t

Held(f) == f \notin revoked /\ \E t \in TokensOf(f) : InHand(t)

Unharmed == \A f \in DOMAIN tokens : Family(f) = f /\ f \notin harmed => Held(f)

GrantInv == Named /\ PresentedOnce /\ Unharmed

LEMMA InitGrant == Init => GrantInv
BY DEF Init, GrantInv, Named, PresentedOnce, Unharmed, Idle

\* The line of every token stays as it is.
LinesStay ==
  /\ DOMAIN tokens' = DOMAIN tokens
  /\ \A t \in DOMAIN tokens : /\ tokens'[t].family = tokens[t].family
                              /\ tokens'[t].consumed = tokens[t].consumed

\* A request that presents nothing new, and whose token gets to the client or
\* is noted as lost.
Settled(q) ==
  /\ request'[q].pc = "redeem" => request[q].pc = "redeem" /\ request'[q].token = request[q].token
  /\ request'[q].token \in {request[q].token, NoToken}
  /\ \/ request[q].issued \in {NoToken, request'[q].issued}
     \/ request[q].issued \in known'
     \/ Family(request[q].issued) \in harmed'

LEMMA QuietGrant ==
  ASSUME Typed, GrantInv, LinesStay, revoked' \subseteq revoked \cup harmed',
         harmed \subseteq harmed', known \subseteq known', \A q \in Request : Settled(q)
  PROVE  GrantInv'
<1>0. /\ NoToken \notin DOMAIN tokens
      /\ \A t \in DOMAIN tokens : Family(t) \in DOMAIN tokens
      /\ \A q \in Request : request[q].pc = "redeem" => request[q].token \in DOMAIN tokens
  BY DEF Typed, FamiliesKnown, TypeOK, Token, NoToken, RequestInv, RowFine
<1>1. Named'
  BY <1>0 DEF GrantInv, Named, LinesStay, Family
<1>2. ASSUME NEW r \in Request, request'[r].pc = "redeem",
             tokens'[request'[r].token].family \notin harmed'
      PROVE  OnlyHere(r)'
  <2> DEFINE t == request[r].token
  <2>1. request[r].pc = "redeem" /\ request'[r].token = t /\ t \in DOMAIN tokens
    BY <1>0, <1>2 DEF Settled
  <2>2. OnlyHere(r)
    BY <1>2, <2>1 DEF GrantInv, PresentedOnce, LinesStay, Family
  <2>3. \A q \in Request : request'[q].token \in {request[q].token, NoToken}
    BY DEF Settled
  <2> QED BY <1>0, <2>1, <2>2, <2>3 DEF OnlyHere, LinesStay
<1>3. ASSUME NEW f \in DOMAIN tokens', tokens'[f].family = f, f \notin harmed'
      PROVE  Held(f)'
  <2>1. f \in DOMAIN tokens /\ Family(f) = f /\ f \notin harmed
    BY <1>3 DEF LinesStay, Family
  <2>2. Held(f)
    BY <2>1 DEF GrantInv, Unharmed
  <2>3. PICK t \in DOMAIN tokens : Family(t) = f /\ InHand(t)
    BY <2>2 DEF Held, TokensOf
  <2>4. t \in TokensOf(f)' /\ ~tokens'[t].consumed
    BY <2>3 DEF LinesStay, TokensOf, Family, InHand
  <2>5. t \in known' \/ \E r \in Request : request'[r].issued = t
    BY <1>0, <1>3, <2>3 DEF InHand, Settled
  <2>6. f \notin revoked'
    BY <1>3, <2>2 DEF Held
  <2> QED BY <2>4, <2>5, <2>6 DEF Held, InHand
<1> QED BY <1>1, <1>2, <1>3 DEF GrantInv, PresentedOnce, Unharmed, Family

LEMMA SameLines ==
  ASSUME UNCHANGED tokens
  PROVE  LinesStay
BY DEF LinesStay

\* One request moves on and keeps its token, or presents none.
LEMMA QuietMove ==
  ASSUME Typed, GrantInv, UNCHANGED tokens, revoked' \subseteq revoked \cup harmed',
         harmed \subseteq harmed', known \subseteq known', NEW r \in Request, NEW row, Go(r, row),
         row.pc # "redeem", row.token \in {request[r].token, NoToken},
         \/ request[r].issued \in {NoToken, row.issued}
         \/ request[r].issued \in known'
         \/ Family(request[r].issued) \in harmed'
  PROVE  GrantInv'
<1>1. request'[r] = row /\ \A q \in Request \ {r} : request'[q] = request[q]
  BY GoFacts DEF Typed
<1>2. \A q \in Request : Settled(q)
  BY <1>1 DEF Settled
<1> QED BY <1>2, SameLines, QuietGrant

\* A request that has issued nothing ends.
LEMMA QuietEnd ==
  ASSUME Typed, GrantInv, UNCHANGED tokens, revoked' \subseteq revoked \cup harmed',
         UNCHANGED <<known, harmed>>, NEW r \in Request, End(r), request[r].issued = NoToken
  PROVE  GrantInv'
BY QuietMove DEF End, Idle

LEMMA ExchangeGrant ==
  ASSUME Typed, GrantInv, NEW r \in Request,
         \/ \E c \in Client, scopes \in SUBSET Scope : ResolveForCode(r, c, scopes)
         \/ \E k \in Code : createAuthorizationCode(r, k)
         \/ \E k \in Code, proven \in BOOLEAN : ResolveForExchange(r, k, proven)
         \/ consumeAuthorizationCode(r)
         \/ CheckExchange(r)
         \/ signAccessToken(r)
  PROVE  GrantInv'
<1>0. /\ UNCHANGED <<tokens, revoked, known, harmed>> /\ request[r] \in RequestRow
      /\ request[r].issued # NoToken => request[r].pc \in {"issue", "sign"}
  BY DEF Typed, TypeOK, RequestInv, RowFine, ResolveForCode, createAuthorizationCode,
         ResolveForExchange, consumeAuthorizationCode, CheckExchange, signAccessToken, history
<1>1. ASSUME NEW c \in Client, NEW scopes \in SUBSET Scope, ResolveForCode(r, c, scopes)
      PROVE  GrantInv'
  BY <1>0, <1>1, QuietMove DEF ResolveForCode, Idle
<1>2. ASSUME NEW k \in Code, NEW proven \in BOOLEAN, ResolveForExchange(r, k, proven)
      PROVE  GrantInv'
  BY <1>0, <1>2, QuietMove DEF ResolveForExchange, Idle
<1>3. ASSUME NEW k \in Code, createAuthorizationCode(r, k)
      PROVE  GrantInv'
  BY <1>0, <1>3, QuietEnd DEF createAuthorizationCode
<1>4. ASSUME request[r].pc \in {"consume", "verify"}, End(r)
      PROVE  GrantInv'
  BY <1>0, <1>4, QuietEnd
<1>5. ASSUME NEW row, Go(r, row), row.pc # "redeem",
             row.token = request[r].token, row.issued = request[r].issued
      PROVE  GrantInv'
  BY <1>0, <1>5, QuietMove
<1>6. CASE consumeAuthorizationCode(r) \/ CheckExchange(r)
  <2>1. \A pc \in {"verify", "issue"} :
          LET row == [request[r] EXCEPT !.pc = pc]
          IN  /\ row.pc # "redeem" /\ row.token = request[r].token
              /\ row.issued = request[r].issued
    BY <1>0 DEF RequestRow
  <2> QED BY <1>4, <1>5, <1>6, <2>1 DEF consumeAuthorizationCode, CheckExchange
<1>7. CASE signAccessToken(r)
  <2>1. PICK outcome \in {"signed", "refused"} : Go(r, [request[r] EXCEPT !.signed = outcome])
    BY <1>7 DEF signAccessToken
  <2> DEFINE row == [request[r] EXCEPT !.signed = outcome]
  <2>2. row.pc # "redeem" /\ row.token = request[r].token /\ row.issued = request[r].issued
    BY <1>0, <1>7 DEF RequestRow, signAccessToken
  <2> HIDE DEF row
  <2> QED BY <1>5, <2>1, <2>2 DEF row
<1> QED BY <1>1, <1>2, <1>3, <1>6, <1>7

LEMMA AnswerGrant ==
  ASSUME Typed, GrantInv, NEW r \in Request, Answer(r) \/ Stop(r)
  PROVE  GrantInv'
<1>1. /\ UNCHANGED <<tokens, revoked>> /\ harmed \subseteq harmed' /\ known \subseteq known'
      /\ End(r)
      /\ \/ request[r].issued = NoToken
         \/ request[r].issued \in known'
         \/ Family(request[r].issued) \in harmed'
  BY DEF Answer, Stop, Harm
<1> QED BY <1>1, QuietMove DEF End, Idle

\* The client presents a token.
LEMMA PresentGrant ==
  ASSUME Typed, GrantInv, NEW r \in Request, NEW t \in Token, NEW scopes \in SUBSET Scope,
         ResolveForRefresh(r, t, scopes)
  PROVE  GrantInv'
<1> DEFINE row == [Idle EXCEPT !.pc = "redeem", !.client = tokens[t].client, !.token = t,
                               !.allowed = allowed[tokens[t].client], !.scopes = scopes]
<1>0. /\ UNCHANGED <<tokens, revoked, known>> /\ harmed \subseteq harmed'
      /\ t \in DOMAIN tokens /\ request[r] = Idle /\ Go(r, row)
      /\ tokens[t].consumed \/ (\E q \in Request : request[q].token = t) => Family(t) \in harmed'
  BY DEF Typed, TypeOK, ResolveForRefresh
<1>1. /\ row.pc = "redeem" /\ row.token = t /\ row.issued = NoToken
      /\ request[r].issued = NoToken
  BY <1>0 DEF Idle
<1>2. request'[r] = row /\ \A q \in Request \ {r} : request'[q] = request[q]
  BY <1>0, GoFacts DEF Typed
<1> HIDE DEF row
<1>3. \A x \in DOMAIN tokens : InHand(x) => InHand(x)'
  <2>1. NoToken \notin DOMAIN tokens
    BY DEF Typed, TypeOK, Token, NoToken
  <2> QED BY <1>0, <1>1, <1>2, <2>1 DEF InHand
<1>4. Named' /\ Unharmed'
  BY <1>0, <1>3 DEF GrantInv, Named, Unharmed, Held, TokensOf, Family
<1>5. ASSUME NEW q \in Request, request'[q].pc = "redeem",
             tokens[request'[q].token].family \notin harmed'
      PROVE  OnlyHere(q)'
  <2>1. CASE q = r
    BY <1>0, <1>1, <1>2, <1>5, <2>1 DEF OnlyHere, Family
  <2>2. CASE q # r
    <3>1. request'[q] = request[q] /\ OnlyHere(q)
      BY <1>0, <1>2, <1>5, <2>2 DEF GrantInv, PresentedOnce, Family
    <3>2. request[q].token # t
      BY <1>0, <1>5, <3>1 DEF Family
    <3> QED BY <1>0, <1>1, <1>2, <3>1, <3>2 DEF OnlyHere
  <2> QED BY <2>1, <2>2
<1> QED BY <1>0, <1>4, <1>5 DEF GrantInv, PresentedOnce, Family

\* A code opens a family: its first token is in the answer.
LEMMA IssueGrant ==
  ASSUME Typed, GrantInv, NEW r \in Request, issueRefreshToken(r)
  PROVE  GrantInv'
<1> DEFINE row == [request[r] EXCEPT !.issued = Drawn]
<1>0. /\ UNCHANGED <<revoked, known, harmed>> /\ Go(r, row) /\ request[r] \in RequestRow
      /\ request[r].pc = "issue" /\ request[r].issued = NoToken
      /\ Drawn \notin DOMAIN tokens /\ NoToken \notin DOMAIN tokens
      /\ revoked \subseteq DOMAIN tokens
      /\ \A t \in DOMAIN tokens : Family(t) \in DOMAIN tokens
      /\ \A q \in Request : request[q].pc = "redeem" => request[q].token \in DOMAIN tokens
  BY DrawnFresh DEF Typed, TypeOK, FamiliesKnown, RequestInv, RowFine, issueRefreshToken,
                    Token, NoToken
<1>1. IssueFacts(r)
  BY IssueRows DEF issueRefreshToken, Issuing
<1>2. row.pc = "issue" /\ row.token = request[r].token /\ row.issued = Drawn
  BY <1>0 DEF RequestRow
<1>3. request'[r] = row /\ \A q \in Request \ {r} : request'[q] = request[q]
  BY <1>0, GoFacts DEF Typed
<1> HIDE DEF row
<1>4. Named'
  BY <1>0, <1>1 DEF IssueFacts, GrantInv, Named, Family
<1>5. ASSUME NEW q \in Request, request'[q].pc = "redeem",
             tokens'[request'[q].token].family \notin harmed
      PROVE  OnlyHere(q)'
  <2>1. q # r /\ request'[q] = request[q] /\ request[q].token \in DOMAIN tokens
    BY <1>0, <1>2, <1>3, <1>5
  <2>2. OnlyHere(q)
    BY <1>1, <1>5, <2>1 DEF IssueFacts, GrantInv, PresentedOnce, Family
  <2>3. \A p \in Request : request'[p].token = request[p].token
    BY <1>2, <1>3
  <2> QED BY <1>1, <2>1, <2>2, <2>3 DEF IssueFacts, OnlyHere
<1>6. ASSUME NEW f \in DOMAIN tokens', tokens'[f].family = f, f \notin harmed
      PROVE  Held(f)'
  <2>1. CASE f = Drawn
    <3>1. f \in TokensOf(f)' /\ InHand(f)'
      BY <1>1, <1>2, <1>3, <1>6, <2>1 DEF IssueFacts, TokensOf, Family, InHand
    <3> QED BY <1>0, <2>1, <3>1 DEF Held
  <2>2. CASE f # Drawn
    <3>1. f \in DOMAIN tokens /\ Held(f)
      BY <1>1, <1>6, <2>2 DEF IssueFacts, GrantInv, Unharmed, Family
    <3>2. PICK t \in DOMAIN tokens : Family(t) = f /\ InHand(t)
      BY <3>1 DEF Held, TokensOf
    <3>3. t \in TokensOf(f)' /\ InHand(t)'
      BY <1>0, <1>1, <1>3, <3>2 DEF IssueFacts, TokensOf, Family, InHand
    <3> QED BY <1>0, <3>1, <3>3 DEF Held
  <2> QED BY <2>1, <2>2
<1> QED BY <1>0, <1>4, <1>5, <1>6 DEF GrantInv, PresentedOnce, Unharmed, Family

\* A line grows: its new end is in the answer, the old one is used.
LEMMA RotateGrant ==
  ASSUME Typed, GrantInv, NEW r \in Request, Rotating(r),
         Go(r, [request[r] EXCEPT !.pc = "sign", !.issued = Drawn]),
         UNCHANGED <<known, harmed>>
  PROVE  GrantInv'
<1> DEFINE row == [request[r] EXCEPT !.pc = "sign", !.issued = Drawn]
           t == request[r].token
<1>0. /\ request[r] \in RequestRow /\ request[r].pc = "redeem" /\ request[r].issued = NoToken
      /\ revoked' = revoked
      /\ Drawn \notin DOMAIN tokens /\ NoToken \notin DOMAIN tokens
      /\ \A x \in DOMAIN tokens : Family(x) \in DOMAIN tokens
      /\ \A q \in Request : request[q].pc = "redeem" => request[q].token \in DOMAIN tokens
  BY DrawnFresh DEF Typed, TypeOK, FamiliesKnown, RequestInv, RowFine, Rotating, Token, NoToken
<1>1. RotateFacts(r)
  BY RotateRows
<1>2. row.pc = "sign" /\ row.token = t /\ row.issued = Drawn
  BY <1>0 DEF RequestRow
<1>3. request'[r] = row /\ \A q \in Request \ {r} : request'[q] = request[q]
  BY GoFacts DEF Typed
<1> HIDE DEF row
<1>4. /\ DOMAIN tokens' = DOMAIN tokens \cup {Drawn} /\ t \in DOMAIN tokens
      /\ \A x \in DOMAIN tokens : tokens'[x].family = Family(x)
      /\ \A x \in DOMAIN tokens \ {t} : tokens'[x].consumed = tokens[x].consumed
      /\ tokens'[Drawn].family = Family(t) /\ tokens'[Drawn].consumed = FALSE
  BY <1>1 DEF RotateFacts, Family
<1>5. Named'
  BY <1>0, <1>4 DEF GrantInv, Named, Family
<1>6. ASSUME NEW q \in Request, request'[q].pc = "redeem",
             tokens'[request'[q].token].family \notin harmed
      PROVE  OnlyHere(q)'
  <2>1. q # r /\ request'[q] = request[q] /\ request[q].token \in DOMAIN tokens
    BY <1>0, <1>2, <1>3, <1>6
  <2>2. OnlyHere(q)
    BY <1>4, <1>6, <2>1 DEF GrantInv, PresentedOnce, Family
  <2>3. \A p \in Request : request'[p].token = request[p].token
    BY <1>2, <1>3
  <2>4. request[q].token # t
    BY <2>1, <2>2 DEF OnlyHere
  <2> QED BY <1>4, <2>1, <2>2, <2>3, <2>4 DEF OnlyHere
<1>7. ASSUME NEW f \in DOMAIN tokens', tokens'[f].family = f, f \notin harmed
      PROVE  Held(f)'
  <2>1. f \in DOMAIN tokens /\ Family(f) = f
    BY <1>0, <1>4, <1>7 DEF Family
  <2>2. Held(f)
    BY <1>7, <2>1 DEF GrantInv, Unharmed
  <2>3. CASE f = Family(t)
    <3>1. \A x \in {Drawn} : x \in TokensOf(f)' /\ InHand(x)'
      BY <1>2, <1>3, <1>4, <2>3 DEF TokensOf, Family, InHand
    <3> QED BY <1>0, <2>2, <3>1 DEF Held
  <2>4. CASE f # Family(t)
    <3>1. PICK x \in DOMAIN tokens : Family(x) = f /\ InHand(x)
      BY <2>2 DEF Held, TokensOf
    <3>2. x \in TokensOf(f)' /\ InHand(x)'
      BY <1>0, <1>3, <1>4, <2>4, <3>1 DEF TokensOf, Family, InHand
    <3> QED BY <1>0, <2>2, <3>2 DEF Held
  <2> QED BY <2>3, <2>4
<1> QED BY <1>0, <1>5, <1>6, <1>7 DEF GrantInv, PresentedOnce, Unharmed, Family

LEMMA RedeemGrant ==
  ASSUME Typed, GrantInv, NEW r \in Request, redeemRefreshToken(r)
  PROVE  GrantInv'
<1> DEFINE t == request[r].token
<1>0. /\ UNCHANGED <<known, harmed>> /\ request[r].pc = "redeem" /\ request[r].issued = NoToken
  BY DEF Typed, RequestInv, RowFine, redeemRefreshToken
<1>1. CASE /\ Status(t) = "active" /\ MayGrant(t, request[r].scopes, request[r].allowed)
           /\ Rotate(r, t)
  <2>1. Rotating(r) /\ Go(r, [request[r] EXCEPT !.pc = "sign", !.issued = Drawn])
    BY <1>0, <1>1 DEF Rotating, Rotate, NextScopes
  <2> QED BY <1>0, <2>1, RotateGrant
<1>2. CASE Refuse(r)
  BY <1>0, <1>2, QuietEnd DEF Refuse
<1>3. CASE Status(t) = "consumed" /\ RevokeFamily(r, Family(t))
  <2>1. tokens[t].consumed
    BY <1>3 DEF Status
  <2>2. Family(t) \in harmed
    BY <1>0, <2>1 DEF GrantInv, PresentedOnce, OnlyHere
  <2> QED BY <1>0, <1>3, <2>2, QuietEnd DEF RevokeFamily
<1> QED BY <1>1, <1>2, <1>3 DEF redeemRefreshToken

LEMMA GrantStep == Typed /\ GrantInv /\ [Next]_vars => GrantInv'
<1> SUFFICES ASSUME Typed, GrantInv, [Next]_vars PROVE GrantInv'
  OBVIOUS
<1>1. ASSUME LinesStay, UNCHANGED <<revoked, request, known, harmed>>
      PROVE  GrantInv'
  <2>1. \A q \in Request : Settled(q)
    BY <1>1 DEF Settled
  <2> QED BY <1>1, <2>1, QuietGrant
<1>2. CASE UNCHANGED vars
  BY <1>1, <1>2, SameLines DEF vars, history
<1>3. CASE \E c \in Client, scopes \in SUBSET Scope : registerDynamicClient(c, scopes)
  BY <1>1, <1>3, SameLines DEF registerDynamicClient, history
<1>4. CASE Tick
  <2>1. LinesStay
    BY <1>4, TokensAge DEF Typed, Tick, LinesStay
  <2> QED BY <1>1, <1>4, <2>1 DEF Tick, history
<1>5. ASSUME NEW r \in Request, Step(r) \/ Stop(r)
      PROVE  GrantInv'
  BY <1>5, ExchangeGrant, IssueGrant, RedeemGrant, AnswerGrant DEF Step
<1> QED BY <1>2, <1>3, <1>4, <1>5, ExchangeGrant, PresentGrant DEF Next

LEMMA GrantAlways == Spec => []GrantInv
<1>1. Typed /\ GrantInv /\ [Next]_vars => GrantInv'
  BY GrantStep
<1> QED BY <1>1, InitGrant, TypedAlways, PTL DEF Spec

\* A client that presents each token once and gets every answer is never
\* locked out, whatever other clients do (redeemRefreshToken).
THEOREM CarefulClientsKeepGrant == Spec => []KeepsGrant
<1>1. GrantInv => KeepsGrant
  BY DEF GrantInv, Unharmed, Held, InHand, KeepsGrant
<1> QED BY <1>1, GrantAlways, PTL

=============================================================================
