# Verification of convex-auth

TLA+ modules that model the core of convex-auth - sessions and their refresh,
the second factor, users and their credentials, webhook delivery, and the OAuth
grants of the MCP server - with TLC configurations that check them on small
instances, and theorems about them that TLAPS proves for every value of the
constants. All source paths below are
relative to `src/packages/auth/src/` unless they start with `docs/`, which is
`src/docs/`.

## 1. The system

convex-auth is an authentication library for Convex. It has three layers.

* A **component** (`component/`) that owns the tables and exports queries and
  mutations over them. A Convex mutation is one serializable transaction, and
  `Date.now()` is constant inside it; so a mutation is one atomic step.
* A **runtime** (`convex-runtime/`) of actions: sign-in providers, the session
  refresh, webhook delivery, the MCP OAuth server. An action calls queries and
  mutations one after the other, each a transaction of its own. What it read
  may be stale when it writes; two actions interleave between any two calls; an
  action may stop between two calls.
* **Clients** (`ssr/`, `react/`, `client/`): the SSR boundary and the auth proxy
  keep the pair (access token, refresh token) in HttpOnly cookies; the React
  provider keeps it in storage and refreshes it on a timer. Answers reach the
  browser in any order, or not at all.

### Inventory

| component | state | operations | what is hard |
|---|---|---|---|
| Session and token tables (`component/native/sessions.ts`, `refreshTokens.ts`) | `authSessions`, `authRefreshTokens` | mint, rotate, converge, revoke a row / a family / a user, cleanup | two requests with one token; a 15 s grace window and its edge; quotas counted across a family; families revoked by two separate walks |
| Admin session control (`component/admin/sessions.ts`) | the same tables | impersonate, stop, revoke one, revoke all | the impersonator and lifetime of a refreshed impersonation |
| Session refresh (`convex-runtime/native/updateSession.ts`) | none; a request in flight | `handleUpdateSession` | three queries, then one or two mutations, anything in between |
| SSR boundary, proxy, cookies (`ssr/`) | the cookies | refresh near expiry, sign-out, clear on failure | answers overwrite cookies in arrival order; a lost answer |
| React provider (`react/ConvexAuthProvider.tsx`) | the pair, a timer | refresh, sign-in, sign-out | the same, with a timer |
| Session issuer (`convex-runtime/native/sessionIssuer.ts`) | none | open a session, or ask for the second factor | trusted devices |
| Two-factor (`convex-runtime/native/provider.ts`, `component/native/codes.ts`, `users.ts`) | two-factor columns of `users`, pending challenges, trusted devices | enable, confirm, disable, backup codes, verify | the users row is read by one transaction and written back by another |
| Verification codes (`component/native/codes.ts`) | `authVerificationCodes` | create, reserve an attempt, consume, revoke | attempts shared by parallel guesses; single use |
| Password provider (`convex-runtime/native/provider.ts`) | accounts, codes | sign-up, sign-in, reset, change password, session list | password verified in an action, session minted in a later mutation |
| Identity provisioning (`component/identity.ts`) | `auth_identities`, accounts | provision, link, reset password | reset revokes sessions and leaves tokens |
| Passkeys (`component/passkeys.ts`, `convex-runtime/native/passkeys.ts`) | credentials, counters, ceremony challenges | register, authenticate, revoke | sessions found by credential id; challenges in flight |
| Anonymous accounts (`convex-runtime/native/anonymous.ts`) | users, identities, accounts | create, link to a real account | linking is three queries and three mutations |
| User deletion and bans (`component/native/users.ts`, `component/admin/users.ts`) | everything of a user | delete, ban | sign-ins in flight |
| One-time sign-in: e-mail OTP, magic link, phone, username, One Tap | codes | send, verify | single use of the code |
| OAuth sign-in (`convex-runtime/native/oauth*.ts`) | verifiers | start, call back, exchange | state and PKCE single use; external providers |
| Verifiers, accounts, rate limits | their tables | create, consume | rate limiting itself is an external component |
| Webhooks (`component/webhooks.ts`, `convex-runtime/webhooks/`) | endpoints, deliveries | enqueue, list, claim, deliver, record, retry | overlapping actions work from rows they listed earlier; the outcome is written over whatever the row says by now; a stopped action leaves its row "processing" |
| MCP OAuth server (`component/mcp.ts`, `convex-runtime/mcp/`) | clients, codes, token families, revoked families | register, authorize, exchange, refresh | single-use codes and rotation without a grace window, over several transactions |
| OIDC provider (`convex-runtime/oauth-provider/`) | none of its own | the handlers of the MCP server, clients fixed by configuration | the same |
| Organizations and invitations (`component/organizations.ts`) | organizations, members, roles, invitations | create, accept, revoke, change roles | status written without a guard |
| API keys, service principals | keys | create, rotate, revoke | single transactions |
| Agent auth (`component/agentAuth.ts`) | grants, replay records, approvals | delegate, approve, revoke | replay records |
| Authorization glue (`convex-runtime/glue`, `api-auth`) | none | resolve the caller | reads only |
| Migration (`component/migrate.ts`) | all tables | import | idempotent inserts |
| Screens and hooks (`react/*`) | UI state | forms | rendering |

Components interact through the tables. Sign-in of any kind ends in
`createSessionAndRefreshToken`; every way of ending a session (sign-out, revoking
from the list, admin, passkey revocation, password reset, deletion) writes the
same two tables that a refresh under way has read. A second factor stands
between a verified credential and that mutation.

What makes each correct:

* tables: a lineage that was ended is never revived; one owner per lineage; a
  rotated session is dead; bounded live sessions and bounded redemptions;
* refresh and clients: parallel refreshes never cost an honest browser its
  session; ending a lineage wins over every refresh under way; the browser finds out;
* second factor: one session per challenge, bounded guesses, backup codes used
  once and never burnt for nothing, no lock-out, disabling and revocation stick;
* accounts: a reset password is never undone by a sign-in under way; a verified
  address was proven by its user; one mail opens one session, one code per
  purpose is live; a second credential never displaces the first;
* webhooks: a delivery is sent by one action at a time, a bounded number of
  times, and every delivery gets a final outcome that a receiver's answer backs;
* MCP grants: one code, one family; a family is a line of tokens; a replay ends
  it for good; an honest client is never locked out; scopes only narrow.

## 2. Modules

| module | models |
|---|---|
| `SessionFamily` | the two session tables and every mutation that writes them |
| `RefreshFlow` | EXTENDS `SessionFamily`: the browser, its requests, `handleUpdateSession` step by step, sign-out, the session list, lost and overtaking answers |
| `SecondFactor` | the second factor of one account: challenges, backup codes, trusted devices, the account actions |
| `Accounts` | users, identities, password accounts, mailed codes and one-time mails, and the actions that sign up, reset, verify, change, link, migrate and delete |
| `WebhookQueue` | endpoints, deliveries, and overlapping `processWebhookQueue` actions |
| `WebhookOutbox` | what the queue promises an emitter: the abstract specification `WebhookQueue` implements |
| `Lineage` | what a family of rotating tokens promises: the abstract specification `SessionFamily` and `McpGrant` implement |
| `McpGrant` | OAuth clients, authorization codes, refresh-token families and the requests to the endpoints |
| `SessionFamilyProofs`, `SecondFactorProofs`, `WebhookQueueProofs`, `McpGrantProofs`, `AccountsProofs` | the theorems about the module of that name |
| `AccountsOwnership` | EXTENDS `AccountsProofs`: who owns which row |
| `RefreshFlowProofs`, `RefreshRaceProofs` | the flow implements the tables; ended lineages stay ended; races keep the session (the second EXTENDS the first, which EXTENDS `SessionFamilyProofs`) |
| `MC*` | instances for TLC |

`RefreshFlow` composes with `SessionFamily` by using its actions as the database
transactions of a request; nothing in the tables changes except through an
action of `SessionFamily`. `SecondFactor` abstracts what happens to a session
after it is opened: it counts sessions opened, and `SessionFamily` takes over.
`Accounts` is what stands before: it resolves a credential to a user, and counts
the sessions a one-time mail opens.
The webhook and MCP tables are shared with no other component.

### SessionFamily

A *pair* is a session row and its refresh-token row, minted by one mutation; a
*family* is the lineage opened by a sign-in. Pairs are named by the order in
which they were minted (`minted`), so one number names a session id and a token
hash. `sessions` and `tokens` are functions from ids to rows with the columns
the properties can tell apart; IP address, user agent, token text and
timestamps nothing reads are left out. Each exported mutation is one action:

| action | code |
|---|---|
| `createSessionAndRefreshToken`, `createSession`, `createRefreshToken` | the mutations of those names |
| `rotateSession` | its rotating branch; its other answers change nothing and are `MayConverge` and the refusals in `RefreshFlow` |
| `convergeSession` | its minting branch |
| `replayAfterGrace` | the branch of both that ends the family of a replayed token |
| `revokeSessionFamilyBySession` | sign-out, the user's and the admin's `revokeSession`, `stopImpersonation` |
| `revokeSessionsForUser`, `revokeAllSessionsForUser` | the user's "revoke other sessions", the admin's "revoke all" |
| `resetPassword` | its session writes only: live sessions, no token |
| `revokePasskeySessions` | revoking a passkey, or a counter regression |
| `deleteUser`, `linkAnonymousUser` | what these do to the session tables, users and identities |
| `cleanupExpiredSessions`, `cleanupExpiredRefreshTokens` | one batch, oldest first, of any size |
| `revokeSession`, `consumeRefreshToken`, `revokeRefreshTokensForSession`, `revokeRefreshTokensForUser` | exported and called by nothing under `src/` |

`Spec` has every exported mutation, called with matching user and family;
`ProviderSpec` only what the code under `src/` calls. `start` is the time at which the action that calls a mutation read
its clock (it computes the expiry before the mutation runs), at most `MaxLag`
before it. `mintedBy` is a history variable: the token a pair was minted from.

Not in the model: rows without a `familyId`, which `v3-migration.md` has removed
before the upgrade; bans, which no session path reads; the super-admin check of
impersonation; audit rows.
`migrateSession` inserts what `createSession` with `NoIdentity` inserts, so it is
in `Spec`; `ProviderSpec` leaves it out, and `LiveSessionRefreshable` says nothing
of a migrated session, which has no token.

Arguments are those that match: `createSession` and `createSessionAndRefreshToken`
take an optional `familyId` (`sessions.ts:58`, `:81`) that nobody under `src/`
passes and that is absent in the model, and an identity that is the user's;
`createRefreshToken` stores the family it is handed, and is handed the session's;
both cleanups run with `before` at its default, the present. A caller who names a
dead family, or a `before` in the future, gets what it asks for.

### Lineage

The abstract promise behind the two tables that rotate tokens. It knows accepted
sessions only: the lineage each belongs to and the owner the lineage was opened
with. `Open` starts a lineage under an unused name, `Replace` lets a successor take
an accepted session's place, `Join` admits one beside it while the lineage has
fewer than `Limit`, `End` takes any of them away. Tokens, lifetimes, grace windows,
quotas of redemptions and the many ways to revoke are not in it. Two modules
implement it:

| | `SessionFamily` (`KeepsLineage`) | `McpGrant` (`KeepsLine`) |
|---|---|---|
| accepted (`live`) | sessions neither revoked nor expired | refresh tokens that can be redeemed |
| owner | user, identity, passkey, impersonation | client |
| names used (`drawn`) | `minted` | rows of the token table |
| `Limit` | `MaxLiveSessions` | 1 |
| `Open` | sign-in, impersonation, `createSession` | `issueRefreshToken` |
| `Replace` | `rotateSession` | `redeemRefreshToken`, the rotating branch |
| `Join` | `convergeSession` | none: there is no room beside a usable token |
| `End` | every other mutation, the clock, and a mint whose session has expired by the time it is written | revoked families, the clock |

A session admitted by `convergeSession` copies its columns from a *dead* session (the
one the presented token was rotated from); that it is nevertheless a `Join` of a
live one is `FamilyUniform`.

### RefreshFlow

`jar` is the pair the browser holds. A request fixes the token it presents when
it is sent (`Send`), then takes the steps of `handleUpdateSession`: `ReadToken`
(the first query; the action's clock is read here), `ReadSession`, `ReadUser`,
`Rotate` (the mutation `rotateSession`, every answer of it), `Converge` (the
mutation `convergeSession`). Anything may happen between two of them. `Deliver`
writes the answer, a pair or none, over the jar: this is `refreshCookies` of the
boundary and the proxy, and the `.then` of the provider. `Lose` is a connection
that breaks on either leg; `Fail` is the boundary seeing the call fail, which
clears the cookies. `listSessions`, `ResolveCaller`, `LookUpTarget` and
`RevokeTarget` are "revoke this session" on the session list, query by query.
`EndElsewhere` is another device or an administrator.

### SecondFactor

One account with an authenticator, backup codes, trusted devices and one
passkey that does not verify the user. A *guess* is the secret the caller's
authenticator holds: whether a TOTP code is right is decided by comparing it
with the secret the request read. The users row a request read stays in the
request (`request[r].user`) until the mutation that writes it back, as it stays
in a local variable of the action. Expiry is a step that may happen at any time
(`Expire`), so every order of expiry and verification is covered without a
clock. `opened`, `used`, `tried`, `confirmed`, `off`, `revoked` are
history variables that count what the properties talk about.

### Accounts

A row is named by the order of insertion, which is also the order in which an
index returns it: "the first row" of a lookup is the oldest, and `by_email` is
read with `unique()`, which throws on a second row (`Unambiguous`). A mutation is
one step. An action of several queries and mutations keeps what it has read in
`action[a]`, with the step that comes next:

| action | steps |
|---|---|
| `sendCode`, `createVerificationCode` | user looked up, code created later; creating consumes the older codes of the user and type |
| `verifyPassword`, `updateCredentialHash` | a migrated hash was verified; it is replaced if the row still holds it |
| `resetByLink` | the mutation `resetPassword` |
| `forgetPassword`, `resetByOtp`, `createCredential`, `consumeVerificationCode` | the OTP provider's reset; for a user without a password it goes on to create one, and consumes the code last |
| `verifyEmail`, `changeEmail` | one mutation each |
| `sendOneTime`, `consumeVerifier`, `provisionOneTime` | e-mail OTP and magic links: the verifier is consumed, then the identity provisioned and the session opened |
| `createAnonymousUser`, `linkAnonymousAccount`, `linkAnonymousUser`, `createAccount`, `createIdentity` | linking: the lookups, then three mutations |
| `signUp`, `migrateUser`, `migrateAccount`, `createOrphanIdentity`, `deleteUser` | one mutation each; the orphan is a password identity a host creates alone |
| `Stop` | a mutation threw or the process ended between two steps |

`provisionFromIdentity` is the shared mutation, with its three ways of finding
the user. Rows that are consumed or have expired are refused exactly like rows
that are missing, so they are removed. `chosen`, `proven` and `opened` are
histories: the password last set on an account, the users who presented a code
mailed to their present address, the sessions opened per mail. Sessions are not
kept here, nor names, phone numbers and user names.

### WebhookQueue and WebhookOutbox

A delivery is named by its event and its endpoint. `worker[w]` is one
`processWebhookQueue` action: `listPendingWebhookDeliveries` takes a snapshot of
at most `Limit` due rows, then for each `claimWebhookDelivery`, `ReadEndpoint`,
`Send` (every class of answer; an acceptance may go unheard) and
`updateWebhookDelivery`, which overwrites the row with an attempt count computed
from the *listed* row. `Crash` may stop it anywhere; `retryDelivery` is the
operator; `Tick` lets backoff pass. Time is relative: a row carries the ticks
until its `nextAttemptAt`. `posts`, `accepted`, `retried` and `abandoned` are
histories.

`WebhookOutbox` knows nothing of workers: a delivery is open, then delivered (only
if the receiver has accepted it) or failed, and that is final unless an operator
reopens it. The refinement mapping is `RecordedOutcome` (pending and processing
are open) with `reopened <- retried`; `KeepsOutbox` is the outbox's specification
under it.

### McpGrant

A request goes step by step: resolve the client, one mutation
(`createAuthorizationCode`, `consumeAuthorizationCode`, `redeemRefreshToken`), then
for an exchange the checks the action makes of the code it has already burnt,
`issueRefreshToken` and `signAccessToken`, and `Answer`. `Stop` ends it anywhere,
with its answer lost. A client may present every token it knows, twice at once or
again. Token lifetimes are relative, in ticks. The OIDC provider runs the same
handlers over the same tables.

## 3. What is checked

Every run terminates with the full state space of its instance explored.
`CHECK_DEADLOCK FALSE` everywhere: the clock, the ids and the drawn secrets are
bounded, so every behaviour stops when they run out.

### Properties that hold

| run | properties | shows |
|---|---|---|
| `sessions_all` | `TypeOK`, `FamilyUniform`, `SupersededSessionDead`, `KeepsLineage` (refinement), `DeadFamilyStaysDead` | every exported mutation, called with matching user and family, in every order, with expiry and cleanup |
| `sessions_provider` | `LiveSessionRefreshable`, `TokenMintsBounded`, `LiveSessionsBounded` | what the providers call leaves no live session stranded, with lifetimes that differ and callers that lag; a token's redemptions and a family's live sessions reach their quotas and never exceed them |
| `refresh_punctual` | `KeepsSession` | overlapping refreshes never cost a browser its session |
| `refresh_ended` | `FlowTypeOK`, `EndedForGood` | ending a lineage between any two steps of refreshes under way is final, with lost answers, expiry and replays |
| `refresh_noticed` | `DeadNoticed` (liveness) | a browser whose lineage is dead ends up without a pair |
| `factor_sign_in` | `ChallengeSingleUse`, `AttemptsBounded`, `BackupCodeOnce`, `BurntCodeOpens`, `PasskeyChallengesEnd` | concurrent verifications of an enrolled account |
| `factor_account` | `TypeOK`, `EnabledConfirmed` | enrolment, confirmation, disabling and new codes overlapping with sign-ins |
| `accounts` | `TypeOK`, `PasswordKept`, `VerifiedProven`, `OneLiveCode`, `VerifierSingleUse`, `PasswordChangeSpendsCode`, `CredentialStable` | sign-up, migration, resets, changes of address, one-time sign-in, linking and deletion overlapping and stopping anywhere |
| `webhook_queue` | `TypeOK`, `OneSender`, `PostsBounded`, `KeepsOutbox` (refinement), `Settles` (liveness) | two overlapping actions that may stop, an endpoint that comes and goes, an operator who retries |
| `mcp_grant` | `TypeOK`, `CodeSingleUse`, `OneLine`, `ScopesNarrow`, `KeepsGrant`, `ReplayEndsGrant`, `KeepsLine` (refinement) | two overlapping requests, replays, lost answers, expiry, a client registered anew |

Each property also has a mutant: a plausible bug of a definition (a dropped
guard, an off-by-one, a lost column, a swapped order) under which TLC finds that
property violated in the same run. The mutated forms stand beside the
definitions, marked "Mutant".

### Disagreements between the code and what is said of it

Each of these properties states a documented claim, and TLC finds it violated by
the model of the code under the configuration named. The first two are runs of
the project; the others are kept as instances to reproduce the counterexample
(`tlc -config MCFactorDisable.cfg MCSecondFactor.tla`).

| instance | property | the claim | what happens |
|---|---|---|---|
| `impersonation_ttl` | `ImpersonationCapped` | impersonation never exceeds its capped duration | the refresh gives the successor the default seven days (`updateSession.ts:63`) and keeps the impersonator |
| `device_revoked` | `RevokedDeviceRefused` | disabling revokes trusted devices | the device lookup does not read `consumedAt`, so the device works again after a new enrolment |
| `MCRefreshRevocation.cfg` | `RevocationReported` | `success` means the session's family was revoked | a session rotated since it was listed is reported revoked, its family lives |
| `MCFactorDisable.cfg` | `DisableSticks` | `twoFactorDisable` disables the factor | a confirmation (or new backup codes) in flight writes the flag it read back |
| `MCWebhookBackoff.cfg` | `RetriesBackOff` | "Failed deliveries are retried with backoff" (`docs/(application-features)/webhooks.mdx:17`) | the claim reads the status and not `nextAttemptAt` (`component/webhooks.ts:500`), so an action that listed the row before another one failed it tries again at once |
| `MCAccountsLinked.cfg` | `EmailsUnique` | "`linkAccount` rejects the request if the target email already belongs to another user" (`docs/(core-auth)/anonymous.mdx:61`) | the address is looked up by a query (`convex-runtime/native/anonymous.ts:261`) and written by a later mutation that does not look again; with two rows every read of `by_email` with `unique()` throws |

`device_revoked` needs no concurrency: trust a device, disable, enrol again, sign
in. The same stale write that undoes a disabling can bring back a spent backup
code, which is why `BackupCodeOnce` is checked while the account only signs in.

Reading the code next to its documents showed more that no instance states.
Sessions and second factor:

* a refreshed session ignores a shorter configured `sessionTtlMs`
  (`updateSession.ts:63`; `docs/(get-started)/configuration.mdx:52`);
* a refresh token is refused once its session has expired, so the 30 days of
  `refreshTokenTtlMs` are in effect the session's 7 (`component/native/sessions.ts:353`);
* a refresh answered before a sign-out and delivered after it writes a pair,
  already dead, into the cleared cookies (`ssr/boundary.ts:252`);
* a convergence refused because its family is dead writes no audit event
  (`component/native/sessions.ts:492`; `docs/(reference)/ssr-contract.md:410`);
* a two-factor verification that has locked its challenge opens a session of a
  passkey revoked meanwhile (`convex-runtime/native/provider.ts:1084`);
  `PasskeyChallengesEnd` is what holds;
* a verification that stops between burning a backup code and opening the session
  (`convex-runtime/native/provider.ts:1151`) loses the code; `BurntCodeOpens` holds
  because that action still names it.

Accounts:

* a sign-in that verified the old password before a reset may open its session
  after it, and one that commits after `deleteUser` opens a session of no user:
  no transaction reads both;
* `linkAccount` stores the password under the provider "email", and password
  sign-in reads "password" only, so the credential cannot be signed in with;
* a change of address moves the subject of an e-mail OTP identity and not its
  `identityId`; the next OTP sign-in at the *old* address finds it by that id and
  writes the old address back onto the user, taken or not;
* the reset of a user without a password consumes its code last
  (`createCredential`, then `consumeVerificationCode`): two such resets set a
  password each. `PasswordChangeSpendsCode` is what holds of stored passwords.

Webhooks and MCP:

* a stopped action leaves its row "processing" for ever: nothing under `src/`
  calls `buildConvexWebhookStaleDeliveryUpdate`, and no other path reads the
  status. `Settles` excludes such rows by name (`abandoned`);
* the attempt count can go down, since it is written from the listed row;
  `PostsBounded` says what is left of the limit;
* a retry by an operator does not look at the row's status, so it can put a row
  back that an action holds, or one already delivered; `OneSender` counts it;
* the "absolute" lifetime of a refresh token starts anew with each rotation, so
  the inactivity lifetime alone ends a line;
* presenting a used token after it expired does not revoke its family;
* an authorization code is burnt before its PKCE verifier is compared;
* a client that misses the answer to a refresh and tries again is locked out, by
  design; `KeepsGrant` says that nobody else is.

### Bounds

* **Pairs** (`MaxMinted`): three for `sessions_all` (a sign-in, its successor and
  a sibling, or two families), five where the cap on live sessions has to be
  reached and passed, four where a token's redemptions have, and for two rounds
  of two parallel requests. **Time**: long enough to pass the
  grace window, a session's lifetime and a token's lifetime. **Quotas**: 1 to 3
  instead of 8 and 10, so that they are reached; `LiveQuota` and `MintQuota`
  prove them for all values. **Users and identities**: one of each; families of
  different users share no row, and the two sets are parameters of the theorems.
* `SessionTtl` = 1 and `Grace` = 0 in `refresh_ended`: one tick expires the first
  session and ends the window, so that expiry and the replay branch come between
  the steps of a refresh. Grace redemptions within a tick are still reached.
* **Requests**: two at once. Loss, overtaking and replay all need two at most.
* `MaxTrip` = 1 with `Grace` = 3 in `refresh_punctual`: the window is three
  trips long. With less `KeepsSession` fails: after a rotation its answer takes
  up to one trip, a request sent just before that answer arrives carries the old
  token and takes up to another, and the action it reaches takes up to a third
  before its mutation. The code has 15 s, so the claim covers
  legs of up to 5 s. No answer is lost in that run: after a lost answer a retry
  beyond the window is a replay and ends the family, by design.
* **SecondFactor**: two requests, two challenges, two backup-code slots, two
  attempts for sign-in; three drawn secrets for the account actions (an
  enrolment, its codes and a second enrolment). Requests are symmetric: every
  quantifier over them is.

* **Accounts**: two users, addresses, passwords and actions: every race needs two
  at most. `MaxLoad` = 3 bounds users ever created plus actions under way: a
  second user leaves room for one action beside it, a single user for two.
  `MaxInserts` = 3 bounds identities, codes and mails ever made (accounts are
  unbounded), enough for an identity, a code and its successor. One one-time
  provider: they differ by name only. The invariants are also theorems, for
  every bound.
* **Webhooks**: one organization beside the global scope, one endpoint, one event,
  two actions with one row each, three attempts, backoff that doubles once, two
  retries. `PostsBounded` is tight: `choose(MaxAttempts + W - 1, W)` posts per round
  do happen, 10 for two actions and four attempts.
* **MCP**: one client, two scopes, one code, two requests, three tokens in a line,
  tokens that outlive codes by a tick.

### Fairness

Two runs check liveness. `DeadNoticed` assumes (`Fairness` of `RefreshFlow`):

* `WF(Progress(r))`: Convex runs an accepted action to its end, each query and
  mutation answers;
* `WF(SendRefresh)`: the browser goes on using the app, so the provider's timer
  or the SSR boundary presents the pair before its access token runs out;
* `SF(Arrive(r))`, `SF(Return(r))`: a connection that may break does not break
  every time.

`Settles` assumes (`FairSpec` of `WebhookQueue`):

* `WF(listPendingWebhookDeliveries(w))`: the cron keeps starting actions, and one
  that could list a due row does;
* `SF(Step(w))`: an action that may stop does not stop every time. A row it held
  when it stopped is excused by name, so this is about the rows it had only listed;
* `WF(Tick)`: time passes.

No fairness is assumed anywhere else, and none for sign-out, operators,
endpoints or administrators.

## 4. What is proved

TLAPS checks the following for every value of the constants, under the
assumptions the modules name: `IdentityAssumption`, `TtlAssumption`,
`LimitAssumption` and `BoundAssumption` of `SessionFamily`, `AttemptsAssumption`,
`RequestAssumption` (finitely many requests at once) and `BoundAssumption` of
`SecondFactor`, `QueueAssumption` (finitely many actions, positive limits),
`FlowAssumption` of `RefreshFlow` (a trip takes at most `MaxLag`),
`GrantAssumption`, `AccountsAssumption` and `NamesApart` (a user's id and an address
are not row numbers). The bounds `MaxMinted`, `MaxTime`, `MaxInserts`, `MaxEvents`
and so on are arbitrary, so the results hold for behaviours of any length. Two
theorems assume more of the constants, by name: `TokensOutlive` (a session's
lifetime is at most that of the token minted with it, as with the defaults of 7 and
30 days) and `Punctual` (no answer is lost, a leg of a trip is at most a third of
the grace window, and neither lifetimes nor quotas are reached). `sessions_provider`
and `refresh_punctual` give the constants values that satisfy them.

| theorem | statement |
|---|---|
| `SessionFamilyProofs!TypeCorrect` | `Spec => []TypeOK` |
| `Invariance` | `Spec => []IInv` |
| `FamiliesUniform`, `SupersededSessionsDead` | `Spec => []FamilyUniform`, `[]SupersededSessionDead` |
| `NoResurrection` | `Spec => DeadFamilyStaysDead` |
| `LiveQuota`, `MintQuota` | `Spec => []LiveSessionsBounded`, `[]TokenMintsBounded` |
| `SessionsKeepLineage` | `Spec => KeepsLineage`, the refinement of `Lineage` |
| `LiveSessionsRefreshable` | `ProviderSpec => []LiveSessionRefreshable`, if `TokensOutlive` |
| `RefreshFlowProofs!FlowTypesKept` | `FlowSpec => []FlowTypeOK` |
| `FlowUsesTables` | `FlowSpec => Spec` of `SessionFamily` |
| `EndedIsFinal` | `FlowSpec => []EndedForGood` |
| `RefreshRaceProofs!RacesKeepSession` | `RefreshSpec => []KeepsSession`, if `Punctual` |
| `SecondFactorProofs!TypeCorrect` | `TypeOK`, for `Spec` and `SignInSpec` |
| `OneSessionPerChallenge` | `ChallengeSingleUse`, for both |
| `NeverLockedOut` | `Spec => []EnabledConfirmed` |
| `PasskeyEnds` | `PasskeyChallengesEnd`, for both |
| `AttemptsCapped` | `AttemptsBounded`, for both |
| `CodesWellSpent`, `BurntCodesOpen` | `SignInSpec => [](BackupCodeOnce /\ BurntCodeOpens)`, `[]BurntCodeOpens` |
| `WebhookQueueProofs!TypesKept`, `ClaimIsExclusive` | `Spec => []TypeOK`, `[]OneSender` |
| `QueueKeepsOutbox` | `Spec => KeepsOutbox`, the refinement |
| `PostsAreBounded` | `Spec => []PostsBounded` |
| `McpGrantProofs!TypesKept`, `CodesOpenOnce`, `FamiliesAreLines`, `GrantsNarrow` | `Spec => []TypeOK`, `[]CodeSingleUse`, `[]OneLine`, `[]ScopesNarrow` |
| `ReplayIsFinal`, `NoRevival` | `Spec => ReplayEndsGrant`, `DeadGrantStaysDead` |
| `GrantsKeepLine` | `Spec => KeepsLine`, the refinement of `Lineage` |
| `CarefulClientsKeepGrant` | `Spec => []KeepsGrant` |
| `AccountsProofs!TypesKept`, `PasswordsLast`, `CodesSucceed`, `MailsOpenOnce` | `Spec => []TypeOK`, `[]PasswordKept`, `[]OneLiveCode`, `[]VerifierSingleUse` |
| `AccountsOwnership!RowsOwned` | `Spec => []Ownership` |
| `AddressesProven`, `PasswordsNeedCodes`, `CredentialsStay` | `Spec => []VerifiedProven`, `PasswordChangeSpendsCode`, `CredentialStable` |

**Sessions.** `StepKinds` reduces the disjuncts of `Next` to eight
kinds of step: open a family, create a bare session or token, refresh, revoke
rows, delete rows, let time pass, stutter. Each invariant is then preserved kind
by kind. `FamilyUniform` and `SupersededSessionDead` are not inductive: a
refresh copies the columns of the presented token's session, so one has to know
that the token and that session name the same family and user, and that ids
beyond `minted` are unused. `Consistent` says so; `IInv` is `TypeOK`,
`Consistent` and the two properties. `NoResurrection` follows from `IInv` because
only a refresh inserts into an existing family, and it requires a live session.
`LiveQuota` adds a count: a rotation replaces one live session by one, a
convergence adds one only below the cap. `MintQuota` strengthens to `Counted`: the
pairs minted from a token are at most its redemptions plus one if it has been
rotated, and a deleted token's id is never drawn again, so its count stays.

**Lineage.** `AcceptedOld` says that no step makes an old row accepted or changes
what it contributes to the abstract state, so a step that does not admit `Fresh` is
an `End`, whatever it is in the code. A step that does is a sign-in, a rotation or
a convergence; `AcceptedKept` shows that each of these leaves accepted whatever it
does not revoke, and `FreshInherits` that the new row equals the one of a live
session of the family, from `Consistent` and `FamilyUniform`. Since the flow of
requests implements `SessionFamily` (`FlowUsesTables`), it implements `Lineage` too.

**Refreshable.** `LiveSessionRefreshable` is about one session and one token, but
revocation walks sessions and tokens by family and by session. `Headed` says a
family bears the number of the session that opened it, as long as a row of it is
left; `Backed` that every live session has an unrevoked token of its own which
expires no earlier. With both, whatever revokes or cleans up that token takes
the session with it (`Covers`, `FamilyCovered`).

**Flow.** `FlowInv` is `IInv`, `FlowTypeOK` and `Timely` (the clock an action has
read is at most `MaxLag` behind). From it each step of the flow is a step of
`SessionFamily` or leaves the tables alone, which is `FlowUsesTables`, a refinement
under the identity mapping. The flow has one lineage (`OneLineage`), so
`EndedForGood` follows: a step that ends it leaves no live session (`EndingKills`),
and a request under way then has none to rotate or converge.

**Races.** `RaceInv` adds to `FlowInv`: every pair minted still has its rows and one of
them is unrevoked (`TablesIntact`); an answer under way carries an unrevoked pair
that nobody has presented (`AnswersFresh`); if the pair in the jar was rotated, an
answer is under way whose request began before that (`JarReplaced`); and a request
leaves at most one trip after the token it presents was rotated, so that its action
starts at most two after (`AskedInTime`). What arrives is thus unrevoked, and
rotates, or was rotated at most `3 * MaxTrip <= Grace` ago, and converges (`Usable`).

**Second factor.** `LockInv`: a request that has locked a challenge holds it
alone, the challenge is consumed and no session was opened with it; this is what
makes `ChallengeSingleUse` inductive. `ConfirmInv`: every users row that a
confirmation or a code generation still holds has a secret the user confirmed
(that is why stale writes undo a disabling but never lock a user out).
`AttemptInv`: the codes compared and the requests that reserved an attempt and
have not compared yet are together at most the row's `attempts`, which is at
most `MaxAttempts`. `BurnInv`: a code is in the row, or was spent by a request
about to open, or has opened, exactly one of the three; it holds while the
account only signs in, since an account action may write spent codes back.

**Webhooks.** `OneSender` is not inductive: that an unclaimed row has no holder is
missing. `ClaimsCounted` bounds the holders of a row by its retries, plus one if the
row is "processing"; an action records over whatever the row says, so it has to
hold whatever status it writes. The refinement maps each action to an outbox
action or a stutter; recording needs that the row is open or was reopened, which
is `ClaimsCounted` again (a holder of a row that is not "processing" owes itself
to a retry), and that a "delivered" about to be written was accepted.

`PostsBounded` needs a measure, because the recorded attempts can go down: an action
writes them from the row it listed. What only grows is what the actions have *seen*.
`Past(d, v)` is the set of actions that can present no attempt count below `v` for
delivery `d` any more, from their lists, the row they hold and the row in the table;
the *shape* of `d` is how many actions are past each count. A shape is nonincreasing
and grows in lexicographic order whenever an attempt that fails in a way that may
pass returns the row to the queue, so `Rank`, the number of shapes still ahead, falls;
only a row that waits already is returned for nothing, and then one of those who
may send is gone. `Fits` pays one post for each
holder and for a waiting row, and one for each unit of rank, out of the rounds
that the event and the operator's retries are worth; a retry buys a new round.
There are `choose(MaxAttempts + W - 1, W)` shapes for `W` actions (`ProfilesCounted`,
by Pascal's rule), which is where the bound comes from. `QInv` adds what `Fits` needs
of the lists: no action lists a row twice or keeps one it holds, and an action about
to put a row back has attempts left (`BatchSound`). The two facts about numbers, the
recursive equation of the factorial and the count of the shapes, are by induction;
the library's induction rules take an operator and cannot be instantiated here, so
each is a set of counterexamples without a least element (`LeastNat`).

**MCP.** `Line` (every token but the first has a consumed parent in its family,
each consumed token one successor) and `ReplayRevoked` (a replayed family is
revoked) are inductive with `Typed`; a family's usable token is unique because an
unconsumed one is the end of the line. `ScopeInv` adds the requests under way: what
a request holds of a code or a token is within what its row has. `GrantInv` is the
invariant behind `KeepsGrant`: while a family is unharmed, a request that is about
to redeem a token of it presents it alone and unused (`PresentedOnce`), so it never
takes the branch that revokes, and the end of the line passes from the client's
hands to an answer and back (`Held`). `KeepsLine` needs `Typed` only: an exchange and a
redemption insert one row each and every other step can only end tokens.
`DeadGrantStaysDead` follows from it and is proved on its own (`NoRevival`).

**Accounts.** `AccountsProofs` sorts the disjuncts of `Next` by what they touch
(`AccountStep`, `MailStep`, `CodeStep`), and `ProvisionFacts` says once what
`provisionFromIdentity` leaves alone. `PasswordKept` is inductive once the types are.
`VerifierSingleUse` needs `MailsHeld`: a mail is still in the table, or held by exactly
one action, or spent. `AccountsOwnership` is about who owns what: `NamesOld` (a
row's names are older than the row), `IdentitiesOwned`, `AccountsOwned` (an account
belongs to the user of the identity with its subject), `CodesAddressed` and
`ActionsWarranted` (what an action still holds is true of the tables, or its user
is gone). From it, a stored hash changes only with a code of the account's user,
and `FirstStays`, a fact about the oldest row of a set that grows at the end,
gives `CredentialStable`. `VerifiedProven` rests on `proven` being reset with the
address.

### Only model-checked

`DeadNoticed` and `Settles`, liveness properties under fairness, which need ENABLED.
They stay with TLC, as do the disagreements. Every invariant, action property and
refinement that a run checks is proved.

## 5. Not modelled

Cookie attributes, CORS and CSRF checks, JWT signing and key rotation, hashing,
password strength, mail and SMS sending, webhook signatures and host checks, audit
text: they guard entry or format data and keep no state that the properties
relate. WebAuthn and OAuth ceremonies belong to their libraries and providers;
the verifier of an OAuth state is consumed like a one-time mail
(`VerifierSingleUse`). Phone numbers, user names and One Tap provision in the way
`provisionFromIdentity` is modelled, under other names. Rate limits are an external
component. Bans are written and never read by a session path. `Accounts` stops
where a session is opened and `SessionFamily` starts there; what a sign-in under
way does across the two is listed among the disagreements and has no module.

Organizations and invitations, API keys and service principals and agent grants
are administration by single transactions over tables that no modelled component
shares. Setting an invitation's status is unguarded
(`component/organizations.ts:1070`).

Most of the repository is none of this: React screens and hooks, generated
component APIs, examples, the documentation site and tests. The modules cover the
tables and actions in which transactions of several actors meet, which is a small
share of the lines.

## 6. Plan

In order; each becomes a module with its instances, mutants and proofs.

1. **SignIn**: `Accounts` and `SessionFamily` composed, to say what does hold of a
   sign-in that overlaps with a reset or a deletion.
2. **Invitations**: invitations and memberships, owner and role rules, two
   administrators at once.
3. **OAuthState**, API keys and agent grants.
