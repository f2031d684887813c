---------------------------- MODULE WebhookQueue ----------------------------
(***************************************************************************)
(* Webhook endpoints, the deliveries an event fans out to, and the action  *)
(* that sends them.  Every component function is one transaction; the      *)
(* action processWebhookQueue lists what is due, then claims, sends and    *)
(* records one delivery after the other, so several actions - the cron's   *)
(* and those an operator triggers - interleave, and each works from the    *)
(* rows it listed.                                                         *)
(*                                                                         *)
(* Time is relative: a pending row carries the ticks until nextAttemptAt.  *)
(* A delivery is named by its event and its endpoint.                      *)
(***************************************************************************)
EXTENDS Integers, FiniteSets, Combinatorics

CONSTANTS
  Scope,           \* organizations, and the scope of global endpoints
  Global,          \* organizationId undefined
  EventType,       \* event types; the subscription "*" is the whole set
  Worker,          \* processWebhookQueue actions that can overlap
  Limit,           \* rows an action lists
  MaxAttempts,     \* maxAttempts of the processor
  InitialBackoff,  \* initialBackoffMs, in ticks
  MaxBackoff,      \* maxBackoffMs, in ticks
  JitterWindow,    \* jitter added to a backoff, in ticks
  MaxActive,       \* MAX_ACTIVE_WEBHOOK_ENDPOINTS_PER_SCOPE
  MaxEndpoints,    \* bound: endpoints ever created
  MaxEvents,       \* bound: events ever emitted
  MaxRetries,      \* bound: times an operator retries one delivery
  MayCrash         \* whether an action may stop half-way

ASSUME QueueAssumption ==
  /\ Global \in Scope
  /\ IsFiniteSet(Worker)
  /\ {Limit, MaxAttempts, MaxActive} \subseteq Nat \ {0}
  /\ {InitialBackoff, MaxBackoff, JitterWindow, MaxEndpoints, MaxEvents, MaxRetries} \subseteq Nat
  /\ MayCrash \in BOOLEAN

VARIABLES
  endpoints,   \* webhook_endpoints, by id
  drawn,       \* endpoint ids drawn so far
  deliveries,  \* webhook_deliveries
  events,      \* events emitted so far
  worker,      \* the actions under way
  posts,       \* history: requests sent for each delivery
  accepted,    \* history: deliveries the receiver has answered 2xx, heard or not
  retried,     \* history: operator retries of each delivery
  abandoned    \* history: deliveries a stopped action held

endpointVars == <<endpoints, drawn>>
history == <<posts, accepted, retried, abandoned>>
vars == <<endpoints, drawn, deliveries, events, worker, history>>

Endpoint == 1..MaxEndpoints
Delivery == (1..MaxEvents) \X Endpoint
EndpointStatus == {"active", "disabled", "archived"}
DeliveryStatus == {"pending", "processing", "delivered", "failed"}

EndpointRow == [scope : Scope, status : EndpointStatus, types : SUBSET EventType]
DeliveryRow == [status : DeliveryStatus, attempts : Nat, wait : Nat]

With(table, i, row) ==
  [x \in DOMAIN table \cup {i} |-> IF x = i THEN row ELSE table[x]]

IsActive(e) == e \in DOMAIN endpoints /\ endpoints[e].status = "active"

ActiveIn(s) == {e \in DOMAIN endpoints : endpoints[e].scope = s /\ IsActive(e)}

(***************************************************************************)
(* Endpoints.                                                              *)
(***************************************************************************)
CanActivate(s) == Cardinality(ActiveIn(s)) < MaxActive

createWebhookEndpoint(s, types) ==
  /\ drawn < MaxEndpoints
  /\ CanActivate(s)
  /\ endpoints' = With(endpoints, drawn + 1, [scope |-> s, status |-> "active", types |-> types])
  /\ drawn' = drawn + 1
  /\ UNCHANGED <<deliveries, events, worker, history>>

updateWebhookEndpoint(e, types) ==
  /\ e \in DOMAIN endpoints /\ endpoints[e].scope # Global
  /\ endpoints' = [endpoints EXCEPT ![e].types = types]
  /\ UNCHANGED <<drawn, deliveries, events, worker, history>>

\* setWebhookEndpointStatus and its global mirror.
setWebhookEndpointStatus(e, status) ==
  /\ e \in DOMAIN endpoints
  /\ endpoints[e].status # status
  /\ status = "active" => CanActivate(endpoints[e].scope)
  /\ endpoints' = [endpoints EXCEPT ![e].status = status]
  /\ UNCHANGED <<drawn, deliveries, events, worker, history>>

\* deleteWebhookEndpoint and its global mirror; the deliveries stay.
deleteWebhookEndpoint(e) ==
  /\ e \in DOMAIN endpoints
  /\ endpoints[e].status = "archived"
  /\ endpoints' = [x \in DOMAIN endpoints \ {e} |-> endpoints[x]]
  /\ UNCHANGED <<drawn, deliveries, events, worker, history>>

(***************************************************************************)
(* Emitting.                                                               *)
(***************************************************************************)
\* Mutant: the counter starts before the first attempt.
QueuedUncounted == [status |-> "pending", attempts |-> -1, wait |-> 0]

Queued == [status |-> "pending", attempts |-> 0, wait |-> 0]

Enqueue(D) ==
  /\ deliveries' = [d \in DOMAIN deliveries \cup D |->
                      IF d \in D THEN Queued ELSE deliveries[d]]
  /\ events' = events + 1
  /\ UNCHANGED <<endpointVars, worker, history>>

\* The endpoints of the scope, and the global ones.
Subscribers(s, type) ==
  {e \in ActiveIn(s) \cup ActiveIn(Global) : type \in endpoints[e].types}

\* enqueueWebhookEvent, and every mutation that calls fanOutConvexWebhookEvent.
fanOutConvexWebhookEvent(s, type) ==
  /\ events < MaxEvents
  /\ Cardinality(ActiveIn(s)) <= MaxActive /\ Cardinality(ActiveIn(Global)) <= MaxActive
  /\ Enqueue({events + 1} \X Subscribers(s, type))

createWebhookDelivery(e) ==
  /\ events < MaxEvents
  /\ IsActive(e)
  /\ Enqueue({<<events + 1, e>>})

(***************************************************************************)
(* Sending.                                                                *)
(***************************************************************************)
NoItem == <<0, 0>>
Idle == [pc |-> "idle", batch |-> {}, item |-> NoItem, attempts |-> 0, outcome |-> "none"]

Holding(w) == worker[w].pc \in {"claimed", "send", "record"}
Holders(d) == {w \in Worker : Holding(w) /\ worker[w].item = d}

Due == {d \in DOMAIN deliveries : deliveries[d].status = "pending" /\ deliveries[d].wait = 0}

\* The action goes on with what is left of its batch, or ends.
NextItem(w, batch) ==
  worker' = [worker EXCEPT ![w] = IF batch = {} THEN Idle
                                  ELSE [Idle EXCEPT !.pc = "loop", !.batch = batch]]

\* The batch is a snapshot: what is used of a row later is what was listed.
\* Which rows of a long queue come first is left open.
listPendingWebhookDeliveries(w) ==
  /\ worker[w] = Idle
  /\ \E D \in SUBSET Due :
       /\ D # {}
       /\ Cardinality(D) = Limit \/ (D = Due /\ Cardinality(D) < Limit)
       /\ NextItem(w, {[id |-> d, attempts |-> deliveries[d].attempts] : d \in D})
  /\ UNCHANGED <<endpointVars, deliveries, events, history>>

\* Mutant: the status is not looked at.
CanClaimBlind(d) == d \in DOMAIN deliveries

\* Mutant: only a row under way is left alone.
CanClaimSettled(d) == deliveries[d].status # "processing"

CanClaim(d) == deliveries[d].status = "pending"

claimWebhookDelivery(w) ==
  /\ worker[w].pc = "loop"
  /\ \E listed \in worker[w].batch :
       LET rest == worker[w].batch \ {listed}
       IN  \/ /\ CanClaim(listed.id)
              /\ deliveries' = [deliveries EXCEPT ![listed.id].status = "processing"]
              /\ worker' = [worker EXCEPT ![w] =
                   [Idle EXCEPT !.pc = "claimed", !.batch = rest, !.item = listed.id,
                                !.attempts = listed.attempts]]
           \/ /\ ~CanClaim(listed.id)
              /\ NextItem(w, rest)
              /\ UNCHANGED deliveries
  /\ UNCHANGED <<endpointVars, events, history>>

Classify(w, outcome) ==
  worker' = [worker EXCEPT ![w].pc = "record", ![w].outcome = outcome]

\* Mutant: a row whose endpoint is inactive is skipped, once claimed.
ReadEndpointSkipped(w) ==
  /\ worker[w].pc = "claimed"
  /\ IF IsActive(worker[w].item[2])
     THEN worker' = [worker EXCEPT ![w].pc = "send"]
     ELSE NextItem(w, worker[w].batch)
  /\ UNCHANGED <<endpointVars, deliveries, events, history>>

\* A missing or inactive endpoint ends the delivery without a request.
ReadEndpoint(w) ==
  /\ worker[w].pc = "claimed"
  /\ \/ /\ IsActive(worker[w].item[2])
        /\ worker' = [worker EXCEPT ![w].pc = "send"]
     \/ /\ ~IsActive(worker[w].item[2])
        /\ Classify(w, "failed")
  /\ UNCHANGED <<endpointVars, deliveries, events, history>>

\* Mutant: the attempt under way is not counted.
AfterFailureUncounted(attempts) == IF attempts >= MaxAttempts THEN "failed" ELSE "pending"

\* A failure that may pass: 429, 5xx, or no answer.
AfterFailure(attempts) == IF attempts + 1 >= MaxAttempts THEN "failed" ELSE "pending"

\* The request and its answer: 2xx, a client error, or a failure that may pass;
\* a receiver may have accepted a request whose answer never arrives.
Send(w) ==
  LET d == worker[w].item
  IN  /\ worker[w].pc = "send"
      /\ \/ Classify(w, "delivered") /\ accepted' = accepted \cup {d}
         \/ Classify(w, "failed") /\ UNCHANGED accepted
         \/ /\ Classify(w, AfterFailure(worker[w].attempts))
            /\ accepted' \in {accepted, accepted \cup {d}}
      /\ posts' = [posts EXCEPT ![d] = @ + 1]
      /\ UNCHANGED <<endpointVars, deliveries, events, retried, abandoned>>

Smaller(x, y) == IF x <= y THEN x ELSE y

\* getConvexWebhookExponentialBackoffMs, doubling from the first retry on.
Backoff[n \in Nat] ==
  IF n <= 1 THEN Smaller(InitialBackoff, MaxBackoff)
  ELSE Smaller(2 * Backoff[n - 1], MaxBackoff)

\* Ticks left until nextAttemptAt, which counts from the start of the action.
RetryWaits(attempts) ==
  {ticks \in 0..MaxBackoff : ticks <= Backoff[attempts] + JitterWindow}

\* updateWebhookDelivery with what the processor returned: the row is
\* overwritten, whatever it says by now.
updateWebhookDelivery(w) ==
  LET d        == worker[w].item
      attempts == worker[w].attempts + 1
      outcome  == worker[w].outcome
  IN  /\ worker[w].pc = "record"
      /\ \E wait \in IF outcome = "pending" THEN RetryWaits(attempts) ELSE {0} :
           deliveries' = [deliveries EXCEPT ![d] =
                            [status |-> outcome, attempts |-> attempts, wait |-> wait]]
      /\ NextItem(w, worker[w].batch)
      /\ UNCHANGED <<endpointVars, events, posts, accepted, retried, abandoned>>

\* The action stops: what it holds stays "processing".
Crash(w) ==
  /\ MayCrash
  /\ worker[w] # Idle
  /\ worker' = [worker EXCEPT ![w] = Idle]
  /\ abandoned' = abandoned \cup (IF Holding(w) THEN {worker[w].item} ELSE {})
  /\ UNCHANGED <<endpointVars, deliveries, events, posts, accepted, retried>>

\* An operator presses "Retry" on a list of exhausted deliveries, or calls the
\* mutation; it looks at the endpoint's organization, not at the row's status.
retryDelivery(d) ==
  /\ d \in DOMAIN deliveries
  /\ d[2] \in DOMAIN endpoints /\ endpoints[d[2]].scope # Global
  /\ retried[d] < MaxRetries
  /\ deliveries' = [deliveries EXCEPT ![d] = Queued]
  /\ retried' = [retried EXCEPT ![d] = @ + 1]
  /\ UNCHANGED <<endpointVars, events, worker, posts, accepted, abandoned>>

Tick ==
  /\ \E d \in DOMAIN deliveries : deliveries[d].wait > 0
  /\ deliveries' = [d \in DOMAIN deliveries |->
                      [deliveries[d] EXCEPT !.wait = IF @ > 0 THEN @ - 1 ELSE 0]]
  /\ UNCHANGED <<endpointVars, events, worker, history>>

-----------------------------------------------------------------------------
Init ==
  /\ endpoints = [e \in {} |-> 0]
  /\ drawn = 0
  /\ deliveries = [d \in {} |-> 0]
  /\ events = 0
  /\ worker = [w \in Worker |-> Idle]
  /\ posts = [d \in Delivery |-> 0]
  /\ accepted = {}
  /\ retried = [d \in Delivery |-> 0]
  /\ abandoned = {}

Step(w) ==
  \/ claimWebhookDelivery(w)
  \/ ReadEndpoint(w)
  \/ Send(w)
  \/ updateWebhookDelivery(w)

EndpointNext ==
  \/ \E s \in Scope, types \in SUBSET EventType : createWebhookEndpoint(s, types)
  \/ \E e \in Endpoint :
       \/ \E types \in SUBSET EventType : updateWebhookEndpoint(e, types)
       \/ \E status \in EndpointStatus : setWebhookEndpointStatus(e, status)
       \/ deleteWebhookEndpoint(e)

EmitNext ==
  \/ \E s \in Scope, type \in EventType : fanOutConvexWebhookEvent(s, type)
  \/ \E e \in Endpoint : createWebhookDelivery(e)

Next ==
  \/ EndpointNext
  \/ EmitNext
  \/ \E w \in Worker : listPendingWebhookDeliveries(w) \/ Step(w) \/ Crash(w)
  \/ \E d \in Delivery : retryDelivery(d)
  \/ Tick

Spec == Init /\ [][Next]_vars

\* The cron keeps starting actions, Convex runs what it has started, and time passes.
FairSpec ==
  /\ Spec
  /\ \A w \in Worker : WF_vars(listPendingWebhookDeliveries(w)) /\ SF_vars(Step(w))
  /\ WF_vars(Tick)

-----------------------------------------------------------------------------
WorkerRow ==
  [pc : {"idle", "loop", "claimed", "send", "record"},
   batch : SUBSET [id : DOMAIN deliveries, attempts : Nat],
   item : DOMAIN deliveries \cup {NoItem}, attempts : Nat,
   outcome : {"none", "pending", "delivered", "failed"}]

TypeOK ==
  /\ drawn \in 0..MaxEndpoints
  /\ DOMAIN endpoints \subseteq 1..drawn
  /\ endpoints \in [DOMAIN endpoints -> EndpointRow]
  /\ events \in 0..MaxEvents
  /\ DOMAIN deliveries \subseteq (1..events) \X (1..drawn)
  /\ deliveries \in [DOMAIN deliveries -> DeliveryRow]
  /\ worker \in [Worker -> WorkerRow]
  /\ posts \in [Delivery -> Nat]
  /\ {accepted, abandoned} \subseteq SUBSET DOMAIN deliveries
  /\ retried \in [Delivery -> Nat]

(***************************************************************************)
(* Two actions never send the same delivery at once, however their batches *)
(* overlap, except for one more per operator retry: a retry may return a   *)
(* row to the queue while an action still holds it (claimWebhookDelivery). *)
(***************************************************************************)
OneSender == \A d \in Delivery : Cardinality(Holders(d)) <= 1 + retried[d]

(***************************************************************************)
(* The attempt counter is recorded from the listed row, so an action that  *)
(* held a row for long sets it back and the others may use the same        *)
(* attempts again; still a delivery is sent a bounded number of times, 10  *)
(* for two overlapping actions and the default of four attempts.           *)
(***************************************************************************)
PostsPerRound == choose(MaxAttempts + Cardinality(Worker) - 1, Cardinality(Worker))
PostsBounded ==
  \A d \in Delivery : posts[d] <= (1 + retried[d]) * PostsPerRound

(***************************************************************************)
(* Every delivery is delivered or fails in the end, its endpoint deleted,  *)
(* disabled or dead, unless an action stopped while it held it.            *)
(***************************************************************************)
Settled(d) ==
  d \in DOMAIN deliveries =>
    deliveries[d].status \in {"delivered", "failed"} \/ d \in abandoned
Settles == \A d \in Delivery : []<>Settled(d)

(***************************************************************************)
(* The queue implements the outbox: an outcome is recorded once, and only  *)
(* what was accepted is recorded as delivered.                             *)
(***************************************************************************)
RecordedOutcome ==
  [d \in Delivery |->
     IF d \notin DOMAIN deliveries THEN "absent"
     ELSE IF deliveries[d].status \in {"pending", "processing"} THEN "open"
     ELSE deliveries[d].status]

Outbox == INSTANCE WebhookOutbox WITH
  Item <- Delivery, outcome <- RecordedOutcome, reopened <- retried

KeepsOutbox == Outbox!OutboxSpec

(***************************************************************************)
(* What the documentation says and the code does not do.                   *)
(***************************************************************************)
\* A failed delivery is not tried again before its backoff is over.
RetriesBackOff ==
  [][\A d \in DOMAIN deliveries :
       deliveries[d].status = "pending" /\ deliveries'[d].status = "processing"
         => deliveries[d].wait = 0]_vars

=============================================================================
