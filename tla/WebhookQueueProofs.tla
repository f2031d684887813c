------------------------- MODULE WebhookQueueProofs -------------------------
(***************************************************************************)
(* Proofs about WebhookQueue: its types, the claim, that it implements     *)
(* WebhookOutbox, and how often it sends.  The claim is counted: a row     *)
(* under way accounts for one action that holds it, every operator retry   *)
(* for one more.                                                           *)
(***************************************************************************)
EXTENDS WebhookQueue, FiniteSetTheorems, FunctionTheorems, WellFoundedInduction, TLAPS

HolderKept ==
  \A w \in Worker :
    /\ Holding(w) => worker[w].item \in DOMAIN deliveries
    /\ worker[w].pc = "record" => worker[w].outcome \in {"pending", "delivered", "failed"}
    /\ worker[w].outcome = "delivered" => Holding(w) /\ worker[w].item \in accepted

UnderWay(d) ==
  IF d \in DOMAIN deliveries /\ deliveries[d].status = "processing" THEN 1 ELSE 0

ClaimsCounted ==
  \A d \in Delivery : Cardinality(Holders(d)) <= retried[d] + UnderWay(d)

IInv == TypeOK /\ HolderKept /\ ClaimsCounted

-----------------------------------------------------------------------------
(***************************************************************************)
(* Holders.                                                                *)
(***************************************************************************)
LEMMA HoldersFinite ==
  ASSUME NEW d
  PROVE  IsFiniteSet(Holders(d)) /\ Cardinality(Holders(d)) \in Nat
<1>1. IsFiniteSet(Holders(d))
  BY QueueAssumption, FS_Subset DEF Holders
<1> QED BY <1>1, FS_CardinalityType

LEMMA HolderCounts ==
  ASSUME NEW d, NEW w \in Holders(d)
  PROVE  Cardinality(Holders(d)) >= 1
BY HoldersFinite, FS_EmptySet

LEMMA OneMore ==
  ASSUME NEW S, NEW T, NEW w, IsFiniteSet(S), T \subseteq S \cup {w}
  PROVE  IsFiniteSet(T) /\ Cardinality(T) <= Cardinality(S) + 1
<1>1. /\ IsFiniteSet(S \cup {w})
      /\ Cardinality(S \cup {w}) = IF w \in S THEN Cardinality(S) ELSE Cardinality(S) + 1
  BY FS_AddElement
<1>2. Cardinality(S) \in Nat
  BY FS_CardinalityType
<1>3. IsFiniteSet(T) /\ Cardinality(T) <= Cardinality(S \cup {w})
  BY <1>1, FS_Subset
<1>4. Cardinality(T) \in Nat
  BY <1>3, FS_CardinalityType
<1> QED BY <1>1, <1>2, <1>3, <1>4

LEMMA NoMore ==
  ASSUME NEW S, NEW T, IsFiniteSet(S), T \subseteq S
  PROVE  IsFiniteSet(T) /\ Cardinality(T) <= Cardinality(S)
BY FS_Subset

LEMMA OneLess ==
  ASSUME NEW S, NEW T, NEW w \in S, IsFiniteSet(S), T \subseteq S \ {w}
  PROVE  IsFiniteSet(T) /\ Cardinality(T) <= Cardinality(S) - 1
<1>1. IsFiniteSet(S \ {w}) /\ Cardinality(S \ {w}) = Cardinality(S) - 1
  BY FS_RemoveElement
<1> QED BY <1>1, FS_Subset

\* Only the action w moves: every other action holds what it held.
LEMMA OthersHold ==
  ASSUME NEW w \in Worker, \A x \in Worker \ {w} : worker'[x] = worker[x], NEW d
  PROVE  /\ Holders(d)' \subseteq Holders(d) \cup {w}
         /\ ~Holding(w)' => Holders(d)' = Holders(d) \ {w}
         /\ Holding(w)' /\ worker'[w].item # d => Holders(d)' = Holders(d) \ {w}
BY DEF Holders, Holding

-----------------------------------------------------------------------------
(***************************************************************************)
(* Rows.                                                                   *)
(***************************************************************************)
LEMMA IdleTyped == Idle \in WorkerRow
BY DEF Idle, WorkerRow, NoItem

LEMMA NextItemTyped ==
  ASSUME TypeOK, NEW w \in Worker, NEW batch,
         batch \subseteq [id : DOMAIN deliveries, attempts : Nat], NextItem(w, batch)
  PROVE  /\ worker' \in [Worker -> WorkerRow]
         /\ worker'[w].pc \in {"idle", "loop"} /\ worker'[w].outcome = "none"
         /\ \A x \in Worker \ {w} : worker'[x] = worker[x]
<1>1. [Idle EXCEPT !.pc = "loop", !.batch = batch] \in WorkerRow
  BY DEF Idle, WorkerRow, NoItem
<1> QED BY <1>1, IdleTyped DEF NextItem, TypeOK, Idle

\* Rows are never removed, so what was typed stays typed.
LEMMA WorkerRowGrows ==
  ASSUME TypeOK, DOMAIN deliveries \subseteq DOMAIN deliveries', UNCHANGED worker
  PROVE  worker' \in [Worker -> WorkerRow']
<1>1. WorkerRow \subseteq WorkerRow'
  BY DEF WorkerRow, NoItem
<1> QED BY <1>1 DEF TypeOK

LEMMA SameRows ==
  ASSUME DOMAIN deliveries = DOMAIN deliveries'
  PROVE  WorkerRow = WorkerRow'
BY DEF WorkerRow, NoItem

LEMMA DeliveryTyped ==
  ASSUME TypeOK
  PROVE  DOMAIN deliveries \subseteq Delivery
BY QueueAssumption DEF TypeOK, Delivery, Endpoint

-----------------------------------------------------------------------------
(***************************************************************************)
(* Steps that leave the workers alone.                                     *)
(***************************************************************************)
LEMMA StillIdle ==
  ASSUME IInv, UNCHANGED <<deliveries, events, worker, history>>,
         drawn' \in drawn..MaxEndpoints, DOMAIN endpoints' \subseteq 1..drawn',
         endpoints' \in [DOMAIN endpoints' -> EndpointRow]
  PROVE  IInv'
<1> USE DEF IInv
<1>1. TypeOK'
  <2>1. WorkerRow' = WorkerRow
    BY SameRows DEF history
  <2> QED BY <2>1, QueueAssumption DEF TypeOK, history
<1>2. HolderKept'
  BY DEF HolderKept, Holding, history
<1>3. ClaimsCounted'
  BY DEF ClaimsCounted, UnderWay, Holders, Holding, history
<1> QED BY <1>1, <1>2, <1>3

LEMMA EndpointStep == IInv /\ EndpointNext => IInv'
<1> SUFFICES ASSUME IInv, EndpointNext PROVE IInv'
  OBVIOUS
<1>1. ASSUME NEW s \in Scope, NEW types \in SUBSET EventType, createWebhookEndpoint(s, types)
      PROVE  IInv'
  <2> DEFINE row == [scope |-> s, status |-> "active", types |-> types]
  <2>1. row \in EndpointRow
    BY DEF EndpointRow, EndpointStatus
  <2>2. /\ DOMAIN endpoints' = DOMAIN endpoints \cup {drawn + 1}
        /\ endpoints' \in [DOMAIN endpoints' -> EndpointRow]
    BY <1>1, <2>1 DEF createWebhookEndpoint, With, IInv, TypeOK
  <2> QED
    BY <1>1, <2>2, StillIdle, QueueAssumption DEF createWebhookEndpoint, IInv, TypeOK
<1>2. ASSUME NEW e \in Endpoint, NEW types \in SUBSET EventType, updateWebhookEndpoint(e, types)
      PROVE  IInv'
  <2>1. endpoints' \in [DOMAIN endpoints -> EndpointRow]
    BY <1>2 DEF updateWebhookEndpoint, IInv, TypeOK, EndpointRow
  <2> QED
    BY <1>2, <2>1, StillIdle, QueueAssumption DEF updateWebhookEndpoint, IInv, TypeOK
<1>3. ASSUME NEW e \in Endpoint, NEW status \in EndpointStatus, setWebhookEndpointStatus(e, status)
      PROVE  IInv'
  <2>1. endpoints' \in [DOMAIN endpoints -> EndpointRow]
    BY <1>3 DEF setWebhookEndpointStatus, IInv, TypeOK, EndpointRow
  <2> QED
    BY <1>3, <2>1, StillIdle, QueueAssumption DEF setWebhookEndpointStatus, IInv, TypeOK
<1>4. ASSUME NEW e \in Endpoint, deleteWebhookEndpoint(e)
      PROVE  IInv'
  BY <1>4, StillIdle, QueueAssumption DEF deleteWebhookEndpoint, IInv, TypeOK
<1> QED BY <1>1, <1>2, <1>3, <1>4 DEF EndpointNext

\* An event's rows are new ones.
LEMMA EnqueueStep ==
  ASSUME IInv, events < MaxEvents, NEW D, D \subseteq {events + 1} \X (1..drawn), Enqueue(D)
  PROVE  /\ IInv'
         /\ DOMAIN deliveries' = DOMAIN deliveries \cup D
         /\ D \cap DOMAIN deliveries = {}
         /\ \A d \in DOMAIN deliveries : deliveries'[d] = deliveries[d]
         /\ \A d \in D : deliveries'[d] = Queued
<1> USE DEF IInv
<1>1. DOMAIN deliveries \subseteq (1..events) \X (1..drawn)
  BY DEF TypeOK
<1>2. D \cap DOMAIN deliveries = {}
  <2>1. events \in Nat
    BY QueueAssumption DEF TypeOK
  <2> QED BY <1>1, <2>1
<1>3. /\ DOMAIN deliveries' = DOMAIN deliveries \cup D
      /\ \A d \in DOMAIN deliveries : deliveries'[d] = deliveries[d]
      /\ \A d \in D : deliveries'[d] = Queued
  BY <1>2 DEF Enqueue
<1>4. deliveries' \in [DOMAIN deliveries' -> DeliveryRow]
  <2>1. Queued \in DeliveryRow
    BY DEF Queued, DeliveryRow, DeliveryStatus
  <2> QED BY <2>1 DEF Enqueue, TypeOK
<1>5. TypeOK'
  <2>1. worker' \in [Worker -> WorkerRow']
    BY <1>3, WorkerRowGrows DEF Enqueue
  <2>2. DOMAIN deliveries' \subseteq (1..events') \X (1..drawn')
    BY <1>1, <1>3, QueueAssumption DEF Enqueue, endpointVars, TypeOK
  <2>3. events' \in 0..MaxEvents
    BY QueueAssumption DEF Enqueue, TypeOK
  <2> QED
    BY <1>3, <1>4, <2>1, <2>2, <2>3 DEF Enqueue, endpointVars, history, TypeOK
<1>6. HolderKept'
  BY <1>3 DEF HolderKept, Holding, Enqueue, history
<1>7. ClaimsCounted'
  <2>1. \A d \in Delivery : Holders(d)' = Holders(d) /\ UnderWay(d)' = UnderWay(d)
    BY <1>2, <1>3 DEF Holders, Holding, UnderWay, Enqueue, Queued, history
  <2> QED BY <2>1 DEF ClaimsCounted, Enqueue, history
<1> QED BY <1>2, <1>3, <1>5, <1>6, <1>7

\* What an event enqueues.
LEMMA EmitStep ==
  ASSUME IInv, EmitNext
  PROVE  \E D : /\ events < MaxEvents
                /\ D \subseteq {events + 1} \X (1..drawn)
                /\ Enqueue(D)
<1>1. DOMAIN endpoints \subseteq 1..drawn
  BY DEF IInv, TypeOK
<1>2. ASSUME NEW s \in Scope, NEW type \in EventType, fanOutConvexWebhookEvent(s, type)
      PROVE  /\ events < MaxEvents
             /\ {events + 1} \X Subscribers(s, type) \subseteq {events + 1} \X (1..drawn)
             /\ Enqueue({events + 1} \X Subscribers(s, type))
  BY <1>1, <1>2 DEF fanOutConvexWebhookEvent, Subscribers, ActiveIn
<1>3. ASSUME NEW e \in Endpoint, createWebhookDelivery(e)
      PROVE  /\ events < MaxEvents
             /\ {<<events + 1, e>>} \subseteq {events + 1} \X (1..drawn)
             /\ Enqueue({<<events + 1, e>>})
  BY <1>1, <1>3 DEF createWebhookDelivery, IsActive
<1> QED BY <1>2, <1>3 DEF EmitNext

-----------------------------------------------------------------------------
(***************************************************************************)
(* Steps of an action.  Each is described by what it does to the row of    *)
(* its worker, to the deliveries and to the history.                       *)
(***************************************************************************)
\* Listing or giving up: w holds nothing afterwards and no row changes.
LEMMA LetGo ==
  ASSUME IInv, NEW w \in Worker, worker' \in [Worker -> WorkerRow],
         worker'[w].pc \in {"idle", "loop"}, worker'[w].outcome = "none",
         \A x \in Worker \ {w} : worker'[x] = worker[x],
         UNCHANGED <<endpointVars, deliveries, events, posts, accepted, retried>>,
         abandoned' \subseteq DOMAIN deliveries
  PROVE  IInv'
<1> USE DEF IInv
<1>1. TypeOK'
  <2>1. WorkerRow' = WorkerRow
    BY SameRows
  <2> QED BY <2>1 DEF TypeOK, endpointVars
<1>2. HolderKept'
  BY DEF HolderKept, Holding
<1>3. ClaimsCounted'
  <2> SUFFICES ASSUME NEW d \in Delivery
               PROVE  Cardinality(Holders(d)') <= retried[d] + UnderWay(d)
    BY DEF ClaimsCounted, UnderWay
  <2>1. Holders(d)' \subseteq Holders(d)
    BY OthersHold DEF Holding
  <2>2. Cardinality(Holders(d)') <= Cardinality(Holders(d))
    BY <2>1, HoldersFinite, NoMore
  <2>3. Cardinality(Holders(d)') \in Nat
    BY <2>1, HoldersFinite, NoMore, FS_CardinalityType
  <2>4. retried[d] \in Nat /\ UnderWay(d) \in Nat
    BY DEF TypeOK, UnderWay
  <2> QED BY <2>2, <2>3, <2>4, HoldersFinite DEF ClaimsCounted
<1> QED BY <1>1, <1>2, <1>3

LEMMA ListStep ==
  ASSUME IInv, NEW w \in Worker, listPendingWebhookDeliveries(w)
  PROVE  IInv'
<1>1. PICK D \in SUBSET Due :
        NextItem(w, {[id |-> d, attempts |-> deliveries[d].attempts] : d \in D})
  BY DEF listPendingWebhookDeliveries
<1>2. {[id |-> d, attempts |-> deliveries[d].attempts] : d \in D}
        \subseteq [id : DOMAIN deliveries, attempts : Nat]
  BY DEF Due, IInv, TypeOK, DeliveryRow
<1>3. /\ worker' \in [Worker -> WorkerRow]
      /\ worker'[w].pc \in {"idle", "loop"} /\ worker'[w].outcome = "none"
      /\ \A x \in Worker \ {w} : worker'[x] = worker[x]
  BY <1>1, <1>2, NextItemTyped DEF IInv
<1> QED
  BY <1>3, LetGo DEF listPendingWebhookDeliveries, history, IInv, TypeOK

LEMMA CrashStep ==
  ASSUME IInv, NEW w \in Worker, Crash(w)
  PROVE  IInv'
<1>1. abandoned' \subseteq DOMAIN deliveries
  BY DEF Crash, IInv, TypeOK, HolderKept
<1>2. /\ worker' \in [Worker -> WorkerRow]
      /\ worker'[w] = Idle
      /\ \A x \in Worker \ {w} : worker'[x] = worker[x]
  BY IdleTyped DEF Crash, IInv, TypeOK
<1> QED
  BY <1>1, <1>2, LetGo DEF Crash, Idle

\* Holding on: w goes on with the same item and no row changes.
LEMMA HoldOn ==
  ASSUME IInv, NEW w \in Worker, Holding(w), worker' \in [Worker -> WorkerRow],
         worker'[w].pc \in {"send", "record"}, worker'[w].item = worker[w].item,
         worker'[w].pc = "record" => worker'[w].outcome \in {"pending", "delivered", "failed"},
         worker'[w].outcome = "delivered" => worker[w].item \in accepted',
         \A x \in Worker \ {w} : worker'[x] = worker[x],
         UNCHANGED <<endpointVars, deliveries, events, retried, abandoned>>,
         accepted \subseteq accepted', accepted' \subseteq DOMAIN deliveries,
         posts' \in [Delivery -> Nat]
  PROVE  IInv'
<1> USE DEF IInv
<1>1. TypeOK'
  <2>1. WorkerRow' = WorkerRow
    BY SameRows
  <2> QED BY <2>1 DEF TypeOK, endpointVars
<1>2. HolderKept'
  BY DEF HolderKept, Holding
<1>3. ClaimsCounted'
  <2>1. \A d \in Delivery : Holders(d)' = Holders(d) /\ UnderWay(d)' = UnderWay(d)
    BY DEF Holders, Holding, UnderWay
  <2> QED BY <2>1 DEF ClaimsCounted
<1> QED BY <1>1, <1>2, <1>3

ClassifyFacts(w, outcome) ==
  /\ worker' \in [Worker -> WorkerRow]
  /\ worker'[w].pc = "record" /\ worker'[w].outcome = outcome
  /\ worker'[w].item = worker[w].item
  /\ \A x \in Worker \ {w} : worker'[x] = worker[x]

LEMMA Classified ==
  ASSUME TypeOK, NEW w \in Worker, NEW outcome \in {"pending", "delivered", "failed"},
         Classify(w, outcome)
  PROVE  ClassifyFacts(w, outcome)
<1>1. [worker[w] EXCEPT !.pc = "record", !.outcome = outcome] \in WorkerRow
  BY DEF TypeOK, WorkerRow
<1>2. /\ worker' \in [Worker -> WorkerRow]
      /\ worker'[w] = [worker[w] EXCEPT !.pc = "record", !.outcome = outcome]
      /\ \A x \in Worker \ {w} : worker'[x] = worker[x]
  BY <1>1 DEF Classify, TypeOK
<1>3. /\ worker'[w].pc = "record" /\ worker'[w].outcome = outcome
      /\ worker'[w].item = worker[w].item
  BY <1>2 DEF TypeOK, WorkerRow
<1> QED BY <1>2, <1>3 DEF ClassifyFacts

LEMMA ReadStep ==
  ASSUME IInv, NEW w \in Worker, ReadEndpoint(w)
  PROVE  IInv'
<1>1. Holding(w)
  BY DEF ReadEndpoint, Holding
<1>2. CASE worker' = [worker EXCEPT ![w].pc = "send"]
  <2>1. [worker[w] EXCEPT !.pc = "send"] \in WorkerRow
    BY DEF IInv, TypeOK, WorkerRow
  <2>2. /\ worker' \in [Worker -> WorkerRow]
        /\ worker'[w] = [worker[w] EXCEPT !.pc = "send"]
        /\ \A x \in Worker \ {w} : worker'[x] = worker[x]
    BY <1>2, <2>1 DEF IInv, TypeOK
  <2>3. /\ worker'[w].pc = "send" /\ worker'[w].item = worker[w].item
        /\ worker'[w].outcome = worker[w].outcome
    BY <2>2 DEF IInv, TypeOK, WorkerRow
  <2> QED
    BY <1>1, <2>2, <2>3, HoldOn DEF ReadEndpoint, history, IInv, TypeOK, HolderKept
<1>3. CASE Classify(w, "failed")
  <2>1. ClassifyFacts(w, "failed")
    BY <1>3, Classified DEF IInv
  <2> QED
    BY <1>1, <2>1, HoldOn DEF ClassifyFacts, ReadEndpoint, history, IInv, TypeOK
<1> QED BY <1>2, <1>3 DEF ReadEndpoint

LEMMA SendStep ==
  ASSUME IInv, NEW w \in Worker, Send(w)
  PROVE  /\ IInv'
         /\ worker[w].item \in DOMAIN deliveries
         /\ accepted' \in {accepted, accepted \cup {worker[w].item}}
         /\ UNCHANGED <<deliveries, retried>>
<1> DEFINE d == worker[w].item
<1>1. d \in DOMAIN deliveries
  BY DEF Send, IInv, HolderKept, Holding
<1>2. PICK outcome \in {"pending", "delivered", "failed"} :
        /\ Classify(w, outcome)
        /\ accepted' \in {accepted, accepted \cup {d}}
        /\ outcome = "delivered" => d \in accepted'
  <2>1. AfterFailure(worker[w].attempts) \in {"pending", "failed"}
    BY DEF AfterFailure
  <2> QED BY <2>1 DEF Send
<1>3. ClassifyFacts(w, outcome)
  BY <1>2, Classified DEF IInv
<1>4. posts' \in [Delivery -> Nat]
  BY <1>1, DeliveryTyped DEF Send, IInv, TypeOK
<1>5. accepted \subseteq accepted' /\ accepted' \subseteq DOMAIN deliveries
  BY <1>1, <1>2 DEF IInv, TypeOK
<1>6. UNCHANGED <<endpointVars, deliveries, events, retried, abandoned>> /\ Holding(w)
  BY DEF Send, Holding
<1>7. IInv'
  BY <1>2, <1>3, <1>4, <1>5, <1>6, HoldOn DEF ClassifyFacts
<1> QED BY <1>1, <1>2, <1>6, <1>7

-----------------------------------------------------------------------------

\* A claim takes a row that nobody accounts for yet.
LEMMA ClaimStep ==
  ASSUME IInv, NEW w \in Worker, claimWebhookDelivery(w)
  PROVE  /\ IInv'
         /\ DOMAIN deliveries' = DOMAIN deliveries
         /\ \A d \in DOMAIN deliveries :
              \/ deliveries'[d].status = deliveries[d].status
              \/ /\ deliveries[d].status = "pending"
                 /\ deliveries'[d].status = "processing"
<1> USE DEF IInv
<1>1. PICK listed \in worker[w].batch :
        LET rest == worker[w].batch \ {listed}
        IN  \/ /\ CanClaim(listed.id)
               /\ deliveries' = [deliveries EXCEPT ![listed.id].status = "processing"]
               /\ worker' = [worker EXCEPT ![w] =
                    [Idle EXCEPT !.pc = "claimed", !.batch = rest, !.item = listed.id,
                                 !.attempts = listed.attempts]]
            \/ /\ ~CanClaim(listed.id)
               /\ NextItem(w, rest)
               /\ UNCHANGED deliveries
  BY DEF claimWebhookDelivery
<1>2. /\ worker[w].batch \subseteq [id : DOMAIN deliveries, attempts : Nat]
      /\ listed.id \in DOMAIN deliveries /\ listed.attempts \in Nat
  BY DEF TypeOK, WorkerRow
<1>3. UNCHANGED <<endpointVars, events, history>> /\ worker[w].pc = "loop"
  BY DEF claimWebhookDelivery
<1> DEFINE rest == worker[w].batch \ {listed}
<1>4. CASE ~CanClaim(listed.id) /\ NextItem(w, rest) /\ UNCHANGED deliveries
  <2>1. /\ worker' \in [Worker -> WorkerRow]
        /\ worker'[w].pc \in {"idle", "loop"} /\ worker'[w].outcome = "none"
        /\ \A x \in Worker \ {w} : worker'[x] = worker[x]
    BY <1>2, <1>4, NextItemTyped
  <2>2. abandoned' \subseteq DOMAIN deliveries
    BY <1>3 DEF TypeOK, history
  <2>3. IInv'
    BY <1>3, <1>4, <2>1, <2>2, LetGo DEF history
  <2> QED BY <1>4, <2>3
<1>5. CASE /\ CanClaim(listed.id)
           /\ deliveries' = [deliveries EXCEPT ![listed.id].status = "processing"]
           /\ worker' = [worker EXCEPT ![w] =
                [Idle EXCEPT !.pc = "claimed", !.batch = rest, !.item = listed.id,
                             !.attempts = listed.attempts]]
  <2> DEFINE row == [Idle EXCEPT !.pc = "claimed", !.batch = rest, !.item = listed.id,
                                 !.attempts = listed.attempts]
  <2>1. row \in WorkerRow
    BY <1>2 DEF Idle, WorkerRow, NoItem
  <2>2. /\ worker' \in [Worker -> WorkerRow]
        /\ worker'[w].pc = "claimed" /\ worker'[w].outcome = "none"
        /\ worker'[w].item = listed.id
        /\ \A x \in Worker \ {w} : worker'[x] = worker[x]
    BY <1>5, <2>1 DEF TypeOK, Idle
  <2>3. /\ DOMAIN deliveries' = DOMAIN deliveries
        /\ \A d \in DOMAIN deliveries \ {listed.id} : deliveries'[d] = deliveries[d]
        /\ deliveries'[listed.id].status = "processing"
        /\ deliveries[listed.id].status = "pending"
        /\ deliveries' \in [DOMAIN deliveries' -> DeliveryRow]
    BY <1>2, <1>5 DEF CanClaim, TypeOK, DeliveryRow, DeliveryStatus
  <2>4. TypeOK'
    <3>1. WorkerRow' = WorkerRow
      BY <2>3, SameRows
    <3> QED BY <1>3, <2>2, <2>3, <3>1 DEF TypeOK, endpointVars, history
  <2>5. HolderKept'
    BY <1>2, <1>3, <2>2, <2>3 DEF HolderKept, Holding, history
  <2>6. ClaimsCounted'
    <3> SUFFICES ASSUME NEW d \in Delivery
                 PROVE  Cardinality(Holders(d)') <= retried[d] + UnderWay(d)'
      BY <1>3 DEF ClaimsCounted, history
    <3>1. retried[d] \in Nat /\ Cardinality(Holders(d)) \in Nat
      BY HoldersFinite DEF TypeOK
    <3>2. CASE d = listed.id
      <4>1. UnderWay(d) = 0 /\ UnderWay(d)' = 1
        BY <1>2, <2>3, <3>2 DEF UnderWay
      <4>2. Holders(d)' \subseteq Holders(d) \cup {w}
        BY <2>2, OthersHold
      <4>3. /\ Cardinality(Holders(d)') <= Cardinality(Holders(d)) + 1
            /\ Cardinality(Holders(d)') \in Nat
        BY <4>2, HoldersFinite, OneMore, FS_CardinalityType
      <4> QED BY <3>1, <4>1, <4>3 DEF ClaimsCounted
    <3>3. CASE d # listed.id
      <4>1. UnderWay(d)' = UnderWay(d)
        BY <2>3, <3>3 DEF UnderWay
      <4>2. Holders(d)' = Holders(d)
        BY <1>3, <2>2, <3>3 DEF Holders, Holding
      <4> QED BY <4>1, <4>2 DEF ClaimsCounted
    <3> QED BY <3>2, <3>3
  <2> QED BY <2>3, <2>4, <2>5, <2>6
<1> QED BY <1>1, <1>4, <1>5

\* What is recorded was open, or had been retried: its holder accounts for it.
LEMMA RecordStep ==
  ASSUME IInv, NEW w \in Worker, updateWebhookDelivery(w)
  PROVE  LET d == worker[w].item
         IN  /\ IInv'
             /\ d \in DOMAIN deliveries
             /\ DOMAIN deliveries' = DOMAIN deliveries
             /\ \A x \in DOMAIN deliveries \ {d} : deliveries'[x] = deliveries[x]
             /\ deliveries'[d].status = worker[w].outcome
             /\ worker[w].outcome \in {"pending", "delivered", "failed"}
             /\ worker[w].outcome = "delivered" => d \in accepted
             /\ deliveries[d].status = "processing" \/ retried[d] > 0
             /\ UNCHANGED <<accepted, retried>>
<1> USE DEF IInv
<1> DEFINE d == worker[w].item
           attempts == worker[w].attempts + 1
           outcome == worker[w].outcome
<1>1. /\ worker[w].pc = "record" /\ w \in Holders(d)
      /\ d \in DOMAIN deliveries /\ d \in Delivery
      /\ outcome \in {"pending", "delivered", "failed"}
      /\ outcome = "delivered" => d \in accepted
  BY DeliveryTyped DEF updateWebhookDelivery, HolderKept, Holders, Holding
<1>2. UNCHANGED <<endpointVars, events, posts, accepted, retried, abandoned>>
  BY DEF updateWebhookDelivery
<1>3. PICK wait \in Nat :
        deliveries' = [deliveries EXCEPT ![d] =
                         [status |-> outcome, attempts |-> attempts, wait |-> wait]]
  <2>1. (IF outcome = "pending" THEN RetryWaits(attempts) ELSE {0}) \subseteq Nat
    BY QueueAssumption DEF RetryWaits
  <2> QED BY <2>1 DEF updateWebhookDelivery
<1>4. attempts \in Nat
  BY DEF TypeOK, WorkerRow
<1>5. /\ DOMAIN deliveries' = DOMAIN deliveries
      /\ \A x \in DOMAIN deliveries \ {d} : deliveries'[x] = deliveries[x]
      /\ deliveries'[d].status = outcome
      /\ deliveries' \in [DOMAIN deliveries' -> DeliveryRow]
  <2>1. [status |-> outcome, attempts |-> attempts, wait |-> wait] \in DeliveryRow
    BY <1>1, <1>4 DEF DeliveryRow, DeliveryStatus
  <2> QED BY <1>1, <1>3, <2>1 DEF TypeOK
<1>6. /\ worker' \in [Worker -> WorkerRow]
      /\ worker'[w].pc \in {"idle", "loop"} /\ worker'[w].outcome = "none"
      /\ \A x \in Worker \ {w} : worker'[x] = worker[x]
  <2>1. worker[w].batch \subseteq [id : DOMAIN deliveries, attempts : Nat]
    BY DEF TypeOK, WorkerRow
  <2>2. NextItem(w, worker[w].batch)
    BY DEF updateWebhookDelivery
  <2> QED BY <2>1, <2>2, NextItemTyped
<1>7. TypeOK'
  <2>1. WorkerRow' = WorkerRow
    BY <1>5, SameRows
  <2> QED BY <1>2, <1>5, <1>6, <2>1 DEF TypeOK, endpointVars
<1>8. HolderKept'
  BY <1>2, <1>5, <1>6 DEF HolderKept, Holding
<1>9. Cardinality(Holders(d)) >= 1 /\ Cardinality(Holders(d)) \in Nat /\ retried[d] \in Nat
  BY <1>1, HolderCounts, HoldersFinite DEF TypeOK
<1>10. ClaimsCounted'
  <2> SUFFICES ASSUME NEW e \in Delivery
               PROVE  Cardinality(Holders(e)') <= retried[e] + UnderWay(e)'
    BY <1>2 DEF ClaimsCounted
  <2>1. Holders(e)' = Holders(e) \ {w}
    BY <1>6, OthersHold DEF Holding
  <2>2. retried[e] \in Nat /\ Cardinality(Holders(e)) \in Nat
    BY HoldersFinite DEF TypeOK
  <2>3. CASE e = d
    <3>1. /\ Cardinality(Holders(e)') <= Cardinality(Holders(e)) - 1
          /\ Cardinality(Holders(e)') \in Nat
      BY <1>1, <2>1, <2>3, HoldersFinite, OneLess, FS_CardinalityType
    <3>2. UnderWay(e) \in {0, 1} /\ UnderWay(e)' \in {0, 1}
      BY DEF UnderWay
    <3> QED BY <2>2, <3>1, <3>2 DEF ClaimsCounted
  <2>4. CASE e # d
    <3>1. UnderWay(e)' = UnderWay(e)
      BY <1>5, <2>4 DEF UnderWay
    <3>2. Holders(e)' = Holders(e)
      BY <1>6, <2>1, <2>4 DEF Holders
    <3> QED BY <3>1, <3>2 DEF ClaimsCounted
  <2> QED BY <2>3, <2>4
<1>11. deliveries[d].status = "processing" \/ retried[d] > 0
  BY <1>1, <1>9 DEF ClaimsCounted, UnderWay
<1> QED
  BY <1>1, <1>2, <1>5, <1>7, <1>8, <1>10, <1>11

\* A retry takes over what the row accounted for.
LEMMA RetryStep ==
  ASSUME IInv, NEW d \in Delivery, retryDelivery(d)
  PROVE  /\ IInv'
         /\ d \in DOMAIN deliveries
         /\ DOMAIN deliveries' = DOMAIN deliveries
         /\ \A x \in DOMAIN deliveries \ {d} : deliveries'[x] = deliveries[x]
         /\ deliveries'[d].status = "pending"
         /\ retried' = [retried EXCEPT ![d] = @ + 1]
         /\ UNCHANGED accepted
<1> USE DEF IInv
<1>1. /\ d \in DOMAIN deliveries
      /\ deliveries' = [deliveries EXCEPT ![d] = Queued]
      /\ retried' = [retried EXCEPT ![d] = @ + 1]
      /\ UNCHANGED <<endpointVars, events, worker, posts, accepted, abandoned>>
  BY DEF retryDelivery
<1>2. /\ DOMAIN deliveries' = DOMAIN deliveries
      /\ \A x \in DOMAIN deliveries \ {d} : deliveries'[x] = deliveries[x]
      /\ deliveries'[d].status = "pending"
      /\ deliveries' \in [DOMAIN deliveries' -> DeliveryRow]
  BY <1>1 DEF Queued, DeliveryRow, DeliveryStatus, TypeOK
<1>3. TypeOK'
  <2>1. WorkerRow' = WorkerRow
    BY <1>2, SameRows
  <2>2. retried' \in [Delivery -> Nat]
    BY <1>1 DEF TypeOK
  <2> QED BY <1>1, <1>2, <2>1, <2>2 DEF TypeOK, endpointVars
<1>4. HolderKept'
  BY <1>1, <1>2 DEF HolderKept, Holding
<1>5. ClaimsCounted'
  <2> SUFFICES ASSUME NEW e \in Delivery
               PROVE  Cardinality(Holders(e)') <= retried'[e] + UnderWay(e)'
    BY DEF ClaimsCounted
  <2>1. Holders(e)' = Holders(e) /\ Cardinality(Holders(e)) \in Nat /\ retried[e] \in Nat
    BY <1>1, HoldersFinite DEF Holders, Holding, TypeOK
  <2>2. CASE e = d
    <3>1. retried'[e] = retried[e] + 1 /\ UnderWay(e) \in {0, 1} /\ UnderWay(e)' = 0
      BY <1>1, <1>2, <2>2 DEF UnderWay, TypeOK
    <3> QED BY <2>1, <3>1 DEF ClaimsCounted
  <2>3. CASE e # d
    <3>1. retried'[e] = retried[e] /\ UnderWay(e)' = UnderWay(e)
      BY <1>1, <1>2, <2>3 DEF UnderWay, TypeOK
    <3> QED BY <2>1, <3>1 DEF ClaimsCounted
  <2> QED BY <2>2, <2>3
<1> QED BY <1>1, <1>2, <1>3, <1>4, <1>5

LEMMA TickStep ==
  ASSUME IInv, Tick
  PROVE  /\ IInv'
         /\ DOMAIN deliveries' = DOMAIN deliveries
         /\ \A d \in DOMAIN deliveries : deliveries'[d].status = deliveries[d].status
<1> USE DEF IInv
<1>1. /\ DOMAIN deliveries' = DOMAIN deliveries
      /\ \A d \in DOMAIN deliveries : deliveries'[d].status = deliveries[d].status
      /\ deliveries' \in [DOMAIN deliveries' -> DeliveryRow]
  BY DEF Tick, TypeOK, DeliveryRow
<1>2. UNCHANGED <<endpointVars, events, worker, history>>
  BY DEF Tick
<1>3. TypeOK'
  <2>1. WorkerRow' = WorkerRow
    BY <1>1, SameRows
  <2> QED BY <1>1, <1>2, <2>1 DEF TypeOK, endpointVars, history
<1>4. HolderKept'
  BY <1>1, <1>2 DEF HolderKept, Holding, history
<1>5. ClaimsCounted'
  BY <1>1, <1>2 DEF ClaimsCounted, UnderWay, Holders, Holding, history
<1> QED BY <1>1, <1>3, <1>4, <1>5

-----------------------------------------------------------------------------
(***************************************************************************)
(* The theorems.                                                           *)
(***************************************************************************)
LEMMA InitIInv == Init => IInv
<1> SUFFICES ASSUME Init PROVE IInv
  OBVIOUS
<1>1. TypeOK
  BY IdleTyped, QueueAssumption DEF Init, TypeOK
<1>2. HolderKept
  BY DEF Init, HolderKept, Holding, Idle
<1>3. ClaimsCounted
  <2>1. \A d \in Delivery : Holders(d) = {} /\ UnderWay(d) = 0 /\ retried[d] = 0
    BY DEF Init, Holders, Holding, Idle, UnderWay
  <2> QED BY <2>1, FS_EmptySet DEF ClaimsCounted
<1> QED BY <1>1, <1>2, <1>3 DEF IInv

LEMMA StutterStep == IInv /\ UNCHANGED vars => IInv'
<1> SUFFICES ASSUME IInv, UNCHANGED vars PROVE IInv'
  OBVIOUS
<1>1. WorkerRow' = WorkerRow
  BY SameRows DEF vars
<1> QED
  BY <1>1 DEF IInv, vars, history, TypeOK, HolderKept, ClaimsCounted, UnderWay, Holders, Holding

LEMMA NextIInv == IInv /\ [Next]_vars => IInv'
<1> SUFFICES ASSUME IInv, Next PROVE IInv'
  BY StutterStep
<1>1. CASE EndpointNext
  BY <1>1, EndpointStep
<1>2. CASE EmitNext
  BY <1>2, EmitStep, EnqueueStep
<1>3. ASSUME NEW w \in Worker, listPendingWebhookDeliveries(w) \/ Step(w) \/ Crash(w)
      PROVE  IInv'
  BY <1>3, ListStep, CrashStep, ClaimStep, ReadStep, SendStep, RecordStep DEF Step
<1>4. ASSUME NEW d \in Delivery, retryDelivery(d)
      PROVE  IInv'
  BY <1>4, RetryStep
<1>5. CASE Tick
  BY <1>5, TickStep
<1> QED BY <1>1, <1>2, <1>3, <1>4, <1>5 DEF Next

THEOREM Invariance == Spec => []IInv
BY InitIInv, NextIInv, PTL DEF Spec

\* Every table keeps its columns, and a listed or held delivery still has its row.
THEOREM TypesKept == Spec => []TypeOK
<1>1. IInv => TypeOK
  BY DEF IInv
<1> QED BY <1>1, Invariance, PTL

\* Whatever the number of actions, endpoints and retries, a delivery has one
\* sender, and one more for each retry.
THEOREM ClaimIsExclusive == Spec => []OneSender
<1>1. IInv => OneSender
  <2> SUFFICES ASSUME IInv, NEW d \in Delivery
               PROVE  Cardinality(Holders(d)) <= 1 + retried[d]
    BY DEF OneSender
  <2>1. retried[d] \in Nat /\ Cardinality(Holders(d)) \in Nat /\ UnderWay(d) \in {0, 1}
    BY HoldersFinite DEF IInv, TypeOK, UnderWay
  <2> QED BY <2>1 DEF IInv, ClaimsCounted
<1> QED BY <1>1, Invariance, PTL

(***************************************************************************)
(* Refinement of WebhookOutbox.                                            *)
(***************************************************************************)
\* No row changed its outcome, so the outbox does not move.
LEMMA OutboxStands ==
  ASSUME UNCHANGED <<accepted, retried>>, DOMAIN deliveries' = DOMAIN deliveries,
         \A d \in DOMAIN deliveries :
           \/ deliveries'[d].status = deliveries[d].status
           \/ /\ deliveries[d].status = "pending"
              /\ deliveries'[d].status = "processing"
  PROVE  UNCHANGED Outbox!outboxVars
<1>1. RecordedOutcome' = RecordedOutcome
  BY DEF RecordedOutcome
<1> QED BY <1>1 DEF Outbox!outboxVars

LEMMA OutboxInitially == Init => Outbox!OutboxInit
BY DEF Init, Outbox!OutboxInit, RecordedOutcome

LEMMA EmitsOutbox ==
  ASSUME IInv, EmitNext
  PROVE  Outbox!OutboxNext
<1>1. PICK D : /\ events < MaxEvents
               /\ D \subseteq {events + 1} \X (1..drawn)
               /\ Enqueue(D)
  BY EmitStep
<1>2. D \subseteq Delivery
  BY <1>1, QueueAssumption DEF Delivery, Endpoint, IInv, TypeOK
<1>3. /\ DOMAIN deliveries' = DOMAIN deliveries \cup D
      /\ D \cap DOMAIN deliveries = {}
      /\ \A d \in DOMAIN deliveries : deliveries'[d] = deliveries[d]
      /\ \A d \in D : deliveries'[d] = Queued
  BY <1>1, EnqueueStep
<1>4. \A d \in D : RecordedOutcome[d] = "absent"
  BY <1>2, <1>3 DEF RecordedOutcome
<1>5. RecordedOutcome' = [d \in Delivery |-> IF d \in D THEN "open" ELSE RecordedOutcome[d]]
  BY <1>3 DEF RecordedOutcome, Queued
<1>6. UNCHANGED <<accepted, retried>>
  BY <1>1 DEF Enqueue, history
<1>7. Outbox!Emit(D)
  BY <1>4, <1>5, <1>6 DEF Outbox!Emit
<1> QED BY <1>2, <1>7 DEF Outbox!OutboxNext

LEMMA SendsOutbox ==
  ASSUME IInv, NEW w \in Worker, Send(w)
  PROVE  Outbox!OutboxNext \/ UNCHANGED Outbox!outboxVars
<1> DEFINE d == worker[w].item
<1>1. /\ d \in DOMAIN deliveries /\ d \in Delivery
      /\ accepted' \in {accepted, accepted \cup {d}}
      /\ UNCHANGED <<deliveries, retried>>
  BY SendStep, DeliveryTyped DEF IInv
<1>2. RecordedOutcome' = RecordedOutcome
  BY <1>1 DEF RecordedOutcome
<1>3. CASE accepted' = accepted
  BY <1>1, <1>2, <1>3 DEF Outbox!outboxVars
<1>4. CASE accepted' = accepted \cup {d}
  <2>1. RecordedOutcome[d] # "absent"
    BY <1>1 DEF RecordedOutcome, IInv, TypeOK, DeliveryRow, DeliveryStatus
  <2>2. Outbox!Accept(d)
    BY <1>1, <1>2, <1>4, <2>1 DEF Outbox!Accept
  <2> QED BY <1>1, <2>2 DEF Outbox!OutboxNext
<1> QED BY <1>1, <1>3, <1>4

LEMMA RecordsOutbox ==
  ASSUME IInv, NEW w \in Worker, updateWebhookDelivery(w)
  PROVE  Outbox!OutboxNext
<1> DEFINE d == worker[w].item
           o == IF worker[w].outcome = "pending" THEN "open" ELSE worker[w].outcome
<1>1. /\ d \in DOMAIN deliveries
      /\ DOMAIN deliveries' = DOMAIN deliveries
      /\ \A x \in DOMAIN deliveries \ {d} : deliveries'[x] = deliveries[x]
      /\ deliveries'[d].status = worker[w].outcome
      /\ worker[w].outcome \in {"pending", "delivered", "failed"}
      /\ worker[w].outcome = "delivered" => d \in accepted
      /\ deliveries[d].status = "processing" \/ retried[d] > 0
      /\ UNCHANGED <<accepted, retried>>
  BY RecordStep
<1>2. d \in Delivery /\ o \in {"open", "delivered", "failed"}
  BY <1>1, DeliveryTyped DEF IInv
<1>3. RecordedOutcome' = [RecordedOutcome EXCEPT ![d] = o]
  BY <1>1, <1>2 DEF RecordedOutcome
<1>4. /\ RecordedOutcome[d] # "absent"
      /\ RecordedOutcome[d] = "open" \/ retried[d] > 0
  BY <1>1, <1>2 DEF RecordedOutcome, IInv, TypeOK, DeliveryRow, DeliveryStatus
<1>5. Outbox!Record(d, o)
  BY <1>1, <1>3, <1>4 DEF Outbox!Record
<1> QED BY <1>2, <1>5 DEF Outbox!OutboxNext, Outbox!Recorded

LEMMA ReopensOutbox ==
  ASSUME IInv, NEW d \in Delivery, retryDelivery(d)
  PROVE  Outbox!OutboxNext
<1>1. /\ d \in DOMAIN deliveries
      /\ DOMAIN deliveries' = DOMAIN deliveries
      /\ \A x \in DOMAIN deliveries \ {d} : deliveries'[x] = deliveries[x]
      /\ deliveries'[d].status = "pending"
      /\ retried' = [retried EXCEPT ![d] = @ + 1]
      /\ UNCHANGED accepted
  BY RetryStep
<1>2. RecordedOutcome' = [RecordedOutcome EXCEPT ![d] = "open"]
  BY <1>1 DEF RecordedOutcome
<1>3. RecordedOutcome[d] # "absent"
  BY <1>1 DEF RecordedOutcome, IInv, TypeOK, DeliveryRow, DeliveryStatus
<1>4. Outbox!Reopen(d)
  BY <1>1, <1>2, <1>3 DEF Outbox!Reopen
<1> QED BY <1>4 DEF Outbox!OutboxNext

LEMMA NextOutbox ==
  ASSUME IInv, [Next]_vars
  PROVE  [Outbox!OutboxNext]_Outbox!outboxVars
<1>1. CASE UNCHANGED vars
  BY <1>1, OutboxStands DEF vars, history
<1>2. CASE EndpointNext
  <2>1. UNCHANGED <<deliveries, accepted, retried>>
    BY <1>2 DEF EndpointNext, createWebhookEndpoint, updateWebhookEndpoint,
                setWebhookEndpointStatus, deleteWebhookEndpoint, history
  <2> QED BY <2>1, OutboxStands
<1>3. CASE EmitNext
  BY <1>3, EmitsOutbox
<1>4. ASSUME NEW w \in Worker, listPendingWebhookDeliveries(w) \/ Crash(w) \/ ReadEndpoint(w)
      PROVE  UNCHANGED Outbox!outboxVars
  <2>1. UNCHANGED <<deliveries, accepted, retried>>
    BY <1>4 DEF listPendingWebhookDeliveries, Crash, ReadEndpoint, history
  <2> QED BY <2>1, OutboxStands
<1>5. ASSUME NEW w \in Worker, claimWebhookDelivery(w)
      PROVE  UNCHANGED Outbox!outboxVars
  <2>1. UNCHANGED <<accepted, retried>>
    BY <1>5 DEF claimWebhookDelivery, history
  <2> QED BY <1>5, <2>1, ClaimStep, OutboxStands
<1>6. ASSUME NEW w \in Worker, Send(w) \/ updateWebhookDelivery(w)
      PROVE  [Outbox!OutboxNext]_Outbox!outboxVars
  BY <1>6, SendsOutbox, RecordsOutbox
<1>7. ASSUME NEW d \in Delivery, retryDelivery(d)
      PROVE  Outbox!OutboxNext
  BY <1>7, ReopensOutbox
<1>8. CASE Tick
  <2>1. UNCHANGED <<accepted, retried>>
    BY <1>8 DEF Tick, history
  <2> QED BY <1>8, <2>1, TickStep, OutboxStands
<1> QED
  BY <1>1, <1>2, <1>3, <1>4, <1>5, <1>6, <1>7, <1>8 DEF Next, Step

\* The queue, with its claims, snapshots, crashes and retries, keeps what the
\* outbox promises.
THEOREM QueueKeepsOutbox == Spec => KeepsOutbox
BY OutboxInitially, NextOutbox, Invariance, PTL DEF Spec, KeepsOutbox, Outbox!OutboxSpec

-----------------------------------------------------------------------------
(***************************************************************************)
(* The factorial, whose recursive equation the library does not state, and *)
(* what choose counts.                                                     *)
(***************************************************************************)
\* Induction: a property of numbers that fails somewhere fails first somewhere.
LEMMA LeastNat ==
  ASSUME NEW T, T \subseteq Nat, T # {}
  PROVE  \E x \in T : \A y \in T : x <= y
<1>1. IsWellFoundedOn(OpToRel(<, Nat), Nat)
  BY NatLessThanWellFounded, Zenon
<1>2. PICK x \in T : \A y \in T : ~(<<y, x>> \in OpToRel(<, Nat))
  BY <1>1, WFMin, Zenon
<1>3. \A y \in T : <<y, x>> \in OpToRel(<, Nat) <=> y < x
  BY Zenon DEF OpToRel
<1>4. \A y \in T : ~(y < x)
  BY <1>2, <1>3, Zenon
<1> QED BY <1>4

\* The factorials of 0..n, the recursive definition of Combinatorics unrolled.
Partial(f, n) ==
  f \in [0..n -> Nat] /\ f[0] = 1 /\ \A i \in 1..n : f[i] = i * f[i - 1]

LEMMA PartialExists == \A n \in Nat : \E f : Partial(f, n)
<1> DEFINE T == {n \in Nat : ~\E f : Partial(f, n)}
<1> SUFFICES ASSUME T # {} PROVE FALSE
  OBVIOUS
<1>1. PICK n \in T : \A m \in T : n <= m
  BY LeastNat
<1>2. CASE n = 0
  <2>1. Partial([i \in 0..0 |-> 1], 0)
    BY DEF Partial
  <2> QED BY <1>2, <2>1
<1>3. CASE n # 0
  <2>1. n - 1 \in Nat /\ n - 1 \notin T
    BY <1>1, <1>3
  <2>2. PICK f : Partial(f, n - 1)
    BY <2>1
  <2> DEFINE g == [i \in 0..n |-> IF i = n THEN n * f[n - 1] ELSE f[i]]
  <2>3. g \in [0..n -> Nat]
    BY <1>3, <2>1, <2>2 DEF Partial
  <2>4. /\ \A i \in 0..n : i # n => g[i] = f[i]
        /\ g[n] = n * f[n - 1] /\ n - 1 \in 0..n
    BY <2>1
  <2>6. f[0] = 1 /\ \A i \in 1..n : i # n => f[i] = i * f[i - 1]
    BY <2>1, <2>2 DEF Partial
  <2>7. g[0] = 1
    BY <1>3, <2>1, <2>4, <2>6
  <2> HIDE DEF g
  <2>8. ASSUME NEW i \in 1..n PROVE g[i] = i * g[i - 1]
    <3>1. i \in 0..n /\ i - 1 \in 0..n /\ i - 1 # n
      BY <2>1
    <3> QED BY <2>4, <2>6, <3>1
  <2>5. Partial(g, n)
    BY <2>3, <2>7, <2>8 DEF Partial
  <2> QED BY <2>5
<1> QED BY <1>2, <1>3

LEMMA PartialAgree ==
  ASSUME NEW n \in Nat, NEW m \in Nat, NEW f, NEW g, Partial(f, n), Partial(g, m),
         NEW i \in Nat, i <= n, i <= m
  PROVE  f[i] = g[i]
<1> DEFINE T == {j \in Nat : j <= n /\ j <= m /\ f[j] # g[j]}
<1> SUFFICES ASSUME T # {} PROVE FALSE
  OBVIOUS
<1>1. PICK j \in T : \A k \in T : j <= k
  BY LeastNat
<1>2. j # 0
  BY DEF Partial
<1>3. f[j - 1] = g[j - 1]
  BY <1>1, <1>2
<1>4. f[j] = j * f[j - 1] /\ g[j] = j * g[j - 1]
  BY <1>2 DEF Partial
<1> QED BY <1>3, <1>4

LEMMA FactorialEquation ==
  factorial = [n \in Nat |-> IF n = 0 THEN 1 ELSE n * factorial[n - 1]]
<1> DEFINE best(n) == CHOOSE f : Partial(f, n)
           F == [n \in Nat |-> best(n)[n]]
<1>1. \A n \in Nat : Partial(best(n), n)
  BY PartialExists
<1>2. F[0] = 1
  BY <1>1 DEF Partial
<1>3. ASSUME NEW n \in Nat, n # 0
      PROVE  F[n] = n * F[n - 1]
  <2>1. n - 1 \in Nat
    BY <1>3
  <2>2. best(n)[n] = n * best(n)[n - 1]
    <3>1. Partial(best(n), n) /\ n \in 1..n
      BY <1>1, <1>3
    <3> HIDE DEF best
    <3> QED BY <3>1 DEF Partial
  <2>3. best(n)[n - 1] = best(n - 1)[n - 1]
    BY <1>1, <2>1, PartialAgree
  <2> QED BY <2>1, <2>2, <2>3
<1>4. F = [n \in Nat |-> IF n = 0 THEN 1 ELSE n * F[n - 1]]
  BY <1>2, <1>3
<1> HIDE DEF F
<1> QED BY <1>4, Zenon DEF factorial

LEMMA FactorialType == \A n \in Nat : factorial[n] \in Nat \ {0}
<1> DEFINE T == {n \in Nat : factorial[n] \notin Nat \ {0}}
<1> SUFFICES ASSUME T # {} PROVE FALSE
  OBVIOUS
<1>1. PICK n \in T : \A m \in T : n <= m
  BY LeastNat
<1>2. factorial[n] = IF n = 0 THEN 1 ELSE n * factorial[n - 1]
  BY FactorialEquation
<1>3. n # 0
  BY <1>2
<1>4. factorial[n - 1] \in Nat \ {0}
  BY <1>1, <1>3
<1>5. \A a, b \in Nat \ {0} : a * b \in Nat \ {0}
  OBVIOUS
<1> QED BY <1>2, <1>3, <1>4, <1>5

\* How many of k actions are past each of n levels.
Profiles(n, k) ==
  {f \in [1..n -> 0..k] : \A i, j \in 1..n : i <= j => f[j] <= f[i]}

\* Pascal's rule: not everybody is past the first level, or everybody is.
LEMMA SplitProfiles ==
  ASSUME NEW n \in Nat \ {0}, NEW k \in Nat \ {0}
  PROVE  LET top == {f \in Profiles(n, k) : f[1] = k}
         IN  /\ Profiles(n, k) = Profiles(n, k - 1) \cup top
             /\ Profiles(n, k - 1) \cap top = {}
             /\ ExistsBijection(Profiles(n - 1, k), top)
<1> DEFINE top == {f \in Profiles(n, k) : f[1] = k}
<1>1. 1 \in 1..n
  OBVIOUS
<1>2. ASSUME NEW f \in Profiles(n, k), f[1] # k
      PROVE  f \in Profiles(n, k - 1)
  <2>1. \A j \in 1..n : f[j] <= f[1] /\ f[j] \in 0..k
    BY <1>1 DEF Profiles
  <2>2. \A j \in 1..n : f[j] \in 0..(k - 1)
    BY <1>1, <1>2, <2>1
  <2>3. f \in [1..n -> 0..(k - 1)]
    BY <2>2 DEF Profiles
  <2> QED BY <2>3 DEF Profiles
<1>3. ASSUME NEW f \in Profiles(n, k - 1)
      PROVE  f \in Profiles(n, k) /\ f[1] # k
  <2>1. 0..(k - 1) \subseteq 0..k
    OBVIOUS
  <2>2. f \in [1..n -> 0..k]
    BY <2>1 DEF Profiles
  <2>3. f[1] \in 0..(k - 1)
    BY <1>1 DEF Profiles
  <2> QED BY <2>2, <2>3 DEF Profiles
<1>4. ExistsBijection(Profiles(n - 1, k), top)
  <2> DEFINE push(h) == [i \in 1..n |-> IF i = 1 THEN k ELSE h[i - 1]]
             F == [h \in Profiles(n - 1, k) |-> push(h)]
  <2>1. ASSUME NEW h \in Profiles(n - 1, k)
        PROVE  push(h) \in top
    <3>1. h \in [1..(n - 1) -> 0..k] /\ \A i, j \in 1..(n - 1) : i <= j => h[j] <= h[i]
      BY DEF Profiles
    <3>2. \A i \in 1..n : i # 1 => i - 1 \in 1..(n - 1)
      OBVIOUS
    <3>3. push(h) \in [1..n -> 0..k]
      BY <3>1, <3>2
    <3>4. ASSUME NEW i \in 1..n, NEW j \in 1..n, i <= j
          PROVE  push(h)[j] <= push(h)[i]
      <4>1. CASE i = 1
        BY <3>3, <4>1
      <4>2. CASE i # 1
        <5>1. i - 1 \in 1..(n - 1) /\ j - 1 \in 1..(n - 1) /\ i - 1 <= j - 1 /\ j # 1
          BY <3>4, <4>2
        <5>2. push(h)[i] = h[i - 1] /\ push(h)[j] = h[j - 1]
          BY <4>2, <5>1
        <5> QED BY <3>1, <5>1, <5>2
      <4> QED BY <4>1, <4>2
    <3>5. push(h)[1] = k
      BY <1>1
    <3> HIDE DEF push
    <3> QED BY <3>3, <3>4, <3>5 DEF Profiles
  <2>2. ASSUME NEW g \in Profiles(n - 1, k), NEW h \in Profiles(n - 1, k), push(g) = push(h)
        PROVE  g = h
    <3>1. g \in [1..(n - 1) -> 0..k] /\ h \in [1..(n - 1) -> 0..k]
      BY DEF Profiles
    <3>2. ASSUME NEW i \in 1..(n - 1) PROVE g[i] = h[i]
      <4>1. i + 1 \in 1..n /\ i + 1 # 1 /\ (i + 1) - 1 = i
        OBVIOUS
      <4>2. push(g)[i + 1] = g[i] /\ push(h)[i + 1] = h[i]
        BY <4>1
      <4> QED BY <2>2, <4>2
    <3> QED BY <3>1, <3>2
  <2>3. ASSUME NEW f \in top
        PROVE  \E h \in Profiles(n - 1, k) : push(h) = f
    <3> DEFINE h == [i \in 1..(n - 1) |-> f[i + 1]]
    <3>1. f \in [1..n -> 0..k] /\ f[1] = k /\ \A i, j \in 1..n : i <= j => f[j] <= f[i]
      BY DEF Profiles
    <3>2. \A i \in 1..(n - 1) : i + 1 \in 1..n
      OBVIOUS
    <3>3. h \in [1..(n - 1) -> 0..k]
      BY <3>1, <3>2
    <3>4. ASSUME NEW i \in 1..(n - 1), NEW j \in 1..(n - 1), i <= j
          PROVE  h[j] <= h[i]
      BY <3>1, <3>2, <3>4
    <3>5. h \in Profiles(n - 1, k)
      <4> HIDE DEF h
      <4> QED BY <3>3, <3>4 DEF Profiles
    <3>6. ASSUME NEW i \in 1..n, i # 1 PROVE h[i - 1] = f[i]
      <4>1. i - 1 \in 1..(n - 1) /\ (i - 1) + 1 = i
        BY <3>6
      <4> QED BY <4>1
    <3>7. push(h) = f
      <4> HIDE DEF h
      <4> QED BY <3>1, <3>6
    <3> QED BY <3>5, <3>7
  <2> HIDE DEF push, top
  <2>4. F \in [Profiles(n - 1, k) -> top]
    BY <2>1
  <2>5. \A g, h \in Profiles(n - 1, k) : F[g] = F[h] => g = h
    BY <2>2
  <2>6. \A f \in top : \E h \in Profiles(n - 1, k) : F[h] = f
    BY <2>3
  <2>7. F \in Bijection(Profiles(n - 1, k), top)
    <3> HIDE DEF F
    <3> QED BY <2>4, <2>5, <2>6, Fun_IsBij
  <2> QED BY <2>7, Fun_ExistsBij
<1>5. /\ Profiles(n, k) = Profiles(n, k - 1) \cup top
      /\ Profiles(n, k - 1) \cap top = {}
  BY <1>2, <1>3
<1> QED BY <1>4, <1>5

Counted(n, k) ==
  /\ IsFiniteSet(Profiles(n, k))
  /\ Cardinality(Profiles(n, k)) \in Nat
  /\ Cardinality(Profiles(n, k)) * (factorial[n] * factorial[k]) = factorial[n + k]

LEMMA FactorialStep ==
  factorial[0] = 1 /\ \A n \in Nat \ {0} : factorial[n] = n * factorial[n - 1]
BY FactorialEquation

LEMMA CountSingle ==
  ASSUME NEW n \in Nat, NEW k \in Nat, n = 0 \/ k = 0
  PROVE  Counted(n, k)
<1> DEFINE zero == [i \in 1..n |-> 0]
<1>1. Profiles(n, k) = {zero}
  <2>1. CASE n = 0
    <3>1. 1..n = {}
      BY <2>1
    <3> QED BY <3>1 DEF Profiles
  <2>2. CASE k = 0
    <3>1. zero \in Profiles(n, k)
      BY DEF Profiles
    <3>2. ASSUME NEW f \in Profiles(n, k) PROVE f = zero
      <4>1. f \in [1..n -> 0..0]
        BY <2>2 DEF Profiles
      <4>2. \A i \in 1..n : f[i] = 0
        BY <4>1
      <4> QED BY <4>1, <4>2
    <3> QED BY <3>1, <3>2
  <2> QED BY <2>1, <2>2
<1>2. IsFiniteSet(Profiles(n, k)) /\ Cardinality(Profiles(n, k)) = 1
  BY <1>1, FS_Singleton, Zenon
<1>3. factorial[n] * factorial[k] = factorial[n + k]
  BY FactorialStep, FactorialType
<1>4. factorial[n + k] \in Nat
  BY FactorialType
<1> QED BY <1>2, <1>3, <1>4 DEF Counted

LEMMA Pascal ==
  ASSUME NEW n \in Nat \ {0}, NEW k \in Nat \ {0}, Counted(n - 1, k), Counted(n, k - 1)
  PROVE  Counted(n, k)
<1> DEFINE top == {f \in Profiles(n, k) : f[1] = k}
           a == Cardinality(Profiles(n - 1, k))
           b == Cardinality(Profiles(n, k - 1))
<1>1. IsFiniteSet(top) /\ Cardinality(top) = a
  BY SplitProfiles, FS_Bijection DEF Counted
<1>2. IsFiniteSet(Profiles(n, k)) /\ Cardinality(Profiles(n, k)) = b + a - Cardinality({})
  <2>1. Profiles(n, k) = Profiles(n, k - 1) \cup top /\ Profiles(n, k - 1) \cap top = {}
    BY SplitProfiles
  <2>2. IsFiniteSet(Profiles(n, k - 1))
    BY DEF Counted
  <2> HIDE DEF top
  <2> DEFINE U == Profiles(n, k - 1) \cup top
  <2>3. /\ IsFiniteSet(U)
        /\ Cardinality(U) = b + Cardinality(top) - Cardinality(Profiles(n, k - 1) \cap top)
    BY <1>1, <2>2, FS_Union, Zenon
  <2>4. Cardinality(Profiles(n, k - 1) \cap top) = Cardinality({})
    BY <2>1
  <2> HIDE DEF U
  <2>5. Profiles(n, k) = U
    BY <2>1 DEF U
  <2> QED BY <1>1, <2>3, <2>4, <2>5
<1>3. Cardinality(Profiles(n, k)) = a + b /\ a \in Nat /\ b \in Nat
  BY <1>2, FS_EmptySet DEF Counted
<1> DEFINE p == factorial[n - 1]
           q == factorial[k - 1]
           r == factorial[n + k - 1]
<1>4. /\ factorial[n] = n * p /\ factorial[k] = k * q
      /\ factorial[n + k] = (n + k) * r
      /\ p \in Nat /\ q \in Nat /\ r \in Nat
  BY FactorialStep, FactorialType
<1>5. a * (p * (k * q)) = r /\ b * ((n * p) * q) = r
  <2>1. (n - 1) + k = n + k - 1 /\ n + (k - 1) = n + k - 1
    OBVIOUS
  <2>2. a * (factorial[n - 1] * factorial[k]) = r /\ b * (factorial[n] * factorial[k - 1]) = r
    BY <2>1, Zenon DEF Counted
  <2> QED BY <1>4, <2>2
<1>6. (a + b) * ((n * p) * (k * q)) = (n + k) * r
  <2> HIDE DEF a, b, p, q, r
  <2>1. (a + b) * ((n * p) * (k * q)) = n * (a * (p * (k * q))) + k * (b * ((n * p) * q))
    BY <1>3, <1>4
  <2> QED BY <1>4, <1>5, <2>1
<1> QED BY <1>2, <1>3, <1>4, <1>6 DEF Counted

LEMMA ProfilesCounted == \A n, k \in Nat : Counted(n, k)
<1> DEFINE T == {s \in Nat : \E n, k \in Nat : s = n + k /\ ~Counted(n, k)}
<1> SUFFICES ASSUME NEW m \in Nat, NEW l \in Nat, ~Counted(m, l) PROVE FALSE
  OBVIOUS
<1>1. m + l \in T
  OBVIOUS
<1>2. PICK s \in T : \A x \in T : s <= x
  BY <1>1, LeastNat
<1>3. PICK n \in Nat, k \in Nat : s = n + k /\ ~Counted(n, k)
  BY <1>2
<1>4. n # 0 /\ k # 0
  BY <1>3, CountSingle
<1>5. /\ n - 1 \in Nat /\ k - 1 \in Nat
      /\ (n - 1) + k \in Nat /\ (n - 1) + k < s
      /\ n + (k - 1) \in Nat /\ n + (k - 1) < s
  BY <1>3, <1>4
<1>6. \A x \in Nat : x < s => x \notin T
  <2>1. s \in Nat
    OBVIOUS
  <2> HIDE DEF T
  <2> QED BY <1>2, <2>1
<1>7. Counted(n - 1, k) /\ Counted(n, k - 1)
  BY <1>5, <1>6
<1> QED BY <1>3, <1>4, <1>7, Pascal

LEMMA ChooseCounts ==
  ASSUME NEW n \in Nat, NEW k \in Nat
  PROVE  /\ IsFiniteSet(Profiles(n, k))
         /\ Cardinality(Profiles(n, k)) = choose(n + k, k)
<1>1. Counted(n, k)
  BY ProfilesCounted
<1> DEFINE c == Cardinality(Profiles(n, k))
           f == factorial[k] * factorial[n]
<1>2. f \in Nat \ {0}
  <2>1. \A a, b \in Nat \ {0} : a * b \in Nat \ {0}
    OBVIOUS
  <2> QED BY <2>1, FactorialType
<1>3. c \in Nat /\ c * f = factorial[n + k]
  BY <1>1, FactorialType DEF Counted
<1>4. choose(n + k, k) = factorial[n + k] \div f
  <2>1. (n + k) - k = n
    OBVIOUS
  <2> QED BY <2>1, Zenon DEF choose
<1>5. (c * f) \div f = c
  <2> HIDE DEF c, f
  <2> QED BY <1>2, <1>3
<1> QED BY <1>1, <1>3, <1>4, <1>5 DEF Counted

-----------------------------------------------------------------------------
(***************************************************************************)
(* How often a delivery is sent.  An action works from the attempts it     *)
(* listed, so the counter goes back when it records; what never goes back  *)
(* is the shape: for each number of attempts, how many actions are past it.*)
(* Each failure that may pass moves its action on, so the shape grows      *)
(* lexicographically, or returns a row that waits already, which costs one *)
(* of the tokens that may send.                                            *)
(***************************************************************************)
\* The row waits to be listed.
Waiting(d) == d \in DOMAIN deliveries /\ deliveries[d].status = "pending"

\* The attempts w may work from: listed, held, or in the row it may list.
Known(w, d) ==
  {listed.attempts : listed \in {x \in worker[w].batch : x.id = d}}
    \cup (IF Holding(w) /\ worker[w].item = d THEN {worker[w].attempts} ELSE {})
    \cup (IF Waiting(d) THEN {deliveries[d].attempts} ELSE {})

\* The actions that will count no attempt below v again.
Past(d, v) == {w \in Worker : \A a \in Known(w, d) : v <= a}

Shapes == Profiles(MaxAttempts - 1, Cardinality(Worker))
Shape(d) == [v \in 1..(MaxAttempts - 1) |-> Cardinality(Past(d, v))]

\* The shapes that are still to come after f, in lexicographic order.
Above(f) ==
  {g \in Shapes :
     \E v \in 1..(MaxAttempts - 1) : g[v] > f[v] /\ \A u \in 1..(v - 1) : g[u] >= f[u]}

Rank(d) == Cardinality(Above(Shape(d)))

\* Who may send: the holders, and the row that waits for one.
Tokens(d) == Cardinality(Holders(d)) + (IF Waiting(d) THEN 1 ELSE 0)
Recording(d) == {w \in Holders(d) : worker[w].pc = "record"}

Left(d) == IF Tokens(d) = 0 THEN 0 ELSE Tokens(d) + Rank(d)

\* What was sent and what may still be sent fits; a request whose outcome is
\* not recorded yet has been counted on both sides.
Fits(d) ==
  posts[d] + Left(d) <= (1 + retried[d]) * PostsPerRound + Cardinality(Recording(d))

\* A batch lists a row once and never what its action holds; what is recorded
\* as pending has an attempt left.
BatchSound ==
  \A w \in Worker :
    /\ \A x, y \in worker[w].batch : x.id = y.id => x = y
    /\ Holding(w) => \A x \in worker[w].batch : x.id # worker[w].item
    /\ worker[w].pc = "record" /\ worker[w].outcome = "pending"
         => worker[w].attempts + 1 < MaxAttempts

PostsCounted == \A d \in Delivery : Fits(d)

LEMMA ShapesCounted ==
  /\ MaxAttempts - 1 \in Nat /\ Cardinality(Worker) \in Nat
  /\ IsFiniteSet(Shapes)
  /\ Cardinality(Shapes) = PostsPerRound
  /\ PostsPerRound \in Nat
<1>1. MaxAttempts - 1 \in Nat /\ Cardinality(Worker) \in Nat
  BY QueueAssumption, FS_CardinalityType
<1>2. (MaxAttempts - 1) + Cardinality(Worker) = MaxAttempts + Cardinality(Worker) - 1
  BY <1>1, QueueAssumption
<1>3. /\ IsFiniteSet(Shapes)
      /\ Cardinality(Shapes) = choose((MaxAttempts - 1) + Cardinality(Worker), Cardinality(Worker))
  BY <1>1, ChooseCounts DEF Shapes
<1>4. Cardinality(Shapes) = PostsPerRound
  BY <1>2, <1>3, Zenon DEF PostsPerRound
<1> QED BY <1>1, <1>3, <1>4, FS_CardinalityType

LEMMA AboveCounted ==
  ASSUME NEW f \in Shapes
  PROVE  /\ IsFiniteSet(Above(f))
         /\ Cardinality(Above(f)) \in Nat
         /\ Cardinality(Above(f)) + 1 <= PostsPerRound
<1>1. f \notin Above(f)
  BY ShapesCounted DEF Above, Shapes, Profiles
<1>2. Above(f) \subseteq Shapes \ {f}
  BY <1>1 DEF Above
<1>3. /\ IsFiniteSet(Shapes \ {f})
      /\ Cardinality(Shapes \ {f}) = PostsPerRound - 1
  BY ShapesCounted, FS_RemoveElement
<1>4. IsFiniteSet(Above(f)) /\ Cardinality(Above(f)) <= PostsPerRound - 1
  BY <1>2, <1>3, FS_Subset
<1> QED BY <1>4, ShapesCounted, FS_CardinalityType

LEMMA AboveFalls ==
  ASSUME NEW f \in Shapes, NEW g \in Shapes, \A v \in 1..(MaxAttempts - 1) : f[v] <= g[v]
  PROVE  Cardinality(Above(g)) <= Cardinality(Above(f))
<1>1. ASSUME NEW h \in Above(g) PROVE h \in Above(f)
  <2>1. PICK v \in 1..(MaxAttempts - 1) : h[v] > g[v] /\ \A u \in 1..(v - 1) : h[u] >= g[u]
    BY DEF Above
  <2>2. \A u \in 1..(MaxAttempts - 1) : h[u] \in Nat /\ f[u] \in Nat /\ g[u] \in Nat
    BY DEF Above, Shapes, Profiles
  <2>3. \A u \in 1..(v - 1) : u \in 1..(MaxAttempts - 1)
    BY ShapesCounted
  <2>4. h[v] > f[v] /\ \A u \in 1..(v - 1) : h[u] >= f[u]
    BY <2>1, <2>2, <2>3
  <2> QED BY <2>4 DEF Above
<1> QED BY <1>1, AboveCounted, FS_Subset

LEMMA AboveDrops ==
  ASSUME NEW f \in Shapes, NEW g \in Shapes, NEW v \in 1..(MaxAttempts - 1),
         f[v] < g[v], \A u \in 1..(v - 1) : f[u] <= g[u]
  PROVE  Cardinality(Above(g)) + 1 <= Cardinality(Above(f))
<1>1. \A u \in 1..(v - 1) : u \in 1..(MaxAttempts - 1)
  BY ShapesCounted
<1>2. \A h \in Shapes : \A u \in 1..(MaxAttempts - 1) : h[u] \in Nat
  BY DEF Shapes, Profiles
<1>3. g \in Above(f) /\ g \notin Above(g)
  BY <1>1, <1>2 DEF Above
<1>4. ASSUME NEW h \in Above(g) PROVE h \in Above(f)
  <2>1. PICK t \in 1..(MaxAttempts - 1) : h[t] > g[t] /\ \A u \in 1..(t - 1) : h[u] >= g[u]
    BY DEF Above
  <2>2. h \in Shapes
    BY DEF Above
  <2>3. \A u \in 1..(t - 1) : u \in 1..(MaxAttempts - 1)
    BY ShapesCounted
  <2>4. CASE t <= v
    <3>1. \A u \in 1..(t - 1) : u \in 1..(v - 1)
      BY <2>4, ShapesCounted
    <3>2. t = v \/ t \in 1..(v - 1)
      BY <2>4
    <3>3. h[t] > f[t] /\ \A u \in 1..(t - 1) : h[u] >= f[u]
      BY <1>2, <2>1, <2>2, <2>3, <3>1, <3>2
    <3> QED BY <2>2, <3>3 DEF Above
  <2>5. CASE t > v
    <3>1. v \in 1..(t - 1) /\ \A u \in 1..(v - 1) : u \in 1..(t - 1)
      BY <2>5, ShapesCounted
    <3>2. h[v] > f[v] /\ \A u \in 1..(v - 1) : h[u] >= f[u]
      BY <1>1, <1>2, <2>1, <2>2, <3>1
    <3> QED BY <2>2, <3>2 DEF Above
  <2> QED BY <2>4, <2>5
<1>5. Above(g) \subseteq Above(f) \ {g}
  BY <1>3, <1>4
<1>6. /\ IsFiniteSet(Above(f))
      /\ Cardinality(Above(f)) \in Nat /\ Cardinality(Above(g)) \in Nat
  BY AboveCounted
<1>7. Cardinality(Above(g)) <= Cardinality(Above(f)) - 1
  BY <1>3, <1>5, <1>6, OneLess
<1> QED BY <1>6, <1>7

KnownNat == \A w \in Worker : \A d \in Delivery : Known(w, d) \subseteq Nat

LEMMA KnowsNumbers == TypeOK => KnownNat
BY DEF TypeOK, KnownNat, Known, WorkerRow, DeliveryRow, Waiting

LEMMA PastCounted ==
  ASSUME NEW d, NEW v
  PROVE  IsFiniteSet(Past(d, v)) /\ Cardinality(Past(d, v)) \in 0..Cardinality(Worker)
<1>1. IsFiniteSet(Past(d, v)) /\ Cardinality(Past(d, v)) <= Cardinality(Worker)
  BY QueueAssumption, FS_Subset DEF Past
<1> QED BY <1>1, ShapesCounted, FS_CardinalityType

LEMMA ShapeTyped ==
  ASSUME KnownNat, NEW d \in Delivery
  PROVE  Shape(d) \in Shapes
<1>1. Shape(d) \in [1..(MaxAttempts - 1) -> 0..Cardinality(Worker)]
  BY PastCounted DEF Shape
<1>2. ASSUME NEW i \in 1..(MaxAttempts - 1), NEW j \in 1..(MaxAttempts - 1), i <= j
      PROVE  Shape(d)[j] <= Shape(d)[i]
  <2>1. Past(d, j) \subseteq Past(d, i)
    BY <1>2, ShapesCounted DEF Past, KnownNat
  <2>2. Cardinality(Past(d, j)) <= Cardinality(Past(d, i))
    BY <2>1, PastCounted, FS_Subset
  <2> QED BY <2>2 DEF Shape
<1> QED BY <1>1, <1>2 DEF Shapes, Profiles

Sizes(d) ==
  /\ Cardinality(Holders(d)) \in Nat /\ Cardinality(Recording(d)) \in Nat
  /\ Cardinality(Recording(d)) <= Cardinality(Holders(d))
  /\ Tokens(d) \in Nat /\ Rank(d) \in Nat /\ Left(d) \in Nat
  /\ Rank(d) + 1 <= PostsPerRound

LEMMA SizesTyped == TypeOK => \A d \in Delivery : Sizes(d) /\ Shape(d) \in Shapes
<1> SUFFICES ASSUME TypeOK, NEW d \in Delivery PROVE Sizes(d) /\ Shape(d) \in Shapes
  OBVIOUS
<1>1. Shape(d) \in Shapes
  BY KnowsNumbers, ShapeTyped
<1>2. Rank(d) \in Nat /\ Rank(d) + 1 <= PostsPerRound
  BY <1>1, AboveCounted DEF Rank
<1>3. IsFiniteSet(Recording(d)) /\ Cardinality(Recording(d)) <= Cardinality(Holders(d))
  BY HoldersFinite, FS_Subset DEF Recording
<1>4. Cardinality(Holders(d)) \in Nat /\ Cardinality(Recording(d)) \in Nat
  BY <1>3, HoldersFinite, FS_CardinalityType
<1> QED BY <1>1, <1>2, <1>3, <1>4 DEF Sizes, Tokens, Left

LEMMA SizesTypedNext == TypeOK' => \A d \in Delivery : Sizes(d)' /\ Shape(d)' \in Shapes
<1>1. (TypeOK => \A d \in Delivery : Sizes(d) /\ Shape(d) \in Shapes)'
  BY SizesTyped, PTL
<1> QED BY <1>1

LEMMA KnowsNumbersNext == TypeOK' => KnownNat'
BY KnowsNumbers, PTL

\* No action learns of fewer attempts than it knew.
Lags(d) ==
  \A w \in Worker : \A b \in Known(w, d)' : \E a \in Known(w, d) : a <= b

LEMMA RankFalls ==
  ASSUME TypeOK, TypeOK', NEW d \in Delivery, Lags(d)
  PROVE  Rank(d)' <= Rank(d)
<1>0. /\ KnownNat /\ KnownNat'
      /\ Shape(d) \in Shapes /\ Shape(d)' \in Shapes
  BY KnowsNumbers, KnowsNumbersNext, SizesTyped, SizesTypedNext
<1>1. ASSUME NEW v \in 1..(MaxAttempts - 1)
      PROVE  Cardinality(Past(d, v)) <= Cardinality(Past(d, v)')
  <2>1. v \in Nat
    BY ShapesCounted
  <2>2. Past(d, v) \subseteq Past(d, v)'
    <3> SUFFICES ASSUME NEW w \in Worker, \A a \in Known(w, d) : v <= a,
                        NEW b \in Known(w, d)'
                 PROVE  v <= b
      BY DEF Past
    <3>1. PICK a \in Known(w, d) : a <= b
      BY DEF Lags
    <3>2. a \in Nat /\ b \in Nat
      BY <1>0 DEF KnownNat
    <3> QED BY <2>1, <3>1, <3>2
  <2>3. IsFiniteSet(Past(d, v)')
    BY QueueAssumption, FS_Subset DEF Past
  <2> QED BY <2>2, <2>3, FS_Subset
<1>2. \A v \in 1..(MaxAttempts - 1) : Shape(d)[v] <= Shape(d)'[v]
  BY <1>1 DEF Shape
<1> QED BY <1>0, <1>2, AboveFalls DEF Rank

\* The action w gets past the attempts v and nobody falls behind below it.
LEMMA RankDrops ==
  ASSUME TypeOK, TypeOK', NEW d \in Delivery, NEW v \in 1..(MaxAttempts - 1),
         NEW w \in Worker, w \notin Past(d, v), w \in Past(d, v)',
         \A u \in 1..v : Past(d, u) \subseteq Past(d, u)'
  PROVE  Rank(d)' + 1 <= Rank(d)
<1>1. Shape(d) \in Shapes /\ Shape(d)' \in Shapes
  BY SizesTyped, SizesTypedNext
<1>2. \A u : IsFiniteSet(Past(d, u)')
  BY QueueAssumption, FS_Subset DEF Past
<1>3. \A u \in 1..v : u \in 1..(MaxAttempts - 1)
  BY ShapesCounted
<1>4. \A u \in 1..v : Cardinality(Past(d, u)) <= Cardinality(Past(d, u)')
  BY <1>2, FS_Subset
<1>5. Cardinality(Past(d, v)) < Cardinality(Past(d, v)')
  <2>1. Past(d, v) \subseteq Past(d, v)' \ {w}
    BY ShapesCounted
  <2>2. Cardinality(Past(d, v)) <= Cardinality(Past(d, v)') - 1
    BY <1>2, <2>1, OneLess
  <2>3. Cardinality(Past(d, v)) \in Nat /\ Cardinality(Past(d, v)') \in Nat
    BY <1>2, PastCounted, FS_CardinalityType
  <2> QED BY <2>2, <2>3
<1>6. Shape(d)[v] < Shape(d)'[v] /\ \A u \in 1..(v - 1) : Shape(d)[u] <= Shape(d)'[u]
  <2>1. \A u \in 1..(v - 1) : u \in 1..v
    BY ShapesCounted
  <2> QED BY <1>3, <1>4, <1>5, <2>1 DEF Shape
<1> QED BY <1>1, <1>6, AboveDrops DEF Rank

\* A step that gives up x tokens pays for what it posts or records.
LEMMA Spends ==
  ASSUME TypeOK, TypeOK', NEW d \in Delivery, Fits(d), Lags(d), NEW x \in {0, 1},
         Tokens(d)' + x <= Tokens(d), retried'[d] = retried[d],
         posts'[d] + Cardinality(Recording(d)) <= posts[d] + Cardinality(Recording(d)') + x
  PROVE  Fits(d)'
<1>1. Sizes(d) /\ Sizes(d)'
  BY SizesTyped, SizesTypedNext
<1>2. Rank(d)' <= Rank(d)
  BY RankFalls
<1>3. Left(d)' + x <= Left(d)
  BY <1>1, <1>2 DEF Sizes, Left
<1>4. posts[d] \in Nat /\ posts'[d] \in Nat /\ retried[d] \in Nat
  BY DEF TypeOK
<1> DEFINE all == (1 + retried[d]) * PostsPerRound
<1>5. all \in Nat
  BY <1>4, ShapesCounted
<1>6. posts[d] + Left(d) <= all + Cardinality(Recording(d))
  BY DEF Fits
<1> HIDE DEF all
<1>7. posts'[d] + Left(d)' <= all + Cardinality(Recording(d)')
  BY <1>1, <1>3, <1>4, <1>5, <1>6 DEF Sizes
<1> QED BY <1>7 DEF Fits, all

\* Recording a failure as pending moves its action on.
LEMMA Advances ==
  ASSUME TypeOK, TypeOK', NEW d \in Delivery, Fits(d), Rank(d)' + 1 <= Rank(d),
         Tokens(d)' <= Tokens(d), Tokens(d) # 0, retried'[d] = retried[d],
         posts'[d] = posts[d],
         Cardinality(Recording(d)) <= Cardinality(Recording(d)') + 1
  PROVE  Fits(d)'
<1>1. Sizes(d) /\ Sizes(d)'
  BY SizesTyped, SizesTypedNext
<1>3. Left(d)' + 1 <= Left(d)
  BY <1>1 DEF Sizes, Left
<1>4. posts[d] \in Nat /\ posts'[d] \in Nat /\ retried[d] \in Nat
  BY DEF TypeOK
<1> DEFINE all == (1 + retried[d]) * PostsPerRound
<1>5. all \in Nat
  BY <1>4, ShapesCounted
<1>6. posts[d] + Left(d) <= all + Cardinality(Recording(d))
  BY DEF Fits
<1> HIDE DEF all
<1>7. posts'[d] + Left(d)' <= all + Cardinality(Recording(d)')
  BY <1>1, <1>3, <1>4, <1>5, <1>6 DEF Sizes
<1> QED BY <1>7 DEF Fits, all

\* A retry pays for another round.
LEMMA Refills ==
  ASSUME TypeOK, TypeOK', NEW d \in Delivery, Fits(d), Tokens(d)' <= Tokens(d) + 1,
         retried'[d] = retried[d] + 1, posts'[d] = posts[d],
         Recording(d)' = Recording(d)
  PROVE  Fits(d)'
<1>1. Sizes(d) /\ Sizes(d)'
  BY SizesTyped, SizesTypedNext
<1>2. Left(d)' <= Left(d) + PostsPerRound
  BY <1>1, ShapesCounted DEF Sizes, Left
<1>3. posts[d] \in Nat /\ retried[d] \in Nat
  BY DEF TypeOK
<1> DEFINE all == (1 + retried[d]) * PostsPerRound
<1>4. all \in Nat /\ (1 + (retried[d] + 1)) * PostsPerRound = all + PostsPerRound
  BY <1>3, ShapesCounted
<1>5. posts[d] + Left(d) <= all + Cardinality(Recording(d))
  BY DEF Fits
<1> HIDE DEF all
<1>6. posts[d] + Left(d)' <= (all + PostsPerRound) + Cardinality(Recording(d))
  BY <1>1, <1>2, <1>3, <1>4, <1>5, ShapesCounted DEF Sizes
<1> QED BY <1>4, <1>6 DEF Fits

\* What a step says about a delivery whose row and holders it leaves alone.
Untouched(d) ==
  /\ Holders(d)' = Holders(d) /\ Recording(d)' = Recording(d)
  /\ Waiting(d)' = Waiting(d) /\ Lags(d)
  /\ posts'[d] = posts[d] /\ retried'[d] = retried[d]

LEMMA UntouchedFits ==
  ASSUME TypeOK, TypeOK', NEW d \in Delivery, Fits(d), Untouched(d)
  PROVE  Fits(d)'
<1>1. Tokens(d)' = Tokens(d) /\ Sizes(d)
  BY SizesTyped DEF Untouched, Tokens
<1>2. posts[d] \in Nat
  BY DEF TypeOK
<1> QED BY <1>1, <1>2, Spends DEF Untouched, Sizes

AbsentUnsent == \A d \in Delivery \ DOMAIN deliveries : posts[d] = 0

QInv == IInv /\ BatchSound /\ AbsentUnsent /\ PostsCounted

LEMMA KnowsNoLess ==
  ASSUME TypeOK, NEW d \in Delivery, \A w \in Worker : Known(w, d)' \subseteq Known(w, d)
  PROVE  Lags(d)
<1>1. \A w \in Worker : \A a \in Known(w, d)' : a <= a
  BY KnowsNumbers DEF KnownNat
<1> QED BY <1>1 DEF Lags

\* The row says of the attempts what it said.
RowStands(d) ==
  Waiting(d)' = Waiting(d) /\ (Waiting(d) => deliveries'[d].attempts = deliveries[d].attempts)

LEMMA OthersKnow ==
  ASSUME NEW w, \A x \in Worker \ {w} : worker'[x] = worker[x], NEW d, RowStands(d)
  PROVE  \A x \in Worker \ {w} : Known(x, d)' = Known(x, d)
<1> SUFFICES ASSUME NEW x \in Worker \ {w} PROVE Known(x, d)' = Known(x, d)
  OBVIOUS
<1>1. worker'[x] = worker[x]
  OBVIOUS
<1> QED BY <1>1 DEF Known, Holding, RowStands

LEMMA OthersRecord ==
  ASSUME NEW w, \A x \in Worker \ {w} : worker'[x] = worker[x], NEW d
  PROVE  /\ Holders(d)' \ {w} = Holders(d) \ {w}
         /\ Recording(d)' \ {w} = Recording(d) \ {w}
BY DEF Holders, Recording, Holding

LEMMA NobodyMoves ==
  ASSUME TypeOK, NEW d \in Delivery, UNCHANGED worker, RowStands(d),
         posts'[d] = posts[d], retried'[d] = retried[d]
  PROVE  Untouched(d)
<1>1. Holders(d)' = Holders(d) /\ Recording(d)' = Recording(d)
  BY DEF Holders, Recording, Holding
<1>2. \A w \in Worker : Known(w, d)' = Known(w, d)
  BY DEF Known, Holding, RowStands
<1> QED BY <1>1, <1>2, KnowsNoLess DEF Untouched, RowStands

LEMMA RowsStand ==
  ASSUME QInv, IInv', UNCHANGED <<worker, posts, retried>>,
         DOMAIN deliveries' = DOMAIN deliveries,
         \A d \in DOMAIN deliveries : /\ deliveries'[d].status = deliveries[d].status
                                      /\ deliveries'[d].attempts = deliveries[d].attempts
  PROVE  QInv'
<1>1. \A d \in Delivery : RowStands(d)
  BY DEF RowStands, Waiting
<1>2. \A d \in Delivery : Fits(d)'
  BY <1>1, NobodyMoves, UntouchedFits DEF QInv, IInv, PostsCounted
<1>3. BatchSound' /\ AbsentUnsent'
  BY DEF QInv, BatchSound, AbsentUnsent, Holding
<1> QED BY <1>2, <1>3 DEF QInv, PostsCounted

LEMMA EndpointCounted ==
  ASSUME QInv, IInv', EndpointNext
  PROVE  QInv'
<1>1. UNCHANGED <<deliveries, events, worker, history>>
  BY DEF EndpointNext, createWebhookEndpoint, updateWebhookEndpoint,
         setWebhookEndpointStatus, deleteWebhookEndpoint
<1> QED BY <1>1, RowsStand DEF history

LEMMA TickCounted ==
  ASSUME QInv, IInv', Tick
  PROVE  QInv'
<1>1. /\ DOMAIN deliveries' = DOMAIN deliveries
      /\ \A d \in DOMAIN deliveries : /\ deliveries'[d].status = deliveries[d].status
                                      /\ deliveries'[d].attempts = deliveries[d].attempts
  BY DEF Tick, QInv, IInv, TypeOK, DeliveryRow
<1> QED BY <1>1, RowsStand DEF Tick, history

LEMMA EmitCounted ==
  ASSUME QInv, IInv', EmitNext
  PROVE  QInv'
<1>1. PICK D : /\ events < MaxEvents
               /\ D \subseteq {events + 1} \X (1..drawn)
               /\ Enqueue(D)
  BY EmitStep DEF QInv
<1>2. /\ DOMAIN deliveries' = DOMAIN deliveries \cup D
      /\ D \cap DOMAIN deliveries = {}
      /\ \A d \in DOMAIN deliveries : deliveries'[d] = deliveries[d]
      /\ \A d \in D : deliveries'[d] = Queued
  BY <1>1, EnqueueStep DEF QInv
<1>3. UNCHANGED <<worker, posts, retried>>
  BY <1>1 DEF Enqueue, history
<1>4. ASSUME NEW d \in Delivery \ D PROVE Fits(d)'
  <2>1. RowStands(d)
    BY <1>2 DEF RowStands, Waiting
  <2> QED BY <1>3, <2>1, NobodyMoves, UntouchedFits DEF QInv, IInv, PostsCounted
<1>5. ASSUME NEW d \in Delivery \cap D PROVE Fits(d)'
  <2>1. d \notin DOMAIN deliveries /\ posts'[d] = 0
    BY <1>2, <1>3 DEF QInv, AbsentUnsent
  <2>2. Holders(d)' = {}
    BY <1>3, <2>1 DEF Holders, Holding, QInv, IInv, HolderKept
  <2>3. Cardinality(Holders(d)') = 0
    BY <2>2, FS_EmptySet
  <2>4. Tokens(d)' <= 1
    BY <2>3 DEF Tokens
  <2>5. Sizes(d)' /\ retried'[d] \in Nat
    BY SizesTypedNext DEF IInv, TypeOK
  <2>6. Left(d)' <= PostsPerRound
    BY <2>4, <2>5, ShapesCounted DEF Left, Sizes
  <2>7. PostsPerRound <= (1 + retried'[d]) * PostsPerRound
    BY <2>5, ShapesCounted
  <2> DEFINE all == (1 + retried'[d]) * PostsPerRound
  <2>8. all \in Nat
    BY <2>5, ShapesCounted
  <2> HIDE DEF all
  <2>9. 0 + Left(d)' <= all + Cardinality(Recording(d)')
    BY <2>5, <2>6, <2>7, <2>8, ShapesCounted DEF all, Sizes
  <2> QED BY <2>1, <2>9 DEF Fits, all
<1>6. BatchSound' /\ AbsentUnsent'
  BY <1>2, <1>3 DEF QInv, BatchSound, AbsentUnsent, Holding
<1> QED BY <1>4, <1>5, <1>6 DEF QInv, PostsCounted

\* Only w moves, and for the deliveries it neither held nor holds it learns nothing.
LEMMA OthersUntouched ==
  ASSUME TypeOK, NEW w \in Worker, \A x \in Worker \ {w} : worker'[x] = worker[x],
         NEW d \in Delivery, RowStands(d), Known(w, d)' \subseteq Known(w, d),
         w \notin Holders(d), w \notin Holders(d)',
         posts'[d] = posts[d], retried'[d] = retried[d]
  PROVE  Untouched(d)
<1>1. Holders(d)' = Holders(d) /\ Recording(d)' = Recording(d)
  <2>1. w \notin Recording(d) /\ w \notin Recording(d)'
    BY DEF Recording
  <2> QED BY <2>1, OthersRecord
<1>2. Lags(d)
  BY OthersKnow, KnowsNoLess
<1> QED BY <1>1, <1>2 DEF Untouched, RowStands

\* The batch w goes on with.
NewBatch(w, batch) ==
  /\ worker'[w].batch = batch
  /\ worker'[w].pc \in {"idle", "loop"}
  /\ \A x \in Worker \ {w} : worker'[x] = worker[x]

LEMMA NextItemBatch ==
  ASSUME TypeOK, NEW w \in Worker, NEW batch, NextItem(w, batch)
  PROVE  NewBatch(w, batch)
<1>1. worker \in [Worker -> WorkerRow]
  BY DEF TypeOK
<1>2. CASE batch = {}
  BY <1>1, <1>2 DEF NextItem, NewBatch, Idle
<1>3. CASE batch # {}
  BY <1>1, <1>3 DEF NextItem, NewBatch, Idle
<1> QED BY <1>2, <1>3

LEMMA NewBatchKnown ==
  ASSUME NEW w, NEW batch, NewBatch(w, batch), NEW d
  PROVE  /\ Known(w, d)' = {x.attempts : x \in {y \in batch : y.id = d}}
                             \cup (IF Waiting(d)' THEN {deliveries'[d].attempts} ELSE {})
         /\ w \notin Holders(d)'
BY DEF Known, Holders, Holding, NewBatch

LEMMA NewBatchSound ==
  ASSUME BatchSound, NEW w \in Worker, NEW batch, NewBatch(w, batch),
         \A x, y \in batch : x.id = y.id => x = y
  PROVE  BatchSound'
<1> SUFFICES ASSUME NEW z \in Worker
             PROVE  /\ \A x, y \in worker'[z].batch : x.id = y.id => x = y
                    /\ Holding(z)' => \A x \in worker'[z].batch : x.id # worker'[z].item
                    /\ worker'[z].pc = "record" /\ worker'[z].outcome = "pending"
                         => worker'[z].attempts + 1 < MaxAttempts
  BY DEF BatchSound
<1>1. CASE z = w
  BY <1>1 DEF NewBatch, Holding
<1>2. CASE z # w
  BY <1>2 DEF NewBatch, Holding, BatchSound
<1> QED BY <1>1, <1>2

LEMMA ListCounted ==
  ASSUME QInv, IInv', NEW w \in Worker, listPendingWebhookDeliveries(w)
  PROVE  QInv'
<1> USE DEF QInv, IInv
<1>1. PICK D \in SUBSET Due :
        NextItem(w, {[id |-> d, attempts |-> deliveries[d].attempts] : d \in D})
  BY DEF listPendingWebhookDeliveries
<1> DEFINE batch == {[id |-> d, attempts |-> deliveries[d].attempts] : d \in D}
<1>2. /\ UNCHANGED <<deliveries, posts, retried>>
      /\ worker[w] = Idle
  BY DEF listPendingWebhookDeliveries, history
<1>3. NewBatch(w, batch)
  BY <1>1, NextItemBatch
<1>4. ASSUME NEW d \in Delivery PROVE Untouched(d)
  <2>1. RowStands(d)
    BY <1>2 DEF RowStands, Waiting
  <2>2. Known(w, d)' \subseteq Known(w, d)
    <3>1. {x.attempts : x \in {y \in batch : y.id = d}} \subseteq Known(w, d)
      BY DEF Known, Due, Waiting
    <3>2. (IF Waiting(d)' THEN {deliveries'[d].attempts} ELSE {}) \subseteq Known(w, d)
      BY <1>2, <2>1 DEF Known, RowStands
    <3> HIDE DEF batch
    <3> QED BY <1>3, <3>1, <3>2, NewBatchKnown
  <2>3. w \notin Holders(d) /\ w \notin Holders(d)'
    BY <1>2, <1>3, NewBatchKnown DEF Holders, Holding, Idle
  <2> QED BY <1>2, <1>3, <2>1, <2>2, <2>3, OthersUntouched DEF NewBatch
<1>5. PostsCounted'
  BY <1>4, UntouchedFits DEF PostsCounted
<1>6. BatchSound'
  <2>1. \A x, y \in batch : x.id = y.id => x = y
    OBVIOUS
  <2> HIDE DEF batch
  <2> QED BY <1>3, <2>1, NewBatchSound
<1>7. AbsentUnsent'
  BY <1>2 DEF AbsentUnsent
<1> QED BY <1>5, <1>6, <1>7

\* What w held it lets go, and the row stands: one token is given up.
LEMMA LetsGo ==
  ASSUME TypeOK, TypeOK', NEW w \in Worker, NEW batch, batch \subseteq worker[w].batch,
         NewBatch(w, batch), NEW d \in Delivery, Fits(d), RowStands(d),
         posts'[d] = posts[d], retried'[d] = retried[d]
  PROVE  Fits(d)'
<1>1. Known(w, d)' \subseteq Known(w, d)
  BY NewBatchKnown DEF Known, RowStands
<1>2. Lags(d)
  BY <1>1, OthersKnow, KnowsNoLess DEF NewBatch
<1>3. w \notin Holders(d)' /\ w \notin Recording(d)'
  BY NewBatchKnown DEF Recording
<1>4. /\ Holders(d)' = Holders(d) \ {w}
      /\ Recording(d)' = Recording(d) \ {w}
  BY <1>3, OthersRecord DEF NewBatch
<1>5. IsFiniteSet(Holders(d)) /\ IsFiniteSet(Recording(d))
  BY HoldersFinite, FS_Subset DEF Recording
<1>6. posts[d] \in Nat /\ Sizes(d) /\ Sizes(d)'
  BY SizesTyped, SizesTypedNext DEF TypeOK
<1>7. CASE w \in Holders(d)
  <2>1. Cardinality(Holders(d)') = Cardinality(Holders(d)) - 1
    BY <1>4, <1>5, <1>7, FS_RemoveElement
  <2>2. Cardinality(Recording(d)) <= Cardinality(Recording(d)') + 1
    <3>1. Cardinality(Recording(d) \ {w}) =
            IF w \in Recording(d) THEN Cardinality(Recording(d)) - 1
                                  ELSE Cardinality(Recording(d))
      BY <1>5, FS_RemoveElement
    <3>2. Cardinality(Recording(d)') = Cardinality(Recording(d) \ {w})
      BY <1>4
    <3> QED BY <1>6, <3>1, <3>2 DEF Sizes
  <2>3. Tokens(d)' + 1 <= Tokens(d)
    BY <1>6, <2>1 DEF Tokens, Sizes, RowStands
  <2>4. posts'[d] + Cardinality(Recording(d)) <= posts[d] + Cardinality(Recording(d)') + 1
    BY <1>6, <2>2 DEF Sizes
  <2> QED BY <1>2, <2>3, <2>4, Spends
<1>8. CASE w \notin Holders(d)
  <2>1. Untouched(d)
    BY <1>1, <1>3, <1>8, NewBatchKnown, OthersUntouched DEF NewBatch
  <2> QED BY <2>1, UntouchedFits
<1> QED BY <1>7, <1>8

LEMMA CrashCounted ==
  ASSUME QInv, IInv', NEW w \in Worker, Crash(w)
  PROVE  QInv'
<1> USE DEF QInv, IInv
<1>1. NewBatch(w, {}) /\ UNCHANGED <<deliveries, posts, retried>>
  BY DEF Crash, NewBatch, Idle, TypeOK
<1>2. ASSUME NEW d \in Delivery PROVE Fits(d)'
  <2>1. RowStands(d)
    BY <1>1 DEF RowStands, Waiting
  <2> QED BY <1>1, <2>1, LetsGo DEF PostsCounted
<1>3. BatchSound' /\ AbsentUnsent'
  BY <1>1, NewBatchSound DEF AbsentUnsent
<1> QED BY <1>2, <1>3 DEF PostsCounted

\* The holder w goes on with what it holds.
GoesOn(w) ==
  /\ worker'[w].item = worker[w].item /\ worker'[w].batch = worker[w].batch
  /\ worker'[w].attempts = worker[w].attempts
  /\ Holding(w) /\ Holding(w)'
  /\ \A x \in Worker \ {w} : worker'[x] = worker[x]

LEMMA GoesOnUntouched ==
  ASSUME TypeOK, NEW w \in Worker, GoesOn(w), UNCHANGED deliveries, NEW d \in Delivery
  PROVE  /\ Holders(d)' = Holders(d) /\ Tokens(d)' = Tokens(d) /\ Lags(d) /\ RowStands(d)
         /\ Recording(d)' \ {w} = Recording(d) \ {w}
<1>1. RowStands(d)
  BY DEF RowStands, Waiting
<1>2. Holders(d)' = Holders(d)
  BY DEF Holders, Holding, GoesOn
<1>3. Known(w, d)' = Known(w, d)
  BY <1>1 DEF Known, GoesOn, RowStands
<1>4. Lags(d)
  BY <1>1, <1>3, OthersKnow, KnowsNoLess DEF GoesOn
<1>5. Recording(d)' \ {w} = Recording(d) \ {w}
  BY OthersRecord DEF GoesOn
<1> QED BY <1>1, <1>2, <1>4, <1>5 DEF Tokens, RowStands

\* A holder comes to its outcome and posts at most once on the way.
LEMMA Concludes ==
  ASSUME TypeOK, TypeOK', NEW w \in Worker, GoesOn(w), UNCHANGED <<deliveries, retried>>,
         worker[w].pc # "record", worker'[w].pc = "record",
         NEW d \in Delivery, Fits(d),
         posts'[d] = posts[d] \/ (d = worker[w].item /\ posts'[d] = posts[d] + 1)
  PROVE  Fits(d)'
<1>1. /\ Tokens(d)' = Tokens(d) /\ Lags(d)
      /\ Recording(d)' \ {w} = Recording(d) \ {w}
  BY GoesOnUntouched
<1>2. /\ w \notin Recording(d)
      /\ w \in Recording(d)' <=> d = worker[w].item
  BY DEF Recording, Holders, GoesOn
<1>3. posts[d] \in Nat /\ Sizes(d) /\ Sizes(d)'
  BY SizesTyped, SizesTypedNext DEF TypeOK
<1>4. IsFiniteSet(Recording(d))
  BY HoldersFinite, FS_Subset DEF Recording
<1>5. CASE d = worker[w].item
  <2>1. Recording(d)' = Recording(d) \cup {w}
    BY <1>1, <1>2, <1>5
  <2>2. Cardinality(Recording(d) \cup {w}) = Cardinality(Recording(d)) + 1
    BY <1>2, <1>4, FS_AddElement
  <2>3. posts'[d] + Cardinality(Recording(d)) <= posts[d] + Cardinality(Recording(d)') + 0
    BY <1>3, <2>1, <2>2 DEF Sizes
  <2> QED BY <1>1, <1>3, <2>3, Spends DEF Sizes
<1>6. CASE d # worker[w].item
  <2>1. Recording(d)' = Recording(d)
    BY <1>1, <1>2, <1>6
  <2> QED BY <1>1, <1>3, <1>6, <2>1, Spends DEF Sizes
<1> QED BY <1>5, <1>6

LEMMA GoesOnSound ==
  ASSUME BatchSound, NEW w \in Worker, GoesOn(w),
         worker'[w].pc = "record" /\ worker'[w].outcome = "pending"
           => worker[w].attempts + 1 < MaxAttempts
  PROVE  BatchSound'
<1> SUFFICES ASSUME NEW z \in Worker
             PROVE  /\ \A x, y \in worker'[z].batch : x.id = y.id => x = y
                    /\ Holding(z)' => \A x \in worker'[z].batch : x.id # worker'[z].item
                    /\ worker'[z].pc = "record" /\ worker'[z].outcome = "pending"
                         => worker'[z].attempts + 1 < MaxAttempts
  BY DEF BatchSound
<1>1. CASE z = w
  BY <1>1 DEF GoesOn, BatchSound
<1>2. CASE z # w
  BY <1>2 DEF GoesOn, Holding, BatchSound
<1> QED BY <1>1, <1>2

LEMMA ClassifyGoesOn ==
  ASSUME TypeOK, NEW w \in Worker, NEW outcome, Classify(w, outcome), Holding(w)
  PROVE  GoesOn(w) /\ worker'[w].pc = "record" /\ worker'[w].outcome = outcome
<1>1. worker'[w] = [worker[w] EXCEPT !.pc = "record", !.outcome = outcome]
  BY DEF Classify, TypeOK
<1>2. /\ worker'[w].item = worker[w].item /\ worker'[w].batch = worker[w].batch
      /\ worker'[w].attempts = worker[w].attempts
      /\ worker'[w].pc = "record" /\ worker'[w].outcome = outcome
  BY <1>1 DEF TypeOK, WorkerRow
<1>3. \A x \in Worker \ {w} : worker'[x] = worker[x]
  BY DEF Classify, TypeOK
<1> QED BY <1>2, <1>3 DEF GoesOn, Holding

LEMMA ReadCounted ==
  ASSUME QInv, IInv', NEW w \in Worker, ReadEndpoint(w)
  PROVE  QInv'
<1> USE DEF QInv, IInv
<1>1. /\ UNCHANGED <<deliveries, posts, retried>>
      /\ Holding(w) /\ worker[w].pc # "record"
  BY DEF ReadEndpoint, Holding, history
<1>2. AbsentUnsent'
  BY <1>1 DEF AbsentUnsent
<1>3. CASE worker' = [worker EXCEPT ![w].pc = "send"]
  <2>1. worker'[w] = [worker[w] EXCEPT !.pc = "send"]
    BY <1>3 DEF TypeOK
  <2>2. GoesOn(w) /\ worker'[w].pc = "send"
    BY <1>1, <1>3, <2>1 DEF GoesOn, Holding, TypeOK, WorkerRow
  <2>3. ASSUME NEW d \in Delivery PROVE Untouched(d)
    <3>1. w \notin Recording(d) /\ w \notin Recording(d)'
      BY <1>1, <2>2 DEF Recording
    <3> QED BY <1>1, <2>2, <3>1, GoesOnUntouched DEF Untouched, RowStands
  <2>4. BatchSound'
    BY <2>2, GoesOnSound
  <2> QED BY <1>2, <2>3, <2>4, UntouchedFits DEF PostsCounted
<1>4. CASE Classify(w, "failed")
  <2>1. GoesOn(w) /\ worker'[w].pc = "record" /\ worker'[w].outcome = "failed"
    BY <1>1, <1>4, ClassifyGoesOn
  <2>2. \A d \in Delivery : Fits(d)'
    BY <1>1, <2>1, Concludes DEF PostsCounted
  <2> QED BY <1>2, <2>1, <2>2, GoesOnSound DEF PostsCounted
<1> QED BY <1>3, <1>4 DEF ReadEndpoint

LEMMA SendCounted ==
  ASSUME QInv, IInv', NEW w \in Worker, Send(w)
  PROVE  QInv'
<1> USE DEF QInv, IInv
<1>1. /\ UNCHANGED <<deliveries, retried>>
      /\ Holding(w) /\ worker[w].pc # "record"
      /\ posts' = [posts EXCEPT ![worker[w].item] = @ + 1]
      /\ worker[w].item \in DOMAIN deliveries
  BY DEF Send, Holding, HolderKept
<1>2. PICK outcome : /\ Classify(w, outcome)
                     /\ outcome = "pending" => worker[w].attempts + 1 < MaxAttempts
  <2>1. worker[w].attempts \in Nat
    BY DEF TypeOK, WorkerRow
  <2>2. AfterFailure(worker[w].attempts) = "pending" => worker[w].attempts + 1 < MaxAttempts
    BY <2>1, QueueAssumption DEF AfterFailure
  <2> QED BY <2>2 DEF Send
<1>3. GoesOn(w) /\ worker'[w].pc = "record" /\ worker'[w].outcome = outcome
  BY <1>1, <1>2, ClassifyGoesOn
<1>4. \A d \in Delivery : posts'[d] = posts[d] \/ (d = worker[w].item /\ posts'[d] = posts[d] + 1)
  BY <1>1 DEF TypeOK
<1>5. \A d \in Delivery : Fits(d)'
  BY <1>1, <1>3, <1>4, Concludes DEF PostsCounted
<1>6. BatchSound'
  BY <1>2, <1>3, GoesOnSound
<1>7. AbsentUnsent'
  BY <1>1, <1>4 DEF AbsentUnsent
<1> QED BY <1>5, <1>6, <1>7 DEF PostsCounted

\* A claim turns the waiting row's token into the holder's.
LEMMA ClaimCounted ==
  ASSUME QInv, IInv', NEW w \in Worker, claimWebhookDelivery(w)
  PROVE  QInv'
<1> USE DEF QInv, IInv
<1>1. PICK listed \in worker[w].batch :
        LET rest == worker[w].batch \ {listed}
        IN  \/ /\ CanClaim(listed.id)
               /\ deliveries' = [deliveries EXCEPT ![listed.id].status = "processing"]
               /\ worker' = [worker EXCEPT ![w] =
                    [Idle EXCEPT !.pc = "claimed", !.batch = rest, !.item = listed.id,
                                 !.attempts = listed.attempts]]
            \/ /\ ~CanClaim(listed.id)
               /\ NextItem(w, rest)
               /\ UNCHANGED deliveries
  BY DEF claimWebhookDelivery
<1>2. UNCHANGED <<posts, retried>> /\ worker[w].pc = "loop"
  BY DEF claimWebhookDelivery, history
<1> DEFINE rest == worker[w].batch \ {listed}
<1>3. /\ worker[w].batch \subseteq [id : DOMAIN deliveries, attempts : Nat]
      /\ \A x, y \in worker[w].batch : x.id = y.id => x = y
  BY DEF TypeOK, WorkerRow, BatchSound
<1>4. CASE ~CanClaim(listed.id) /\ NextItem(w, rest) /\ UNCHANGED deliveries
  <2>1. NewBatch(w, rest)
    BY <1>4, NextItemBatch
  <2>2. ASSUME NEW d \in Delivery PROVE Fits(d)'
    <3>1. RowStands(d) /\ rest \subseteq worker[w].batch
      BY <1>4 DEF RowStands, Waiting
    <3> HIDE DEF rest
    <3> QED BY <1>2, <2>1, <3>1, LetsGo DEF PostsCounted
  <2>3. BatchSound'
    BY <1>3, <2>1, NewBatchSound
  <2> QED BY <1>2, <1>4, <2>2, <2>3 DEF PostsCounted, AbsentUnsent
<1>5. CASE /\ CanClaim(listed.id)
           /\ deliveries' = [deliveries EXCEPT ![listed.id].status = "processing"]
           /\ worker' = [worker EXCEPT ![w] =
                [Idle EXCEPT !.pc = "claimed", !.batch = rest, !.item = listed.id,
                             !.attempts = listed.attempts]]
  <2>1. /\ worker'[w].pc = "claimed" /\ worker'[w].batch = rest
        /\ worker'[w].item = listed.id /\ worker'[w].attempts = listed.attempts
        /\ \A x \in Worker \ {w} : worker'[x] = worker[x]
    BY <1>5 DEF TypeOK, Idle
  <2>2. /\ DOMAIN deliveries' = DOMAIN deliveries
        /\ \A d \in DOMAIN deliveries \ {listed.id} : deliveries'[d] = deliveries[d]
        /\ listed.id \in DOMAIN deliveries
        /\ deliveries'[listed.id].status = "processing"
        /\ deliveries[listed.id].status = "pending"
    BY <1>3, <1>5 DEF CanClaim, TypeOK, DeliveryRow, DeliveryStatus
  <2>3. \A d \in Delivery : w \notin Holders(d) /\ w \notin Recording(d) /\ w \notin Recording(d)'
    BY <1>2, <2>1 DEF Holders, Recording, Holding
  <2>4. ASSUME NEW d \in Delivery, d # listed.id PROVE Fits(d)'
    <3>1. RowStands(d)
      BY <2>2, <2>4 DEF RowStands, Waiting
    <3>2. Known(w, d)' \subseteq Known(w, d)
      BY <2>1, <2>4, <3>1 DEF Known, RowStands
    <3>3. w \notin Holders(d)'
      BY <2>1, <2>4 DEF Holders
    <3> QED
      BY <1>2, <2>1, <2>3, <3>1, <3>2, <3>3, OthersUntouched, UntouchedFits DEF PostsCounted
  <2>5. ASSUME NEW d \in Delivery, d = listed.id PROVE Fits(d)'
    <3>1. Waiting(d) /\ ~Waiting(d)'
      BY <2>2, <2>5 DEF Waiting
    <3>2. Known(w, d)' \subseteq Known(w, d)
      BY <2>1, <2>5, <3>1 DEF Known
    <3>3. \A x \in Worker \ {w} : Known(x, d)' \subseteq Known(x, d)
      <4> SUFFICES ASSUME NEW x \in Worker \ {w} PROVE Known(x, d)' \subseteq Known(x, d)
        OBVIOUS
      <4>1. worker'[x] = worker[x]
        BY <2>1
      <4> QED BY <3>1, <4>1 DEF Known, Holding
    <3>4. Lags(d)
      BY <3>2, <3>3, KnowsNoLess
    <3>5. /\ Holders(d)' = Holders(d) \cup {w} /\ w \notin Holders(d)
          /\ Recording(d)' = Recording(d)
      <4>1. w \in Holders(d)'
        BY <2>1, <2>5 DEF Holders, Holding
      <4>2. /\ Holders(d)' \ {w} = Holders(d) \ {w}
            /\ Recording(d)' \ {w} = Recording(d) \ {w}
        BY <2>1, OthersRecord
      <4>3. w \notin Holders(d) /\ w \notin Recording(d) /\ w \notin Recording(d)'
        BY <2>3
      <4>4. Holders(d)' = Holders(d) \cup {w}
        BY <4>1, <4>2, <4>3
      <4>5. Recording(d)' = Recording(d)
        BY <4>2, <4>3
      <4> QED BY <4>3, <4>4, <4>5
    <3>6. Cardinality(Holders(d)') = Cardinality(Holders(d)) + 1
      BY <3>5, HoldersFinite, FS_AddElement
    <3>7. Sizes(d) /\ posts[d] \in Nat
      BY SizesTyped DEF TypeOK
    <3>8. Tokens(d)' + 0 <= Tokens(d)
      BY <3>1, <3>6, <3>7 DEF Tokens, Sizes
    <3>9. posts'[d] + Cardinality(Recording(d)) <= posts[d] + Cardinality(Recording(d)') + 0
      BY <1>2, <3>5, <3>7 DEF Sizes
    <3> QED BY <1>2, <3>4, <3>8, <3>9, Spends DEF PostsCounted
  <2>6. BatchSound'
    <3> SUFFICES ASSUME NEW z \in Worker
                 PROVE  /\ \A x, y \in worker'[z].batch : x.id = y.id => x = y
                        /\ Holding(z)' => \A x \in worker'[z].batch : x.id # worker'[z].item
                        /\ worker'[z].pc = "record" /\ worker'[z].outcome = "pending"
                             => worker'[z].attempts + 1 < MaxAttempts
      BY DEF BatchSound
    <3>1. CASE z = w
      BY <1>3, <2>1, <3>1
    <3>2. CASE z # w
      BY <2>1, <3>2 DEF Holding, BatchSound
    <3> QED BY <3>1, <3>2
  <2> QED BY <1>2, <2>2, <2>4, <2>5, <2>6 DEF PostsCounted, AbsentUnsent
<1> QED BY <1>1, <1>4, <1>5

LEMMA RetryCounted ==
  ASSUME QInv, IInv', NEW r \in Delivery, retryDelivery(r)
  PROVE  QInv'
<1> USE DEF QInv, IInv
<1>1. /\ r \in DOMAIN deliveries
      /\ deliveries' = [deliveries EXCEPT ![r] = Queued]
      /\ retried' = [retried EXCEPT ![r] = @ + 1]
      /\ UNCHANGED <<worker, posts>>
  BY DEF retryDelivery
<1>2. ASSUME NEW d \in Delivery, d # r PROVE Fits(d)'
  <2>1. RowStands(d) /\ retried'[d] = retried[d]
    BY <1>1, <1>2 DEF RowStands, Waiting, TypeOK
  <2> QED BY <1>1, <2>1, NobodyMoves, UntouchedFits DEF PostsCounted
<1>3. Fits(r)'
  <2>1. retried'[r] = retried[r] + 1
    BY <1>1 DEF TypeOK
  <2>2. Holders(r)' = Holders(r) /\ Recording(r)' = Recording(r)
    BY <1>1 DEF Holders, Recording, Holding
  <2>3. Tokens(r)' <= Tokens(r) + 1
    BY <2>2, SizesTyped DEF Tokens, Sizes
  <2> QED BY <1>1, <2>1, <2>2, <2>3, Refills DEF PostsCounted
<1>4. BatchSound' /\ AbsentUnsent'
  BY <1>1 DEF BatchSound, AbsentUnsent, Holding
<1> QED BY <1>2, <1>3, <1>4 DEF PostsCounted

\* A failure that may pass: the action that records it moves on from its
\* attempts to the next, unless the row already waits at fewer than that.
LEMMA RecordCounted ==
  ASSUME QInv, IInv', NEW w \in Worker, updateWebhookDelivery(w)
  PROVE  QInv'
<1> USE DEF QInv, IInv
<1> DEFINE batch == worker[w].batch
           outcome == worker[w].outcome
<1>1. /\ UNCHANGED <<posts, retried>>
      /\ worker[w].pc = "record" /\ Holding(w)
      /\ worker[w].item \in DOMAIN deliveries
  BY DEF updateWebhookDelivery, HolderKept, Holding
<1>0. PICK a \in Nat : a = worker[w].attempts
  BY DEF TypeOK, WorkerRow
<1>2. PICK wait :
        deliveries' = [deliveries EXCEPT ![worker[w].item] =
                         [status |-> outcome, attempts |-> a + 1, wait |-> wait]]
  BY <1>0 DEF updateWebhookDelivery
<1>3. NewBatch(w, batch)
  BY NextItemBatch DEF updateWebhookDelivery
<1>4. /\ \A x, y \in batch : x.id = y.id => x = y
      /\ \A x \in batch : x.id # worker[w].item
      /\ outcome = "pending" => a + 1 < MaxAttempts
      /\ a \in Nat
  BY <1>0, <1>1 DEF BatchSound
<1>5. BatchSound' /\ AbsentUnsent'
  BY <1>1, <1>2, <1>3, <1>4, NewBatchSound DEF AbsentUnsent
<1>6. /\ DOMAIN deliveries' = DOMAIN deliveries
      /\ \A d \in DOMAIN deliveries : d # worker[w].item => deliveries'[d] = deliveries[d]
      /\ deliveries'[worker[w].item].status = outcome
      /\ deliveries'[worker[w].item].attempts = a + 1
  BY <1>1, <1>2 DEF TypeOK
<1>7. ASSUME NEW d \in Delivery, d # worker[w].item PROVE Fits(d)'
  <2>1. RowStands(d)
    BY <1>6, <1>7 DEF RowStands, Waiting
  <2> QED BY <1>1, <1>3, <2>1, LetsGo DEF PostsCounted
<1>8. ASSUME NEW d \in Delivery, d = worker[w].item PROVE Fits(d)'
  <2>1. w \in Holders(d) /\ w \in Recording(d) /\ w \notin Holders(d)'
    BY <1>1, <1>3, <1>8, NewBatchKnown DEF Holders, Recording
  <2>2. Holders(d)' = Holders(d) \ {w} /\ Recording(d)' = Recording(d) \ {w}
    BY <1>3, <2>1, OthersRecord DEF NewBatch, Recording
  <2>3. /\ Cardinality(Holders(d)') = Cardinality(Holders(d)) - 1
        /\ Cardinality(Recording(d)') = Cardinality(Recording(d)) - 1
    <3>1. IsFiniteSet(Holders(d)) /\ IsFiniteSet(Recording(d))
      BY HoldersFinite, FS_Subset DEF Recording
    <3> QED BY <2>1, <2>2, <3>1, FS_RemoveElement
  <2>4. posts[d] \in Nat /\ Sizes(d) /\ Sizes(d)'
    BY SizesTyped, SizesTypedNext DEF TypeOK
  <2>5. Waiting(d)' <=> outcome = "pending"
    BY <1>1, <1>6, <1>8 DEF Waiting
  <2> DEFINE Lists(x) == {y.attempts : y \in {z \in worker[x].batch : z.id = d}}
             Holds(x) == IF Holding(x) /\ worker[x].item = d THEN {worker[x].attempts} ELSE {}
             old == IF Waiting(d) THEN {deliveries[d].attempts} ELSE {}
             new == IF Waiting(d)' THEN {a + 1} ELSE {}
  <2>6. \A x \in Worker : Known(x, d) = Lists(x) \cup Holds(x) \cup old
    BY DEF Known
  <2>7. \A x \in Worker \ {w} : Known(x, d)' = Lists(x) \cup Holds(x) \cup new
    <3> SUFFICES ASSUME NEW x \in Worker \ {w}
                 PROVE  Known(x, d)' = Lists(x) \cup Holds(x) \cup new
      OBVIOUS
    <3>1. worker'[x] = worker[x] /\ deliveries'[d].attempts = a + 1
      BY <1>3, <1>6, <1>8 DEF NewBatch
    <3> QED BY <3>1 DEF Known, Holding
  <2>8. Lists(w) = {} /\ Holds(w) = {a} /\ Known(w, d)' = new
    <3>1. \A x \in batch : x.id # d
      BY <1>4, <1>8
    <3>2. Lists(w) = {} /\ Holds(w) = {a}
      BY <1>0, <1>1, <1>8, <3>1
    <3>3. Known(w, d)' = new
      <4>1. {x.attempts : x \in {y \in batch : y.id = d}} = {}
        BY <3>1
      <4>2. deliveries'[d].attempts = a + 1
        BY <1>6, <1>8
      <4>3. Known(w, d)' = {x.attempts : x \in {y \in batch : y.id = d}}
                             \cup (IF Waiting(d)' THEN {deliveries'[d].attempts} ELSE {})
        BY <1>3, NewBatchKnown
      <4> HIDE DEF batch
      <4> QED BY <4>1, <4>2, <4>3
    <3> QED BY <3>2, <3>3
  <2>9. old \subseteq Nat
    BY KnowsNumbers, <2>6 DEF KnownNat
  <2> HIDE DEF Lists, Holds
  <2>10. CASE ~Waiting(d)' \/ \E b \in old : b <= a
    <3>1. Lags(d)
      <4> SUFFICES ASSUME NEW x \in Worker, NEW b \in Known(x, d)'
                   PROVE  \E c \in Known(x, d) : c <= b
        BY DEF Lags
      <4>1. CASE b \in Known(x, d)
        <5>1. b <= b
          BY <4>1, KnowsNumbers DEF KnownNat
        <5> QED BY <4>1, <5>1
      <4>2. CASE b \notin Known(x, d)
        <5>1. b \in new
          BY <2>6, <2>7, <2>8, <4>2
        <5>2. b = a + 1 /\ \E c \in old : c <= a
          BY <2>10, <5>1
        <5>3. PICK c \in old : c <= a
          BY <5>2
        <5>4. c <= b /\ c \in Known(x, d)
          BY <1>4, <2>6, <2>9, <5>2, <5>3
        <5> QED BY <5>4
      <4> QED BY <4>1, <4>2
    <3>2. Tokens(d)' + 1 <= Tokens(d)
      <4>1. Waiting(d)' => Waiting(d)
        BY <2>10
      <4> QED BY <2>3, <2>4, <4>1 DEF Tokens, Sizes
    <3>3. posts'[d] + Cardinality(Recording(d)) <= posts[d] + Cardinality(Recording(d)') + 1
      BY <1>1, <2>3, <2>4 DEF Sizes
    <3> QED BY <1>1, <3>1, <3>2, <3>3, Spends DEF PostsCounted
  <2>11. CASE Waiting(d)' /\ \A b \in old : ~(b <= a)
    <3>1. a + 1 \in 1..(MaxAttempts - 1)
      <4>1. a + 1 < MaxAttempts /\ a \in Nat
        BY <1>4, <2>5, <2>11
      <4> QED BY <4>1, QueueAssumption
    <3>2. new = {a + 1} /\ \A b \in old : b \in Nat /\ a + 1 <= b
      BY <1>4, <2>9, <2>11
    <3>3. w \notin Past(d, a + 1) /\ w \in Past(d, a + 1)'
      <4>1. a \in Known(w, d) /\ ~(a + 1 <= a)
        BY <1>4, <2>6, <2>8
      <4>2. Known(w, d)' = {a + 1} /\ a + 1 <= a + 1
        BY <1>4, <2>8, <3>2
      <4> QED BY <4>1, <4>2 DEF Past
    <3>4. ASSUME NEW u \in 1..(a + 1) PROVE Past(d, u) \subseteq Past(d, u)'
      <4>1. u <= a + 1
        BY <1>4
      <4> SUFFICES ASSUME NEW x \in Worker, \A b \in Known(x, d) : u <= b,
                          NEW c \in Known(x, d)'
                   PROVE  u <= c
        BY DEF Past
      <4>2. c = a + 1 \/ c \in Known(x, d)
        BY <2>6, <2>7, <2>8, <3>2
      <4> QED BY <4>1, <4>2
    <3>5. Rank(d)' + 1 <= Rank(d)
      BY <3>1, <3>3, <3>4, RankDrops
    <3>6. Tokens(d)' <= Tokens(d) /\ Tokens(d) # 0
      BY <2>3, <2>4 DEF Tokens, Sizes
    <3>7. Cardinality(Recording(d)) <= Cardinality(Recording(d)') + 1
      BY <2>3, <2>4 DEF Sizes
    <3> QED BY <1>1, <3>5, <3>6, <3>7, Advances DEF PostsCounted
  <2> QED BY <2>10, <2>11
<1> QED BY <1>5, <1>7, <1>8 DEF PostsCounted

LEMMA InitQInv == Init => QInv
<1> SUFFICES ASSUME Init PROVE QInv
  OBVIOUS
<1>1. IInv
  BY InitIInv
<1>2. BatchSound /\ AbsentUnsent
  BY DEF Init, BatchSound, AbsentUnsent, Holding, Idle
<1>3. ASSUME NEW d \in Delivery PROVE Fits(d)
  <2>1. Holders(d) = {} /\ Recording(d) = {} /\ ~Waiting(d)
    BY DEF Init, Holders, Recording, Holding, Idle, Waiting
  <2>2. Cardinality(Holders(d)) = 0 /\ Cardinality(Recording(d)) = 0
    BY <2>1, FS_EmptySet
  <2>3. Left(d) = 0 /\ posts[d] = 0 /\ retried[d] = 0
    BY <2>1, <2>2 DEF Left, Tokens, Init
  <2> QED BY <2>2, <2>3, ShapesCounted DEF Fits
<1> QED BY <1>1, <1>2, <1>3 DEF QInv, PostsCounted

LEMMA NextQInv == QInv /\ [Next]_vars => QInv'
<1> SUFFICES ASSUME QInv, [Next]_vars PROVE QInv'
  OBVIOUS
<1>1. IInv'
  BY NextIInv DEF QInv
<1>2. CASE UNCHANGED vars
  BY <1>1, <1>2, RowsStand DEF vars, history
<1>3. CASE EndpointNext
  BY <1>1, <1>3, EndpointCounted
<1>4. CASE EmitNext
  BY <1>1, <1>4, EmitCounted
<1>5. ASSUME NEW w \in Worker, listPendingWebhookDeliveries(w) \/ Step(w) \/ Crash(w)
      PROVE  QInv'
  BY <1>1, <1>5, ListCounted, CrashCounted, ClaimCounted, ReadCounted, SendCounted,
     RecordCounted DEF Step
<1>6. ASSUME NEW d \in Delivery, retryDelivery(d)
      PROVE  QInv'
  BY <1>1, <1>6, RetryCounted
<1>7. CASE Tick
  BY <1>1, <1>7, TickCounted
<1> QED BY <1>2, <1>3, <1>4, <1>5, <1>6, <1>7 DEF Next

\* Whatever the actions list, claim, lose and set back, a delivery is sent at
\* most as often as there are ways to place the actions on the attempts, once
\* for the event and once for each operator retry.
THEOREM PostsAreBounded == Spec => []PostsBounded
<1>1. QInv => PostsBounded
  <2> SUFFICES ASSUME QInv, NEW d \in Delivery
               PROVE  posts[d] <= (1 + retried[d]) * PostsPerRound
    BY DEF PostsBounded
  <2>1. Sizes(d) /\ posts[d] \in Nat /\ retried[d] \in Nat
    BY SizesTyped DEF QInv, IInv, TypeOK
  <2>2. Cardinality(Recording(d)) <= Left(d)
    BY <2>1 DEF Sizes, Left, Tokens
  <2> DEFINE all == (1 + retried[d]) * PostsPerRound
  <2>3. all \in Nat
    BY <2>1, ShapesCounted
  <2>4. posts[d] + Left(d) <= all + Cardinality(Recording(d))
    BY DEF QInv, PostsCounted, Fits
  <2> HIDE DEF all
  <2>5. posts[d] <= all
    BY <2>1, <2>2, <2>3, <2>4 DEF Sizes
  <2> QED BY <2>5 DEF all
<1> QED BY <1>1, InitQInv, NextQInv, PTL DEF Spec

=============================================================================
