--------------------------- MODULE WebhookOutbox ---------------------------
(***************************************************************************)
(* What the webhook queue promises to whoever emits an event: a delivery   *)
(* stays open until it is recorded as delivered, which it is only if the   *)
(* receiver has accepted it, or as failed; and a recorded outcome is final *)
(* until an operator reopens the delivery.  Nothing is said of workers,    *)
(* claims, attempts or backoff.                                            *)
(***************************************************************************)
EXTENDS Naturals

CONSTANT Item

VARIABLES
  outcome,    \* what is recorded of each delivery
  accepted,   \* deliveries the receiver has answered 2xx at least once
  reopened    \* how often an operator has asked for another try

outboxVars == <<outcome, accepted, reopened>>

Outcome == {"absent", "open", "delivered", "failed"}
Recorded == {"delivered", "failed"}

OutboxInit ==
  /\ outcome = [d \in Item |-> "absent"]
  /\ accepted = {}
  /\ reopened = [d \in Item |-> 0]

\* One event opens a delivery for each subscriber at once.
Emit(D) ==
  /\ \A d \in D : outcome[d] = "absent"
  /\ outcome' = [d \in Item |-> IF d \in D THEN "open" ELSE outcome[d]]
  /\ UNCHANGED <<accepted, reopened>>

Accept(d) ==
  /\ outcome[d] # "absent"
  /\ accepted' = accepted \cup {d}
  /\ UNCHANGED <<outcome, reopened>>

\* A second record, or a return to the queue, happens only to what was reopened.
Record(d, o) ==
  /\ outcome[d] # "absent"
  /\ outcome[d] = "open" \/ reopened[d] > 0
  /\ o = "delivered" => d \in accepted
  /\ outcome' = [outcome EXCEPT ![d] = o]
  /\ UNCHANGED <<accepted, reopened>>

Reopen(d) ==
  /\ outcome[d] # "absent"
  /\ outcome' = [outcome EXCEPT ![d] = "open"]
  /\ reopened' = [reopened EXCEPT ![d] = @ + 1]
  /\ UNCHANGED accepted

OutboxNext ==
  \/ \E D \in SUBSET Item : Emit(D)
  \/ \E d \in Item :
       \/ Accept(d)
       \/ \E o \in Recorded \cup {"open"} : Record(d, o)
       \/ Reopen(d)

OutboxSpec == OutboxInit /\ [][OutboxNext]_outboxVars

=============================================================================
