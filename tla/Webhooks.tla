------------------------------ MODULE Webhooks ------------------------------
(***************************************************************************)
(* The outbox and its webhook deliveries.  A transaction that changes a    *)
(* medium inserts its event and one delivery per subscribed endpoint;      *)
(* workers lease one delivery at a time, POST it and record the outcome;   *)
(* owners create, change and delete endpoints and replay deliveries.       *)
(*                                                                         *)
(* Leases and retry times are flags that time may turn at any moment.  The *)
(* acknowledgement is a transaction of two statements under READ           *)
(* COMMITTED: it decides whether the event is complete on what others have *)
(* committed, and commits in a later step.  A worker's claim stands for    *)
(* its lease token: a worker uses a token only until its next claim.       *)
(***************************************************************************)
EXTENDS Naturals, FiniteSets

CONSTANTS
    Events,       \* outbox events
    Endpoints,    \* webhook endpoints of the application
    Workers,      \* loops of run_outbox_worker
    MaxAttempts,  \* WEBHOOK_MAX_ATTEMPTS
    MaxReplays,   \* bound: replays of one delivery
    MaxFaults,    \* bound: crashes, and attempts that outlive their lease
    Nobody

ASSUME WebhookAssumption ==
    /\ MaxAttempts \in Nat \ {0} /\ MaxReplays \in Nat /\ MaxFaults \in Nat
    /\ Nobody \notin Workers

VARIABLES
    event,     \* outbox_events rows
    endpoint,  \* webhook_endpoints rows
    delivery,  \* webhook_deliveries rows
    worker,    \* worker loops
    received,  \* what the receivers got: since the last replay, and ever
    faults     \* crashes and overdue attempts so far

webhookVars == <<event, endpoint, delivery, worker, received, faults>>

Pairs == Events \X Endpoints

(* an endpoint that does not subscribe to the type of an event is to that  *)
(* event like one that is created after it                                 *)
Endpoint == {"none", "enabled", "disabled"}

(* due: next_attempt_at <= now; leased: leased_until > now                 *)
Delivery == [state : {"none", "pending", "delivered", "dead"}, attempts : 0 .. MaxAttempts,
             due : BOOLEAN, owner : Workers \cup {Nobody}, leased : BOOLEAN, replays : 0 .. MaxReplays]

(* last: the acknowledgement found every other delivery delivered          *)
Worker == [step : {"idle", "claimed", "accepted", "rejected", "committing"},
           at : Pairs \cup {<<Nobody, Nobody>>}, last : BOOLEAN]

DeliveryTypes ==
    /\ event \in [Events -> {"none", "open", "delivered"}]
    /\ endpoint \in [Endpoints -> Endpoint]
    /\ delivery \in [Pairs -> Delivery]
    /\ worker \in [Workers -> Worker]
    /\ received \in [Pairs -> [since : BOOLEAN, ever : BOOLEAN]]
    /\ faults \in 0 .. MaxFaults
    /\ \A d \in Pairs : delivery[d].owner # Nobody => delivery[d].state = "pending"

NoDelivery == [state |-> "none", attempts |-> 0, due |-> FALSE, owner |-> Nobody,
               leased |-> FALSE, replays |-> 0]

(* a delivery as it is inserted, and as a replay resets it                *)
FreshDelivery(replays) == [NoDelivery EXCEPT !.state = "pending", !.due = TRUE, !.replays = replays]

IdleWorker == [step |-> "idle", at |-> <<Nobody, Nobody>>, last |-> FALSE]

Of(e) == {d \in Pairs : d[1] = e}

(* the row lock of an acknowledgement that has not committed               *)
Locked(d) == \E w \in Workers : worker[w].step = "committing" /\ worker[w].at = d

-----------------------------------------------------------------------------
(* Publication *)

(* materialize_deliveries: the endpoints an event fans out to              *)
Subscriber(x) == endpoint[x] = "enabled"

(* insert_outbox, in the transaction that changes the medium               *)
Publish(e) ==
    /\ event[e] = "none"
    /\ event' = [event EXCEPT ![e] = "open"]
    /\ delivery' = [d \in Pairs |->
         IF d \in Of(e) /\ Subscriber(d[2]) THEN FreshDelivery(0) ELSE delivery[d]]
    /\ UNCHANGED <<endpoint, worker, received, faults>>

Unsubscribed(e) == \A d \in Of(e) : delivery[d].state = "none"

(* finalize_unsubscribed_outbox_events                                     *)
Finalize(e) ==
    /\ event[e] = "open" /\ Unsubscribed(e)
    /\ event' = [event EXCEPT ![e] = "delivered"]
    /\ UNCHANGED <<endpoint, delivery, worker, received, faults>>

-----------------------------------------------------------------------------
(* Delivery *)

(* Seeded fault: a delivery that lost its lease is not offered again.      *)
ClaimableUnowned(d) ==
    /\ delivery[d].state = "pending" /\ delivery[d].due /\ delivery[d].owner = Nobody
    /\ endpoint[d[2]] = "enabled"
    /\ ~Locked(d)

(* the WHERE clause of claim_webhook_deliveries, SKIP LOCKED               *)
Claimable(d) ==
    /\ delivery[d].state = "pending" /\ delivery[d].due /\ ~delivery[d].leased
    /\ endpoint[d[2]] = "enabled"
    /\ ~Locked(d)

Claim(w, d) ==
    /\ worker[w].step = "idle"
    /\ Claimable(d)
    /\ delivery' = [delivery EXCEPT ![d].owner = w, ![d].leased = TRUE]
    /\ worker' = [worker EXCEPT ![w] = [IdleWorker EXCEPT !.step = "claimed", !.at = d]]
    /\ UNCHANGED <<event, endpoint, received, faults>>

(* deliver_webhook_delivery: the request may fail before it is received,   *)
(* be refused, be accepted, or be received with its answer lost or late    *)
Post(w, got, answer) ==
    /\ worker[w].step = "claimed"
    /\ answer = "accepted" => got
    /\ received' = IF got THEN [received EXCEPT ![worker[w].at] = [since |-> TRUE, ever |-> TRUE]]
                   ELSE received
    /\ worker' = [worker EXCEPT ![w].step = answer]
    /\ UNCHANGED <<event, endpoint, delivery, faults>>

(* Seeded fault: the acknowledgement compares neither token nor lease.     *)
OwnsPending(w) == delivery[worker[w].at].state = "pending"

(* pending, with the worker's token and a live lease                       *)
Owns(w) ==
    LET d == delivery[worker[w].at]
    IN  d.state = "pending" /\ d.owner = w /\ d.leased

(* Seeded fault: one delivery completes its event.                         *)
CompletesEventAlone(w) == TRUE

(* NOT EXISTS an undelivered delivery, in the transaction's snapshot       *)
CompletesEvent(w) ==
    \A d \in Of(worker[w].at[1]) \ {worker[w].at} : delivery[d].state \in {"none", "delivered"}

(* mark_webhook_delivery_delivered_with_status, up to its commit           *)
Acknowledge(w) ==
    /\ worker[w].step = "accepted"
    /\ ~Locked(worker[w].at)
    /\ worker' = [worker EXCEPT ![w] =
         IF Owns(w) THEN [@ EXCEPT !.step = "committing", !.last = CompletesEvent(w)] ELSE IdleWorker]
    /\ UNCHANGED <<event, endpoint, delivery, received, faults>>

(* the columns an acknowledgement or a failure writes                      *)
Settled(d, state, attempts) ==
    [delivery EXCEPT ![d] = [@ EXCEPT !.state = state, !.attempts = attempts, !.due = FALSE,
                                      !.owner = Nobody, !.leased = FALSE]]

CommitAcknowledgement(w) ==
    LET d == worker[w].at
    IN  /\ worker[w].step = "committing"
        /\ delivery' = Settled(d, "delivered", delivery[d].attempts)
        /\ event' = IF worker[w].last THEN [event EXCEPT ![d[1]] = "delivered"] ELSE event
        /\ worker' = [worker EXCEPT ![w] = IdleWorker]
        /\ UNCHANGED <<endpoint, received, faults>>

Exhausted(attempts) == attempts >= MaxAttempts

(* record_webhook_delivery_failure_with_status; webhook_retry_at lies      *)
(* after the failure, so the next attempt is not due yet                   *)
RecordFailure(w) ==
    LET d == worker[w].at
        attempts == delivery[d].attempts + 1
    IN  /\ worker[w].step = "rejected"
        /\ ~Locked(d)
        /\ delivery' = IF Owns(w)
                       THEN Settled(d, IF Exhausted(attempts) THEN "dead" ELSE "pending", attempts)
                       ELSE delivery
        /\ worker' = [worker EXCEPT ![w] = IdleWorker]
        /\ UNCHANGED <<event, endpoint, received, faults>>

(* the process stops; an open transaction is rolled back                   *)
Crash(w) ==
    /\ worker[w].step # "idle" /\ faults < MaxFaults
    /\ worker' = [worker EXCEPT ![w] = IdleWorker]
    /\ faults' = faults + 1
    /\ UNCHANGED <<event, endpoint, delivery, received>>

InHand(d) ==
    \E w \in Workers : worker[w].step # "idle" /\ worker[w].at = d /\ delivery[d].owner = w

(* the lease of a claim nobody works on ends                               *)
LeaseEnds(d) ==
    /\ delivery[d].leased /\ ~InHand(d)
    /\ delivery' = [delivery EXCEPT ![d].leased = FALSE]
    /\ UNCHANGED <<event, endpoint, worker, received, faults>>

(* an attempt outlives its lease, which is longer than its timeout         *)
Overdue(d) ==
    /\ delivery[d].leased /\ InHand(d) /\ faults < MaxFaults
    /\ delivery' = [delivery EXCEPT ![d].leased = FALSE]
    /\ faults' = faults + 1
    /\ UNCHANGED <<event, endpoint, worker, received>>

RetryDue(d) ==
    /\ delivery[d].state = "pending" /\ ~delivery[d].due
    /\ delivery' = [delivery EXCEPT ![d].due = TRUE]
    /\ UNCHANGED <<event, endpoint, worker, received, faults>>

-----------------------------------------------------------------------------
(* Owners *)

(* a new endpoint has a new id: an id that was deleted is not used again   *)
CreateEndpoint(x) ==
    /\ endpoint[x] = "none"
    /\ \A e \in Events : ~received[<<e, x>>].ever
    /\ endpoint' = [endpoint EXCEPT ![x] = "enabled"]
    /\ UNCHANGED <<event, delivery, worker, received, faults>>

(* update_webhook_endpoint: the deliveries that exist stay                 *)
UpdateEndpoint(x, state) ==
    /\ endpoint[x] # "none"
    /\ endpoint' = [endpoint EXCEPT ![x] = state]
    /\ UNCHANGED <<event, delivery, worker, received, faults>>

(* delete_webhook_endpoint, with ON DELETE CASCADE                         *)
DeleteEndpoint(x) ==
    /\ endpoint[x] # "none"
    /\ \A e \in Events : ~Locked(<<e, x>>)
    /\ endpoint' = [endpoint EXCEPT ![x] = "none"]
    /\ delivery' = [d \in Pairs |-> IF d[2] = x THEN NoDelivery ELSE delivery[d]]
    /\ UNCHANGED <<event, worker, received, faults>>

(* replay_webhook_delivery: only a terminal delivery                       *)
Replay(d) ==
    /\ delivery[d].state \in {"delivered", "dead"}
    /\ delivery[d].replays < MaxReplays
    /\ delivery' = [delivery EXCEPT ![d] = FreshDelivery(@.replays + 1)]
    /\ received' = [received EXCEPT ![d].since = FALSE]
    /\ UNCHANGED <<event, endpoint, worker, faults>>

-----------------------------------------------------------------------------
WebhookInit ==
    /\ event = [e \in Events |-> "none"]
    /\ endpoint = [x \in Endpoints |-> "none"]
    /\ delivery = [d \in Pairs |-> NoDelivery]
    /\ worker = [w \in Workers |-> IdleWorker]
    /\ received = [d \in Pairs |-> [since |-> FALSE, ever |-> FALSE]]
    /\ faults = 0

Work(w) ==
    \/ \E d \in Pairs : Claim(w, d)
    \/ \E got \in BOOLEAN, answer \in {"accepted", "rejected"} : Post(w, got, answer)
    \/ Acknowledge(w) \/ CommitAcknowledgement(w) \/ RecordFailure(w)

WebhookNext ==
    \/ \E e \in Events : Publish(e) \/ Finalize(e)
    \/ \E w \in Workers : Work(w) \/ Crash(w)
    \/ \E d \in Pairs : LeaseEnds(d) \/ Overdue(d) \/ RetryDue(d) \/ Replay(d)
    \/ \E x \in Endpoints : CreateEndpoint(x) \/ DeleteEndpoint(x)
    \/ \E x \in Endpoints, state \in {"enabled", "disabled"} : UpdateEndpoint(x, state)

(* The worker loops every five seconds and its requests time out; leases   *)
(* and retry times pass.                                                   *)
Fairness ==
    /\ \A w \in Workers : WF_webhookVars(Work(w))
    /\ \A e \in Events : WF_webhookVars(Finalize(e))
    /\ \A d \in Pairs : WF_webhookVars(LeaseEnds(d)) /\ WF_webhookVars(RetryDue(d))

WebhookSpec == WebhookInit /\ [][WebhookNext]_webhookVars
FairSpec == WebhookSpec /\ Fairness

-----------------------------------------------------------------------------
(* Properties *)

(* A delivery is marked delivered only when its receiver got the event     *)
(* since its last replay: the late acknowledgement of an older lease does  *)
(* not count for a newer attempt.                                          *)
DeliveredIsReceived == \A d \in Pairs : delivery[d].state = "delivered" => received[d].since

(* A completed event was received by every endpoint that still has a       *)
(* delivery of it, also after replays, deleted endpoints and overlapping   *)
(* acknowledgements.                                                       *)
DoneIsServed ==
    \A e \in Events : event[e] = "delivered" =>
        \A d \in Of(e) : delivery[d].state # "none" => received[d].ever

(* No delivery waits for ever, whatever the other endpoints answer: it is  *)
(* delivered, dead-lettered, deleted, or its endpoint gets disabled.       *)
EveryDeliveryEnds ==
    \A d \in Pairs : delivery[d].state = "pending" ~>
        delivery[d].state # "pending" \/ endpoint[d[2]] # "enabled"
=============================================================================
