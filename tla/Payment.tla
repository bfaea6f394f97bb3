------------------------------- MODULE Payment -------------------------------
(***************************************************************************)
(* payment-service: src/services/payment.service.js with Razorpay and its  *)
(* customers around it.                                                    *)
(*                                                                         *)
(* createPaymentOrder runs once per attempt of the booking service, whose  *)
(* retries can overlap.  verifyAndCapturePayment and handleWebhook run for *)
(* the same order at the same time; each reads the order, awaits, writes   *)
(* it whatever it is by now, and publishes.  Audit log rows are left out.  *)
(*                                                                         *)
(* Nothing inserts a row in refunds, so that handleRefundProcessed finds   *)
(* none and changes nothing: refund events are left out.                   *)
(***************************************************************************)
EXTENDS Naturals

CONSTANTS
  Keys,           \* idempotency keys, one per booking
  GatewayIds,     \* gateway order ids; each is given out once
  Attempts,       \* createPaymentOrder calls that can be in flight together
  Visits,         \* verify calls and webhook deliveries in flight together
  NoId            \* the NULL of gatewayOrderId

ASSUME NoIdAssumption == NoId \notin GatewayIds

VARIABLES
  orders,    \* the payment_orders rows, by idempotency key
  records,   \* idempotency_records: the order id in the saved response
  answers,   \* the order ids callers of createPaymentOrder were given
  gateway,   \* per gateway order: whose it is and how its payments went
  creating,  \* the createPaymentOrder calls in flight
  visits,    \* the verify calls and webhook deliveries in flight
  sent,      \* the messages published, by key and topic
  lost       \* history: why the announcement of a key's money may be missing

payVars == <<orders, records, answers, gateway, creating, visits, sent, lost>>

-----------------------------------------------------------------------------
Outcomes == {"CAPTURED", "FAILED"}

\* How the payments of a gateway order went.  An authorized payment is the
\* customer's promise; its money is taken when it is captured.
PaymentEvents == {"authorized", "captured", "failed"}

\* What brings a visit to its outcome: an event, or a wrong signature.
Causes == PaymentEvents \cup {"forged"}

\* An authorized payment is taken for a captured one.
OutcomeOf(cause) == IF cause \in {"authorized", "captured"} THEN "CAPTURED" ELSE "FAILED"

\* A payment failed first, a signature was wrong, a message was not sent.
Reasons == {"failed", "forged", "unsent"}

OrderRow == [status : {"ABSENT", "CREATED"} \cup Outcomes, id : GatewayIds \cup {NoId}]

NotCreating == [pc |-> "idle"]

NotVisiting == [pc |-> "idle"]

PaymentTypeOK ==
  /\ orders \in [Keys -> OrderRow]
  /\ records \in [Keys -> GatewayIds \cup {NoId}]
  /\ answers \in [Keys -> SUBSET GatewayIds]
  /\ gateway \in [GatewayIds -> [opened : BOOLEAN, events : SUBSET PaymentEvents]]
  /\ creating \in [Attempts -> {NotCreating}
                     \cup [pc : {"order"}, key : Keys]
                     \cup [pc : {"insert", "record"}, key : Keys, id : GatewayIds]]
  /\ visits \in [Visits -> {NotVisiting}
                   \cup [pc : {"write", "publish"}, key : Keys, cause : Causes]]
  /\ sent \in [Keys -> [Outcomes -> Nat]]
  /\ lost \in [Keys -> SUBSET Reasons]

-----------------------------------------------------------------------------
(* createPaymentOrder in withIdempotency *)

Proceed(a, c) == creating' = [creating EXCEPT ![a] = c]

Answer(k, id) == answers' = [answers EXCEPT ![k] = @ \cup {id}]

FindRecord(a, k) ==
  /\ creating[a] = NotCreating
  /\ IF records[k] = NoId
     THEN Proceed(a, [pc |-> "order", key |-> k]) /\ UNCHANGED answers
     ELSE Answer(k, records[k]) /\ UNCHANGED creating
  /\ UNCHANGED <<orders, records, gateway, visits, sent, lost>>

\* Mutant: the gateway's promise is not awaited, so the row gets no order id.
CreateUnawaited(a) ==
  /\ creating[a].pc = "order"
  /\ \E id \in GatewayIds :
       /\ ~gateway[id].opened
       /\ gateway' = [gateway EXCEPT ![id].opened = TRUE]
       /\ Proceed(a, [pc |-> "insert", key |-> creating[a].key, id |-> NoId])
  /\ UNCHANGED <<orders, records, answers, visits, sent, lost>>

\* Every call makes a new order at the gateway, the same receipt or not.
CreateOrder(a) ==
  /\ creating[a].pc = "order"
  /\ \E id \in GatewayIds :
       /\ ~gateway[id].opened
       /\ gateway' = [gateway EXCEPT ![id].opened = TRUE]
       /\ Proceed(a, [pc |-> "insert", key |-> creating[a].key, id |-> id])
  /\ UNCHANGED <<orders, records, answers, visits, sent, lost>>

\* Mutant: the idempotency key is not unique in payment_orders.
InsertAnyway(a) ==
  /\ creating[a].pc = "insert"
  /\ LET k == creating[a].key
         id == creating[a].id
     IN /\ orders' = [orders EXCEPT ![k] = [status |-> "CREATED", id |-> id]]
        /\ Proceed(a, [pc |-> "record", key |-> k, id |-> id])
  /\ UNCHANGED <<records, answers, gateway, visits, sent, lost>>

\* The idempotency key is unique: a second row is refused, and the call fails.
InsertOrder(a) ==
  /\ creating[a].pc = "insert"
  /\ LET k == creating[a].key
         id == creating[a].id
     IN IF orders[k].status = "ABSENT"
        THEN /\ orders' = [orders EXCEPT ![k] = [status |-> "CREATED", id |-> id]]
             /\ Proceed(a, [pc |-> "record", key |-> k, id |-> id])
        ELSE Proceed(a, NotCreating) /\ UNCHANGED orders
  /\ UNCHANGED <<records, answers, gateway, visits, sent, lost>>

SaveRecord(a) ==
  /\ creating[a].pc = "record"
  /\ records' = [records EXCEPT ![creating[a].key] = creating[a].id]
  /\ Answer(creating[a].key, creating[a].id)
  /\ Proceed(a, NotCreating)
  /\ UNCHANGED <<orders, gateway, visits, sent, lost>>

\* An error or a crash: what the call has written stays.
CreateStops(a) ==
  /\ creating[a] # NotCreating
  /\ Proceed(a, NotCreating)
  /\ UNCHANGED <<orders, records, answers, gateway, visits, sent, lost>>

-----------------------------------------------------------------------------
(* The customer and the gateway *)

\* The customer's attempts at an order fail, any number of times, until one is
\* authorized.
Pay(k, id, event) ==
  /\ id \in answers[k]
  /\ event \in {"authorized", "failed"} \ gateway[id].events
  /\ "authorized" \notin gateway[id].events
  /\ gateway' = [gateway EXCEPT ![id].events = @ \cup {event}]
  /\ UNCHANGED <<orders, records, answers, creating, visits, sent, lost>>

\* createOrder leaves it to the account's settings, or to somebody at the
\* gateway's dashboard, whether an authorized payment is ever captured.
Capture(id) ==
  /\ "authorized" \in gateway[id].events
  /\ "captured" \notin gateway[id].events
  /\ gateway' = [gateway EXCEPT ![id].events = @ \cup {"captured"}]
  /\ UNCHANGED <<orders, records, answers, creating, visits, sent, lost>>

-----------------------------------------------------------------------------
(* verifyAndCapturePayment and handleWebhook *)

Visit(v, t) == visits' = [visits EXCEPT ![v] = t]

\* Mutant: the verdict on the signature is not looked at.
AnySignature(k) == {"forged", "authorized"}

\* What a checkout signature can show of an order: a wrong one nothing, and it
\* is right for an authorized payment only.
Verdicts(k) ==
  {"forged"} \cup (gateway[orders[k].id].events \cap {"authorized"})

\* The order is read; one that is not CREATED is answered at once.
Verify(v, k) ==
  /\ visits[v] = NotVisiting
  /\ answers[k] # {}
  /\ orders[k].status = "CREATED"
  /\ \E cause \in Verdicts(k) :
       Visit(v, [pc |-> "write", key |-> k, cause |-> cause])
  /\ UNCHANGED <<orders, records, answers, gateway, creating, sent, lost>>

\* Mutant: only the events of failed payments are handled.
FailedEvents(k) == gateway[orders[k].id].events \cap {"failed"}

\* The gateway delivers each event until it is answered, and possibly again.
Events(k) == gateway[orders[k].id].events

\* An event for an order that is unknown or not CREATED is acknowledged and
\* forgotten.
Webhook(v, k) ==
  /\ visits[v] = NotVisiting
  /\ orders[k].status = "CREATED"
  /\ \E cause \in Events(k) :
       Visit(v, [pc |-> "write", key |-> k, cause |-> cause])
  /\ UNCHANGED <<orders, records, answers, gateway, creating, sent, lost>>

\* The update names the order and nothing else.
WriteOutcome(v) ==
  /\ visits[v].pc = "write"
  /\ orders' = [orders EXCEPT ![visits[v].key].status = OutcomeOf(visits[v].cause)]
  /\ lost' = [lost EXCEPT ![visits[v].key] = @ \cup ({visits[v].cause} \cap Reasons)]
  /\ Visit(v, [visits[v] EXCEPT !.pc = "publish"])
  /\ UNCHANGED <<records, answers, gateway, creating, sent>>

\* An error of the producer is logged only.
Publish(v) ==
  /\ visits[v].pc = "publish"
  /\ LET k == visits[v].key
         outcome == OutcomeOf(visits[v].cause)
     IN \/ sent' = [sent EXCEPT ![k][outcome] = @ + 1] /\ UNCHANGED lost
        \/ lost' = [lost EXCEPT ![k] = @ \cup {"unsent"}] /\ UNCHANGED sent
  /\ Visit(v, NotVisiting)
  /\ UNCHANGED <<orders, records, answers, gateway, creating>>

-----------------------------------------------------------------------------
PaymentInit ==
  /\ orders = [k \in Keys |-> [status |-> "ABSENT", id |-> NoId]]
  /\ records = [k \in Keys |-> NoId]
  /\ answers = [k \in Keys |-> {}]
  /\ gateway = [id \in GatewayIds |-> [opened |-> FALSE, events |-> {}]]
  /\ creating = [a \in Attempts |-> NotCreating]
  /\ visits = [v \in Visits |-> NotVisiting]
  /\ sent = [k \in Keys |-> [o \in Outcomes |-> 0]]
  /\ lost = [k \in Keys |-> {}]

CreateStep(a) == CreateOrder(a) \/ InsertOrder(a) \/ SaveRecord(a)

VisitStep(v) == WriteOutcome(v) \/ Publish(v)

PaymentNext ==
  \/ \E a \in Attempts, k \in Keys : FindRecord(a, k)
  \/ \E a \in Attempts : CreateStep(a) \/ CreateStops(a)
  \/ \E k \in Keys, id \in GatewayIds, event \in PaymentEvents : Pay(k, id, event)
  \/ \E id \in GatewayIds : Capture(id)
  \/ \E v \in Visits, k \in Keys : Verify(v, k) \/ Webhook(v, k)
  \/ \E v \in Visits : VisitStep(v)

\* Calls in flight go on, and the gateway delivers its events until they are
\* answered.  Nobody has to create, pay, capture or verify.
PaymentSpec ==
  /\ PaymentInit /\ [][PaymentNext]_payVars
  /\ \A a \in Attempts : WF_payVars(CreateStep(a))
  /\ \A v \in Visits : WF_payVars(VisitStep(v))
  /\ \A k \in Keys : WF_payVars(\E v \in Visits : Webhook(v, k))

-----------------------------------------------------------------------------
(* Properties *)

\* All attempts for one key are answered with the order of the one row, so that
\* a customer pays an order the service knows, however the attempts overlap.
OneAnswer == \A k \in Keys : answers[k] \subseteq {orders[k].id} \ {NoId}

\* A published PAYMENT_SUCCESS is for an order that its customer has paid:
\* Razorpay has authorized a payment for it, whoever forges signatures.
SuccessIsAuthorized ==
  \A k \in Keys : sent[k]["CAPTURED"] > 0 =>
    orders[k].id # NoId /\ "authorized" \in gateway[orders[k].id].events

\* What a customer has paid is announced as PAYMENT_SUCCESS, unless the order
\* was written FAILED, for an earlier payment or a wrong signature, or the
\* producer failed.
PaidIsAnnounced ==
  \A k \in Keys, id \in GatewayIds :
    (orders[k].id = id /\ "authorized" \in gateway[id].events)
      ~> (sent[k]["CAPTURED"] > 0 \/ lost[k] # {})

\* An order that payment-service calls CAPTURED, and publishes with a time of
\* capture, has its money captured at the gateway.  The code captures nothing
\* itself and takes an authorization for a capture: not checked by a run, as the
\* code does not have it (README, Deviations, 32).
CapturedAtGateway ==
  \A k \in Keys : orders[k].status = "CAPTURED" =>
    "captured" \in gateway[orders[k].id].events
=============================================================================
