---------------------------- MODULE PaymentProofs ----------------------------
(***************************************************************************)
(* Theorems about Payment, for any keys, gateway orders, overlapping       *)
(* attempts and visits.                                                    *)
(***************************************************************************)
EXTENDS Payment, TLAPS

-----------------------------------------------------------------------------
(* The inductive invariant *)

\* An order row has a gateway order exactly when it has been inserted.
RowHasId == \A k \in Keys : orders[k].status = "ABSENT" <=> orders[k].id = NoId

\* What is saved for a key is the order of its row.
RecordIsRow == \A k \in Keys : records[k] \in {NoId, orders[k].id}

\* A call that goes on to save its answer has inserted the row itself.
SaverInserted ==
  \A a \in Attempts : creating[a].pc = "record" =>
    /\ orders[creating[a].key].id = creating[a].id
    /\ orders[creating[a].key].status # "ABSENT"

\* A visit is to an order that exists, and to an authorized one when it is going
\* to say CAPTURED.
VisitIsTrue ==
  \A v \in Visits : visits[v] # NotVisiting =>
    LET k == visits[v].key IN
    /\ orders[k].id # NoId
    /\ OutcomeOf(visits[v].cause) = "CAPTURED" =>
         "authorized" \in gateway[orders[k].id].events

\* Only authorized money is captured.
CapturesAuthorized ==
  \A id \in GatewayIds :
    "captured" \in gateway[id].events => "authorized" \in gateway[id].events

PaymentInv ==
  /\ PaymentTypeOK
  /\ RowHasId
  /\ RecordIsRow
  /\ SaverInserted
  /\ OneAnswer
  /\ VisitIsTrue
  /\ CapturesAuthorized
  /\ SuccessIsAuthorized

-----------------------------------------------------------------------------
(* What the shapes of the calls in flight tell apart *)

LEMMA CallShapes ==
  ASSUME PaymentTypeOK
  PROVE  /\ \A a \in Attempts :
              /\ creating[a].pc = "order" => creating[a] \in [pc : {"order"}, key : Keys]
              /\ creating[a].pc \in {"insert", "record"} =>
                   creating[a] \in [pc : {"insert", "record"}, key : Keys, id : GatewayIds]
         /\ \A v \in Visits :
              visits[v].pc \in {"write", "publish"} <=> visits[v] # NotVisiting
         /\ \A v \in Visits : visits[v] # NotVisiting =>
              visits[v] \in [pc : {"write", "publish"}, key : Keys, cause : Causes]
  BY DEF PaymentTypeOK, NotCreating, NotVisiting

LEMMA VisitedIds ==
  ASSUME PaymentTypeOK, VisitIsTrue
  PROVE  \A v \in Visits : visits[v] # NotVisiting => orders[visits[v].key].id \in GatewayIds
  BY CallShapes DEF VisitIsTrue, PaymentTypeOK, OrderRow

-----------------------------------------------------------------------------
(* createPaymentOrder *)

LEMMA FindRecordKeeps ==
  ASSUME PaymentInv, NEW a \in Attempts, NEW k \in Keys, FindRecord(a, k)
  PROVE  PaymentInv'
  <1> USE DEF PaymentInv
  <1>1. PaymentTypeOK'
    <2>1. creating' \in [Attempts -> {NotCreating}
                           \cup [pc : {"order"}, key : Keys]
                           \cup [pc : {"insert", "record"}, key : Keys, id : GatewayIds]]
      BY DEF FindRecord, PaymentTypeOK, Proceed
    <2>2. answers' \in [Keys -> SUBSET GatewayIds]
      BY DEF FindRecord, PaymentTypeOK, Answer
    <2> QED
      BY <2>1, <2>2 DEF FindRecord, PaymentTypeOK
  <1>2. SaverInserted'
    BY DEF FindRecord, SaverInserted, PaymentTypeOK, Proceed
  <1>3. OneAnswer'
    <2> SUFFICES ASSUME NEW j \in Keys
                 PROVE  answers'[j] \subseteq {orders[j].id} \ {NoId}
      BY DEF FindRecord, OneAnswer
    <2>1. answers[j] \subseteq {orders[j].id} \ {NoId}
      BY DEF OneAnswer
    <2>2. CASE records[k] = NoId
      BY <2>1, <2>2 DEF FindRecord
    <2>3. CASE records[k] # NoId
      <3>1. answers' = [answers EXCEPT ![k] = @ \cup {records[k]}]
        BY <2>3 DEF FindRecord, Answer
      <3>2. answers'[j] = IF j = k THEN answers[j] \cup {records[k]} ELSE answers[j]
        BY <3>1 DEF PaymentTypeOK
      <3>3. records[k] = orders[k].id
        BY <2>3 DEF RecordIsRow
      <3> QED
        BY <2>1, <2>3, <3>2, <3>3
    <2> QED
      BY <2>2, <2>3
  <1>4. RowHasId' /\ RecordIsRow' /\ VisitIsTrue' /\ CapturesAuthorized' /\ SuccessIsAuthorized'
    BY DEF FindRecord, RowHasId, RecordIsRow, VisitIsTrue, CapturesAuthorized,
        SuccessIsAuthorized
  <1> QED
    BY <1>1, <1>2, <1>3, <1>4

\* Opening an order at the gateway leaves the payments of all orders alone.
LEMMA CreateOrderKeeps ==
  ASSUME PaymentInv, NEW a \in Attempts, CreateOrder(a)
  PROVE  PaymentInv'
  <1> USE DEF PaymentInv
  <1> PICK id \in GatewayIds :
        /\ gateway' = [gateway EXCEPT ![id].opened = TRUE]
        /\ creating' = [creating EXCEPT ![a] = [pc |-> "insert", key |-> creating[a].key, id |-> id]]
    BY DEF CreateOrder, Proceed
  <1>1. creating[a] \in [pc : {"order"}, key : Keys]
    BY CallShapes DEF CreateOrder
  <1>2. [pc |-> "insert", key |-> creating[a].key, id |-> id]
          \in [pc : {"insert", "record"}, key : Keys, id : GatewayIds]
    BY <1>1
  <1>3. [gateway[id] EXCEPT !.opened = TRUE] \in [opened : BOOLEAN, events : SUBSET PaymentEvents]
    <2>1. gateway[id] \in [opened : BOOLEAN, events : SUBSET PaymentEvents]
      BY DEF PaymentTypeOK
    <2>2. \A g \in [opened : BOOLEAN, events : SUBSET PaymentEvents] :
            [g EXCEPT !.opened = TRUE] \in [opened : BOOLEAN, events : SUBSET PaymentEvents]
      OBVIOUS
    <2> QED
      BY <2>1, <2>2
  <1>4. PaymentTypeOK'
    BY <1>2, <1>3 DEF CreateOrder, PaymentTypeOK
  <1>5. \A g \in GatewayIds : gateway'[g].events = gateway[g].events
    BY DEF PaymentTypeOK
  <1>6. SaverInserted'
    BY DEF CreateOrder, SaverInserted, PaymentTypeOK
  <1>7. VisitIsTrue'
    BY <1>5, VisitedIds DEF CreateOrder, VisitIsTrue
  <1>8. SuccessIsAuthorized'
    BY <1>5 DEF CreateOrder, SuccessIsAuthorized, PaymentTypeOK, OrderRow
  <1>9. RowHasId' /\ RecordIsRow' /\ OneAnswer' /\ CapturesAuthorized'
    BY <1>5 DEF CreateOrder, RowHasId, RecordIsRow, OneAnswer, CapturesAuthorized
  <1> QED
    BY <1>4, <1>6, <1>7, <1>8, <1>9

\* A row is inserted once, before anything is saved or answered for its key.
LEMMA InsertOrderKeeps ==
  ASSUME PaymentInv, NEW a \in Attempts, InsertOrder(a)
  PROVE  PaymentInv'
  <1> USE DEF PaymentInv
  <1> DEFINE k == creating[a].key
             id == creating[a].id
  <1>1. k \in Keys /\ id \in GatewayIds /\ id # NoId
    BY CallShapes, NoIdAssumption DEF InsertOrder
  <1> HIDE DEF k, id
  <1>2. CASE orders[k].status # "ABSENT"
    <2>1. creating' = [creating EXCEPT ![a] = NotCreating] /\ UNCHANGED orders
      BY <1>2 DEF InsertOrder, Proceed, k
    <2>2. PaymentTypeOK'
      BY <2>1 DEF InsertOrder, PaymentTypeOK
    <2>3. SaverInserted'
      BY <2>1 DEF SaverInserted, PaymentTypeOK, NotCreating
    <2> QED
      BY <2>1, <2>2, <2>3
      DEF InsertOrder, RowHasId, RecordIsRow, OneAnswer, VisitIsTrue, CapturesAuthorized,
        SuccessIsAuthorized
  <1>3. CASE orders[k].status = "ABSENT"
    <2>1. /\ orders' = [orders EXCEPT ![k] = [status |-> "CREATED", id |-> id]]
          /\ creating' = [creating EXCEPT ![a] = [pc |-> "record", key |-> k, id |-> id]]
          /\ UNCHANGED <<records, answers, gateway, visits, sent>>
      BY <1>3 DEF InsertOrder, Proceed, k, id
    <2>2. orders[k].id = NoId /\ records[k] = NoId /\ answers[k] = {}
      BY <1>1, <1>3 DEF RowHasId, RecordIsRow, OneAnswer
    <2>3. /\ orders'[k].status = "CREATED" /\ orders'[k].id = id
          /\ \A j \in Keys : j # k => orders'[j] = orders[j]
      BY <1>1, <2>1 DEF PaymentTypeOK
    <2>4. PaymentTypeOK'
      <3>1. /\ [status |-> "CREATED", id |-> id] \in OrderRow
            /\ [pc |-> "record", key |-> k, id |-> id]
                 \in [pc : {"insert", "record"}, key : Keys, id : GatewayIds]
        BY <1>1 DEF OrderRow
      <3>2. orders' \in [Keys -> OrderRow]
        BY <1>1, <2>1, <3>1 DEF PaymentTypeOK
      <3>3. creating' \in [Attempts -> {NotCreating}
                             \cup [pc : {"order"}, key : Keys]
                             \cup [pc : {"insert", "record"}, key : Keys, id : GatewayIds]]
        BY <1>1, <2>1, <3>1 DEF PaymentTypeOK
      <3> QED
        BY <2>1, <3>2, <3>3 DEF InsertOrder, PaymentTypeOK
    <2>5. RowHasId' /\ RecordIsRow' /\ OneAnswer'
      BY <1>1, <2>1, <2>2, <2>3 DEF RowHasId, RecordIsRow, OneAnswer
    <2>6. SaverInserted'
      <3> SUFFICES ASSUME NEW c \in Attempts, creating'[c].pc = "record"
                   PROVE  /\ orders'[creating'[c].key].id = creating'[c].id
                          /\ orders'[creating'[c].key].status # "ABSENT"
        BY DEF SaverInserted
      <3>1. CASE c = a
        BY <1>1, <2>1, <2>3, <3>1 DEF PaymentTypeOK
      <3>2. CASE c # a
        <4>1. creating'[c] = creating[c] /\ creating[c].key \in Keys
          BY <2>1, <3>2, CallShapes DEF PaymentTypeOK
        <4> QED
          BY <1>3, <2>3, <4>1 DEF SaverInserted
      <3> QED
        BY <3>1, <3>2
    <2>7. VisitIsTrue'
      <3> SUFFICES ASSUME NEW v \in Visits, visits[v] # NotVisiting
                   PROVE  orders'[visits[v].key] = orders[visits[v].key]
        BY <2>1 DEF VisitIsTrue
      <3> QED
        BY <2>2, <2>3, CallShapes DEF VisitIsTrue
    <2>8. SuccessIsAuthorized' /\ CapturesAuthorized'
      BY <2>1, <2>2, <2>3 DEF SuccessIsAuthorized, CapturesAuthorized
    <2> QED
      BY <2>4, <2>5, <2>6, <2>7, <2>8
  <1> QED
    BY <1>2, <1>3

LEMMA SaveRecordKeeps ==
  ASSUME PaymentInv, NEW a \in Attempts, SaveRecord(a)
  PROVE  PaymentInv'
  <1> USE DEF PaymentInv
  <1>1. creating[a] \in [pc : {"insert", "record"}, key : Keys, id : GatewayIds]
    BY CallShapes DEF SaveRecord
  <1>2. PaymentTypeOK'
    BY <1>1 DEF SaveRecord, PaymentTypeOK, Proceed, Answer
  <1>3. orders[creating[a].key].id = creating[a].id /\ creating[a].id # NoId
    BY <1>1, NoIdAssumption DEF SaveRecord, SaverInserted
  <1>4. RecordIsRow'
    BY <1>1, <1>3 DEF SaveRecord, RecordIsRow, PaymentTypeOK
  <1>5. OneAnswer'
    BY <1>1, <1>3 DEF SaveRecord, OneAnswer, PaymentTypeOK, Answer
  <1>6. SaverInserted'
    BY DEF SaveRecord, SaverInserted, PaymentTypeOK, Proceed, NotCreating
  <1>7. RowHasId' /\ VisitIsTrue' /\ CapturesAuthorized' /\ SuccessIsAuthorized'
    BY DEF SaveRecord, RowHasId, VisitIsTrue, CapturesAuthorized,
        SuccessIsAuthorized
  <1> QED
    BY <1>2, <1>4, <1>5, <1>6, <1>7

LEMMA CreateStopsKeeps ==
  ASSUME PaymentInv, NEW a \in Attempts, CreateStops(a)
  PROVE  PaymentInv'
  <1> USE DEF PaymentInv
  <1>1. PaymentTypeOK'
    BY DEF CreateStops, PaymentTypeOK, Proceed
  <1>2. SaverInserted'
    BY DEF CreateStops, SaverInserted, PaymentTypeOK, Proceed, NotCreating
  <1> QED
    BY <1>1, <1>2 DEF CreateStops, RowHasId, RecordIsRow, OneAnswer, VisitIsTrue, CapturesAuthorized,
        SuccessIsAuthorized

-----------------------------------------------------------------------------
(* Payments, verifications and webhooks *)

\* The customer and the gateway add to the events of an order and take none
\* away; what they capture is authorized.
LEMMA EventsGrow ==
  ASSUME PaymentInv, NEW id \in GatewayIds, NEW event \in PaymentEvents,
         gateway' = [gateway EXCEPT ![id].events = gateway[id].events \cup {event}],
         event = "captured" => "authorized" \in gateway[id].events,
         UNCHANGED <<orders, records, answers, creating, visits, sent, lost>>
  PROVE  PaymentInv'
  <1> USE DEF PaymentInv
  <1>1. [gateway[id] EXCEPT !.events = gateway[id].events \cup {event}]
          \in [opened : BOOLEAN, events : SUBSET PaymentEvents]
    BY DEF PaymentTypeOK
  <1>2. PaymentTypeOK'
    BY <1>1 DEF PaymentTypeOK
  <1>3. \A g \in GatewayIds :
          gateway'[g].events = IF g = id THEN gateway[g].events \cup {event} ELSE gateway[g].events
    <2> SUFFICES ASSUME NEW g \in GatewayIds
                 PROVE  gateway'[g].events
                          = IF g = id THEN gateway[g].events \cup {event} ELSE gateway[g].events
      OBVIOUS
    <2>1. gateway \in [GatewayIds -> [opened : BOOLEAN, events : SUBSET PaymentEvents]]
      BY DEF PaymentTypeOK
    <2>2. CASE g = id
      <3>1. gateway'[g] = [gateway[g] EXCEPT !.events = gateway[g].events \cup {event}]
        BY <2>1, <2>2
      <3> QED
        BY <2>1, <2>2, <3>1
    <2>3. CASE g # id
      BY <2>1, <2>3
    <2> QED
      BY <2>2, <2>3
  <1>4. VisitIsTrue'
    BY <1>3, VisitedIds DEF VisitIsTrue
  <1>5. SuccessIsAuthorized'
    BY <1>3 DEF SuccessIsAuthorized, PaymentTypeOK, OrderRow
  <1>6. CapturesAuthorized'
    BY <1>3 DEF CapturesAuthorized
  <1> QED
    BY <1>2, <1>4, <1>5, <1>6 DEF RowHasId, RecordIsRow, SaverInserted, OneAnswer

LEMMA PayKeeps ==
  ASSUME PaymentInv, NEW k \in Keys, NEW id \in GatewayIds, NEW event \in PaymentEvents,
         Pay(k, id, event)
  PROVE  PaymentInv'
  BY EventsGrow DEF Pay

LEMMA CaptureKeeps ==
  ASSUME PaymentInv, NEW id \in GatewayIds, Capture(id)
  PROVE  PaymentInv'
  BY EventsGrow DEF Capture, PaymentEvents

\* A visit that starts has read a CREATED order and what the gateway says of it.
LEMMA StartVisitKeeps ==
  ASSUME PaymentInv, NEW v \in Visits, NEW k \in Keys, Verify(v, k) \/ Webhook(v, k)
  PROVE  PaymentInv'
  <1> USE DEF PaymentInv
  <1>1. orders[k].status = "CREATED" /\ orders[k].id \in GatewayIds
    BY DEF Verify, Webhook, RowHasId, PaymentTypeOK, OrderRow
  <1>2. PICK cause \in {"forged"} \cup gateway[orders[k].id].events :
          visits' = [visits EXCEPT ![v] = [pc |-> "write", key |-> k, cause |-> cause]]
    BY DEF Verify, Webhook, Verdicts, Events, Visit
  <1>3. cause \in Causes
    BY <1>1, <1>2 DEF PaymentTypeOK, Causes
  <1>4. PaymentTypeOK'
    BY <1>2, <1>3 DEF Verify, Webhook, PaymentTypeOK
  <1>5. OutcomeOf(cause) = "CAPTURED" => "authorized" \in gateway[orders[k].id].events
    BY <1>1, <1>2 DEF OutcomeOf, CapturesAuthorized
  <1>6. VisitIsTrue'
    <2> SUFFICES ASSUME NEW w \in Visits, visits'[w] # NotVisiting
                 PROVE  /\ orders[visits'[w].key].id # NoId
                        /\ OutcomeOf(visits'[w].cause) = "CAPTURED" =>
                             "authorized" \in gateway[orders[visits'[w].key].id].events
      BY DEF Verify, Webhook, VisitIsTrue
    <2>1. CASE w = v
      BY <1>1, <1>2, <1>5, <2>1, NoIdAssumption DEF PaymentTypeOK
    <2>2. CASE w # v
      BY <1>2, <2>2 DEF VisitIsTrue, PaymentTypeOK
    <2> QED
      BY <2>1, <2>2
  <1> QED
    BY <1>4, <1>6
    DEF Verify, Webhook, RowHasId, RecordIsRow, SaverInserted, OneAnswer, CapturesAuthorized,
        SuccessIsAuthorized

LEMMA WriteOutcomeKeeps ==
  ASSUME PaymentInv, NEW v \in Visits, WriteOutcome(v)
  PROVE  PaymentInv'
  <1> USE DEF PaymentInv
  <1> DEFINE k == visits[v].key
  <1>1. visits[v] \in [pc : {"write", "publish"}, key : Keys, cause : Causes]
    BY CallShapes DEF WriteOutcome
  <1>2. /\ orders' = [orders EXCEPT ![k].status = OutcomeOf(visits[v].cause)]
        /\ visits' = [visits EXCEPT ![v] = [visits[v] EXCEPT !.pc = "publish"]]
        /\ lost' = [lost EXCEPT ![k] = lost[k] \cup ({visits[v].cause} \cap Reasons)]
        /\ UNCHANGED <<records, answers, gateway, creating, sent>>
    BY DEF WriteOutcome, Visit
  <1>3. k \in Keys /\ orders[k].id # NoId
        /\ OutcomeOf(visits[v].cause) \in Outcomes /\ OutcomeOf(visits[v].cause) # "ABSENT"
    BY <1>1, CallShapes DEF WriteOutcome, VisitIsTrue, OutcomeOf, Outcomes
  <1>4. [orders[k] EXCEPT !.status = OutcomeOf(visits[v].cause)] \in OrderRow
    BY <1>1, <1>3 DEF PaymentTypeOK, OrderRow
  <1>5. [visits[v] EXCEPT !.pc = "publish"]
          \in [pc : {"write", "publish"}, key : Keys, cause : Causes]
    BY <1>1
  <1>6. PaymentTypeOK'
    BY <1>2, <1>3, <1>4, <1>5 DEF PaymentTypeOK
  <1>7. /\ \A j \in Keys : orders'[j].id = orders[j].id
        /\ \A j \in Keys : j # k => orders'[j].status = orders[j].status
        /\ orders'[k].status = OutcomeOf(visits[v].cause)
    BY <1>2, <1>3 DEF PaymentTypeOK, OrderRow
  <1>8. RowHasId' /\ RecordIsRow' /\ OneAnswer' /\ CapturesAuthorized' /\ SuccessIsAuthorized'
    BY <1>2, <1>3, <1>7 DEF RowHasId, RecordIsRow, OneAnswer, CapturesAuthorized, SuccessIsAuthorized
  <1>9. SaverInserted'
    BY <1>2, <1>3, <1>7, CallShapes DEF SaverInserted
  <1>10. VisitIsTrue'
    <2> SUFFICES ASSUME NEW w \in Visits, visits'[w] # NotVisiting
                 PROVE  /\ orders'[visits'[w].key].id # NoId
                        /\ OutcomeOf(visits'[w].cause) = "CAPTURED" =>
                             "authorized" \in gateway[orders'[visits'[w].key].id].events
      BY <1>2 DEF VisitIsTrue
    <2>1. /\ visits[w] # NotVisiting
          /\ visits'[w].key = visits[w].key /\ visits'[w].cause = visits[w].cause
          /\ visits[w].key \in Keys
      BY <1>1, <1>2, CallShapes DEF WriteOutcome, PaymentTypeOK
    <2> QED
      BY <1>7, <2>1 DEF VisitIsTrue
  <1> QED
    BY <1>6, <1>8, <1>9, <1>10

LEMMA PublishKeeps ==
  ASSUME PaymentInv, NEW v \in Visits, Publish(v)
  PROVE  PaymentInv'
  <1> USE DEF PaymentInv
  <1> DEFINE k == visits[v].key
             o == OutcomeOf(visits[v].cause)
  <1>1. k \in Keys /\ o \in Outcomes /\ visits[v] # NotVisiting
    BY CallShapes DEF Publish, OutcomeOf, Outcomes
  <1>2. /\ sent' \in {sent, [sent EXCEPT ![k][o] = sent[k][o] + 1]}
        /\ lost' \in {lost, [lost EXCEPT ![k] = lost[k] \cup {"unsent"}]}
    BY DEF Publish
  <1>3. visits' = [visits EXCEPT ![v] = NotVisiting]
    BY DEF Publish, Visit
  <1> HIDE DEF k, o
  <1>4. [sent[k] EXCEPT ![o] = sent[k][o] + 1] \in [Outcomes -> Nat]
    BY <1>1 DEF PaymentTypeOK
  <1>5. PaymentTypeOK'
    <2>1. sent' \in [Keys -> [Outcomes -> Nat]]
      BY <1>1, <1>2, <1>4 DEF PaymentTypeOK
    <2>2. visits' \in [Visits -> {NotVisiting}
                        \cup [pc : {"write", "publish"}, key : Keys, cause : Causes]]
      BY <1>3 DEF PaymentTypeOK
    <2>3. lost' \in [Keys -> SUBSET Reasons]
      BY <1>1, <1>2 DEF PaymentTypeOK, Reasons
    <2> QED
      BY <2>1, <2>2, <2>3 DEF Publish, PaymentTypeOK
  <1>6. VisitIsTrue'
    BY <1>3 DEF Publish, VisitIsTrue, PaymentTypeOK
  <1>7. SuccessIsAuthorized'
    <2> SUFFICES ASSUME NEW j \in Keys, sent'[j]["CAPTURED"] > 0
                 PROVE  sent[j]["CAPTURED"] > 0 \/ (j = k /\ o = "CAPTURED")
      BY DEF Publish, SuccessIsAuthorized, VisitIsTrue, k, o, NotVisiting
    <2> QED
      BY <1>1, <1>2 DEF PaymentTypeOK, Outcomes
  <1> QED
    BY <1>5, <1>6, <1>7 DEF Publish, RowHasId, RecordIsRow, SaverInserted, OneAnswer,
       CapturesAuthorized

-----------------------------------------------------------------------------
(* The theorems *)

LEMMA PaymentInitInv == PaymentInit => PaymentInv
  BY DEF PaymentInit, PaymentInv, PaymentTypeOK, OrderRow, Outcomes, Reasons, NotCreating, NotVisiting,
         RowHasId, RecordIsRow, SaverInserted, OneAnswer, VisitIsTrue, CapturesAuthorized,
         SuccessIsAuthorized

LEMMA PaymentNextInv == PaymentInv /\ [PaymentNext]_payVars => PaymentInv'
  <1> SUFFICES ASSUME PaymentInv, [PaymentNext]_payVars
               PROVE  PaymentInv'
    OBVIOUS
  <1>1. ASSUME NEW a \in Attempts, CreateStep(a) \/ CreateStops(a)
        PROVE  PaymentInv'
    BY <1>1, CreateOrderKeeps, InsertOrderKeeps, SaveRecordKeeps, CreateStopsKeeps DEF CreateStep
  <1>2. ASSUME NEW v \in Visits, VisitStep(v)
        PROVE  PaymentInv'
    BY <1>2, WriteOutcomeKeeps, PublishKeeps DEF VisitStep
  <1>3. CASE UNCHANGED payVars
    BY <1>3 DEF payVars, PaymentInv, PaymentTypeOK, RowHasId, RecordIsRow, SaverInserted,
                OneAnswer, VisitIsTrue, CapturesAuthorized,
        SuccessIsAuthorized
  <1> QED
    BY <1>1, <1>2, <1>3, FindRecordKeeps, PayKeeps, CaptureKeeps, StartVisitKeeps DEF PaymentNext

LEMMA PaymentInvariant == PaymentSpec => []PaymentInv
  BY PaymentInitInv, PaymentNextInv, PTL DEF PaymentSpec

\* The rows, the saved responses, the calls in flight and the messages always
\* have the shapes the code gives them.
THEOREM PaymentTypeCorrect == PaymentSpec => []PaymentTypeOK
  <1>1. PaymentInv => PaymentTypeOK
    BY DEF PaymentInv
  <1> QED
    BY <1>1, PaymentInvariant, PTL

\* However many attempts of createPaymentOrder overlap, fail or crash for one
\* key, all that are answered are given the order of the one row.
THEOREM AttemptsGetOneAnswer == PaymentSpec => []OneAnswer
  <1>1. PaymentInv => OneAnswer
    BY DEF PaymentInv
  <1> QED
    BY <1>1, PaymentInvariant, PTL

\* A PAYMENT_SUCCESS is published only for an order with a payment that Razorpay
\* has authorized, although a webhook or verification reads, writes and publishes
\* in separate steps and others write the same order in between.
THEOREM SuccessMeansAuthorized == PaymentSpec => []SuccessIsAuthorized
  <1>1. PaymentInv => SuccessIsAuthorized
    BY DEF PaymentInv
  <1> QED
    BY <1>1, PaymentInvariant, PTL
=============================================================================
