----------------------------- MODULE CatalogProofs -----------------------------
(***************************************************************************)
(* Theorems about Catalog, for every number of retries, cancellations and  *)
(* restarts, and every inventory behind the consumer.                      *)
(***************************************************************************)
EXTENDS Catalog, InventoryProofs

-----------------------------------------------------------------------------
(* What every state of the system satisfies *)

InventoryCancels == <<"inventory", "SCHEDULE_CANCELLED">>
SearchSchedules == <<"search", "SCHEDULE_CREATED">>

\* The records of handled events agree with the schedule row.
ProcessedOK ==
  /\ "SCHEDULE_CREATED" \in processed <=> schedule.status # "ABSENT"
  /\ "SCHEDULE_CANCELLED" \in processed <=> schedule.status = "CANCELLED"

\* How many messages a topic can get.
Room(t) == IF t = "SCHEDULE_CANCELLED" THEN MaxCancels ELSE 1

SentOK ==
  /\ \A t \in Topics : sent[t] <= Room(t) /\ (t \in admin.unsent => sent[t] < Room(t))
  /\ ~admin.route => "ROUTE_CREATED" \notin admin.unsent /\ sent["ROUTE_CREATED"] = 0
  /\ admin.schedule = "NONE" =>
       "SCHEDULE_CREATED" \notin admin.unsent /\ sent["SCHEDULE_CREATED"] = 0

\* A consumer is never ahead of its topics.
PositionOK ==
  \A sub \in Subscriptions : position[sub] <= sent[sub[2]] /\ committed[sub] <= sent[sub[2]]

\* withDLQ never counts an attempt that was no failure, and no handler has failed
\* on a message that is not JSON.
RetryOK ==
  /\ \A m \in MsgKeys : retryMap[m] <= failed[m]
  /\ \A m \in garbled : failed[m] = 0

\* A cancellation is on its way, handled, or lost for a reason.
CancelOK ==
  /\ admin.schedule = "CANCELLED" =>
       \/ "SCHEDULE_CANCELLED" \in admin.unsent
       \/ sent["SCHEDULE_CANCELLED"] >= 1
       \/ "cancellation" \in lost
  /\ position[InventoryCancels] >= 1 \/ committed[InventoryCancels] >= 1 =>
       \/ "SCHEDULE_CANCELLED" \in processed
       \/ "cancellation" \in lost
       \/ \E n \in 1..MaxCancels : <<"SCHEDULE_CANCELLED", n>> \in gaveUp

\* So is the entry of the schedule in the search document.
ListingOK ==
  /\ index.schedules \in {0, 1}
  /\ admin.schedule # "NONE" =>
       \/ "SCHEDULE_CREATED" \in admin.unsent
       \/ sent["SCHEDULE_CREATED"] >= 1
       \/ "listing" \in lost
  /\ (position[SearchSchedules] >= 1 \/ committed[SearchSchedules] >= 1)
       /\ index.schedules = 0 => lost \cap {"listing", "recreated"} # {}

CatalogInv ==
  /\ CatalogTypeOK
  /\ ProcessedOK
  /\ SentOK
  /\ PositionOK
  /\ RetryOK
  /\ CancelOK
  /\ ListingOK

-----------------------------------------------------------------------------
(* Requests and admin-service *)

\* No request changes the status of the schedule or the records of events.
LEMMA RequestsKeepStatus ==
  ASSUME SegmentRequest \/ FullRequest \/ CancelRequest
  PROVE  schedule'.status = schedule.status /\ processed' = processed
  <1>1. CASE SegmentRequest
    BY <1>1 DEF SegmentRequest, LockSegment, UnlockSegment, ConfirmSegment, Recount
  <1>2. CASE FullRequest
    BY <1>2 DEF FullRequest, LockFull, UnlockFull, ConfirmFull, Shift
  <1>3. CASE CancelRequest
    BY <1>3 DEF CancelRequest, CancelSegmentBooking, CancelFullBooking, Recount, Shift
  <1> QED
    BY <1>1, <1>2, <1>3

LEMMA RequestKeeps ==
  ASSUME CatalogInv, Elsewhere, SegmentRequest \/ FullRequest \/ CancelRequest
  PROVE  CatalogInv' /\ schedule'.status = schedule.status
  <1>1. TypeOK'
    BY SegmentTypeOK, FullTypeOK, CancelTypeOK DEF CatalogInv, CatalogTypeOK
  <1>2. schedule'.status = schedule.status /\ processed' = processed
    BY RequestsKeepStatus
  <1>3. /\ admin' = admin /\ sent' = sent /\ poison' = poison
        /\ garbled' = garbled /\ position' = position
        /\ committed' = committed /\ retryMap' = retryMap /\ failed' = failed
        /\ gaveUp' = gaveUp /\ restarts' = restarts /\ index' = index /\ lost' = lost
    BY DEF Elsewhere, adminVars, kafkaVars, searchVars
  <1>4. CatalogTypeOK'
    BY <1>1, <1>3 DEF CatalogInv, CatalogTypeOK
  <1>5. ProcessedOK' /\ SentOK' /\ PositionOK' /\ RetryOK' /\ CancelOK' /\ ListingOK'
    BY <1>2, <1>3
    DEF CatalogInv, ProcessedOK, SentOK, PositionOK, RetryOK, CancelOK, ListingOK
  <1> QED
    BY <1>2, <1>4, <1>5 DEF CatalogInv

AdminRow == [route : BOOLEAN, schedule : {"NONE", "ACTIVE", "CANCELLED"},
             unsent : SUBSET Topics]

LEMMA WroteFields ==
  ASSUME admin \in AdminRow
  PROVE  /\ CreateRoute =>
              /\ admin'.route /\ admin'.schedule = admin.schedule
              /\ admin'.unsent = admin.unsent \cup {"ROUTE_CREATED"}
              /\ ~admin.route
         /\ CreateSchedule =>
              /\ (admin'.route <=> admin.route) /\ admin'.schedule = "ACTIVE"
              /\ admin'.unsent = admin.unsent \cup {"SCHEDULE_CREATED"}
              /\ admin.schedule = "NONE"
         /\ CancelSchedule =>
              /\ (admin'.route <=> admin.route) /\ admin'.schedule = "CANCELLED"
              /\ admin'.unsent = admin.unsent \cup {"SCHEDULE_CANCELLED"}
              /\ "SCHEDULE_CANCELLED" \notin admin.unsent
         /\ CreateRoute \/ CreateSchedule \/ CancelSchedule => admin' \in AdminRow
  <1>1. CASE CreateRoute
    BY <1>1 DEF CreateRoute, CreateSchedule, CancelSchedule, Wrote, AdminRow, Topics
  <1>2. CASE CreateSchedule
    BY <1>2 DEF CreateRoute, CreateSchedule, CancelSchedule, Wrote, AdminRow, Topics
  <1>3. CASE CancelSchedule
    BY <1>3 DEF CreateRoute, CreateSchedule, CancelSchedule, Wrote, AdminRow, Topics
  <1> QED
    BY <1>1, <1>2, <1>3

\* Handlers of admin-service write a row; the message comes after it.
LEMMA WroteKeeps ==
  ASSUME CatalogInv, CreateRoute \/ CreateSchedule \/ CancelSchedule
  PROVE  CatalogInv' /\ invVars' = invVars
  <1> USE DEF CatalogInv
  <1>1. /\ invVars' = invVars
        /\ schedule' = schedule /\ seats' = seats /\ segLocks' = segLocks
        /\ processed' = processed
        /\ sent' = sent /\ poison' = poison /\ garbled' = garbled
        /\ position' = position
        /\ committed' = committed /\ retryMap' = retryMap /\ failed' = failed
        /\ gaveUp' = gaveUp /\ restarts' = restarts /\ index' = index /\ lost' = lost
    BY DEF CreateRoute, CreateSchedule, CancelSchedule, Wrote, invVars, kafkaVars, searchVars
  <1>2. admin \in AdminRow
    BY DEF CatalogTypeOK, AdminRow
  <1>3. CatalogTypeOK'
    <2>1. admin' \in AdminRow
      BY <1>2, WroteFields
    <2> QED
      BY <1>1, <2>1 DEF CatalogTypeOK, TypeOK, AdminRow
  <1>4. ProcessedOK' /\ PositionOK' /\ RetryOK'
    BY <1>1 DEF ProcessedOK, PositionOK, RetryOK
  <1>5. SentOK'
    <2>1. CASE CreateRoute
      <3>1. \A t \in Topics : sent[t] <= Room(t) /\ (t \in admin'.unsent => sent[t] < Room(t))
        BY <1>2, <2>1, WroteFields DEF SentOK, Room
      <3>2. ~admin'.route => "ROUTE_CREATED" \notin admin'.unsent /\ sent["ROUTE_CREATED"] = 0
        BY <1>2, <2>1, WroteFields DEF SentOK
      <3>3. admin'.schedule = "NONE" =>
              "SCHEDULE_CREATED" \notin admin'.unsent /\ sent["SCHEDULE_CREATED"] = 0
        BY <1>2, <2>1, WroteFields DEF SentOK
      <3> QED
        BY <1>1, <3>1, <3>2, <3>3 DEF SentOK, Room
    <2>2. CASE CreateSchedule
      <3>1. \A t \in Topics : sent[t] <= Room(t) /\ (t \in admin'.unsent => sent[t] < Room(t))
        BY <1>2, <2>2, WroteFields DEF SentOK, Room
      <3>2. ~admin'.route => "ROUTE_CREATED" \notin admin'.unsent /\ sent["ROUTE_CREATED"] = 0
        BY <1>2, <2>2, WroteFields DEF SentOK
      <3>3. admin'.schedule = "NONE" =>
              "SCHEDULE_CREATED" \notin admin'.unsent /\ sent["SCHEDULE_CREATED"] = 0
        BY <1>2, <2>2, WroteFields DEF SentOK
      <3> QED
        BY <1>1, <3>1, <3>2, <3>3 DEF SentOK, Room
    <2>3. CASE CancelSchedule
      BY <1>1, <1>2, <2>3, WroteFields DEF SentOK, Room, CancelSchedule
    <2> QED
      BY <2>1, <2>2, <2>3
  <1>6. CancelOK'
    BY <1>1, <1>2, WroteFields DEF CancelOK
  <1>7. ListingOK'
    <2>1. admin'.schedule # "NONE" =>
            \/ "SCHEDULE_CREATED" \in admin'.unsent
            \/ sent["SCHEDULE_CREATED"] >= 1
            \/ "listing" \in lost
      <3>1. admin.unsent \subseteq admin'.unsent
        BY <1>2, WroteFields
      <3>2. CASE CreateSchedule
        BY <1>2, <3>2, WroteFields
      <3>3. CASE CreateRoute
        BY <1>2, <3>1, <3>3, WroteFields DEF ListingOK
      <3>4. CASE CancelSchedule
        BY <1>2, <3>1, <3>4, WroteFields DEF ListingOK, CancelSchedule
      <3> QED
        BY <3>2, <3>3, <3>4
    <2> QED
      BY <1>1, <2>1 DEF ListingOK
  <1> QED
    BY <1>1, <1>3, <1>4, <1>5, <1>6, <1>7

\* The message is sent, or its loss is known.
LEMMA PublishKeeps ==
  ASSUME CatalogInv, NEW t \in Topics, Publish(t) \/ PublishFails(t)
  PROVE  CatalogInv' /\ invVars' = invVars
  <1> USE DEF CatalogInv
  <1>1. /\ invVars' = invVars
        /\ schedule' = schedule /\ seats' = seats /\ segLocks' = segLocks
        /\ processed' = processed
        /\ poison' = poison
        /\ garbled' = garbled /\ position' = position
        /\ committed' = committed /\ retryMap' = retryMap /\ failed' = failed
        /\ gaveUp' = gaveUp /\ restarts' = restarts /\ index' = index
        /\ t \in admin.unsent
    BY DEF Publish, PublishFails, invVars, kafkaVars, searchVars
  <1>2. /\ admin' \in [route : BOOLEAN, schedule : {"NONE", "ACTIVE", "CANCELLED"},
                       unsent : SUBSET Topics]
        /\ (admin'.route <=> admin.route) /\ admin'.schedule = admin.schedule
        /\ admin'.unsent = admin.unsent \ {t}
    BY DEF CatalogTypeOK, Publish, PublishFails
  <1>3. /\ \A x \in Topics : sent[x] \in Nat
        /\ \A x \in Topics : sent'[x] = IF x = t /\ Publish(t) THEN sent[x] + 1 ELSE sent[x]
        /\ sent' = [x \in Topics |-> sent'[x]]
    BY DEF CatalogTypeOK, Publish, PublishFails
  <1>4. /\ lost \subseteq lost' /\ lost' \subseteq {"cancellation", "listing", "recreated"}
        /\ ~Publish(t) => /\ t = "SCHEDULE_CANCELLED" => "cancellation" \in lost'
                          /\ t = "SCHEDULE_CREATED" => "listing" \in lost'
    BY DEF CatalogTypeOK, Publish, PublishFails, searchVars
  <1> HIDE DEF Publish
  <1>5. SentOK'
    <2>1. \A x \in Topics : Room(x)' = Room(x) /\ Room(x) \in Nat
      BY CatalogBoundsAssumption DEF Room
    <2>2. \A x \in Topics : sent'[x] <= Room(x) /\ (x \in admin'.unsent => sent'[x] < Room(x))
      BY <1>1, <1>2, <1>3, <2>1 DEF SentOK
    <2>3. ~admin'.route => "ROUTE_CREATED" \notin admin'.unsent /\ sent'["ROUTE_CREATED"] = 0
      BY <1>1, <1>2, <1>3 DEF SentOK, Topics
    <2>4. admin'.schedule = "NONE" =>
            "SCHEDULE_CREATED" \notin admin'.unsent /\ sent'["SCHEDULE_CREATED"] = 0
      BY <1>1, <1>2, <1>3 DEF SentOK, Topics
    <2> QED
      BY <2>1, <2>2, <2>3, <2>4 DEF SentOK
  <1>6. CatalogTypeOK'
    <2>1. \A x \in Topics : sent'[x] \in 0..(MaxCancels + 1)
      BY <1>3, <1>5, CatalogBoundsAssumption DEF SentOK, Room
    <2>2. sent' \in [Topics -> 0..(MaxCancels + 1)]
      BY <1>3, <2>1
    <2> QED
      BY <1>1, <1>2, <1>4, <2>2 DEF CatalogTypeOK, TypeOK
  <1>7. PositionOK'
    <2>1. \A sub \in Subscriptions :
            sub[2] \in Topics /\ position[sub] \in Nat /\ committed[sub] \in Nat
      BY CatalogBoundsAssumption
      DEF Subscriptions, InventoryTopics, Topics, CatalogTypeOK
    <2> QED
      BY <1>1, <1>3, <2>1 DEF PositionOK
  <1>8. ProcessedOK' /\ RetryOK'
    BY <1>1 DEF ProcessedOK, RetryOK
  <1>9. CancelOK'
    <2>1. admin'.schedule = "CANCELLED" =>
            \/ "SCHEDULE_CANCELLED" \in admin'.unsent
            \/ sent'["SCHEDULE_CANCELLED"] >= 1
            \/ "cancellation" \in lost'
      BY <1>2, <1>3, <1>4 DEF CancelOK, Topics
    <2> QED
      BY <1>1, <1>4, <2>1 DEF CancelOK
  <1>10. ListingOK'
    BY <1>1, <1>2, <1>3, <1>4 DEF ListingOK, Topics
  <1> QED
    BY <1>1, <1>5, <1>6, <1>7, <1>8, <1>9, <1>10

-----------------------------------------------------------------------------
(* The consumer of inventory-service *)

LEMMA Subscribed ==
  /\ \A t \in InventoryTopics : <<"inventory", t>> \in Subscriptions /\ t \in Topics
  /\ InventoryCancels \in Subscriptions /\ SearchSchedules \in Subscriptions
  /\ <<"search", "ROUTE_CREATED">> \in Subscriptions
  /\ \A sub \in Subscriptions : sub[2] \in Topics
  BY DEF Subscriptions, InventoryTopics, Topics, InventoryCancels, SearchSchedules

\* A consumer that has a next message can go past it.
LEMMA AdvanceKeeps ==
  ASSUME CatalogInv, NEW sub \in Subscriptions, HasNext(sub), Advance(sub),
         sent' = sent, committed' = committed
  PROVE  /\ position' \in [Subscriptions -> 0..(MaxCancels + 1)]
         /\ PositionOK'
         /\ position'[sub] = position[sub] + 1
         /\ \A x \in Subscriptions : x # sub => position'[x] = position[x]
  <1>1. /\ position \in [Subscriptions -> 0..(MaxCancels + 1)]
        /\ sent \in [Topics -> 0..(MaxCancels + 1)]
    BY DEF CatalogInv, CatalogTypeOK
  <1>2. /\ position' = [position EXCEPT ![sub] = position[sub] + 1]
        /\ position[sub] < sent[sub[2]]
    BY DEF Advance, HasNext
  <1>3. position[sub] + 1 \in 0..(MaxCancels + 1) /\ position[sub] + 1 <= sent[sub[2]]
    BY <1>1, <1>2, Subscribed, CatalogBoundsAssumption
  <1>4. /\ position' \in [Subscriptions -> 0..(MaxCancels + 1)]
        /\ position'[sub] = position[sub] + 1
        /\ \A x \in Subscriptions : x # sub => position'[x] = position[x]
    BY <1>1, <1>2, <1>3
  <1>5. PositionOK'
    BY <1>3, <1>4 DEF CatalogInv, PositionOK
  <1> QED
    BY <1>4, <1>5

LEMMA NextKeyType ==
  ASSUME CatalogInv, NEW t \in InventoryTopics, HasNext(<<"inventory", t>>)
  PROVE  /\ NextKey(t) \in MsgKeys
         /\ position[<<"inventory", t>>] + 1 \in 1..sent[t]
  <1> DEFINE n == position[<<"inventory", t>>]
  <1>1. n \in 0..(MaxCancels + 1) /\ sent[t] \in 0..(MaxCancels + 1) /\ n < sent[t]
    BY Subscribed DEF CatalogInv, CatalogTypeOK, HasNext
  <1>2. n + 1 \in 1..(MaxCancels + 1) /\ n + 1 \in 1..sent[t]
    BY <1>1, CatalogBoundsAssumption
  <1> QED
    BY <1>2 DEF NextKey, MsgKeys

\* An event is handled once, and a cancelled schedule stays cancelled.
LEMMA HandlerKeeps ==
  ASSUME CatalogInv, NEW t \in InventoryTopics, Handler(t)
  PROVE  /\ TypeOK' /\ ProcessedOK'
         /\ processed \subseteq processed'
         /\ t \in processed' \/ Skips(t)
         /\ schedule.status = "CANCELLED" => schedule'.status = "CANCELLED"
  <1> USE DEF CatalogInv
  <1>1. CASE UNCHANGED invVars /\ (t \in processed \/ Skips(t))
    BY <1>1 DEF invVars, CatalogTypeOK, TypeOK, ProcessedOK
  <1>2. CASE t = "SCHEDULE_CREATED" /\ InitializeInventory
    <2>1. TypeOK'
      BY <1>2, NextTypeOK DEF Next, CatalogTypeOK
    <2> QED
      BY <1>2, <2>1 DEF InitializeInventory, ProcessedOK
  <1>3. CASE t = "SCHEDULE_CANCELLED" /\ CancelScheduleInventory
    <2>1. TypeOK'
      BY <1>3, NextTypeOK DEF Next, CatalogTypeOK
    <2> QED
      BY <1>3, <2>1 DEF CancelScheduleInventory, ProcessedOK
  <1> QED
    BY <1>1, <1>2, <1>3 DEF Handler

\* Emptying the entry of a message that has been handled, or given up.
LEMMA ForgetKeeps ==
  ASSUME CatalogInv, NEW t \in InventoryTopics, NextKey(t) \in MsgKeys, Forget(t),
         NEW n \in 0..DLQ_MAX_RETRIES, failed' = [failed EXCEPT ![NextKey(t)] = n],
         NextKey(t) \in garbled => n = 0, garbled' = garbled
  PROVE  /\ retryMap' \in [MsgKeys -> 0..(DLQ_MAX_RETRIES - 1)]
         /\ failed' \in [MsgKeys -> 0..DLQ_MAX_RETRIES]
         /\ RetryOK'
  <1>1. /\ retryMap \in [MsgKeys -> 0..(DLQ_MAX_RETRIES - 1)]
        /\ failed \in [MsgKeys -> 0..DLQ_MAX_RETRIES]
        /\ RetryOK
    BY DEF CatalogInv, CatalogTypeOK
  <1>2. retryMap' = [retryMap EXCEPT ![NextKey(t)] = 0] /\ 0 \in 0..(DLQ_MAX_RETRIES - 1)
    BY RetriesAssumption DEF Forget
  <1>3. /\ retryMap' \in [MsgKeys -> 0..(DLQ_MAX_RETRIES - 1)]
        /\ failed' \in [MsgKeys -> 0..DLQ_MAX_RETRIES]
    BY <1>1, <1>2
  <1>4. \A m \in MsgKeys : retryMap'[m] <= failed'[m]
    BY <1>1, <1>2, RetriesAssumption DEF RetryOK
  <1>5. \A m \in garbled : failed'[m] = 0
    BY <1>1 DEF RetryOK, CatalogInv, CatalogTypeOK
  <1> QED
    BY <1>3, <1>4, <1>5 DEF RetryOK

LEMMA DeliverKeeps ==
  ASSUME CatalogInv, NEW t \in InventoryTopics, Deliver(t)
  PROVE  /\ CatalogInv'
         /\ schedule.status = "CANCELLED" => schedule'.status = "CANCELLED"
         /\ gaveUp' = gaveUp
  <1> DEFINE sub == <<"inventory", t>>
  <1>1. /\ HasNext(sub) /\ Handler(t) /\ Forget(t) /\ Advance(sub)
        /\ failed' = [failed EXCEPT ![NextKey(t)] = 0]
        /\ lost' = IF Skips(t) THEN lost \cup {"cancellation"} ELSE lost
        /\ admin' = admin /\ sent' = sent /\ poison' = poison
        /\ garbled' = garbled /\ committed' = committed
        /\ gaveUp' = gaveUp /\ restarts' = restarts /\ index' = index
    BY DEF Deliver, adminVars
  <1>2. /\ TypeOK' /\ ProcessedOK'
        /\ processed \subseteq processed'
        /\ t \in processed' \/ Skips(t)
        /\ schedule.status = "CANCELLED" => schedule'.status = "CANCELLED"
    BY <1>1, HandlerKeeps
  <1>3. /\ position' \in [Subscriptions -> 0..(MaxCancels + 1)]
        /\ PositionOK'
        /\ \A x \in Subscriptions : x # sub => position'[x] = position[x]
    BY <1>1, Subscribed, AdvanceKeeps
  <1>4. /\ retryMap' \in [MsgKeys -> 0..(DLQ_MAX_RETRIES - 1)]
        /\ failed' \in [MsgKeys -> 0..DLQ_MAX_RETRIES]
        /\ RetryOK'
    <2>1. 0 \in 0..DLQ_MAX_RETRIES /\ NextKey(t) \in MsgKeys
      BY <1>1, NextKeyType, RetriesAssumption
    <2> QED
      BY <1>1, <2>1, ForgetKeeps
  <1>5. CatalogTypeOK'
    BY <1>1, <1>2, <1>3, <1>4 DEF CatalogInv, CatalogTypeOK
  <1>6. SentOK'
    BY <1>1 DEF CatalogInv, SentOK, Room
  <1>7. CancelOK'
    <2>1. CASE t = "SCHEDULE_CANCELLED"
      BY <1>1, <1>2, <2>1 DEF CatalogInv, CancelOK
    <2>2. CASE t # "SCHEDULE_CANCELLED"
      <3>1. position'[InventoryCancels] = position[InventoryCancels]
        BY <1>3, <2>2, Subscribed DEF InventoryCancels
      <3> QED
        BY <1>1, <1>2, <3>1 DEF CatalogInv, CancelOK
    <2> QED
      BY <2>1, <2>2
  <1>8. ListingOK'
    <2>1. position'[SearchSchedules] = position[SearchSchedules]
      BY <1>3, Subscribed DEF SearchSchedules
    <2> QED
      BY <1>1, <2>1 DEF CatalogInv, ListingOK
  <1> QED
    BY <1>1, <1>2, <1>3, <1>4, <1>5, <1>6, <1>7, <1>8 DEF CatalogInv

\* What both kinds of failure leave alone, and what they count.
LEMMA FailureFields ==
  ASSUME CatalogInv, NEW t \in InventoryTopics, Failure(t)
  PROVE  /\ invVars' = invVars
         /\ schedule' = schedule /\ seats' = seats /\ segLocks' = segLocks
         /\ processed' = processed
         /\ admin' = admin /\ sent' = sent /\ poison' = poison
        /\ garbled' = garbled /\ committed' = committed
         /\ restarts' = restarts /\ index' = index /\ lost' = lost
         /\ HasNext(<<"inventory", t>>) /\ NextKey(t) \in MsgKeys \ garbled
         /\ \E n \in 1..DLQ_MAX_RETRIES :
              /\ failed' = [failed EXCEPT ![NextKey(t)] = n]
              /\ n = DLQ_MAX_RETRIES \/ n >= retryMap[NextKey(t)] + 1
  <1> DEFINE k == NextKey(t)
             n == IF failed[k] < DLQ_MAX_RETRIES THEN failed[k] + 1 ELSE failed[k]
  <1>1. HasNext(<<"inventory", t>>) /\ k \in MsgKeys \ garbled
    BY NextKeyType DEF Failure
  <1>2. failed' = [failed EXCEPT ![k] = n]
    BY DEF Failure
  <1>3. /\ failed[k] \in 0..DLQ_MAX_RETRIES /\ retryMap[k] \in 0..(DLQ_MAX_RETRIES - 1)
        /\ retryMap[k] <= failed[k]
    BY <1>1 DEF CatalogInv, CatalogTypeOK, RetryOK
  <1> HIDE DEF k
  <1>4. n \in 1..DLQ_MAX_RETRIES /\ (n = DLQ_MAX_RETRIES \/ n >= retryMap[k] + 1)
    BY <1>3, RetriesAssumption
  <1> HIDE DEF n
  <1> QED
    BY <1>1, <1>2, <1>4 DEF Failure, invVars, adminVars, searchVars, k

LEMMA RetryKeeps ==
  ASSUME CatalogInv, NEW t \in InventoryTopics, Retry(t)
  PROVE  CatalogInv' /\ invVars' = invVars /\ gaveUp' = gaveUp
  <1>1. /\ Failure(t) /\ position' = position /\ gaveUp' = gaveUp
        /\ retryMap[NextKey(t)] + 1 < DLQ_MAX_RETRIES
        /\ retryMap' = [retryMap EXCEPT ![NextKey(t)] = retryMap[NextKey(t)] + 1]
    BY DEF Retry
  <1> PICK n \in 1..DLQ_MAX_RETRIES :
        /\ failed' = [failed EXCEPT ![NextKey(t)] = n]
        /\ n = DLQ_MAX_RETRIES \/ n >= retryMap[NextKey(t)] + 1
    BY <1>1, FailureFields
  <1>2. /\ retryMap \in [MsgKeys -> 0..(DLQ_MAX_RETRIES - 1)]
        /\ failed \in [MsgKeys -> 0..DLQ_MAX_RETRIES]
        /\ RetryOK /\ NextKey(t) \in MsgKeys
    BY <1>1, FailureFields DEF CatalogInv, CatalogTypeOK
  <1>3. retryMap[NextKey(t)] + 1 \in 0..(DLQ_MAX_RETRIES - 1) /\ n \in 0..DLQ_MAX_RETRIES
    BY <1>1, <1>2, RetriesAssumption
  <1>4. /\ retryMap' \in [MsgKeys -> 0..(DLQ_MAX_RETRIES - 1)]
        /\ failed' \in [MsgKeys -> 0..DLQ_MAX_RETRIES]
    BY <1>1, <1>2, <1>3
  <1>5. RetryOK'
    <2>1. \A m \in MsgKeys : retryMap'[m] <= failed'[m]
      BY <1>1, <1>2, <1>3, RetriesAssumption DEF RetryOK
    <2>2. \A m \in garbled' : failed'[m] = 0
      BY <1>1, <1>2, FailureFields DEF RetryOK, CatalogInv, CatalogTypeOK
    <2> QED
      BY <2>1, <2>2 DEF RetryOK
  <1>6. CatalogTypeOK'
    BY <1>1, <1>4, FailureFields DEF CatalogInv, CatalogTypeOK, TypeOK
  <1>7. ProcessedOK' /\ SentOK' /\ PositionOK' /\ CancelOK' /\ ListingOK'
    BY <1>1, FailureFields
    DEF CatalogInv, ProcessedOK, SentOK, Room, PositionOK, CancelOK, ListingOK
  <1> QED
    BY <1>1, <1>5, <1>6, <1>7, FailureFields DEF CatalogInv

\* A message that is given up is one more reason, and no other state is touched.
LEMMA GiveUpKeeps ==
  ASSUME CatalogInv, NEW t \in InventoryTopics, HasNext(<<"inventory", t>>), GiveUp(t),
         NEW n \in 0..DLQ_MAX_RETRIES, failed' = [failed EXCEPT ![NextKey(t)] = n],
         NextKey(t) \in garbled => n = 0,
         UNCHANGED <<invVars, adminVars, poison, garbled, committed, restarts, searchVars>>
  PROVE  CatalogInv'
  <1> DEFINE sub == <<"inventory", t>>
             k == NextKey(t)
  <1>1. /\ Forget(t) /\ Advance(sub) /\ gaveUp' = gaveUp \cup {k}
        /\ k \in MsgKeys
    BY NextKeyType DEF GiveUp
  <1>2. /\ invVars' = invVars
        /\ schedule' = schedule /\ seats' = seats /\ segLocks' = segLocks
        /\ processed' = processed
        /\ admin' = admin /\ sent' = sent /\ poison' = poison
        /\ garbled' = garbled /\ committed' = committed
        /\ restarts' = restarts /\ index' = index /\ lost' = lost
    BY DEF invVars, adminVars, searchVars
  <1>3. /\ retryMap' \in [MsgKeys -> 0..(DLQ_MAX_RETRIES - 1)]
        /\ failed' \in [MsgKeys -> 0..DLQ_MAX_RETRIES]
        /\ RetryOK'
    BY <1>1, <1>2, ForgetKeeps
  <1>4. /\ position' \in [Subscriptions -> 0..(MaxCancels + 1)]
        /\ PositionOK'
        /\ \A x \in Subscriptions : x # sub => position'[x] = position[x]
    BY <1>1, <1>2, Subscribed, AdvanceKeeps
  <1>5. CatalogTypeOK'
    BY <1>1, <1>2, <1>3, <1>4 DEF CatalogInv, CatalogTypeOK, TypeOK
  <1>6. ProcessedOK' /\ SentOK'
    BY <1>2 DEF CatalogInv, ProcessedOK, SentOK, Room
  <1>7. CancelOK'
    <2>1. CASE t = "SCHEDULE_CANCELLED"
      <3> DEFINE p == position[sub] + 1
      <3>1. p \in 1..sent[t] /\ k = <<t, p>>
        BY <1>2, NextKeyType DEF NextKey
      <3>2. sent[t] <= MaxCancels /\ sent[t] \in Nat
        <4>1. sent[t] <= Room(t) /\ sent[t] \in Nat
          <5>1. t \in Topics
            BY Subscribed
          <5> QED
            BY <5>1, CatalogBoundsAssumption DEF CatalogInv, CatalogTypeOK, SentOK
        <4> QED
          BY <2>1, <4>1 DEF Room
      <3> HIDE DEF p, k
      <3>3. p \in 1..MaxCancels /\ <<"SCHEDULE_CANCELLED", p>> \in gaveUp'
        BY <1>1, <2>1, <3>1, <3>2, CatalogBoundsAssumption
      <3> QED
        BY <1>2, <3>3 DEF CatalogInv, CancelOK
    <2>2. CASE t # "SCHEDULE_CANCELLED"
      <3>1. position'[InventoryCancels] = position[InventoryCancels]
        BY <1>4, <2>2, Subscribed DEF InventoryCancels
      <3> QED
        BY <1>1, <1>2, <3>1 DEF CatalogInv, CancelOK
    <2> QED
      BY <2>1, <2>2
  <1>8. ListingOK'
    <2>1. position'[SearchSchedules] = position[SearchSchedules]
      BY <1>4, Subscribed DEF SearchSchedules
    <2> QED
      BY <1>2, <2>1 DEF CatalogInv, ListingOK
  <1> QED
    BY <1>3, <1>4, <1>5, <1>6, <1>7, <1>8 DEF CatalogInv

\* A message that could be parsed has failed as often as withDLQ allows.
LEMMA SendToDLQKeeps ==
  ASSUME CatalogInv, NEW t \in InventoryTopics, SendToDLQ(t)
  PROVE  /\ CatalogInv' /\ invVars' = invVars
         /\ \A m \in gaveUp' \ gaveUp : failed'[m] >= DLQ_MAX_RETRIES
  <1> DEFINE k == NextKey(t)
  <1>1. /\ Failure(t) /\ GiveUp(t) /\ gaveUp' = gaveUp \cup {k}
        /\ retryMap[k] + 1 >= DLQ_MAX_RETRIES
    BY DEF SendToDLQ, GiveUp
  <1> PICK n \in 1..DLQ_MAX_RETRIES :
        /\ failed' = [failed EXCEPT ![k] = n]
        /\ n = DLQ_MAX_RETRIES \/ n >= retryMap[k] + 1
    BY <1>1, FailureFields
  <1>2. /\ k \in MsgKeys \ garbled /\ HasNext(<<"inventory", t>>)
        /\ UNCHANGED <<invVars, adminVars, poison, garbled, committed, restarts, searchVars>>
    BY <1>1, FailureFields DEF adminVars, searchVars
  <1>3. n >= DLQ_MAX_RETRIES /\ n \in 0..DLQ_MAX_RETRIES
    BY <1>1, <1>2, RetriesAssumption DEF CatalogInv, CatalogTypeOK
  <1>4. CatalogInv'
    BY <1>1, <1>2, <1>3, GiveUpKeeps
  <1>5. failed'[k] >= DLQ_MAX_RETRIES
    BY <1>2, <1>3 DEF CatalogInv, CatalogTypeOK
  <1> QED
    BY <1>1, <1>2, <1>4, <1>5

\* The handler has not seen one that could not.
LEMMA SendUnparseableKeeps ==
  ASSUME CatalogInv, NEW t \in InventoryTopics, SendUnparseable(t)
  PROVE  /\ CatalogInv' /\ invVars' = invVars
         /\ gaveUp' \subseteq gaveUp \cup garbled
  <1>1. /\ HasNext(<<"inventory", t>>) /\ GiveUp(t) /\ NextKey(t) \in garbled
        /\ UNCHANGED <<invVars, adminVars, poison, garbled, committed, restarts, searchVars>>
        /\ failed' = failed /\ invVars' = invVars
    BY DEF SendUnparseable
  <1>2. failed \in [MsgKeys -> 0..DLQ_MAX_RETRIES] /\ NextKey(t) \in MsgKeys
        /\ failed[NextKey(t)] = 0
    BY <1>1, NextKeyType DEF CatalogInv, CatalogTypeOK, RetryOK
  <1>3. 0 \in 0..DLQ_MAX_RETRIES /\ failed' = [failed EXCEPT ![NextKey(t)] = 0]
    BY <1>1, <1>2, RetriesAssumption
  <1>4. CatalogInv'
    BY <1>1, <1>3, GiveUpKeeps
  <1> QED
    BY <1>1, <1>4 DEF GiveUp

-----------------------------------------------------------------------------
(* The consumer of search-service, committed positions and restarts *)

LEMMA IndexRouteKeeps ==
  ASSUME CatalogInv, IndexRoute
  PROVE  CatalogInv' /\ invVars' = invVars /\ gaveUp' = gaveUp
  <1> DEFINE sub == <<"search", "ROUTE_CREATED">>
  <1>1. /\ HasNext(sub) /\ Advance(sub) /\ invVars' = invVars
        /\ schedule' = schedule /\ seats' = seats /\ segLocks' = segLocks
        /\ processed' = processed
        /\ admin' = admin /\ sent' = sent /\ poison' = poison
        /\ garbled' = garbled /\ committed' = committed
        /\ retryMap' = retryMap /\ failed' = failed /\ gaveUp' = gaveUp
        /\ restarts' = restarts
    BY DEF IndexRoute, adminVars, invVars
  <1>2. \/ /\ index' = [doc |-> TRUE, schedules |-> 0]
           /\ lost' = IF index.schedules > 0 THEN lost \cup {"listing"} ELSE lost
        \/ index' = index /\ lost' = lost
    BY DEF IndexRoute, searchVars
  <1>3. /\ position' \in [Subscriptions -> 0..(MaxCancels + 1)]
        /\ PositionOK'
        /\ \A x \in Subscriptions : x # sub => position'[x] = position[x]
    BY <1>1, Subscribed, AdvanceKeeps
  <1>4. /\ position'[InventoryCancels] = position[InventoryCancels]
        /\ position'[SearchSchedules] = position[SearchSchedules]
    BY <1>3, Subscribed DEF InventoryCancels, SearchSchedules
  <1>5. /\ index' \in [doc : BOOLEAN, schedules : Nat]
        /\ lost' \subseteq {"cancellation", "listing", "recreated"} /\ lost \subseteq lost'
    <2>1. [doc |-> TRUE, schedules |-> 0] \in [doc : BOOLEAN, schedules : Nat]
      OBVIOUS
    <2>2. index \in [doc : BOOLEAN, schedules : Nat] /\ lost \subseteq {"cancellation", "listing", "recreated"}
      BY DEF CatalogInv, CatalogTypeOK
    <2>3. CASE index' = index /\ lost' = lost
      BY <2>2, <2>3
    <2>4. CASE /\ index' = [doc |-> TRUE, schedules |-> 0]
               /\ lost' = IF index.schedules > 0 THEN lost \cup {"listing"} ELSE lost
      BY <2>1, <2>2, <2>4
    <2> QED
      BY <1>2, <2>3, <2>4
  <1>6. CatalogTypeOK'
    BY <1>1, <1>3, <1>5 DEF CatalogInv, CatalogTypeOK, TypeOK
  <1>7. ProcessedOK' /\ SentOK' /\ RetryOK' /\ CancelOK'
    BY <1>1, <1>4, <1>5 DEF CatalogInv, ProcessedOK, SentOK, Room, RetryOK, CancelOK
  <1>8. ListingOK'
    <2>1. /\ index'.schedules \in {0, 1}
          /\ (position[SearchSchedules] >= 1 \/ committed[SearchSchedules] >= 1)
               /\ index'.schedules = 0 => lost' \cap {"listing", "recreated"} # {}
      BY <1>2 DEF CatalogInv, ListingOK
    <2> QED
      BY <1>1, <1>4, <1>5, <2>1 DEF CatalogInv, ListingOK
  <1> QED
    BY <1>1, <1>3, <1>6, <1>7, <1>8 DEF CatalogInv

LEMMA IndexScheduleKeeps ==
  ASSUME CatalogInv, IndexSchedule
  PROVE  CatalogInv' /\ invVars' = invVars /\ gaveUp' = gaveUp
  <1> DEFINE sub == SearchSchedules
  <1>1. /\ HasNext(sub) /\ Advance(sub) /\ invVars' = invVars
        /\ schedule' = schedule /\ seats' = seats /\ segLocks' = segLocks
        /\ processed' = processed
        /\ admin' = admin /\ sent' = sent /\ poison' = poison
        /\ garbled' = garbled /\ committed' = committed
        /\ retryMap' = retryMap /\ failed' = failed /\ gaveUp' = gaveUp
        /\ restarts' = restarts
    BY DEF IndexSchedule, SearchSchedules, adminVars, invVars
  <1>2. index \in [doc : BOOLEAN, schedules : Nat]
    BY DEF CatalogInv, CatalogTypeOK
  <1>3. \/ /\ index' \in [doc : BOOLEAN, schedules : Nat] /\ index'.schedules = 1
           /\ lost' = lost
        \/ index' = index /\ lost' = lost \cup {"listing"}
    BY <1>2 DEF IndexSchedule, ReplaceEntry
  <1>4. /\ position' \in [Subscriptions -> 0..(MaxCancels + 1)]
        /\ PositionOK'
        /\ \A x \in Subscriptions : x # sub => position'[x] = position[x]
    BY <1>1, Subscribed, AdvanceKeeps
  <1>5. position'[InventoryCancels] = position[InventoryCancels]
    BY <1>4, Subscribed DEF InventoryCancels, SearchSchedules
  <1>6. /\ index' \in [doc : BOOLEAN, schedules : Nat]
        /\ lost' \subseteq {"cancellation", "listing", "recreated"} /\ lost \subseteq lost'
    BY <1>2, <1>3 DEF CatalogInv, CatalogTypeOK
  <1>7. CatalogTypeOK'
    BY <1>1, <1>4, <1>6 DEF CatalogInv, CatalogTypeOK, TypeOK
  <1>8. ProcessedOK' /\ SentOK' /\ RetryOK' /\ CancelOK'
    BY <1>1, <1>5, <1>6 DEF CatalogInv, ProcessedOK, SentOK, Room, RetryOK, CancelOK
  <1>9. ListingOK'
    BY <1>1, <1>3, <1>6 DEF CatalogInv, ListingOK
  <1> QED
    BY <1>1, <1>4, <1>7, <1>8, <1>9 DEF CatalogInv

LEMMA CommitKeeps ==
  ASSUME CatalogInv, NEW sub \in Subscriptions, Commit(sub)
  PROVE  CatalogInv' /\ invVars' = invVars /\ gaveUp' = gaveUp
  <1>1. /\ committed' = [committed EXCEPT ![sub] = position[sub]] /\ invVars' = invVars
        /\ schedule' = schedule /\ seats' = seats /\ segLocks' = segLocks
        /\ processed' = processed
        /\ admin' = admin /\ sent' = sent /\ poison' = poison
        /\ garbled' = garbled /\ position' = position
        /\ retryMap' = retryMap /\ failed' = failed /\ gaveUp' = gaveUp
        /\ restarts' = restarts /\ index' = index /\ lost' = lost
    BY DEF Commit, adminVars, invVars, searchVars
  <1>2. /\ committed' \in [Subscriptions -> 0..(MaxCancels + 1)]
        /\ \A x \in Subscriptions : committed'[x] = committed[x] \/ committed'[x] = position[x]
    BY <1>1 DEF CatalogInv, CatalogTypeOK
  <1>3. CatalogTypeOK'
    BY <1>1, <1>2 DEF CatalogInv, CatalogTypeOK, TypeOK
  <1>4. ProcessedOK' /\ SentOK' /\ RetryOK'
    BY <1>1 DEF CatalogInv, ProcessedOK, SentOK, Room, RetryOK
  <1>5. PositionOK'
    BY <1>1, <1>2 DEF CatalogInv, PositionOK
  <1>6. CancelOK'
    <2>1. \/ committed'[InventoryCancels] = committed[InventoryCancels]
          \/ committed'[InventoryCancels] = position[InventoryCancels]
      BY <1>2, Subscribed
    <2> QED
      BY <1>1, <2>1 DEF CatalogInv, CancelOK
  <1>7. ListingOK'
    <2>1. \/ committed'[SearchSchedules] = committed[SearchSchedules]
          \/ committed'[SearchSchedules] = position[SearchSchedules]
      BY <1>2, Subscribed
    <2> QED
      BY <1>1, <2>1 DEF CatalogInv, ListingOK
  <1> QED
    BY <1>1, <1>3, <1>4, <1>5, <1>6, <1>7 DEF CatalogInv

\* A restart goes back to what was committed, which was handled once.
LEMMA RestartKeeps ==
  ASSUME CatalogInv, NEW group, Restart(group)
  PROVE  CatalogInv' /\ invVars' = invVars /\ gaveUp' = gaveUp
  <1>1. /\ invVars' = invVars
        /\ schedule' = schedule /\ seats' = seats /\ segLocks' = segLocks
        /\ processed' = processed
        /\ admin' = admin /\ sent' = sent /\ poison' = poison
        /\ garbled' = garbled /\ committed' = committed
        /\ failed' = failed /\ gaveUp' = gaveUp
        /\ restarts' = restarts + 1 /\ restarts < MaxRestarts
        /\ position' = [sub \in Subscriptions |->
                          IF sub[1] = group THEN committed[sub] ELSE position[sub]]
        /\ retryMap' = retryMap \/ retryMap' = [m \in MsgKeys |-> 0]
    BY DEF Restart, adminVars, invVars
  <1>0. \/ index' = index /\ lost' = lost
        \/ /\ index' = [doc |-> FALSE, schedules |-> 0]
           /\ lost' = IF index.schedules > 0 THEN lost \cup {"recreated"} ELSE lost
    BY DEF Restart, searchVars
  <1>2. /\ position' \in [Subscriptions -> 0..(MaxCancels + 1)]
        /\ \A x \in Subscriptions : position'[x] = committed[x] \/ position'[x] = position[x]
    BY <1>1 DEF CatalogInv, CatalogTypeOK
  <1>3. restarts' \in 0..MaxRestarts
    BY <1>1, CatalogBoundsAssumption DEF CatalogInv, CatalogTypeOK
  <1>4. retryMap' \in [MsgKeys -> 0..(DLQ_MAX_RETRIES - 1)] /\ RetryOK'
    <2>1. 0 \in 0..(DLQ_MAX_RETRIES - 1) /\ \A m \in MsgKeys : 0 <= failed[m]
      BY RetriesAssumption DEF CatalogInv, CatalogTypeOK
    <2> QED
      BY <1>1, <2>1 DEF CatalogInv, CatalogTypeOK, RetryOK
  <1>5. CatalogTypeOK'
    <2>0. [doc |-> FALSE, schedules |-> 0] \in [doc : BOOLEAN, schedules : Nat]
      OBVIOUS
    <2>1. index' \in [doc : BOOLEAN, schedules : Nat]
      BY <1>0, <2>0 DEF CatalogInv, CatalogTypeOK
    <2>3. /\ lost' \subseteq {"cancellation", "listing", "recreated"}
          /\ lost \subseteq lost'
      BY <1>0 DEF CatalogInv, CatalogTypeOK
    <2> QED
      BY <1>1, <1>2, <1>3, <1>4, <2>1, <2>3 DEF CatalogInv, CatalogTypeOK, TypeOK
  <1>6. ProcessedOK' /\ SentOK'
    BY <1>1 DEF CatalogInv, ProcessedOK, SentOK, Room
  <1>7. PositionOK'
    BY <1>1, <1>2 DEF CatalogInv, PositionOK
  <1>8. CancelOK'
    <2>1. \/ position'[InventoryCancels] = committed[InventoryCancels]
          \/ position'[InventoryCancels] = position[InventoryCancels]
      BY <1>2, Subscribed
    <2>2. lost \subseteq lost'
      BY <1>0
    <2> QED
      BY <1>1, <2>1, <2>2 DEF CatalogInv, CancelOK
  <1>9. ListingOK'
    <2>1. \/ position'[SearchSchedules] = committed[SearchSchedules]
          \/ position'[SearchSchedules] = position[SearchSchedules]
      BY <1>2, Subscribed
    <2>2. CASE index' = index /\ lost' = lost
      BY <1>1, <2>1, <2>2 DEF CatalogInv, ListingOK
    <2>3. CASE /\ index' = [doc |-> FALSE, schedules |-> 0]
               /\ lost' = IF index.schedules > 0 THEN lost \cup {"recreated"} ELSE lost
      <3>1. index.schedules \in {0, 1} /\ lost \subseteq lost' /\ index'.schedules = 0
        BY <2>3 DEF CatalogInv, ListingOK
      <3>2. index.schedules = 1 => "recreated" \in lost'
        BY <2>3
      <3> QED
        BY <1>1, <2>1, <3>1, <3>2 DEF CatalogInv, ListingOK
    <2> QED
      BY <1>0, <2>2, <2>3
  <1> QED
    BY <1>1, <1>4, <1>5, <1>6, <1>7, <1>8, <1>9 DEF CatalogInv

-----------------------------------------------------------------------------
(* The invariant, and what follows from it *)

LEMMA CatalogInvInit == CatalogInit => CatalogInv
  <1> SUFFICES ASSUME CatalogInit PROVE CatalogInv
    OBVIOUS
  <1>1. TypeOK
    BY InitTypeOK DEF CatalogInit
  <1>2. CatalogTypeOK
    BY <1>1, RetriesAssumption, CatalogBoundsAssumption DEF CatalogInit, CatalogTypeOK
  <1>3. ProcessedOK
    BY DEF CatalogInit, Init, ProcessedOK
  <1>4. SentOK
    BY CatalogBoundsAssumption DEF CatalogInit, SentOK, Room, Topics
  <1>5. PositionOK
    BY Subscribed DEF CatalogInit, PositionOK
  <1>6. RetryOK /\ CancelOK /\ ListingOK
    BY Subscribed DEF CatalogInit, RetryOK, CancelOK, ListingOK
  <1> QED
    BY <1>2, <1>3, <1>4, <1>5, <1>6 DEF CatalogInv

\* One step, with what it does to the schedule's status and to the dead letters.
LEMMA CatalogStep ==
  ASSUME CatalogInv, [CatalogNext]_catVars
  PROVE  /\ CatalogInv'
         /\ schedule.status = "CANCELLED" => schedule'.status = "CANCELLED"
         /\ \A m \in gaveUp' \ (gaveUp \cup garbled) : failed'[m] >= DLQ_MAX_RETRIES
         /\ \A m \in garbled : failed'[m] = 0
  <1>0. garbled' = garbled
    BY DEF CatalogNext, CreateRoute, CreateSchedule, CancelSchedule, Wrote, Publish,
           PublishFails, Consume, Deliver, Retry, SendToDLQ, SendUnparseable, Failure,
           IndexRoute, IndexSchedule, Commit, Restart, Elsewhere, kafkaVars, catVars
  <1>1. ASSUME CatalogInv', invVars' = invVars, gaveUp' = gaveUp
        PROVE  /\ CatalogInv'
               /\ schedule.status = "CANCELLED" => schedule'.status = "CANCELLED"
               /\ \A m \in gaveUp' \ (gaveUp \cup garbled) : failed'[m] >= DLQ_MAX_RETRIES
               /\ \A m \in garbled : failed'[m] = 0
    BY <1>0, <1>1 DEF invVars, CatalogInv, RetryOK
  <1>2. CASE CreateRoute \/ CreateSchedule \/ CancelSchedule
    BY <1>1, <1>2, WroteKeeps
    DEF CreateRoute, CreateSchedule, CancelSchedule, Wrote, kafkaVars
  <1>3. ASSUME NEW t \in Topics, Publish(t) \/ PublishFails(t)
        PROVE  CatalogInv' /\ invVars' = invVars /\ gaveUp' = gaveUp
    BY <1>3, PublishKeeps DEF Publish, PublishFails, kafkaVars
  <1>4. ASSUME NEW t \in InventoryTopics, Consume(t)
        PROVE  /\ CatalogInv'
               /\ schedule.status = "CANCELLED" => schedule'.status = "CANCELLED"
               /\ \A m \in gaveUp' \ (gaveUp \cup garbled) : failed'[m] >= DLQ_MAX_RETRIES
    BY <1>4, DeliverKeeps, RetryKeeps, SendToDLQKeeps, SendUnparseableKeeps DEF Consume, invVars
  <1>5. CASE IndexRoute \/ IndexSchedule
    BY <1>1, <1>5, IndexRouteKeeps, IndexScheduleKeeps
  <1>6. CASE \/ \E sub \in Subscriptions : Commit(sub)
             \/ \E group \in {"inventory", "search"} : Restart(group)
    BY <1>1, <1>6, CommitKeeps, RestartKeeps
  <1>7. CASE Elsewhere /\ (SegmentRequest \/ FullRequest \/ CancelRequest)
    <2>1. gaveUp' = gaveUp
      BY <1>7 DEF Elsewhere, kafkaVars
    <2>2. CatalogInv' /\ (schedule.status = "CANCELLED" => schedule'.status = "CANCELLED")
      BY <1>7, RequestKeeps
    <2> QED
      BY <1>0, <2>1, <2>2 DEF CatalogInv, RetryOK
  <1>8. CASE UNCHANGED catVars
    <2>1. /\ invVars' = invVars
          /\ schedule' = schedule /\ seats' = seats /\ segLocks' = segLocks
          /\ processed' = processed /\ admin' = admin /\ sent' = sent
          /\ poison' = poison /\ garbled' = garbled
          /\ position' = position /\ committed' = committed /\ retryMap' = retryMap
          /\ failed' = failed /\ gaveUp' = gaveUp /\ restarts' = restarts
          /\ index' = index /\ lost' = lost
      BY <1>8 DEF catVars, invVars, adminVars, kafkaVars, searchVars
    <2>2. CatalogTypeOK' /\ ProcessedOK' /\ SentOK' /\ PositionOK'
      BY <2>1
      DEF CatalogInv, CatalogTypeOK, TypeOK, ProcessedOK, SentOK, Room, PositionOK
    <2>3. RetryOK' /\ CancelOK' /\ ListingOK'
      BY <2>1 DEF CatalogInv, RetryOK, CancelOK, ListingOK
    <2> QED
      BY <1>1, <2>1, <2>2, <2>3 DEF CatalogInv
  <1> QED
    <2>1. /\ CatalogInv'
          /\ schedule.status = "CANCELLED" => schedule'.status = "CANCELLED"
          /\ \A m \in gaveUp' \ (gaveUp \cup garbled) : failed'[m] >= DLQ_MAX_RETRIES
      BY <1>1, <1>2, <1>3, <1>4, <1>5, <1>6, <1>7, <1>8 DEF CatalogNext
    <2> QED
      BY <1>0, <2>1 DEF CatalogInv, RetryOK

LEMMA CatalogInvAlways == CatalogSpec => []CatalogInv
  <1>1. CatalogInv /\ [CatalogNext]_catVars => CatalogInv'
    BY CatalogStep
  <1> QED
    BY <1>1, CatalogInvInit, PTL DEF CatalogSpec

\* Rows, topics, positions, attempts and the search document are always what
\* the services can have made them.
THEOREM CatalogTypeCorrect == CatalogSpec => []CatalogTypeOK
  <1>1. CatalogInv => CatalogTypeOK
    BY DEF CatalogInv
  <1> QED
    BY <1>1, CatalogInvAlways, PTL

\* However often, late or out of order the events come, a cancelled schedule
\* never becomes active again: idempotency_records is enough.
THEOREM CancelledNeverRevived == CatalogSpec => NeverRevived
  <1>1. CatalogInv /\ [CatalogNext]_catVars =>
          [schedule.status = "CANCELLED" => schedule'.status = "CANCELLED"]_catVars
    BY CatalogStep
  <1> QED
    BY <1>1, CatalogInvAlways, PTL DEF CatalogSpec, NeverRevived

\* withDLQ gives up a message that can be parsed only after its handler has
\* failed DLQ_MAX_RETRIES times in a row, across successes, redeliveries and
\* restarts that empty its map; no handler ever sees one that cannot.
THEOREM DeadLettersFailed == CatalogSpec => GivesUpOnlyAfterRetries
  <1>1. CatalogInv /\ [CatalogNext]_catVars =>
          [/\ \A m \in gaveUp' \ (gaveUp \cup garbled) : failed'[m] >= DLQ_MAX_RETRIES
           /\ \A m \in garbled : failed'[m] = 0]_catVars
    BY CatalogStep
  <1> QED
    BY <1>1, CatalogInvAlways, PTL DEF CatalogSpec, GivesUpOnlyAfterRetries

\* A cancelled schedule stays on sale only when its cancellation was lost in one
\* of the three ways the code has: not sent, too early, or given up.
THEOREM CancellationsArrive == CatalogSpec => []SoldThoughCancelledOnlyIfLost
  <1>1. CatalogInv => SoldThoughCancelledOnlyIfLost
    <2> SUFFICES ASSUME CatalogInv, admin.schedule = "CANCELLED",
                        "SCHEDULE_CANCELLED" \notin admin.unsent, Consumed("inventory"),
                        schedule.status = "ACTIVE", "cancellation" \notin lost
                 PROVE  \E n \in 1..MaxCancels : <<"SCHEDULE_CANCELLED", n>> \in gaveUp
      BY DEF SoldThoughCancelledOnlyIfLost
    <2>1. sent["SCHEDULE_CANCELLED"] >= 1
      BY DEF CatalogInv, CancelOK
    <2>2. position[InventoryCancels] = sent["SCHEDULE_CANCELLED"]
      BY Subscribed DEF Consumed, InventoryCancels
    <2>3. "SCHEDULE_CANCELLED" \notin processed
      BY DEF CatalogInv, ProcessedOK
    <2> QED
      BY <2>1, <2>2, <2>3 DEF CatalogInv, CancelOK
  <1> QED
    BY <1>1, CatalogInvAlways, PTL

\* The search document lists the schedule exactly once unless its entry was
\* lost in a known way, the deletion of the index at a start among them, however
\* often its messages came.
THEOREM SchedulesAreListed == CatalogSpec => []ListedUnlessLost
  <1>1. CatalogInv => ListedUnlessLost
    <2> SUFFICES ASSUME CatalogInv, admin.schedule # "NONE",
                        "SCHEDULE_CREATED" \notin admin.unsent, Consumed("search")
                 PROVE  \/ index.schedules = 1
                        \/ index.schedules = 0 /\ lost \cap {"listing", "recreated"} # {}
      BY DEF ListedUnlessLost
    <2>1. position[SearchSchedules] = sent["SCHEDULE_CREATED"]
      BY Subscribed DEF Consumed, SearchSchedules
    <2> QED
      BY <2>1 DEF CatalogInv, ListingOK
  <1> QED
    BY <1>1, CatalogInvAlways, PTL
=============================================================================
