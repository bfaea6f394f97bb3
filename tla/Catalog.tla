------------------------------- MODULE Catalog -------------------------------
(***************************************************************************)
(* How a schedule gets from admin-service to inventory-service and         *)
(* search-service: the admin handlers, the Kafka topics between them, the  *)
(* two consumers and the wrapper withDLQ of inventory-service.             *)
(*                                                                         *)
(* One train with one schedule.  The messages of a topic are then alike    *)
(* and a topic is the number of messages in it.  A consumer handles the    *)
(* message after its position and commits positions later: after a restart *)
(* it goes on from the committed one, so messages come again.  The topics  *)
(* are consumed in no particular order between them.                       *)
(*                                                                         *)
(* Inventory's events are the steps of its consumer here; its requests run *)
(* between them.                                                           *)
(***************************************************************************)
EXTENDS Inventory

CONSTANTS
  DLQ_MAX_RETRIES,   \* failed deliveries after which a message is given up
  MaxCancels,        \* bound on SCHEDULE_CANCELLED messages
  MaxRestarts        \* bound on restarts of a consumer

ASSUME RetriesAssumption == DLQ_MAX_RETRIES \in Nat \ {0}
ASSUME CatalogBoundsAssumption == MaxCancels \in Nat /\ MaxRestarts \in Nat

VARIABLES
  poison,      \* topics whose message makes its handler fail every time
  garbled,     \* messages that are not JSON
  admin,       \* admin-service: the route and schedule rows, and what is yet to be sent
  sent,        \* messages in each topic
  position,    \* messages each subscription has handled
  committed,   \* the position Kafka has of each subscription
  retryMap,    \* withDLQ's failed attempts by message
  failed,      \* history: failures of a message since it was last handled
  gaveUp,      \* history: the messages withDLQ has given up
  index,       \* search-service's document of the train
  lost,        \* history: what has been dropped on the way
  restarts

adminVars == <<admin, sent>>
kafkaVars == <<poison, garbled, position, committed, retryMap, failed, gaveUp, restarts>>
searchVars == <<index, lost>>
catVars == <<invVars, adminVars, kafkaVars, searchVars>>

-----------------------------------------------------------------------------
Topics == {"ROUTE_CREATED", "SCHEDULE_CREATED", "SCHEDULE_CANCELLED"}

\* The topics of the inventory consumer; the search consumer does not
\* subscribe to SCHEDULE_CANCELLED.
InventoryTopics == {"SCHEDULE_CREATED", "SCHEDULE_CANCELLED"}

Subscriptions ==
  ({"inventory"} \X InventoryTopics) \cup ({"search"} \X {"ROUTE_CREATED", "SCHEDULE_CREATED"})

\* topic:offset, the keys of retryMap (a topic has one partition here)
MsgKeys == InventoryTopics \X (1..(MaxCancels + 1))

CatalogTypeOK ==
  /\ TypeOK
  /\ poison \subseteq InventoryTopics
  /\ garbled \subseteq MsgKeys
  /\ admin \in [route : BOOLEAN, schedule : {"NONE", "ACTIVE", "CANCELLED"},
                unsent : SUBSET Topics]
  /\ sent \in [Topics -> 0..(MaxCancels + 1)]
  /\ position \in [Subscriptions -> 0..(MaxCancels + 1)]
  /\ committed \in [Subscriptions -> 0..(MaxCancels + 1)]
  /\ retryMap \in [MsgKeys -> 0..(DLQ_MAX_RETRIES - 1)]
  /\ failed \in [MsgKeys -> 0..DLQ_MAX_RETRIES]
  /\ gaveUp \subseteq MsgKeys
  /\ index \in [doc : BOOLEAN, schedules : Nat]
  /\ lost \subseteq {"cancellation", "listing", "recreated"}
  /\ restarts \in 0..MaxRestarts

-----------------------------------------------------------------------------
(* admin-service *)

Wrote(field, value, topic) ==
  /\ topic \notin admin.unsent
  /\ admin' = [admin EXCEPT ![field] = value, !.unsent = @ \cup {topic}]
  /\ UNCHANGED <<invVars, sent, kafkaVars, searchVars>>

\* A train has one route (checked, and unique in the database).
CreateRoute ==
  /\ ~admin.route
  /\ Wrote("route", TRUE, "ROUTE_CREATED")

CreateSchedule ==
  /\ admin.route
  /\ admin.schedule = "NONE"
  /\ Wrote("schedule", "ACTIVE", "SCHEDULE_CREATED")

\* Nothing refuses to cancel again, and the message is then sent again.
CancelSchedule ==
  /\ admin.schedule # "NONE"
  /\ sent["SCHEDULE_CANCELLED"] < MaxCancels
  /\ Wrote("schedule", "CANCELLED", "SCHEDULE_CANCELLED")

\* The handler sends the message after its row is committed ...
Publish(t) ==
  /\ t \in admin.unsent
  /\ admin' = [admin EXCEPT !.unsent = @ \ {t}]
  /\ sent' = [sent EXCEPT ![t] = @ + 1]
  /\ UNCHANGED <<invVars, kafkaVars, searchVars>>

\* ... or fails to: for a route and a schedule the error is only logged, for a
\* cancellation the caller gets it.  The row stays in each case.
PublishFails(t) ==
  /\ t \in admin.unsent
  /\ admin' = [admin EXCEPT !.unsent = @ \ {t}]
  /\ lost' = lost \cup (CASE t = "SCHEDULE_CANCELLED" -> {"cancellation"}
                         [] t = "SCHEDULE_CREATED" -> {"listing"}
                         [] OTHER -> {})
  /\ UNCHANGED <<invVars, sent, kafkaVars, index>>

-----------------------------------------------------------------------------
(* Consumers *)

HasNext(sub) == position[sub] < sent[sub[2]]

Advance(sub) == position' = [position EXCEPT ![sub] = @ + 1]

\* The key of the next message of inventory's topic t.
NextKey(t) == <<t, position[<<"inventory", t>>] + 1>>

\* Mutant: a SCHEDULE_CREATED that comes again writes the rows again.
HandleAgain(t) ==
  IF t = "SCHEDULE_CREATED"
  THEN /\ schedule' = [status |-> "ACTIVE", available |-> Cardinality(Seats),
                       locked |-> 0, booked |-> 0]
       /\ seats' = [s \in Seats |-> FreeSeat]
       /\ processed' = processed \cup {t}
       /\ UNCHANGED segLocks
  ELSE IF t \in processed \/ schedule.status = "ABSENT" THEN UNCHANGED invVars
  ELSE CancelScheduleInventory

\* A cancellation of a schedule that inventory does not know yet is lost.
Skips(t) == t = "SCHEDULE_CANCELLED" /\ schedule.status = "ABSENT"

\* The event handlers return early for an event that is in idempotency_records
\* and for the cancellation of a schedule they do not know.
Handler(t) ==
  IF t \in processed \/ Skips(t)
  THEN UNCHANGED invVars
  ELSE \/ t = "SCHEDULE_CREATED" /\ InitializeInventory
       \/ t = "SCHEDULE_CANCELLED" /\ CancelScheduleInventory

\* Mutant: retryMap keeps the attempts of a message that succeeded.
Remember(t) == UNCHANGED retryMap

\* retryMap.delete(msgKey)
Forget(t) == retryMap' = [retryMap EXCEPT ![NextKey(t)] = 0]

\* The attempt is counted before the handler runs, and nothing reads the count
\* until it has ended: a process that dies in between loses the count with it.
Deliver(t) ==
  /\ t \notin poison
  /\ NextKey(t) \notin garbled
  /\ HasNext(<<"inventory", t>>)
  /\ Handler(t)
  /\ Forget(t)
  /\ failed' = [failed EXCEPT ![NextKey(t)] = 0]
  /\ lost' = IF Skips(t) THEN lost \cup {"cancellation"} ELSE lost
  /\ Advance(<<"inventory", t>>)
  /\ UNCHANGED <<adminVars, poison, garbled, committed, gaveUp, restarts, index>>

Failure(t) ==
  /\ HasNext(<<"inventory", t>>)
  /\ NextKey(t) \notin garbled
  /\ failed' = [failed EXCEPT ![NextKey(t)] = IF @ < DLQ_MAX_RETRIES THEN @ + 1 ELSE @]
  /\ UNCHANGED <<invVars, adminVars, poison, garbled, committed, restarts, searchVars>>

\* Mutant: the attempts are not counted.
RetryUncounted(t) ==
  /\ Failure(t)
  /\ UNCHANGED <<retryMap, position, gaveUp>>

\* Mutant: the attempts are counted and never compared.
RetryForEver(t) ==
  /\ Failure(t)
  /\ retryMap' = [retryMap EXCEPT ![NextKey(t)] = @ + 1]
  /\ UNCHANGED <<position, gaveUp>>

\* The transaction fails and the error is thrown on: Kafka delivers again.
Retry(t) ==
  /\ Failure(t)
  /\ retryMap[NextKey(t)] + 1 < DLQ_MAX_RETRIES
  /\ retryMap' = [retryMap EXCEPT ![NextKey(t)] = @ + 1]
  /\ UNCHANGED <<position, gaveUp>>

\* The message goes to the dead letter topic.  When that fails it is logged, and
\* the consumer moves on in either case.
GiveUp(t) ==
  /\ Forget(t)
  /\ gaveUp' = gaveUp \cup {NextKey(t)}
  /\ Advance(<<"inventory", t>>)

\* It failed too often.
SendToDLQ(t) ==
  /\ Failure(t)
  /\ retryMap[NextKey(t)] + 1 >= DLQ_MAX_RETRIES
  /\ GiveUp(t)

\* It is not JSON: given up at its first delivery, no handler has seen it.
SendUnparseable(t) ==
  /\ HasNext(<<"inventory", t>>)
  /\ NextKey(t) \in garbled
  /\ GiveUp(t)
  /\ UNCHANGED <<invVars, adminVars, poison, garbled, committed, failed, restarts, searchVars>>

\* Mutant: the entry of the schedule is not removed first.
AddAgain == index' = [index EXCEPT !.schedules = @ + 1]

\* The script of indexSchedule: remove the schedule's entry, add the new one.
ReplaceEntry == index' = [index EXCEPT !.schedules = 1]

\* The search consumer logs errors and moves on.  A route's document replaces
\* the train's, with the schedules it lists.
IndexRoute ==
  /\ HasNext(<<"search", "ROUTE_CREATED">>)
  /\ \/ /\ index' = [doc |-> TRUE, schedules |-> 0]
        /\ lost' = IF index.schedules > 0 THEN lost \cup {"listing"} ELSE lost
     \/ UNCHANGED searchVars
  /\ Advance(<<"search", "ROUTE_CREATED">>)
  /\ UNCHANGED <<invVars, adminVars, poison, garbled, committed, retryMap, failed, gaveUp, restarts>>

\* A schedule whose train has no document is such an error.
IndexSchedule ==
  /\ HasNext(<<"search", "SCHEDULE_CREATED">>)
  /\ \/ index.doc /\ ReplaceEntry /\ UNCHANGED lost
     \/ lost' = lost \cup {"listing"} /\ UNCHANGED index
  /\ Advance(<<"search", "SCHEDULE_CREATED">>)
  /\ UNCHANGED <<invVars, adminVars, poison, garbled, committed, retryMap, failed, gaveUp, restarts>>

Commit(sub) ==
  /\ committed[sub] # position[sub]
  /\ committed' = [committed EXCEPT ![sub] = position[sub]]
  /\ UNCHANGED <<invVars, adminVars, poison, garbled, position, retryMap, failed, gaveUp, restarts, searchVars>>

\* The consumer of a group joins again and goes on from the committed positions.
\* When the process of inventory has died, retryMap is empty; when search starts
\* with ES_RECREATE_INDICES, it deletes its index first.
Restart(group) ==
  /\ restarts < MaxRestarts
  /\ restarts' = restarts + 1
  /\ position' = [sub \in Subscriptions |->
                    IF sub[1] = group THEN committed[sub] ELSE position[sub]]
  /\ \/ UNCHANGED <<retryMap, searchVars>>
     \/ /\ group = "inventory"
        /\ retryMap' = [m \in MsgKeys |-> 0]
        /\ UNCHANGED searchVars
     \/ /\ group = "search"
        /\ index' = [doc |-> FALSE, schedules |-> 0]
        /\ lost' = IF index.schedules > 0 THEN lost \cup {"recreated"} ELSE lost
        /\ UNCHANGED retryMap
  /\ UNCHANGED <<invVars, adminVars, poison, garbled, committed, failed, gaveUp>>

-----------------------------------------------------------------------------
CatalogInit ==
  /\ Init
  /\ poison \in SUBSET InventoryTopics
  /\ garbled \in SUBSET {m \in MsgKeys : m[1] \notin poison /\ m[2] <= MaxCancels}
  /\ admin = [route |-> FALSE, schedule |-> "NONE", unsent |-> {}]
  /\ sent = [t \in Topics |-> 0]
  /\ position = [sub \in Subscriptions |-> 0]
  /\ committed = [sub \in Subscriptions |-> 0]
  /\ retryMap = [m \in MsgKeys |-> 0]
  /\ failed = [m \in MsgKeys |-> 0]
  /\ gaveUp = {}
  /\ index = [doc |-> FALSE, schedules |-> 0]
  /\ lost = {}
  /\ restarts = 0

Consume(t) == Deliver(t) \/ Retry(t) \/ SendToDLQ(t) \/ SendUnparseable(t)

\* A request at inventory-service touches its rows alone.
Elsewhere == UNCHANGED <<adminVars, kafkaVars, searchVars>>

CatalogNext ==
  \/ CreateRoute
  \/ CreateSchedule
  \/ CancelSchedule
  \/ \E t \in Topics : Publish(t) \/ PublishFails(t)
  \/ \E t \in InventoryTopics : Consume(t)
  \/ IndexRoute
  \/ IndexSchedule
  \/ \E sub \in Subscriptions : Commit(sub)
  \/ \E group \in {"inventory", "search"} : Restart(group)
  \/ "segment" \in Modes /\ SegmentRequest /\ Elsewhere
  \/ "full" \in Modes /\ FullRequest /\ Elsewhere
  \/ CancelRequest /\ Elsewhere

\* The inventory consumer goes on polling its topics.  Nothing says that the
\* handlers succeed, or that anybody asks for anything.
CatalogSpec ==
  /\ CatalogInit /\ [][CatalogNext]_catVars
  /\ \A t \in InventoryTopics : WF_catVars(Consume(t))

-----------------------------------------------------------------------------
(* Properties *)

\* Messages come again and in any order between topics, and inventory's
\* schedule still only goes forward: no redelivered SCHEDULE_CREATED brings a
\* cancelled schedule back.
NeverRevived == [][schedule.status = "CANCELLED" => schedule'.status = "CANCELLED"]_catVars

\* A message that always fails does not block its topic for ever.
ConsumerMovesOn ==
  \A t \in InventoryTopics : \A n \in 1..MaxCancels :
    sent[t] >= n ~> position[<<"inventory", t>>] >= n

\* withDLQ gives up a message that can be parsed only after DLQ_MAX_RETRIES
\* consecutive failures of its handler, also when the message comes again after
\* it was handled once; one that cannot be parsed never gets to a handler.
GivesUpOnlyAfterRetries ==
  [][/\ \A m \in gaveUp' \ (gaveUp \cup garbled) : failed'[m] >= DLQ_MAX_RETRIES
     /\ \A m \in garbled : failed'[m] = 0]_catVars

Consumed(group) ==
  \A sub \in Subscriptions : sub[1] = group => position[sub] = sent[sub[2]]

\* When everything that admin-service sent has been handled, inventory sells a
\* schedule that admin has cancelled only when the cancellation could not be
\* sent, came before the schedule itself, or was given up.
SoldThoughCancelledOnlyIfLost ==
  (/\ admin.schedule = "CANCELLED" /\ "SCHEDULE_CANCELLED" \notin admin.unsent
   /\ Consumed("inventory")
   /\ schedule.status = "ACTIVE")
    => \/ "cancellation" \in lost
       \/ \E n \in 1..MaxCancels : <<"SCHEDULE_CANCELLED", n>> \in gaveUp

\* When everything has been indexed the search document lists the schedule
\* exactly once, however often its messages came, unless its message could not
\* be sent or indexed, the route came again after it, or search deleted the
\* index with the schedule in it when it started.
ListedUnlessLost ==
  admin.schedule # "NONE" /\ "SCHEDULE_CREATED" \notin admin.unsent /\ Consumed("search")
    => index.schedules = 1
       \/ (index.schedules = 0 /\ lost \cap {"listing", "recreated"} # {})
=============================================================================
