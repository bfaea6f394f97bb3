----------------------------- MODULE BookingSaga -----------------------------
(***************************************************************************)
(* booking-service: createBooking and its saga, the payment handlers,      *)
(* cancelBooking and the expiry job, as threads that meet on the bookings  *)
(* table.  A step ends where a thread awaits another service or another    *)
(* row; the saga's PENDING and FAILED log writes, which nothing reads, are *)
(* left out.                                                               *)
(*                                                                         *)
(* All bookings here are requests of one user for the same seats and the   *)
(* same segment: the case in which everything they share is contended.     *)
(* inventory-service is reduced to what its operations do to these seats   *)
(* (see Inventory) without its lock clean-up job, which nothing starts;    *)
(* payment-service to one order per booking.  The schedule stays ACTIVE.   *)
(*                                                                         *)
(* The source has imports and method calls that do not resolve (README);   *)
(* the module is what its functions do when they do.                       *)
(***************************************************************************)
EXTENDS Integers, Sequences

CONSTANTS
  Bookings,      \* booking ids, one per idempotency key
  Handlers,      \* consumer instances that may have a PAYMENT_SUCCESS at once
  Losses,        \* whether a call may fail, having taken effect or not
  MaxCrashes,    \* bound on the threads that stop between two steps
  EarlyCancel,   \* whether a booking is cancelled before createBooking returns
  MaxVersion     \* bound on version, for the loops a retry closes

ASSUME BookingsAssumption == Bookings \cap {"free", "held", "none"} = {}
ASSUME FlagsAssumption == {Losses, EarlyCancel} \subseteq BOOLEAN
ASSUME BoundsAssumption == MaxCrashes \in Nat /\ MaxVersion \in Nat
ASSUME HandlersAssumption == Handlers \cap {"create", "failure", "cancel", "expiry"} = {}

VARIABLES
  booking,   \* the bookings rows
  done,      \* per booking, the saga steps whose log is COMPLETED
  claim,     \* inventory: the seats are "free", "held", or sold to a booking
  redis,     \* the lock value at the seats' key in Redis, or "none"
  due,       \* bookings whose lockExpiresAt has passed
  pay,       \* payment-service: the order of a booking and its money, "paid"
             \* when it is authorized or captured (Payment tells these apart)
  topics,    \* messages not yet consumed
  at,        \* per booking and role, where the thread is and what it read
  crashes    \* the crashes so far

sagaVars == <<booking, done, claim, redis, due, pay, topics, at, crashes>>

-----------------------------------------------------------------------------
Status == {"NONE", "PENDING", "SEATS_HELD", "PAYMENT_PENDING", "CONFIRMING",
           "CONFIRMED", "CANCELLING", "FAILED", "CANCELLED", "EXPIRED"}

\* Mutant: the expiry query forgets the last status before the payment.
BeforePayment == {"PENDING", "SEATS_HELD"}

Unpaid == {"PENDING", "SEATS_HELD", "PAYMENT_PENDING"}

\* createBooking after it: answered, refused, or lost in a crash.
Ended == {"returned", "failed", "dead"}

Closed == {"FAILED", "CANCELLED", "EXPIRED"}

\* Mutant: the hold is not compensated.
UndoingButHold == <<"CONFIRM_SEATS", "CREATE_PAYMENT">>

\* The saga steps, last one first: the order compensateAll undoes them in.
Undoing == <<"CONFIRM_SEATS", "CREATE_PAYMENT", "HOLD_SEATS">>

Steps == {Undoing[i] : i \in 1..Len(Undoing)}

Roles == {"create", "failure", "cancel", "expiry"} \cup Handlers

BookingRow == [status : Status, version : 0..MaxVersion, order : BOOLEAN]

\* A forward step's call has returned, and its log is not yet COMPLETED.
Logging == {"logHold", "logOrder", "logConfirm"}

Thread == [pc : {"idle", "lock", "insert", "hold", "order", "answer", "claim",
                 "markHeld", "markPending", "confirm", "finish", "release", "free", "refund", "close",
                 "undo", "undoing"} \cup Logging \cup Ended,
           saw : BookingRow, todo : SUBSET Steps]

SagaTypeOK ==
  /\ booking \in [Bookings -> BookingRow]
  /\ done \in [Bookings -> SUBSET Steps]
  /\ claim \in {"free", "held"} \cup Bookings
  /\ redis \in {"none"} \cup Bookings
  /\ due \subseteq Bookings
  /\ pay \in [Bookings -> [order : BOOLEAN,
                           money : {"none", "failed", "paid", "refunded"}]]
  /\ topics \subseteq {"PAYMENT_SUCCESS", "PAYMENT_FAILED"} \X Bookings
  /\ at \in [Bookings -> [Roles -> Thread]]
  /\ crashes \in 0..MaxCrashes

NoBooking == [status |-> "NONE", version |-> 0, order |-> FALSE]

Resting == [pc |-> "idle", saw |-> NoBooking, todo |-> {}]

-----------------------------------------------------------------------------
(* Threads and rows *)

At(b, r, pc) == at[b][r].pc = pc

Saw(b, r) == at[b][r].saw

Put(b, r, t) == at' = [at EXCEPT ![b][r] = t]

Goto(b, r, pc) == Put(b, r, [at[b][r] EXCEPT !.pc = pc])

Rest(b, r) == Put(b, r, Resting)

\* An update of the row that counts the version, and one that does not.
Bump(b, status) ==
  booking' = [booking EXCEPT ![b].status = status, ![b].version = @ + 1]

Write(b, status) == booking' = [booking EXCEPT ![b].status = status]

Room(b) == booking[b].version < MaxVersion

\* Mutant: the update does not name the version.
AnyVersion(b, r) == TRUE

\* casUpdateBooking: the version is still the one this thread read.
Unchanged(b, r) == booking[b].version = Saw(b, r).version

Read(b, r) == Put(b, r, [pc |-> "claim", saw |-> booking[b], todo |-> {}])

Commit(m) == topics' = topics \ {m}

-----------------------------------------------------------------------------
(* Calls to inventory-service.  With Losses a call may change the seats     *)
(* and report an error: the answer of the last attempt is lost, or an       *)
(* earlier attempt took effect and the retry is refused.                    *)

\* can: the service accepts; after: the seats then.
CallOk(can, after) == can /\ claim' = after

CallFails(can, after) ==
  \/ ~can /\ claim' = claim
  \/ Losses /\ claim' = claim
  \/ Losses /\ can /\ claim' = after

Unheld == IF claim = "held" THEN "free" ELSE claim

\* The log of a forward step becomes COMPLETED in a statement of its own, when
\* the call has returned.
Logs(b, r, from, step, to) ==
  /\ At(b, r, from)
  /\ done' = [done EXCEPT ![b] = @ \cup {step}]
  /\ Goto(b, r, to)
  /\ UNCHANGED <<booking, claim, redis, due, pay, topics, crashes>>

LogCompleted(b, r) ==
  \/ Logs(b, r, "logHold", "HOLD_SEATS", "markHeld")
  \/ Logs(b, r, "logOrder", "CREATE_PAYMENT", "markPending")
  \/ Logs(b, r, "logConfirm", "CONFIRM_SEATS", "finish")

-----------------------------------------------------------------------------
(* createBooking *)

\* getSeats reported the seats available; nothing is locked yet.
StartBooking(b) ==
  /\ At(b, "create", "idle")
  /\ booking[b].status = "NONE"
  /\ claim = "free"
  /\ Goto(b, "create", "lock")
  /\ UNCHANGED <<booking, done, claim, redis, due, pay, topics, crashes>>

\* releaseSeatLocks compares the value; forceReleaseSeatLocks (redis' = "none"
\* below) deletes the key whoever's value it has.
ReleaseOwn(b) == redis' = IF redis = b THEN "none" ELSE redis

AcquireSeatLocks(b) ==
  /\ At(b, "create", "lock")
  /\ IF redis = "none"
     THEN redis' = b /\ Goto(b, "create", "insert")
     ELSE UNCHANGED redis /\ Rest(b, "create")
  /\ UNCHANGED <<booking, done, claim, due, pay, topics, crashes>>

\* Mutant: a status the schema does not have.
InsertCreated(b) ==
  /\ At(b, "create", "insert")
  /\ Write(b, "CREATED")
  /\ Goto(b, "create", "hold")
  /\ UNCHANGED <<done, claim, redis, due, pay, topics, crashes>>

\* An INSERT that fails only gives the Redis lock back.
InsertBooking(b) ==
  /\ At(b, "create", "insert")
  /\ \/ Write(b, "PENDING") /\ Goto(b, "create", "hold") /\ UNCHANGED redis
     \/ Losses /\ ReleaseOwn(b) /\ Rest(b, "create") /\ UNCHANGED booking
  /\ UNCHANGED <<done, claim, due, pay, topics, crashes>>

ExecuteHoldSeats(b) ==
  /\ At(b, "create", "hold")
  /\ \/ CallOk(claim = "free", "held") /\ Goto(b, "create", "logHold")
     \/ CallFails(claim = "free", "held") /\ Goto(b, "create", "undo")
  /\ UNCHANGED <<booking, done, redis, due, pay, topics, crashes>>

\* The status is written whatever it is by now, and the version is not counted.
MarkHeld(b) ==
  /\ At(b, "create", "markHeld")
  /\ Write(b, "SEATS_HELD")
  /\ Goto(b, "create", "order")
  /\ UNCHANGED <<done, claim, redis, due, pay, topics, crashes>>

ExecuteCreatePayment(b) ==
  /\ At(b, "create", "order")
  /\ \/ /\ pay' = [pay EXCEPT ![b].order = TRUE]
        /\ Goto(b, "create", "logOrder")
     \/ /\ Losses
        /\ pay' \in {pay, [pay EXCEPT ![b].order = TRUE]}
        /\ Goto(b, "create", "undo")
  /\ UNCHANGED <<booking, done, claim, redis, due, topics, crashes>>

\* By id alone, like MarkHeld.
MarkPending(b) ==
  /\ At(b, "create", "markPending")
  /\ booking' = [booking EXCEPT ![b].status = "PAYMENT_PENDING", ![b].order = TRUE]
  /\ Goto(b, "create", "answer")
  /\ UNCHANGED <<done, claim, redis, due, pay, topics, crashes>>

\* The row is read again and the response saved for the idempotency key; either
\* can fail.
AnswerCreate(b) ==
  /\ At(b, "create", "answer")
  /\ \/ Goto(b, "create", "returned")
     \/ /\ Losses
        /\ \E row \in {Saw(b, "create"), booking[b]} :
             Put(b, "create", [pc |-> "undo", saw |-> row, todo |-> {}])
  /\ UNCHANGED <<booking, done, claim, redis, due, pay, topics, crashes>>

-----------------------------------------------------------------------------
(* Handlers of the payment topics *)

\* Mutant: the status of the booking is not looked at.
HasOrder(b) == booking[b].order

\* The payment id is found, and the booking waits for its payment.
AwaitsPayment(b) == booking[b].order /\ booking[b].status = "PAYMENT_PENDING"

\* A message for a booking in another status is logged and dropped.
ReadPaymentSuccess(b, h) ==
  /\ At(b, h, "idle")
  /\ <<"PAYMENT_SUCCESS", b>> \in topics
  /\ IF AwaitsPayment(b)
     THEN Read(b, h) /\ UNCHANGED topics
     ELSE UNCHANGED at /\ Commit(<<"PAYMENT_SUCCESS", b>>)
  /\ UNCHANGED <<booking, done, claim, redis, due, pay, crashes>>

\* casUpdateBooking throws an error without a code, so that a lost race is
\* not told apart and is compensated like any failure.
ClaimForPayment(b, h) ==
  /\ At(b, h, "claim")
  /\ IF Unchanged(b, h)
     THEN Room(b) /\ Bump(b, "CONFIRMING") /\ Goto(b, h, "confirm")
     ELSE UNCHANGED booking /\ Goto(b, h, "undo")
  /\ UNCHANGED <<done, claim, redis, due, pay, topics, crashes>>

ExecuteConfirmSeats(b, h) ==
  /\ At(b, h, "confirm")
  /\ \/ CallOk(claim = "held", b) /\ Goto(b, h, "logConfirm")
     \/ CallFails(claim = "held", b) /\ Goto(b, h, "undo")
  /\ UNCHANGED <<booking, done, redis, due, pay, topics, crashes>>

ConfirmBooking(b, h) ==
  /\ At(b, h, "finish")
  /\ IF booking[b].status = "CONFIRMING"
     THEN Room(b) /\ Bump(b, "CONFIRMED") ELSE UNCHANGED booking
  /\ redis' = "none"
  /\ Rest(b, h)
  /\ Commit(<<"PAYMENT_SUCCESS", b>>)
  /\ UNCHANGED <<done, claim, due, pay, crashes>>

ReadPaymentFailure(b) ==
  /\ At(b, "failure", "idle")
  /\ <<"PAYMENT_FAILED", b>> \in topics
  /\ IF AwaitsPayment(b)
     THEN Read(b, "failure") /\ UNCHANGED topics
     ELSE UNCHANGED at /\ Commit(<<"PAYMENT_FAILED", b>>)
  /\ UNCHANGED <<booking, done, claim, redis, due, pay, crashes>>

\* A lost race throws: the message is delivered again.
ClaimForFailure(b) ==
  /\ At(b, "failure", "claim")
  /\ IF Unchanged(b, "failure")
     THEN /\ Room(b) /\ Bump(b, "FAILED")
          /\ Put(b, "failure", [at[b]["failure"] EXCEPT !.pc = "undoing",
                                                        !.todo = {"HOLD_SEATS"}])
     ELSE UNCHANGED booking /\ Rest(b, "failure")
  /\ UNCHANGED <<done, claim, redis, due, pay, topics, crashes>>

-----------------------------------------------------------------------------
(* cancelBooking *)

\* MaxVersion leaves room for both updates of a cancellation and, should
\* createBooking open the booking again, for both of its payment.
ReadForCancel(b) ==
  /\ At(b, "cancel", "idle")
  /\ booking[b].status \in Unpaid \cup {"CONFIRMED"}
  /\ EarlyCancel \/ at[b]["create"].pc \in Ended
  /\ booking[b].version + 3 < MaxVersion
  /\ Read(b, "cancel")
  /\ UNCHANGED <<booking, done, claim, redis, due, pay, topics, crashes>>

\* Mutant: only the lock is released, whatever the status was.
ReleaseOnly(status) == IF status = "PENDING" THEN "close" ELSE "release"

\* What is released next depends on the status read before the claim.
AfterClaim(status) ==
  CASE status = "CONFIRMED" -> "free"
    [] status = "PENDING"   -> "close"
    [] OTHER                -> "release"

ClaimForCancel(b) ==
  /\ At(b, "cancel", "claim")
  /\ IF Unchanged(b, "cancel")
     THEN /\ Room(b) /\ Bump(b, "CANCELLING")
          /\ Goto(b, "cancel", AfterClaim(Saw(b, "cancel").status))
     ELSE UNCHANGED booking /\ Rest(b, "cancel")
  /\ UNCHANGED <<done, claim, redis, due, pay, topics, crashes>>

\* Errors of the release are logged only.
ReleaseOnCancel(b) ==
  /\ At(b, "cancel", "release")
  /\ CallOk(TRUE, Unheld) \/ CallFails(TRUE, Unheld)
  /\ Goto(b, "cancel", "close")
  /\ UNCHANGED <<booking, done, redis, due, pay, topics, crashes>>

\* On an error CANCELLING is rolled back to CONFIRMED.
FreeOnCancel(b) ==
  /\ At(b, "cancel", "free")
  /\ \/ /\ CallOk(claim = b, "free")
        /\ Goto(b, "cancel", IF Saw(b, "cancel").order THEN "refund" ELSE "close")
        /\ UNCHANGED booking
     \/ /\ CallFails(claim = b, "free")
        /\ IF booking[b].status = "CANCELLING"
           THEN Room(b) /\ Bump(b, "CONFIRMED") ELSE UNCHANGED booking
        /\ Rest(b, "cancel")
  /\ UNCHANGED <<done, redis, due, pay, topics, crashes>>

\* A refund takes effect on captured money only.
Refunded(b) ==
  IF pay[b].money = "paid" THEN [pay EXCEPT ![b].money = "refunded"] ELSE pay

\* Errors of the refund are logged only.
RefundOnCancel(b) ==
  /\ At(b, "cancel", "refund")
  /\ \/ pay' = Refunded(b)
     \/ Losses /\ UNCHANGED pay
  /\ Goto(b, "cancel", "close")
  /\ UNCHANGED <<booking, done, claim, redis, due, topics, crashes>>

CloseCancelled(b) ==
  /\ At(b, "cancel", "close")
  /\ IF booking[b].status = "CANCELLING"
     THEN Room(b) /\ Bump(b, "CANCELLED") ELSE UNCHANGED booking
  /\ redis' = "none"
  /\ Rest(b, "cancel")
  /\ UNCHANGED <<done, claim, due, pay, topics, crashes>>

-----------------------------------------------------------------------------
(* The expiry job *)

ReadExpired(b) ==
  /\ At(b, "expiry", "idle")
  /\ b \in due
  /\ booking[b].status \in Unpaid
  /\ Read(b, "expiry")
  /\ UNCHANGED <<booking, done, claim, redis, due, pay, topics, crashes>>

ClaimForExpiry(b) ==
  /\ At(b, "expiry", "claim")
  /\ IF Unchanged(b, "expiry") /\ booking[b].status \in Unpaid
     THEN Room(b) /\ Bump(b, "EXPIRED") /\ Goto(b, "expiry", "undo")
     ELSE UNCHANGED booking /\ Rest(b, "expiry")
  /\ UNCHANGED <<done, claim, redis, due, pay, topics, crashes>>

-----------------------------------------------------------------------------
(* compensateAll, and what each of its callers does afterwards *)

ReadCompleted(b, r) ==
  /\ At(b, r, "undo")
  /\ Put(b, r, [at[b][r] EXCEPT !.pc = "undoing",
                                !.todo = done[b] \cap Steps])
  /\ UNCHANGED <<booking, done, claim, redis, due, pay, topics, crashes>>

\* The first of the steps in todo.
IsNext(step, todo) ==
  \E i \in 1..Len(Undoing) :
    step = Undoing[i] /\ step \in todo /\ \A j \in 1..(i - 1) : Undoing[j] \notin todo

\* Every error of a compensation is logged only, and the next one follows.
Compensate(b, r) ==
  \E step \in Steps :
    LET Marked == done' = [done EXCEPT ![b] = @ \ {step}]
    IN /\ At(b, r, "undoing")
       /\ IsNext(step, at[b][r].todo)
       /\ \/ /\ step = "CONFIRM_SEATS"
             /\ \/ CallOk(claim = b, "free") /\ Marked
                \/ CallFails(claim = b, "free") /\ UNCHANGED done
             /\ UNCHANGED pay
          \/ /\ step = "CREATE_PAYMENT"
             /\ \/ Saw(b, r).order /\ pay' = Refunded(b) /\ Marked
                \/ (Losses \/ ~Saw(b, r).order) /\ UNCHANGED <<pay, done>>
             /\ UNCHANGED claim
          \/ /\ step = "HOLD_SEATS"
             /\ \/ CallOk(TRUE, Unheld) /\ Marked
                \/ CallFails(TRUE, Unheld) /\ UNCHANGED done
             /\ UNCHANGED pay
       /\ Put(b, r, [at[b][r] EXCEPT !.todo = @ \ {step}])
       /\ UNCHANGED <<booking, redis, due, topics, crashes>>

Compensated(b, r) == At(b, r, "undoing") /\ at[b][r].todo = {}

\* createBooking: FAILED whatever the status is by now; only its own Redis lock.
FailCreate(b) ==
  /\ Compensated(b, "create")
  /\ Write(b, "FAILED")
  /\ ReleaseOwn(b)
  /\ Goto(b, "create", "failed")
  /\ UNCHANGED <<done, claim, due, pay, topics, crashes>>

FailPayment(b, h) ==
  /\ Compensated(b, h)
  /\ IF booking[b].status \in {"PAYMENT_PENDING", "CONFIRMING"}
     THEN Room(b) /\ Bump(b, "FAILED") ELSE UNCHANGED booking
  /\ redis' = "none"
  /\ Rest(b, h)
  /\ Commit(<<"PAYMENT_SUCCESS", b>>)
  /\ UNCHANGED <<done, claim, due, pay, crashes>>

\* After a failed payment and after an expiry only the Redis lock is left.
Release(b, r) ==
  /\ Compensated(b, r)
  /\ redis' = "none"
  /\ Rest(b, r)
  /\ topics' = IF r = "failure" THEN topics \ {<<"PAYMENT_FAILED", b>>} ELSE topics
  /\ UNCHANGED <<booking, done, claim, due, pay, crashes>>

-----------------------------------------------------------------------------
(* The surroundings: the customer, the payment gateway, time, crashes *)

\* The money is paid or not; payment-service announces a success, a failure or
\* both, and a success only of money it takes for paid.  A payment that nobody
\* announces is to booking-service like none.
CustomerPays(b) ==
  /\ At(b, "create", "returned")
  /\ pay[b].money = "none"
  /\ \E news \in SUBSET {"PAYMENT_SUCCESS", "PAYMENT_FAILED"} \ {{}} :
       /\ \/ pay' = [pay EXCEPT ![b].money = "paid"]
          \/ /\ "PAYMENT_SUCCESS" \notin news
             /\ pay' = [pay EXCEPT ![b].money = "failed"]
       /\ topics' = topics \cup (news \X {b})
  /\ UNCHANGED <<booking, done, claim, redis, due, at, crashes>>

\* The lifetimes are far longer than createBooking takes, and the Redis lock,
\* set first with the same lifetime, is gone when lockExpiresAt passes.
TimePasses(b) ==
  /\ b \notin due
  /\ at[b]["create"].pc \in Ended
  /\ due' = due \cup {b}
  /\ redis' = IF redis = b THEN "none" ELSE redis
  /\ UNCHANGED <<booking, done, claim, pay, topics, at, crashes>>

\* The process restarts; nothing resumes what a thread was doing.
Crash(b, r) ==
  /\ crashes < MaxCrashes
  /\ crashes' = crashes + 1
  /\ at[b][r].pc \notin {"idle"} \cup Ended
  /\ IF r = "create" THEN Goto(b, r, "dead") ELSE Rest(b, r)
  /\ UNCHANGED <<booking, done, claim, redis, due, pay, topics>>

-----------------------------------------------------------------------------
SagaInit ==
  /\ booking = [b \in Bookings |-> NoBooking]
  /\ done = [b \in Bookings |-> {}]
  /\ claim = "free"
  /\ redis = "none"
  /\ due = {}
  /\ pay = [b \in Bookings |-> [order |-> FALSE, money |-> "none"]]
  /\ topics = {}
  /\ at = [b \in Bookings |-> [r \in Roles |-> Resting]]
  /\ crashes = 0

CreateStep(b) ==
  \/ AcquireSeatLocks(b)
  \/ InsertBooking(b)
  \/ ExecuteHoldSeats(b)
  \/ MarkHeld(b)
  \/ ExecuteCreatePayment(b)
  \/ MarkPending(b)
  \/ LogCompleted(b, "create")
  \/ AnswerCreate(b)
  \/ FailCreate(b)

PaymentStep(b) ==
  \/ \E h \in Handlers : \/ ReadPaymentSuccess(b, h)
                         \/ ClaimForPayment(b, h)
                         \/ ExecuteConfirmSeats(b, h)
                         \/ LogCompleted(b, h)
                         \/ ConfirmBooking(b, h)
                         \/ FailPayment(b, h)
  \/ ReadPaymentFailure(b)
  \/ ClaimForFailure(b)
  \/ Release(b, "failure")

CancelStep(b) ==
  \/ ClaimForCancel(b)
  \/ ReleaseOnCancel(b)
  \/ FreeOnCancel(b)
  \/ RefundOnCancel(b)
  \/ CloseCancelled(b)

ExpiryStep(b) ==
  \/ ReadExpired(b)
  \/ ClaimForExpiry(b)
  \/ Release(b, "expiry")

Undo(b) == \E r \in Roles : ReadCompleted(b, r) \/ Compensate(b, r)

ServiceStep(b) ==
  CreateStep(b) \/ PaymentStep(b) \/ CancelStep(b) \/ ExpiryStep(b) \/ Undo(b)

Surroundings(b) ==
  \/ StartBooking(b)
  \/ ReadForCancel(b)
  \/ CustomerPays(b)
  \/ TimePasses(b)

SagaNext ==
  \E b \in Bookings :
    \/ ServiceStep(b)
    \/ Surroundings(b)
    \/ \E r \in Roles : Crash(b, r)

\* While a thread of a booking can go on, the consumers have a message for it, the
\* job finds it or its time is to pass, one of these happens.  Customers need do
\* nothing.
SagaSpec ==
  /\ SagaInit /\ [][SagaNext]_sagaVars
  /\ \A b \in Bookings : WF_sagaVars(ServiceStep(b) \/ TimePasses(b))

-----------------------------------------------------------------------------
(* Properties *)

\* A confirmed booking has its seats: no other booking, compensation, expiry
\* or cancellation takes them while it stays confirmed.
ConfirmedHasSeats ==
  \A b \in Bookings : booking[b].status = "CONFIRMED" => claim = b

\* Sold seats belong to a booking that is confirmed or on its way in or out.
SoldIsWanted ==
  \A b \in Bookings :
    claim = b => booking[b].status \in {"CONFIRMING", "CONFIRMED", "CANCELLING"}

\* Whoever has a confirmed booking has paid for it, and the money has not gone
\* back: no compensation or cancellation refunds a booking that is confirmed.
ConfirmedIsPaid ==
  \A b \in Bookings : booking[b].status = "CONFIRMED" => pay[b].money = "paid"

\* A closed booking stays closed, as the code says (terminal state).  Not checked by
\* a run, as it fails when the booking is cancelled while createBooking runs (README,
\* Deviations, 13); ClosedForGood is what holds.
ClosedIsFinal ==
  [][\A b \in Bookings : booking[b].status \in Closed =>
       booking'[b].status = booking[b].status]_sagaVars

\* What can become of a booking that is closed, or closing without having been
\* confirmed: it is never open again.
AfterClose(status) ==
  CASE status = "FAILED"     -> {"FAILED", "CANCELLING"}
    [] status = "CANCELLING" -> {"CANCELLING", "CANCELLED"}
    [] OTHER                 -> {status}

\* Once its createBooking has ended, no late message, stale claim, roll-back or
\* expiry opens a closed booking again.  A cancellation that read it before
\* createBooking failed may still take it from FAILED to CANCELLED, because that
\* failure is written without counting the version.
ClosedForGood ==
  [][\A b \in Bookings :
       /\ at[b]["create"].pc \in Ended
       /\ \/ booking[b].status \in Closed
          \/ booking[b].status = "CANCELLING" /\ Saw(b, "cancel").status # "CONFIRMED"
       => booking'[b].status \in AfterClose(booking[b].status)]_sagaVars

\* A thread of b may yet give the held seats back: a cancellation that releases
\* them, or one that compensates a hold logged COMPLETED.
Releases(b) ==
  \/ at[b]["cancel"].pc = "release"
  \/ \E r \in Roles :
       \/ at[b][r].pc = "undo" /\ "HOLD_SEATS" \in done[b]
       \/ at[b][r].pc = "undoing" /\ "HOLD_SEATS" \in at[b][r].todo

\* No hold outlasts the bookings it was made for: held seats have a booking that
\* is open, with a log from which a compensation will release them, or one that
\* is about to log its hold or to release it.
HeldIsWanted ==
  claim = "held" => \E b \in Bookings :
    \/ at[b]["create"].pc = "logHold"
    \/ "HOLD_SEATS" \in done[b] /\ booking[b].status \in Unpaid \cup {"CONFIRMING"}
    \/ Releases(b)

\* Every booking is confirmed or closed in the end, whatever calls are lost.  Only
\* a crash can leave one open, and only when it was claimed for its payment or
\* for a cancellation.
BookingsSettle ==
  \A b \in Bookings :
    booking[b].status # "NONE" ~>
      \/ booking[b].status \in Closed \cup {"CONFIRMED"}
      \/ crashes > 0 /\ booking[b].status \in {"CONFIRMING", "CANCELLING"}
=============================================================================
