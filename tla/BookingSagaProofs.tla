--------------------------- MODULE BookingSagaProofs ---------------------------
(***************************************************************************)
(* Theorems about BookingSaga, for any number of bookings of the same      *)
(* seats, any number of crashes and cancellations at any time.  What a     *)
(* theorem needs beyond that - no lost call, one consumer - is its         *)
(* assumption.                                                             *)
(***************************************************************************)
EXTENDS BookingSaga, TLAPS

-----------------------------------------------------------------------------
(* What every state satisfies *)

\* A booking in one of these waits for no payment; it can leave CONFIRMING for
\* CONFIRMED, and nothing else for a status outside of Gone.
Over == {"CANCELLING"} \cup Closed
Gone == {"CONFIRMING"} \cup Over

\* While createBooking runs there is no payment, and no thread that needs one.
BeforeAnswer(b) ==
  at[b]["create"].pc \notin Ended =>
    /\ pay[b].money = "none"
    /\ booking[b].status \notin {"CONFIRMING", "CONFIRMED", "EXPIRED"}
    /\ <<"PAYMENT_SUCCESS", b>> \notin topics
    /\ b \notin due
    /\ at[b]["expiry"].pc = "idle"
    /\ at[b]["cancel"].pc \notin {"free", "refund"}

\* The message stays until a handler has dealt with it.
Announced(b) ==
  /\ <<"PAYMENT_SUCCESS", b>> \in topics =>
       /\ pay[b].money \in {"paid", "refunded"}
       /\ booking[b].status = "PAYMENT_PENDING" => pay[b].money = "paid"
  /\ \A h \in Handlers : at[b][h].pc # "idle" => <<"PAYMENT_SUCCESS", b>> \in topics
  /\ <<"PAYMENT_FAILED", b>> \in topics \/ at[b]["failure"].pc # "idle" =>
       pay[b].money # "none"

\* A handler that has read the booking finds its status, or a later version.
HandlerInv(b) ==
  \A h \in Handlers :
    /\ at[b][h].pc = "claim" =>
         \/ booking[b].version = Saw(b, h).version /\ booking[b].status = "PAYMENT_PENDING"
         \/ booking[b].version > Saw(b, h).version /\ booking[b].status \in Gone
    /\ at[b][h].pc \in {"undo", "undoing"} => booking[b].status \in Gone
    /\ at[b][h].pc \in {"confirm", "logConfirm", "finish"} =>
         booking[b].status = "CONFIRMING" /\ pay[b].money = "paid"

\* A cancellation frees or refunds what it has found confirmed, and nothing else;
\* it never calls compensateAll.
CancelInv(b) ==
  /\ at[b]["cancel"].pc \notin {"undo", "undoing"}
  /\ at[b]["cancel"].pc = "claim" =>
       /\ Saw(b, "cancel").status \in Unpaid \cup {"CONFIRMED"}
       /\ booking[b].version >= Saw(b, "cancel").version
       /\ booking[b].version = Saw(b, "cancel").version =>
            \/ booking[b].status = Saw(b, "cancel").status
            \/ {booking[b].status, Saw(b, "cancel").status} \subseteq Unpaid \cup {"FAILED"}
  /\ at[b]["cancel"].pc \in {"free", "refund"} =>
       /\ booking[b].status = "CANCELLING" /\ <<"PAYMENT_SUCCESS", b>> \notin topics
       /\ pay[b].money \in {"paid", "refunded"}
  /\ at[b]["cancel"].pc = "free" => pay[b].money = "paid"

\* What the expiry job and the handler of a failed payment undo is over, and stays so.
EndInv(b) ==
  /\ at[b]["failure"].pc = "claim" =>
       /\ booking[b].version >= Saw(b, "failure").version
       /\ booking[b].version = Saw(b, "failure").version => booking[b].status = "PAYMENT_PENDING"
  /\ \A r \in {"expiry", "failure"} : at[b][r].pc \in {"undo", "undoing"} =>
       /\ booking[b].status \in Over
       /\ at[b]["cancel"].pc # "free"

PaidInv(b) ==
  /\ BeforeAnswer(b)
  /\ Announced(b)
  /\ HandlerInv(b)
  /\ CancelInv(b)
  /\ EndInv(b)
  /\ booking[b].status = "CONFIRMED" =>
       pay[b].money = "paid" /\ <<"PAYMENT_SUCCESS", b>> \notin topics

AllPaid == \A b \in Bookings : PaidInv(b)

\* Between sale and confirmation, and when a cancellation is to give them back,
\* the seats are the booking's.
SeatsInv(b) ==
  /\ \A h \in Handlers : at[b][h].pc \in {"logConfirm", "finish"} => claim = b
  /\ at[b]["cancel"].pc = "free" => claim = b
  /\ at[b]["create"].pc \notin Ended => claim # b
  /\ booking[b].status = "CONFIRMED" => claim = b
  /\ claim = b => booking[b].status \in {"CONFIRMING", "CONFIRMED", "CANCELLING"}
  /\ claim = b => pay[b].money \in {"paid", "refunded"}
  /\ claim = b /\ booking[b].status = "CANCELLING" =>
       at[b]["cancel"].pc \notin {"release", "refund", "close"}
  /\ claim = b => \A h \in Handlers : at[b][h].pc \notin {"claim", "confirm", "undo", "undoing"}

AllSeats == \A b \in Bookings : SeatsInv(b)

-----------------------------------------------------------------------------
(* Rows and threads *)

PCs == {"idle", "lock", "insert", "hold", "logHold", "markHeld", "order", "logOrder",
        "markPending", "answer", "claim", "confirm", "logConfirm", "finish", "release",
        "free", "refund", "close", "undo", "undoing"} \cup Ended

\* A step of b, in role r or in none: what every other thread and booking keeps.
OthersRest(b, r) ==
  /\ \A q \in Roles : q # r => at'[b][q] = at[b][q]
  /\ \A c \in Bookings : c # b => at'[c] = at[c]

LEMMA StepNames == Steps = {"CONFIRM_SEATS", "CREATE_PAYMENT", "HOLD_SEATS"}
BY DEF Steps, Undoing

LEMMA ThreadType ==
  ASSUME NEW pc \in PCs, NEW saw \in BookingRow, NEW todo \in SUBSET Steps
  PROVE  [pc |-> pc, saw |-> saw, todo |-> todo] \in Thread
BY DEF Thread, PCs, Logging

LEMMA ThreadFields ==
  ASSUME SagaTypeOK, NEW b \in Bookings, NEW r \in Roles
  PROVE  /\ at[b][r] \in Thread
         /\ at[b][r].pc \in PCs /\ at[b][r].saw \in BookingRow
         /\ at[b][r].todo \in SUBSET Steps
         /\ at[b][r].saw.version \in Int
  <1>1. at[b][r] \in Thread
    BY DEF SagaTypeOK
  <1> QED BY <1>1, BoundsAssumption DEF Thread, PCs, Logging, BookingRow

LEMMA RowFields ==
  ASSUME SagaTypeOK, NEW b \in Bookings
  PROVE  /\ booking[b] \in BookingRow
         /\ booking[b].status \in Status /\ booking[b].version \in 0..MaxVersion
         /\ booking[b].order \in BOOLEAN /\ booking[b].version \in Int
BY BoundsAssumption DEF SagaTypeOK, BookingRow

LEMMA RoleNames ==
  /\ {"create", "failure", "cancel", "expiry"} \subseteq Roles
  /\ Handlers \subseteq Roles
  /\ \A h \in Handlers : h \notin {"create", "failure", "cancel", "expiry"}
BY HandlersAssumption DEF Roles

LEMMA RestingType == Resting \in Thread /\ Resting.pc = "idle"
  <1>1. NoBooking \in BookingRow
    BY BoundsAssumption DEF NoBooking, BookingRow, Status
  <1>2. Resting \in Thread
    BY <1>1, ThreadType DEF Resting, PCs
  <1> QED BY <1>2 DEF Resting

LEMMA PutFacts ==
  ASSUME SagaTypeOK, NEW b \in Bookings, NEW r \in Roles, NEW t \in Thread, Put(b, r, t)
  PROVE  /\ at' \in [Bookings -> [Roles -> Thread]]
         /\ at'[b][r] = t
         /\ OthersRest(b, r)
  <1>1. at \in [Bookings -> [Roles -> Thread]] /\ at[b] \in [Roles -> Thread]
    BY DEF SagaTypeOK
  <1> DEFINE row == [at[b] EXCEPT ![r] = t]
  <1>2. row \in [Roles -> Thread] /\ row[r] = t /\ \A q \in Roles : q # r => row[q] = at[b][q]
    BY <1>1
  <1>3. at' = [at EXCEPT ![b] = row]
    BY DEF Put
  <1> HIDE DEF row
  <1> QED BY <1>1, <1>2, <1>3 DEF OthersRest

LEMMA GotoFacts ==
  ASSUME SagaTypeOK, NEW b \in Bookings, NEW r \in Roles, NEW pc \in PCs, Goto(b, r, pc)
  PROVE  /\ at' \in [Bookings -> [Roles -> Thread]]
         /\ at'[b][r].pc = pc /\ at'[b][r].saw = at[b][r].saw
         /\ OthersRest(b, r)
  <1> DEFINE t == [at[b][r] EXCEPT !.pc = pc]
  <1>1. t \in Thread
    BY ThreadFields DEF Thread, PCs, Logging
  <1>2. t.pc = pc /\ t.saw = at[b][r].saw
    BY ThreadFields DEF Thread
  <1>3. Put(b, r, t)
    BY DEF Goto
  <1> HIDE DEF t
  <1> QED BY <1>1, <1>2, <1>3, PutFacts

LEMMA TodoFacts ==
  ASSUME SagaTypeOK, NEW b \in Bookings, NEW r \in Roles,
         NEW todo \in SUBSET Steps,
         Put(b, r, [at[b][r] EXCEPT !.pc = "undoing", !.todo = todo])
  PROVE  /\ at' \in [Bookings -> [Roles -> Thread]]
         /\ at'[b][r].pc = "undoing" /\ at'[b][r].saw = at[b][r].saw
         /\ OthersRest(b, r)
  <1> DEFINE t == [at[b][r] EXCEPT !.pc = "undoing", !.todo = todo]
  <1>1. t \in Thread
    BY ThreadFields DEF Thread, PCs, Logging
  <1>2. t.pc = "undoing" /\ t.saw = at[b][r].saw
    BY ThreadFields DEF Thread
  <1>3. Put(b, r, t)
    OBVIOUS
  <1> HIDE DEF t
  <1> QED BY <1>1, <1>2, <1>3, PutFacts

LEMMA StepFacts ==
  ASSUME SagaTypeOK, NEW b \in Bookings, NEW r \in Roles, NEW step \in Steps,
         Put(b, r, [at[b][r] EXCEPT !.todo = @ \ {step}])
  PROVE  /\ at' \in [Bookings -> [Roles -> Thread]]
         /\ at'[b][r].pc = at[b][r].pc /\ at'[b][r].saw = at[b][r].saw
         /\ OthersRest(b, r)
  <1> DEFINE t == [at[b][r] EXCEPT !.todo = @ \ {step}]
  <1>1. t \in Thread
    BY ThreadFields DEF Thread
  <1>2. t.pc = at[b][r].pc /\ t.saw = at[b][r].saw
    BY ThreadFields DEF Thread
  <1>3. Put(b, r, t)
    OBVIOUS
  <1> HIDE DEF t
  <1> QED BY <1>1, <1>2, <1>3, PutFacts

LEMMA RestFacts ==
  ASSUME SagaTypeOK, NEW b \in Bookings, NEW r \in Roles, Rest(b, r)
  PROVE  /\ at' \in [Bookings -> [Roles -> Thread]]
         /\ at'[b][r].pc = "idle"
         /\ OthersRest(b, r)
BY RestingType, PutFacts DEF Rest

LEMMA ReadFacts ==
  ASSUME SagaTypeOK, NEW b \in Bookings, NEW r \in Roles, Read(b, r)
  PROVE  /\ at' \in [Bookings -> [Roles -> Thread]]
         /\ at'[b][r].pc = "claim" /\ at'[b][r].saw = booking[b]
         /\ OthersRest(b, r)
  <1> DEFINE t == [pc |-> "claim", saw |-> booking[b], todo |-> {}]
  <1>1. t \in Thread
    BY RowFields, ThreadType DEF PCs
  <1>2. t.pc = "claim" /\ t.saw = booking[b]
    OBVIOUS
  <1>3. Put(b, r, t)
    BY DEF Read
  <1> HIDE DEF t
  <1> QED BY <1>1, <1>2, <1>3, PutFacts

\* The rows of the other bookings are as they were.
OtherRows(b) == \A c \in Bookings : c # b => booking'[c] = booking[c]

LEMMA BumpFacts ==
  ASSUME SagaTypeOK, NEW b \in Bookings, NEW status \in Status, Room(b), Bump(b, status)
  PROVE  /\ booking' \in [Bookings -> BookingRow]
         /\ booking'[b].status = status /\ booking'[b].version = booking[b].version + 1
         /\ booking'[b].order = booking[b].order
         /\ OtherRows(b)
  <1> DEFINE row == [booking[b] EXCEPT !.status = status, !.version = @ + 1]
  <1>1. booking' = [booking EXCEPT ![b] = row]
    BY DEF Bump, SagaTypeOK
  <1>2. booking[b].version + 1 \in 0..MaxVersion
    BY RowFields, BoundsAssumption DEF Room
  <1>3. row \in BookingRow /\ row.status = status /\ row.version = booking[b].version + 1
        /\ row.order = booking[b].order
    BY <1>2, RowFields DEF BookingRow
  <1> HIDE DEF row
  <1> QED BY <1>1, <1>3 DEF SagaTypeOK, OtherRows

LEMMA WriteFacts ==
  ASSUME SagaTypeOK, NEW b \in Bookings, NEW status \in Status, Write(b, status)
  PROVE  /\ booking' \in [Bookings -> BookingRow]
         /\ booking'[b].status = status /\ booking'[b].version = booking[b].version
         /\ booking'[b].order = booking[b].order
         /\ OtherRows(b)
  <1> DEFINE row == [booking[b] EXCEPT !.status = status]
  <1>1. booking' = [booking EXCEPT ![b] = row]
    BY DEF Write, SagaTypeOK
  <1>2. row \in BookingRow /\ row.status = status /\ row.version = booking[b].version
        /\ row.order = booking[b].order
    BY RowFields DEF BookingRow
  <1> HIDE DEF row
  <1> QED BY <1>1, <1>2 DEF SagaTypeOK, OtherRows

LEMMA OrderFacts ==
  ASSUME SagaTypeOK, NEW b \in Bookings,
         booking' = [booking EXCEPT ![b].status = "PAYMENT_PENDING", ![b].order = TRUE]
  PROVE  /\ booking' \in [Bookings -> BookingRow]
         /\ booking'[b].status = "PAYMENT_PENDING" /\ booking'[b].version = booking[b].version
         /\ OtherRows(b)
  <1> DEFINE row == [booking[b] EXCEPT !.status = "PAYMENT_PENDING", !.order = TRUE]
  <1>1. booking' = [booking EXCEPT ![b] = row]
    BY DEF SagaTypeOK
  <1>2. row \in BookingRow /\ row.status = "PAYMENT_PENDING" /\ row.version = booking[b].version
    BY RowFields DEF BookingRow, Status
  <1> HIDE DEF row
  <1> QED BY <1>1, <1>2 DEF SagaTypeOK, OtherRows

Money == {"none", "failed", "paid", "refunded"}

OtherMoney(b) == \A c \in Bookings : c # b => pay'[c] = pay[c]

LEMMA PayFields ==
  ASSUME SagaTypeOK, NEW b \in Bookings
  PROVE  pay[b] \in [order : BOOLEAN, money : Money] /\ pay[b].money \in Money
BY DEF SagaTypeOK, Money

LEMMA OrderPlaced ==
  ASSUME SagaTypeOK, NEW b \in Bookings, pay' \in {pay, [pay EXCEPT ![b].order = TRUE]}
  PROVE  /\ pay' \in [Bookings -> [order : BOOLEAN, money : Money]]
         /\ pay'[b].money = pay[b].money /\ OtherMoney(b)
  <1>1. pay \in [Bookings -> [order : BOOLEAN, money : Money]]
    BY DEF SagaTypeOK, Money
  <1> DEFINE row == [pay[b] EXCEPT !.order = TRUE]
  <1>2. row \in [order : BOOLEAN, money : Money] /\ row.money = pay[b].money
    BY PayFields
  <1>3. CASE pay' = pay
    BY <1>1, <1>3 DEF OtherMoney
  <1>4. CASE pay' = [pay EXCEPT ![b] = row]
    <2> HIDE DEF row
    <2> QED BY <1>1, <1>2, <1>4 DEF OtherMoney
  <1> QED BY <1>3, <1>4

LEMMA MoneyMoves ==
  ASSUME SagaTypeOK, NEW b \in Bookings, NEW money \in Money,
         pay' = [pay EXCEPT ![b].money = money]
  PROVE  /\ pay' \in [Bookings -> [order : BOOLEAN, money : Money]]
         /\ pay'[b].money = money /\ OtherMoney(b)
BY PayFields DEF SagaTypeOK, OtherMoney, Money

\* A refund changes paid money only.
LEMMA RefundFacts ==
  ASSUME SagaTypeOK, NEW b \in Bookings, pay' = Refunded(b) \/ UNCHANGED pay
  PROVE  /\ pay' \in [Bookings -> [order : BOOLEAN, money : Money]]
         /\ \/ pay'[b].money = pay[b].money
            \/ pay[b].money = "paid" /\ pay'[b].money = "refunded"
         /\ OtherMoney(b)
  <1>0. pay \in [Bookings -> [order : BOOLEAN, money : Money]]
    BY DEF SagaTypeOK, Money
  <1>1. CASE pay' = pay
    BY <1>0, <1>1 DEF OtherMoney
  <1>2. CASE pay[b].money = "paid" /\ pay' = [pay EXCEPT ![b].money = "refunded"]
    BY <1>2, MoneyMoves DEF Money
  <1> QED BY <1>1, <1>2 DEF Refunded

\* What a call makes of the seats: they stay, or become as the call wants them.
LEMMA CallFacts ==
  ASSUME NEW can \in BOOLEAN, NEW after, CallOk(can, after) \/ CallFails(can, after)
  PROVE  claim' = claim \/ (can /\ claim' = after)
BY DEF CallOk, CallFails

ClaimKept(b) ==
  /\ claim' \in {"free", "held"} \cup Bookings
  /\ \A c \in Bookings : c # b => (claim' = c <=> claim = c)

LEMMA ClaimMoves ==
  ASSUME SagaTypeOK, NEW b \in Bookings,
         \/ claim' = claim
         \/ claim \in {"free", "held", b} /\ claim' \in {"free", "held", b}
  PROVE  ClaimKept(b)
  <1>1. \A c \in Bookings : c # "free" /\ c # "held"
    BY BookingsAssumption
  <1> QED BY <1>1 DEF SagaTypeOK, ClaimKept

LEMMA UnheldMoves ==
  ASSUME SagaTypeOK, NEW b \in Bookings, claim' = claim \/ claim' = Unheld
  PROVE  ClaimKept(b) /\ \A c \in Bookings : claim' = c <=> claim = c
  <1>1. \A c \in Bookings : c # "free" /\ c # "held"
    BY BookingsAssumption
  <1> QED BY <1>1 DEF SagaTypeOK, ClaimKept, Unheld

-----------------------------------------------------------------------------
(* What a step of one booking leaves alone *)

\* Everything of c that the invariants speak of, except who has the seats.
Kept(c) ==
  /\ booking'[c] = booking[c] /\ pay'[c] = pay[c] /\ at'[c] = at[c]
  /\ c \in due' <=> c \in due
  /\ \A kind \in {"PAYMENT_SUCCESS", "PAYMENT_FAILED"} :
       <<kind, c>> \in topics' <=> <<kind, c>> \in topics

Local(b) ==
  /\ SagaTypeOK'
  /\ \A c \in Bookings : c # b => Kept(c)
  /\ ClaimKept(b)

LEMMA TopicKept ==
  ASSUME NEW b, NEW kind,
         topics' = topics \/ Commit(<<kind, b>>) \/ topics' = topics \cup {<<kind, b>>}
  PROVE  /\ \A c, k : c # b => (<<k, c>> \in topics' <=> <<k, c>> \in topics)
         /\ \A k : k # kind => (<<k, b>> \in topics' <=> <<k, b>> \in topics)
BY DEF Commit

\* Logging a forward step moves the thread that made it, and writes no row.
LEMMA LogMoves ==
  ASSUME SagaTypeOK, NEW b \in Bookings, NEW r \in Roles, LogCompleted(b, r)
  PROVE  /\ <<at[b][r].pc, at'[b][r].pc>> \in {<<"logHold", "markHeld">>,
              <<"logOrder", "markPending">>, <<"logConfirm", "finish">>}
         /\ OthersRest(b, r) /\ at' \in [Bookings -> [Roles -> Thread]]
         /\ done' \in [Bookings -> SUBSET Steps]
         /\ UNCHANGED <<booking, claim, redis, due, pay, topics, crashes>>
  <1>1. ASSUME NEW from \in PCs, NEW step \in Steps, NEW to \in PCs, Logs(b, r, from, step, to)
        PROVE  /\ at[b][r].pc = from /\ at'[b][r].pc = to
               /\ OthersRest(b, r) /\ at' \in [Bookings -> [Roles -> Thread]]
               /\ done' \in [Bookings -> SUBSET Steps]
               /\ UNCHANGED <<booking, claim, redis, due, pay, topics, crashes>>
    <2>1. done' \in [Bookings -> SUBSET Steps]
      BY <1>1 DEF Logs, SagaTypeOK
    <2> QED BY <1>1, <2>1, GotoFacts DEF Logs, At
  <1>2. {"logHold", "markHeld", "logOrder", "markPending", "logConfirm", "finish"} \subseteq PCs
    BY DEF PCs
  <1> QED BY <1>1, <1>2, StepNames DEF LogCompleted

LEMMA LogLocal ==
  ASSUME SagaTypeOK, NEW b \in Bookings, NEW r \in Roles, LogCompleted(b, r)
  PROVE  Local(b)
BY LogMoves DEF Local, Kept, ClaimKept, OthersRest, SagaTypeOK

LEMMA CreateLocal ==
  ASSUME SagaTypeOK, NEW b \in Bookings, StartBooking(b) \/ CreateStep(b)
  PROVE  Local(b)
  <1> USE RoleNames
  <1>1. CASE StartBooking(b)
    <2>1. OthersRest(b, "create") /\ at' \in [Bookings -> [Roles -> Thread]]
      BY <1>1, GotoFacts DEF StartBooking, PCs
    <2> QED BY <1>1, <2>1 DEF StartBooking, Local, Kept, ClaimKept, OthersRest, SagaTypeOK
  <1>2. CASE AcquireSeatLocks(b)
    <2>1. OthersRest(b, "create") /\ at' \in [Bookings -> [Roles -> Thread]]
      BY <1>2, GotoFacts, RestFacts DEF AcquireSeatLocks, PCs
    <2> QED BY <1>2, <2>1 DEF AcquireSeatLocks, Local, Kept, ClaimKept, OthersRest, SagaTypeOK
  <1>3. CASE InsertBooking(b)
    <2>1. OthersRest(b, "create") /\ at' \in [Bookings -> [Roles -> Thread]]
      BY <1>3, GotoFacts, RestFacts DEF InsertBooking, PCs
    <2>2. OtherRows(b) /\ booking' \in [Bookings -> BookingRow]
      BY <1>3, WriteFacts DEF InsertBooking, Status, SagaTypeOK, OtherRows
    <2> QED BY <1>3, <2>1, <2>2
            DEF InsertBooking, ReleaseOwn, Local, Kept, ClaimKept, OthersRest, OtherRows, SagaTypeOK
  <1>4. CASE ExecuteHoldSeats(b)
    <2>1. OthersRest(b, "create") /\ at' \in [Bookings -> [Roles -> Thread]]
      BY <1>4, GotoFacts DEF ExecuteHoldSeats, PCs
    <2>2. ClaimKept(b)
      <3>1. claim' = claim \/ (claim = "free" /\ claim' = "held")
        BY <1>4 DEF ExecuteHoldSeats, CallOk, CallFails
      <3> QED BY <3>1, ClaimMoves
    <2> QED BY <1>4, <2>1, <2>2
            DEF ExecuteHoldSeats, Local, Kept, ClaimKept, OthersRest, SagaTypeOK
  <1>5. CASE ExecuteCreatePayment(b)
    <2>1. OthersRest(b, "create") /\ at' \in [Bookings -> [Roles -> Thread]]
      BY <1>5, GotoFacts DEF ExecuteCreatePayment, PCs
    <2>2. OtherMoney(b) /\ pay' \in [Bookings -> [order : BOOLEAN, money : Money]]
      BY <1>5, OrderPlaced DEF ExecuteCreatePayment
    <2> QED BY <1>5, <2>1, <2>2
            DEF ExecuteCreatePayment, Local, Kept, ClaimKept, OthersRest, OtherMoney, Money,
                SagaTypeOK
  <1>6. CASE AnswerCreate(b)
    <2>1. OthersRest(b, "create") /\ at' \in [Bookings -> [Roles -> Thread]]
      <3>1. CASE Goto(b, "create", "returned")
        BY <3>1, GotoFacts DEF PCs, Ended
      <3>2. CASE \E row \in {Saw(b, "create"), booking[b]} :
                   Put(b, "create", [pc |-> "undo", saw |-> row, todo |-> {}])
        <4>1. PICK row \in {Saw(b, "create"), booking[b]} :
                   Put(b, "create", [pc |-> "undo", saw |-> row, todo |-> {}])
          BY <3>2
        <4>2. row \in BookingRow
          BY RowFields, ThreadFields DEF Saw
        <4>3. [pc |-> "undo", saw |-> row, todo |-> {}] \in Thread
          BY <4>2, ThreadType DEF PCs
        <4> QED BY <4>1, <4>3, PutFacts
      <3> QED BY <1>6, <3>1, <3>2 DEF AnswerCreate
    <2> QED BY <1>6, <2>1 DEF AnswerCreate, Local, Kept, ClaimKept, OthersRest, SagaTypeOK
  <1>7. CASE FailCreate(b)
    <2>1. OthersRest(b, "create") /\ at' \in [Bookings -> [Roles -> Thread]]
      BY <1>7, GotoFacts DEF FailCreate, PCs, Ended
    <2>2. OtherRows(b) /\ booking' \in [Bookings -> BookingRow]
      BY <1>7, WriteFacts DEF FailCreate, Status
    <2> QED BY <1>7, <2>1, <2>2
            DEF FailCreate, ReleaseOwn, Local, Kept, ClaimKept, OthersRest, OtherRows, SagaTypeOK
  <1>8. CASE MarkHeld(b) \/ MarkPending(b)
    <2>1. /\ OthersRest(b, "create") /\ at' \in [Bookings -> [Roles -> Thread]]
          /\ UNCHANGED <<done, claim, redis, due, pay, topics, crashes>>
      BY <1>8, GotoFacts DEF MarkHeld, MarkPending, PCs
    <2>2. OtherRows(b) /\ booking' \in [Bookings -> BookingRow]
      BY <1>8, WriteFacts, OrderFacts DEF MarkHeld, MarkPending, Status
    <2> QED BY <2>1, <2>2 DEF Local, Kept, ClaimKept, OthersRest, OtherRows, SagaTypeOK
  <1>9. CASE LogCompleted(b, "create")
    BY <1>9, LogLocal
  <1> QED BY <1>1, <1>2, <1>3, <1>4, <1>5, <1>6, <1>7, <1>8, <1>9 DEF CreateStep

LEMMA PaymentLocal ==
  ASSUME SagaTypeOK, NEW b \in Bookings, PaymentStep(b)
  PROVE  Local(b)
  <1> USE RoleNames
  <1>1. ASSUME NEW h \in Handlers, ReadPaymentSuccess(b, h)
        PROVE  Local(b)
    <2>1. OthersRest(b, h) /\ at' \in [Bookings -> [Roles -> Thread]]
      BY <1>1, ReadFacts DEF ReadPaymentSuccess, OthersRest, SagaTypeOK
    <2>2. topics' = topics \/ Commit(<<"PAYMENT_SUCCESS", b>>)
      BY <1>1 DEF ReadPaymentSuccess
    <2> QED BY <1>1, <2>1, <2>2, TopicKept
            DEF ReadPaymentSuccess, Commit, Local, Kept, ClaimKept, OthersRest, SagaTypeOK
  <1>2. ASSUME NEW h \in Handlers, ClaimForPayment(b, h)
        PROVE  Local(b)
    <2>1. OthersRest(b, h) /\ at' \in [Bookings -> [Roles -> Thread]]
      BY <1>2, GotoFacts DEF ClaimForPayment, PCs
    <2>2. OtherRows(b) /\ booking' \in [Bookings -> BookingRow]
      BY <1>2, BumpFacts DEF ClaimForPayment, Status, SagaTypeOK, OtherRows
    <2> QED BY <1>2, <2>1, <2>2
            DEF ClaimForPayment, Local, Kept, ClaimKept, OthersRest, OtherRows, SagaTypeOK
  <1>3. ASSUME NEW h \in Handlers, ExecuteConfirmSeats(b, h)
        PROVE  Local(b)
    <2>1. OthersRest(b, h) /\ at' \in [Bookings -> [Roles -> Thread]]
      BY <1>3, GotoFacts DEF ExecuteConfirmSeats, PCs
    <2>2. ClaimKept(b)
      BY <1>3, CallFacts, ClaimMoves DEF ExecuteConfirmSeats
    <2> QED BY <1>3, <2>1, <2>2
            DEF ExecuteConfirmSeats, Local, Kept, ClaimKept, OthersRest, SagaTypeOK
  <1>4. ASSUME NEW h \in Handlers, ConfirmBooking(b, h) \/ FailPayment(b, h)
        PROVE  Local(b)
    <2>1. OthersRest(b, h) /\ at' \in [Bookings -> [Roles -> Thread]]
      BY <1>4, RestFacts DEF ConfirmBooking, FailPayment
    <2>2. OtherRows(b) /\ booking' \in [Bookings -> BookingRow]
      BY <1>4, BumpFacts DEF ConfirmBooking, FailPayment, Status, SagaTypeOK, OtherRows
    <2>3. Commit(<<"PAYMENT_SUCCESS", b>>) /\ UNCHANGED <<done, claim, due, pay, crashes>>
          /\ redis' = "none"
      BY <1>4 DEF ConfirmBooking, FailPayment
    <2> QED BY <2>1, <2>2, <2>3, TopicKept
            DEF Commit, Local, Kept, ClaimKept, OthersRest, OtherRows, SagaTypeOK
  <1>5. CASE ReadPaymentFailure(b)
    <2>1. OthersRest(b, "failure") /\ at' \in [Bookings -> [Roles -> Thread]]
      BY <1>5, ReadFacts DEF ReadPaymentFailure, OthersRest, SagaTypeOK
    <2>2. topics' = topics \/ Commit(<<"PAYMENT_FAILED", b>>)
      BY <1>5 DEF ReadPaymentFailure
    <2> QED BY <1>5, <2>1, <2>2, TopicKept
            DEF ReadPaymentFailure, Commit, Local, Kept, ClaimKept, OthersRest, SagaTypeOK
  <1>6. CASE ClaimForFailure(b)
    <2>1. OthersRest(b, "failure") /\ at' \in [Bookings -> [Roles -> Thread]]
      <3>1. {"HOLD_SEATS"} \in SUBSET Steps
        BY StepNames
      <3> QED BY <1>6, <3>1, TodoFacts, RestFacts DEF ClaimForFailure
    <2>2. OtherRows(b) /\ booking' \in [Bookings -> BookingRow]
      BY <1>6, BumpFacts DEF ClaimForFailure, Status, SagaTypeOK, OtherRows
    <2> QED BY <1>6, <2>1, <2>2
            DEF ClaimForFailure, Local, Kept, ClaimKept, OthersRest, OtherRows, SagaTypeOK
  <1>7. CASE Release(b, "failure")
    <2>1. OthersRest(b, "failure") /\ at' \in [Bookings -> [Roles -> Thread]]
      BY <1>7, RestFacts DEF Release
    <2>2. Commit(<<"PAYMENT_FAILED", b>>)
      BY <1>7 DEF Release, Commit
    <2> QED BY <1>7, <2>1, <2>2, TopicKept
            DEF Release, Commit, Local, Kept, ClaimKept, OthersRest, SagaTypeOK
  <1>8. ASSUME NEW h \in Handlers, LogCompleted(b, h)
        PROVE  Local(b)
    BY <1>8, LogLocal
  <1> QED BY <1>1, <1>2, <1>3, <1>4, <1>5, <1>6, <1>7, <1>8 DEF PaymentStep

LEMMA CancelLocal ==
  ASSUME SagaTypeOK, NEW b \in Bookings, ReadForCancel(b) \/ CancelStep(b)
  PROVE  Local(b)
  <1> USE RoleNames
  <1>1. CASE ReadForCancel(b)
    <2>1. OthersRest(b, "cancel") /\ at' \in [Bookings -> [Roles -> Thread]]
      BY <1>1, ReadFacts DEF ReadForCancel
    <2> QED BY <1>1, <2>1 DEF ReadForCancel, Local, Kept, ClaimKept, OthersRest, SagaTypeOK
  <1>2. CASE ClaimForCancel(b)
    <2>1. OthersRest(b, "cancel") /\ at' \in [Bookings -> [Roles -> Thread]]
      BY <1>2, GotoFacts, RestFacts DEF ClaimForCancel, AfterClaim, PCs
    <2>2. OtherRows(b) /\ booking' \in [Bookings -> BookingRow]
      BY <1>2, BumpFacts DEF ClaimForCancel, Status, SagaTypeOK, OtherRows
    <2> QED BY <1>2, <2>1, <2>2
            DEF ClaimForCancel, Local, Kept, ClaimKept, OthersRest, OtherRows, SagaTypeOK
  <1>3. CASE ReleaseOnCancel(b)
    <2>1. OthersRest(b, "cancel") /\ at' \in [Bookings -> [Roles -> Thread]]
      BY <1>3, GotoFacts DEF ReleaseOnCancel, PCs
    <2>2. ClaimKept(b)
      BY <1>3, CallFacts, UnheldMoves DEF ReleaseOnCancel
    <2> QED BY <1>3, <2>1, <2>2 DEF ReleaseOnCancel, Local, Kept, ClaimKept, OthersRest, SagaTypeOK
  <1>4. CASE FreeOnCancel(b)
    <2>1. OthersRest(b, "cancel") /\ at' \in [Bookings -> [Roles -> Thread]]
      BY <1>4, GotoFacts, RestFacts DEF FreeOnCancel, PCs
    <2>2. OtherRows(b) /\ booking' \in [Bookings -> BookingRow]
      BY <1>4, BumpFacts DEF FreeOnCancel, Status, SagaTypeOK, OtherRows
    <2>3. ClaimKept(b)
      <3>1. claim' = claim \/ (claim = b /\ claim' = "free")
        BY <1>4 DEF FreeOnCancel, CallOk, CallFails
      <3> QED BY <3>1, ClaimMoves
    <2> QED BY <1>4, <2>1, <2>2, <2>3
            DEF FreeOnCancel, Local, Kept, ClaimKept, OthersRest, OtherRows, SagaTypeOK
  <1>5. CASE RefundOnCancel(b)
    <2>1. OthersRest(b, "cancel") /\ at' \in [Bookings -> [Roles -> Thread]]
      BY <1>5, GotoFacts DEF RefundOnCancel, PCs
    <2>2. OtherMoney(b) /\ pay' \in [Bookings -> [order : BOOLEAN, money : Money]]
      BY <1>5, RefundFacts DEF RefundOnCancel
    <2> QED BY <1>5, <2>1, <2>2
            DEF RefundOnCancel, Local, Kept, ClaimKept, OthersRest, OtherMoney, Money, SagaTypeOK
  <1>6. CASE CloseCancelled(b)
    <2>1. OthersRest(b, "cancel") /\ at' \in [Bookings -> [Roles -> Thread]]
      BY <1>6, RestFacts DEF CloseCancelled
    <2>2. OtherRows(b) /\ booking' \in [Bookings -> BookingRow]
      BY <1>6, BumpFacts DEF CloseCancelled, Status, SagaTypeOK, OtherRows
    <2> QED BY <1>6, <2>1, <2>2
            DEF CloseCancelled, Local, Kept, ClaimKept, OthersRest, OtherRows, SagaTypeOK
  <1> QED BY <1>1, <1>2, <1>3, <1>4, <1>5, <1>6 DEF CancelStep

LEMMA ExpiryLocal ==
  ASSUME SagaTypeOK, NEW b \in Bookings, ExpiryStep(b)
  PROVE  Local(b)
  <1> USE RoleNames
  <1>1. CASE ReadExpired(b)
    <2>1. OthersRest(b, "expiry") /\ at' \in [Bookings -> [Roles -> Thread]]
      BY <1>1, ReadFacts DEF ReadExpired
    <2> QED BY <1>1, <2>1 DEF ReadExpired, Local, Kept, ClaimKept, OthersRest, SagaTypeOK
  <1>2. CASE ClaimForExpiry(b)
    <2>1. OthersRest(b, "expiry") /\ at' \in [Bookings -> [Roles -> Thread]]
      BY <1>2, GotoFacts, RestFacts DEF ClaimForExpiry, PCs
    <2>2. OtherRows(b) /\ booking' \in [Bookings -> BookingRow]
      BY <1>2, BumpFacts DEF ClaimForExpiry, Status, SagaTypeOK, OtherRows
    <2> QED BY <1>2, <2>1, <2>2
            DEF ClaimForExpiry, Local, Kept, ClaimKept, OthersRest, OtherRows, SagaTypeOK
  <1>3. CASE Release(b, "expiry")
    <2>1. OthersRest(b, "expiry") /\ at' \in [Bookings -> [Roles -> Thread]]
      BY <1>3, RestFacts DEF Release
    <2> QED BY <1>3, <2>1 DEF Release, Local, Kept, ClaimKept, OthersRest, SagaTypeOK
  <1> QED BY <1>1, <1>2, <1>3 DEF ExpiryStep

\* What compensating one step can have done to the seats, the money and the log.
LEMMA CompensateFacts ==
  ASSUME SagaTypeOK, NEW b \in Bookings, NEW r \in Roles, Compensate(b, r)
  PROVE  /\ at' \in [Bookings -> [Roles -> Thread]] /\ OthersRest(b, r)
         /\ at[b][r].pc = "undoing" /\ at'[b][r].pc = "undoing" /\ at'[b][r].saw = at[b][r].saw
         /\ UNCHANGED <<booking, redis, due, topics, crashes>>
         /\ done' \in [Bookings -> SUBSET Steps]
         /\ pay' = Refunded(b) \/ UNCHANGED pay
         /\ claim' = claim \/ claim' = Unheld \/ (claim = b /\ claim' = "free")
  <1>1. PICK step \in Steps :
          /\ At(b, r, "undoing")
          /\ Put(b, r, [at[b][r] EXCEPT !.todo = @ \ {step}])
          /\ UNCHANGED <<booking, redis, due, topics, crashes>>
          /\ done' = [done EXCEPT ![b] = @ \ {step}] \/ UNCHANGED done
          /\ pay' = Refunded(b) \/ UNCHANGED pay
          /\ \/ CallOk(claim = b, "free") \/ CallFails(claim = b, "free")
             \/ UNCHANGED claim
             \/ CallOk(TRUE, Unheld) \/ CallFails(TRUE, Unheld)
    BY DEF Compensate
  <1>2. claim' = claim \/ claim' = Unheld \/ (claim = b /\ claim' = "free")
    BY <1>1, CallFacts
  <1>3. done' \in [Bookings -> SUBSET Steps]
    BY <1>1 DEF SagaTypeOK
  <1> QED BY <1>1, <1>2, <1>3, StepFacts DEF At

LEMMA UndoLocal ==
  ASSUME SagaTypeOK, NEW b \in Bookings, Undo(b)
  PROVE  Local(b)
  <1>1. ASSUME NEW r \in Roles, ReadCompleted(b, r)
        PROVE  Local(b)
    <2>1. OthersRest(b, r) /\ at' \in [Bookings -> [Roles -> Thread]]
      <3>1. done[b] \cap Steps \in SUBSET Steps
        OBVIOUS
      <3> DEFINE todo == done[b] \cap Steps
      <3>2. Put(b, r, [at[b][r] EXCEPT !.pc = "undoing", !.todo = todo])
        BY <1>1 DEF ReadCompleted
      <3> HIDE DEF todo
      <3> QED BY <3>1, <3>2, TodoFacts DEF todo
    <2> QED BY <1>1, <2>1 DEF ReadCompleted, Local, Kept, ClaimKept, OthersRest, SagaTypeOK
  <1>2. ASSUME NEW r \in Roles, Compensate(b, r)
        PROVE  Local(b)
    <2>1. OtherMoney(b) /\ pay' \in [Bookings -> [order : BOOLEAN, money : Money]]
      BY <1>2, CompensateFacts, RefundFacts
    <2>2. ClaimKept(b)
      BY <1>2, CompensateFacts, UnheldMoves, ClaimMoves
    <2> QED BY <1>2, <2>1, <2>2, CompensateFacts
            DEF Local, Kept, OthersRest, OtherMoney, Money, ClaimKept, SagaTypeOK
  <1> QED BY <1>1, <1>2 DEF Undo

LEMMA OutsideLocal ==
  ASSUME SagaTypeOK, NEW b \in Bookings, NEW r \in Roles,
         CustomerPays(b) \/ TimePasses(b) \/ Crash(b, r)
  PROVE  Local(b)
  <1>1. CASE CustomerPays(b)
    <2>1. OtherMoney(b) /\ pay' \in [Bookings -> [order : BOOLEAN, money : Money]]
      BY <1>1, MoneyMoves DEF CustomerPays, Money
    <2>2. PICK news \in SUBSET {"PAYMENT_SUCCESS", "PAYMENT_FAILED"} :
                 topics' = topics \cup (news \X {b})
      BY <1>1 DEF CustomerPays
    <2>3. topics' \subseteq {"PAYMENT_SUCCESS", "PAYMENT_FAILED"} \X Bookings
      BY <2>2 DEF SagaTypeOK
    <2>4. \A c, k : c # b => (<<k, c>> \in topics' <=> <<k, c>> \in topics)
      BY <2>2
    <2> QED BY <1>1, <2>1, <2>3, <2>4
            DEF CustomerPays, Local, Kept, ClaimKept, OtherMoney, Money, SagaTypeOK
  <1>2. CASE TimePasses(b)
    BY <1>2 DEF TimePasses, Local, Kept, ClaimKept, SagaTypeOK
  <1>3. CASE Crash(b, r)
    <2>1. OthersRest(b, r) /\ at' \in [Bookings -> [Roles -> Thread]]
      BY <1>3, GotoFacts, RestFacts DEF Crash, PCs, Ended
    <2>2. crashes' \in 0..MaxCrashes
      BY <1>3, BoundsAssumption DEF Crash, SagaTypeOK
    <2> QED BY <1>3, <2>1, <2>2 DEF Crash, Local, Kept, ClaimKept, OthersRest, SagaTypeOK
  <1> QED BY <1>1, <1>2, <1>3

\* A step of SagaNext is a step of one booking; the others keep everything.
LEMMA StepsAreLocal ==
  ASSUME SagaTypeOK, NEW b \in Bookings, NEW r \in Roles,
         ServiceStep(b) \/ Surroundings(b) \/ Crash(b, r)
  PROVE  Local(b)
BY CreateLocal, PaymentLocal, CancelLocal, ExpiryLocal, UndoLocal, OutsideLocal
   DEF ServiceStep, Surroundings

LEMMA SagaTypeStep == SagaTypeOK /\ [SagaNext]_sagaVars => SagaTypeOK'
  <1> SUFFICES ASSUME SagaTypeOK, [SagaNext]_sagaVars PROVE SagaTypeOK'
    OBVIOUS
  <1>1. CASE UNCHANGED sagaVars
    BY <1>1 DEF sagaVars, SagaTypeOK
  <1>2. CASE SagaNext
    <2>1. PICK b \in Bookings, r \in Roles : ServiceStep(b) \/ Surroundings(b) \/ Crash(b, r)
      BY <1>2, RoleNames DEF SagaNext
    <2> QED BY <2>1, StepsAreLocal DEF Local
  <1> QED BY <1>1, <1>2

LEMMA SagaTypeInit == SagaInit => SagaTypeOK
  <1> SUFFICES ASSUME SagaInit PROVE SagaTypeOK
    OBVIOUS
  <1>1. NoBooking \in BookingRow
    BY BoundsAssumption DEF NoBooking, BookingRow, Status
  <1>2. crashes \in 0..MaxCrashes
    BY BoundsAssumption DEF SagaInit
  <1> QED BY <1>1, <1>2, RestingType DEF SagaInit, SagaTypeOK

\* Every variable of the saga keeps its type; in particular no handler, job or
\* request writes a status that the bookings schema does not have.
THEOREM SagaTypeCorrect == SagaSpec => []SagaTypeOK
BY SagaTypeInit, SagaTypeStep, PTL DEF SagaSpec

-----------------------------------------------------------------------------
(* A confirmed booking is paid: PaidInv is kept, one actor at a time *)

\* One instance of the consumer at a time has a PAYMENT_SUCCESS.
SingleConsumer == \A h, k \in Handlers : h = k

LEMMA PaidKept ==
  ASSUME NEW c \in Bookings, PaidInv(c), Kept(c)
  PROVE  PaidInv(c)'
BY DEF PaidInv, BeforeAnswer, Announced, HandlerInv, CancelInv, EndInv, Saw, Kept

\* createBooking moves its own thread only.
LEMMA CreateAlone ==
  ASSUME SagaTypeOK, NEW b \in Bookings, StartBooking(b) \/ CreateStep(b)
  PROVE  OthersRest(b, "create")
  <1> USE RoleNames
  <1>1. CASE AnswerCreate(b)
    <2>1. PICK t \in Thread : Put(b, "create", t)
      <3>1. CASE Goto(b, "create", "returned")
        BY <3>1, ThreadFields DEF Goto, Thread, Ended
      <3>2. CASE \E row \in {Saw(b, "create"), booking[b]} :
                   Put(b, "create", [pc |-> "undo", saw |-> row, todo |-> {}])
        BY <3>2, ThreadType, ThreadFields, RowFields DEF Saw, PCs
      <3> QED BY <1>1, <3>1, <3>2 DEF AnswerCreate
    <2> QED BY <2>1, PutFacts
  <1>2. CASE StartBooking(b) \/ AcquireSeatLocks(b) \/ InsertBooking(b)
    BY <1>2, GotoFacts, RestFacts DEF StartBooking, AcquireSeatLocks, InsertBooking, PCs
  <1>3. CASE ExecuteHoldSeats(b) \/ ExecuteCreatePayment(b) \/ FailCreate(b)
    BY <1>3, GotoFacts DEF ExecuteHoldSeats, ExecuteCreatePayment, FailCreate, PCs, Ended
  <1>4. CASE MarkHeld(b) \/ MarkPending(b)
    BY <1>4, GotoFacts DEF MarkHeld, MarkPending, PCs
  <1>5. CASE LogCompleted(b, "create")
    BY <1>5, LogMoves
  <1> QED BY <1>1, <1>2, <1>3, <1>4, <1>5 DEF CreateStep

\* compensateAll moves its own thread, and writes no row.
LEMMA UndoMoves ==
  ASSUME SagaTypeOK, NEW b \in Bookings, NEW r \in Roles, ReadCompleted(b, r) \/ Compensate(b, r)
  PROVE  /\ at[b][r].pc \in {"undo", "undoing"} /\ at'[b][r].pc = "undoing"
         /\ OthersRest(b, r) /\ UNCHANGED <<booking, topics, due>>
  <1>1. CASE ReadCompleted(b, r)
    <2> DEFINE todo == done[b] \cap Steps
    <2>1. todo \in SUBSET Steps /\ Put(b, r, [at[b][r] EXCEPT !.pc = "undoing", !.todo = todo])
      BY <1>1 DEF ReadCompleted
    <2> HIDE DEF todo
    <2> QED BY <1>1, <2>1, TodoFacts DEF ReadCompleted, At
  <1>2. CASE Compensate(b, r)
    <2>1. /\ at[b][r].pc = "undoing" /\ at'[b][r].pc = "undoing" /\ OthersRest(b, r)
          /\ UNCHANGED <<booking, redis, due, topics, crashes>>
      BY <1>2, CompensateFacts
    <2> QED BY <2>1
  <1> QED BY <1>1, <1>2

\* The failure handler claims the booking, or gives the message back.
LEMMA FailureClaimMoves ==
  ASSUME SagaTypeOK, NEW b \in Bookings, ClaimForFailure(b)
  PROVE  OthersRest(b, "failure") /\ at'[b]["failure"].pc # "claim"
  <1>1. {"HOLD_SEATS"} \in SUBSET Steps /\ "failure" \in Roles
    BY StepNames, RoleNames
  <1>2. CASE Unchanged(b, "failure")
    <2> DEFINE todo == {"HOLD_SEATS"}
    <2>1. Put(b, "failure", [at[b]["failure"] EXCEPT !.pc = "undoing", !.todo = todo])
      BY <1>2 DEF ClaimForFailure
    <2>2. todo \in SUBSET Steps
      BY <1>1
    <2> HIDE DEF todo
    <2> QED BY <1>1, <2>1, <2>2, TodoFacts
  <1>3. CASE ~Unchanged(b, "failure")
    BY <1>1, <1>3, RestFacts, SMTT(30) DEF ClaimForFailure
  <1> QED BY <1>2, <1>3

LEMMA CreatePaid ==
  ASSUME SagaTypeOK, NEW b \in Bookings, PaidInv(b), StartBooking(b) \/ CreateStep(b)
  PROVE  PaidInv(b)'
  <1> USE RoleNames, ThreadFields, RowFields, PayFields
      DEF PaidInv, BeforeAnswer, Announced, HandlerInv, CancelInv, EndInv, Saw, Ended, Over,
          Gone, Closed, Unpaid, Status
  <1>1. CASE StartBooking(b)
    <2>1. at'[b]["create"].pc = "lock" /\ OthersRest(b, "create") /\ at[b]["create"].pc = "idle"
      BY <1>1, GotoFacts DEF StartBooking, PCs, At
    <2> QED BY <1>1, <2>1 DEF StartBooking, OthersRest
  <1>2. CASE AcquireSeatLocks(b)
    <2>1. at'[b]["create"].pc \in {"insert", "idle"} /\ OthersRest(b, "create")
          /\ at[b]["create"].pc = "lock"
      BY <1>2, GotoFacts, RestFacts DEF AcquireSeatLocks, PCs, At
    <2> QED BY <1>2, <2>1 DEF AcquireSeatLocks, OthersRest
  <1>3. CASE InsertBooking(b)
    <2>1. at'[b]["create"].pc \in {"hold", "idle"} /\ OthersRest(b, "create")
          /\ at[b]["create"].pc = "insert"
      BY <1>3, GotoFacts, RestFacts DEF InsertBooking, PCs, At
    <2>2. booking'[b].version = booking[b].version
          /\ booking'[b].status \in {booking[b].status, "PENDING"}
      BY <1>3, WriteFacts DEF InsertBooking, Status
    <2> QED BY <1>3, <2>1, <2>2 DEF InsertBooking, OthersRest
  <1>4. CASE ExecuteHoldSeats(b)
    <2>1. at'[b]["create"].pc \in {"logHold", "undo"} /\ OthersRest(b, "create")
          /\ at[b]["create"].pc = "hold"
      BY <1>4, GotoFacts DEF ExecuteHoldSeats, PCs, At
    <2> QED BY <1>4, <2>1 DEF ExecuteHoldSeats, OthersRest
  <1>5. CASE ExecuteCreatePayment(b)
    <2>1. at'[b]["create"].pc \in {"logOrder", "undo"} /\ OthersRest(b, "create")
          /\ at[b]["create"].pc = "order"
      BY <1>5, GotoFacts DEF ExecuteCreatePayment, PCs, At
    <2>2. pay'[b].money = pay[b].money
      BY <1>5, OrderPlaced DEF ExecuteCreatePayment
    <2> QED BY <1>5, <2>1, <2>2 DEF ExecuteCreatePayment, OthersRest
  <1>6. CASE AnswerCreate(b)
    <2>1. OthersRest(b, "create") /\ at[b]["create"].pc = "answer"
      <3>1. CreateStep(b) /\ at[b]["create"].pc = "answer"
        BY <1>6 DEF AnswerCreate, CreateStep, At
      <3> QED BY <3>1, CreateAlone
    <2> QED BY <1>6, <2>1 DEF AnswerCreate, OthersRest
  <1>7. CASE FailCreate(b)
    <2>1. at'[b]["create"].pc = "failed" /\ OthersRest(b, "create")
          /\ at[b]["create"].pc = "undoing"
      <3>1. Goto(b, "create", "failed") /\ at[b]["create"].pc = "undoing"
        BY <1>7 DEF FailCreate, Compensated, At
      <3> QED BY <3>1, GotoFacts DEF PCs
    <2>2. booking'[b].version = booking[b].version /\ booking'[b].status = "FAILED"
      BY <1>7, WriteFacts, SMTT(30) DEF FailCreate, Status
    <2> QED BY <1>7, <2>1, <2>2 DEF FailCreate, OthersRest
  <1>8. CASE MarkHeld(b) \/ MarkPending(b)
    <2>1. at'[b]["create"].pc \in {"order", "answer"} /\ OthersRest(b, "create")
          /\ at[b]["create"].pc \in {"markHeld", "markPending"} /\ UNCHANGED <<pay, topics, due>>
      BY <1>8, GotoFacts DEF MarkHeld, MarkPending, PCs, At
    <2>2. booking'[b].version = booking[b].version
          /\ booking'[b].status \in {"SEATS_HELD", "PAYMENT_PENDING"}
      BY <1>8, WriteFacts, OrderFacts DEF MarkHeld, MarkPending, Status
    <2> QED BY <2>1, <2>2 DEF OthersRest
  <1>9. CASE LogCompleted(b, "create")
    <2>1. at'[b]["create"].pc \notin Ended /\ at[b]["create"].pc \notin Ended
          /\ OthersRest(b, "create") /\ UNCHANGED <<booking, pay, topics, due>>
      BY <1>9, LogMoves DEF Ended
    <2> QED BY <2>1 DEF OthersRest
  <1> QED BY <1>1, <1>2, <1>3, <1>4, <1>5, <1>6, <1>7, <1>8, <1>9 DEF CreateStep

LEMMA PaymentPaid ==
  ASSUME SagaTypeOK, SingleConsumer, NEW b \in Bookings, PaidInv(b), PaymentStep(b)
  PROVE  PaidInv(b)'
  <1> USE RoleNames, ThreadFields, RowFields, PayFields
      DEF PaidInv, BeforeAnswer, Announced, HandlerInv, CancelInv, EndInv, Saw, Ended, Over,
          Gone, Closed, Unpaid, Status
  <1>1. ASSUME NEW h \in Handlers, ReadPaymentSuccess(b, h)
        PROVE  PaidInv(b)'
    <2>1. CASE AwaitsPayment(b)
      <3>1. at'[b][h].pc = "claim" /\ at'[b][h].saw = booking[b] /\ OthersRest(b, h)
            /\ at[b][h].pc = "idle" /\ UNCHANGED <<booking, pay, topics, due>>
            /\ <<"PAYMENT_SUCCESS", b>> \in topics
        BY <1>1, <2>1, ReadFacts DEF ReadPaymentSuccess, At
      <3> QED BY <2>1, <3>1 DEF AwaitsPayment, SingleConsumer, OthersRest
    <2>2. CASE ~AwaitsPayment(b)
      <3>1. topics' = topics \ {<<"PAYMENT_SUCCESS", b>>} /\ UNCHANGED <<at, booking, pay, due>>
            /\ at[b][h].pc = "idle" /\ <<"PAYMENT_SUCCESS", b>> \notin topics'
            /\ (<<"PAYMENT_FAILED", b>> \in topics' => <<"PAYMENT_FAILED", b>> \in topics)
        BY <1>1, <2>2 DEF ReadPaymentSuccess, Commit, At
      <3> QED BY <3>1 DEF SingleConsumer
    <2> QED BY <2>1, <2>2
  <1>2. ASSUME NEW h \in Handlers, ClaimForPayment(b, h)
        PROVE  PaidInv(b)'
    <2>0. at[b][h].pc = "claim" /\ UNCHANGED <<pay, topics, due>>
      BY <1>2 DEF ClaimForPayment, At
    <2>1. CASE Unchanged(b, h)
      <3>1. at'[b][h].pc = "confirm" /\ OthersRest(b, h)
        BY <1>2, <2>1, GotoFacts DEF ClaimForPayment, PCs
      <3>2. booking'[b].status = "CONFIRMING" /\ booking'[b].version = booking[b].version + 1
        BY <1>2, <2>1, BumpFacts DEF ClaimForPayment, Status
      <3> QED BY <2>0, <2>1, <3>1, <3>2 DEF Unchanged, SingleConsumer, OthersRest
    <2>2. CASE ~Unchanged(b, h)
      <3>1. at'[b][h].pc = "undo" /\ OthersRest(b, h)
        BY <1>2, <2>2, GotoFacts DEF ClaimForPayment, PCs
      <3>2. UNCHANGED booking
        BY <1>2, <2>2 DEF ClaimForPayment
      <3> QED BY <2>0, <2>2, <3>1, <3>2 DEF Unchanged, SingleConsumer, OthersRest
    <2> QED BY <2>1, <2>2
  <1>3. ASSUME NEW h \in Handlers, ExecuteConfirmSeats(b, h)
        PROVE  PaidInv(b)'
    <2>1. at'[b][h].pc \in {"logConfirm", "undo"} /\ OthersRest(b, h) /\ at[b][h].pc = "confirm"
      BY <1>3, GotoFacts DEF ExecuteConfirmSeats, PCs, At
    <2> QED BY <1>3, <2>1 DEF ExecuteConfirmSeats, SingleConsumer, OthersRest
  <1>4. ASSUME NEW h \in Handlers, ConfirmBooking(b, h)
        PROVE  PaidInv(b)'
    <2>1. at'[b][h].pc = "idle" /\ OthersRest(b, h) /\ at[b][h].pc = "finish"
          /\ UNCHANGED <<pay, due>>
      BY <1>4, RestFacts DEF ConfirmBooking, At
    <2>2. booking'[b].status = "CONFIRMED" /\ booking'[b].version = booking[b].version + 1
      BY <1>4, <2>1, BumpFacts DEF ConfirmBooking, Status, PaidInv, HandlerInv
    <2>3. <<"PAYMENT_SUCCESS", b>> \notin topics'
          /\ (<<"PAYMENT_FAILED", b>> \in topics' => <<"PAYMENT_FAILED", b>> \in topics)
      BY <1>4 DEF ConfirmBooking, Commit
    <2> QED BY <2>1, <2>2, <2>3 DEF SingleConsumer, OthersRest
  <1>5. ASSUME NEW h \in Handlers, FailPayment(b, h)
        PROVE  PaidInv(b)'
    <2>1. at'[b][h].pc = "idle" /\ OthersRest(b, h) /\ at[b][h].pc = "undoing"
          /\ UNCHANGED <<pay, due>>
      BY <1>5, RestFacts DEF FailPayment, Compensated, At
    <2>2. \/ booking'[b].status = "FAILED" /\ booking'[b].version = booking[b].version + 1
          \/ booking'[b] = booking[b] /\ booking[b].status # "CONFIRMING"
      BY <1>5, BumpFacts DEF FailPayment, Status
    <2>3. <<"PAYMENT_SUCCESS", b>> \notin topics'
          /\ (<<"PAYMENT_FAILED", b>> \in topics' => <<"PAYMENT_FAILED", b>> \in topics)
      BY <1>5 DEF FailPayment, Commit
    <2> QED BY <2>1, <2>2, <2>3 DEF SingleConsumer, OthersRest
  <1>6. CASE ReadPaymentFailure(b)
    <2>1. OthersRest(b, "failure") /\ UNCHANGED <<booking, pay, due>>
          /\ <<"PAYMENT_FAILED", b>> \in topics
      BY <1>6, ReadFacts DEF ReadPaymentFailure, OthersRest
    <2>2. <<"PAYMENT_SUCCESS", b>> \in topics' <=> <<"PAYMENT_SUCCESS", b>> \in topics
      BY <1>6 DEF ReadPaymentFailure, Commit
    <2>3. \/ at'[b]["failure"] = at[b]["failure"]
          \/ /\ at'[b]["failure"].pc = "claim" /\ at'[b]["failure"].saw = booking[b]
             /\ booking[b].status = "PAYMENT_PENDING"
      BY <1>6, ReadFacts DEF ReadPaymentFailure, AwaitsPayment
    <2> QED BY <2>1, <2>2, <2>3, SMTT(30) DEF OthersRest
  <1>7. CASE ClaimForFailure(b)
    <2>1. OthersRest(b, "failure") /\ at[b]["failure"].pc = "claim"
          /\ UNCHANGED <<pay, topics, due>>
      BY <1>7, FailureClaimMoves DEF ClaimForFailure, At
    <2>2. \/ /\ booking[b].status = "PAYMENT_PENDING" /\ booking'[b].status = "FAILED"
             /\ booking'[b].version = booking[b].version + 1
          \/ booking'[b] = booking[b] /\ at'[b]["failure"].pc = "idle"
      <3>1. CASE Unchanged(b, "failure")
        BY <1>7, <2>1, <3>1, BumpFacts DEF ClaimForFailure, Unchanged
      <3>2. CASE ~Unchanged(b, "failure")
        BY <1>7, <3>2, RestFacts DEF ClaimForFailure
      <3> QED BY <3>1, <3>2
    <2>3. at'[b]["failure"].pc # "claim"
      BY <1>7, FailureClaimMoves
    <2> QED BY <2>1, <2>2, <2>3, SMTT(30) DEF OthersRest
  <1>8. CASE Release(b, "failure")
    <2>1. at'[b]["failure"].pc = "idle" /\ OthersRest(b, "failure")
          /\ UNCHANGED <<booking, pay, due>>
      BY <1>8, RestFacts DEF Release
    <2>2. (<<"PAYMENT_SUCCESS", b>> \in topics' <=> <<"PAYMENT_SUCCESS", b>> \in topics)
          /\ <<"PAYMENT_FAILED", b>> \notin topics'
      BY <1>8, SMTT(30) DEF Release
    <2> QED BY <2>1, <2>2 DEF OthersRest
  <1>9. ASSUME NEW h \in Handlers, LogCompleted(b, h)
        PROVE  PaidInv(b)'
    <2>1. /\ at[b][h].pc \in {"logConfirm", "logHold", "logOrder"}
          /\ at'[b][h].pc \in {"finish", "markHeld", "markPending"}
          /\ at'[b][h].pc = "finish" => at[b][h].pc = "logConfirm"
          /\ OthersRest(b, h) /\ UNCHANGED <<booking, pay, topics, due>>
      BY <1>9, LogMoves
    <2> QED BY <2>1 DEF SingleConsumer, OthersRest
  <1> QED BY <1>1, <1>2, <1>3, <1>4, <1>5, <1>6, <1>7, <1>8, <1>9 DEF PaymentStep

LEMMA CancelPaid ==
  ASSUME SagaTypeOK, SingleConsumer, NEW b \in Bookings, PaidInv(b),
         ReadForCancel(b) \/ CancelStep(b)
  PROVE  PaidInv(b)'
  <1> USE RoleNames, ThreadFields, RowFields, PayFields
      DEF PaidInv, BeforeAnswer, Announced, HandlerInv, CancelInv, EndInv, Saw, Ended, Over,
          Gone, Closed, Unpaid, Status
  <1>1. CASE ReadForCancel(b)
    <2>1. at'[b]["cancel"].pc = "claim" /\ at'[b]["cancel"].saw = booking[b]
          /\ OthersRest(b, "cancel")
      BY <1>1, ReadFacts DEF ReadForCancel
    <2> QED BY <1>1, <2>1 DEF ReadForCancel, OthersRest
  <1>2. CASE ClaimForCancel(b)
    <2>0. at[b]["cancel"].pc = "claim" /\ UNCHANGED <<pay, topics, due>>
      BY <1>2 DEF ClaimForCancel, At
    <2>1. CASE Unchanged(b, "cancel")
      <3>1. at'[b]["cancel"].pc = AfterClaim(Saw(b, "cancel").status) /\ OthersRest(b, "cancel")
        BY <1>2, <2>1, GotoFacts DEF ClaimForCancel, AfterClaim, PCs
      <3>2. booking'[b].status = "CANCELLING" /\ booking'[b].version = booking[b].version + 1
        BY <1>2, <2>1, BumpFacts DEF ClaimForCancel, Status
      <3>3. at'[b]["cancel"].pc = "free" =>
              booking[b].status = "CONFIRMED" /\ pay[b].money = "paid"
              /\ <<"PAYMENT_SUCCESS", b>> \notin topics
        BY <2>0, <2>1, <3>1 DEF Unchanged, AfterClaim, CancelInv, PaidInv, Saw, Unpaid
      <3>4. at'[b]["cancel"].pc \in {"free", "close", "release"}
        BY <3>1 DEF AfterClaim
      <3>5. booking[b].status \in Unpaid \cup {"FAILED", "CONFIRMED"}
        BY <2>0, <2>1 DEF Unchanged, CancelInv, PaidInv, Saw
      <3> QED BY <2>0, <3>1, <3>2, <3>3, <3>4, <3>5, SMTT(30) DEF OthersRest
    <2>2. CASE ~Unchanged(b, "cancel")
      <3>1. at'[b]["cancel"].pc = "idle" /\ OthersRest(b, "cancel") /\ UNCHANGED booking
        BY <1>2, <2>2, RestFacts DEF ClaimForCancel
      <3> QED BY <2>0, <3>1 DEF OthersRest
    <2> QED BY <2>1, <2>2
  <1>3. CASE ReleaseOnCancel(b) \/ RefundOnCancel(b)
    <2>0. Goto(b, "cancel", "close") /\ at[b]["cancel"].pc \in {"release", "refund"}
      BY <1>3 DEF ReleaseOnCancel, RefundOnCancel, At
    <2>1. at'[b]["cancel"].pc = "close" /\ OthersRest(b, "cancel")
          /\ at[b]["cancel"].pc \in {"release", "refund"}
      BY <2>0, GotoFacts DEF PCs
    <2>2. UNCHANGED <<booking, topics, due>>
      BY <1>3 DEF ReleaseOnCancel, RefundOnCancel
    <2>3. \/ pay'[b].money = pay[b].money
          \/ /\ at[b]["cancel"].pc = "refund"
             /\ pay[b].money = "paid" /\ pay'[b].money = "refunded"
      BY <1>3, RefundFacts DEF ReleaseOnCancel, RefundOnCancel, At
    <2> QED BY <2>1, <2>2, <2>3 DEF OthersRest
  <1>4. CASE FreeOnCancel(b)
    <2>1. at'[b]["cancel"].pc \in {"refund", "close", "idle"} /\ OthersRest(b, "cancel")
          /\ at[b]["cancel"].pc = "free" /\ UNCHANGED <<pay, topics, due>>
      BY <1>4, GotoFacts, RestFacts DEF FreeOnCancel, PCs, At
    <2>2. \/ booking'[b] = booking[b]
          \/ booking'[b].status = "CONFIRMED" /\ booking'[b].version = booking[b].version + 1
             /\ at'[b]["cancel"].pc = "idle"
      BY <1>4, BumpFacts, RestFacts DEF FreeOnCancel, Status
    <2> QED BY <2>1, <2>2 DEF OthersRest
  <1>5. CASE CloseCancelled(b)
    <2>1. at'[b]["cancel"].pc = "idle" /\ OthersRest(b, "cancel") /\ UNCHANGED <<pay, topics, due>>
      BY <1>5, RestFacts DEF CloseCancelled
    <2>2. \/ booking'[b] = booking[b]
          \/ booking[b].status = "CANCELLING" /\ booking'[b].status = "CANCELLED"
             /\ booking'[b].version = booking[b].version + 1
      BY <1>5, BumpFacts DEF CloseCancelled, Status
    <2> QED BY <2>1, <2>2 DEF OthersRest
  <1> QED BY <1>1, <1>2, <1>3, <1>4, <1>5 DEF CancelStep

LEMMA ExpiryPaid ==
  ASSUME SagaTypeOK, NEW b \in Bookings, PaidInv(b), ExpiryStep(b)
  PROVE  PaidInv(b)'
  <1> USE RoleNames, ThreadFields, RowFields, PayFields
      DEF PaidInv, BeforeAnswer, Announced, HandlerInv, CancelInv, EndInv, Saw, Ended, Over,
          Gone, Closed, Unpaid, Status
  <1>1. CASE ReadExpired(b)
    <2>1. at'[b]["expiry"].pc = "claim" /\ OthersRest(b, "expiry") /\ b \in due
      BY <1>1, ReadFacts DEF ReadExpired
    <2> QED BY <1>1, <2>1 DEF ReadExpired, OthersRest
  <1>2. CASE ClaimForExpiry(b)
    <2>0. at[b]["expiry"].pc = "claim" /\ UNCHANGED <<pay, topics, due>>
      BY <1>2 DEF ClaimForExpiry, At
    <2>1. \/ /\ booking[b].status \in Unpaid /\ booking'[b].status = "EXPIRED"
             /\ booking'[b].version = booking[b].version + 1
             /\ at'[b]["expiry"].pc = "undo" /\ OthersRest(b, "expiry")
          \/ /\ booking'[b] = booking[b]
             /\ at'[b]["expiry"].pc = "idle" /\ OthersRest(b, "expiry")
      BY <1>2, BumpFacts, GotoFacts, RestFacts DEF ClaimForExpiry, Status, PCs
    <2> QED BY <2>0, <2>1 DEF OthersRest
  <1>3. CASE Release(b, "expiry")
    <2>1. at'[b]["expiry"].pc = "idle" /\ OthersRest(b, "expiry")
          /\ UNCHANGED <<booking, pay, topics, due>>
      BY <1>3, RestFacts DEF Release
    <2> QED BY <2>1 DEF OthersRest
  <1> QED BY <1>1, <1>2, <1>3 DEF ExpiryStep

\* Compensation returns money only of a booking that is in a status of Gone, and
\* there no thread relies on it.
LEMMA UndoPaid ==
  ASSUME SagaTypeOK, SingleConsumer, NEW b \in Bookings, PaidInv(b), Undo(b)
  PROVE  PaidInv(b)'
  <1> USE RoleNames, ThreadFields, RowFields, PayFields
      DEF PaidInv, BeforeAnswer, Announced, HandlerInv, CancelInv, EndInv, Saw, Ended, Over,
          Gone, Closed, Unpaid, Status
  <1>1. PICK r \in Roles : ReadCompleted(b, r) \/ Compensate(b, r)
    BY DEF Undo
  <1>2. /\ at[b][r].pc \in {"undo", "undoing"} /\ at'[b][r].pc = "undoing"
        /\ OthersRest(b, r) /\ UNCHANGED <<booking, topics, due>>
        /\ \/ pay'[b].money = pay[b].money
           \/ pay[b].money = "paid" /\ pay'[b].money = "refunded"
    <2>1. pay' = Refunded(b) \/ UNCHANGED pay
      BY <1>1, CompensateFacts DEF ReadCompleted
    <2> QED BY <1>1, <2>1, UndoMoves, RefundFacts
  <1>3. r # "cancel"
    BY <1>2 DEF PaidInv, CancelInv
  <1>4. CASE r = "create"
    <2>1. pay'[b].money = pay[b].money
      BY <1>2, <1>4 DEF PaidInv, BeforeAnswer, Ended
    <2> QED BY <1>2, <1>4, <2>1 DEF OthersRest
  <1>5. CASE r = "expiry" \/ r = "failure"
    <2>1. \A q \in Roles \ {r} : at'[b][q] = at[b][q]
      BY <1>2, <1>5 DEF OthersRest
    <2>2. /\ booking[b].status \in Over /\ at[b]["cancel"].pc # "free"
          /\ \A h \in Handlers : at[b][h].pc \notin {"confirm", "logConfirm", "finish"}
          /\ at[b]["create"].pc \in Ended
      BY <1>2, <1>5 DEF PaidInv, EndInv, HandlerInv, BeforeAnswer, Announced
    <2> QED BY <1>2, <1>5, <2>1, <2>2
  <1>6. CASE r \in Handlers
    BY <1>2, <1>6 DEF SingleConsumer, OthersRest
  <1> QED BY <1>3, <1>4, <1>5, <1>6 DEF Roles

LEMMA OutsidePaid ==
  ASSUME SagaTypeOK, SingleConsumer, NEW b \in Bookings, PaidInv(b), NEW r \in Roles,
         CustomerPays(b) \/ TimePasses(b) \/ Crash(b, r)
  PROVE  PaidInv(b)'
  <1> USE RoleNames, ThreadFields, RowFields, PayFields
      DEF PaidInv, BeforeAnswer, Announced, HandlerInv, CancelInv, EndInv, Saw, Ended, Over,
          Gone, Closed, Unpaid, Status
  <1>1. CASE CustomerPays(b)
    <2>1. \/ pay'[b].money = "paid"
          \/ /\ pay'[b].money = "failed"
             /\ <<"PAYMENT_SUCCESS", b>> \in topics' <=> <<"PAYMENT_SUCCESS", b>> \in topics
      <3>1. PICK news \in SUBSET {"PAYMENT_SUCCESS", "PAYMENT_FAILED"} :
              /\ \/ pay' = [pay EXCEPT ![b].money = "paid"]
                 \/ /\ "PAYMENT_SUCCESS" \notin news
                    /\ pay' = [pay EXCEPT ![b].money = "failed"]
              /\ topics' = topics \cup (news \X {b})
        BY <1>1 DEF CustomerPays
      <3> QED BY <3>1, MoneyMoves DEF Money
    <2>2. pay[b].money = "none" /\ UNCHANGED <<booking, at, due>> /\ at[b]["create"].pc = "returned"
      BY <1>1 DEF CustomerPays, At
    <2> QED BY <2>1, <2>2
  <1>2. CASE TimePasses(b)
    BY <1>2 DEF TimePasses
  <1>3. CASE Crash(b, r)
    <2>1. /\ at'[b][r].pc = (IF r = "create" THEN "dead" ELSE "idle") /\ OthersRest(b, r)
          /\ UNCHANGED <<booking, pay, topics, due>>
      BY <1>3, GotoFacts, RestFacts DEF Crash, PCs, Ended
    <2> QED BY <2>1 DEF SingleConsumer, OthersRest
  <1> QED BY <1>1, <1>2, <1>3

\* The booking of the step keeps its invariant, and so do the others.
LEMMA AllPaidStep ==
  ASSUME SingleConsumer, SagaTypeOK, AllPaid, NEW b \in Bookings, NEW r \in Roles,
         ServiceStep(b) \/ Surroundings(b) \/ Crash(b, r)
  PROVE  AllPaid'
  <1>1. PaidInv(b)'
    BY CreatePaid, PaymentPaid, CancelPaid, ExpiryPaid, UndoPaid, OutsidePaid
       DEF AllPaid, ServiceStep, Surroundings
  <1>2. ASSUME NEW c \in Bookings, c # b PROVE PaidInv(c)'
    BY <1>2, StepsAreLocal, PaidKept DEF Local, AllPaid
  <1> QED BY <1>1, <1>2 DEF AllPaid

LEMMA AllPaidInit == SagaInit => AllPaid
  <1> SUFFICES ASSUME SagaInit, NEW b \in Bookings PROVE PaidInv(b)
    BY DEF AllPaid
  <1>1. booking[b].status = "NONE" /\ pay[b].money = "none" /\ \A r \in Roles : at[b][r].pc = "idle"
    BY DEF SagaInit, NoBooking, Resting
  <1> QED BY <1>1, RoleNames
          DEF SagaInit, PaidInv, BeforeAnswer, Announced, HandlerInv, CancelInv, EndInv, Saw,
              Ended, Over, Gone, Closed, Unpaid, Status

LEMMA AllPaidNext ==
  SingleConsumer /\ SagaTypeOK /\ AllPaid /\ [SagaNext]_sagaVars => AllPaid'
  <1> SUFFICES ASSUME SingleConsumer, SagaTypeOK, AllPaid, [SagaNext]_sagaVars PROVE AllPaid'
    OBVIOUS
  <1>1. CASE UNCHANGED sagaVars
    <2>1. \A c \in Bookings : Kept(c)
      BY <1>1 DEF sagaVars, Kept
    <2> QED BY <2>1, PaidKept DEF AllPaid
  <1>2. CASE SagaNext
    <2>1. PICK b \in Bookings, r \in Roles : ServiceStep(b) \/ Surroundings(b) \/ Crash(b, r)
      BY <1>2, RoleNames DEF SagaNext
    <2> QED BY <2>1, AllPaidStep
  <1> QED BY <1>1, <1>2

\* Whoever has a confirmed booking has paid for it and has not been given the
\* money back, whatever calls are lost and wherever threads stop - as long as one
\* consumer at a time has a payment's message (with two, see saga_duplicate).
THEOREM ConfirmedArePaid ==
  ASSUME SingleConsumer
  PROVE  SagaSpec => []ConfirmedIsPaid
  <1>1. AllPaid => ConfirmedIsPaid
    BY DEF AllPaid, PaidInv, ConfirmedIsPaid
  <1> QED BY <1>1, SagaTypeInit, SagaTypeStep, AllPaidInit, AllPaidNext, PTL DEF SagaSpec

-----------------------------------------------------------------------------
(* A confirmed booking has its seats, when every call answers what it did *)

LEMMA SeatsKept ==
  ASSUME NEW c \in Bookings, SeatsInv(c), Kept(c), claim' = c <=> claim = c
  PROVE  SeatsInv(c)'
BY DEF SeatsInv, Kept

LEMMA BookingNames == \A b \in Bookings : b # "free" /\ b # "held"
BY BookingsAssumption

LEMMA CreateRuns ==
  ASSUME NEW b \in Bookings, StartBooking(b) \/ CreateStep(b)
  PROVE  at[b]["create"].pc \notin Ended
BY DEF StartBooking, CreateStep, AcquireSeatLocks, InsertBooking, ExecuteHoldSeats, MarkHeld,
       ExecuteCreatePayment, MarkPending, LogCompleted, Logs, AnswerCreate, FailCreate,
       Compensated, At, Ended

LEMMA CreateSeats ==
  ASSUME SagaTypeOK, NEW b \in Bookings, PaidInv(b), SeatsInv(b), StartBooking(b) \/ CreateStep(b)
  PROVE  SeatsInv(b)'
  <1> USE RoleNames, BookingNames
  <1>0. claim # b /\ at[b]["create"].pc \notin Ended /\ pay[b].money = "none"
        /\ booking[b].status # "CONFIRMED"
    <2>1. at[b]["create"].pc \notin Ended
      BY CreateRuns
    <2> QED BY <2>1 DEF SeatsInv, PaidInv, BeforeAnswer
  <1>1. claim' # b
    BY <1>0, CallFacts DEF StartBooking, CreateStep, AcquireSeatLocks, InsertBooking,
       ExecuteHoldSeats, MarkHeld, ExecuteCreatePayment, MarkPending, LogCompleted, Logs,
       AnswerCreate, FailCreate
  <1>2. OthersRest(b, "create")
    BY CreateAlone
  <1>3. booking'[b].status # "CONFIRMED"
    <2>1. CASE StartBooking(b) \/ AcquireSeatLocks(b) \/ InsertBooking(b)
      BY <1>0, <2>1, WriteFacts DEF StartBooking, AcquireSeatLocks, InsertBooking, Status
    <2>2. CASE ExecuteHoldSeats(b) \/ ExecuteCreatePayment(b) \/ FailCreate(b) \/ AnswerCreate(b)
      BY <1>0, <2>2, WriteFacts
         DEF ExecuteHoldSeats, ExecuteCreatePayment, FailCreate, AnswerCreate, Status
    <2>3. CASE MarkHeld(b) \/ MarkPending(b) \/ LogCompleted(b, "create")
      BY <1>0, <2>3, WriteFacts, OrderFacts DEF MarkHeld, MarkPending, LogCompleted, Logs, Status
    <2> QED BY <2>1, <2>2, <2>3 DEF CreateStep
  <1>4. \A h \in Handlers : at[b][h].pc = "idle"
    BY <1>0 DEF PaidInv, BeforeAnswer, Announced
  <1>5. at[b]["cancel"].pc # "free"
    BY <1>0 DEF PaidInv, BeforeAnswer
  <1> QED BY <1>1, <1>2, <1>3, <1>4, <1>5 DEF SeatsInv, OthersRest

LEMMA PaymentSeats ==
  ASSUME Losses = FALSE, SingleConsumer, SagaTypeOK, NEW b \in Bookings, PaidInv(b), SeatsInv(b),
         PaymentStep(b)
  PROVE  SeatsInv(b)'
  <1> USE RoleNames, BookingNames, ThreadFields, RowFields
  <1>1. ASSUME NEW h \in Handlers, ReadPaymentSuccess(b, h)
        PROVE  SeatsInv(b)'
    <2>1. UNCHANGED <<booking, pay, claim>> /\ at[b][h].pc = "idle" /\ OthersRest(b, h)
      BY <1>1, ReadFacts DEF ReadPaymentSuccess, At, OthersRest
    <2>2. at'[b][h].pc = "idle" \/ (at'[b][h].pc = "claim" /\ booking[b].status = "PAYMENT_PENDING")
      BY <1>1, ReadFacts DEF ReadPaymentSuccess, AwaitsPayment, At
    <2> QED BY <2>1, <2>2
            DEF SingleConsumer, OthersRest, SeatsInv
  <1>2. ASSUME NEW h \in Handlers, ClaimForPayment(b, h)
        PROVE  SeatsInv(b)'
    <2>1. UNCHANGED <<pay, claim>> /\ at[b][h].pc = "claim" /\ OthersRest(b, h)
          /\ at'[b][h].pc \in {"confirm", "undo"}
      BY <1>2, GotoFacts DEF ClaimForPayment, At, PCs
    <2>2. booking'[b].status = "CONFIRMING" \/ booking'[b] = booking[b]
      BY <1>2, BumpFacts DEF ClaimForPayment, Status
    <2> QED BY <2>1, <2>2
            DEF SingleConsumer, OthersRest, SeatsInv
  <1>3. ASSUME NEW h \in Handlers, ExecuteConfirmSeats(b, h)
        PROVE  SeatsInv(b)'
    <2>1. UNCHANGED <<pay, booking>> /\ at[b][h].pc = "confirm" /\ OthersRest(b, h)
      BY <1>3, GotoFacts DEF ExecuteConfirmSeats, At, PCs
    <2>2. \/ claim' = b /\ at'[b][h].pc = "logConfirm"
          \/ claim' = claim /\ at'[b][h].pc = "undo"
      <3>1. CallFails(claim = "held", b) => claim' = claim
        BY DEF CallFails
      <3>2. CallOk(claim = "held", b) => claim' = b
        BY DEF CallOk
      <3> QED BY <1>3, <3>1, <3>2, GotoFacts DEF ExecuteConfirmSeats, PCs
    <2>3. booking[b].status = "CONFIRMING" /\ pay[b].money = "paid" /\ claim # b
          /\ at[b]["create"].pc \in Ended
      BY <2>1 DEF PaidInv, HandlerInv, BeforeAnswer, SeatsInv
    <2> QED BY <2>1, <2>2, <2>3
            DEF SingleConsumer, OthersRest, SeatsInv
  <1>4. ASSUME NEW h \in Handlers, ConfirmBooking(b, h)
        PROVE  SeatsInv(b)'
    <2>1. UNCHANGED <<pay, claim>> /\ at[b][h].pc = "finish" /\ OthersRest(b, h)
          /\ at'[b][h].pc = "idle"
      BY <1>4, RestFacts DEF ConfirmBooking, At
    <2>2. claim = b /\ booking'[b].status = "CONFIRMED"
      BY <1>4, <2>1, BumpFacts DEF ConfirmBooking, PaidInv, HandlerInv, SeatsInv, Status
    <2> QED BY <2>1, <2>2
            DEF SingleConsumer, OthersRest, SeatsInv
  <1>5. ASSUME NEW h \in Handlers, FailPayment(b, h)
        PROVE  SeatsInv(b)'
    <2>1. UNCHANGED <<pay, claim>> /\ at[b][h].pc = "undoing" /\ OthersRest(b, h)
          /\ at'[b][h].pc = "idle"
      BY <1>5, RestFacts DEF FailPayment, Compensated, At
    <2>2. booking'[b].status = "FAILED" \/ booking'[b] = booking[b]
      BY <1>5, BumpFacts DEF FailPayment, Status
    <2> QED BY <2>1, <2>2
            DEF SingleConsumer, OthersRest, SeatsInv
  <1>6. CASE ReadPaymentFailure(b) \/ ClaimForFailure(b) \/ Release(b, "failure")
    <2>1. OthersRest(b, "failure") /\ UNCHANGED <<pay, claim>>
      <3>1. CASE ReadPaymentFailure(b)
        BY <3>1, ReadFacts DEF ReadPaymentFailure, OthersRest
      <3>2. CASE ClaimForFailure(b)
        BY <3>2, FailureClaimMoves DEF ClaimForFailure
      <3>3. CASE Release(b, "failure")
        BY <3>3, RestFacts DEF Release
      <3> QED BY <1>6, <3>1, <3>2, <3>3
    <2>2. \/ booking'[b] = booking[b]
          \/ booking'[b].status = "FAILED" /\ at[b]["failure"].pc = "claim"
      BY <1>6, BumpFacts DEF ReadPaymentFailure, ClaimForFailure, Release, Status, At
    <2>3. booking'[b].status = "FAILED" => booking'[b] = booking[b] \/ claim # b
      <3>1. CASE ClaimForFailure(b) /\ Unchanged(b, "failure")
        BY <3>1 DEF ClaimForFailure, Unchanged, At, PaidInv, EndInv, SeatsInv
      <3>2. CASE ClaimForFailure(b) /\ ~Unchanged(b, "failure")
        BY <3>2 DEF ClaimForFailure
      <3>3. CASE ReadPaymentFailure(b) \/ Release(b, "failure")
        BY <3>3 DEF ReadPaymentFailure, Release
      <3> QED BY <1>6, <3>1, <3>2, <3>3
    <2> QED BY <2>1, <2>2, <2>3
            DEF OthersRest, SeatsInv
  <1>7. ASSUME NEW h \in Handlers, LogCompleted(b, h)
        PROVE  SeatsInv(b)'
    <2>1. /\ at'[b][h].pc \in {"finish", "markHeld", "markPending"}
          /\ at'[b][h].pc = "finish" => at[b][h].pc = "logConfirm"
          /\ OthersRest(b, h) /\ UNCHANGED <<booking, pay, claim>>
      BY <1>7, LogMoves
    <2> QED BY <2>1 DEF SingleConsumer, OthersRest, SeatsInv
  <1> QED BY <1>1, <1>2, <1>3, <1>4, <1>5, <1>6, <1>7 DEF PaymentStep

LEMMA CancelSeats ==
  ASSUME Losses = FALSE, SagaTypeOK, NEW b \in Bookings, PaidInv(b), SeatsInv(b),
         ReadForCancel(b) \/ CancelStep(b)
  PROVE  SeatsInv(b)'
  <1> USE RoleNames, BookingNames, ThreadFields, RowFields, PayFields
  <1>1. CASE ReadForCancel(b)
    <2>1. at'[b]["cancel"].pc = "claim" /\ OthersRest(b, "cancel")
      BY <1>1, ReadFacts DEF ReadForCancel
    <2> QED BY <1>1, <2>1 DEF ReadForCancel, OthersRest, SeatsInv
  <1>2. CASE ClaimForCancel(b)
    <2>0. at[b]["cancel"].pc = "claim" /\ UNCHANGED <<pay, claim>>
      BY <1>2 DEF ClaimForCancel, At
    <2>1. CASE Unchanged(b, "cancel")
      <3>1. at'[b]["cancel"].pc = AfterClaim(Saw(b, "cancel").status) /\ OthersRest(b, "cancel")
        BY <1>2, <2>1, GotoFacts DEF ClaimForCancel, AfterClaim, PCs
      <3>2. booking'[b].status = "CANCELLING"
        BY <1>2, <2>1, BumpFacts DEF ClaimForCancel, Status
      <3>3. at'[b]["cancel"].pc = "free" => claim = b
        BY <2>0, <2>1, <3>1 DEF Unchanged, AfterClaim, CancelInv, PaidInv, SeatsInv, Saw, Unpaid
      <3>4. claim = b => at'[b]["cancel"].pc = "free" /\ booking[b].status = "CONFIRMED"
        BY <2>0, <2>1, <3>1 DEF Unchanged, AfterClaim, CancelInv, PaidInv, SeatsInv, Saw, Unpaid
      <3> QED BY <2>0, <3>1, <3>2, <3>3, <3>4 DEF OthersRest, SeatsInv
    <2>2. CASE ~Unchanged(b, "cancel")
      <3>1. at'[b]["cancel"].pc = "idle" /\ OthersRest(b, "cancel") /\ UNCHANGED booking
        BY <1>2, <2>2, RestFacts DEF ClaimForCancel
      <3> QED BY <2>0, <3>1 DEF OthersRest, SeatsInv
    <2> QED BY <2>1, <2>2
  <1>3. CASE ReleaseOnCancel(b) \/ RefundOnCancel(b)
    <2>1. at'[b]["cancel"].pc = "close" /\ OthersRest(b, "cancel") /\ UNCHANGED booking
          /\ at[b]["cancel"].pc \in {"release", "refund"}
      BY <1>3, GotoFacts DEF ReleaseOnCancel, RefundOnCancel, PCs, At
    <2>2. claim' = b <=> claim = b
      BY <1>3, CallFacts, UnheldMoves DEF ReleaseOnCancel, RefundOnCancel
    <2>3. pay'[b].money = pay[b].money \/ pay'[b].money = "refunded"
      BY <1>3, RefundFacts DEF ReleaseOnCancel, RefundOnCancel
    <2> QED BY <2>1, <2>2, <2>3 DEF OthersRest, SeatsInv
  <1>4. CASE FreeOnCancel(b)
    <2>1. OthersRest(b, "cancel") /\ at[b]["cancel"].pc = "free" /\ UNCHANGED pay
      BY <1>4, GotoFacts, RestFacts DEF FreeOnCancel, PCs, At
    <2>2. claim = b /\ booking[b].status = "CANCELLING"
          /\ \A h \in Handlers : at[b][h].pc \notin {"logConfirm", "finish"}
      BY <2>1 DEF SeatsInv, PaidInv, CancelInv, HandlerInv
    <2>3. claim' = "free" /\ UNCHANGED booking /\ at'[b]["cancel"].pc \in {"refund", "close"}
      <3>1. ~CallFails(claim = b, "free")
        BY <2>2 DEF CallFails
      <3> DEFINE pc == IF Saw(b, "cancel").order THEN "refund" ELSE "close"
      <3>2. Goto(b, "cancel", pc) /\ CallOk(claim = b, "free") /\ UNCHANGED booking
        BY <1>4, <3>1 DEF FreeOnCancel
      <3>3. pc \in {"refund", "close"}
        OBVIOUS
      <3> HIDE DEF pc
      <3> QED BY <3>2, <3>3, GotoFacts DEF CallOk, PCs
    <2> QED BY <2>1, <2>2, <2>3 DEF OthersRest, SeatsInv
  <1>5. CASE CloseCancelled(b)
    <2>1. at'[b]["cancel"].pc = "idle" /\ OthersRest(b, "cancel") /\ UNCHANGED <<pay, claim>>
          /\ at[b]["cancel"].pc = "close"
      BY <1>5, RestFacts DEF CloseCancelled, At
    <2>2. \/ booking'[b] = booking[b]
          \/ booking[b].status = "CANCELLING" /\ booking'[b].status = "CANCELLED"
      BY <1>5, BumpFacts DEF CloseCancelled, Status
    <2> QED BY <2>1, <2>2 DEF OthersRest, SeatsInv
  <1> QED BY <1>1, <1>2, <1>3, <1>4, <1>5 DEF CancelStep

LEMMA ExpirySeats ==
  ASSUME SagaTypeOK, NEW b \in Bookings, PaidInv(b), SeatsInv(b), ExpiryStep(b)
  PROVE  SeatsInv(b)'
  <1> USE RoleNames, RowFields
  <1>1. OthersRest(b, "expiry") /\ UNCHANGED <<pay, claim>>
    BY ReadFacts, GotoFacts, RestFacts DEF ExpiryStep, ReadExpired, ClaimForExpiry, Release, PCs
  <1>2. \/ booking'[b] = booking[b]
        \/ booking[b].status \in Unpaid /\ booking'[b].status = "EXPIRED"
    BY BumpFacts DEF ExpiryStep, ReadExpired, ClaimForExpiry, Release, Status
  <1> QED BY <1>1, <1>2 DEF OthersRest, SeatsInv, Unpaid

\* What compensation frees are seats that their booking does not keep: it is being
\* cancelled, and has expired or failed besides.
LEMMA UndoSeats ==
  ASSUME SingleConsumer, SagaTypeOK, NEW b \in Bookings, PaidInv(b), SeatsInv(b), Undo(b)
  PROVE  SeatsInv(b)'
  <1> USE RoleNames, BookingNames, ThreadFields, RowFields, PayFields
  <1>1. PICK r \in Roles : ReadCompleted(b, r) \/ Compensate(b, r)
    BY DEF Undo
  <1>2. /\ at[b][r].pc \in {"undo", "undoing"} /\ at'[b][r].pc = "undoing"
        /\ OthersRest(b, r) /\ UNCHANGED booking
        /\ pay'[b].money = pay[b].money \/ pay'[b].money = "refunded"
        /\ \/ claim' = b <=> claim = b
           \/ claim = b /\ claim' = "free"
    <2>1. pay' = Refunded(b) \/ UNCHANGED pay
      BY <1>1, CompensateFacts DEF ReadCompleted
    <2>2. \/ claim' = b <=> claim = b
          \/ claim = b /\ claim' = "free"
      BY <1>1, CompensateFacts, UnheldMoves DEF ReadCompleted
    <2> QED BY <1>1, <2>1, <2>2, UndoMoves, RefundFacts
  <1>3. claim = b => r \in {"expiry", "failure"}
    <2>1. r # "cancel"
      BY <1>2 DEF PaidInv, CancelInv
    <2>2. claim = b => r # "create" /\ r \notin Handlers
      BY <1>2 DEF SeatsInv, Ended
    <2> QED BY <2>1, <2>2 DEF Roles
  <1>4. r # "cancel" /\ (r \in Handlers => at'[b][r].pc \notin {"logConfirm", "finish"})
    BY <1>2 DEF PaidInv, CancelInv
  <1>5. r = "create" => at[b]["create"].pc \notin Ended /\ at'[b]["create"].pc \notin Ended
    BY <1>2 DEF Ended
  <1>6. CASE claim' = b <=> claim = b
    BY <1>2, <1>3, <1>4, <1>5, <1>6
       DEF OthersRest, SeatsInv
  <1>7. CASE claim = b /\ claim' = "free"
    <2>1. r \in {"expiry", "failure"}
      BY <1>3, <1>7
    <2>2. booking[b].status \in Over /\ at[b]["cancel"].pc # "free"
          /\ \A h \in Handlers : at[b][h].pc \notin {"logConfirm", "finish"}
      BY <1>2, <2>1 DEF PaidInv, EndInv, HandlerInv, Over, Closed
    <2> QED BY <1>2, <1>7, <2>1, <2>2
            DEF OthersRest, SeatsInv, Over, Closed
  <1> QED BY <1>2, <1>6, <1>7

LEMMA OutsideSeats ==
  ASSUME SagaTypeOK, NEW b \in Bookings, PaidInv(b), SeatsInv(b), NEW r \in Roles,
         CustomerPays(b) \/ TimePasses(b) \/ Crash(b, r)
  PROVE  SeatsInv(b)'
  <1> USE RoleNames, ThreadFields, RowFields, PayFields
  <1>1. CASE CustomerPays(b)
    BY <1>1 DEF CustomerPays, SeatsInv
  <1>2. CASE TimePasses(b)
    BY <1>2 DEF TimePasses, SeatsInv
  <1>3. CASE Crash(b, r)
    <2>1. /\ at'[b][r].pc = (IF r = "create" THEN "dead" ELSE "idle") /\ OthersRest(b, r)
          /\ UNCHANGED <<booking, pay, claim>>
      BY <1>3, GotoFacts, RestFacts DEF Crash, PCs, Ended
    <2>2. at[b][r].pc \notin Ended
      BY <1>3 DEF Crash
    <2> QED BY <2>1, <2>2 DEF OthersRest, SeatsInv, Ended
  <1> QED BY <1>1, <1>2, <1>3

LEMMA AllSeatsStep ==
  ASSUME Losses = FALSE, SingleConsumer, SagaTypeOK, AllPaid, AllSeats,
         NEW b \in Bookings, NEW r \in Roles,
         ServiceStep(b) \/ Surroundings(b) \/ Crash(b, r)
  PROVE  AllSeats'
  <1>1. SeatsInv(b)'
    BY CreateSeats, PaymentSeats, CancelSeats, ExpirySeats, UndoSeats, OutsideSeats
       DEF AllPaid, AllSeats, ServiceStep, Surroundings
  <1>2. ASSUME NEW c \in Bookings, c # b PROVE SeatsInv(c)'
    BY <1>2, StepsAreLocal, SeatsKept DEF Local, ClaimKept, AllSeats
  <1> QED BY <1>1, <1>2 DEF AllSeats

LEMMA AllSeatsInit == SagaInit => AllSeats
  <1> SUFFICES ASSUME SagaInit, NEW b \in Bookings PROVE SeatsInv(b)
    BY DEF AllSeats
  <1>1. booking[b].status = "NONE" /\ claim # b /\ \A r \in Roles : at[b][r].pc = "idle"
    BY BookingNames DEF SagaInit, NoBooking, Resting
  <1> QED BY <1>1, RoleNames DEF SeatsInv

LEMMA AllSeatsNext ==
  Losses = FALSE /\ SingleConsumer /\ SagaTypeOK /\ AllPaid /\ AllSeats /\ [SagaNext]_sagaVars
    => AllSeats'
  <1> SUFFICES ASSUME Losses = FALSE, SingleConsumer, SagaTypeOK, AllPaid, AllSeats,
                      [SagaNext]_sagaVars
               PROVE  AllSeats'
    OBVIOUS
  <1>1. CASE UNCHANGED sagaVars
    <2>1. \A c \in Bookings : Kept(c) /\ (claim' = c <=> claim = c)
      BY <1>1 DEF sagaVars, Kept
    <2> QED BY <2>1, SeatsKept DEF AllSeats
  <1>2. CASE SagaNext
    <2>1. PICK b \in Bookings, r \in Roles : ServiceStep(b) \/ Surroundings(b) \/ Crash(b, r)
      BY <1>2, RoleNames DEF SagaNext
    <2> QED BY <2>1, AllSeatsStep
  <1> QED BY <1>1, <1>2

\* No other booking, compensation, expiry or cancellation takes the seats of a
\* confirmed booking, with one consumer at a time and calls that answer what they
\* did - wherever threads stop and whenever bookings are cancelled.
THEOREM ConfirmedKeepSeats ==
  ASSUME SingleConsumer, Losses = FALSE
  PROVE  SagaSpec => []ConfirmedHasSeats
  <1>1. AllSeats => ConfirmedHasSeats
    BY DEF AllSeats, SeatsInv, ConfirmedHasSeats
  <1> QED BY <1>1, SagaTypeInit, SagaTypeStep, AllPaidInit, AllPaidNext, AllSeatsInit, AllSeatsNext,
             PTL DEF SagaSpec

\* Under the same conditions seats are not left sold to a booking that is closed.
THEOREM SoldSeatsAreWanted ==
  ASSUME SingleConsumer, Losses = FALSE
  PROVE  SagaSpec => []SoldIsWanted
  <1>1. AllSeats => SoldIsWanted
    BY DEF AllSeats, SeatsInv, SoldIsWanted
  <1> QED BY <1>1, SagaTypeInit, SagaTypeStep, AllPaidInit, AllPaidNext, AllSeatsInit, AllSeatsNext,
             PTL DEF SagaSpec

-----------------------------------------------------------------------------
(* A closed booking is never open again *)

\* While createBooking runs nothing but a cancellation touches the booking.
AloneUntilAnswered(b) ==
  at[b]["create"].pc \notin Ended =>
    /\ \A r \in Roles : r \notin {"create", "cancel"} => at[b][r].pc = "idle"
    /\ \A kind \in {"PAYMENT_SUCCESS", "PAYMENT_FAILED"} : <<kind, b>> \notin topics
    /\ b \notin due

\* What a claim of a thread finds when the version is the one it has read.  Only a
\* cancellation can be overtaken by the updates that do not count it.
Claimable(r) == IF r = "cancel" THEN Unpaid \cup {"FAILED", "CONFIRMED"} ELSE Unpaid

ClaimsOpen(b) ==
  \A r \in Roles : r # "create" /\ at[b][r].pc = "claim" =>
    /\ Saw(b, r).version =< booking[b].version
    /\ Saw(b, r).version = booking[b].version => booking[b].status \in Claimable(r)

FinalInv(b) ==
  /\ AloneUntilAnswered(b)
  /\ ClaimsOpen(b)
  /\ at[b]["cancel"].pc = "free" => Saw(b, "cancel").status = "CONFIRMED"

AllFinal == \A b \in Bookings : FinalInv(b)

Shut(b) ==
  \/ booking[b].status \in Closed
  \/ booking[b].status = "CANCELLING" /\ Saw(b, "cancel").status # "CONFIRMED"

StaysShut(b) ==
  at[b]["create"].pc \in Ended /\ Shut(b) =>
    booking'[b].status \in AfterClose(booking[b].status)

\* What every thread but createBooking's does: it leaves the row alone, or it counts
\* the version and does not open what is shut.
LaterStep(b, r) ==
  /\ r \in Roles \ {"create"} /\ OthersRest(b, r)
  /\ at[b]["create"].pc \in Ended \/ (r = "cancel" /\ UNCHANGED <<topics, due>>)
  /\ r = "cancel" /\ at'[b][r].pc = "free" => at'[b][r].saw.status = "CONFIRMED"
  /\ \/ /\ booking'[b] = booking[b]
        /\ at'[b][r].pc = "claim" =>
             at'[b][r].saw = booking[b] /\ booking[b].status \in Claimable(r)
     \/ /\ booking'[b].version = booking[b].version + 1 /\ at'[b][r].pc # "claim"
        /\ Shut(b) => booking'[b].status \in AfterClose(booking[b].status)

LEMMA SameStaysShut ==
  ASSUME NEW b \in Bookings, booking'[b] = booking[b]
  PROVE  StaysShut(b)
BY DEF StaysShut, Shut, AfterClose, Closed

LEMMA FinalKept ==
  ASSUME NEW c \in Bookings, FinalInv(c), Kept(c)
  PROVE  FinalInv(c)' /\ StaysShut(c)
BY SameStaysShut DEF FinalInv, AloneUntilAnswered, ClaimsOpen, Saw, Kept

LEMMA LaterFinal ==
  ASSUME SagaTypeOK, SagaTypeOK', NEW b \in Bookings, NEW r \in Roles, FinalInv(b), LaterStep(b, r)
  PROVE  FinalInv(b)' /\ StaysShut(b)
  <1>1. StaysShut(b)
    <2>1. CASE booking'[b] = booking[b]
      BY <2>1, SameStaysShut
    <2>2. CASE booking'[b] # booking[b]
      BY <2>2 DEF LaterStep, StaysShut
    <2> QED BY <2>1, <2>2
  <1>2. AloneUntilAnswered(b)'
    <2>1. at'[b]["create"] = at[b]["create"]
      BY RoleNames DEF LaterStep, OthersRest
    <2>2. CASE at[b]["create"].pc \in Ended
      BY <2>1, <2>2 DEF AloneUntilAnswered
    <2>3. CASE r = "cancel" /\ UNCHANGED <<topics, due>>
      BY <2>1, <2>3 DEF LaterStep, OthersRest, FinalInv, AloneUntilAnswered
    <2> QED BY <2>2, <2>3 DEF LaterStep
  <1>3. ASSUME NEW q \in Roles, q # "create", at'[b][q].pc = "claim"
        PROVE  /\ at'[b][q].saw.version =< booking'[b].version
               /\ at'[b][q].saw.version = booking'[b].version => booking'[b].status \in Claimable(q)
    <2>1. CASE q = r
      BY <1>3, <2>1, RowFields DEF LaterStep
    <2>2. CASE q # r
      <3>1. at'[b][q] = at[b][q]
        BY <2>2 DEF LaterStep, OthersRest
      <3>2. /\ at[b][q].saw.version =< booking[b].version
            /\ at[b][q].saw.version = booking[b].version => booking[b].status \in Claimable(q)
        BY <1>3, <3>1 DEF FinalInv, ClaimsOpen, Saw
      <3>3. booking'[b] = booking[b] \/ booking'[b].version = booking[b].version + 1
        BY DEF LaterStep
      <3> QED BY <3>1, <3>2, <3>3, RowFields, ThreadFields
    <2> QED BY <2>1, <2>2
  <1>4. at'[b]["cancel"].pc = "free" => at'[b]["cancel"].saw.status = "CONFIRMED"
    BY RoleNames DEF LaterStep, OthersRest, FinalInv, Saw
  <1> QED BY <1>1, <1>2, <1>3, <1>4 DEF FinalInv, ClaimsOpen, Saw

LEMMA BusyMeansAnswered ==
  ASSUME NEW b \in Bookings, NEW r \in Roles, r \notin {"create", "cancel"}, FinalInv(b),
         \/ at[b][r].pc # "idle" \/ b \in due
         \/ \E kind \in {"PAYMENT_SUCCESS", "PAYMENT_FAILED"} : <<kind, b>> \in topics
  PROVE  at[b]["create"].pc \in Ended
BY DEF FinalInv, AloneUntilAnswered

\* createBooking's updates count no version, but close a booking or leave it open.
LEMMA CreateFinal ==
  ASSUME SagaTypeOK, NEW b \in Bookings, FinalInv(b), StartBooking(b) \/ CreateStep(b)
  PROVE  FinalInv(b)' /\ StaysShut(b)
  <1> USE RoleNames
  <1>1. at[b]["create"].pc \notin Ended
    BY CreateRuns
  <1>2. UNCHANGED <<due, topics>>
    BY DEF StartBooking, CreateStep, AcquireSeatLocks, InsertBooking, ExecuteHoldSeats, MarkHeld,
           ExecuteCreatePayment, MarkPending, LogCompleted, Logs, AnswerCreate, FailCreate
  <1>3. OthersRest(b, "create")
    BY CreateAlone
  <1>4. booking'[b].version = booking[b].version
        /\ booking'[b].status \in {booking[b].status, "FAILED"} \cup Unpaid
    <2>1. CASE StartBooking(b) \/ AcquireSeatLocks(b) \/ InsertBooking(b)
      BY <2>1, WriteFacts DEF StartBooking, AcquireSeatLocks, InsertBooking, Status, Unpaid
    <2>2. CASE ExecuteHoldSeats(b) \/ ExecuteCreatePayment(b) \/ AnswerCreate(b) \/ FailCreate(b)
      BY <2>2, WriteFacts DEF ExecuteHoldSeats, ExecuteCreatePayment, AnswerCreate, FailCreate, Status
    <2>3. CASE MarkHeld(b) \/ MarkPending(b) \/ LogCompleted(b, "create")
      BY <2>3, WriteFacts, OrderFacts DEF MarkHeld, MarkPending, LogCompleted, Logs, Status, Unpaid
    <2> QED BY <2>1, <2>2, <2>3 DEF CreateStep
  <1>5. \A r \in Roles : r \notin {"create", "cancel"} => at'[b][r].pc = "idle"
    BY <1>1, <1>3 DEF FinalInv, AloneUntilAnswered, OthersRest
  <1>6. AloneUntilAnswered(b)'
    BY <1>1, <1>2, <1>5 DEF FinalInv, AloneUntilAnswered
  <1>7. ClaimsOpen(b)'
    BY <1>3, <1>4, <1>5 DEF FinalInv, ClaimsOpen, Saw, OthersRest, Claimable
  <1> QED BY <1>1, <1>3, <1>6, <1>7 DEF FinalInv, StaysShut, Saw, OthersRest

LEMMA PaymentLater ==
  ASSUME SagaTypeOK, NEW b \in Bookings, FinalInv(b), PaymentStep(b)
  PROVE  \E r \in Roles : LaterStep(b, r)
  <1> USE RoleNames, RowFields, ThreadFields DEF Unpaid, Shut, Closed
  <1>1. ASSUME NEW h \in Handlers, ReadPaymentSuccess(b, h)
        PROVE  LaterStep(b, h)
    <2>1. at[b]["create"].pc \in Ended
      BY <1>1, BusyMeansAnswered DEF ReadPaymentSuccess
    <2>2. CASE AwaitsPayment(b)
      BY <1>1, <2>1, <2>2, ReadFacts DEF ReadPaymentSuccess, AwaitsPayment, LaterStep, Claimable
    <2>3. CASE ~AwaitsPayment(b)
      BY <1>1, <2>1, <2>3 DEF ReadPaymentSuccess, At, OthersRest, LaterStep
    <2> QED BY <2>2, <2>3
  <1>2. ASSUME NEW h \in Handlers, ClaimForPayment(b, h)
        PROVE  LaterStep(b, h)
    <2>1. at[b]["create"].pc \in Ended /\ at[b][h].pc = "claim"
      BY <1>2, BusyMeansAnswered DEF ClaimForPayment, At
    <2>2. CASE Unchanged(b, h)
      <3>1. booking[b].status \in Unpaid
        BY <2>1, <2>2 DEF Unchanged, FinalInv, ClaimsOpen, Claimable
      <3>2. booking'[b].version = booking[b].version + 1
        BY <1>2, <2>2, BumpFacts DEF ClaimForPayment, Status
      <3> QED BY <1>2, <2>1, <2>2, <3>1, <3>2, GotoFacts DEF ClaimForPayment, PCs, LaterStep
    <2>3. CASE ~Unchanged(b, h)
      BY <1>2, <2>1, <2>3, GotoFacts DEF ClaimForPayment, PCs, LaterStep
    <2> QED BY <2>2, <2>3
  <1>3. ASSUME NEW h \in Handlers, ExecuteConfirmSeats(b, h)
        PROVE  LaterStep(b, h)
    <2>1. at[b]["create"].pc \in Ended
      BY <1>3, BusyMeansAnswered DEF ExecuteConfirmSeats, At
    <2> QED BY <1>3, <2>1, GotoFacts DEF ExecuteConfirmSeats, PCs, LaterStep
  <1>4. ASSUME NEW h \in Handlers, ConfirmBooking(b, h) \/ FailPayment(b, h)
        PROVE  LaterStep(b, h)
    <2>1. at[b]["create"].pc \in Ended
      BY <1>4, BusyMeansAnswered DEF ConfirmBooking, FailPayment, Compensated, At
    <2>2. \/ booking'[b] = booking[b]
          \/ booking[b].status \in {"PAYMENT_PENDING", "CONFIRMING"}
             /\ booking'[b].version = booking[b].version + 1
      BY <1>4, BumpFacts DEF ConfirmBooking, FailPayment, Status
    <2>3. at'[b][h].pc = "idle" /\ OthersRest(b, h)
      BY <1>4, RestFacts DEF ConfirmBooking, FailPayment
    <2> QED BY <2>1, <2>2, <2>3 DEF LaterStep
  <1>5. CASE ReadPaymentFailure(b)
    <2>1. at[b]["create"].pc \in Ended
      BY <1>5, BusyMeansAnswered DEF ReadPaymentFailure
    <2>2. CASE AwaitsPayment(b)
      BY <1>5, <2>1, <2>2, ReadFacts DEF ReadPaymentFailure, AwaitsPayment, LaterStep, Claimable
    <2>3. CASE ~AwaitsPayment(b)
      BY <1>5, <2>1, <2>3 DEF ReadPaymentFailure, At, OthersRest, LaterStep
    <2> QED BY <2>2, <2>3
  <1>6. CASE ClaimForFailure(b)
    <2>1. at[b]["create"].pc \in Ended /\ at[b]["failure"].pc = "claim"
      BY <1>6, BusyMeansAnswered DEF ClaimForFailure, At
    <2>2. CASE Unchanged(b, "failure")
      <3>1. booking[b].status \in Unpaid
        BY <2>1, <2>2 DEF Unchanged, FinalInv, ClaimsOpen, Claimable
      <3>2. booking'[b].version = booking[b].version + 1
        BY <1>6, <2>2, BumpFacts DEF ClaimForFailure, Status
      <3> QED BY <1>6, <2>1, <3>1, <3>2, FailureClaimMoves DEF LaterStep
    <2>3. CASE ~Unchanged(b, "failure")
      BY <1>6, <2>1, <2>3, RestFacts DEF ClaimForFailure, LaterStep
    <2> QED BY <2>2, <2>3
  <1>7. CASE Release(b, "failure")
    <2>1. at[b]["create"].pc \in Ended
      BY <1>7, BusyMeansAnswered DEF Release, Compensated, At
    <2> QED BY <1>7, <2>1, RestFacts DEF Release, LaterStep
  <1>8. ASSUME NEW h \in Handlers, LogCompleted(b, h)
        PROVE  LaterStep(b, h)
    <2>1. at[b][h].pc # "idle" /\ at'[b][h].pc # "claim" /\ OthersRest(b, h) /\ UNCHANGED booking
      BY <1>8, LogMoves
    <2>2. at[b]["create"].pc \in Ended
      BY <2>1, BusyMeansAnswered
    <2> QED BY <2>1, <2>2 DEF LaterStep
  <1> QED BY <1>1, <1>2, <1>3, <1>4, <1>5, <1>6, <1>7, <1>8 DEF PaymentStep

LEMMA CancelLater ==
  ASSUME SagaTypeOK, NEW b \in Bookings, FinalInv(b), ReadForCancel(b) \/ CancelStep(b)
  PROVE  LaterStep(b, "cancel")
  <1> USE RoleNames, RowFields, ThreadFields DEF Unpaid, Shut, Closed
  <1>0. UNCHANGED <<topics, due>>
    BY DEF ReadForCancel, CancelStep, ClaimForCancel, ReleaseOnCancel, FreeOnCancel,
           RefundOnCancel, CloseCancelled
  <1>1. CASE ReadForCancel(b)
    BY <1>0, <1>1, ReadFacts DEF ReadForCancel, LaterStep, Claimable
  <1>2. CASE ClaimForCancel(b)
    <2>1. at[b]["cancel"].pc = "claim"
      BY <1>2 DEF ClaimForCancel, At
    <2>2. CASE Unchanged(b, "cancel")
      <3>1. booking[b].status \in Unpaid \cup {"FAILED", "CONFIRMED"}
        BY <2>1, <2>2 DEF Unchanged, FinalInv, ClaimsOpen, Claimable
      <3>2. booking'[b].version = booking[b].version + 1 /\ booking'[b].status = "CANCELLING"
        BY <1>2, <2>2, BumpFacts DEF ClaimForCancel, Status
      <3>3. /\ at'[b]["cancel"].pc = AfterClaim(Saw(b, "cancel").status)
            /\ at'[b]["cancel"].saw = Saw(b, "cancel") /\ OthersRest(b, "cancel")
        <4> DEFINE pc == AfterClaim(Saw(b, "cancel").status)
        <4>1. pc \in PCs
          BY DEF AfterClaim, PCs
        <4>2. Goto(b, "cancel", pc)
          BY <1>2, <2>2 DEF ClaimForCancel
        <4> HIDE DEF pc
        <4>3. at'[b]["cancel"].pc = pc
          BY <4>1, <4>2, GotoFacts
        <4>4. at'[b]["cancel"].saw = at[b]["cancel"].saw /\ OthersRest(b, "cancel")
          BY <4>1, <4>2, GotoFacts
        <4> QED BY <4>3, <4>4 DEF pc, Saw
      <3>4. at'[b]["cancel"].pc # "claim"
            /\ (at'[b]["cancel"].pc = "free" => at'[b]["cancel"].saw.status = "CONFIRMED")
        BY <3>3 DEF AfterClaim
      <3>5. Shut(b) => booking'[b].status \in AfterClose(booking[b].status)
        BY <3>1, <3>2 DEF AfterClose
      <3> QED BY <1>0, <3>2, <3>3, <3>4, <3>5 DEF LaterStep
    <2>3. CASE ~Unchanged(b, "cancel")
      BY <1>0, <1>2, <2>3, RestFacts DEF ClaimForCancel, LaterStep
    <2> QED BY <2>2, <2>3
  <1>3. CASE ReleaseOnCancel(b) \/ RefundOnCancel(b)
    <2>1. at'[b]["cancel"].pc = "close" /\ OthersRest(b, "cancel") /\ UNCHANGED booking
      BY <1>3, GotoFacts DEF ReleaseOnCancel, RefundOnCancel, PCs
    <2> QED BY <1>0, <2>1 DEF LaterStep
  <1>4. CASE FreeOnCancel(b)
    <2>1. at'[b]["cancel"].pc \in {"refund", "close", "idle"} /\ OthersRest(b, "cancel")
      BY <1>4, GotoFacts, RestFacts DEF FreeOnCancel, PCs
    <2>2. \/ booking'[b] = booking[b]
          \/ booking[b].status = "CANCELLING" /\ booking'[b].version = booking[b].version + 1
      BY <1>4, BumpFacts DEF FreeOnCancel, Status
    <2>3. Saw(b, "cancel").status = "CONFIRMED"
      BY <1>4 DEF FreeOnCancel, At, FinalInv
    <2> QED BY <1>0, <2>1, <2>2, <2>3 DEF LaterStep
  <1>5. CASE CloseCancelled(b)
    <2>1. at'[b]["cancel"].pc = "idle" /\ OthersRest(b, "cancel")
      BY <1>5, RestFacts DEF CloseCancelled
    <2>2. \/ booking'[b] = booking[b]
          \/ booking[b].status = "CANCELLING" /\ booking'[b].version = booking[b].version + 1
             /\ booking'[b].status = "CANCELLED"
      BY <1>5, BumpFacts DEF CloseCancelled, Status
    <2> QED BY <1>0, <2>1, <2>2 DEF LaterStep, AfterClose
  <1> QED BY <1>1, <1>2, <1>3, <1>4, <1>5 DEF CancelStep

LEMMA ExpiryLater ==
  ASSUME SagaTypeOK, NEW b \in Bookings, FinalInv(b), ExpiryStep(b)
  PROVE  LaterStep(b, "expiry")
  <1> USE RoleNames, RowFields DEF Unpaid, Shut, Closed
  <1>0. at[b]["create"].pc \in Ended
    <2>1. at[b]["expiry"].pc # "idle" \/ b \in due
      BY DEF ExpiryStep, ReadExpired, ClaimForExpiry, Release, Compensated, At
    <2> QED BY <2>1, BusyMeansAnswered
  <1>1. CASE ReadExpired(b)
    BY <1>0, <1>1, ReadFacts DEF ReadExpired, LaterStep, Claimable
  <1>2. CASE ClaimForExpiry(b)
    <2>1. at'[b]["expiry"].pc \in {"undo", "idle"} /\ OthersRest(b, "expiry")
      BY <1>2, GotoFacts, RestFacts DEF ClaimForExpiry, PCs
    <2>2. \/ booking'[b] = booking[b]
          \/ booking[b].status \in Unpaid /\ booking'[b].version = booking[b].version + 1
      BY <1>2, BumpFacts DEF ClaimForExpiry, Status
    <2> QED BY <1>0, <2>1, <2>2 DEF LaterStep
  <1>3. CASE Release(b, "expiry")
    BY <1>0, <1>3, RestFacts DEF Release, LaterStep
  <1> QED BY <1>1, <1>2, <1>3 DEF ExpiryStep

\* Compensating and crashing write no row.
LEMMA QuietFinal ==
  ASSUME SagaTypeOK, NEW b \in Bookings, NEW r \in Roles, FinalInv(b),
         ReadCompleted(b, r) \/ Compensate(b, r) \/ Crash(b, r)
  PROVE  FinalInv(b)' /\ StaysShut(b)
  <1> USE RoleNames
  <1>1. /\ OthersRest(b, r) /\ UNCHANGED <<booking, topics, due>>
        /\ at'[b][r].pc \in {"undoing", "idle", "dead"} /\ at[b][r].pc \notin {"idle"} \cup Ended
        /\ at'[b][r].pc = "dead" => r = "create"
    <2>1. CASE ReadCompleted(b, r) \/ Compensate(b, r)
      BY <2>1, UndoMoves DEF Ended
    <2>2. CASE Crash(b, r)
      BY <2>2, GotoFacts, RestFacts DEF Crash, PCs, Ended
    <2> QED BY <2>1, <2>2
  <1>2. r \notin {"create", "cancel"} => at[b]["create"].pc \in Ended
    BY <1>1, BusyMeansAnswered
  <1>3. StaysShut(b)
    BY <1>1, SameStaysShut
  <1> QED BY <1>1, <1>2, <1>3
          DEF FinalInv, AloneUntilAnswered, ClaimsOpen, Saw, OthersRest

LEMMA CustomerFinal ==
  ASSUME NEW b \in Bookings, FinalInv(b), CustomerPays(b) \/ TimePasses(b)
  PROVE  FinalInv(b)' /\ StaysShut(b)
  <1>1. at[b]["create"].pc \in Ended /\ UNCHANGED <<booking, at>>
    BY DEF CustomerPays, TimePasses, At, Ended
  <1>2. StaysShut(b)
    BY <1>1, SameStaysShut
  <1> QED BY <1>1, <1>2 DEF FinalInv, AloneUntilAnswered, ClaimsOpen, Saw

LEMMA AllFinalStep ==
  ASSUME SagaTypeOK, AllFinal, NEW b \in Bookings, NEW r \in Roles,
         ServiceStep(b) \/ Surroundings(b) \/ Crash(b, r)
  PROVE  AllFinal' /\ \A c \in Bookings : StaysShut(c)
  <1>0. Local(b) /\ FinalInv(b)
    BY StepsAreLocal DEF AllFinal
  <1>1. FinalInv(b)' /\ StaysShut(b)
    <2>1. CASE \E q \in Roles : LaterStep(b, q)
      BY <1>0, <2>1, LaterFinal DEF Local
    <2>2. CASE StartBooking(b) \/ CreateStep(b)
      BY <1>0, <2>2, CreateFinal
    <2>3. CASE PaymentStep(b)
      BY <1>0, <2>1, <2>3, PaymentLater
    <2>4. CASE ReadForCancel(b) \/ CancelStep(b)
      BY <1>0, <2>1, <2>4, CancelLater, RoleNames
    <2>5. CASE ExpiryStep(b)
      BY <1>0, <2>1, <2>5, ExpiryLater, RoleNames
    <2>6. CASE Undo(b)
      BY <1>0, <2>6, QuietFinal DEF Undo
    <2>7. CASE CustomerPays(b) \/ TimePasses(b)
      BY <1>0, <2>7, CustomerFinal
    <2>8. CASE Crash(b, r)
      BY <1>0, <2>8, QuietFinal
    <2> QED BY <2>2, <2>3, <2>4, <2>5, <2>6, <2>7, <2>8 DEF ServiceStep, Surroundings
  <1>2. ASSUME NEW c \in Bookings, c # b PROVE FinalInv(c)' /\ StaysShut(c)
    BY <1>0, <1>2, FinalKept DEF Local, AllFinal
  <1> QED BY <1>1, <1>2 DEF AllFinal

LEMMA AllFinalInit == SagaInit => AllFinal
  <1> SUFFICES ASSUME SagaInit, NEW b \in Bookings PROVE FinalInv(b)
    BY DEF AllFinal
  <1>1. booking[b].status = "NONE" /\ \A r \in Roles : at[b][r].pc = "idle"
    BY DEF SagaInit, NoBooking, Resting
  <1> QED BY <1>1, RoleNames DEF SagaInit, FinalInv, AloneUntilAnswered, ClaimsOpen

LEMMA AllFinalNext ==
  SagaTypeOK /\ AllFinal /\ [SagaNext]_sagaVars
    => AllFinal' /\ [\A b \in Bookings :
         /\ at[b]["create"].pc \in Ended
         /\ \/ booking[b].status \in Closed
            \/ booking[b].status = "CANCELLING" /\ Saw(b, "cancel").status # "CONFIRMED"
         => booking'[b].status \in AfterClose(booking[b].status)]_sagaVars
  <1> SUFFICES ASSUME SagaTypeOK, AllFinal, [SagaNext]_sagaVars
               PROVE  AllFinal' /\ \A b \in Bookings : StaysShut(b)
    BY DEF StaysShut, Shut
  <1>1. CASE UNCHANGED sagaVars
    <2>1. \A c \in Bookings : Kept(c)
      BY <1>1 DEF sagaVars, Kept
    <2> QED BY <2>1, FinalKept DEF AllFinal
  <1>2. CASE SagaNext
    <2>1. PICK b \in Bookings, r \in Roles : ServiceStep(b) \/ Surroundings(b) \/ Crash(b, r)
      BY <1>2, RoleNames DEF SagaNext
    <2> QED BY <2>1, AllFinalStep
  <1> QED BY <1>1, <1>2

\* Once its createBooking has ended, a failed, cancelled or expired booking is never
\* open again, and a cancellation of one that was not confirmed is not taken back -
\* however many consumers run, whatever calls are lost, wherever threads stop, and
\* even when the cancellation overtakes createBooking.
THEOREM ClosedNeverReopens == SagaSpec => ClosedForGood
  <1> QED BY SagaTypeInit, SagaTypeStep, AllFinalInit, AllFinalNext, PTL DEF SagaSpec, ClosedForGood
================================================================================
