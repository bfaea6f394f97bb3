------------------------------ MODULE Inventory ------------------------------
(***************************************************************************)
(* inventory-service: the rows it keeps for one schedule, and its          *)
(* operations as transactions that run one at a time.                      *)
(*                                                                         *)
(* An action is one successful transaction of                              *)
(* src/services/inventory.service.js.  A transaction that throws is rolled *)
(* back and changes nothing, so its conditions are the action's guards.    *)
(* InventoryTx drops the "one at a time" and takes transactions apart;     *)
(* LockExpiry adds the lock deadlines and the clean-up job, the only code  *)
(* that reads a deadline.                                                  *)
(*                                                                         *)
(* A request names a segment (fromSeq and toSeq) or none, which means the  *)
(* full journey.  The two paths use different tables for the same seats:   *)
(* a segment is a row of seat_segment_locks and the seat row summarises    *)
(* its segments; a full journey is recorded in the seat row alone.         *)
(***************************************************************************)
EXTENDS Integers, FiniteSets

CONSTANTS
  Seats,      \* seat ids of the schedule
  Users,      \* user ids
  Bookings,   \* booking ids
  LastStop,   \* sequence number of the terminus; stops are 1..LastStop
  Modes,      \* the paths callers use: a subset of {"segment", "full"}
  NoUser,     \* the NULL of lockedBy
  NoBooking   \* the NULL of bookingId

ASSUME SeatsAssumption == IsFiniteSet(Seats) /\ Seats # {}
ASSUME StopsAssumption == LastStop \in Nat /\ LastStop >= 2
ASSUME ModesAssumption == Modes \subseteq {"segment", "full"}
ASSUME NullAssumption  == NoUser \notin Users /\ NoBooking \notin Bookings

VARIABLES
  schedule,   \* the schedule_inventories row: status and the three counters
  seats,      \* the seat_inventories rows
  segLocks,   \* the seat_segment_locks rows
  processed   \* the eventKeys of idempotency_records

invVars == <<schedule, seats, segLocks, processed>>

-----------------------------------------------------------------------------
(* Types *)

\* fromSeq and toSeq of a request: the booking service refuses from >= to,
\* and a falsy 0 would select the full-journey path, so stops start at 1.
Segments == {g \in [from : 1..LastStop, to : 1..LastStop] : g.from < g.to}

SeatStatus == {"AVAILABLE", "LOCKED", "BOOKED", "CANCELLED"}

SegmentLock == [seat : Seats, seg : Segments, status : {"LOCKED", "BOOKED"},
                lockedBy : Users, bookingId : Bookings \cup {NoBooking}]

\* ABSENT: the SCHEDULE_CREATED event has not been processed, no row exists.
SeatRow == [status : SeatStatus \cup {"ABSENT"}, lockedBy : Users \cup {NoUser},
            bookingId : Bookings \cup {NoBooking}]

ScheduleRow == [status : {"ABSENT", "ACTIVE", "CANCELLED"},
                available : Int, locked : Int, booked : Int]

EventKeys == {"SCHEDULE_CREATED", "SCHEDULE_CANCELLED"}

TypeOK ==
  /\ schedule \in ScheduleRow
  /\ seats \in [Seats -> SeatRow]
  /\ segLocks \subseteq SegmentLock
  /\ processed \subseteq EventKeys

-----------------------------------------------------------------------------
(* Helpers *)

Overlap(g, h) == g.from < h.to /\ h.from < g.to

RowsOf(L, s) == {r \in L : r.seat = s}

\* The summary status of a seat, from its segment rows.
Summary(L, s) ==
  CASE RowsOf(L, s) = {}                               -> "AVAILABLE"
    [] \E r \in RowsOf(L, s) : r.status = "LOCKED"     -> "LOCKED"
    [] OTHER                                           -> "BOOKED"

Seat(status, user, booking) ==
  [status |-> status, lockedBy |-> user, bookingId |-> booking]

FreeSeat == Seat("AVAILABLE", NoUser, NoBooking)

\* recomputeSegmentSeatStatuses: write the summary of the seats in S where it
\* differs from the seat row, and clear the owner when it is AVAILABLE.
Recompute(sts, L, S) ==
  [s \in Seats |->
     IF s \notin S \/ sts[s].status = Summary(L, s) THEN sts[s]
     ELSE IF Summary(L, s) = "AVAILABLE" THEN FreeSeat
     ELSE [sts[s] EXCEPT !.status = Summary(L, s)]]

WithStatus(sts, status) == {s \in Seats : sts[s].status = status}

CountOf(sts, status) == Cardinality(WithStatus(sts, status))

\* recountScheduleAggregates: overwrite the counters with counts of the seats.
Recount(sch, sts) ==
  [status    |-> sch.status,
   available |-> CountOf(sts, "AVAILABLE"),
   locked    |-> CountOf(sts, "LOCKED"),
   booked    |-> CountOf(sts, "BOOKED")]

\* The arithmetic updates of the full-journey paths: n seats change status.
Shift(sch, a, l, b) ==
  [status |-> sch.status, available |-> sch.available + a,
   locked |-> sch.locked + l, booked |-> sch.booked + b]

\* Every seat of a request must have a row (seats.length !== seatIds.length).
SeatsExist(S) == S # {} /\ \A s \in S : seats[s].status # "ABSENT"

\* Mutant: the owner is not compared.
HeldByAnyone(u, S, g) ==
  {r \in segLocks : r.seat \in S /\ r.seg = g /\ r.status = "LOCKED"}

\* Mutant: the status is not compared, so a sold row can be released.
HeldOrSold(u, S, g) ==
  {r \in segLocks : r.seat \in S /\ r.seg = g /\ r.lockedBy = u}

\* The rows a user's request for segment g of the seats S may act on.
HeldRows(u, S, g) ==
  {r \in segLocks : /\ r.seat \in S
                    /\ r.seg = g
                    /\ r.lockedBy = u
                    /\ r.status = "LOCKED"}

\* Mutant: the INSERT names no owner.
NewRowsUnowned(u, S, g) ==
  [seat : S, seg : {g}, status : {"LOCKED"}, lockedBy : {NoUser}, bookingId : {NoBooking}]

NewRows(u, S, g) ==
  [seat : S, seg : {g}, status : {"LOCKED"}, lockedBy : {u}, bookingId : {NoBooking}]

\* Mutant: only the same segment is in the way.
SameSegmentBlocked(s, g) == \E r \in segLocks : r.seat = s /\ r.seg = g

\* Some row of the seat overlaps the segment, so it cannot be locked.
SegmentBlocked(s, g) == \E r \in segLocks : r.seat = s /\ Overlap(r.seg, g)

-----------------------------------------------------------------------------
(* Kafka events *)

Init ==
  /\ schedule = [status |-> "ABSENT", available |-> 0, locked |-> 0, booked |-> 0]
  /\ seats = [s \in Seats |-> Seat("ABSENT", NoUser, NoBooking)]
  /\ segLocks = {}
  /\ processed = {}

InitializeInventory ==
  /\ "SCHEDULE_CREATED" \notin processed
  /\ schedule' = [status |-> "ACTIVE", available |-> Cardinality(Seats),
                  locked |-> 0, booked |-> 0]
  /\ seats' = [s \in Seats |-> FreeSeat]
  /\ processed' = processed \cup {"SCHEDULE_CREATED"}
  /\ UNCHANGED segLocks

\* Mutant: the event is recorded and the rows are left as they are.
CancelRecordedOnly ==
  /\ "SCHEDULE_CANCELLED" \notin processed
  /\ schedule.status # "ABSENT"
  /\ processed' = processed \cup {"SCHEDULE_CANCELLED"}
  /\ UNCHANGED <<schedule, seats, segLocks>>

CancelScheduleInventory ==
  /\ "SCHEDULE_CANCELLED" \notin processed
  /\ schedule.status # "ABSENT"
  /\ schedule' = [status |-> "CANCELLED", available |-> 0, locked |-> 0, booked |-> 0]
  /\ seats' = [s \in Seats |-> [seats[s] EXCEPT !.status = "CANCELLED"]]
  /\ processed' = processed \cup {"SCHEDULE_CANCELLED"}
  /\ UNCHANGED segLocks

-----------------------------------------------------------------------------
(* Segment requests *)

\* COALESCE: a seat that has an owner keeps it.
Owned(sts, u, S) ==
  [s \in Seats |-> IF s \in S /\ sts[s].lockedBy = NoUser
                   THEN [sts[s] EXCEPT !.lockedBy = u] ELSE sts[s]]

LockSegment(u, S, g) ==
  /\ schedule.status = "ACTIVE"
  /\ SeatsExist(S)
  /\ \A s \in S : ~SegmentBlocked(s, g)
  /\ segLocks' = segLocks \cup NewRows(u, S, g)
  /\ seats' = Recompute(Owned(seats, u, S), segLocks', S)
  /\ schedule' = Recount(schedule, seats')
  /\ UNCHANGED processed

\* Mutant: the seats are not recomputed.
UnlockRowsOnly(u, S, g) ==
  /\ SeatsExist(S)
  /\ segLocks' = segLocks \ HeldRows(u, S, g)
  /\ UNCHANGED <<schedule, seats, processed>>

\* Rows that do not match are ignored: releasing nothing is a success.
UnlockSegment(u, S, g) ==
  /\ SeatsExist(S)
  /\ segLocks' = segLocks \ HeldRows(u, S, g)
  /\ seats' = Recompute(seats, segLocks', S)
  /\ schedule' = Recount(schedule, seats')
  /\ UNCHANGED processed

SoldRows(u, S, g, b) ==
  {[r EXCEPT !.status = "BOOKED", !.bookingId = b] : r \in HeldRows(u, S, g)}

\* One matching row is enough: the other seats of S are skipped silently.
ConfirmSegment(u, S, g, b) ==
  /\ SeatsExist(S)
  /\ HeldRows(u, S, g) # {}
  /\ segLocks' = (segLocks \ HeldRows(u, S, g)) \cup SoldRows(u, S, g, b)
  /\ seats' = Recompute(seats, segLocks', S)
  /\ schedule' = Recount(schedule, seats')
  /\ UNCHANGED processed

BookedRows(b) == {r \in segLocks : r.bookingId = b /\ r.status = "BOOKED"}

CancelSegmentBooking(b) ==
  /\ BookedRows(b) # {}
  /\ segLocks' = {r \in segLocks : r.bookingId # b}
  /\ seats' = Recompute(seats, segLocks', {r.seat : r \in BookedRows(b)})
  /\ schedule' = Recount(schedule, seats')
  /\ UNCHANGED processed

-----------------------------------------------------------------------------
(* Full-journey requests *)

LockFull(u, S) ==
  /\ schedule.status = "ACTIVE"
  /\ SeatsExist(S)
  /\ \A s \in S : seats[s].status = "AVAILABLE"
  /\ seats' = [s \in Seats |->
                 IF s \in S THEN Seat("LOCKED", u, seats[s].bookingId) ELSE seats[s]]
  /\ schedule' = Shift(schedule, -Cardinality(S), Cardinality(S), 0)
  /\ UNCHANGED <<segLocks, processed>>

\* Mutant: the owner is not compared.
AllLocked(u, S) == \A s \in S : seats[s].status = "LOCKED"

\* Mutant: the status is not compared.
AllOwnedBy(u, S) == \A s \in S : seats[s].lockedBy = u

\* unlockSeats and confirmSeats check the same two things of every seat.
AllLockedBy(u, S) == \A s \in S : seats[s].status = "LOCKED" /\ seats[s].lockedBy = u

UnlockFull(u, S) ==
  /\ SeatsExist(S)
  /\ AllLockedBy(u, S)
  /\ seats' = [s \in Seats |->
                 IF s \in S THEN Seat("AVAILABLE", NoUser, seats[s].bookingId)
                 ELSE seats[s]]
  /\ schedule' = Shift(schedule, Cardinality(S), -Cardinality(S), 0)
  /\ UNCHANGED <<segLocks, processed>>

ConfirmFull(u, S, b) ==
  /\ SeatsExist(S)
  /\ AllLockedBy(u, S)
  /\ seats' = [s \in Seats |->
                 IF s \in S THEN Seat("BOOKED", seats[s].lockedBy, b) ELSE seats[s]]
  /\ schedule' = Shift(schedule, 0, -Cardinality(S), Cardinality(S))
  /\ UNCHANGED <<segLocks, processed>>

\* Mutant: the booking id is not compared.
AllBookedSeats(b) == WithStatus(seats, "BOOKED")

BookedSeats(b) == {s \in Seats : seats[s].bookingId = b /\ seats[s].status = "BOOKED"}

\* Reached only when the booking has no BOOKED segment row.
CancelFullBooking(b) ==
  /\ BookedRows(b) = {}
  /\ BookedSeats(b) # {}
  /\ seats' = [s \in Seats |-> IF s \in BookedSeats(b) THEN FreeSeat ELSE seats[s]]
  /\ schedule' = Shift(schedule, Cardinality(BookedSeats(b)), 0, -Cardinality(BookedSeats(b)))
  /\ UNCHANGED <<segLocks, processed>>

-----------------------------------------------------------------------------
SegmentRequest ==
  \E u \in Users, S \in SUBSET Seats, g \in Segments :
    \/ LockSegment(u, S, g)
    \/ UnlockSegment(u, S, g)
    \/ \E b \in Bookings : ConfirmSegment(u, S, g, b)

FullRequest ==
  \E u \in Users, S \in SUBSET Seats :
    \/ LockFull(u, S)
    \/ UnlockFull(u, S)
    \/ \E b \in Bookings : ConfirmFull(u, S, b)

CancelRequest == \E b \in Bookings : CancelSegmentBooking(b) \/ CancelFullBooking(b)

Next ==
  \/ InitializeInventory
  \/ CancelScheduleInventory
  \/ "segment" \in Modes /\ SegmentRequest
  \/ "full" \in Modes /\ FullRequest
  \/ CancelRequest

Spec == Init /\ [][Next]_invVars

\* Callers that name a segment in every request.
SegmentNext ==
  \/ InitializeInventory
  \/ CancelScheduleInventory
  \/ SegmentRequest
  \/ \E b \in Bookings : CancelSegmentBooking(b)

SegmentSpec == Init /\ [][SegmentNext]_invVars

-----------------------------------------------------------------------------
(* Properties *)

\* Two rows of a seat never overlap: a seat is never given twice for the same
\* stretch, whatever the order of lock, unlock, confirm and cancel requests.
NoOverlappingSegments ==
  \A r, q \in segLocks : (r.seat = q.seat /\ Overlap(r.seg, q.seg)) => r = q

\* The counters are the numbers of seats in each status, although some paths
\* recount and others add and subtract.
CountersExact == schedule = Recount(schedule, seats)

\* A seat row summarises its segment rows, unless the schedule's cancellation
\* has overwritten it.  Only callers that always name a segment get this.
SummaryMatchesRows ==
  \A s \in Seats :
    \/ seats[s].status = Summary(segLocks, s)
    \/ /\ seats[s].status = "ABSENT"
       /\ RowsOf(segLocks, s) = {}
    \/ /\ seats[s].status = "CANCELLED"
       /\ schedule.status = "CANCELLED"

\* Once the schedule is cancelled its seats stay cancelled and its counters
\* stay zero.  Only the full-journey paths keep this: every segment path
\* recomputes the status of the seats it touches.
CancelledIsFinal ==
  schedule.status = "CANCELLED" =>
    /\ \A s \in Seats : seats[s].status = "CANCELLED"
    /\ schedule.available = 0 /\ schedule.locked = 0 /\ schedule.booked = 0

\* The claims the tables stand for: every segment row, and the whole journey
\* of a seat that is taken without any segment row.
SegmentClaims ==
  {[seat |-> r.seat, seg |-> r.seg, owner |-> r.lockedBy, booking |-> r.bookingId] :
      r \in segLocks}

TakenWhole == {s \in WithStatus(seats, "LOCKED") \cup WithStatus(seats, "BOOKED") :
                 RowsOf(segLocks, s) = {}}

WholeClaims ==
  {[seat |-> s, seg |-> [from |-> 0, to |-> LastStop + 1],
    owner |-> seats[s].lockedBy,
    booking |-> IF seats[s].status = "BOOKED" THEN seats[s].bookingId ELSE NoBooking] :
      s \in TakenWhole}

Reservation == INSTANCE SeatReservation WITH claims <- SegmentClaims \cup WholeClaims

\* Callers that keep to one path get what SeatReservation promises.
ImplementsReservation == Reservation!ReservationSpec
=============================================================================
