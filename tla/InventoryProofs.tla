--------------------------- MODULE InventoryProofs ---------------------------
(***************************************************************************)
(* Theorems about Inventory, for every set of seats, users and bookings,   *)
(* every route length and both request paths.                              *)
(***************************************************************************)
EXTENDS Inventory, FiniteSetTheorems, TLAPS

-----------------------------------------------------------------------------
(* Lemmas about the helpers *)

\* The seats in one status are finitely many, so they can be counted.
LEMMA CountType ==
  ASSUME NEW sts, NEW status
  PROVE  /\ IsFiniteSet(WithStatus(sts, status))
         /\ CountOf(sts, status) \in Nat
  <1>1. WithStatus(sts, status) \in SUBSET Seats
    BY DEF WithStatus
  <1>2. IsFiniteSet(WithStatus(sts, status))
    BY <1>1, FS_Subset, SeatsAssumption
  <1> QED
    BY <1>2, FS_CardinalityType DEF CountOf

LEMMA RequestSize ==
  ASSUME NEW S \in SUBSET Seats
  PROVE  IsFiniteSet(S) /\ Cardinality(S) \in Nat
  BY FS_Subset, FS_CardinalityType, SeatsAssumption

\* A summary is one of the three statuses a segment seat can have.
LEMMA SummaryType ==
  ASSUME NEW L, NEW s
  PROVE  Summary(L, s) \in {"AVAILABLE", "LOCKED", "BOOKED"}
  BY DEF Summary

LEMMA RecomputeType ==
  ASSUME NEW sts \in [Seats -> SeatRow], NEW L, NEW S
  PROVE  Recompute(sts, L, S) \in [Seats -> SeatRow]
  <1> SUFFICES ASSUME NEW s \in Seats
               PROVE  Recompute(sts, L, S)[s] \in SeatRow
    BY DEF Recompute
  <1>1. sts[s] \in SeatRow /\ FreeSeat \in SeatRow
    BY DEF SeatRow, FreeSeat, Seat, SeatStatus
  <1>2. [sts[s] EXCEPT !.status = Summary(L, s)] \in SeatRow
    BY <1>1, SummaryType DEF SeatRow, SeatStatus
  <1> QED
    BY <1>1, <1>2 DEF Recompute

LEMMA RecountType ==
  ASSUME NEW sch \in ScheduleRow, NEW sts
  PROVE  Recount(sch, sts) \in ScheduleRow
  BY CountType DEF Recount, ScheduleRow

\* Counting again changes nothing: a recount only depends on the seats.
LEMMA RecountTwice ==
  ASSUME NEW sch \in ScheduleRow, NEW sts
  PROVE  Recount(Recount(sch, sts), sts) = Recount(sch, sts)
  BY CountType DEF Recount, ScheduleRow

LEMMA ShiftType ==
  ASSUME NEW sch \in ScheduleRow, NEW a \in Int, NEW l \in Int, NEW b \in Int
  PROVE  Shift(sch, a, l, b) \in ScheduleRow
  BY DEF Shift, ScheduleRow

LEMMA HeldRowsSubset ==
  ASSUME NEW u, NEW S, NEW g
  PROVE  HeldRows(u, S, g) \subseteq segLocks
  BY DEF HeldRows

LEMMA NewRowsType ==
  ASSUME NEW u \in Users, NEW S \in SUBSET Seats, NEW g \in Segments
  PROVE  NewRows(u, S, g) \subseteq SegmentLock
  BY DEF NewRows, SegmentLock

\* A booked row is a row.
LEMMA BookRowType ==
  ASSUME NEW r \in SegmentLock, NEW b \in Bookings
  PROVE  [r EXCEPT !.status = "BOOKED", !.bookingId = b] \in SegmentLock
  BY DEF SegmentLock

-----------------------------------------------------------------------------
(* Type correctness *)

LEMMA InitTypeOK == Init => TypeOK
  BY DEF Init, TypeOK, ScheduleRow, SeatRow, FreeSeat, Seat, SeatStatus, EventKeys

LEMMA SegmentTypeOK ==
  ASSUME TypeOK, SegmentRequest
  PROVE  TypeOK'
  <1> PICK u \in Users, S \in SUBSET Seats, g \in Segments :
        \/ LockSegment(u, S, g)
        \/ UnlockSegment(u, S, g)
        \/ \E b \in Bookings : ConfirmSegment(u, S, g, b)
    BY DEF SegmentRequest
  <1>1. CASE LockSegment(u, S, g)
    <2>1. segLocks' \subseteq SegmentLock
      BY <1>1, NewRowsType DEF LockSegment, TypeOK
    <2>2. Owned(seats, u, S) \in [Seats -> SeatRow]
      BY DEF Owned, TypeOK, SeatRow
    <2> QED
      BY <1>1, <2>1, <2>2, RecomputeType, RecountType DEF LockSegment, TypeOK
  <1>2. CASE UnlockSegment(u, S, g)
    BY <1>2, RecomputeType, RecountType DEF UnlockSegment, TypeOK
  <1>3. ASSUME NEW b \in Bookings, ConfirmSegment(u, S, g, b)
        PROVE  TypeOK'
    <2>1. segLocks' \subseteq SegmentLock
      <3>1. \A r \in HeldRows(u, S, g) :
              [r EXCEPT !.status = "BOOKED", !.bookingId = b] \in SegmentLock
        BY HeldRowsSubset, BookRowType DEF TypeOK
      <3> QED
        BY <1>3, <3>1 DEF ConfirmSegment, SoldRows, TypeOK
    <2> QED
      BY <1>3, <2>1, RecomputeType, RecountType DEF ConfirmSegment, TypeOK
  <1> QED
    BY <1>1, <1>2, <1>3

LEMMA FullTypeOK ==
  ASSUME TypeOK, FullRequest
  PROVE  TypeOK'
  <1> PICK u \in Users, S \in SUBSET Seats :
        \/ LockFull(u, S)
        \/ UnlockFull(u, S)
        \/ \E b \in Bookings : ConfirmFull(u, S, b)
    BY DEF FullRequest
  <1> DEFINE n == Cardinality(S)
  <1>1. n \in Int /\ -n \in Int /\ 0 \in Int
    BY RequestSize
  <1>2. CASE LockFull(u, S)
    <2>1. schedule' \in ScheduleRow
      BY <1>1, <1>2, ShiftType DEF LockFull, TypeOK
    <2>2. seats' \in [Seats -> SeatRow]
      BY <1>2 DEF LockFull, Seat, TypeOK, SeatRow, SeatStatus
    <2> QED
      BY <1>2, <2>1, <2>2 DEF LockFull, TypeOK
  <1>3. CASE UnlockFull(u, S)
    <2>1. schedule' \in ScheduleRow
      BY <1>1, <1>3, ShiftType DEF UnlockFull, TypeOK
    <2>2. seats' \in [Seats -> SeatRow]
      BY <1>3 DEF UnlockFull, Seat, TypeOK, SeatRow, SeatStatus
    <2> QED
      BY <1>3, <2>1, <2>2 DEF UnlockFull, TypeOK
  <1>4. ASSUME NEW b \in Bookings, ConfirmFull(u, S, b)
        PROVE  TypeOK'
    <2>1. schedule' \in ScheduleRow
      BY <1>1, <1>4, ShiftType DEF ConfirmFull, TypeOK
    <2>2. seats' \in [Seats -> SeatRow]
      BY <1>4 DEF ConfirmFull, Seat, TypeOK, SeatRow, SeatStatus
    <2> QED
      BY <1>4, <2>1, <2>2 DEF ConfirmFull, TypeOK
  <1> QED
    BY <1>2, <1>3, <1>4

LEMMA CancelTypeOK ==
  ASSUME TypeOK, CancelRequest
  PROVE  TypeOK'
  <1> PICK b \in Bookings : CancelSegmentBooking(b) \/ CancelFullBooking(b)
    BY DEF CancelRequest
  <1>1. CASE CancelSegmentBooking(b)
    BY <1>1, RecomputeType, RecountType DEF CancelSegmentBooking, TypeOK
  <1>2. CASE CancelFullBooking(b)
    <2> DEFINE n == Cardinality(BookedSeats(b))
    <2>1. n \in Int /\ -n \in Int
      BY RequestSize DEF BookedSeats
    <2>2. schedule' \in ScheduleRow
      BY <1>2, <2>1, ShiftType DEF CancelFullBooking, TypeOK
    <2>3. seats' \in [Seats -> SeatRow]
      BY <1>2 DEF CancelFullBooking, TypeOK, SeatRow, SeatStatus, FreeSeat, Seat
    <2> QED
      BY <1>2, <2>2, <2>3 DEF CancelFullBooking, TypeOK
  <1> QED
    BY <1>1, <1>2

LEMMA NextTypeOK == TypeOK /\ [Next]_invVars => TypeOK'
  <1> SUFFICES ASSUME TypeOK, [Next]_invVars
               PROVE  TypeOK'
    OBVIOUS
  <1>1. CASE InitializeInventory
    <2>1. Cardinality(Seats) \in Int
      BY RequestSize
    <2> QED
      BY <1>1, <2>1 DEF InitializeInventory, TypeOK, ScheduleRow, SeatRow,
                        FreeSeat, Seat, SeatStatus, EventKeys
  <1>2. CASE CancelScheduleInventory
    BY <1>2 DEF CancelScheduleInventory, TypeOK, ScheduleRow, SeatRow,
                SeatStatus, EventKeys
  <1>3. CASE UNCHANGED invVars
    BY <1>3 DEF invVars, TypeOK
  <1> QED
    BY <1>1, <1>2, <1>3, SegmentTypeOK, FullTypeOK, CancelTypeOK DEF Next

\* The rows of the three tables always have the columns and values the code
\* writes, whatever requests and events arrive.
THEOREM TypeCorrect == Spec => []TypeOK
  <1> QED
    BY InitTypeOK, NextTypeOK, PTL DEF Spec

-----------------------------------------------------------------------------
(* Seats are never given twice *)

\* Overlap does not depend on which of the two segments is named first.
LEMMA OverlapSymmetric ==
  ASSUME NEW g \in Segments, NEW h \in Segments
  PROVE  Overlap(g, h) <=> Overlap(h, g)
  BY DEF Overlap

\* The rows a lock adds are one per seat, and overlap no row that was there.
LEMMA LockNoOverlap ==
  ASSUME TypeOK, NoOverlappingSegments,
         NEW u \in Users, NEW S \in SUBSET Seats, NEW g \in Segments,
         \A s \in S : ~SegmentBlocked(s, g),
         segLocks' = segLocks \cup NewRows(u, S, g)
  PROVE  NoOverlappingSegments'
  <1> SUFFICES ASSUME NEW r \in segLocks', NEW q \in segLocks',
                      r.seat = q.seat, Overlap(r.seg, q.seg)
               PROVE  r = q
    BY DEF NoOverlappingSegments
  <1>2. \A x \in NewRows(u, S, g) :
          x = [seat |-> x.seat, seg |-> g, status |-> "LOCKED",
               lockedBy |-> u, bookingId |-> NoBooking] /\ x.seat \in S
    BY DEF NewRows
  <1>3. \A x \in segLocks : x.seat \in S => ~Overlap(x.seg, g) /\ ~Overlap(g, x.seg)
    <2>1. \A x \in segLocks : x.seat \in S => ~Overlap(x.seg, g)
      BY DEF SegmentBlocked
    <2>2. \A x \in segLocks : x.seg \in Segments
      BY DEF TypeOK, SegmentLock
    <2> QED
      BY <2>1, <2>2, OverlapSymmetric
  <1>4. CASE r \in segLocks /\ q \in segLocks
    BY <1>4 DEF NoOverlappingSegments
  <1>5. CASE r \in NewRows(u, S, g) /\ q \in NewRows(u, S, g)
    BY <1>2, <1>5
  <1>6. CASE r \in segLocks /\ q \in NewRows(u, S, g)
    <2>1. q.seat \in S /\ q.seg = g
      BY <1>6 DEF NewRows
    <2> QED
      BY <1>3, <1>6, <2>1
  <1>7. CASE r \in NewRows(u, S, g) /\ q \in segLocks
    <2>1. r.seat \in S /\ r.seg = g
      BY <1>7 DEF NewRows
    <2> QED
      BY <1>3, <1>7, <2>1
  <1> QED
    BY <1>4, <1>5, <1>6, <1>7

\* Confirming changes neither the seat nor the segment of a row.
LEMMA ConfirmNoOverlap ==
  ASSUME TypeOK, NoOverlappingSegments,
         NEW u \in Users, NEW S \in SUBSET Seats, NEW g \in Segments,
         NEW b \in Bookings,
         segLocks' = (segLocks \ HeldRows(u, S, g)) \cup SoldRows(u, S, g, b)
  PROVE  NoOverlappingSegments'
  <1> DEFINE H == HeldRows(u, S, g)
             Sold(r) == [r EXCEPT !.status = "BOOKED", !.bookingId = b]
  <1> SUFFICES ASSUME NEW r \in segLocks', NEW q \in segLocks',
                      r.seat = q.seat, Overlap(r.seg, q.seg)
               PROVE  r = q
    BY DEF NoOverlappingSegments
  <1>1. segLocks' = (segLocks \ H) \cup {Sold(x) : x \in H}
    BY DEF SoldRows
  <1>2. \A x \in segLocks : Sold(x).seat = x.seat /\ Sold(x).seg = x.seg
    BY DEF TypeOK, SegmentLock
  <1>3. H \subseteq segLocks
    BY HeldRowsSubset
  <1> HIDE DEF H, Sold
  <1>4. PICK x \in segLocks : (x \notin H /\ r = x) \/ (x \in H /\ r = Sold(x))
    BY <1>1, <1>3
  <1>5. PICK y \in segLocks : (y \notin H /\ q = y) \/ (y \in H /\ q = Sold(y))
    BY <1>1, <1>3
  <1>6. x.seat = r.seat /\ x.seg = r.seg /\ y.seat = q.seat /\ y.seg = q.seg
    BY <1>2, <1>4, <1>5
  <1>7. x = y
    BY <1>6 DEF NoOverlappingSegments
  <1> QED
    BY <1>4, <1>5, <1>7

LEMMA FewerRowsNoOverlap ==
  ASSUME NoOverlappingSegments, segLocks' \subseteq segLocks
  PROVE  NoOverlappingSegments'
  BY DEF NoOverlappingSegments

LEMMA RequestNoOverlap ==
  ASSUME TypeOK, NoOverlappingSegments, SegmentRequest
  PROVE  NoOverlappingSegments'
  <1> PICK u \in Users, S \in SUBSET Seats, g \in Segments :
        \/ LockSegment(u, S, g)
        \/ UnlockSegment(u, S, g)
        \/ \E b \in Bookings : ConfirmSegment(u, S, g, b)
    BY DEF SegmentRequest
  <1>1. CASE LockSegment(u, S, g)
    BY <1>1, LockNoOverlap DEF LockSegment
  <1>2. CASE UnlockSegment(u, S, g)
    BY <1>2, FewerRowsNoOverlap DEF UnlockSegment
  <1>3. ASSUME NEW b \in Bookings, ConfirmSegment(u, S, g, b)
        PROVE  NoOverlappingSegments'
    BY <1>3, ConfirmNoOverlap DEF ConfirmSegment
  <1> QED
    BY <1>1, <1>2, <1>3

\* Every other step keeps the rows or removes some.
LEMMA NextNoOverlap ==
  TypeOK /\ NoOverlappingSegments /\ [Next]_invVars => NoOverlappingSegments'
  <1> SUFFICES ASSUME TypeOK, NoOverlappingSegments, [Next]_invVars
               PROVE  NoOverlappingSegments'
    OBVIOUS
  <1>1. ASSUME segLocks' \subseteq segLocks
        PROVE  NoOverlappingSegments'
    BY <1>1, FewerRowsNoOverlap
  <1>2. CASE SegmentRequest
    BY <1>2, RequestNoOverlap
  <1>3. CASE FullRequest
    BY <1>1, <1>3 DEF FullRequest, LockFull, UnlockFull, ConfirmFull
  <1>4. CASE CancelRequest
    BY <1>1, <1>4 DEF CancelRequest, CancelSegmentBooking, CancelFullBooking
  <1>5. CASE InitializeInventory \/ CancelScheduleInventory \/ UNCHANGED invVars
    BY <1>1, <1>5 DEF InitializeInventory, CancelScheduleInventory, invVars
  <1> QED
    BY <1>2, <1>3, <1>4, <1>5 DEF Next

\* A seat is never locked or booked twice for overlapping segments: the
\* overlap check of lockSeats is enough for every later request.
THEOREM NoDoubleBooking == Spec => []NoOverlappingSegments
  <1>1. Init => NoOverlappingSegments
    BY DEF Init, NoOverlappingSegments
  <1> QED
    BY <1>1, TypeCorrect, NextNoOverlap, PTL DEF Spec

-----------------------------------------------------------------------------
(* The counters *)

\* CountersExact, one counter at a time.
LEMMA ExactByCounter ==
  ASSUME NEW sch \in ScheduleRow, NEW sts
  PROVE  sch = Recount(sch, sts) <=>
           /\ sch.available = CountOf(sts, "AVAILABLE")
           /\ sch.locked = CountOf(sts, "LOCKED")
           /\ sch.booked = CountOf(sts, "BOOKED")
  BY DEF Recount, ScheduleRow

LEMMA ExactNext ==
  ASSUME TypeOK',
         schedule'.available = CountOf(seats', "AVAILABLE"),
         schedule'.locked = CountOf(seats', "LOCKED"),
         schedule'.booked = CountOf(seats', "BOOKED")
  PROVE  CountersExact'
  <1>1. schedule' = Recount(schedule', seats')
    BY ExactByCounter DEF TypeOK
  <1> QED
    BY <1>1 DEF CountersExact

\* Moving the seats of S from one status to another moves their number from
\* one count to the other, and leaves the remaining counts alone.
LEMMA MoveCounts ==
  ASSUME NEW S \in SUBSET Seats, NEW src, NEW dst, src # dst,
         \A s \in S : seats[s].status = src /\ seats'[s].status = dst,
         \A s \in Seats \ S : seats'[s].status = seats[s].status
  PROVE  /\ CountOf(seats', src) = CountOf(seats, src) - Cardinality(S)
         /\ CountOf(seats', dst) = CountOf(seats, dst) + Cardinality(S)
         /\ \A st : st # src /\ st # dst => CountOf(seats', st) = CountOf(seats, st)
  <1> DEFINE A == WithStatus(seats, src)
             D == WithStatus(seats, dst)
  <1>1. IsFiniteSet(A) /\ IsFiniteSet(D) /\ IsFiniteSet(S)
    BY CountType, RequestSize
  <1>2. /\ WithStatus(seats', src) = A \ S
        /\ WithStatus(seats', dst) = D \cup S
        /\ A \cap S = S /\ D \cap S = {}
    BY DEF WithStatus
  <1>3. \A st : st # src /\ st # dst => WithStatus(seats', st) = WithStatus(seats, st)
    BY DEF WithStatus
  <1> HIDE DEF A, D
  <1>4. Cardinality(A \ S) = Cardinality(A) - Cardinality(S)
    BY <1>1, <1>2, FS_Difference
  <1>5. Cardinality(D \cup S) = Cardinality(D) + Cardinality(S)
    <2>1. Cardinality(D \cup S) = Cardinality(D) + Cardinality(S) - Cardinality(D \cap S)
      BY <1>1, FS_Union
    <2>2. Cardinality(D \cap S) = 0
      BY <1>2, FS_EmptySet
    <2>3. Cardinality(D) \in Nat /\ Cardinality(S) \in Nat
      BY <1>1, FS_CardinalityType
    <2> QED
      BY <2>1, <2>2, <2>3
  <1> QED
    BY <1>2, <1>3, <1>4, <1>5 DEF CountOf, A, D

\* What CountersExact says before a step, and the ranges it needs.
LEMMA ExactNow ==
  ASSUME TypeOK, CountersExact
  PROVE  /\ schedule.available = CountOf(seats, "AVAILABLE")
         /\ schedule.locked = CountOf(seats, "LOCKED")
         /\ schedule.booked = CountOf(seats, "BOOKED")
         /\ \A st : CountOf(seats, st) \in Nat
  BY ExactByCounter, CountType DEF CountersExact, TypeOK

\* The full-journey paths shift the counters by the number of seats they move.
LEMMA LockFullCounters ==
  ASSUME TypeOK, TypeOK', CountersExact,
         NEW u, NEW S \in SUBSET Seats, LockFull(u, S)
  PROVE  CountersExact'
  <1>1. S \in SUBSET Seats /\ Cardinality(S) \in Nat
    BY RequestSize
  <1>2. /\ \A s \in S : seats[s].status = "AVAILABLE" /\ seats'[s].status = "LOCKED"
        /\ \A s \in Seats \ S : seats'[s].status = seats[s].status
    BY DEF LockFull, Seat
  <1>3. /\ CountOf(seats', "AVAILABLE") = CountOf(seats, "AVAILABLE") - Cardinality(S)
        /\ CountOf(seats', "LOCKED") = CountOf(seats, "LOCKED") + Cardinality(S)
        /\ CountOf(seats', "BOOKED") = CountOf(seats, "BOOKED")
    BY <1>1, <1>2, MoveCounts
  <1>4. /\ schedule'.available = schedule.available - Cardinality(S)
        /\ schedule'.locked = schedule.locked + Cardinality(S)
        /\ schedule'.booked = schedule.booked
    BY <1>1, ExactNow DEF LockFull, Shift
  <1> QED
    BY <1>3, <1>4, ExactNow, ExactNext

LEMMA UnlockFullCounters ==
  ASSUME TypeOK, TypeOK', CountersExact,
         NEW u, NEW S \in SUBSET Seats, UnlockFull(u, S)
  PROVE  CountersExact'
  <1>1. S \in SUBSET Seats /\ Cardinality(S) \in Nat
    BY RequestSize
  <1>2. /\ \A s \in S : seats[s].status = "LOCKED" /\ seats'[s].status = "AVAILABLE"
        /\ \A s \in Seats \ S : seats'[s].status = seats[s].status
    BY DEF UnlockFull, AllLockedBy, Seat
  <1>3. /\ CountOf(seats', "LOCKED") = CountOf(seats, "LOCKED") - Cardinality(S)
        /\ CountOf(seats', "AVAILABLE") = CountOf(seats, "AVAILABLE") + Cardinality(S)
        /\ CountOf(seats', "BOOKED") = CountOf(seats, "BOOKED")
    BY <1>1, <1>2, MoveCounts
  <1>4. /\ schedule'.available = schedule.available + Cardinality(S)
        /\ schedule'.locked = schedule.locked - Cardinality(S)
        /\ schedule'.booked = schedule.booked
    BY <1>1, ExactNow DEF UnlockFull, Shift
  <1> QED
    BY <1>3, <1>4, ExactNow, ExactNext

LEMMA ConfirmFullCounters ==
  ASSUME TypeOK, TypeOK', CountersExact,
         NEW u, NEW S \in SUBSET Seats, NEW b, ConfirmFull(u, S, b)
  PROVE  CountersExact'
  <1>1. S \in SUBSET Seats /\ Cardinality(S) \in Nat
    BY RequestSize
  <1>2. /\ \A s \in S : seats[s].status = "LOCKED" /\ seats'[s].status = "BOOKED"
        /\ \A s \in Seats \ S : seats'[s].status = seats[s].status
    BY DEF ConfirmFull, AllLockedBy, Seat
  <1>3. /\ CountOf(seats', "LOCKED") = CountOf(seats, "LOCKED") - Cardinality(S)
        /\ CountOf(seats', "BOOKED") = CountOf(seats, "BOOKED") + Cardinality(S)
        /\ CountOf(seats', "AVAILABLE") = CountOf(seats, "AVAILABLE")
    BY <1>1, <1>2, MoveCounts
  <1>4. /\ schedule'.available = schedule.available
        /\ schedule'.locked = schedule.locked - Cardinality(S)
        /\ schedule'.booked = schedule.booked + Cardinality(S)
    BY <1>1, ExactNow DEF ConfirmFull, Shift
  <1> QED
    BY <1>3, <1>4, ExactNow, ExactNext

LEMMA CancelFullCounters ==
  ASSUME TypeOK, TypeOK', CountersExact, NEW b \in Bookings, CancelFullBooking(b)
  PROVE  CountersExact'
  <1> DEFINE S == BookedSeats(b)
  <1>1. S \in SUBSET Seats
    BY DEF BookedSeats
  <1>3. Cardinality(S) \in Nat
    BY <1>1, RequestSize
  <1>4. /\ \A s \in S : seats[s].status = "BOOKED" /\ seats'[s].status = "AVAILABLE"
        /\ \A s \in Seats \ S : seats'[s].status = seats[s].status
    BY DEF CancelFullBooking, BookedSeats, FreeSeat, Seat
  <1> HIDE DEF S
  <1>5. /\ CountOf(seats', "BOOKED") = CountOf(seats, "BOOKED") - Cardinality(S)
        /\ CountOf(seats', "AVAILABLE") = CountOf(seats, "AVAILABLE") + Cardinality(S)
        /\ CountOf(seats', "LOCKED") = CountOf(seats, "LOCKED")
    BY <1>1, <1>4, MoveCounts
  <1>6. /\ schedule'.available = schedule.available + Cardinality(S)
        /\ schedule'.locked = schedule.locked
        /\ schedule'.booked = schedule.booked - Cardinality(S)
    BY <1>3 DEF CancelFullBooking, Shift, S, TypeOK, ScheduleRow
  <1> QED
    BY <1>5, <1>6, ExactNow, ExactNext

LEMMA NextCounters ==
  TypeOK /\ CountersExact /\ [Next]_invVars => CountersExact'
  <1> SUFFICES ASSUME TypeOK, CountersExact, [Next]_invVars
               PROVE  CountersExact'
    OBVIOUS
  <1>1. TypeOK'
    BY NextTypeOK
  <1>2. ASSUME schedule' = Recount(schedule, seats')
        PROVE  CountersExact'
    BY <1>2, RecountTwice DEF CountersExact, TypeOK
  <1>3. CASE SegmentRequest
    BY <1>2, <1>3 DEF SegmentRequest, LockSegment, UnlockSegment, ConfirmSegment
  <1>4. CASE CancelRequest
    BY <1>1, <1>2, <1>4, CancelFullCounters DEF CancelRequest, CancelSegmentBooking
  <1>5. CASE InitializeInventory
    <2>1. /\ WithStatus(seats', "AVAILABLE") = Seats
          /\ WithStatus(seats', "LOCKED") = {}
          /\ WithStatus(seats', "BOOKED") = {}
      BY <1>5 DEF InitializeInventory, WithStatus, FreeSeat, Seat
    <2>2. /\ CountOf(seats', "AVAILABLE") = Cardinality(Seats)
          /\ CountOf(seats', "LOCKED") = 0
          /\ CountOf(seats', "BOOKED") = 0
      BY <2>1, FS_EmptySet DEF CountOf
    <2>3. /\ schedule'.available = Cardinality(Seats)
          /\ schedule'.locked = 0 /\ schedule'.booked = 0
      BY <1>5 DEF InitializeInventory
    <2> QED
      BY <1>1, <2>2, <2>3, ExactNext
  <1>6. CASE CancelScheduleInventory
    <2>1. /\ WithStatus(seats', "AVAILABLE") = {}
          /\ WithStatus(seats', "LOCKED") = {}
          /\ WithStatus(seats', "BOOKED") = {}
      BY <1>6 DEF CancelScheduleInventory, WithStatus, TypeOK, SeatRow
    <2>2. \A st \in {"AVAILABLE", "LOCKED", "BOOKED"} : CountOf(seats', st) = 0
      BY <2>1, FS_EmptySet DEF CountOf
    <2>3. schedule'.available = 0 /\ schedule'.locked = 0 /\ schedule'.booked = 0
      BY <1>6 DEF CancelScheduleInventory
    <2> QED
      BY <1>1, <2>2, <2>3, ExactNext
  <1>7. CASE FullRequest
    BY <1>1, <1>7, LockFullCounters, UnlockFullCounters, ConfirmFullCounters
    DEF FullRequest
  <1>8. CASE UNCHANGED invVars
    BY <1>8 DEF invVars, CountersExact, Recount, CountOf, WithStatus
  <1> QED
    BY <1>1, <1>3, <1>4, <1>5, <1>6, <1>7, <1>8 DEF Next

LEMMA InitCounters == Init => CountersExact
  <1> SUFFICES ASSUME Init PROVE CountersExact
    OBVIOUS
  <1>1. \A st \in {"AVAILABLE", "LOCKED", "BOOKED"} : WithStatus(seats, st) = {}
    BY DEF Init, WithStatus, FreeSeat, Seat
  <1> QED
    BY <1>1, FS_EmptySet DEF Init, CountersExact, Recount, CountOf

\* available, locked and booked are always the numbers of seats in these
\* statuses, across the paths that recount and the paths that add and
\* subtract, as long as requests do not overlap in time.
THEOREM CountersAreExact == Spec => []CountersExact
  <1> QED
    BY InitCounters, TypeCorrect, NextCounters, PTL DEF Spec

-----------------------------------------------------------------------------
(* Callers that always name a segment: SegmentSpec *)

\* A row has a booking exactly when it is sold, so that cancelling a booking
\* removes rows of the seats it recomputes and of no other seat.
SoldHasBooking == \A r \in segLocks : r.status = "BOOKED" <=> r.bookingId # NoBooking

\* No row is written before the schedule's event, which writes the seats.
NothingBefore ==
  "SCHEDULE_CREATED" \notin processed => schedule.status = "ABSENT" /\ segLocks = {}

SegmentInv ==
  /\ TypeOK
  /\ NoOverlappingSegments
  /\ SoldHasBooking
  /\ NothingBefore
  /\ SummaryMatchesRows

\* The steps of SegmentSpec are steps of Spec with the segment path enabled.
LEMMA SegmentStepOK ==
  ASSUME TypeOK, NoOverlappingSegments, SegmentNext
  PROVE  TypeOK' /\ NoOverlappingSegments'
  <1>1. ASSUME CancelRequest \/ InitializeInventory \/ CancelScheduleInventory
        PROVE  Next
    BY <1>1 DEF Next
  <1>2. CASE SegmentRequest
    <2>1. TypeOK'
      BY <1>2, SegmentTypeOK
    <2>2. NoOverlappingSegments'
      BY <1>2, RequestNoOverlap
    <2> QED
      BY <2>1, <2>2
  <1>3. (\E b \in Bookings : CancelSegmentBooking(b)) => CancelRequest
    BY DEF CancelRequest
  <1> QED
    BY <1>1, <1>2, <1>3, NextTypeOK, NextNoOverlap DEF SegmentNext

\* Recomputing the seats in S gives them the summaries of their rows and
\* leaves the other seats alone.
LEMMA RecomputeStatus ==
  ASSUME NEW sts \in [Seats -> SeatRow], NEW L, NEW S, NEW s \in Seats
  PROVE  /\ s \in S => Recompute(sts, L, S)[s].status = Summary(L, s)
         /\ s \notin S => Recompute(sts, L, S)[s] = sts[s]
  <1>1. [sts[s] EXCEPT !.status = Summary(L, s)].status = Summary(L, s)
    BY DEF SeatRow
  <1> QED
    BY <1>1 DEF Recompute, FreeSeat, Seat

LEMMA SummaryOfRows ==
  ASSUME NEW L, NEW M, NEW s, RowsOf(L, s) = RowsOf(M, s)
  PROVE  Summary(L, s) = Summary(M, s)
  BY DEF Summary

\* A transaction that recomputes every seat whose rows it changes keeps the
\* summaries.
LEMMA RecomputeKeepsSummaries ==
  ASSUME TypeOK, SummaryMatchesRows,
         NEW S \in SUBSET Seats, NEW sts \in [Seats -> SeatRow],
         \A s \in Seats : sts[s].status = seats[s].status,
         \A s \in Seats \ S : RowsOf(segLocks', s) = RowsOf(segLocks, s),
         seats' = Recompute(sts, segLocks', S),
         schedule' = Recount(schedule, seats')
  PROVE  SummaryMatchesRows'
  <1> SUFFICES ASSUME NEW s \in Seats
               PROVE  \/ seats'[s].status = Summary(segLocks', s)
                      \/ /\ seats'[s].status = "ABSENT"
                         /\ RowsOf(segLocks', s) = {}
                      \/ /\ seats'[s].status = "CANCELLED"
                         /\ schedule'.status = "CANCELLED"
    BY DEF SummaryMatchesRows
  <1>1. CASE s \in S
    BY <1>1, RecomputeStatus
  <1>2. CASE s \notin S
    <2>1. seats'[s].status = seats[s].status
      BY <1>2, RecomputeStatus
    <2>2. RowsOf(segLocks', s) = RowsOf(segLocks, s)
      BY <1>2
    <2>3. Summary(segLocks', s) = Summary(segLocks, s)
      BY <2>2, SummaryOfRows
    <2>4. schedule'.status = schedule.status
      BY DEF Recount
    <2> QED
      BY <2>1, <2>2, <2>3, <2>4 DEF SummaryMatchesRows
  <1> QED
    BY <1>1, <1>2

LEMMA LockKeepsSegmentInv ==
  ASSUME SegmentInv, NEW u \in Users, NEW S \in SUBSET Seats, NEW g \in Segments,
         LockSegment(u, S, g)
  PROVE  SoldHasBooking' /\ NothingBefore' /\ SummaryMatchesRows'
  <1> USE DEF SegmentInv
  <1>1. \A r \in NewRows(u, S, g) :
          r.seat \in S /\ r.status = "LOCKED" /\ r.bookingId = NoBooking
    BY DEF NewRows
  <1>2. SoldHasBooking'
    BY <1>1 DEF LockSegment, SoldHasBooking
  <1>3. NothingBefore'
    BY DEF LockSegment, NothingBefore
  <1>4. /\ Owned(seats, u, S) \in [Seats -> SeatRow]
        /\ \A s \in Seats : Owned(seats, u, S)[s].status = seats[s].status
    BY DEF Owned, TypeOK, SeatRow
  <1>5. \A s \in Seats \ S : RowsOf(segLocks', s) = RowsOf(segLocks, s)
    BY <1>1 DEF LockSegment, RowsOf
  <1>6. SummaryMatchesRows'
    BY <1>4, <1>5, RecomputeKeepsSummaries DEF LockSegment
  <1> QED
    BY <1>2, <1>3, <1>6

LEMMA UnlockKeepsSegmentInv ==
  ASSUME SegmentInv, NEW u \in Users, NEW S \in SUBSET Seats, NEW g \in Segments,
         UnlockSegment(u, S, g)
  PROVE  SoldHasBooking' /\ NothingBefore' /\ SummaryMatchesRows'
  <1> USE DEF SegmentInv
  <1>1. SoldHasBooking' /\ NothingBefore'
    BY DEF UnlockSegment, SoldHasBooking, NothingBefore, Recount
  <1>2. \A s \in Seats \ S : RowsOf(segLocks', s) = RowsOf(segLocks, s)
    BY DEF UnlockSegment, RowsOf, HeldRows
  <1> QED
    BY <1>1, <1>2, RecomputeKeepsSummaries DEF UnlockSegment, TypeOK

\* What the sold rows are, for each held row.
LEMMA SoldRowFields ==
  ASSUME TypeOK, NEW u, NEW S, NEW g, NEW b, NEW r \in SoldRows(u, S, g, b)
  PROVE  \E x \in HeldRows(u, S, g) :
           /\ r.seat = x.seat /\ r.seg = x.seg /\ r.lockedBy = x.lockedBy
           /\ r.status = "BOOKED" /\ r.bookingId = b
  <1>1. PICK x \in HeldRows(u, S, g) : r = [x EXCEPT !.status = "BOOKED", !.bookingId = b]
    BY DEF SoldRows
  <1>2. x \in SegmentLock
    BY HeldRowsSubset DEF TypeOK
  <1> QED
    BY <1>1, <1>2 DEF SegmentLock

LEMMA ConfirmKeepsSegmentInv ==
  ASSUME SegmentInv, NEW u \in Users, NEW S \in SUBSET Seats, NEW g \in Segments,
         NEW b \in Bookings, ConfirmSegment(u, S, g, b)
  PROVE  SoldHasBooking' /\ NothingBefore' /\ SummaryMatchesRows'
  <1> USE DEF SegmentInv
  <1>1. \A r \in SoldRows(u, S, g, b) :
          r.seat \in S /\ r.status = "BOOKED" /\ r.bookingId # NoBooking
    BY SoldRowFields, NullAssumption DEF HeldRows
  <1>2. SoldHasBooking'
    BY <1>1 DEF ConfirmSegment, SoldHasBooking
  <1>3. NothingBefore'
    BY DEF ConfirmSegment, NothingBefore, HeldRows
  <1>4. \A s \in Seats \ S : RowsOf(segLocks', s) = RowsOf(segLocks, s)
    BY <1>1 DEF ConfirmSegment, RowsOf, HeldRows
  <1> QED
    BY <1>2, <1>3, <1>4, RecomputeKeepsSummaries DEF ConfirmSegment, TypeOK

\* The rows of a booking are all sold, so that every seat that loses a row is
\* recomputed.
LEMMA CancelKeepsSegmentInv ==
  ASSUME SegmentInv, NEW b \in Bookings, CancelSegmentBooking(b)
  PROVE  SoldHasBooking' /\ NothingBefore' /\ SummaryMatchesRows'
  <1> USE DEF SegmentInv
  <1> DEFINE S == {r.seat : r \in BookedRows(b)}
  <1>1. SoldHasBooking' /\ NothingBefore'
    BY DEF CancelSegmentBooking, SoldHasBooking, NothingBefore, BookedRows
  <1>2. S \in SUBSET Seats
    BY DEF BookedRows, TypeOK, SegmentLock
  <1>3. \A r \in segLocks : r.bookingId = b => r.seat \in S
    BY NullAssumption DEF BookedRows, SoldHasBooking
  <1>4. \A s \in Seats \ S : RowsOf(segLocks', s) = RowsOf(segLocks, s)
    BY <1>3 DEF CancelSegmentBooking, RowsOf
  <1>5. seats' = Recompute(seats, segLocks', S) /\ schedule' = Recount(schedule, seats')
    BY DEF CancelSegmentBooking
  <1> HIDE DEF S
  <1>6. SummaryMatchesRows'
    BY <1>2, <1>4, <1>5, RecomputeKeepsSummaries DEF TypeOK
  <1> QED
    BY <1>1, <1>6

LEMMA SegmentInvNext == SegmentInv /\ [SegmentNext]_invVars => SegmentInv'
  <1> SUFFICES ASSUME SegmentInv, [SegmentNext]_invVars
               PROVE  SegmentInv'
    OBVIOUS
  <1>1. CASE UNCHANGED invVars
    BY <1>1 DEF invVars, SegmentInv, TypeOK, NoOverlappingSegments, SoldHasBooking,
                NothingBefore, SummaryMatchesRows
  <1>2. ASSUME SegmentNext PROVE TypeOK' /\ NoOverlappingSegments'
    BY <1>2, SegmentStepOK DEF SegmentInv
  <1>3. CASE InitializeInventory
    <2>1. \A s \in Seats : RowsOf(segLocks', s) = {} /\ seats'[s].status = "AVAILABLE"
      BY <1>3 DEF InitializeInventory, SegmentInv, NothingBefore, RowsOf, FreeSeat, Seat
    <2>2. SummaryMatchesRows'
      BY <2>1 DEF SummaryMatchesRows, Summary
    <2> QED
      BY <1>2, <1>3, <2>2
      DEF SegmentNext, SegmentInv, InitializeInventory, SoldHasBooking, NothingBefore
  <1>4. CASE CancelScheduleInventory
    <2>1. \A s \in Seats : seats'[s].status = "CANCELLED" /\ schedule'.status = "CANCELLED"
      BY <1>4 DEF CancelScheduleInventory, SegmentInv, TypeOK, SeatRow
    <2>2. SummaryMatchesRows'
      BY <2>1 DEF SummaryMatchesRows
    <2> QED
      BY <1>2, <1>4, <2>2
      DEF SegmentNext, SegmentInv, CancelScheduleInventory, SoldHasBooking, NothingBefore
  <1>5. CASE SegmentRequest
    BY <1>2, <1>5, LockKeepsSegmentInv, UnlockKeepsSegmentInv, ConfirmKeepsSegmentInv
    DEF SegmentNext, SegmentRequest, SegmentInv
  <1>6. ASSUME NEW b \in Bookings, CancelSegmentBooking(b)
        PROVE  SegmentInv'
    BY <1>2, <1>6, CancelKeepsSegmentInv DEF SegmentNext, SegmentInv
  <1> QED
    BY <1>1, <1>3, <1>4, <1>5, <1>6 DEF SegmentNext

LEMMA SegmentInvInit == Init => SegmentInv
  <1> SUFFICES ASSUME Init PROVE SegmentInv
    OBVIOUS
  <1>1. \A s \in Seats : seats[s].status = "ABSENT" /\ RowsOf(segLocks, s) = {}
    BY DEF Init, Seat, RowsOf
  <1> QED
    BY <1>1, InitTypeOK DEF Init, SegmentInv, NoOverlappingSegments, SoldHasBooking,
                            NothingBefore, SummaryMatchesRows

LEMMA SegmentInvAlways == SegmentSpec => []SegmentInv
  <1> QED
    BY SegmentInvInit, SegmentInvNext, PTL DEF SegmentSpec

\* While every caller names a segment, each seat row says what its segment rows
\* say: no path forgets to recompute a seat whose rows it changes, except that
\* the schedule's cancellation overwrites it.
THEOREM SeatsSummariseRows == SegmentSpec => []SummaryMatchesRows
  <1>1. SegmentInv => SummaryMatchesRows
    BY DEF SegmentInv
  <1> QED
    BY <1>1, SegmentInvAlways, PTL

\* A seat that is taken has a segment row, so no seat is taken as a whole.
LEMMA NoneTakenWhole ==
  ASSUME SummaryMatchesRows, NEW s \in Seats, seats[s].status \in {"LOCKED", "BOOKED"}
  PROVE  RowsOf(segLocks, s) # {}
  BY DEF SummaryMatchesRows, Summary

-----------------------------------------------------------------------------
(* The rows implement SeatReservation, step by step *)

ClaimOf(r) == [seat |-> r.seat, seg |-> r.seg, owner |-> r.lockedBy, booking |-> r.bookingId]

Claims == SegmentClaims \cup WholeClaims

RowClaims == {ClaimOf(r) : r \in segLocks}

\* While every caller names a segment the claims are those of the rows.
LEMMA OnlyRowClaims == SegmentInv => Claims = RowClaims
  <1> SUFFICES ASSUME SegmentInv PROVE Claims = RowClaims
    OBVIOUS
  <1>1. TakenWhole = {}
    BY NoneTakenWhole DEF SegmentInv, TakenWhole, WithStatus
  <1> QED
    BY <1>1 DEF Claims, RowClaims, WholeClaims, SegmentClaims, ClaimOf

LEMMA OnlyRowClaimsNext == SegmentInv' => (Claims = RowClaims)'
  BY OnlyRowClaims, PTL

\* The held claims of u on the segment g of some of the seats in S.
ClaimsHeld(u, S, g) ==
  {c \in RowClaims : c.owner = u /\ c.seat \in S /\ c.seg = g /\ c.booking = NoBooking}

\* They are the claims of the rows a request of that user may act on.
LEMMA HeldClaims ==
  ASSUME TypeOK, SoldHasBooking, NEW u, NEW S, NEW g
  PROVE  /\ ClaimsHeld(u, S, g) = {ClaimOf(r) : r \in HeldRows(u, S, g)}
         /\ \A r \in segLocks, q \in HeldRows(u, S, g) :
              ClaimOf(r) = ClaimOf(q) => r \in HeldRows(u, S, g)
  <1>1. \A r \in segLocks :
          r \in HeldRows(u, S, g) <=>
            /\ ClaimOf(r).owner = u /\ ClaimOf(r).seat \in S /\ ClaimOf(r).seg = g
            /\ ClaimOf(r).booking = NoBooking
    BY DEF TypeOK, SegmentLock, SoldHasBooking, HeldRows, ClaimOf
  <1> QED
    BY <1>1, HeldRowsSubset DEF ClaimsHeld, RowClaims

\* Adding, removing and selling rows adds, removes and sells their claims.
LEMMA LockClaims ==
  ASSUME NEW u, NEW S, NEW g, segLocks' = segLocks \cup NewRows(u, S, g)
  PROVE  RowClaims' = RowClaims \cup [seat : S, seg : {g}, owner : {u}, booking : {NoBooking}]
  <1> DEFINE new == [seat : S, seg : {g}, owner : {u}, booking : {NoBooking}]
  <1>1. ASSUME NEW r \in NewRows(u, S, g) PROVE ClaimOf(r) \in new
    BY DEF NewRows, ClaimOf
  <1>2. ASSUME NEW c \in new PROVE \E r \in NewRows(u, S, g) : c = ClaimOf(r)
    <2> DEFINE r == [seat |-> c.seat, seg |-> g, status |-> "LOCKED", lockedBy |-> u,
                     bookingId |-> NoBooking]
    <2>1. r \in NewRows(u, S, g)
      BY DEF NewRows
    <2>2. c = [seat |-> c.seat, seg |-> g, owner |-> u, booking |-> NoBooking]
      OBVIOUS
    <2>3. c = ClaimOf(r)
      BY <2>2 DEF ClaimOf
    <2> HIDE DEF r
    <2> QED
      BY <2>1, <2>3
  <1> HIDE DEF new
  <1>3. {ClaimOf(r) : r \in NewRows(u, S, g)} = new
    BY <1>1, <1>2
  <1>4. RowClaims' = RowClaims \cup {ClaimOf(r) : r \in NewRows(u, S, g)}
    BY DEF RowClaims, ClaimOf
  <1> QED
    BY <1>3, <1>4 DEF new

LEMMA UnlockClaims ==
  ASSUME TypeOK, SoldHasBooking, NEW u, NEW S, NEW g, segLocks' = segLocks \ HeldRows(u, S, g)
  PROVE  RowClaims' = RowClaims \ ClaimsHeld(u, S, g)
  BY HeldClaims DEF RowClaims

LEMMA SellClaims ==
  ASSUME TypeOK, SoldHasBooking, NEW u, NEW S, NEW g, NEW b,
         segLocks' = (segLocks \ HeldRows(u, S, g)) \cup SoldRows(u, S, g, b)
  PROVE  RowClaims' = (RowClaims \ ClaimsHeld(u, S, g))
                        \cup {[c EXCEPT !.booking = b] : c \in ClaimsHeld(u, S, g)}
  <1> DEFINE H == HeldRows(u, S, g)
             Sold(r) == [r EXCEPT !.status = "BOOKED", !.bookingId = b]
  <1>1. segLocks' = (segLocks \ H) \cup {Sold(r) : r \in H}
    BY DEF SoldRows
  <1>2. /\ ClaimsHeld(u, S, g) = {ClaimOf(r) : r \in H}
        /\ \A r \in segLocks, q \in H : ClaimOf(r) = ClaimOf(q) => r \in H
        /\ H \subseteq segLocks
    BY HeldClaims, HeldRowsSubset
  <1>3. \A r \in segLocks : ClaimOf(Sold(r)) = [ClaimOf(r) EXCEPT !.booking = b]
    BY DEF TypeOK, SegmentLock, ClaimOf
  <1> HIDE DEF H, Sold
  <1>4. RowClaims' = {ClaimOf(r) : r \in segLocks \ H} \cup {ClaimOf(Sold(r)) : r \in H}
    BY <1>1 DEF RowClaims
  <1>5. {ClaimOf(r) : r \in segLocks \ H} = RowClaims \ {ClaimOf(r) : r \in H}
    BY <1>2 DEF RowClaims
  <1>6. {ClaimOf(Sold(r)) : r \in H} = {[ClaimOf(r) EXCEPT !.booking = b] : r \in H}
    BY <1>2, <1>3
  <1>7. {[c EXCEPT !.booking = b] : c \in {ClaimOf(r) : r \in H}}
          = {[ClaimOf(r) EXCEPT !.booking = b] : r \in H}
    OBVIOUS
  <1> QED
    BY <1>2, <1>4, <1>5, <1>6, <1>7

LEMMA CancelClaims ==
  ASSUME NEW b, segLocks' = {r \in segLocks : r.bookingId # b}
  PROVE  RowClaims' = {c \in RowClaims : c.booking # b}
  BY DEF RowClaims, ClaimOf

LEMMA SegmentIsStretch == Segments \subseteq Reservation!Stretch
  BY DEF Segments, Reservation!Stretch

LEMMA LockIsHold ==
  ASSUME SegmentInv, SegmentInv', NEW u \in Users, NEW S \in SUBSET Seats,
         NEW g \in Segments, LockSegment(u, S, g)
  PROVE  Reservation!Hold(u, S, g)
  <1>1. Claims = RowClaims /\ Claims' = RowClaims'
    BY OnlyRowClaims, OnlyRowClaimsNext
  <1>2. \A c \in Claims : c.seat \in S => ~Reservation!Meets(c.seg, g)
    BY <1>1 DEF RowClaims, ClaimOf, LockSegment, SegmentBlocked, Overlap, Reservation!Meets
  <1> QED
    BY <1>1, <1>2, LockClaims DEF LockSegment, Reservation!Hold, Claims

LEMMA UnlockIsRelease ==
  ASSUME SegmentInv, SegmentInv', NEW u \in Users, NEW S \in SUBSET Seats,
         NEW g \in Segments, UnlockSegment(u, S, g)
  PROVE  Reservation!Release(u, S, g)
  <1>1. Claims = RowClaims /\ Claims' = RowClaims'
    BY OnlyRowClaims, OnlyRowClaimsNext
  <1>2. RowClaims' = RowClaims \ ClaimsHeld(u, S, g)
    BY UnlockClaims DEF UnlockSegment, SegmentInv
  <1> QED
    BY <1>1, <1>2 DEF Reservation!Release, Reservation!HeldBy, Claims, ClaimsHeld

LEMMA ConfirmIsSell ==
  ASSUME SegmentInv, SegmentInv', NEW u \in Users, NEW S \in SUBSET Seats,
         NEW g \in Segments, NEW b \in Bookings, ConfirmSegment(u, S, g, b)
  PROVE  Reservation!Sell(u, S, g, b)
  <1>1. Claims = RowClaims /\ Claims' = RowClaims'
    BY OnlyRowClaims, OnlyRowClaimsNext
  <1>2. RowClaims' = (RowClaims \ ClaimsHeld(u, S, g))
                       \cup {[c EXCEPT !.booking = b] : c \in ClaimsHeld(u, S, g)}
    BY SellClaims DEF ConfirmSegment, SegmentInv
  <1>3. Reservation!HeldBy(u, S, g) = ClaimsHeld(u, S, g)
    BY <1>1 DEF Reservation!HeldBy, Claims, ClaimsHeld
  <1> QED
    BY <1>1, <1>2, <1>3 DEF Reservation!Sell, Claims

LEMMA CancelIsCancelSale ==
  ASSUME SegmentInv, SegmentInv', NEW b \in Bookings, CancelSegmentBooking(b)
  PROVE  Reservation!CancelSale(b)
  <1>1. Claims = RowClaims /\ Claims' = RowClaims'
    BY OnlyRowClaims, OnlyRowClaimsNext
  <1> QED
    BY <1>1, CancelClaims DEF CancelSegmentBooking, Reservation!CancelSale, Claims

\* A step that leaves the rows alone is a stutter.
LEMMA SameRowsSameClaims ==
  ASSUME SegmentInv, SegmentInv', segLocks' = segLocks
  PROVE  Claims' = Claims
  BY OnlyRowClaims, OnlyRowClaimsNext DEF RowClaims

LEMMA SegmentStepRefines ==
  SegmentInv /\ SegmentInv' /\ [SegmentNext]_invVars =>
    [Reservation!ReservationNext]_(SegmentClaims \cup WholeClaims)
  <1> SUFFICES ASSUME SegmentInv, SegmentInv', [SegmentNext]_invVars
               PROVE  Reservation!ReservationNext \/ Claims' = Claims
    BY DEF Claims
  <1>1. CASE SegmentRequest
    <2> PICK u \in Users, S \in SUBSET Seats, g \in Segments :
          \/ LockSegment(u, S, g)
          \/ UnlockSegment(u, S, g)
          \/ \E b \in Bookings : ConfirmSegment(u, S, g, b)
      BY <1>1 DEF SegmentRequest
    <2>1. g \in Reservation!Stretch
      BY SegmentIsStretch
    <2> QED
      BY <2>1, LockIsHold, UnlockIsRelease, ConfirmIsSell DEF Reservation!ReservationNext
  <1>2. CASE \E b \in Bookings : CancelSegmentBooking(b)
    BY <1>2, CancelIsCancelSale DEF Reservation!ReservationNext
  <1>3. CASE InitializeInventory \/ CancelScheduleInventory \/ UNCHANGED invVars
    BY <1>3, SameRowsSameClaims DEF InitializeInventory, CancelScheduleInventory, invVars
  <1> QED
    BY <1>1, <1>2, <1>3 DEF SegmentNext

\* The tables do what SeatReservation promises callers that always name a
\* segment: every transaction is one hold, release, sale or cancellation of
\* claims, or none of the caller's business.
THEOREM SegmentsImplementReservation == SegmentSpec => ImplementsReservation
  <1>1. SegmentInv /\ Init => Reservation!ReservationInit
    BY OnlyRowClaims DEF Init, RowClaims, Claims, Reservation!ReservationInit
  <1> QED
    BY <1>1, SegmentInvInit, SegmentInvAlways, SegmentStepRefines, PTL
    DEF SegmentSpec, ImplementsReservation, Reservation!ReservationSpec
=============================================================================
