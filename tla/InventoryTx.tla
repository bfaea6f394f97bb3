----------------------------- MODULE InventoryTx -----------------------------
(***************************************************************************)
(* The transactions of Inventory when they overlap in time.                *)
(*                                                                         *)
(* PostgreSQL runs them at READ COMMITTED, the default: every statement    *)
(* reads what is committed when it starts plus the transaction's own       *)
(* writes.  SELECT ... FOR UPDATE NOWAIT on the seat rows fails at once    *)
(* when another transaction has them; an UPDATE or DELETE waits instead.   *)
(* The variables of Inventory are the committed rows; tx holds what each   *)
(* transaction in flight has read, locked and written.                     *)
(*                                                                         *)
(* A step is as large as the row locks allow.  While a transaction has a   *)
(* seat row, no other can commit a change to that seat or to its segment   *)
(* rows, so select, check and write are one step.  The schedule row is     *)
(* read without a lock and written last, so its read, the recount and the  *)
(* final UPDATE with the commit are steps of their own.                    *)
(***************************************************************************)
EXTENDS Inventory

CONSTANT Workers   \* requests that can be in flight together

VARIABLE tx

txVars == <<schedule, seats, segLocks, processed, tx>>

-----------------------------------------------------------------------------
(* Transactions in flight *)

Idle == [pc |-> "idle"]

\* A request without fromSeq and toSeq.
FullJourney == [from |-> 0, to |-> 0]

Journeys == (IF "segment" \in Modes THEN Segments ELSE {})
              \cup (IF "full" \in Modes THEN {FullJourney} ELSE {})

SeatWrites == UNION {[S -> SeatRow] : S \in SUBSET Seats}

Booking == Bookings \cup {NoBooking}

Counts == [available : Int, locked : Int, booked : Int]

\* checked: lockSeats has seen an ACTIVE schedule.
\* listed: cancelBooking has found its booked segment rows.
\* recompute, read: cancelBooking is in the loop over its seats.
\* written: the seats are written; counted: they are counted as well.
\* shifting: a full-journey request, about to add to the counters.
Rows == SUBSET SegmentLock

Transaction ==
  {Idle}
    \cup [pc : {"checked"}, user : Users, seats : SUBSET Seats, seg : Journeys]
    \cup [pc : {"listed"}, frees : Bookings, seats : SUBSET Seats]
    \cup [pc : {"recompute"}, frees : Bookings, del : Rows, writes : SeatWrites,
          todo : SUBSET Seats]
    \cup [pc : {"read"}, frees : Bookings, del : Rows, writes : SeatWrites,
          todo : SUBSET Seats, seat : Seats, rows : Rows]
    \cup [pc : {"written"}, sells : Booking, frees : Booking, del : Rows, add : Rows,
          writes : SeatWrites]
    \cup [pc : {"counted"}, sells : Booking, frees : Booking, del : Rows, add : Rows,
          writes : SeatWrites, counts : Counts]
    \cup [pc : {"shifting"}, sells : Booking, frees : Booking, writes : SeatWrites,
          shift : Counts]

TxTypeOK == TypeOK /\ \A w \in Workers : tx[w] \in Transaction

Field(w, name, default) == IF name \in DOMAIN tx[w] THEN tx[w][name] ELSE default

\* The booking a transaction confirms (sells) or cancels (frees), if any.
Sells(w) == Field(w, "sells", NoBooking)
Frees(w) == Field(w, "frees", NoBooking)

\* The seat rows a transaction has locked are those it writes.
HeldSeats(w) == DOMAIN Field(w, "writes", <<>>)

\* Mutant: the SELECT has no FOR UPDATE NOWAIT.
Unlocked(w, S) == TRUE

Free(w, S) == \A v \in Workers \ {w} : S \cap HeldSeats(v) = {}

Overlay(sts, writes) ==
  [s \in Seats |-> IF s \in DOMAIN writes THEN writes[s] ELSE sts[s]]

Step(w, t) == tx' = [tx EXCEPT ![w] = t] /\ UNCHANGED invVars

-----------------------------------------------------------------------------
(* Requests that take their seats first *)

\* Seats selected, rows checked, segment rows and seat rows written.
TakeSegment(w, b, S, del, add, sts) ==
  /\ SeatsExist(S)
  /\ Free(w, S)
  /\ LET after == Recompute(sts, (segLocks \ del) \cup add, S)
     IN Step(w, [pc |-> "written", sells |-> b, frees |-> NoBooking, del |-> del,
                 add |-> add, writes |-> [s \in S |-> after[s]]])

TakeFull(w, sold, freed, S, writes, a, l, b) ==
  /\ SeatsExist(S)
  /\ Free(w, S)
  /\ Step(w, [pc |-> "shifting", sells |-> sold, frees |-> freed, writes |-> writes,
              shift |-> [available |-> a, locked |-> l, booked |-> b]])

\* lockSeats reads the schedule row without locking it.
BeginLock(w, u, S, g) ==
  /\ tx[w] = Idle
  /\ schedule.status = "ACTIVE"
  /\ S # {}
  /\ Step(w, [pc |-> "checked", user |-> u, seats |-> S, seg |-> g])

TakeLock(w) ==
  /\ tx[w].pc = "checked"
  /\ LET u == tx[w].user
         S == tx[w].seats
         g == tx[w].seg
     IN \/ /\ g # FullJourney
           /\ \A s \in S : ~SegmentBlocked(s, g)
           /\ TakeSegment(w, NoBooking, S, {}, NewRows(u, S, g), Owned(seats, u, S))
        \/ /\ g = FullJourney
           /\ \A s \in S : seats[s].status = "AVAILABLE"
           /\ TakeFull(w, NoBooking, NoBooking, S,
                       [s \in S |-> Seat("LOCKED", u, seats[s].bookingId)],
                       -Cardinality(S), Cardinality(S), 0)

TakeUnlock(w, u, S, g) ==
  /\ tx[w] = Idle
  /\ \/ /\ g # FullJourney
        /\ TakeSegment(w, NoBooking, S, HeldRows(u, S, g), {}, seats)
     \/ /\ g = FullJourney
        /\ AllLockedBy(u, S)
        /\ TakeFull(w, NoBooking, NoBooking, S,
                    [s \in S |-> Seat("AVAILABLE", NoUser, seats[s].bookingId)],
                    Cardinality(S), -Cardinality(S), 0)

\* The booking service cancels a booking only after its confirmation has
\* returned: the two are not in flight together (the guard on Frees and Sells).
TakeConfirm(w, u, S, g, b) ==
  /\ tx[w] = Idle
  /\ \A v \in Workers : Frees(v) # b
  /\ \/ /\ g # FullJourney
        /\ HeldRows(u, S, g) # {}
        /\ TakeSegment(w, b, S, HeldRows(u, S, g), SoldRows(u, S, g, b), seats)
     \/ /\ g = FullJourney
        /\ AllLockedBy(u, S)
        /\ TakeFull(w, b, NoBooking, S, [s \in S |-> Seat("BOOKED", seats[s].lockedBy, b)],
                    0, -Cardinality(S), Cardinality(S))

-----------------------------------------------------------------------------
(* cancelBooking, which changes the segment rows before it has their seats *)

CancelFind(w, b) ==
  /\ tx[w] = Idle
  /\ \A v \in Workers : Sells(v) # b
  /\ Step(w, [pc |-> "listed", frees |-> b, seats |-> {r.seat : r \in BookedRows(b)}])

\* The DELETE waits for another that is deleting the same rows.
CancelDelete(w) ==
  /\ tx[w].pc = "listed"
  /\ tx[w].seats # {}
  /\ LET del == {r \in segLocks : r.bookingId = Frees(w)}
     IN /\ \A v \in Workers \ {w} : del \cap Field(v, "del", {}) = {}
        /\ Step(w, [pc |-> "recompute", frees |-> Frees(w), del |-> del,
                    writes |-> <<>>, todo |-> tx[w].seats])

\* One turn of the recompute loop: the rows of a seat are read ...
ReadRows(w) ==
  /\ tx[w].pc = "recompute"
  /\ \E s \in tx[w].todo :
       Step(w, [pc |-> "read", frees |-> Frees(w), del |-> tx[w].del,
                writes |-> tx[w].writes, todo |-> tx[w].todo \ {s}, seat |-> s,
                rows |-> RowsOf(segLocks \ tx[w].del, s)])

\* ... and only then is the seat row locked, and written from what was read.
WriteSeat(w) ==
  /\ tx[w].pc = "read"
  /\ Free(w, {tx[w].seat})
  /\ LET s   == tx[w].seat
         now == Recompute(Overlay(seats, tx[w].writes), tx[w].rows, {s})
         own == [x \in HeldSeats(w) \cup {s} |-> now[x]]
     IN Step(w, IF tx[w].todo = {}
                THEN [pc |-> "written", sells |-> NoBooking, frees |-> Frees(w),
                      del |-> tx[w].del, add |-> {}, writes |-> own]
                ELSE [pc |-> "recompute", frees |-> Frees(w), del |-> tx[w].del,
                      writes |-> own, todo |-> tx[w].todo])

\* No booked segment row: the booking may be a full-journey one.
CancelTakeFull(w) ==
  /\ tx[w].pc = "listed"
  /\ tx[w].seats = {}
  /\ LET S == BookedSeats(Frees(w))
     IN TakeFull(w, NoBooking, Frees(w), S, [s \in S |-> FreeSeat], Cardinality(S), 0, -Cardinality(S))

-----------------------------------------------------------------------------
(* The end of a transaction *)

\* COUNT over the committed seats and the transaction's own writes.
RecountSeats(w) ==
  /\ tx[w].pc = "written"
  /\ LET n == Recount(schedule, Overlay(seats, tx[w].writes))
     IN Step(w, [pc |-> "counted", sells |-> Sells(w), frees |-> Frees(w),
                 del |-> tx[w].del, add |-> tx[w].add, writes |-> tx[w].writes,
                 counts |-> [available |-> n.available, locked |-> n.locked,
                             booked |-> n.booked]])

CommitCounts(w) ==
  /\ tx[w].pc = "counted"
  /\ segLocks' = (segLocks \ tx[w].del) \cup tx[w].add
  /\ seats' = Overlay(seats, tx[w].writes)
  /\ schedule' = [status |-> schedule.status, available |-> tx[w].counts.available,
                  locked |-> tx[w].counts.locked, booked |-> tx[w].counts.booked]
  /\ tx' = [tx EXCEPT ![w] = Idle]
  /\ UNCHANGED processed

CommitShift(w) ==
  /\ tx[w].pc = "shifting"
  /\ seats' = Overlay(seats, tx[w].writes)
  /\ schedule' = Shift(schedule, tx[w].shift.available, tx[w].shift.locked,
                       tx[w].shift.booked)
  /\ tx' = [tx EXCEPT ![w] = Idle]
  /\ UNCHANGED <<segLocks, processed>>

\* A row another transaction has (NOWAIT), a deadlock, the ten-second timeout,
\* a failed check or a crash: nothing is written.  retryTransaction starts the
\* request again, which is a new transaction.
Abort(w) == tx[w] # Idle /\ Step(w, Idle)

-----------------------------------------------------------------------------
(* Kafka events *)

\* All its rows are new, so nothing is in flight on them.
CreateSeats == InitializeInventory /\ UNCHANGED tx

\* Mutant: the UPDATE of the seats does not wait.
CancelSeatsAtOnce == CancelScheduleInventory /\ UNCHANGED tx

\* The schedule row is written first, which holds every commit back, then all
\* seats, which waits until no transaction has one.
CancelSeats ==
  /\ CancelScheduleInventory
  /\ \A w \in Workers : HeldSeats(w) = {}
  /\ UNCHANGED tx

-----------------------------------------------------------------------------
TxInit == Init /\ tx = [w \in Workers |-> Idle]

Begin(w) ==
  \/ \E u \in Users, S \in SUBSET Seats, g \in Journeys :
       \/ BeginLock(w, u, S, g)
       \/ TakeUnlock(w, u, S, g)
       \/ \E b \in Bookings : TakeConfirm(w, u, S, g, b)
  \/ \E b \in Bookings : CancelFind(w, b)

Continue(w) ==
  \/ TakeLock(w)
  \/ CancelDelete(w)
  \/ ReadRows(w)
  \/ WriteSeat(w)
  \/ CancelTakeFull(w)
  \/ RecountSeats(w)
  \/ CommitCounts(w)
  \/ CommitShift(w)
  \/ Abort(w)

TxNext ==
  \/ CreateSeats
  \/ CancelSeats
  \/ \E w \in Workers : Begin(w) \/ Continue(w)

TxSpec == TxInit /\ [][TxNext]_txVars

-----------------------------------------------------------------------------
(* Properties *)

\* Segment rows alone keep what SeatReservation promises: with overlapping
\* transactions every commit is still one hold, release, sale or cancellation.
SegmentReservation == INSTANCE SeatReservation WITH claims <- SegmentClaims
RowsImplementReservation == SegmentReservation!ReservationSpec
=============================================================================
