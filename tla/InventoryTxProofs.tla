-------------------------- MODULE InventoryTxProofs --------------------------
(***************************************************************************)
(* Theorems about InventoryTx, for every number of requests in flight, and *)
(* every set of seats, users and bookings: what the segment rows promise   *)
(* holds although the transactions overlap.  When every request is for the *)
(* full journey, so do the promises of the seat rows and the counters.     *)
(***************************************************************************)
EXTENDS InventoryTx, InventoryProofs

-----------------------------------------------------------------------------
(* What a transaction in flight holds *)

\* The segment rows it removes and adds when it commits.
Del(w) == Field(w, "del", {})
Add(w) == Field(w, "add", {})

\* Its rows are known, and will be committed as they are now.
Writing(w) == tx[w].pc \in {"written", "counted"}

\* cancelBooking has deleted the rows of its booking, uncommitted.
Deleting(w) == tx[w].pc \in {"recompute", "read", "written", "counted"}

\* What a request is about to commit is a lock, an unlock or a confirmation
\* of seats it holds, as good now as when its rows were read.
RequestOf(w) ==
  \E u \in Users, S \in SUBSET HeldSeats(w), g \in Segments :
    \/ /\ Del(w) = {} /\ Add(w) = NewRows(u, S, g)
       /\ Sells(w) = NoBooking
       /\ \A s \in S : ~SegmentBlocked(s, g)
    \/ /\ Del(w) = HeldRows(u, S, g) /\ Add(w) = {}
       /\ Sells(w) = NoBooking
    \/ /\ Del(w) = HeldRows(u, S, g) /\ Add(w) = SoldRows(u, S, g, Sells(w))
       /\ Sells(w) \in Bookings

\* A cancellation is about to remove exactly the rows its booking has now.
CancelOf(w) ==
  /\ Del(w) = {r \in segLocks : r.bookingId = Frees(w)}
  /\ Add(w) = {}

WorkerOK(w) ==
  /\ Deleting(w) /\ Frees(w) # NoBooking => CancelOf(w)
  /\ Writing(w) /\ Frees(w) = NoBooking => RequestOf(w)

\* No two transactions hold a seat together, one does not sell what the other
\* frees, and of two that free one booking only one has its rows.
PairOK(v, w) ==
  /\ HeldSeats(v) \cap HeldSeats(w) = {}
  /\ Sells(v) # NoBooking => Sells(v) # Frees(w)
  /\ Sells(w) # NoBooking => Sells(w) # Frees(v)
  /\ Frees(v) # NoBooking /\ Frees(v) = Frees(w) => Del(v) \cap Del(w) = {}

TxShape == tx = [w \in Workers |-> tx[w]]

TxInv ==
  /\ TxTypeOK
  /\ TxShape
  /\ SoldHasBooking
  /\ \A w \in Workers : WorkerOK(w)
  /\ \A v, w \in Workers : v # w => PairOK(v, w)

-----------------------------------------------------------------------------
(* Reading the records of tx *)

LEMMA NothingHeld == DOMAIN <<>> = {}
  OBVIOUS

\* What each stage of a transaction carries.
LEMMA Stages ==
  ASSUME TxTypeOK, NEW w \in Workers
  PROVE  /\ tx[w].pc = "checked" =>
              tx[w] \in [pc : {"checked"}, user : Users, seats : SUBSET Seats, seg : Journeys]
         /\ tx[w].pc = "listed" =>
              tx[w] \in [pc : {"listed"}, frees : Bookings, seats : SUBSET Seats]
         /\ tx[w].pc = "recompute" =>
              tx[w] \in [pc : {"recompute"}, frees : Bookings, del : Rows, writes : SeatWrites,
                         todo : SUBSET Seats]
         /\ tx[w].pc = "read" =>
              tx[w] \in [pc : {"read"}, frees : Bookings, del : Rows, writes : SeatWrites,
                         todo : SUBSET Seats, seat : Seats, rows : Rows]
         /\ tx[w].pc = "written" =>
              tx[w] \in [pc : {"written"}, sells : Booking, frees : Booking, del : Rows,
                         add : Rows, writes : SeatWrites]
         /\ tx[w].pc = "counted" =>
              tx[w] \in [pc : {"counted"}, sells : Booking, frees : Booking, del : Rows,
                         add : Rows, writes : SeatWrites, counts : Counts]
         /\ tx[w].pc = "shifting" =>
              tx[w] \in [pc : {"shifting"}, sells : Booking, frees : Booking,
                         writes : SeatWrites, shift : Counts]
  <1>1. tx[w] \in Transaction
    BY DEF TxTypeOK
  <1> QED
    BY <1>1 DEF Transaction, Idle

LEMMA IdleView ==
  ASSUME NEW w, tx[w] = Idle
  PROVE  /\ Sells(w) = NoBooking /\ Frees(w) = NoBooking
         /\ Del(w) = {} /\ Add(w) = {} /\ HeldSeats(w) = {}
         /\ ~Writing(w) /\ ~Deleting(w)
  BY NothingHeld DEF Idle, Sells, Frees, Del, Add, HeldSeats, Field, Writing, Deleting

\* What the fields say of a transaction that has its rows.
LEMMA WriterView ==
  ASSUME TxTypeOK, NEW w \in Workers, Writing(w)
  PROVE  /\ Sells(w) = tx[w].sells /\ Frees(w) = tx[w].frees
         /\ Del(w) = tx[w].del /\ Add(w) = tx[w].add
         /\ HeldSeats(w) = DOMAIN tx[w].writes
         /\ tx[w].sells \in Booking /\ tx[w].frees \in Booking
         /\ tx[w].del \in Rows /\ tx[w].add \in Rows /\ tx[w].writes \in SeatWrites
  BY Stages DEF Sells, Frees, Del, Add, HeldSeats, Field, Writing

LEMMA CancelView ==
  ASSUME TxTypeOK, NEW w \in Workers, tx[w].pc \in {"recompute", "read"}
  PROVE  /\ Sells(w) = NoBooking /\ Frees(w) = tx[w].frees
         /\ Del(w) = tx[w].del /\ Add(w) = {}
         /\ HeldSeats(w) = DOMAIN tx[w].writes
         /\ tx[w].frees \in Bookings /\ tx[w].del \in Rows /\ tx[w].writes \in SeatWrites
         /\ tx[w].todo \in SUBSET Seats
  BY Stages DEF Sells, Frees, Del, Add, HeldSeats, Field

LEMMA ListedView ==
  ASSUME TxTypeOK, NEW w \in Workers, tx[w].pc = "listed"
  PROVE  /\ Sells(w) = NoBooking /\ Frees(w) = tx[w].frees
         /\ Del(w) = {} /\ Add(w) = {} /\ HeldSeats(w) = {}
         /\ tx[w].frees \in Bookings /\ tx[w].seats \in SUBSET Seats
  BY Stages, NothingHeld DEF Sells, Frees, Del, Add, HeldSeats, Field

LEMMA CheckedView ==
  ASSUME TxTypeOK, NEW w \in Workers, tx[w].pc = "checked"
  PROVE  /\ Sells(w) = NoBooking /\ Frees(w) = NoBooking
         /\ Del(w) = {} /\ Add(w) = {} /\ HeldSeats(w) = {}
         /\ tx[w].user \in Users /\ tx[w].seats \in SUBSET Seats /\ tx[w].seg \in Journeys
  BY Stages, NothingHeld DEF Sells, Frees, Del, Add, HeldSeats, Field

\* A step of others does not change what w holds and is about to write.
SameView(w) ==
  /\ Sells(w)' = Sells(w) /\ Frees(w)' = Frees(w)
  /\ Del(w)' = Del(w) /\ Add(w)' = Add(w) /\ HeldSeats(w)' = HeldSeats(w)
  /\ Writing(w)' = Writing(w) /\ Deleting(w)' = Deleting(w)

\* The transactions of the other workers are left as they are.
LEMMA OthersStay ==
  ASSUME TxShape, NEW w \in Workers, NEW t, tx' = [tx EXCEPT ![w] = t]
  PROVE  /\ tx'[w] = t
         /\ TxShape'
         /\ \A v \in Workers : v # w => tx'[v] = tx[v] /\ SameView(v)
  <1>1. tx'[w] = t /\ \A v \in Workers : v # w => tx'[v] = tx[v]
    BY DEF TxShape
  <1>2. TxShape'
    BY DEF TxShape
  <1> QED
    BY <1>1, <1>2 DEF SameView, Sells, Frees, Del, Add, HeldSeats, Field, Writing, Deleting

\* While the rows stay, so does what a transaction is about to do with them.
LEMMA SameRowsKeep ==
  ASSUME NEW w, SameView(w), segLocks' = segLocks, WorkerOK(w)
  PROVE  WorkerOK(w)'
  <1>1. CancelOf(w) => CancelOf(w)'
    BY DEF CancelOf, SameView
  <1>2. RequestOf(w) => RequestOf(w)'
    <2>1. \A u, S, g : HeldRows(u, S, g)' = HeldRows(u, S, g)
      BY DEF HeldRows
    <2>2. \A u, S, g, b : SoldRows(u, S, g, b)' = SoldRows(u, S, g, b)
      BY <2>1 DEF SoldRows
    <2>3. \A u, S, g : NewRows(u, S, g)' = NewRows(u, S, g)
      BY DEF NewRows
    <2>4. \A s, g : SegmentBlocked(s, g)' <=> SegmentBlocked(s, g)
      BY DEF SegmentBlocked
    <2> QED
      BY <2>1, <2>2, <2>3, <2>4 DEF RequestOf, SameView
  <1> QED
    BY <1>1, <1>2 DEF WorkerOK, SameView

-----------------------------------------------------------------------------
(* Steps within a transaction *)

\* A step of one worker that commits nothing concerns its own record and how
\* it goes with the others.
LEMMA StepKeeps ==
  ASSUME TxInv, NEW w \in Workers, NEW t \in Transaction, Step(w, t),
         WorkerOK(w)',
         \A v \in Workers : v # w => PairOK(v, w)'
  PROVE  TxInv'
  <1>1. /\ schedule' = schedule /\ seats' = seats /\ segLocks' = segLocks
        /\ processed' = processed /\ tx' = [tx EXCEPT ![w] = t]
    BY DEF Step, invVars
  <1>2. TxTypeOK' /\ TxShape'
    BY <1>1, OthersStay DEF TxInv, TxTypeOK, TypeOK
  <1>3. SoldHasBooking'
    BY <1>1 DEF TxInv, SoldHasBooking
  <1>4. ASSUME NEW v \in Workers PROVE WorkerOK(v)'
    <2>1. CASE v # w
      <3>1. SameView(v)
        BY <1>1, <2>1, OthersStay DEF TxInv, SameView
      <3> QED
        BY <1>1, <3>1, SameRowsKeep DEF TxInv
    <2> QED
      BY <2>1
  <1>5. ASSUME NEW v \in Workers, NEW x \in Workers, v # x PROVE PairOK(v, x)'
    <2>1. CASE v # w /\ x # w
      <3>1. SameView(v) /\ SameView(x)
        BY <1>1, <2>1, OthersStay DEF TxInv, SameView
      <3>2. PairOK(v, x)
        BY <1>5 DEF TxInv
      <3> QED
        BY <3>1, <3>2 DEF SameView, PairOK
    <2>2. CASE v = w
      BY <1>5, <2>2 DEF PairOK
    <2> QED
      BY <1>5, <2>1, <2>2
  <1> QED
    BY <1>2, <1>3, <1>4, <1>5 DEF TxInv

\* A transaction that holds, sells and frees nothing is in nobody's way.
LEMMA QuietPair ==
  ASSUME NEW v, NEW w, HeldSeats(w)' = {}, Sells(w)' = NoBooking, Frees(w)' = NoBooking
  PROVE  PairOK(v, w)'
  BY DEF PairOK

LEMMA StepView ==
  ASSUME TxInv, NEW w \in Workers, NEW t, Step(w, t)
  PROVE  /\ tx'[w] = t
         /\ schedule' = schedule /\ seats' = seats /\ segLocks' = segLocks
         /\ \A v \in Workers : v # w => SameView(v) /\ PairOK(v, w)
  BY OthersStay DEF Step, invVars, TxInv

LEMMA AbortKeeps ==
  ASSUME TxInv, NEW w \in Workers, Abort(w)
  PROVE  TxInv'
  <1>1. Step(w, Idle) /\ Idle \in Transaction
    BY DEF Abort, Transaction
  <1>2. tx'[w] = Idle
    BY <1>1, StepView
  <1>3. /\ Sells(w)' = NoBooking /\ Frees(w)' = NoBooking /\ HeldSeats(w)' = {}
        /\ ~Writing(w)' /\ ~Deleting(w)'
    BY <1>2, NothingHeld DEF Idle, Sells, Frees, HeldSeats, Field, Writing, Deleting
  <1> QED
    BY <1>1, <1>3, StepKeeps, QuietPair DEF WorkerOK

LEMMA BeginLockKeeps ==
  ASSUME TxInv, NEW w \in Workers, NEW u \in Users, NEW S \in SUBSET Seats,
         NEW g \in Journeys, BeginLock(w, u, S, g)
  PROVE  TxInv'
  <1> DEFINE t == [pc |-> "checked", user |-> u, seats |-> S, seg |-> g]
  <1>1. Step(w, t) /\ t \in Transaction
    BY DEF BeginLock, Transaction
  <1>2. tx'[w] = t
    BY <1>1, StepView
  <1>3. /\ Sells(w)' = NoBooking /\ Frees(w)' = NoBooking /\ HeldSeats(w)' = {}
        /\ ~Writing(w)' /\ ~Deleting(w)'
    BY <1>2, NothingHeld DEF Sells, Frees, HeldSeats, Field, Writing, Deleting
  <1> HIDE DEF t
  <1> QED
    BY <1>1, <1>3, StepKeeps, QuietPair DEF WorkerOK

\* A request that takes its seats: nobody else has them, and it commits what
\* it has read.
LEMMA TakeSegmentKeeps ==
  ASSUME TxInv, NEW w \in Workers, NEW b \in Booking, NEW S \in SUBSET Seats,
         NEW del \in Rows, NEW add \in Rows, NEW sts \in [Seats -> SeatRow],
         TakeSegment(w, b, S, del, add, sts),
         b # NoBooking => \A v \in Workers : Frees(v) # b,
         NEW u \in Users, NEW g \in Segments,
         \/ del = {} /\ add = NewRows(u, S, g) /\ b = NoBooking
              /\ \A s \in S : ~SegmentBlocked(s, g)
         \/ del = HeldRows(u, S, g) /\ add = {} /\ b = NoBooking
         \/ del = HeldRows(u, S, g) /\ add = SoldRows(u, S, g, b) /\ b \in Bookings
  PROVE  TxInv'
  <1> DEFINE after == Recompute(sts, (segLocks \ del) \cup add, S)
             writes == [s \in S |-> after[s]]
             t == [pc |-> "written", sells |-> b, frees |-> NoBooking, del |-> del,
                   add |-> add, writes |-> writes]
  <1>1. Step(w, t)
    BY DEF TakeSegment
  <1>2. writes \in [S -> SeatRow]
    BY RecomputeType
  <1>3. DOMAIN writes = S
    OBVIOUS
  <1> HIDE DEF writes, after
  <1>4. writes \in SeatWrites
    BY <1>2 DEF SeatWrites
  <1>5. t \in Transaction
    BY <1>4 DEF Transaction, Booking
  <1>6. tx'[w] = t
    BY <1>1, StepView
  <1>7. /\ Sells(w)' = b /\ Frees(w)' = NoBooking /\ Del(w)' = del /\ Add(w)' = add
        /\ HeldSeats(w)' = S
    BY <1>3, <1>6 DEF Sells, Frees, Del, Add, HeldSeats, Field
  <1> HIDE DEF t
  <1>8. RequestOf(w)'
    <2>1. segLocks' = segLocks
      BY <1>1, StepView
    <2>2. HeldRows(u, S, g)' = HeldRows(u, S, g)
      BY <2>1 DEF HeldRows
    <2>3. SoldRows(u, S, g, b)' = SoldRows(u, S, g, b) /\ NewRows(u, S, g)' = NewRows(u, S, g)
      BY <2>2 DEF SoldRows, NewRows
    <2>4. \A s \in S : SegmentBlocked(s, g)' <=> SegmentBlocked(s, g)
      BY <2>1 DEF SegmentBlocked
    <2> QED
      BY <1>7, <2>2, <2>3, <2>4 DEF RequestOf
  <1>9. ASSUME NEW v \in Workers, v # w PROVE PairOK(v, w)'
    <2>1. SameView(v)
      BY <1>1, <1>9, StepView
    <2>2. HeldSeats(v) \cap S = {}
      BY <1>9 DEF TakeSegment, Free
    <2> QED
      BY <1>7, <2>1, <2>2 DEF PairOK, SameView
  <1> QED
    BY <1>1, <1>5, <1>7, <1>8, <1>9, StepKeeps DEF WorkerOK

LEMMA TakeFullKeeps ==
  ASSUME TxInv, NEW w \in Workers, NEW sold \in Booking, NEW freed \in Booking,
         NEW S \in SUBSET Seats, NEW writes \in [S -> SeatRow],
         NEW a \in Int, NEW l \in Int, NEW b \in Int,
         TakeFull(w, sold, freed, S, writes, a, l, b),
         sold # NoBooking => \A v \in Workers : v # w => Frees(v) # sold,
         freed # NoBooking => \A v \in Workers : v # w => Sells(v) # freed
  PROVE  TxInv'
  <1> DEFINE shift == [available |-> a, locked |-> l, booked |-> b]
             t == [pc |-> "shifting", sells |-> sold, frees |-> freed, writes |-> writes,
                   shift |-> shift]
  <1>1. Step(w, t)
    BY DEF TakeFull
  <1>2. writes \in SeatWrites
    BY DEF SeatWrites
  <1>3. t \in Transaction
    BY <1>2 DEF Transaction, Counts
  <1>4. tx'[w] = t
    BY <1>1, StepView
  <1>5. /\ Sells(w)' = sold /\ Frees(w)' = freed /\ Del(w)' = {} /\ HeldSeats(w)' = S
        /\ ~Writing(w)' /\ ~Deleting(w)'
    BY <1>4 DEF Sells, Frees, Del, HeldSeats, Field, Writing, Deleting
  <1> HIDE DEF t
  <1>6. ASSUME NEW v \in Workers, v # w PROVE PairOK(v, w)'
    <2>1. SameView(v)
      BY <1>1, <1>6, StepView
    <2>2. HeldSeats(v) \cap S = {}
      BY <1>6 DEF TakeFull, Free
    <2> QED
      BY <1>5, <1>6, <2>1, <2>2 DEF PairOK, SameView
  <1> QED
    BY <1>1, <1>3, <1>5, <1>6, StepKeeps DEF WorkerOK

-----------------------------------------------------------------------------
(* The requests *)

LEMMA JourneyIsSegment ==
  ASSUME NEW g \in Journeys, g # FullJourney
  PROVE  g \in Segments
  BY DEF Journeys

LEMMA RowsHeldTyped ==
  ASSUME TypeOK, NEW u \in Users, NEW S \in SUBSET Seats, NEW g \in Segments
  PROVE  /\ HeldRows(u, S, g) \in Rows /\ NewRows(u, S, g) \in Rows
         /\ \A b \in Bookings : SoldRows(u, S, g, b) \in Rows
         /\ Owned(seats, u, S) \in [Seats -> SeatRow] /\ seats \in [Seats -> SeatRow]
  <1>1. HeldRows(u, S, g) \in Rows
    BY HeldRowsSubset DEF Rows, TypeOK
  <1>2. NewRows(u, S, g) \in Rows
    BY NewRowsType DEF Rows
  <1>3. \A b \in Bookings : SoldRows(u, S, g, b) \in Rows
    <2> SUFFICES ASSUME NEW b \in Bookings,
                        NEW r \in HeldRows(u, S, g)
                 PROVE  [r EXCEPT !.status = "BOOKED", !.bookingId = b] \in SegmentLock
      BY DEF SoldRows, Rows
    <2> QED
      BY <1>1, BookRowType DEF Rows
  <1>4. Owned(seats, u, S) \in [Seats -> SeatRow]
    BY DEF Owned, TypeOK, SeatRow
  <1> QED
    BY <1>1, <1>2, <1>3, <1>4 DEF TypeOK

\* The seats a full-journey request writes.
LEMMA FullWritesTyped ==
  ASSUME TypeOK, NEW S \in SUBSET Seats
  PROVE  /\ \A u \in Users : [s \in S |-> Seat("LOCKED", u, seats[s].bookingId)] \in [S -> SeatRow]
         /\ [s \in S |-> Seat("AVAILABLE", NoUser, seats[s].bookingId)] \in [S -> SeatRow]
         /\ \A b \in Bookings : [s \in S |-> Seat("BOOKED", seats[s].lockedBy, b)] \in [S -> SeatRow]
         /\ [s \in S |-> FreeSeat] \in [S -> SeatRow]
         /\ Cardinality(S) \in Int /\ -Cardinality(S) \in Int
  <1>1. Cardinality(S) \in Nat
    BY RequestSize
  <1>2. \A s \in S : seats[s].bookingId \in Bookings \cup {NoBooking}
                       /\ seats[s].lockedBy \in Users \cup {NoUser}
    BY DEF TypeOK, SeatRow
  <1> QED
    BY <1>1, <1>2 DEF SeatRow, Seat, SeatStatus, FreeSeat

LEMMA TakeLockKeeps ==
  ASSUME TxInv, NEW w \in Workers, TakeLock(w)
  PROVE  TxInv'
  <1> DEFINE u == tx[w].user
             S == tx[w].seats
             g == tx[w].seg
  <1>1. u \in Users /\ S \in SUBSET Seats /\ g \in Journeys /\ TypeOK
    BY CheckedView DEF TakeLock, TxInv, TxTypeOK
  <1>2. CASE g # FullJourney
    <2>1. g \in Segments
      BY <1>1, <1>2, JourneyIsSegment
    <2>2. /\ \A s \in S : ~SegmentBlocked(s, g)
          /\ TakeSegment(w, NoBooking, S, {}, NewRows(u, S, g), Owned(seats, u, S))
      BY <1>2 DEF TakeLock
    <2> HIDE DEF u, S, g
    <2>3. {} \in Rows /\ NewRows(u, S, g) \in Rows /\ Owned(seats, u, S) \in [Seats -> SeatRow]
      BY <1>1, <2>1, RowsHeldTyped DEF Rows
    <2>4. NoBooking \in Booking
      BY DEF Booking
    <2> QED
      BY <1>1, <2>1, <2>2, <2>3, <2>4, TakeSegmentKeeps
  <1>3. CASE g = FullJourney
    <2>1. TakeFull(w, NoBooking, NoBooking, S,
                   [s \in S |-> Seat("LOCKED", u, seats[s].bookingId)],
                   -Cardinality(S), Cardinality(S), 0)
      BY <1>3 DEF TakeLock
    <2> HIDE DEF u, S, g
    <2>2. /\ [s \in S |-> Seat("LOCKED", u, seats[s].bookingId)] \in [S -> SeatRow]
          /\ Cardinality(S) \in Int /\ -Cardinality(S) \in Int /\ 0 \in Int
      BY <1>1, FullWritesTyped
    <2>3. NoBooking \in Booking
      BY DEF Booking
    <2> QED
      BY <1>1, <2>1, <2>2, <2>3, TakeFullKeeps
  <1> QED
    BY <1>2, <1>3

LEMMA TakeUnlockKeeps ==
  ASSUME TxInv, NEW w \in Workers, NEW u \in Users, NEW S \in SUBSET Seats,
         NEW g \in Journeys, TakeUnlock(w, u, S, g)
  PROVE  TxInv'
  <1>1. NoBooking \in Booking /\ {} \in Rows /\ 0 \in Int /\ TypeOK
    BY DEF Booking, Rows, TxInv, TxTypeOK
  <1>2. CASE g # FullJourney
    <2>1. g \in Segments
      BY <1>2, JourneyIsSegment
    <2>2. TakeSegment(w, NoBooking, S, HeldRows(u, S, g), {}, seats)
      BY <1>2 DEF TakeUnlock
    <2>3. HeldRows(u, S, g) \in Rows /\ seats \in [Seats -> SeatRow]
      BY <1>1, <2>1, RowsHeldTyped
    <2> QED
      BY <1>1, <2>1, <2>2, <2>3, TakeSegmentKeeps
  <1>3. CASE g = FullJourney
    <2>1. TakeFull(w, NoBooking, NoBooking, S,
                   [s \in S |-> Seat("AVAILABLE", NoUser, seats[s].bookingId)],
                   Cardinality(S), -Cardinality(S), 0)
      BY <1>3 DEF TakeUnlock
    <2>2. /\ [s \in S |-> Seat("AVAILABLE", NoUser, seats[s].bookingId)] \in [S -> SeatRow]
          /\ Cardinality(S) \in Int /\ -Cardinality(S) \in Int
      BY <1>1, FullWritesTyped
    <2> QED
      BY <1>1, <2>1, <2>2, TakeFullKeeps
  <1> QED
    BY <1>2, <1>3

LEMMA TakeConfirmKeeps ==
  ASSUME TxInv, NEW w \in Workers, NEW u \in Users, NEW S \in SUBSET Seats,
         NEW g \in Journeys, NEW b \in Bookings, TakeConfirm(w, u, S, g, b)
  PROVE  TxInv'
  <1>1. b \in Booking /\ NoBooking \in Booking /\ 0 \in Int /\ TypeOK
    BY DEF Booking, TxInv, TxTypeOK
  <1>2. \A v \in Workers : Frees(v) # b
    BY DEF TakeConfirm
  <1>3. CASE g # FullJourney
    <2>1. g \in Segments
      BY <1>3, JourneyIsSegment
    <2>2. TakeSegment(w, b, S, HeldRows(u, S, g), SoldRows(u, S, g, b), seats)
      BY <1>3 DEF TakeConfirm
    <2>3. /\ HeldRows(u, S, g) \in Rows /\ SoldRows(u, S, g, b) \in Rows
          /\ seats \in [Seats -> SeatRow]
      BY <1>1, <2>1, RowsHeldTyped
    <2> QED
      BY <1>1, <1>2, <2>1, <2>2, <2>3, TakeSegmentKeeps
  <1>4. CASE g = FullJourney
    <2>1. TakeFull(w, b, NoBooking, S, [s \in S |-> Seat("BOOKED", seats[s].lockedBy, b)],
                   0, -Cardinality(S), Cardinality(S))
      BY <1>4 DEF TakeConfirm
    <2>2. /\ [s \in S |-> Seat("BOOKED", seats[s].lockedBy, b)] \in [S -> SeatRow]
          /\ Cardinality(S) \in Int /\ -Cardinality(S) \in Int
      BY <1>1, FullWritesTyped
    <2> QED
      BY <1>1, <1>2, <2>1, <2>2, TakeFullKeeps
  <1> QED
    BY <1>3, <1>4

-----------------------------------------------------------------------------
(* The stages of a cancellation, and the recount *)

\* A stage that changes none of what the others can see.
LEMMA SameViewKeeps ==
  ASSUME TxInv, NEW w \in Workers, NEW t \in Transaction, Step(w, t), SameView(w)
  PROVE  TxInv'
  <1>1. segLocks' = segLocks
    BY StepView
  <1>2. WorkerOK(w)'
    BY <1>1, SameRowsKeep DEF TxInv
  <1>3. ASSUME NEW v \in Workers, v # w PROVE PairOK(v, w)'
    <2>1. SameView(v) /\ PairOK(v, w)
      BY <1>3, StepView
    <2> QED
      BY <2>1 DEF SameView, PairOK
  <1> QED
    BY <1>2, <1>3, StepKeeps

LEMMA CancelFindKeeps ==
  ASSUME TxInv, NEW w \in Workers, NEW b \in Bookings, CancelFind(w, b)
  PROVE  TxInv'
  <1> DEFINE S == {r.seat : r \in BookedRows(b)}
             t == [pc |-> "listed", frees |-> b, seats |-> S]
  <1>1. S \in SUBSET Seats
    BY DEF BookedRows, TxInv, TxTypeOK, TypeOK, SegmentLock
  <1>2. Step(w, t) /\ \A v \in Workers : Sells(v) # b
    BY DEF CancelFind
  <1> HIDE DEF S
  <1>3. t \in Transaction
    BY <1>1 DEF Transaction
  <1>4. tx'[w] = t
    BY <1>2, StepView
  <1>5. /\ Sells(w)' = NoBooking /\ Frees(w)' = b /\ HeldSeats(w)' = {} /\ Del(w)' = {}
        /\ ~Writing(w)' /\ ~Deleting(w)'
    BY <1>4, NothingHeld DEF Sells, Frees, HeldSeats, Del, Field, Writing, Deleting
  <1> HIDE DEF t
  <1>6. ASSUME NEW v \in Workers, v # w PROVE PairOK(v, w)'
    <2>1. SameView(v)
      BY <1>2, <1>6, StepView
    <2> QED
      BY <1>2, <1>5, <2>1 DEF PairOK, SameView
  <1> QED
    BY <1>2, <1>3, <1>5, <1>6, StepKeeps DEF WorkerOK

LEMMA CancelDeleteKeeps ==
  ASSUME TxInv, NEW w \in Workers, CancelDelete(w)
  PROVE  TxInv'
  <1> DEFINE b == Frees(w)
             del == {r \in segLocks : r.bookingId = b}
             t == [pc |-> "recompute", frees |-> b, del |-> del, writes |-> <<>>,
                   todo |-> tx[w].seats]
  <1>1. b \in Bookings /\ tx[w].seats \in SUBSET Seats /\ Sells(w) = NoBooking
    BY ListedView DEF CancelDelete, TxInv
  <1>2. Step(w, t) /\ \A v \in Workers : v # w => del \cap Del(v) = {}
    BY DEF CancelDelete, Del
  <1>3. del \in Rows
    BY DEF Rows, TxInv, TxTypeOK, TypeOK
  <1>4. <<>> \in SeatWrites
    <2>1. <<>> \in [{} -> SeatRow]
      OBVIOUS
    <2> QED
      BY <2>1 DEF SeatWrites
  <1>5. del = {r \in segLocks : r.bookingId = b}
    OBVIOUS
  <1> HIDE DEF b, del
  <1>6. t \in Transaction
    BY <1>1, <1>3, <1>4 DEF Transaction
  <1>7. tx'[w] = t /\ segLocks' = segLocks
    BY <1>2, StepView
  <1>8. /\ Sells(w)' = NoBooking /\ Frees(w)' = b /\ HeldSeats(w)' = {} /\ Del(w)' = del
        /\ Add(w)' = {} /\ ~Writing(w)'
    BY <1>7, NothingHeld DEF Sells, Frees, HeldSeats, Del, Add, Field, Writing
  <1> HIDE DEF t
  <1>9. WorkerOK(w)'
    BY <1>5, <1>7, <1>8 DEF WorkerOK, CancelOf
  <1>10. ASSUME NEW v \in Workers, v # w PROVE PairOK(v, w)'
    <2>1. SameView(v) /\ PairOK(v, w)
      BY <1>2, <1>10, StepView
    <2>2. del \cap Del(v) = {}
      BY <1>2, <1>10
    <2> QED
      BY <1>1, <1>8, <2>1, <2>2 DEF PairOK, SameView, b
  <1> QED
    BY <1>2, <1>6, <1>9, <1>10, StepKeeps

LEMMA ReadRowsKeeps ==
  ASSUME TxInv, NEW w \in Workers, ReadRows(w)
  PROVE  TxInv'
  <1> PICK s \in tx[w].todo :
        Step(w, [pc |-> "read", frees |-> Frees(w), del |-> tx[w].del,
                 writes |-> tx[w].writes, todo |-> tx[w].todo \ {s}, seat |-> s,
                 rows |-> RowsOf(segLocks \ tx[w].del, s)])
    BY DEF ReadRows
  <1> DEFINE t == [pc |-> "read", frees |-> Frees(w), del |-> tx[w].del,
                   writes |-> tx[w].writes, todo |-> tx[w].todo \ {s}, seat |-> s,
                   rows |-> RowsOf(segLocks \ tx[w].del, s)]
  <1>1. tx[w].pc = "recompute" /\ Step(w, t)
    BY DEF ReadRows
  <1>2. /\ Sells(w) = NoBooking /\ Frees(w) = tx[w].frees
        /\ Del(w) = tx[w].del /\ Add(w) = {} /\ HeldSeats(w) = DOMAIN tx[w].writes
        /\ tx[w].frees \in Bookings /\ tx[w].del \in Rows /\ tx[w].writes \in SeatWrites
        /\ tx[w].todo \in SUBSET Seats
    BY <1>1, CancelView DEF TxInv
  <1>3. RowsOf(segLocks \ tx[w].del, s) \in Rows
    BY DEF RowsOf, Rows, TxInv, TxTypeOK, TypeOK
  <1>4. t \in Transaction
    BY <1>2, <1>3 DEF Transaction
  <1>5. tx'[w] = t
    BY <1>1, StepView
  <1>6. SameView(w)
    BY <1>1, <1>2, <1>5
    DEF SameView, Sells, Frees, HeldSeats, Del, Add, Field, Writing, Deleting
  <1> HIDE DEF t
  <1> QED
    BY <1>1, <1>4, <1>6, SameViewKeeps

\* The seat is locked when it is written, and nobody else has it.
LEMMA WriteSeatKeeps ==
  ASSUME TxInv, NEW w \in Workers, WriteSeat(w)
  PROVE  TxInv'
  <1> DEFINE s == tx[w].seat
             now == Recompute(Overlay(seats, tx[w].writes), tx[w].rows, {s})
             own == [x \in HeldSeats(w) \cup {s} |-> now[x]]
             done == [pc |-> "written", sells |-> NoBooking, frees |-> Frees(w),
                      del |-> tx[w].del, add |-> {}, writes |-> own]
             next == [pc |-> "recompute", frees |-> Frees(w), del |-> tx[w].del,
                      writes |-> own, todo |-> tx[w].todo]
  <1> USE DEF TxInv, TxTypeOK
  <1>1. /\ Sells(w) = NoBooking /\ Frees(w) = tx[w].frees
        /\ Del(w) = tx[w].del /\ Add(w) = {} /\ HeldSeats(w) = DOMAIN tx[w].writes
        /\ tx[w].frees \in Bookings /\ tx[w].del \in Rows /\ tx[w].writes \in SeatWrites
        /\ tx[w].todo \in SUBSET Seats
    BY CancelView DEF WriteSeat
  <1>2. s \in Seats
    BY Stages DEF WriteSeat
  <1>3. PICK t \in {done, next} : Step(w, t)
    BY DEF WriteSeat
  <1>4. PICK S \in SUBSET Seats : tx[w].writes \in [S -> SeatRow] /\ HeldSeats(w) = S
    BY <1>1 DEF SeatWrites
  <1>5. Overlay(seats, tx[w].writes) \in [Seats -> SeatRow]
    BY <1>4 DEF Overlay, TypeOK
  <1>6. now \in [Seats -> SeatRow]
    BY <1>5, RecomputeType
  <1> HIDE DEF now
  <1>7. own \in [S \cup {s} -> SeatRow] /\ DOMAIN own = S \cup {s}
    BY <1>2, <1>4, <1>6
  <1> HIDE DEF own
  <1>8. own \in SeatWrites
    BY <1>2, <1>7 DEF SeatWrites
  <1>9. done \in Transaction /\ next \in Transaction
    BY <1>1, <1>8 DEF Transaction, Booking, Rows
  <1>10. tx'[w] = t /\ segLocks' = segLocks
    BY <1>3, StepView
  <1>11. /\ Sells(w)' = NoBooking /\ Frees(w)' = Frees(w) /\ Del(w)' = Del(w) /\ Add(w)' = {}
         /\ HeldSeats(w)' = HeldSeats(w) \cup {s}
    <2>1. CASE t = done
      BY <1>1, <1>4, <1>7, <1>10, <2>1 DEF Sells, Frees, HeldSeats, Del, Add, Field
    <2>2. CASE t = next
      BY <1>1, <1>4, <1>7, <1>10, <2>2 DEF Sells, Frees, HeldSeats, Del, Add, Field
    <2> QED
      BY <1>3, <2>1, <2>2
  <1> HIDE DEF done, next
  <1>12. WorkerOK(w)'
    <2>1. Deleting(w) /\ Frees(w) # NoBooking
      BY <1>1, NullAssumption DEF WriteSeat, Deleting
    <2> QED
      BY <1>10, <1>11, <2>1 DEF WorkerOK, CancelOf
  <1>13. ASSUME NEW v \in Workers, v # w PROVE PairOK(v, w)'
    <2>1. SameView(v) /\ PairOK(v, w)
      BY <1>3, <1>13, StepView
    <2>2. HeldSeats(v) \cap {s} = {}
      BY <1>13 DEF WriteSeat, Free
    <2> QED
      BY <1>1, <1>11, <2>1, <2>2 DEF PairOK, SameView
  <1> QED
    BY <1>3, <1>9, <1>12, <1>13, StepKeeps

LEMMA CancelTakeFullKeeps ==
  ASSUME TxInv, NEW w \in Workers, CancelTakeFull(w)
  PROVE  TxInv'
  <1> DEFINE b == Frees(w)
             S == BookedSeats(b)
  <1>1. b \in Bookings
    BY ListedView DEF CancelTakeFull, TxInv
  <1>2. TakeFull(w, NoBooking, b, S, [s \in S |-> FreeSeat], Cardinality(S), 0, -Cardinality(S))
    BY DEF CancelTakeFull
  <1>3. S \in SUBSET Seats
    BY DEF BookedSeats
  <1> HIDE DEF b, S
  <1>4. /\ [s \in S |-> FreeSeat] \in [S -> SeatRow]
        /\ Cardinality(S) \in Int /\ -Cardinality(S) \in Int
    BY <1>3, FullWritesTyped DEF TxInv, TxTypeOK
  <1>5. \A v \in Workers : v # w => Sells(v) # b
    BY <1>1, NullAssumption DEF TxInv, PairOK, b
  <1>6. NoBooking \in Booking /\ b \in Booking /\ 0 \in Int
    BY <1>1 DEF Booking
  <1> QED
    BY <1>2, <1>3, <1>4, <1>5, <1>6, TakeFullKeeps

LEMMA RecountSeatsKeeps ==
  ASSUME TxInv, NEW w \in Workers, RecountSeats(w)
  PROVE  TxInv'
  <1> DEFINE n == Recount(schedule, Overlay(seats, tx[w].writes))
             counts == [available |-> n.available, locked |-> n.locked, booked |-> n.booked]
             t == [pc |-> "counted", sells |-> Sells(w), frees |-> Frees(w),
                   del |-> tx[w].del, add |-> tx[w].add, writes |-> tx[w].writes,
                   counts |-> counts]
  <1>1. Writing(w) /\ Deleting(w) /\ Step(w, t)
    BY DEF RecountSeats, Writing, Deleting
  <1>2. n \in ScheduleRow
    BY RecountType DEF TxInv, TxTypeOK, TypeOK
  <1> HIDE DEF n
  <1>3. counts \in Counts
    BY <1>2 DEF Counts, ScheduleRow
  <1> HIDE DEF counts
  <1>4. /\ Sells(w) = tx[w].sells /\ Frees(w) = tx[w].frees
        /\ Del(w) = tx[w].del /\ Add(w) = tx[w].add /\ HeldSeats(w) = DOMAIN tx[w].writes
        /\ tx[w].sells \in Booking /\ tx[w].frees \in Booking
        /\ tx[w].del \in Rows /\ tx[w].add \in Rows /\ tx[w].writes \in SeatWrites
    BY <1>1, WriterView DEF TxInv
  <1>5. t \in Transaction
    BY <1>3, <1>4 DEF Transaction
  <1>6. tx'[w] = t
    BY <1>1, StepView
  <1>7. SameView(w)
    BY <1>1, <1>4, <1>6
    DEF SameView, Sells, Frees, HeldSeats, Del, Add, Field, Writing, Deleting
  <1> HIDE DEF t
  <1> QED
    BY <1>1, <1>5, <1>7, SameViewKeeps

-----------------------------------------------------------------------------
(* Commits *)

LEMMA OverlayTyped ==
  ASSUME TypeOK, NEW writes \in SeatWrites
  PROVE  Overlay(seats, writes) \in [Seats -> SeatRow]
  <1> PICK S \in SUBSET Seats : writes \in [S -> SeatRow]
    BY DEF SeatWrites
  <1> QED
    BY DEF Overlay, TypeOK

\* A worker that has finished is in nobody's way.
LEMMA FinishedView ==
  ASSUME TxShape, NEW w \in Workers, tx' = [tx EXCEPT ![w] = Idle]
  PROVE  /\ Sells(w)' = NoBooking /\ Frees(w)' = NoBooking /\ HeldSeats(w)' = {}
         /\ WorkerOK(w)'
  <1>1. tx'[w] = Idle
    BY DEF TxShape
  <1> QED
    BY <1>1, NothingHeld
    DEF Idle, Sells, Frees, HeldSeats, Field, WorkerOK, Writing, Deleting

\* A commit that keeps what every other transaction counts on keeps TxInv.
LEMMA CommitKeeps ==
  ASSUME TxInv, NEW w \in Workers, tx' = [tx EXCEPT ![w] = Idle],
         TypeOK', SoldHasBooking',
         \A v \in Workers : v # w => WorkerOK(v)'
  PROVE  TxInv'
  <1>1. TxShape' /\ \A v \in Workers : v # w => tx'[v] = tx[v] /\ SameView(v)
    BY OthersStay DEF TxInv
  <1>2. tx'[w] = Idle
    BY DEF TxInv, TxShape
  <1>3. TxTypeOK'
    BY <1>1, <1>2 DEF TxInv, TxTypeOK, Transaction
  <1>4. \A v \in Workers : WorkerOK(v)'
    BY FinishedView DEF TxInv
  <1>5. ASSUME NEW v \in Workers, NEW x \in Workers, v # x PROVE PairOK(v, x)'
    <2>1. CASE v # w /\ x # w
      <3>1. SameView(v) /\ SameView(x) /\ PairOK(v, x)
        BY <1>1, <1>5, <2>1 DEF TxInv
      <3> QED
        BY <3>1 DEF SameView, PairOK
    <2>2. CASE v = w \/ x = w
      BY <2>2, FinishedView DEF PairOK, TxInv
    <2> QED
      BY <2>1, <2>2
  <1> QED
    BY <1>1, <1>3, <1>4, <1>5 DEF TxInv

\* The rows a request removes and adds, on its own seats.
LEMMA RequestRows ==
  ASSUME TxInv, NEW w \in Workers, Writing(w), RequestOf(w)
  PROVE  /\ \A r \in Del(w) : r \in segLocks /\ r.seat \in HeldSeats(w)
                                /\ r.bookingId = NoBooking
         /\ \A r \in Add(w) : /\ r.seat \in HeldSeats(w)
                              /\ r.bookingId \in {NoBooking, Sells(w)}
                              /\ r.status = "BOOKED" <=> r.bookingId # NoBooking
  <1> PICK u \in Users, S \in SUBSET HeldSeats(w), g \in Segments :
        \/ Del(w) = {} /\ Add(w) = NewRows(u, S, g)
        \/ Del(w) = HeldRows(u, S, g) /\ Add(w) = {}
        \/ /\ Del(w) = HeldRows(u, S, g) /\ Add(w) = SoldRows(u, S, g, Sells(w))
           /\ Sells(w) \in Bookings
    BY DEF RequestOf
  <1>1. \A r \in HeldRows(u, S, g) : r \in segLocks /\ r.seat \in S /\ r.bookingId = NoBooking
    BY DEF HeldRows, TxInv, SoldHasBooking
  <1>2. \A r \in NewRows(u, S, g) : r.seat \in S /\ r.bookingId = NoBooking /\ r.status = "LOCKED"
    BY DEF NewRows
  <1>3. \A r \in SoldRows(u, S, g, Sells(w)) :
          r.seat \in S /\ r.bookingId = Sells(w) /\ r.status = "BOOKED"
    BY <1>1, SoldRowFields DEF TxInv, TxTypeOK
  <1>4. Sells(w) \in Bookings => Sells(w) # NoBooking
    BY NullAssumption
  <1> QED
    BY <1>1, <1>2, <1>3, <1>4

\* What a request commits is no concern of a transaction with other seats, ...
LEMMA OtherSeatsKeep ==
  ASSUME NEW v, SameView(v), WorkerOK(v),
         Frees(v) # NoBooking =>
           \A r : r.bookingId = Frees(v) => (r \in segLocks' <=> r \in segLocks),
         \A r : r.seat \in HeldSeats(v) =>
           /\ r \in segLocks' => r \in segLocks
           /\ r.status = "LOCKED" => (r \in segLocks' <=> r \in segLocks)
  PROVE  WorkerOK(v)'
  <1>1. CancelOf(v) /\ Frees(v) # NoBooking => CancelOf(v)'
    BY DEF CancelOf, SameView
  <1>2. RequestOf(v) => RequestOf(v)'
    <2> SUFFICES ASSUME RequestOf(v) PROVE RequestOf(v)'
      OBVIOUS
    <2>1. PICK u \in Users, S \in SUBSET HeldSeats(v), g \in Segments :
            \/ /\ Del(v) = {} /\ Add(v) = NewRows(u, S, g)
               /\ Sells(v) = NoBooking
               /\ \A s \in S : ~SegmentBlocked(s, g)
            \/ /\ Del(v) = HeldRows(u, S, g) /\ Add(v) = {}
               /\ Sells(v) = NoBooking
            \/ /\ Del(v) = HeldRows(u, S, g) /\ Add(v) = SoldRows(u, S, g, Sells(v))
               /\ Sells(v) \in Bookings
      BY DEF RequestOf
    <2>2. HeldRows(u, S, g)' = HeldRows(u, S, g)
      BY DEF HeldRows
    <2>3. /\ SoldRows(u, S, g, Sells(v))' = SoldRows(u, S, g, Sells(v))
          /\ NewRows(u, S, g)' = NewRows(u, S, g)
      BY <2>2 DEF SoldRows, NewRows, SameView
    <2>4. \A s \in S : SegmentBlocked(s, g)' => SegmentBlocked(s, g)
      BY DEF SegmentBlocked
    <2> QED
      BY <2>1, <2>2, <2>3, <2>4 DEF RequestOf, SameView
  <1> QED
    BY <1>1, <1>2 DEF WorkerOK, SameView

LEMMA RequestCommitKeeps ==
  ASSUME TxInv, NEW w \in Workers, Writing(w), RequestOf(w),
         segLocks' = (segLocks \ Del(w)) \cup Add(w),
         NEW v \in Workers, v # w, SameView(v)
  PROVE  WorkerOK(v)'
  <1>1. PairOK(v, w) /\ WorkerOK(v)
    BY DEF TxInv
  <1>2. \A r : r.seat \in HeldSeats(v) => (r \in segLocks' <=> r \in segLocks)
    BY <1>1, RequestRows DEF PairOK
  <1>3. Frees(v) # NoBooking =>
          \A r : r.bookingId = Frees(v) => (r \in segLocks' <=> r \in segLocks)
    BY <1>1, RequestRows DEF PairOK
  <1> QED
    BY <1>1, <1>2, <1>3, OtherSeatsKeep

\* ... nor is what a cancellation commits: its rows are sold, and the rows of
\* another booking or of nobody are not among them.
LEMMA CancelCommitKeeps ==
  ASSUME TxInv, NEW w \in Workers, Frees(w) # NoBooking, CancelOf(w),
         segLocks' = (segLocks \ Del(w)) \cup Add(w),
         NEW v \in Workers, v # w, SameView(v)
  PROVE  WorkerOK(v)'
  <1>1. PairOK(v, w) /\ WorkerOK(v)
    BY DEF TxInv
  <1>2. segLocks' = {r \in segLocks : r.bookingId # Frees(w)}
    BY DEF CancelOf
  <1>3. \A r : r.status = "LOCKED" => (r \in segLocks' <=> r \in segLocks)
    BY <1>2 DEF TxInv, SoldHasBooking
  <1>4. CASE Frees(v) # Frees(w)
    BY <1>1, <1>2, <1>3, <1>4, OtherSeatsKeep
  <1>5. CASE Frees(v) = Frees(w)
    <2>1. ~(Writing(v)' /\ Frees(v)' = NoBooking)
      BY <1>5 DEF SameView
    <2>2. CASE CancelOf(v)
      <3>1. Del(v) = {}
        BY <1>1, <1>5, <2>2 DEF PairOK, CancelOf
      <3>2. CancelOf(v)'
        BY <1>2, <1>5, <2>2, <3>1 DEF CancelOf, SameView
      <3> QED
        BY <2>1, <3>2 DEF WorkerOK
    <2>3. CASE ~Deleting(v)
      BY <2>1, <2>3 DEF WorkerOK, SameView
    <2> QED
      BY <1>1, <1>5, <2>2, <2>3 DEF WorkerOK
  <1> QED
    BY <1>4, <1>5

LEMMA CommitCountsKeeps ==
  ASSUME TxInv, NEW w \in Workers, CommitCounts(w)
  PROVE  TxInv'
  <1> USE DEF TxInv, TxTypeOK
  <1>1. Writing(w) /\ Deleting(w) /\ tx[w].pc = "counted"
    BY DEF CommitCounts, Writing, Deleting
  <1>2. /\ Del(w) = tx[w].del /\ Add(w) = tx[w].add
        /\ tx[w].del \in Rows /\ tx[w].add \in Rows /\ tx[w].writes \in SeatWrites
    BY <1>1, WriterView
  <1>3. tx[w].counts \in Counts
    BY <1>1, Stages
  <1>4. segLocks' = (segLocks \ Del(w)) \cup Add(w)
    BY <1>2 DEF CommitCounts
  <1>5. TypeOK'
    <2>1. segLocks' \subseteq SegmentLock
      BY <1>2, <1>4 DEF TypeOK, Rows
    <2>2. seats' \in [Seats -> SeatRow]
      BY <1>2, OverlayTyped DEF CommitCounts
    <2>3. schedule' \in ScheduleRow
      BY <1>3 DEF CommitCounts, Counts, TypeOK, ScheduleRow
    <2>4. processed' = processed
      BY DEF CommitCounts
    <2> QED
      BY <2>1, <2>2, <2>3, <2>4 DEF TypeOK
  <1>6. tx' = [tx EXCEPT ![w] = Idle]
    BY DEF CommitCounts
  <1>7. \A v \in Workers : v # w => SameView(v)
    BY <1>6, OthersStay
  <1>8. CASE Frees(w) = NoBooking
    <2>1. RequestOf(w)
      BY <1>1, <1>8 DEF WorkerOK
    <2>2. SoldHasBooking'
      BY <1>1, <1>4, <2>1, RequestRows DEF SoldHasBooking
    <2>3. \A v \in Workers : v # w => WorkerOK(v)'
      BY <1>1, <1>4, <1>7, <2>1, RequestCommitKeeps
    <2> QED
      BY <1>5, <1>6, <2>2, <2>3, CommitKeeps
  <1>9. CASE Frees(w) # NoBooking
    <2>1. CancelOf(w)
      BY <1>1, <1>9 DEF WorkerOK
    <2>2. SoldHasBooking'
      BY <1>4, <2>1 DEF SoldHasBooking, CancelOf
    <2>3. \A v \in Workers : v # w => WorkerOK(v)'
      BY <1>4, <1>7, <1>9, <2>1, CancelCommitKeeps
    <2> QED
      BY <1>5, <1>6, <2>2, <2>3, CommitKeeps
  <1> QED
    BY <1>8, <1>9

LEMMA CommitShiftKeeps ==
  ASSUME TxInv, NEW w \in Workers, CommitShift(w)
  PROVE  TxInv'
  <1> USE DEF TxInv, TxTypeOK
  <1>1. tx[w].writes \in SeatWrites /\ tx[w].shift \in Counts
    BY Stages DEF CommitShift
  <1>2. TypeOK'
    <2>1. seats' \in [Seats -> SeatRow]
      BY <1>1, OverlayTyped DEF CommitShift
    <2>2. schedule' \in ScheduleRow
      BY <1>1, ShiftType DEF CommitShift, Counts, TypeOK
    <2> QED
      BY <2>1, <2>2 DEF CommitShift, TypeOK
  <1>3. tx' = [tx EXCEPT ![w] = Idle] /\ segLocks' = segLocks
    BY DEF CommitShift
  <1>4. SoldHasBooking'
    BY <1>3 DEF SoldHasBooking
  <1>5. \A v \in Workers : v # w => WorkerOK(v)'
    BY <1>3, OthersStay, SameRowsKeep
  <1> QED
    BY <1>2, <1>3, <1>4, <1>5, CommitKeeps

-----------------------------------------------------------------------------
(* The invariant *)

LEMMA TxInvInit == TxInit => TxInv
  <1> SUFFICES ASSUME TxInit PROVE TxInv
    OBVIOUS
  <1>1. TypeOK /\ segLocks = {} /\ \A w \in Workers : tx[w] = Idle
    BY InitTypeOK DEF TxInit, Init
  <1>2. TxTypeOK /\ TxShape /\ SoldHasBooking
    BY <1>1 DEF TxInit, TxTypeOK, Transaction, TxShape, SoldHasBooking
  <1>3. \A w \in Workers : WorkerOK(w)
    BY <1>1, IdleView DEF WorkerOK
  <1>4. \A v, w \in Workers : PairOK(v, w)
    BY <1>1, IdleView DEF PairOK
  <1> QED
    BY <1>2, <1>3, <1>4 DEF TxInv

\* An event leaves the segment rows and the transactions alone.
LEMMA EventKeeps ==
  ASSUME TxInv, CreateSeats \/ CancelSeats
  PROVE  TxInv'
  <1>1. /\ InitializeInventory \/ CancelScheduleInventory
        /\ tx' = tx /\ segLocks' = segLocks
    BY DEF CreateSeats, CancelSeats, InitializeInventory, CancelScheduleInventory
  <1>2. TypeOK'
    BY <1>1, NextTypeOK DEF Next, TxInv, TxTypeOK
  <1>3. TxTypeOK' /\ TxShape' /\ SoldHasBooking'
    BY <1>1, <1>2 DEF TxInv, TxTypeOK, TxShape, SoldHasBooking
  <1>4. \A w \in Workers : SameView(w)
    BY <1>1 DEF SameView, Sells, Frees, HeldSeats, Del, Add, Field, Writing, Deleting
  <1>5. \A w \in Workers : WorkerOK(w)'
    BY <1>1, <1>4, SameRowsKeep DEF TxInv
  <1>6. ASSUME NEW v \in Workers, NEW w \in Workers, v # w PROVE PairOK(v, w)'
    BY <1>4, <1>6 DEF TxInv, PairOK, SameView
  <1> QED
    BY <1>3, <1>5, <1>6 DEF TxInv

LEMMA UnchangedKeeps ==
  ASSUME TxInv, UNCHANGED txVars
  PROVE  TxInv'
  <1>1. /\ schedule' = schedule /\ seats' = seats /\ segLocks' = segLocks
        /\ processed' = processed /\ tx' = tx
    BY DEF txVars
  <1>2. TxTypeOK' /\ TxShape' /\ SoldHasBooking'
    BY <1>1 DEF TxInv, TxTypeOK, TypeOK, TxShape, SoldHasBooking
  <1>3. \A w \in Workers : SameView(w)
    BY <1>1 DEF SameView, Sells, Frees, HeldSeats, Del, Add, Field, Writing, Deleting
  <1>4. \A w \in Workers : WorkerOK(w)'
    BY <1>1, <1>3, SameRowsKeep DEF TxInv
  <1>5. ASSUME NEW v \in Workers, NEW w \in Workers, v # w PROVE PairOK(v, w)'
    BY <1>3, <1>5 DEF TxInv, PairOK, SameView
  <1> QED
    BY <1>2, <1>4, <1>5 DEF TxInv

LEMMA TxInvNext == TxInv /\ [TxNext]_txVars => TxInv'
  <1> SUFFICES ASSUME TxInv, [TxNext]_txVars PROVE TxInv'
    OBVIOUS
  <1>1. ASSUME NEW w \in Workers, Begin(w) PROVE TxInv'
    BY <1>1, BeginLockKeeps, TakeUnlockKeeps, TakeConfirmKeeps, CancelFindKeeps DEF Begin
  <1>2. ASSUME NEW w \in Workers, Continue(w) PROVE TxInv'
    BY <1>2, TakeLockKeeps, CancelDeleteKeeps, ReadRowsKeeps, WriteSeatKeeps,
       CancelTakeFullKeeps, RecountSeatsKeeps, CommitCountsKeeps, CommitShiftKeeps, AbortKeeps
    DEF Continue
  <1> QED
    BY <1>1, <1>2, EventKeeps, UnchangedKeeps DEF TxNext

LEMMA TxInvAlways == TxSpec => []TxInv
  <1> QED
    BY TxInvInit, TxInvNext, PTL DEF TxSpec

\* The rows and what each transaction carries keep their columns and values,
\* however the transactions overlap and wherever they are aborted.
THEOREM TxTypeCorrect == TxSpec => []TxTypeOK
  <1>1. TxInv => TxTypeOK
    BY DEF TxInv
  <1> QED
    BY <1>1, TxInvAlways, PTL

-----------------------------------------------------------------------------
(* The segment rows implement SeatReservation *)

\* What a transaction commits is one operation on claims, although it was
\* decided when the rows were read.
LEMMA CommitRefines ==
  ASSUME TxInv, NEW w \in Workers, CommitCounts(w)
  PROVE  SegmentReservation!ReservationNext
  <1>1. TypeOK /\ SoldHasBooking /\ WorkerOK(w) /\ Writing(w) /\ Deleting(w)
    BY DEF TxInv, TxTypeOK, CommitCounts, Writing, Deleting
  <1>2. /\ segLocks' = (segLocks \ Del(w)) \cup Add(w)
        /\ Frees(w) \in Booking
        /\ HeldSeats(w) \in SUBSET Seats
    <2>1. /\ Del(w) = tx[w].del /\ Add(w) = tx[w].add /\ Frees(w) \in Booking
          /\ HeldSeats(w) = DOMAIN tx[w].writes /\ tx[w].writes \in SeatWrites
      BY <1>1, WriterView DEF TxInv
    <2> QED
      BY <2>1 DEF CommitCounts, SeatWrites
  <1>3. SegmentClaims = RowClaims /\ SegmentClaims' = RowClaims'
    BY DEF SegmentClaims, RowClaims, ClaimOf
  <1>4. CASE Frees(w) = NoBooking
    <2>1. PICK u \in Users, S \in SUBSET HeldSeats(w), g \in Segments :
            \/ /\ Del(w) = {} /\ Add(w) = NewRows(u, S, g)
               /\ \A s \in S : ~SegmentBlocked(s, g)
            \/ /\ Del(w) = HeldRows(u, S, g) /\ Add(w) = {}
            \/ /\ Del(w) = HeldRows(u, S, g) /\ Add(w) = SoldRows(u, S, g, Sells(w))
               /\ Sells(w) \in Bookings
      BY <1>1, <1>4 DEF WorkerOK, RequestOf
    <2>2. S \in SUBSET Seats /\ g \in SegmentReservation!Stretch
      BY <1>2 DEF Segments, SegmentReservation!Stretch
    <2>3. CASE Del(w) = {} /\ Add(w) = NewRows(u, S, g) /\ \A s \in S : ~SegmentBlocked(s, g)
      <3>1. \A c \in SegmentClaims : c.seat \in S => ~SegmentReservation!Meets(c.seg, g)
        BY <2>3 DEF SegmentClaims, SegmentBlocked, Overlap, SegmentReservation!Meets
      <3>2. RowClaims' = RowClaims \cup [seat : S, seg : {g}, owner : {u}, booking : {NoBooking}]
        BY <1>2, <2>3, LockClaims
      <3>3. SegmentReservation!Hold(u, S, g)
        BY <1>3, <3>1, <3>2 DEF SegmentReservation!Hold
      <3> QED
        BY <2>2, <3>3 DEF SegmentReservation!ReservationNext
    <2>4. CASE Del(w) = HeldRows(u, S, g) /\ Add(w) = {}
      <3>1. RowClaims' = RowClaims \ ClaimsHeld(u, S, g)
        BY <1>1, <1>2, <2>4, UnlockClaims
      <3>2. SegmentReservation!Release(u, S, g)
        BY <1>3, <3>1
        DEF SegmentReservation!Release, SegmentReservation!HeldBy, ClaimsHeld
      <3> QED
        BY <2>2, <3>2 DEF SegmentReservation!ReservationNext
    <2>5. CASE /\ Del(w) = HeldRows(u, S, g) /\ Add(w) = SoldRows(u, S, g, Sells(w))
               /\ Sells(w) \in Bookings
      <3>1. RowClaims' = (RowClaims \ ClaimsHeld(u, S, g))
                           \cup {[c EXCEPT !.booking = Sells(w)] : c \in ClaimsHeld(u, S, g)}
        BY <1>1, <1>2, <2>5, SellClaims
      <3>2. SegmentReservation!HeldBy(u, S, g) = ClaimsHeld(u, S, g)
        BY <1>3 DEF SegmentReservation!HeldBy, ClaimsHeld
      <3>3. SegmentReservation!Sell(u, S, g, Sells(w))
        BY <1>3, <3>1, <3>2 DEF SegmentReservation!Sell
      <3> QED
        BY <2>2, <2>5, <3>3 DEF SegmentReservation!ReservationNext
    <2> QED
      BY <2>1, <2>3, <2>4, <2>5
  <1>5. CASE Frees(w) # NoBooking
    <2>1. segLocks' = {r \in segLocks : r.bookingId # Frees(w)}
      BY <1>1, <1>2, <1>5 DEF WorkerOK, CancelOf
    <2>2. SegmentReservation!CancelSale(Frees(w))
      BY <1>3, <2>1, CancelClaims DEF SegmentReservation!CancelSale
    <2> QED
      BY <1>2, <1>5, <2>2 DEF Booking, SegmentReservation!ReservationNext
  <1> QED
    BY <1>4, <1>5

\* Every other step leaves the segment rows alone.
LEMMA RowsChangeAtCommit ==
  ASSUME [TxNext]_txVars, \A w \in Workers : ~CommitCounts(w)
  PROVE  segLocks' = segLocks
  <1>1. ASSUME NEW w, NEW t, Step(w, t) PROVE segLocks' = segLocks
    BY <1>1 DEF Step, invVars
  <1>2. CASE CreateSeats \/ CancelSeats
    BY <1>2 DEF CreateSeats, CancelSeats, InitializeInventory, CancelScheduleInventory
  <1>3. ASSUME NEW w \in Workers, Begin(w) PROVE segLocks' = segLocks
    <2>1. ASSUME NEW b, NEW S, NEW del, NEW add, NEW sts, TakeSegment(w, b, S, del, add, sts)
          PROVE  segLocks' = segLocks
      BY <1>1, <2>1 DEF TakeSegment
    <2>2. ASSUME NEW sold, NEW freed, NEW S, NEW writes, NEW a, NEW l, NEW b,
                 TakeFull(w, sold, freed, S, writes, a, l, b)
          PROVE  segLocks' = segLocks
      BY <1>1, <2>2 DEF TakeFull
    <2>3. CASE \E u \in Users, S \in SUBSET Seats, g \in Journeys : BeginLock(w, u, S, g)
      BY <1>1, <2>3 DEF BeginLock
    <2>4. CASE \E u \in Users, S \in SUBSET Seats, g \in Journeys : TakeUnlock(w, u, S, g)
      BY <2>1, <2>2, <2>4 DEF TakeUnlock
    <2>5. CASE \E u \in Users, S \in SUBSET Seats, g \in Journeys, b \in Bookings :
                 TakeConfirm(w, u, S, g, b)
      BY <2>1, <2>2, <2>5 DEF TakeConfirm
    <2>6. CASE \E b \in Bookings : CancelFind(w, b)
      BY <1>1, <2>6 DEF CancelFind
    <2> QED
      BY <1>3, <2>3, <2>4, <2>5, <2>6 DEF Begin
  <1>4. ASSUME NEW w \in Workers, Continue(w) PROVE segLocks' = segLocks
    <2>1. CASE TakeLock(w) \/ CancelDelete(w) \/ ReadRows(w) \/ RecountSeats(w) \/ Abort(w)
      BY <1>1, <2>1
      DEF TakeLock, TakeSegment, TakeFull, CancelDelete, ReadRows, RecountSeats, Abort
    <2>2. CASE WriteSeat(w) \/ CancelTakeFull(w)
      BY <1>1, <2>2 DEF WriteSeat, CancelTakeFull, TakeFull
    <2>3. CASE CommitShift(w)
      BY <2>3 DEF CommitShift
    <2> QED
      BY <1>4, <2>1, <2>2, <2>3 DEF Continue
  <1>5. CASE UNCHANGED txVars
    BY <1>5 DEF txVars
  <1> QED
    BY <1>2, <1>3, <1>4, <1>5 DEF TxNext

\* The same step on rows: locking is decided under the locks of the seats, so
\* no committed row can come to overlap the new ones.
LEMMA CommitNoOverlap ==
  ASSUME TxInv, NoOverlappingSegments, NEW w \in Workers, CommitCounts(w)
  PROVE  NoOverlappingSegments'
  <1>1. TypeOK /\ WorkerOK(w) /\ Writing(w) /\ Deleting(w)
    BY DEF TxInv, TxTypeOK, CommitCounts, Writing, Deleting
  <1>2. segLocks' = (segLocks \ Del(w)) \cup Add(w) /\ HeldSeats(w) \in SUBSET Seats
    <2>1. /\ Del(w) = tx[w].del /\ Add(w) = tx[w].add
          /\ HeldSeats(w) = DOMAIN tx[w].writes /\ tx[w].writes \in SeatWrites
      BY <1>1, WriterView DEF TxInv
    <2> QED
      BY <2>1 DEF CommitCounts, SeatWrites
  <1>3. CASE Add(w) = {}
    BY <1>2, <1>3, FewerRowsNoOverlap
  <1>4. CASE Add(w) # {}
    <2>1. Frees(w) = NoBooking
      BY <1>1, <1>4 DEF WorkerOK, CancelOf
    <2>2. PICK u \in Users, S \in SUBSET HeldSeats(w), g \in Segments :
            \/ /\ Del(w) = {} /\ Add(w) = NewRows(u, S, g)
               /\ \A s \in S : ~SegmentBlocked(s, g)
            \/ /\ Del(w) = HeldRows(u, S, g) /\ Add(w) = SoldRows(u, S, g, Sells(w))
               /\ Sells(w) \in Bookings
      BY <1>1, <1>4, <2>1 DEF WorkerOK, RequestOf
    <2>3. S \in SUBSET Seats
      BY <1>2
    <2>4. CASE Del(w) = {} /\ Add(w) = NewRows(u, S, g) /\ \A s \in S : ~SegmentBlocked(s, g)
      <3>1. segLocks' = segLocks \cup NewRows(u, S, g)
        BY <1>2, <2>4
      <3> QED
        BY <1>1, <2>3, <2>4, <3>1, LockNoOverlap
    <2>5. CASE /\ Del(w) = HeldRows(u, S, g) /\ Add(w) = SoldRows(u, S, g, Sells(w))
               /\ Sells(w) \in Bookings
      BY <1>1, <1>2, <2>3, <2>5, ConfirmNoOverlap
    <2> QED
      BY <2>2, <2>4, <2>5
  <1> QED
    BY <1>3, <1>4

\* A seat is never locked or booked twice for overlapping segments, however
\* the transactions of lockSeats, unlockSeats, confirmSeats and cancelBooking
\* overlap in time.
THEOREM NoDoubleBookingOverlapping == TxSpec => []NoOverlappingSegments
  <1>1. TxInit => NoOverlappingSegments
    BY DEF TxInit, Init, NoOverlappingSegments
  <1>2. TxInv /\ NoOverlappingSegments /\ [TxNext]_txVars => NoOverlappingSegments'
    <2> SUFFICES ASSUME TxInv, NoOverlappingSegments, [TxNext]_txVars
                 PROVE  NoOverlappingSegments'
      OBVIOUS
    <2> QED
      BY CommitNoOverlap, RowsChangeAtCommit, FewerRowsNoOverlap
  <1> QED
    BY <1>1, <1>2, TxInvAlways, PTL DEF TxSpec

\* However the transactions overlap, the segment rows do what SeatReservation
\* promises: each commit is one hold, release, sale or cancellation.  The row
\* locks and the overlap check under them are enough, although cancelBooking
\* deletes rows without their seats.
THEOREM OverlappingTransactionsReserve == TxSpec => RowsImplementReservation
  <1>1. TxInit => SegmentReservation!ReservationInit
    BY DEF TxInit, Init, SegmentClaims, SegmentReservation!ReservationInit
  <1>2. TxInv /\ [TxNext]_txVars => [SegmentReservation!ReservationNext]_SegmentClaims
    <2> SUFFICES ASSUME TxInv, [TxNext]_txVars
                 PROVE  SegmentReservation!ReservationNext \/ SegmentClaims' = SegmentClaims
      OBVIOUS
    <2> QED
      BY CommitRefines, RowsChangeAtCommit DEF SegmentClaims
  <1> QED
    BY <1>1, <1>2, TxInvAlways, PTL
    DEF TxSpec, RowsImplementReservation, SegmentReservation!ReservationSpec

-----------------------------------------------------------------------------
(* Callers that always ask for the full journey *)

\* What a full-journey request is about to commit to the seats S it has, as
\* good now as when it looked at them.
AboutToLock(t, S) ==
  /\ \A s \in S : seats[s].status = "AVAILABLE"
  /\ \E u \in Users : t.writes = [s \in S |-> Seat("LOCKED", u, seats[s].bookingId)]
  /\ t.shift = [available |-> -Cardinality(S), locked |-> Cardinality(S), booked |-> 0]
  /\ t.sells = NoBooking /\ t.frees = NoBooking

AboutToUnlock(t, S) ==
  /\ \E u \in Users : AllLockedBy(u, S)
  /\ t.writes = [s \in S |-> Seat("AVAILABLE", NoUser, seats[s].bookingId)]
  /\ t.shift = [available |-> Cardinality(S), locked |-> -Cardinality(S), booked |-> 0]
  /\ t.sells = NoBooking /\ t.frees = NoBooking

AboutToConfirm(t, S) ==
  /\ \E u \in Users : AllLockedBy(u, S)
  /\ t.writes = [s \in S |-> Seat("BOOKED", seats[s].lockedBy, t.sells)]
  /\ t.shift = [available |-> 0, locked |-> -Cardinality(S), booked |-> Cardinality(S)]
  /\ t.sells \in Bookings /\ t.frees = NoBooking

AboutToCancel(t, S) ==
  /\ S = BookedSeats(t.frees)
  /\ t.writes = [s \in S |-> FreeSeat]
  /\ t.shift = [available |-> Cardinality(S), locked |-> 0, booked |-> -Cardinality(S)]
  /\ t.sells = NoBooking /\ t.frees \in Bookings

Shifting(t) ==
  \E S \in SUBSET Seats :
    /\ S # {} /\ DOMAIN t.writes = S
    /\ AboutToLock(t, S) \/ AboutToUnlock(t, S) \/ AboutToConfirm(t, S) \/ AboutToCancel(t, S)

FullStage(t) ==
  /\ t.pc \in {"idle", "checked", "listed", "shifting"}
  /\ t.pc = "checked" => t.seg = FullJourney
  /\ t.pc = "listed" => t.seats = {}
  /\ t.pc = "shifting" => Shifting(t)

NoSeatsBefore ==
  "SCHEDULE_CREATED" \notin processed =>
    schedule.status = "ABSENT" /\ \A s \in Seats : seats[s].status = "ABSENT"

FullInv ==
  /\ TxInv
  /\ segLocks = {}
  /\ NoSeatsBefore
  /\ CountersExact
  /\ CancelledIsFinal
  /\ \A w \in Workers : FullStage(tx[w])

\* A transaction about to shift has seats that are neither cancelled nor new.
LEMMA ShiftingIsLive ==
  ASSUME NEW t, Shifting(t)
  PROVE  \E s \in Seats : seats[s].status \in {"AVAILABLE", "LOCKED", "BOOKED"}
  BY DEF Shifting, AboutToLock, AboutToUnlock, AboutToConfirm, AboutToCancel, AllLockedBy,
         BookedSeats

\* While the seats of a request stay, and the seats of the booking it cancels,
\* so does what it is about to do.
LEMMA SeatsStayShift ==
  ASSUME NEW t, NEW S \in SUBSET Seats,
         \A s \in S : seats'[s] = seats[s]
  PROVE  /\ AboutToLock(t, S) => AboutToLock(t, S)'
         /\ AboutToUnlock(t, S) => AboutToUnlock(t, S)'
         /\ AboutToConfirm(t, S) => AboutToConfirm(t, S)'
         /\ AboutToCancel(t, S) /\ BookedSeats(t.frees)' = BookedSeats(t.frees)
              => AboutToCancel(t, S)'
  <1>1. AboutToLock(t, S) => AboutToLock(t, S)'
    <2>1. \A u : [s \in S |-> Seat("LOCKED", u, seats'[s].bookingId)]
                   = [s \in S |-> Seat("LOCKED", u, seats[s].bookingId)]
      OBVIOUS
    <2> QED
      BY <2>1 DEF AboutToLock, Seat
  <1>2. \A u : AllLockedBy(u, S) => AllLockedBy(u, S)'
    BY DEF AllLockedBy
  <1>3. AboutToUnlock(t, S) => AboutToUnlock(t, S)'
    <2>1. [s \in S |-> Seat("AVAILABLE", NoUser, seats'[s].bookingId)]
            = [s \in S |-> Seat("AVAILABLE", NoUser, seats[s].bookingId)]
      OBVIOUS
    <2> QED
      BY <1>2, <2>1 DEF AboutToUnlock, Seat
  <1>4. AboutToConfirm(t, S) => AboutToConfirm(t, S)'
    <2>1. [s \in S |-> Seat("BOOKED", seats'[s].lockedBy, t.sells)]
            = [s \in S |-> Seat("BOOKED", seats[s].lockedBy, t.sells)]
      OBVIOUS
    <2> QED
      BY <1>2, <2>1 DEF AboutToConfirm, Seat
  <1>5. AboutToCancel(t, S) /\ BookedSeats(t.frees)' = BookedSeats(t.frees)
          => AboutToCancel(t, S)'
    BY DEF AboutToCancel, FreeSeat, Seat
  <1> QED
    BY <1>1, <1>3, <1>4, <1>5

LEMMA SameSeatsShift ==
  ASSUME seats' = seats, NEW t, Shifting(t)
  PROVE  Shifting(t)'
  <1>1. \A b : BookedSeats(b)' = BookedSeats(b)
    BY DEF BookedSeats
  <1> QED
    BY <1>1, SeatsStayShift DEF Shifting

\* Steps that commit nothing.
LEMMA FullStepKeeps ==
  ASSUME FullInv, TxInv', NEW w \in Workers, NEW t, Step(w, t), FullStage(t)
  PROVE  FullInv'
  <1>1. /\ schedule' = schedule /\ seats' = seats /\ segLocks' = segLocks
        /\ processed' = processed /\ tx' = [tx EXCEPT ![w] = t]
    BY DEF Step, invVars
  <1>2. /\ segLocks' = {} /\ NoSeatsBefore' /\ CancelledIsFinal'
    BY <1>1 DEF FullInv, NoSeatsBefore, CancelledIsFinal
  <1>3. CountersExact'
    BY <1>1 DEF FullInv, CountersExact, Recount, CountOf, WithStatus
  <1>4. ASSUME NEW v \in Workers PROVE FullStage(tx[v])'
    <2>1. tx'[v] = t \/ tx'[v] = tx[v]
      BY <1>1, OthersStay DEF FullInv, TxInv
    <2>2. FullStage(tx'[v])
      BY <2>1 DEF FullInv
    <2>3. \A x : Shifting(x) => Shifting(x)'
      BY <1>1, SameSeatsShift
    <2> QED
      BY <2>2, <2>3 DEF FullStage
  <1> QED
    BY <1>2, <1>3, <1>4 DEF FullInv

LEMMA FullTakeKeeps ==
  ASSUME FullInv, TxInv', NEW w \in Workers, NEW sold, NEW freed,
         NEW S \in SUBSET Seats, NEW writes, DOMAIN writes = S, NEW a, NEW l, NEW b,
         TakeFull(w, sold, freed, S, writes, a, l, b),
         \A t : t = [pc |-> "shifting", sells |-> sold, frees |-> freed, writes |-> writes,
                     shift |-> [available |-> a, locked |-> l, booked |-> b]] =>
           \/ AboutToLock(t, S) \/ AboutToUnlock(t, S)
           \/ AboutToConfirm(t, S) \/ AboutToCancel(t, S)
  PROVE  FullInv'
  <1> DEFINE t == [pc |-> "shifting", sells |-> sold, frees |-> freed, writes |-> writes,
                   shift |-> [available |-> a, locked |-> l, booked |-> b]]
  <1>1. Step(w, t) /\ S # {}
    BY DEF TakeFull, SeatsExist
  <1>2. t.pc = "shifting" /\ t.writes = writes
    OBVIOUS
  <1> HIDE DEF t
  <1>3. \/ AboutToLock(t, S) \/ AboutToUnlock(t, S)
        \/ AboutToConfirm(t, S) \/ AboutToCancel(t, S)
    BY DEF t
  <1>4. FullStage(t)
    BY <1>1, <1>2, <1>3 DEF FullStage, Shifting
  <1> QED
    BY <1>1, <1>4, FullStepKeeps

LEMMA OnlyFullJourney ==
  ASSUME "segment" \notin Modes, NEW g \in Journeys
  PROVE  g = FullJourney
  BY DEF Journeys

\* A transaction without segment rows passes through four stages only.
LEMMA FullBeginKeeps ==
  ASSUME "segment" \notin Modes, FullInv, TxInv', NEW w \in Workers, Begin(w)
  PROVE  FullInv'
  <1>1. ASSUME NEW u \in Users, NEW S \in SUBSET Seats, NEW g \in Journeys,
               BeginLock(w, u, S, g)
        PROVE  FullInv'
    <2> DEFINE t == [pc |-> "checked", user |-> u, seats |-> S, seg |-> g]
    <2>1. Step(w, t)
      BY <1>1 DEF BeginLock
    <2>2. FullStage(t)
      BY OnlyFullJourney DEF FullStage
    <2> HIDE DEF t
    <2> QED
      BY <2>1, <2>2, FullStepKeeps
  <1>2. ASSUME NEW u \in Users, NEW S \in SUBSET Seats, NEW g \in Journeys,
               TakeUnlock(w, u, S, g)
        PROVE  FullInv'
    <2> DEFINE writes == [s \in S |-> Seat("AVAILABLE", NoUser, seats[s].bookingId)]
    <2>1. /\ AllLockedBy(u, S)
          /\ TakeFull(w, NoBooking, NoBooking, S, writes, Cardinality(S), -Cardinality(S), 0)
      BY <1>2, OnlyFullJourney DEF TakeUnlock
    <2>2. DOMAIN writes = S
      OBVIOUS
    <2>3. \A t : t = [pc |-> "shifting", sells |-> NoBooking, frees |-> NoBooking,
                      writes |-> writes, shift |-> [available |-> Cardinality(S),
                      locked |-> -Cardinality(S), booked |-> 0]] => AboutToUnlock(t, S)
      BY <2>1 DEF AboutToUnlock
    <2> HIDE DEF writes
    <2> QED
      BY <2>1, <2>2, <2>3, FullTakeKeeps
  <1>3. ASSUME NEW u \in Users, NEW S \in SUBSET Seats, NEW g \in Journeys,
               NEW b \in Bookings, TakeConfirm(w, u, S, g, b)
        PROVE  FullInv'
    <2> DEFINE writes == [s \in S |-> Seat("BOOKED", seats[s].lockedBy, b)]
    <2>1. /\ AllLockedBy(u, S)
          /\ TakeFull(w, b, NoBooking, S, writes, 0, -Cardinality(S), Cardinality(S))
      BY <1>3, OnlyFullJourney DEF TakeConfirm
    <2>2. DOMAIN writes = S
      OBVIOUS
    <2>3. \A t : t = [pc |-> "shifting", sells |-> b, frees |-> NoBooking,
                      writes |-> writes, shift |-> [available |-> 0,
                      locked |-> -Cardinality(S), booked |-> Cardinality(S)]]
                   => AboutToConfirm(t, S)
      BY <2>1 DEF AboutToConfirm
    <2> HIDE DEF writes
    <2> QED
      BY <2>1, <2>2, <2>3, FullTakeKeeps
  <1>4. ASSUME NEW b \in Bookings, CancelFind(w, b)
        PROVE  FullInv'
    <2> DEFINE S == {r.seat : r \in BookedRows(b)}
               t == [pc |-> "listed", frees |-> b, seats |-> S]
    <2>1. Step(w, t)
      BY <1>4 DEF CancelFind
    <2>2. S = {}
      BY DEF BookedRows, FullInv
    <2> HIDE DEF S
    <2>3. FullStage(t)
      BY <2>2 DEF FullStage
    <2> HIDE DEF t
    <2> QED
      BY <2>1, <2>3, FullStepKeeps
  <1> QED
    BY <1>1, <1>2, <1>3, <1>4 DEF Begin

LEMMA FullContinueKeeps ==
  ASSUME "segment" \notin Modes, FullInv, TxInv', NEW w \in Workers, Continue(w),
         ~CommitShift(w)
  PROVE  FullInv'
  <1>1. FullStage(tx[w])
    BY DEF FullInv
  <1>2. CASE TakeLock(w)
    <2> DEFINE u == tx[w].user
               S == tx[w].seats
               writes == [s \in S |-> Seat("LOCKED", u, seats[s].bookingId)]
    <2>1. tx[w].seg = FullJourney
      BY <1>1, <1>2 DEF FullStage, TakeLock
    <2>2. u \in Users /\ S \in SUBSET Seats
      BY <1>2, CheckedView DEF TakeLock, FullInv, TxInv
    <2>3. /\ \A s \in S : seats[s].status = "AVAILABLE"
          /\ TakeFull(w, NoBooking, NoBooking, S, writes, -Cardinality(S), Cardinality(S), 0)
      BY <1>2, <2>1 DEF TakeLock
    <2>4. DOMAIN writes = S
      OBVIOUS
    <2>5. writes = [s \in S |-> Seat("LOCKED", u, seats[s].bookingId)]
      OBVIOUS
    <2> HIDE DEF u, S, writes
    <2>6. \A t : t = [pc |-> "shifting", sells |-> NoBooking, frees |-> NoBooking,
                      writes |-> writes, shift |-> [available |-> -Cardinality(S),
                      locked |-> Cardinality(S), booked |-> 0]] => AboutToLock(t, S)
      BY <2>2, <2>3, <2>5 DEF AboutToLock
    <2> QED
      BY <2>2, <2>3, <2>4, <2>6, FullTakeKeeps
  <1>3. CASE CancelTakeFull(w)
    <2> DEFINE b == Frees(w)
               S == BookedSeats(b)
               writes == [s \in S |-> FreeSeat]
    <2>1. b \in Bookings
      BY <1>3, ListedView DEF CancelTakeFull, FullInv, TxInv
    <2>2. TakeFull(w, NoBooking, b, S, writes, Cardinality(S), 0, -Cardinality(S))
      BY <1>3 DEF CancelTakeFull
    <2>3. DOMAIN writes = S /\ S \in SUBSET Seats
      BY DEF BookedSeats
    <2>4. \A t : t = [pc |-> "shifting", sells |-> NoBooking, frees |-> b,
                      writes |-> writes, shift |-> [available |-> Cardinality(S),
                      locked |-> 0, booked |-> -Cardinality(S)]] => AboutToCancel(t, S)
      BY <2>1 DEF AboutToCancel
    <2> HIDE DEF b, S, writes
    <2> QED
      BY <2>2, <2>3, <2>4, FullTakeKeeps
  <1>4. CASE Abort(w)
    <2>1. FullStage(Idle) /\ Step(w, Idle)
      BY <1>4 DEF FullStage, Idle, Abort
    <2> QED
      BY <2>1, FullStepKeeps
  <1>5. CASE CancelDelete(w)
    BY <1>1, <1>5 DEF FullStage, CancelDelete
  <1>6. CASE ReadRows(w) \/ WriteSeat(w) \/ RecountSeats(w) \/ CommitCounts(w)
    BY <1>1, <1>6 DEF FullStage, ReadRows, WriteSeat, RecountSeats, CommitCounts
  <1> QED
    BY <1>2, <1>3, <1>4, <1>5, <1>6 DEF Continue

LEMMA FullEventKeeps ==
  ASSUME FullInv, TxInv', CreateSeats \/ CancelSeats
  PROVE  FullInv'
  <1> USE DEF FullInv
  <1>1. tx' = tx /\ segLocks' = {} /\ (InitializeInventory \/ CancelScheduleInventory)
    BY DEF CreateSeats, CancelSeats, InitializeInventory, CancelScheduleInventory
  <1>2. CountersExact'
    BY <1>1, NextCounters DEF Next, TxInv, TxTypeOK
  <1>3. ASSUME NEW w \in Workers PROVE ~Shifting(tx[w]) \/ tx[w].pc # "shifting"
    <2>1. CASE CreateSeats
      BY <2>1, ShiftingIsLive DEF CreateSeats, InitializeInventory, NoSeatsBefore
    <2>2. CASE CancelSeats
      <3>1. HeldSeats(w) = {}
        BY <2>2 DEF CancelSeats
      <3>2. tx[w].pc = "shifting" => HeldSeats(w) = DOMAIN tx[w].writes
        BY Stages DEF TxInv, HeldSeats, Field
      <3> QED
        BY <3>1, <3>2 DEF Shifting
    <2> QED
      BY <2>1, <2>2
  <1>4. \A w \in Workers : FullStage(tx[w])'
    BY <1>1, <1>3 DEF FullStage
  <1>5. CASE CreateSeats
    <2>1. NoSeatsBefore' /\ CancelledIsFinal'
      BY <1>5 DEF CreateSeats, InitializeInventory, NoSeatsBefore, CancelledIsFinal
    <2> QED
      BY <1>1, <1>2, <1>4, <2>1
  <1>6. CASE CancelSeats
    <2>1. \A s \in Seats : seats'[s].status = "CANCELLED"
      BY <1>6 DEF CancelSeats, CancelScheduleInventory, TxInv, TxTypeOK, TypeOK, SeatRow
    <2>2. NoSeatsBefore' /\ CancelledIsFinal'
      BY <1>6, <2>1 DEF CancelSeats, CancelScheduleInventory, NoSeatsBefore, CancelledIsFinal
    <2> QED
      BY <1>1, <1>2, <1>4, <2>2
  <1> QED
    BY <1>5, <1>6

\* What a commit does to the seats of each kind of request.
Locks(u, S) ==
  /\ \A s \in S : seats[s].status = "AVAILABLE"
  /\ \A s \in S : seats'[s] = Seat("LOCKED", u, seats[s].bookingId)
Unlocks(u, S) ==
  /\ AllLockedBy(u, S)
  /\ \A s \in S : seats'[s] = Seat("AVAILABLE", NoUser, seats[s].bookingId)
Confirms(u, S, b) ==
  /\ AllLockedBy(u, S)
  /\ \A s \in S : seats'[s] = Seat("BOOKED", seats[s].lockedBy, b)
Cancels(b, S) ==
  /\ S = BookedSeats(b)
  /\ \A s \in S : seats'[s] = FreeSeat

LEMMA SeatFields ==
  ASSUME NEW st, NEW user, NEW booking
  PROVE  /\ Seat(st, user, booking).status = st
         /\ Seat(st, user, booking).lockedBy = user
         /\ Seat(st, user, booking).bookingId = booking
  BY DEF Seat

\* From which status to which the seats go.
LEMMA SeatsMove ==
  ASSUME NEW S, NEW s \in S
  PROVE  /\ \A u : Locks(u, S) => seats[s].status = "AVAILABLE" /\ seats'[s].status = "LOCKED"
         /\ \A u : Unlocks(u, S) => seats[s].status = "LOCKED" /\ seats'[s].status = "AVAILABLE"
         /\ \A u, b : Confirms(u, S, b) =>
              /\ seats[s].status = "LOCKED" /\ seats'[s].status = "BOOKED"
              /\ seats'[s].bookingId = b
         /\ \A b : Cancels(b, S) => seats[s].status = "BOOKED" /\ seats'[s].status = "AVAILABLE"
  <1>1. ASSUME NEW u, Locks(u, S)
        PROVE  seats[s].status = "AVAILABLE" /\ seats'[s].status = "LOCKED"
    BY <1>1, SeatFields DEF Locks
  <1>2. ASSUME NEW u, Unlocks(u, S)
        PROVE  seats[s].status = "LOCKED" /\ seats'[s].status = "AVAILABLE"
    BY <1>2, SeatFields DEF Unlocks, AllLockedBy
  <1>3. ASSUME NEW u, NEW b, Confirms(u, S, b)
        PROVE  /\ seats[s].status = "LOCKED" /\ seats'[s].status = "BOOKED"
               /\ seats'[s].bookingId = b
    BY <1>3, SeatFields DEF Confirms, AllLockedBy
  <1>4. ASSUME NEW b, Cancels(b, S)
        PROVE  seats[s].status = "BOOKED" /\ seats'[s].status = "AVAILABLE"
    BY <1>4, SeatFields DEF Cancels, BookedSeats, FreeSeat
  <1> QED
    BY <1>1, <1>2, <1>3, <1>4

LEMMA CommitShiftEffect ==
  ASSUME FullInv, NEW w \in Workers, CommitShift(w)
  PROVE  \E S \in SUBSET Seats :
           /\ S # {} /\ HeldSeats(w) = S
           /\ \A s \in Seats \ S : seats'[s] = seats[s]
           /\ \/ /\ \E u \in Users : Locks(u, S)
                 /\ schedule' = Shift(schedule, -Cardinality(S), Cardinality(S), 0)
              \/ /\ \E u \in Users : Unlocks(u, S)
                 /\ schedule' = Shift(schedule, Cardinality(S), -Cardinality(S), 0)
              \/ /\ Sells(w) \in Bookings /\ \E u \in Users : Confirms(u, S, Sells(w))
                 /\ schedule' = Shift(schedule, 0, -Cardinality(S), Cardinality(S))
              \/ /\ Frees(w) \in Bookings /\ Cancels(Frees(w), S)
                 /\ schedule' = Shift(schedule, Cardinality(S), 0, -Cardinality(S))
  <1> DEFINE t == tx[w]
  <1>1. t.pc = "shifting" /\ FullStage(t)
    BY DEF CommitShift, FullInv
  <1>2. HeldSeats(w) = DOMAIN t.writes /\ Sells(w) = t.sells /\ Frees(w) = t.frees
    BY <1>1, Stages DEF FullInv, TxInv, HeldSeats, Sells, Frees, Field
  <1>3. /\ schedule' = Shift(schedule, t.shift.available, t.shift.locked, t.shift.booked)
        /\ seats' = [s \in Seats |-> IF s \in DOMAIN t.writes THEN t.writes[s] ELSE seats[s]]
    BY DEF CommitShift, Overlay
  <1> HIDE DEF t
  <1>4. PICK S \in SUBSET Seats :
          /\ S # {} /\ DOMAIN t.writes = S
          /\ AboutToLock(t, S) \/ AboutToUnlock(t, S) \/ AboutToConfirm(t, S)
               \/ AboutToCancel(t, S)
    BY <1>1 DEF FullStage, Shifting
  <1>5. \A s \in S : seats'[s] = t.writes[s]
    BY <1>3, <1>4
  <1>6. \A s \in Seats \ S : seats'[s] = seats[s]
    BY <1>3, <1>4
  <1>7. CASE AboutToLock(t, S)
    <2>1. \E u \in Users : Locks(u, S)
      BY <1>5, <1>7 DEF AboutToLock, Locks
    <2> QED
      BY <1>2, <1>3, <1>4, <1>6, <1>7, <2>1 DEF AboutToLock
  <1>8. CASE AboutToUnlock(t, S)
    <2>1. \E u \in Users : Unlocks(u, S)
      BY <1>5, <1>8 DEF AboutToUnlock, Unlocks
    <2> QED
      BY <1>2, <1>3, <1>4, <1>6, <1>8, <2>1 DEF AboutToUnlock
  <1>9. CASE AboutToConfirm(t, S)
    <2>1. t.sells \in Bookings /\ \E u \in Users : Confirms(u, S, t.sells)
      BY <1>5, <1>9 DEF AboutToConfirm, Confirms
    <2> QED
      BY <1>2, <1>3, <1>4, <1>6, <1>9, <2>1 DEF AboutToConfirm
  <1>10. CASE AboutToCancel(t, S)
    <2>1. t.frees \in Bookings /\ Cancels(t.frees, S)
      BY <1>5, <1>10 DEF AboutToCancel, Cancels
    <2> QED
      BY <1>2, <1>3, <1>4, <1>6, <1>10, <2>1 DEF AboutToCancel
  <1> QED
    BY <1>4, <1>7, <1>8, <1>9, <1>10

\* MoveCounts for the seats of a lock.
LEMMA LockedCounts ==
  ASSUME NEW S \in SUBSET Seats,
         \A s \in S : seats[s].status = "AVAILABLE" /\ seats'[s].status = "LOCKED",
         \A s \in Seats \ S : seats'[s].status = seats[s].status
  PROVE  /\ CountOf(seats', "AVAILABLE") = CountOf(seats, "AVAILABLE") - Cardinality(S)
         /\ CountOf(seats', "LOCKED") = CountOf(seats, "LOCKED") + Cardinality(S)
         /\ CountOf(seats', "BOOKED") = CountOf(seats, "BOOKED")
  <1> PICK src, dst : src = "AVAILABLE" /\ dst = "LOCKED"
    OBVIOUS
  <1>1. src # dst /\ "BOOKED" # src /\ "BOOKED" # dst
    OBVIOUS
  <1>2. \A s \in S : seats[s].status = src /\ seats'[s].status = dst
    OBVIOUS
  <1>3. /\ CountOf(seats', src) = CountOf(seats, src) - Cardinality(S)
        /\ CountOf(seats', dst) = CountOf(seats, dst) + Cardinality(S)
        /\ \A st : st # src /\ st # dst => CountOf(seats', st) = CountOf(seats, st)
    BY <1>1, <1>2, MoveCounts
  <1> QED
    BY <1>1, <1>3

\* The counters move with the seats: nobody else can move them in between,
\* and the sums are made by the database.
LEMMA CommitShiftCounters ==
  ASSUME FullInv, TypeOK', NEW w \in Workers, CommitShift(w)
  PROVE  CountersExact'
  <1> PICK S \in SUBSET Seats :
        /\ \A s \in Seats \ S : seats'[s] = seats[s]
        /\ \/ /\ \E u \in Users : Locks(u, S)
              /\ schedule' = Shift(schedule, -Cardinality(S), Cardinality(S), 0)
           \/ /\ \E u \in Users : Unlocks(u, S)
              /\ schedule' = Shift(schedule, Cardinality(S), -Cardinality(S), 0)
           \/ /\ \E u \in Users : Confirms(u, S, Sells(w))
              /\ schedule' = Shift(schedule, 0, -Cardinality(S), Cardinality(S))
           \/ /\ Cancels(Frees(w), S)
              /\ schedule' = Shift(schedule, Cardinality(S), 0, -Cardinality(S))
    BY CommitShiftEffect
  <1> DEFINE n == Cardinality(S)
  <1>1. n \in Nat
    BY RequestSize
  <1>2. TypeOK /\ CountersExact
    BY DEF FullInv, TxInv, TxTypeOK
  <1>3. /\ schedule.available = CountOf(seats, "AVAILABLE")
        /\ schedule.locked = CountOf(seats, "LOCKED")
        /\ schedule.booked = CountOf(seats, "BOOKED")
        /\ schedule.available \in Int /\ schedule.locked \in Int /\ schedule.booked \in Int
    BY <1>2, ExactNow DEF TypeOK, ScheduleRow
  <1>4. \A s \in Seats \ S : seats'[s].status = seats[s].status
    OBVIOUS
  <1> HIDE DEF n
  <1>5. ASSUME NEW u \in Users, Locks(u, S), schedule' = Shift(schedule, -n, n, 0)
        PROVE  CountersExact'
    <2>1. \A s \in S : seats[s].status = "AVAILABLE" /\ seats'[s].status = "LOCKED"
      BY <1>5, SeatsMove
    <2>2. /\ CountOf(seats', "AVAILABLE") = CountOf(seats, "AVAILABLE") - n
          /\ CountOf(seats', "LOCKED") = CountOf(seats, "LOCKED") + n
          /\ CountOf(seats', "BOOKED") = CountOf(seats, "BOOKED")
      BY <1>4, <2>1, LockedCounts DEF n
    <2> QED
      BY <1>1, <1>3, <1>5, <2>2, ExactNext DEF Shift
  <1>6. ASSUME NEW u \in Users, Unlocks(u, S), schedule' = Shift(schedule, n, -n, 0)
        PROVE  CountersExact'
    <2>1. \A s \in S : seats[s].status = "LOCKED" /\ seats'[s].status = "AVAILABLE"
      BY <1>6, SeatsMove
    <2>2. /\ CountOf(seats', "LOCKED") = CountOf(seats, "LOCKED") - n
          /\ CountOf(seats', "AVAILABLE") = CountOf(seats, "AVAILABLE") + n
          /\ CountOf(seats', "BOOKED") = CountOf(seats, "BOOKED")
      BY <1>4, <2>1, MoveCounts DEF n
    <2> QED
      BY <1>1, <1>3, <1>6, <2>2, ExactNext DEF Shift
  <1>7. ASSUME NEW u \in Users, Confirms(u, S, Sells(w)), schedule' = Shift(schedule, 0, -n, n)
        PROVE  CountersExact'
    <2>1. \A s \in S : seats[s].status = "LOCKED" /\ seats'[s].status = "BOOKED"
      BY <1>7, SeatsMove
    <2>2. /\ CountOf(seats', "LOCKED") = CountOf(seats, "LOCKED") - n
          /\ CountOf(seats', "BOOKED") = CountOf(seats, "BOOKED") + n
          /\ CountOf(seats', "AVAILABLE") = CountOf(seats, "AVAILABLE")
      BY <1>4, <2>1, MoveCounts DEF n
    <2> QED
      BY <1>1, <1>3, <1>7, <2>2, ExactNext DEF Shift
  <1>8. ASSUME Cancels(Frees(w), S), schedule' = Shift(schedule, n, 0, -n)
        PROVE  CountersExact'
    <2>1. \A s \in S : seats[s].status = "BOOKED" /\ seats'[s].status = "AVAILABLE"
      BY <1>8, SeatsMove
    <2>2. /\ CountOf(seats', "BOOKED") = CountOf(seats, "BOOKED") - n
          /\ CountOf(seats', "AVAILABLE") = CountOf(seats, "AVAILABLE") + n
          /\ CountOf(seats', "LOCKED") = CountOf(seats, "LOCKED")
      BY <1>4, <2>1, MoveCounts DEF n
    <2> QED
      BY <1>1, <1>3, <1>8, <2>2, ExactNext DEF Shift
  <1> QED
    BY <1>5, <1>6, <1>7, <1>8 DEF n

\* The commit leaves what others are about to do: their seats are others, and
\* it neither sells nor frees seats of a booking they cancel.
LEMMA CommitShiftOthers ==
  ASSUME FullInv, NEW w \in Workers, CommitShift(w), NEW v \in Workers, v # w,
         tx[v].pc = "shifting"
  PROVE  Shifting(tx[v])'
  <1>1. PICK t : t = tx[v]
    OBVIOUS
  <1>2. PICK S \in SUBSET Seats :
          /\ S # {} /\ DOMAIN t.writes = S
          /\ AboutToLock(t, S) \/ AboutToUnlock(t, S) \/ AboutToConfirm(t, S)
               \/ AboutToCancel(t, S)
    BY <1>1 DEF FullInv, FullStage, Shifting
  <1>3. HeldSeats(v) = S /\ Frees(v) = t.frees
    BY <1>1, <1>2, Stages DEF FullInv, TxInv, HeldSeats, Frees, Field
  <1>4. tx'[v] = t
    BY <1>1, OthersStay DEF CommitShift, FullInv, TxInv
  <1>5. PICK R \in SUBSET Seats :
          /\ HeldSeats(w) = R
          /\ \A s \in Seats \ R : seats'[s] = seats[s]
          /\ \/ \E u \in Users : Locks(u, R)
             \/ \E u \in Users : Unlocks(u, R)
             \/ Sells(w) \in Bookings /\ \E u \in Users : Confirms(u, R, Sells(w))
             \/ Frees(w) \in Bookings /\ Cancels(Frees(w), R)
    BY CommitShiftEffect
  <1>6. S \cap R = {} /\ (Sells(w) \in Bookings => Sells(w) # t.frees)
    BY <1>3, <1>5, NullAssumption DEF FullInv, TxInv, PairOK
  <1>7. \A s \in S : seats'[s] = seats[s]
    BY <1>5, <1>6
  <1>8. ASSUME AboutToCancel(t, S)
        PROVE  BookedSeats(t.frees)' = BookedSeats(t.frees)
    <2>1. S = BookedSeats(t.frees)
      BY <1>8 DEF AboutToCancel
    <2>2. \A s \in R : ~(seats'[s].status = "BOOKED" /\ seats'[s].bookingId = t.frees)
      BY <1>5, <1>6, SeatsMove
    <2>3. \A s \in Seats : (seats'[s].bookingId = t.frees /\ seats'[s].status = "BOOKED")
                              <=> s \in S
      <3>1. \A s \in Seats \ R : s \in S <=>
              seats'[s].bookingId = t.frees /\ seats'[s].status = "BOOKED"
        BY <1>5, <2>1 DEF BookedSeats
      <3> QED
        BY <1>6, <2>2, <3>1
    <2> QED
      BY <2>1, <2>3 DEF BookedSeats
  <1>9. \/ AboutToLock(t, S)' \/ AboutToUnlock(t, S)' \/ AboutToConfirm(t, S)'
        \/ AboutToCancel(t, S)'
    BY <1>2, <1>7, <1>8, SeatsStayShift
  <1> QED
    BY <1>2, <1>4, <1>9 DEF Shifting

LEMMA FullCommitKeeps ==
  ASSUME FullInv, TxInv', NEW w \in Workers, CommitShift(w)
  PROVE  FullInv'
  <1>1. Shifting(tx[w])
    BY DEF CommitShift, FullInv, FullStage
  <1>2. PICK s \in Seats : seats[s].status \in {"AVAILABLE", "LOCKED", "BOOKED"}
    BY <1>1, ShiftingIsLive
  <1>3. processed' = processed /\ schedule'.status = schedule.status /\ segLocks' = {}
    BY DEF CommitShift, Shift, FullInv
  <1>4. NoSeatsBefore'
    BY <1>2, <1>3 DEF FullInv, NoSeatsBefore
  <1>5. CancelledIsFinal'
    BY <1>2, <1>3 DEF FullInv, CancelledIsFinal
  <1>6. CountersExact'
    BY CommitShiftCounters DEF TxInv, TxTypeOK
  <1>7. ASSUME NEW v \in Workers PROVE FullStage(tx[v])'
    <2>1. tx'[w] = Idle /\ (v # w => tx'[v] = tx[v])
      BY OthersStay DEF CommitShift, FullInv, TxInv
    <2>2. CASE v = w
      BY <2>1, <2>2 DEF FullStage, Idle
    <2>3. CASE v # w
      BY <2>1, <2>3, CommitShiftOthers DEF FullStage, FullInv
    <2> QED
      BY <2>2, <2>3
  <1> QED
    BY <1>3, <1>4, <1>5, <1>6, <1>7 DEF FullInv

LEMMA FullInvInit == TxInit => FullInv
  <1> SUFFICES ASSUME TxInit PROVE FullInv
    OBVIOUS
  <1>1. CountersExact
    BY InitCounters DEF TxInit
  <1>2. segLocks = {} /\ NoSeatsBefore /\ CancelledIsFinal
    BY DEF TxInit, Init, Seat, NoSeatsBefore, CancelledIsFinal
  <1>3. \A w \in Workers : FullStage(tx[w])
    BY DEF TxInit, FullStage, Idle
  <1> QED
    BY <1>1, <1>2, <1>3, TxInvInit DEF FullInv

LEMMA FullInvNext ==
  ASSUME "segment" \notin Modes, FullInv, [TxNext]_txVars
  PROVE  FullInv'
  <1>1. TxInv'
    BY TxInvNext DEF FullInv
  <1>2. CASE CreateSeats \/ CancelSeats
    BY <1>1, <1>2, FullEventKeeps
  <1>3. ASSUME NEW w \in Workers, Begin(w) PROVE FullInv'
    BY <1>1, <1>3, FullBeginKeeps
  <1>4. ASSUME NEW w \in Workers, Continue(w) PROVE FullInv'
    BY <1>1, <1>4, FullContinueKeeps, FullCommitKeeps
  <1>5. CASE UNCHANGED txVars
    <2>1. /\ segLocks' = {} /\ NoSeatsBefore' /\ CancelledIsFinal'
      BY <1>5 DEF txVars, FullInv, NoSeatsBefore, CancelledIsFinal
    <2>2. CountersExact'
      BY <1>5 DEF txVars, FullInv, CountersExact, Recount, CountOf, WithStatus
    <2>3. \A w \in Workers : FullStage(tx[w])'
      BY <1>5, SameSeatsShift DEF txVars, FullInv, FullStage
    <2> QED
      BY <1>1, <2>1, <2>2, <2>3 DEF FullInv
  <1> QED
    BY <1>2, <1>3, <1>4, <1>5 DEF TxNext

LEMMA FullInvAlways ==
  ASSUME "segment" \notin Modes
  PROVE  TxSpec => []FullInv
  <1>1. FullInv /\ [TxNext]_txVars => FullInv'
    BY FullInvNext
  <1> QED
    BY <1>1, FullInvInit, PTL DEF TxSpec

\* The counters are exact although the full-journey paths add to whatever the
\* schedule row holds when they commit: a sum made by the database, and never
\* one made from a count that was read before.
THEOREM FullJourneyCounters ==
  ASSUME "segment" \notin Modes
  PROVE  TxSpec => []CountersExact
  <1>1. FullInv => CountersExact
    BY DEF FullInv
  <1> QED
    BY <1>1, FullInvAlways, PTL

\* A full-journey request that has seen an ACTIVE schedule cannot bring a
\* cancelled one back: it holds its seats, and the cancellation waits for them.
THEOREM CancelledStaysFinal ==
  ASSUME "segment" \notin Modes
  PROVE  TxSpec => []CancelledIsFinal
  <1>1. FullInv => CancelledIsFinal
    BY DEF FullInv
  <1> QED
    BY <1>1, FullInvAlways, PTL

-----------------------------------------------------------------------------
(* They implement SeatReservation with the seat rows alone *)

Taken == WithStatus(seats, "LOCKED") \cup WithStatus(seats, "BOOKED")

SeatClaim(s) ==
  [seat |-> s, seg |-> Reservation!WholeJourney, owner |-> seats[s].lockedBy,
   booking |-> IF seats[s].status = "BOOKED" THEN seats[s].bookingId ELSE NoBooking]

AllClaims == {SeatClaim(s) : s \in Taken}

\* Those of the seats of a request, and those of the others.
ClaimsOn(S) == {SeatClaim(s) : s \in Taken \cap S}
ClaimsOff(S) == {SeatClaim(s) : s \in Taken \ S}

\* Without segment rows the claims are those of the taken seats.
LEMMA OnlyWholeClaims == segLocks = {} => Claims = AllClaims
  <1> SUFFICES ASSUME segLocks = {} PROVE Claims = AllClaims
    OBVIOUS
  <1>1. TakenWhole = Taken
    BY DEF TakenWhole, Taken, RowsOf
  <1>2. SegmentClaims = {}
    BY DEF SegmentClaims
  <1> QED
    BY <1>1, <1>2 DEF Claims, WholeClaims, AllClaims, SeatClaim, Reservation!WholeJourney

LEMMA OnlyWholeClaimsNext == (segLocks = {})' => (Claims = AllClaims)'
  BY OnlyWholeClaims, PTL

\* Seats that stay keep their claims: what a commit does to the claims is what
\* it does to the seats of its request.
LEMMA ClaimsMove ==
  ASSUME NEW S \in SUBSET Seats, \A s \in Seats \ S : seats'[s] = seats[s]
  PROVE  /\ AllClaims = ClaimsOff(S) \cup ClaimsOn(S)
         /\ AllClaims' = ClaimsOff(S) \cup ClaimsOn(S)'
         /\ \A c \in ClaimsOff(S) : c.seat \notin S
         /\ \A c \in ClaimsOn(S) : c.seat \in S
  <1>1. \A s \in Taken \ S : SeatClaim(s)' = SeatClaim(s)
    BY DEF SeatClaim, Taken, WithStatus, Reservation!WholeJourney
  <1>2. Taken' \ S = Taken \ S
    BY DEF Taken, WithStatus
  <1>3. ClaimsOff(S)' = ClaimsOff(S)
    BY <1>1, <1>2 DEF AllClaims, ClaimsOn, ClaimsOff
  <1>4. AllClaims' = ClaimsOff(S)' \cup ClaimsOn(S)'
    BY DEF AllClaims, ClaimsOn, ClaimsOff
  <1> QED
    BY <1>3, <1>4 DEF AllClaims, ClaimsOn, ClaimsOff, SeatClaim

LEMMA OneRowEach ==
  ASSUME NEW S, NEW g, NEW u, NEW c
  PROVE  c \in [seat : S, seg : {g}, owner : {u}, booking : {NoBooking}] <=>
           \E s \in S : c = [seat |-> s, seg |-> g, owner |-> u, booking |-> NoBooking]
  <1>1. ASSUME c \in [seat : S, seg : {g}, owner : {u}, booking : {NoBooking}]
        PROVE  c = [seat |-> c.seat, seg |-> g, owner |-> u, booking |-> NoBooking]
    BY <1>1
  <1> QED
    BY <1>1

LEMMA LockIsHoldWhole ==
  ASSUME segLocks = {}, segLocks' = {}, NEW u \in Users, NEW S \in SUBSET Seats,
         \A s \in Seats \ S : seats'[s] = seats[s], Locks(u, S)
  PROVE  Reservation!Hold(u, S, Reservation!WholeJourney)
  <1> DEFINE g == Reservation!WholeJourney
  <1>1. Claims = AllClaims /\ Claims' = AllClaims'
    BY OnlyWholeClaims, OnlyWholeClaimsNext
  <1>2. Taken \cap S = {} /\ Taken' \cap S = S
    BY SeatsMove DEF Taken, WithStatus
  <1>3. Claims = ClaimsOff(S) /\ \A c \in Claims : c.seat \notin S
    BY <1>1, <1>2, ClaimsMove DEF AllClaims, ClaimsOn, ClaimsOff
  <1>4. \A s \in S : SeatClaim(s)' = [seat |-> s, seg |-> g, owner |-> u, booking |-> NoBooking]
    BY SeatFields DEF Locks, SeatClaim, Reservation!WholeJourney
  <1>5. ClaimsOn(S)' = [seat : S, seg : {g}, owner : {u}, booking : {NoBooking}]
    <2>1. ClaimsOn(S)' =
            {[seat |-> s, seg |-> g, owner |-> u, booking |-> NoBooking] : s \in S}
      BY <1>2, <1>4 DEF AllClaims, ClaimsOn, ClaimsOff
    <2> HIDE DEF g
    <2>2. \A c : c \in [seat : S, seg : {g}, owner : {u}, booking : {NoBooking}] <=>
            \E s \in S : c = [seat |-> s, seg |-> g, owner |-> u, booking |-> NoBooking]
      BY OneRowEach
    <2> QED
      BY <2>1, <2>2
  <1>6. Claims' = Claims \cup [seat : S, seg : {g}, owner : {u}, booking : {NoBooking}]
    BY <1>1, <1>3, <1>5, ClaimsMove
  <1> QED
    BY <1>3, <1>6 DEF Reservation!Hold, Claims

\* The claims of seats that are all locked by u are the held ones of u.
LEMMA HeldSeatClaims ==
  ASSUME NEW u, NEW S \in SUBSET Seats, AllLockedBy(u, S)
  PROVE  /\ Taken \cap S = S
         /\ \A s \in S :
              SeatClaim(s) = [seat |-> s, seg |-> Reservation!WholeJourney, owner |-> u,
                              booking |-> NoBooking]
  BY DEF AllLockedBy, Taken, WithStatus, SeatClaim

LEMMA HeldByWhole ==
  ASSUME segLocks = {}, NEW u \in Users, NEW S \in SUBSET Seats, AllLockedBy(u, S),
         \A s \in Seats \ S : seats'[s] = seats[s]
  PROVE  /\ Reservation!HeldBy(u, S, Reservation!WholeJourney) = ClaimsOn(S)
         /\ Claims \ ClaimsOn(S) = ClaimsOff(S)
  <1>1. Claims = AllClaims
    BY OnlyWholeClaims
  <1>2. Claims = ClaimsOff(S) \cup ClaimsOn(S)
    BY <1>1, HeldSeatClaims, ClaimsMove
  <1>3. /\ \A c \in ClaimsOff(S) : c.seat \notin S
        /\ \A c \in ClaimsOn(S) : /\ c.seat \in S /\ c.owner = u
                                    /\ c.seg = Reservation!WholeJourney
                                    /\ c.booking = NoBooking
    BY HeldSeatClaims, ClaimsMove DEF AllClaims, ClaimsOn, ClaimsOff
  <1> QED
    BY <1>2, <1>3 DEF Reservation!HeldBy, Claims

LEMMA UnlockIsReleaseWhole ==
  ASSUME segLocks = {}, segLocks' = {}, NEW u \in Users, NEW S \in SUBSET Seats,
         \A s \in Seats \ S : seats'[s] = seats[s], Unlocks(u, S)
  PROVE  Reservation!Release(u, S, Reservation!WholeJourney)
  <1>1. Claims' = AllClaims'
    BY OnlyWholeClaimsNext
  <1>2. Taken' \cap S = {}
    BY SeatsMove DEF Taken, WithStatus
  <1>3. ClaimsOn(S)' = {}
    BY <1>2 DEF AllClaims, ClaimsOn, ClaimsOff
  <1>4. Claims' = ClaimsOff(S)
    <2>1. AllClaims' = ClaimsOff(S) \cup ClaimsOn(S)'
      BY ClaimsMove
    <2> QED
      BY <1>1, <1>3, <2>1
  <1> QED
    BY <1>4, HeldByWhole DEF Unlocks, Reservation!Release, Claims

LEMMA ConfirmIsSellWhole ==
  ASSUME segLocks = {}, segLocks' = {}, NEW u \in Users, NEW S \in SUBSET Seats,
         NEW b \in Bookings,
         \A s \in Seats \ S : seats'[s] = seats[s], Confirms(u, S, b)
  PROVE  Reservation!Sell(u, S, Reservation!WholeJourney, b)
  <1>1. Claims' = AllClaims'
    BY OnlyWholeClaimsNext
  <1>2. Taken' \cap S = S /\ AllLockedBy(u, S)
    BY SeatsMove DEF Taken, WithStatus, Confirms
  <1>3. \A s \in S : SeatClaim(s)' = [SeatClaim(s) EXCEPT !.booking = b]
    <2>1. \A s \in S :
            SeatClaim(s)' = [seat |-> s, seg |-> Reservation!WholeJourney, owner |-> u,
                             booking |-> b]
      BY <1>2, SeatFields DEF Confirms, AllLockedBy, SeatClaim, Reservation!WholeJourney
    <2> QED
      BY <1>2, <2>1, HeldSeatClaims
  <1>4. ClaimsOn(S)' = {[c EXCEPT !.booking = b] : c \in ClaimsOn(S)}
    <2>1. ClaimsOn(S)' = {[SeatClaim(s) EXCEPT !.booking = b] : s \in S}
      BY <1>2, <1>3 DEF ClaimsOn
    <2>2. ClaimsOn(S) = {SeatClaim(s) : s \in S}
      BY <1>2, HeldSeatClaims DEF ClaimsOn
    <2> QED
      BY <2>1, <2>2
  <1>5. Claims' = ClaimsOff(S) \cup {[c EXCEPT !.booking = b] : c \in ClaimsOn(S)}
    BY <1>1, <1>4, ClaimsMove
  <1> QED
    BY <1>2, <1>5, HeldByWhole DEF Reservation!Sell, Claims

LEMMA CancelIsCancelSaleWhole ==
  ASSUME segLocks = {}, segLocks' = {}, NEW b \in Bookings, NEW S \in SUBSET Seats,
         \A s \in Seats \ S : seats'[s] = seats[s], Cancels(b, S)
  PROVE  Reservation!CancelSale(b)
  <1>1. Claims = AllClaims /\ Claims' = AllClaims'
    BY OnlyWholeClaims, OnlyWholeClaimsNext
  <1>2. Taken' \cap S = {}
    BY SeatsMove DEF Taken, WithStatus
  <1>3. ClaimsOn(S)' = {}
    BY <1>2 DEF AllClaims, ClaimsOn, ClaimsOff
  <1>4. Claims' = ClaimsOff(S)
    <2>1. AllClaims' = ClaimsOff(S) \cup ClaimsOn(S)'
      BY ClaimsMove
    <2> QED
      BY <1>1, <1>3, <2>1
  <1>5. \A s \in Taken : SeatClaim(s).booking = b <=> s \in S
    BY NullAssumption DEF Cancels, BookedSeats, SeatClaim, Taken, WithStatus
  <1>6. Claims' = {c \in Claims : c.booking # b}
    BY <1>1, <1>4, <1>5 DEF AllClaims, ClaimsOn, ClaimsOff
  <1> QED
    BY <1>6 DEF Reservation!CancelSale, Claims

LEMMA WholeIsStretch == Reservation!WholeJourney \in Reservation!Stretch
  BY DEF Reservation!Stretch

LEMMA ShiftRefines ==
  ASSUME FullInv, FullInv', NEW w \in Workers, CommitShift(w)
  PROVE  Reservation!ReservationNext
  <1>1. segLocks = {} /\ segLocks' = {}
    BY DEF FullInv
  <1>2. PICK S \in SUBSET Seats :
          /\ \A s \in Seats \ S : seats'[s] = seats[s]
          /\ \/ \E u \in Users : Locks(u, S)
             \/ \E u \in Users : Unlocks(u, S)
             \/ Sells(w) \in Bookings /\ \E u \in Users : Confirms(u, S, Sells(w))
             \/ Frees(w) \in Bookings /\ Cancels(Frees(w), S)
    BY CommitShiftEffect
  <1>3. ASSUME NEW u \in Users, Locks(u, S)
        PROVE  Reservation!ReservationNext
    BY <1>1, <1>2, <1>3, LockIsHoldWhole, WholeIsStretch DEF Reservation!ReservationNext
  <1>4. ASSUME NEW u \in Users, Unlocks(u, S)
        PROVE  Reservation!ReservationNext
    BY <1>1, <1>2, <1>4, UnlockIsReleaseWhole, WholeIsStretch DEF Reservation!ReservationNext
  <1>5. ASSUME NEW u \in Users, NEW b \in Bookings, Confirms(u, S, b)
        PROVE  Reservation!ReservationNext
    BY <1>1, <1>2, <1>5, ConfirmIsSellWhole, WholeIsStretch DEF Reservation!ReservationNext
  <1>6. ASSUME NEW b \in Bookings, Cancels(b, S)
        PROVE  Reservation!ReservationNext
    BY <1>1, <1>2, <1>6, CancelIsCancelSaleWhole DEF Reservation!ReservationNext
  <1> QED
    BY <1>2, <1>3, <1>4, <1>5, <1>6

\* The cancellation of the schedule ends every claim, its creation none.
LEMMA EventRefines ==
  ASSUME FullInv, FullInv', CreateSeats \/ CancelSeats
  PROVE  Reservation!ReservationNext \/ Claims' = Claims
  <1>1. Claims = AllClaims /\ Claims' = AllClaims'
    BY OnlyWholeClaims, OnlyWholeClaimsNext DEF FullInv
  <1>2. CASE CreateSeats
    <2>1. Taken = {} /\ Taken' = {}
      BY <1>2 DEF CreateSeats, InitializeInventory, FullInv, NoSeatsBefore, Taken, WithStatus,
                  FreeSeat, Seat
    <2> QED
      BY <1>1, <2>1 DEF AllClaims
  <1>3. CASE CancelSeats
    <2>1. Taken' = {}
      BY <1>3 DEF CancelSeats, CancelScheduleInventory, FullInv, TxInv, TxTypeOK, TypeOK,
                  SeatRow, Taken, WithStatus
    <2>2. Claims' = {}
      BY <1>1, <2>1 DEF AllClaims
    <2>3. \A c \in Claims : c.seg = Reservation!WholeJourney
      BY <1>1 DEF AllClaims, SeatClaim
    <2>4. Reservation!VoidWholeJourneys
      BY <2>2, <2>3 DEF Reservation!VoidWholeJourneys, Claims
    <2> QED
      BY <2>4 DEF Reservation!ReservationNext
  <1> QED
    BY <1>2, <1>3

LEMMA FullStepRefines ==
  ASSUME "segment" \notin Modes, FullInv, FullInv', [TxNext]_txVars
  PROVE  Reservation!ReservationNext \/ Claims' = Claims
  <1>1. ASSUME seats' = seats
        PROVE  Claims' = Claims
    <2>1. Claims = AllClaims /\ Claims' = AllClaims'
      BY OnlyWholeClaims, OnlyWholeClaimsNext DEF FullInv
    <2> QED
      BY <1>1, <2>1 DEF AllClaims, SeatClaim, Taken, WithStatus, Reservation!WholeJourney
  <1>2. ASSUME NEW w \in Workers, NEW t, Step(w, t) PROVE seats' = seats
    BY <1>2 DEF Step, invVars
  <1>3. ASSUME NEW w \in Workers, Begin(w) PROVE seats' = seats
    <2>1. ASSUME NEW u, NEW S, NEW g, BeginLock(w, u, S, g) PROVE seats' = seats
      BY <1>2, <2>1 DEF BeginLock
    <2>2. ASSUME NEW u, NEW S, NEW g, TakeUnlock(w, u, S, g) PROVE seats' = seats
      BY <1>2, <2>2 DEF TakeUnlock, TakeSegment, TakeFull
    <2>3. ASSUME NEW u, NEW S, NEW g, NEW b, TakeConfirm(w, u, S, g, b) PROVE seats' = seats
      BY <1>2, <2>3 DEF TakeConfirm, TakeSegment, TakeFull
    <2>4. ASSUME NEW b, CancelFind(w, b) PROVE seats' = seats
      BY <1>2, <2>4 DEF CancelFind
    <2> QED
      BY <1>3, <2>1, <2>2, <2>3, <2>4 DEF Begin
  <1>4. ASSUME NEW w \in Workers, Continue(w), ~CommitShift(w), ~CommitCounts(w)
        PROVE  seats' = seats
    <2>1. CASE TakeLock(w) \/ CancelDelete(w) \/ ReadRows(w) \/ RecountSeats(w) \/ Abort(w)
      BY <1>2, <2>1
      DEF TakeLock, TakeSegment, TakeFull, CancelDelete, ReadRows, RecountSeats, Abort
    <2>2. CASE WriteSeat(w) \/ CancelTakeFull(w)
      BY <1>2, <2>2 DEF WriteSeat, CancelTakeFull, TakeFull
    <2> QED
      BY <1>4, <2>1, <2>2 DEF Continue
  <1>5. ASSUME NEW w \in Workers, CommitCounts(w) PROVE FALSE
    BY <1>5 DEF FullInv, FullStage, CommitCounts
  <1>6. CASE UNCHANGED txVars
    BY <1>6, <1>1 DEF txVars
  <1> QED
    BY <1>1, <1>3, <1>4, <1>5, <1>6, ShiftRefines, EventRefines DEF TxNext

\* Callers that never name a segment get what SeatReservation promises from the
\* seat rows alone, however their transactions overlap: each commit is one
\* hold, release, sale or cancellation of whole journeys.
THEOREM FullJourneysReserve ==
  ASSUME "segment" \notin Modes
  PROVE  TxSpec => ImplementsReservation
  <1>1. FullInv /\ TxInit => Reservation!ReservationInit
    <2> SUFFICES ASSUME FullInv, TxInit PROVE Claims = {}
      BY DEF Reservation!ReservationInit, Claims
    <2>1. Taken = {}
      BY DEF TxInit, Init, Taken, WithStatus, Seat
    <2> QED
      BY <2>1, OnlyWholeClaims DEF FullInv, AllClaims
  <1>2. FullInv /\ FullInv' /\ [TxNext]_txVars =>
          [Reservation!ReservationNext]_(SegmentClaims \cup WholeClaims)
    BY FullStepRefines DEF Claims
  <1> QED
    BY <1>1, <1>2, FullInvInit, FullInvAlways, PTL
    DEF TxSpec, ImplementsReservation, Reservation!ReservationSpec
=============================================================================
