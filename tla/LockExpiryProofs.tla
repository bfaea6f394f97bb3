--------------------------- MODULE LockExpiryProofs ---------------------------
(***************************************************************************)
(* Theorems about LockExpiry: what the clean-up job can and cannot do to   *)
(* the rows of requests that run between its statements, for any seats,    *)
(* users, lifetimes and both request paths.                                *)
(***************************************************************************)
EXTENDS LockExpiry, InventoryProofs

-----------------------------------------------------------------------------
(* What every state satisfies *)

JobState ==
  [pc : JobPCs, rows : SUBSET Keys, seats : SUBSET Seats,
   counts : [available : Int, locked : Int, booked : Int], seen : SUBSET SegmentLock]

\* A row in the job's list is still there and, if it is still LOCKED, it is the
\* row the job has read: its deadline has passed.
ListedAreExpired ==
  \A k \in job.rows :
    /\ \E r \in segLocks : Key(r) = k
    /\ k \in LockedKeys(segLocks) => rowDeadline[k] < now

ExpiryInv ==
  /\ ExpiryTypeOK
  /\ job \in JobState
  /\ ListedAreExpired
  /\ NoOverlappingSegments

-----------------------------------------------------------------------------
(* Rows and deadlines *)

LEMMA JobType ==
  ASSUME NEW pc \in JobPCs, NEW rows \in SUBSET Keys, NEW listed \in SUBSET Seats,
         NEW counts \in [available : Int, locked : Int, booked : Int]
  PROVE  /\ Job(pc, rows, listed, counts) \in JobState
         /\ Job(pc, rows, listed, counts).rows = rows
         /\ Job(pc, rows, listed, counts).seats = listed
BY DEF Job, JobState

LEMMA NoCountsType == NoCounts \in [available : Int, locked : Int, booked : Int]
BY DEF NoCounts

LEMMA NoJobType == NoJob \in JobState /\ NoJob.rows = {}
BY JobType, NoCountsType DEF NoJob, JobPCs

LEMMA KeyOfRow ==
  ASSUME NEW r \in SegmentLock
  PROVE  Key(r) \in Keys /\ Key(r)[1] = r.seat /\ Key(r)[2] = r.seg
BY DEF Key, Keys, SegmentLock

LEMMA LockedKeysType ==
  ASSUME TypeOK
  PROVE  LockedKeys(segLocks) \in SUBSET Keys
BY KeyOfRow DEF LockedKeys, TypeOK

\* A transaction that adds no LOCKED row keeps the deadlines of those that stay,
\* and the job's list loses the rows that go.
LEMMA DropKeeps ==
  ASSUME ExpiryInv, TypeOK', NoOverlappingSegments', UNCHANGED now,
         NEW S \in SUBSET Seats, Drop(S),
         \A r \in segLocks' : r.status = "LOCKED" => r \in segLocks
  PROVE  ExpiryInv'
<1>1. LockedKeys(segLocks)' \subseteq LockedKeys(segLocks)
  BY DEF LockedKeys
<1>2. /\ rowDeadline' = [k \in LockedKeys(segLocks)' |-> rowDeadline[k]]
      /\ rowDeadline \in [LockedKeys(segLocks) -> Nat]
  BY DEF Drop, KeepRows, LockedKeys, ExpiryInv, ExpiryTypeOK
<1>3. rowDeadline' \in [LockedKeys(segLocks)' -> Nat]
  BY <1>1, <1>2
<1>4. seatDeadline' \in [Seats -> Nat \cup {Never}]
  BY DEF Drop, Cleared, ExpiryInv, ExpiryTypeOK
<1>5. job' = [job EXCEPT !.rows = Surviving] /\ job \in JobState /\ Surviving \subseteq Keys
  BY DEF Drop, Surviving, ExpiryInv, JobState
<1>6. job' \in JobState /\ job'.rows = Surviving
  BY <1>5 DEF JobState
<1>7. ListedAreExpired'
  <2> SUFFICES ASSUME NEW k \in Surviving
               PROVE  /\ \E r \in segLocks' : Key(r) = k
                      /\ k \in LockedKeys(segLocks)' => rowDeadline'[k] < now'
    BY <1>6 DEF ListedAreExpired, Key
  <2>1. k \in job.rows /\ \E r \in segLocks' : Key(r) = k
    BY DEF Surviving
  <2>2. k \in LockedKeys(segLocks) => rowDeadline[k] < now
    BY <2>1 DEF ExpiryInv, ListedAreExpired
  <2>3. QED
    BY <1>1, <1>2, <2>1, <2>2
<1>8. ExpiryTypeOK'
  BY <1>3, <1>4, <1>6 DEF ExpiryTypeOK, ExpiryInv, JobState
<1>9. QED
  BY <1>6, <1>7, <1>8 DEF ExpiryInv

\* A lock adds rows for stretches no row had, so that none is in the job's list.
LEMMA LockForKeeps ==
  ASSUME ExpiryInv, NEW u \in Users, NEW S \in SUBSET Seats, NEW g \in Segments,
         NEW ttl \in Ttls, LockFor(u, S, g, ttl), UNCHANGED now
  PROVE  ExpiryInv'
<1>1. TypeOK' /\ NoOverlappingSegments'
  <2>1. SegmentRequest
    BY DEF LockFor, SegmentRequest
  <2>2. QED
    BY <2>1, SegmentTypeOK, RequestNoOverlap DEF ExpiryInv, ExpiryTypeOK
<1>2. /\ segLocks' = segLocks \cup NewRows(u, S, g)
      /\ \A s \in S : ~ SegmentBlocked(s, g)
      /\ rowDeadline' = [k \in LockedKeys(segLocks)' |->
                           IF k[1] \in S /\ k[2] = g THEN now + ttl ELSE rowDeadline[k]]
      /\ UNCHANGED job
  BY DEF LockFor, LockSegment, LockedKeys, Key
<1>3. \A r \in NewRows(u, S, g) : r.seat \in S /\ r.seg = g
  BY DEF NewRows
<1>4. ASSUME NEW k \in LockedKeys(segLocks)', ~ (k[1] \in S /\ k[2] = g)
      PROVE  k \in LockedKeys(segLocks)
  <2>1. PICK r \in segLocks' : r.status = "LOCKED" /\ k = Key(r)
    BY DEF LockedKeys, Key
  <2>2. r \in segLocks
    BY <1>2, <1>3, <1>4, <2>1 DEF Key
  <2>3. QED
    BY <2>1, <2>2 DEF LockedKeys
<1>5. rowDeadline' \in [LockedKeys(segLocks)' -> Nat]
  <2>1. now + ttl \in Nat /\ rowDeadline \in [LockedKeys(segLocks) -> Nat]
    BY TtlsAssumption DEF ExpiryInv, ExpiryTypeOK
  <2>2. QED
    BY <1>2, <1>4, <2>1
<1>6. seatDeadline' \in [Seats -> Nat \cup {Never}]
  <2>1. now + ttl \in Nat
    BY TtlsAssumption DEF ExpiryInv, ExpiryTypeOK
  <2>2. QED
    BY <2>1 DEF LockFor, ExpiryInv, ExpiryTypeOK
<1>7. ListedAreExpired'
  <2> SUFFICES ASSUME NEW k \in job.rows
               PROVE  /\ \E r \in segLocks' : Key(r) = k
                      /\ k \in LockedKeys(segLocks)' => rowDeadline'[k] < now'
    BY <1>2 DEF ListedAreExpired, Key
  <2>1. PICK r \in segLocks : Key(r) = k
    BY DEF ExpiryInv, ListedAreExpired
  <2>2. r \in SegmentLock
    BY DEF ExpiryInv, ExpiryTypeOK, TypeOK
  <2>3. ~ (k[1] \in S /\ k[2] = g)
    BY <1>2, <2>1, <2>2 DEF Key, SegmentBlocked, Overlap, Segments, SegmentLock
  <2>4. k \in LockedKeys(segLocks)' => k \in LockedKeys(segLocks)
    BY <1>4, <2>3
  <2>5. k \in LockedKeys(segLocks) => rowDeadline[k] < now
    BY DEF ExpiryInv, ListedAreExpired
  <2>6. QED
    BY <1>2, <2>1, <2>3, <2>4, <2>5
<1>8. ExpiryTypeOK'
  BY <1>1, <1>2, <1>5, <1>6 DEF ExpiryTypeOK, ExpiryInv
<1>9. QED
  BY <1>1, <1>2, <1>7, <1>8 DEF ExpiryInv

\* Transactions that touch no segment row.
LEMMA SeatsOnlyKeeps ==
  ASSUME ExpiryInv, TypeOK', UNCHANGED <<segLocks, rowDeadline, now>>,
         seatDeadline' \in [Seats -> Nat \cup {Never}],
         job' \in JobState, job'.rows = {} \/ job' = job
  PROVE  ExpiryInv'
<1>1. LockedKeys(segLocks)' = LockedKeys(segLocks)
  BY DEF LockedKeys, Key
<1>2. ListedAreExpired'
  BY <1>1 DEF ListedAreExpired, ExpiryInv, Key
<1>3. NoOverlappingSegments'
  BY DEF NoOverlappingSegments, ExpiryInv, Overlap
<1>4. ExpiryTypeOK'
  BY <1>1 DEF ExpiryTypeOK, ExpiryInv, JobState
<1>5. QED
  BY <1>2, <1>3, <1>4 DEF ExpiryInv

LEMMA LockFullForKeeps ==
  ASSUME ExpiryInv, NEW u \in Users, NEW S \in SUBSET Seats, NEW ttl \in Ttls,
         LockFullFor(u, S, ttl), UNCHANGED now
  PROVE  ExpiryInv'
<1>1. TypeOK'
  <2>1. FullRequest
    BY DEF LockFullFor, FullRequest
  <2>2. QED
    BY <2>1, FullTypeOK DEF ExpiryInv, ExpiryTypeOK
<1>2. now + ttl \in Nat
  BY TtlsAssumption DEF ExpiryInv, ExpiryTypeOK
<1>3. seatDeadline' \in [Seats -> Nat \cup {Never}]
  BY <1>2 DEF LockFullFor, ExpiryInv, ExpiryTypeOK
<1>4. UNCHANGED <<segLocks, rowDeadline, job>> /\ job \in JobState
  BY DEF LockFullFor, LockFull, ExpiryInv
<1>5. QED
  BY <1>1, <1>3, <1>4, SeatsOnlyKeeps

LEMMA RequestKeeps ==
  ASSUME ExpiryInv, Request
  PROVE  ExpiryInv'
<1> USE DEF ExpiryInv
<1>1. TypeOK /\ UNCHANGED now
  BY DEF Request, ExpiryTypeOK
<1>2. ASSUME NEW u \in Users, NEW S \in SUBSET Seats, NEW g \in Segments,
             UnlockSegment(u, S, g) /\ Drop({})
      PROVE  ExpiryInv'
  <2>1. SegmentRequest
    BY <1>2 DEF SegmentRequest
  <2>2. segLocks' \subseteq segLocks
    BY <1>2 DEF UnlockSegment
  <2>3. TypeOK' /\ NoOverlappingSegments'
    BY <1>1, <2>1, SegmentTypeOK, RequestNoOverlap
  <2>4. QED
    BY <1>1, <1>2, <2>2, <2>3, DropKeeps
<1>3. ASSUME NEW u \in Users, NEW S \in SUBSET Seats, NEW g \in Segments, NEW b \in Bookings,
             ConfirmSegment(u, S, g, b) /\ Drop({})
      PROVE  ExpiryInv'
  <2>1. SegmentRequest
    BY <1>3 DEF SegmentRequest
  <2>2. \A r \in SoldRows(u, S, g, b) : r.status = "BOOKED"
    BY <1>1, SoldRowFields
  <2>3. \A r \in segLocks' : r.status = "LOCKED" => r \in segLocks
    BY <1>3, <2>2 DEF ConfirmSegment
  <2>4. TypeOK' /\ NoOverlappingSegments'
    BY <1>1, <2>1, SegmentTypeOK, RequestNoOverlap
  <2>5. QED
    BY <1>1, <1>3, <2>3, <2>4, DropKeeps
<1>4. ASSUME NEW S \in SUBSET Seats, Drop(S), TypeOK', segLocks' \subseteq segLocks
      PROVE  ExpiryInv'
  BY <1>1, <1>4, FewerRowsNoOverlap, DropKeeps
<1>5. ASSUME NEW u \in Users, NEW S \in SUBSET Seats,
             \/ UnlockFull(u, S) /\ Drop(S)
             \/ \E b \in Bookings : ConfirmFull(u, S, b) /\ Drop(S)
      PROVE  ExpiryInv'
  <2>1. FullRequest
    BY <1>5 DEF FullRequest
  <2>2. TypeOK' /\ segLocks' \subseteq segLocks
    BY <1>1, <1>5, <2>1, FullTypeOK DEF UnlockFull, ConfirmFull
  <2>3. QED
    BY <1>4, <1>5, <2>2
<1>6. ASSUME CancelRequest \/ InitializeInventory \/ CancelScheduleInventory, Drop({})
      PROVE  ExpiryInv'
  <2>1. Next
    BY <1>6 DEF Next
  <2>2. TypeOK'
    BY <1>1, <2>1, NextTypeOK
  <2>3. segLocks' \subseteq segLocks
    BY <1>6 DEF CancelRequest, CancelSegmentBooking, CancelFullBooking,
                InitializeInventory, CancelScheduleInventory
  <2>4. QED
    BY <1>4, <1>6, <2>2, <2>3
<1>7. CASE SegmentCall
  BY <1>1, <1>2, <1>3, <1>7, LockForKeeps DEF SegmentCall
<1>8. CASE FullCall
  BY <1>1, <1>5, <1>8, LockFullForKeeps DEF FullCall
<1>9. QED
  BY <1>6, <1>7, <1>8 DEF Request

-----------------------------------------------------------------------------
(* The job *)

\* A statement that only reads.
LEMMA ReadsKeeps ==
  ASSUME ExpiryInv, NEW j \in JobState, j.rows = {}, Reads(j)
  PROVE  ExpiryInv'
<1>1. TypeOK'
  BY DEF Reads, invVars, ExpiryInv, ExpiryTypeOK, TypeOK
<1>2. seatDeadline' \in [Seats -> Nat \cup {Never}]
  BY DEF Reads, ExpiryInv, ExpiryTypeOK
<1>3. UNCHANGED <<segLocks, rowDeadline, now>> /\ job' = j
  BY DEF Reads, invVars
<1>4. QED
  BY <1>1, <1>2, <1>3, SeatsOnlyKeeps

LEMMA FindRowsKeeps ==
  ASSUME ExpiryInv, FindRows
  PROVE  ExpiryInv'
<1>1. CASE ExpiredKeys = {}
  <2>1. Reads(Job("findSeats", {}, {}, NoCounts))
    BY <1>1 DEF FindRows
  <2>2. Job("findSeats", {}, {}, NoCounts) \in JobState
        /\ Job("findSeats", {}, {}, NoCounts).rows = {}
    BY JobType, NoCountsType DEF JobPCs
  <2>3. QED
    BY <2>1, <2>2, ReadsKeeps
<1>2. CASE ExpiredKeys # {}
  <2>1. Reads(Job("delete", ExpiredKeys, {k[1] : k \in ExpiredKeys}, NoCounts))
    BY <1>2 DEF FindRows
  <2>2. ExpiredKeys \in SUBSET Keys
    BY LockedKeysType DEF ExpiredKeys, ExpiryInv, ExpiryTypeOK
  <2>3. {k[1] : k \in ExpiredKeys} \in SUBSET Seats
    BY <2>2 DEF Keys
  <2>4. /\ Job("delete", ExpiredKeys, {k[1] : k \in ExpiredKeys}, NoCounts) \in JobState
        /\ Job("delete", ExpiredKeys, {k[1] : k \in ExpiredKeys}, NoCounts).rows = ExpiredKeys
    BY <2>2, <2>3, JobType, NoCountsType DEF JobPCs
  <2>5. /\ job' \in JobState /\ job'.rows = ExpiredKeys
        /\ UNCHANGED <<schedule, seats, segLocks, processed, now, rowDeadline, seatDeadline>>
    BY <2>1, <2>4 DEF Reads, invVars
  <2>6. LockedKeys(segLocks)' = LockedKeys(segLocks)
    BY <2>5 DEF LockedKeys, Key
  <2>7. ListedAreExpired'
    BY <2>5, <2>6 DEF ListedAreExpired, ExpiredKeys, LockedKeys, Key
  <2>8. TypeOK' /\ NoOverlappingSegments'
    BY <2>5 DEF TypeOK, NoOverlappingSegments, Overlap, ExpiryInv, ExpiryTypeOK
  <2>9. ExpiryTypeOK'
    BY <2>5, <2>6, <2>8 DEF ExpiryInv, ExpiryTypeOK, JobState
  <2>10. QED
    BY <2>5, <2>7, <2>8, <2>9 DEF ExpiryInv
<1>3. QED
  BY <1>1, <1>2

LEMMA DeleteRowsKeeps ==
  ASSUME ExpiryInv, DeleteRows
  PROVE  ExpiryInv'
<1>1. segLocks' \subseteq segLocks
  BY DEF DeleteRows
<1>2. job.seats \in SUBSET Seats
  BY DEF ExpiryInv, JobState
<1>3. Job("recompute", {}, job.seats, NoCounts) \in JobState
      /\ Job("recompute", {}, job.seats, NoCounts).rows = {}
  BY <1>2, JobType, NoCountsType DEF JobPCs
<1>4. job' \in JobState /\ job'.rows = {}
  BY <1>3 DEF DeleteRows
<1>5. TypeOK' /\ NoOverlappingSegments'
  <2>1. NoOverlappingSegments'
    BY <1>1, FewerRowsNoOverlap DEF ExpiryInv
  <2>2. QED
    BY <1>1, <2>1 DEF DeleteRows, TypeOK, ExpiryInv, ExpiryTypeOK
<1>6. rowDeadline' \in [LockedKeys(segLocks)' -> Nat]
  <2>1. LockedKeys(segLocks)' \subseteq LockedKeys(segLocks)
    BY <1>1 DEF LockedKeys
  <2>2. /\ rowDeadline' = [k \in LockedKeys(segLocks)' |-> rowDeadline[k]]
        /\ rowDeadline \in [LockedKeys(segLocks) -> Nat]
    BY DEF DeleteRows, KeepRows, LockedKeys, Key, ExpiryInv, ExpiryTypeOK
  <2>3. QED
    BY <2>1, <2>2
<1>7. ListedAreExpired'
  BY <1>4 DEF ListedAreExpired
<1>8. ExpiryTypeOK'
  BY <1>4, <1>5, <1>6 DEF DeleteRows, ExpiryInv, ExpiryTypeOK, JobState
<1>9. QED
  BY <1>4, <1>5, <1>7, <1>8 DEF ExpiryInv

LEMMA ReadSeatRowsKeeps ==
  ASSUME ExpiryInv, ReadSeatRows
  PROVE  ExpiryInv'
<1> DEFINE seen == {r \in segLocks : r.seat \in job.seats}
           j    == Job("restate", {}, job.seats, NoCounts)
<1>1. seen \in SUBSET SegmentLock
  BY DEF ExpiryInv, ExpiryTypeOK, TypeOK
<1>2. j \in JobState /\ j.rows = {}
  <2>1. job.seats \in SUBSET Seats
    BY DEF ExpiryInv, JobState
  <2>2. QED
    BY <2>1, JobType, NoCountsType DEF JobPCs
<1>3. [j EXCEPT !.seen = seen] \in JobState /\ [j EXCEPT !.seen = seen].rows = {}
  BY <1>1, <1>2 DEF JobState
<1>4. Reads([j EXCEPT !.seen = seen])
  BY DEF ReadSeatRows
<1>5. QED
  BY <1>3, <1>4, ReadsKeeps

LEMMA RecomputeSeatsKeeps ==
  ASSUME ExpiryInv, RecomputeSeats
  PROVE  ExpiryInv'
<1>1. seats' \in [Seats -> SeatRow]
  BY RecomputeType DEF RecomputeSeats, ExpiryInv, ExpiryTypeOK, TypeOK
<1>2. TypeOK'
  BY <1>1 DEF RecomputeSeats, ExpiryInv, ExpiryTypeOK, TypeOK
<1>3. Job("countRows", {}, {}, NoCounts) \in JobState
      /\ Job("countRows", {}, {}, NoCounts).rows = {}
  BY JobType, NoCountsType DEF JobPCs
<1>4. seatDeadline' \in [Seats -> Nat \cup {Never}]
  BY DEF RecomputeSeats, Cleared, ExpiryInv, ExpiryTypeOK
<1>5. UNCHANGED <<segLocks, rowDeadline, now>> /\ job' \in JobState /\ job'.rows = {}
  BY <1>3 DEF RecomputeSeats
<1>6. QED
  BY <1>2, <1>4, <1>5, SeatsOnlyKeeps

LEMMA CountSeatsKeeps ==
  ASSUME ExpiryInv, CountSeats
  PROVE  ExpiryInv'
<1> DEFINE n == Recount(schedule, seats)
           counts == [available |-> n.available, locked |-> n.locked, booked |-> n.booked]
<1>1. n \in ScheduleRow
  BY RecountType DEF ExpiryInv, ExpiryTypeOK, TypeOK
<1>2. counts \in [available : Int, locked : Int, booked : Int]
  BY <1>1 DEF ScheduleRow
<1>3. PICK pc \in {"writeRows", "writeSeats"} : Reads(Job(pc, {}, {}, counts))
  BY DEF CountSeats
<1> HIDE DEF counts
<1>4. Job(pc, {}, {}, counts) \in JobState /\ Job(pc, {}, {}, counts).rows = {}
  BY <1>2, JobType DEF JobPCs
<1>5. QED
  BY <1>3, <1>4, ReadsKeeps

LEMMA WriteCountsKeeps ==
  ASSUME ExpiryInv, WriteCounts
  PROVE  ExpiryInv'
<1>1. job.counts \in [available : Int, locked : Int, booked : Int]
  BY DEF ExpiryInv, JobState
<1>2. schedule.status \in {"ABSENT", "ACTIVE", "CANCELLED"}
  BY DEF ExpiryInv, ExpiryTypeOK, TypeOK, ScheduleRow
<1>3. schedule' \in ScheduleRow
  BY <1>1, <1>2 DEF WriteCounts, ScheduleRow
<1>4. TypeOK'
  BY <1>3 DEF WriteCounts, ExpiryInv, ExpiryTypeOK, TypeOK
<1>5. Job("findSeats", {}, {}, NoCounts) \in JobState
      /\ Job("findSeats", {}, {}, NoCounts).rows = {}
  BY JobType, NoCountsType DEF JobPCs
<1>6. job' \in JobState /\ job'.rows = {}
  BY <1>5, NoJobType DEF WriteCounts
<1>7. UNCHANGED <<segLocks, rowDeadline, now, seatDeadline>>
  BY DEF WriteCounts
<1>8. seatDeadline' \in [Seats -> Nat \cup {Never}]
  BY <1>7 DEF ExpiryInv, ExpiryTypeOK
<1>9. QED
  BY <1>4, <1>6, <1>7, <1>8, SeatsOnlyKeeps

LEMMA FindSeatsKeeps ==
  ASSUME ExpiryInv, FindSeats
  PROVE  ExpiryInv'
<1>1. ExpiredSeats \in SUBSET Seats
  BY DEF ExpiredSeats, WithStatus
<1>2. Job("release", {}, ExpiredSeats, NoCounts) \in JobState
      /\ Job("release", {}, ExpiredSeats, NoCounts).rows = {}
  BY <1>1, JobType, NoCountsType DEF JobPCs
<1>3. CASE ExpiredSeats = {}
  BY <1>3, NoJobType, ReadsKeeps DEF FindSeats
<1>4. CASE ExpiredSeats # {}
  BY <1>2, <1>4, ReadsKeeps DEF FindSeats
<1>5. QED
  BY <1>3, <1>4

LEMMA ReleaseSeatsKeeps ==
  ASSUME ExpiryInv, ReleaseSeats
  PROVE  ExpiryInv'
<1>1. seats \in [Seats -> SeatRow]
  BY DEF ExpiryInv, ExpiryTypeOK, TypeOK
<1>2. seats' \in [Seats -> SeatRow]
  BY <1>1 DEF ReleaseSeats, Seat, SeatRow, SeatStatus
<1>3. TypeOK'
  BY <1>2 DEF ReleaseSeats, ExpiryInv, ExpiryTypeOK, TypeOK
<1>4. seatDeadline' \in [Seats -> Nat \cup {Never}]
  BY DEF ReleaseSeats, ExpiryInv, ExpiryTypeOK
<1>5. Job("countSeats", {}, {}, NoCounts) \in JobState
      /\ Job("countSeats", {}, {}, NoCounts).rows = {}
  BY JobType, NoCountsType DEF JobPCs
<1>6. UNCHANGED <<segLocks, rowDeadline, now>> /\ job' \in JobState /\ job'.rows = {}
  BY <1>5 DEF ReleaseSeats
<1>7. QED
  BY <1>3, <1>4, <1>6, SeatsOnlyKeeps

LEMMA JobFailsKeeps ==
  ASSUME ExpiryInv, JobFails
  PROVE  ExpiryInv'
<1>1. Job("findSeats", {}, {}, NoCounts) \in JobState
      /\ Job("findSeats", {}, {}, NoCounts).rows = {}
  BY JobType, NoCountsType DEF JobPCs
<1>2. Reads(Job("findSeats", {}, {}, NoCounts)) \/ Reads(NoJob)
  BY DEF JobFails
<1>3. QED
  BY <1>1, <1>2, NoJobType, ReadsKeeps

LEMMA TickKeeps ==
  ASSUME ExpiryInv, Tick
  PROVE  ExpiryInv'
<1>1. /\ now' = now + 1 /\ now \in Nat /\ now' \in 0..MaxTime
      /\ UNCHANGED <<schedule, seats, segLocks, processed, rowDeadline, seatDeadline, job>>
  BY MaxTimeAssumption DEF Tick, invVars, ExpiryInv, ExpiryTypeOK
<1>2. LockedKeys(segLocks)' = LockedKeys(segLocks)
  BY <1>1 DEF LockedKeys, Key
<1>3. ASSUME NEW k \in job.rows
      PROVE  /\ \E r \in segLocks : Key(r) = k
             /\ k \in LockedKeys(segLocks) => rowDeadline[k] < now'
  BY <1>1 DEF ExpiryInv, ExpiryTypeOK, ListedAreExpired
<1>4. ListedAreExpired'
  BY <1>1, <1>2, <1>3 DEF ListedAreExpired, Key
<1>5. TypeOK' /\ NoOverlappingSegments'
  BY <1>1 DEF TypeOK, NoOverlappingSegments, Overlap, ExpiryInv, ExpiryTypeOK
<1>6. ExpiryTypeOK'
  BY <1>1, <1>2, <1>5 DEF ExpiryInv, ExpiryTypeOK
<1>7. QED
  BY <1>1, <1>4, <1>5, <1>6 DEF ExpiryInv

LEMMA ExpiryStutter ==
  ASSUME ExpiryInv, UNCHANGED expVars
  PROVE  ExpiryInv'
<1>1. TypeOK' /\ UNCHANGED <<segLocks, rowDeadline, now, seatDeadline, job>>
  BY DEF expVars, TypeOK, ExpiryInv, ExpiryTypeOK
<1>2. seatDeadline' \in [Seats -> Nat \cup {Never}] /\ job' \in JobState
  BY <1>1 DEF ExpiryInv, ExpiryTypeOK
<1>3. QED
  BY <1>1, <1>2, SeatsOnlyKeeps

LEMMA ExpiryInitInv == ExpiryInit => ExpiryInv
<1> SUFFICES ASSUME ExpiryInit PROVE ExpiryInv
  OBVIOUS
<1>1. TypeOK /\ segLocks = {}
  BY InitTypeOK DEF ExpiryInit, Init
<1>2. LockedKeys(segLocks) = {}
  BY <1>1 DEF LockedKeys
<1>3. rowDeadline \in [LockedKeys(segLocks) -> Nat]
  BY <1>2 DEF ExpiryInit
<1>4. job \in JobState /\ job.rows = {}
  BY NoJobType DEF ExpiryInit
<1>5. ExpiryTypeOK
  BY <1>1, <1>3, <1>4, MaxTimeAssumption DEF ExpiryInit, ExpiryTypeOK, JobState
<1>6. QED
  BY <1>1, <1>4, <1>5 DEF ExpiryInv, ListedAreExpired, NoOverlappingSegments

LEMMA ExpiryStepInv == ExpiryInv /\ [ExpiryNext]_expVars => ExpiryInv'
BY RequestKeeps, TickKeeps, FindRowsKeeps, DeleteRowsKeeps, ReadSeatRowsKeeps,
   RecomputeSeatsKeeps, CountSeatsKeeps, WriteCountsKeeps, FindSeatsKeeps, ReleaseSeatsKeeps, JobFailsKeeps,
   ExpiryStutter DEF ExpiryNext, JobStep

LEMMA ExpiryAlways == ExpirySpec => []ExpiryInv
BY ExpiryInitInv, ExpiryStepInv, PTL DEF ExpirySpec

\* The rows, the deadlines and the job's list stay well formed: a row that is
\* LOCKED has a deadline, and no other has one.
THEOREM ExpiryTypeCorrect == ExpirySpec => []ExpiryTypeOK
<1>1. ExpiryInv => ExpiryTypeOK
  BY DEF ExpiryInv
<1>2. QED
  BY <1>1, ExpiryAlways, PTL

\* Also with the job running, a seat is never given twice for overlapping
\* stretches.
THEOREM NoDoubleBookingWithJob == ExpirySpec => []NoOverlappingSegments
<1>1. ExpiryInv => NoOverlappingSegments
  BY DEF ExpiryInv
<1>2. QED
  BY <1>1, ExpiryAlways, PTL

\* The job takes no row that is held and not expired, although requests run
\* between the statement that lists the rows and the one that deletes them.
THEOREM HeldLocksStay == ExpirySpec => HeldUntilDeadline
<1>1. ASSUME ExpiryInv, [ExpiryNext]_expVars
      PROVE  [DeleteRows => \A r \in segLocks \ segLocks' :
                r.status = "LOCKED" => rowDeadline[Key(r)] < now]_expVars
  <2> SUFFICES ASSUME DeleteRows, NEW r \in segLocks \ segLocks', r.status = "LOCKED"
               PROVE  rowDeadline[Key(r)] < now
    OBVIOUS
  <2>1. Key(r) \in job.rows
    BY DEF DeleteRows
  <2>2. Key(r) \in LockedKeys(segLocks)
    BY DEF LockedKeys
  <2>3. QED
    BY <1>1, <2>1, <2>2 DEF ExpiryInv, ListedAreExpired
<1>2. QED
  BY <1>1, ExpiryAlways, PTL DEF ExpirySpec, HeldUntilDeadline

================================================================================
