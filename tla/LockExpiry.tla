------------------------------ MODULE LockExpiry ------------------------------
(***************************************************************************)
(* Inventory with the deadlines of its locks and the clean-up job of       *)
(* src/utils/lockExpiry.js.                                                *)
(*                                                                         *)
(* Every statement of the job is a transaction of its own, so requests run *)
(* between them: what the job read may be old when it writes.  The job     *)
(* names segment rows by id, and a row that is deleted and locked again    *)
(* has a new id; rows are named here by seat and segment, so that          *)
(* listed rows leave the job's list when a request deletes them.           *)
(*                                                                         *)
(* The recompute is one transaction, which reads and locks one seat after   *)
(* the other; it is two steps here, in which the rows of all its seats are *)
(* read and all seats are locked and written.  A request that comes to a   *)
(* seat whose rows are still to be read could as well have come before.    *)
(*                                                                         *)
(* The module is the service with its job running.  At this commit         *)
(* startLockExpiryJob is exported but nothing calls it (README).           *)
(***************************************************************************)
EXTENDS Inventory

CONSTANTS
  Ttls,        \* lifetimes a lock request may ask for
  MaxTime      \* bound on the clock

ASSUME TtlsAssumption == Ttls \subseteq Nat \ {0} /\ Ttls # {}
ASSUME MaxTimeAssumption == MaxTime \in Nat

VARIABLES
  now,            \* the clock
  rowDeadline,    \* lockExpiresAt of the LOCKED segment rows
  seatDeadline,   \* lockExpiresAt of the seat rows
  job             \* where the job is and what it has read

expVars == <<schedule, seats, segLocks, processed, now, rowDeadline, seatDeadline, job>>

-----------------------------------------------------------------------------
Never == -1   \* the NULL of lockExpiresAt

Key(r) == <<r.seat, r.seg>>

LockedKeys(L) == {Key(r) : r \in {q \in L : q.status = "LOCKED"}}

Keys == Seats \X Segments

ExpiredKeys == {k \in LockedKeys(segLocks) : rowDeadline[k] < now}

ExpiredSeats ==
  {s \in WithStatus(seats, "LOCKED") : seatDeadline[s] # Never /\ seatDeadline[s] < now}

NoCounts == [available |-> 0, locked |-> 0, booked |-> 0]

\* What a phase of the job has listed and counted.
Job(pc, rows, listed, counts) ==
  [pc |-> pc, rows |-> rows, seats |-> listed, counts |-> counts, seen |-> {}]

NoJob == Job("idle", {}, {}, NoCounts)

JobPCs == {"idle", "delete", "recompute", "restate", "countRows", "writeRows",
           "findSeats", "release", "countSeats", "writeSeats"}

ExpiryTypeOK ==
  /\ TypeOK
  /\ now \in 0..MaxTime
  /\ rowDeadline \in [LockedKeys(segLocks) -> Nat]
  /\ seatDeadline \in [Seats -> Nat \cup {Never}]
  /\ job.pc \in JobPCs
  /\ job.rows \subseteq Keys
  /\ job.seats \subseteq Seats
  /\ job.seen \subseteq SegmentLock

-----------------------------------------------------------------------------
(* Requests: the actions of Inventory and what they do to the deadlines *)

\* A lock sets the deadline of its rows and of its seats.
LockFor(u, S, g, ttl) ==
  /\ LockSegment(u, S, g)
  /\ rowDeadline' = [k \in LockedKeys(segLocks') |->
                       IF k[1] \in S /\ k[2] = g THEN now + ttl ELSE rowDeadline[k]]
  /\ seatDeadline' = [s \in Seats |-> IF s \in S THEN now + ttl ELSE seatDeadline[s]]
  /\ UNCHANGED job

LockFullFor(u, S, ttl) ==
  /\ LockFull(u, S)
  /\ seatDeadline' = [s \in Seats |-> IF s \in S THEN now + ttl ELSE seatDeadline[s]]
  /\ UNCHANGED <<rowDeadline, job>>

\* Confirmed rows have no deadline; a seat that becomes AVAILABLE loses its own,
\* and so do the seats in S.
Cleared(S) ==
  [s \in Seats |->
     IF s \in S \/ (seats'[s].status = "AVAILABLE" /\ seats[s].status # "AVAILABLE")
     THEN Never ELSE seatDeadline[s]]

\* Mutant: a released row leaves its deadline behind.
KeepAllRows == UNCHANGED rowDeadline

KeepRows == rowDeadline' = [k \in LockedKeys(segLocks') |-> rowDeadline[k]]

\* Mutant: the job deletes by seat and segment, not by id.
ByName == job.rows

\* The ids in the job's list that still exist.
Surviving == {k \in job.rows : \E r \in segLocks' : Key(r) = k}

Drop(S) ==
  /\ KeepRows
  /\ seatDeadline' = Cleared(S)
  /\ job' = [job EXCEPT !.rows = Surviving]

SegmentCall ==
  \E u \in Users, S \in SUBSET Seats, g \in Segments :
    \/ \E ttl \in Ttls : LockFor(u, S, g, ttl)
    \/ UnlockSegment(u, S, g) /\ Drop({})
    \/ \E b \in Bookings : ConfirmSegment(u, S, g, b) /\ Drop({})

FullCall ==
  \E u \in Users, S \in SUBSET Seats :
    \/ \E ttl \in Ttls : LockFullFor(u, S, ttl)
    \/ UnlockFull(u, S) /\ Drop(S)
    \/ \E b \in Bookings : ConfirmFull(u, S, b) /\ Drop(S)

Request ==
  /\ \/ "segment" \in Modes /\ SegmentCall
     \/ "full" \in Modes /\ FullCall
     \/ CancelRequest /\ Drop({})
     \/ InitializeInventory /\ Drop({})
     \/ CancelScheduleInventory /\ Drop({})
  /\ UNCHANGED now

Tick ==
  /\ now < MaxTime
  /\ now' = now + 1
  /\ UNCHANGED <<invVars, rowDeadline, seatDeadline, job>>

-----------------------------------------------------------------------------
(* The clean-up job *)

Reads(j) == job' = j /\ UNCHANGED <<invVars, now, rowDeadline, seatDeadline>>

\* Mutant: the comparison with the deadline is turned round.
FindFreshRows ==
  /\ job = NoJob
  /\ LET fresh == {k \in LockedKeys(segLocks) : rowDeadline[k] > now}
     IN Reads(IF fresh = {} THEN Job("findSeats", {}, {}, NoCounts)
              ELSE Job("delete", fresh, {k[1] : k \in fresh}, NoCounts))

\* The expired segment rows are listed.
FindRows ==
  /\ job = NoJob
  /\ Reads(IF ExpiredKeys = {} THEN Job("findSeats", {}, {}, NoCounts)
           ELSE Job("delete", ExpiredKeys, {k[1] : k \in ExpiredKeys}, NoCounts))

\* They are deleted by id, whatever their status is by now.
DeleteRows ==
  /\ job.pc = "delete"
  /\ segLocks' = {r \in segLocks : Key(r) \notin job.rows}
  /\ KeepRows
  /\ job' = Job("recompute", {}, job.seats, NoCounts)
  /\ UNCHANGED <<schedule, seats, processed, now, seatDeadline>>

\* recomputeSegmentSeatStatuses reads the rows of the seats without a lock ...
ReadSeatRows ==
  /\ job.pc = "recompute"
  /\ Reads([Job("restate", {}, job.seats, NoCounts) EXCEPT
              !.seen = {r \in segLocks : r.seat \in job.seats}])

\* ... and then locks the seat rows and writes what it read.
RecomputeSeats ==
  /\ job.pc = "restate"
  /\ seats' = Recompute(seats, job.seen, job.seats)
  /\ seatDeadline' = Cleared({})
  /\ job' = Job("countRows", {}, {}, NoCounts)
  /\ UNCHANGED <<schedule, segLocks, processed, now, rowDeadline>>

\* recountAndPublish: the seats are counted in one statement ...
CountSeats ==
  /\ job.pc \in {"countRows", "countSeats"}
  /\ LET n == Recount(schedule, seats)
     IN Reads(Job(IF job.pc = "countRows" THEN "writeRows" ELSE "writeSeats", {}, {},
                  [available |-> n.available, locked |-> n.locked, booked |-> n.booked]))

\* ... and the counters written in the next.
WriteCounts ==
  /\ job.pc \in {"writeRows", "writeSeats"}
  /\ schedule' = [status |-> schedule.status, available |-> job.counts.available,
                  locked |-> job.counts.locked, booked |-> job.counts.booked]
  /\ job' = IF job.pc = "writeRows" THEN Job("findSeats", {}, {}, NoCounts) ELSE NoJob
  /\ UNCHANGED <<seats, segLocks, processed, now, rowDeadline, seatDeadline>>

\* Mutant: the comparison with the deadline is turned round.
FindFreshSeats ==
  /\ job.pc = "findSeats"
  /\ LET fresh == {s \in WithStatus(seats, "LOCKED") : seatDeadline[s] > now}
     IN Reads(IF fresh = {} THEN NoJob ELSE Job("release", {}, fresh, NoCounts))

\* The second phase, for full-journey locks, looks at the seat rows alone.
FindSeats ==
  /\ job.pc = "findSeats"
  /\ Reads(IF ExpiredSeats = {} THEN NoJob
           ELSE Job("release", {}, ExpiredSeats, NoCounts))

\* The status is checked again, the deadline is not.
ReleaseSeats ==
  /\ job.pc = "release"
  /\ LET S == job.seats \cap WithStatus(seats, "LOCKED")
     IN /\ seats' = [s \in Seats |-> IF s \in S
                       THEN Seat("AVAILABLE", NoUser, seats[s].bookingId) ELSE seats[s]]
        /\ seatDeadline' = [s \in Seats |-> IF s \in S THEN Never ELSE seatDeadline[s]]
  /\ job' = Job("countSeats", {}, {}, NoCounts)
  /\ UNCHANGED <<schedule, segLocks, processed, now, rowDeadline>>

\* A statement fails, or its NOWAIT finds a seat taken: the rest of the phase
\* is skipped until the next interval.
JobFails ==
  /\ Reads(IF job.pc \in {"idle", "delete", "recompute", "restate", "countRows", "writeRows"}
           THEN Job("findSeats", {}, {}, NoCounts) ELSE NoJob)

-----------------------------------------------------------------------------
ExpiryInit ==
  /\ Init
  /\ now = 0
  /\ rowDeadline = <<>>
  /\ seatDeadline = [s \in Seats |-> Never]
  /\ job = NoJob

JobStep ==
  \/ FindRows
  \/ DeleteRows
  \/ ReadSeatRows
  \/ RecomputeSeats
  \/ CountSeats
  \/ WriteCounts
  \/ FindSeats
  \/ ReleaseSeats

ExpiryNext == Request \/ Tick \/ JobStep \/ JobFails

\* The clock advances.  setInterval calls the job again and again, and its
\* statements do not fail for ever.
ExpirySpec ==
  /\ ExpiryInit /\ [][ExpiryNext]_expVars
  /\ WF_expVars(Tick)
  /\ WF_expVars(JobStep)
  /\ SF_expVars(FindRows) /\ SF_expVars(DeleteRows)
  /\ SF_expVars(FindSeats) /\ SF_expVars(ReleaseSeats)

-----------------------------------------------------------------------------
(* Properties *)

\* The job never takes a segment row that is held and not expired, although it
\* deletes what it listed earlier: ids are not used twice.
HeldUntilDeadline ==
  [][DeleteRows => \A r \in segLocks \ segLocks' :
       r.status = "LOCKED" => rowDeadline[Key(r)] < now]_expVars

\* A lock that has expired does not last: the job removes it, or a request
\* releases or confirms it first.
ExpiredLocksGo ==
  \A k \in Keys : k \in ExpiredKeys ~> k \notin ExpiredKeys

ExpiredSeatsGo ==
  \A s \in Seats : s \in ExpiredSeats ~> s \notin ExpiredSeats
=============================================================================
