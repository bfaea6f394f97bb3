--------------------------- MODULE SeatReservation ---------------------------
(***************************************************************************)
(* What the inventory service promises its callers, without its tables.    *)
(*                                                                         *)
(* A claim gives one owner one seat over one stretch of the journey.  It   *)
(* is held while its booking is NoBooking and sold once a booking is set.  *)
(* Two claims on a seat never overlap.  A held claim ends when its owner   *)
(* releases it or turns it into a sale; a sold claim ends when its booking *)
(* is cancelled, and then all claims of that booking end together.         *)
(*                                                                         *)
(* The detailed modules implement this one: Inventory, where every request *)
(* is one transaction, and InventoryTx, where transactions overlap.        *)
(***************************************************************************)
EXTENDS Integers

CONSTANTS
  Seats,      \* seat ids of the schedule
  Users,      \* user ids, the owners of claims
  Bookings,   \* booking ids
  LastStop,   \* sequence number of the terminus; stops are 1..LastStop
  NoBooking   \* the NULL of bookingId

VARIABLE claims

\* A stretch [from, to) of the route; the whole journey reaches past both ends,
\* so that it overlaps every stretch between two stops.
WholeJourney == [from |-> 0, to |-> LastStop + 1]

Stretch == {g \in [from : 1..LastStop, to : 1..LastStop] : g.from < g.to}
             \cup {WholeJourney}

Claim == [seat : Seats, seg : Stretch, owner : Users,
          booking : Bookings \cup {NoBooking}]

Meets(g, h) == g.from < h.to /\ h.from < g.to

ReservationTypeOK == claims \subseteq Claim

\* No two claims on one seat overlap: nobody shares a seat at any point.
Exclusive ==
  \A c, d \in claims : (c.seat = d.seat /\ Meets(c.seg, d.seg)) => c = d

-----------------------------------------------------------------------------
ReservationInit == claims = {}

Hold(u, S, g) ==
  /\ \A c \in claims : c.seat \in S => ~Meets(c.seg, g)
  /\ claims' = claims \cup [seat : S, seg : {g}, owner : {u}, booking : {NoBooking}]

\* The held claims of u on exactly the stretch g of some of the seats in S.
HeldBy(u, S, g) ==
  {c \in claims : /\ c.owner = u
                  /\ c.seat \in S
                  /\ c.seg = g
                  /\ c.booking = NoBooking}

Release(u, S, g) == claims' = claims \ HeldBy(u, S, g)

Sell(u, S, g, b) ==
  claims' = (claims \ HeldBy(u, S, g))
              \cup {[c EXCEPT !.booking = b] : c \in HeldBy(u, S, g)}

CancelSale(b) == claims' = {c \in claims : c.booking # b}

\* The schedule is cancelled: whole-journey claims end with it.
VoidWholeJourneys ==
  claims' = {c \in claims : c.seg # WholeJourney}

ReservationNext ==
  \/ \E u \in Users, S \in SUBSET Seats, g \in Stretch :
        \/ Hold(u, S, g)
        \/ Release(u, S, g)
        \/ \E b \in Bookings : Sell(u, S, g, b)
  \/ \E b \in Bookings : CancelSale(b)
  \/ VoidWholeJourneys

ReservationSpec == ReservationInit /\ [][ReservationNext]_claims
=============================================================================
