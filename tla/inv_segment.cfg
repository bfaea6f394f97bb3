SPECIFICATION SegmentSpec
CONSTANTS
  Seats = {s1, s2}
  Users = {u1, u2}
  Bookings = {b1, b2}
  LastStop = 3
  Modes = {"segment"}
  NoUser = NoUser
  NoBooking = NoBooking
SYMMETRY Symmetry
INVARIANTS
  TypeOK
  NoOverlappingSegments
  SummaryMatchesRows
PROPERTIES
  ImplementsReservation
