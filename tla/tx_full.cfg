SPECIFICATION TxSpec
CONSTANTS
  Workers = {w1, w2}
  Seats = {s1, s2}
  Users = {u1, u2}
  Bookings = {b1, b2}
  LastStop = 3
  Modes = {"full"}
  NoUser = NoUser
  NoBooking = NoBooking
CHECK_DEADLOCK FALSE
INVARIANTS
  CountersExact
  CancelledIsFinal
PROPERTIES
  ImplementsReservation
