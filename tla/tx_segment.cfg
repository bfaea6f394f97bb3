SPECIFICATION TxSpec
CONSTANTS
  Workers = {w1, w2}
  Seats = {s1, s2}
  Users = {u1}
  Bookings = {b1}
  LastStop = 3
  Modes = {"segment"}
  NoUser = NoUser
  NoBooking = NoBooking
SYMMETRY Symmetry
INVARIANTS
  TxTypeOK
PROPERTIES
  RowsImplementReservation
