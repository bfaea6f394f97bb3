SPECIFICATION ExpirySpec
CONSTANTS
  Ttls = {1, 2}
  MaxTime = 3
  Seats = {s1}
  Users = {u1}
  Bookings = {b1}
  LastStop = 3
  Modes = {"segment", "full"}
  NoUser = NoUser
  NoBooking = NoBooking
INVARIANTS
  ExpiryTypeOK
PROPERTIES
  HeldUntilDeadline
  ExpiredLocksGo
  ExpiredSeatsGo
