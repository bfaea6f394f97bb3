SPECIFICATION CatalogSpec
CONSTANTS
  DLQ_MAX_RETRIES = 2
  MaxCancels = 1
  MaxRestarts = 1
  Seats = {s1}
  Users = {u1}
  Bookings = {b1}
  LastStop = 2
  Modes = {"segment", "full"}
  NoUser = NoUser
  NoBooking = NoBooking
CHECK_DEADLOCK FALSE
INVARIANTS
  CatalogTypeOK
  SoldThoughCancelledOnlyIfLost
  ListedUnlessLost
PROPERTIES
  NeverRevived
  ConsumerMovesOn
  GivesUpOnlyAfterRetries
