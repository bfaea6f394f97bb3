SPECIFICATION SagaSpec
CONSTANTS
  Bookings = {b1}
  Handlers = {h1}
  Losses = TRUE
  MaxCrashes = 1
  EarlyCancel = TRUE
  MaxVersion = 6
CHECK_DEADLOCK FALSE
INVARIANTS
  SagaTypeOK
  ConfirmedIsPaid
PROPERTIES
  ClosedForGood
  BookingsSettle
