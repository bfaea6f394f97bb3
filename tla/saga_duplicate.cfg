SPECIFICATION SagaSpec
CONSTANTS
  Bookings = {b1}
  Handlers = {h1, h2}
  Losses = FALSE
  MaxCrashes = 0
  EarlyCancel = FALSE
  MaxVersion = 6
CHECK_DEADLOCK FALSE
INVARIANTS
  ConfirmedHasSeats
