SPECIFICATION SagaSpec
CONSTANTS
  Bookings = {b1, b2}
  Handlers = {h1}
  Losses = FALSE
  MaxCrashes = 0
  EarlyCancel = FALSE
  MaxVersion = 6
SYMMETRY Symmetry
CHECK_DEADLOCK FALSE
INVARIANTS
  ConfirmedHasSeats
  SoldIsWanted
  HeldIsWanted
