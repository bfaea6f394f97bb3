SPECIFICATION PaymentSpec
CONSTANTS
  Keys = {k1}
  GatewayIds = {g1, g2, g3}
  Attempts = {a1, a2}
  Visits = {v1, v2}
  NoId = NoId
INVARIANTS
  PaymentTypeOK
  OneAnswer
  SuccessIsAuthorized
PROPERTIES
  PaidIsAnnounced
