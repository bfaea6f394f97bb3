SPECIFICATION GatewaySpec
CONSTANTS
  Calls = {c1, c2}
  Addresses = {a1}
  Users = {u1}
  Nobody = Nobody
  IpMax = 2
  UserMax = 1
  Window = 2
  Threshold = 2
  OpenFor = 2
  Burst = 2
INVARIANTS
  GatewayTypeOK
  ClosedIsHealthy
  LimitHolds
PROPERTIES
  TrippedIsQuiet
  BreakerRecovers
