SPECIFICATION Spec
CONSTANTS
  r1 = r1
  r2 = r2
  r3 = r3
  Requests = {r1, r2, r3}
  Signed = {r1, r2}
  StampOf <- Stamps
  NonceOf <- NonceEach
  Deliveries = {d1, d2, d3}
  Second = 2
  Skew = 4
  Ttl = 8
  Timeout = 1
  Horizon = 12
SYMMETRY Symmetry
INVARIANTS
  TypeOK
  AcceptedOnce
  ReplayIsReplay
CHECK_DEADLOCK FALSE
